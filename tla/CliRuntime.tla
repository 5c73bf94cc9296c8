----------------------------- MODULE CliRuntime -----------------------------
(***************************************************************************)
(* The runtime that submits prompts to a local subscription CLI (claude or *)
(* codex): the per-account capacity lease, the durable invocation row, the *)
(* status of the model connection, the digest queue that feeds it, and the *)
(* user's two interventions (a connection test, and "resume future         *)
(* calls").  Several operating-system processes share one SQLite file; a   *)
(* step of this module is one transaction of one process, or one thing     *)
(* that the outside world does (time, a crash, the provider's answer).     *)
(*                                                                         *)
(* Source: src/src/llm/cli/{capacity-lease,invocation-state,service,       *)
(* child-process-runner}.ts, src/src/db/pending-digests.ts,                *)
(* src/src/metabolism/tasks.ts, src/src/tools/digest.ts and                *)
(* src/client/electron/ipc/connections.ts.                                 *)
(***************************************************************************)
EXTENDS Naturals, FiniteSets

CONSTANTS
    Attempt,     \* calls of runCliLLM, with the worker that makes the call
    Proc,        \* operating-system processes; a restart is a new member
    Conn,        \* rows of model_connections
    Account,     \* account scopes, the key of a capacity lease
    Digest,      \* rows of pending_digests
    None,        \* stands for SQL NULL and for an absent row
    LeaseTtl,    \* ticks that a heartbeat keeps a lease valid
    Grace,       \* ticks that startup reconciliation waits (60 s in the code)
    MaxRetries   \* attempts before a digest is failed for good

ASSUME ParamAssumption ==
    /\ LeaseTtl \in Nat \ {0}
    /\ Grace \in Nat
    /\ MaxRetries \in Nat \ {0}
    /\ IsFiniteSet(Attempt)
    /\ None \notin Attempt \cup Proc \cup Conn \cup Account \cup Digest

VARIABLES
    proc,     \* process -> a Phase of its life
    lease,    \* cli_capacity_leases: account -> row
    inv,      \* cli_invocations: attempt -> row
    conn,     \* model_connections.status
    archived, \* model_connections.archived: the set of archived rows
    digest,   \* pending_digests: digest -> row
    call,     \* parameters an attempt was started with (in its process)
    pc,       \* where the attempt's control is (in its process)
    held,     \* fencing token in the attempt's own copy of its lease
    res,      \* how the attempt is going to end (in its process)
    prompt,   \* what the CLI child did with the prompt (outside world)
    op        \* the settings operation in progress on a connection

rows == <<lease, inv, conn, archived, digest>>
vars == <<proc, rows, call, pc, held, res, prompt, op>>

-----------------------------------------------------------------------------
(* A stdio server, or the desktop application: its window opens before its *)
(* embedded daemon starts, and the daemon is degraded when its worker died.*)
Phase == {"new", "server", "desktop", "daemon", "degraded", "down"}

Kind == {"async", "retry", "other", "test"}

Stage == {"idle", "working", "started", "leased", "checked", "committed",
          "sent", "answered", "settled", "failing", "released", "reporting",
          "completing", "refusing", "done", "dead"}

(* A call that was aborted is among the definite failures: nothing here    *)
(* tells the two apart.                                                    *)
Outcome == {"none", "running", "success", "definite_failure", "ambiguous"}

Result == {"none", "success", "mismatch", "rejected", "definite_failure",
           "ambiguous"}

(* Every status that lets a background call through is "ready"; "busy" is  *)
(* "checking" or "testing"; "unfit" is every status that says why the CLI  *)
(* cannot be used until an environment check or a test succeeds.           *)
Status == {"ready", "unfit", "busy", "ambiguous"}

DigestStatus == {"none", "pending", "processing", "ambiguous", "failed",
                 "completed"}

NoLease == [inv |-> None, token |-> 0, age |-> 0]
NoRow   == [outcome |-> "none", committed |-> FALSE, resolved |-> FALSE,
            unconfirmed |-> FALSE, age |-> 0]
NoCall  == [kind |-> "other", proc |-> None, conn |-> None, acct |-> None,
            work |-> None]
NoOp    == [type |-> "none", proc |-> None, prev |-> "ready",
            ok |-> FALSE, ids |-> {}, acct |-> None]

MaxLeaseAge == LeaseTtl + Grace + 1
MaxInvAge   == Grace + 1

LeaseRow  == [inv : Attempt \cup {None}, token : Nat, age : 0..MaxLeaseAge]
InvRow    == [outcome : Outcome, committed : BOOLEAN, resolved : BOOLEAN,
              unconfirmed : BOOLEAN, age : 0..MaxInvAge]
DigestRow == [status : DigestStatus, retry : 0..MaxRetries]
CallData  == [kind : Kind, proc : Proc \cup {None}, conn : Conn \cup {None},
              acct : Account \cup {None}, work : Digest \cup {None}]
Operation == [type : {"none", "prepare", "test", "check", "resume"},
              proc : Proc \cup {None}, prev : Status, ok : BOOLEAN,
              ids : SUBSET Attempt, acct : Account \cup {None}]

TypeOK ==
    /\ proc \in [Proc -> Phase]
    /\ lease \in [Account -> LeaseRow]
    /\ inv \in [Attempt -> InvRow]
    /\ conn \in [Conn -> Status]
    /\ archived \in SUBSET Conn
    /\ digest \in [Digest -> DigestRow]
    /\ call \in [Attempt -> CallData]
    /\ pc \in [Attempt -> Stage]
    /\ held \in [Attempt -> Nat]
    /\ res \in [Attempt -> Result]
    /\ prompt \in [Attempt -> {"unsent", "running", "ended"}]
    /\ op \in [Conn -> Operation]

(* A database may already hold digests that wait for a retry, and a        *)
(* connection that was never checked.                                      *)
Init ==
    /\ proc = [p \in Proc |-> "new"]
    /\ lease = [a \in Account |-> NoLease]
    /\ inv = [i \in Attempt |-> NoRow]
    /\ conn \in [Conn -> {"ready", "unfit"}]
    /\ archived = {}
    /\ digest \in [Digest -> {[status |-> s, retry |-> 0] :
                                  s \in {"none", "pending"}}]
    /\ call = [i \in Attempt |-> NoCall]
    /\ pc = [i \in Attempt |-> "idle"]
    /\ held = [i \in Attempt |-> 0]
    /\ res = [i \in Attempt |-> "none"]
    /\ prompt = [i \in Attempt |-> "unsent"]
    /\ op = [c \in Conn |-> NoOp]

-----------------------------------------------------------------------------
(* What the code reads.                                                    *)

Desktop(p) == proc[p] \in {"desktop", "daemon", "degraded"}
Up(p)      == p \in Proc /\ (proc[p] = "server" \/ Desktop(p))
Alive(i)   == Up(call[i].proc)
Background(i) == call[i].kind # "test"

(* The scheduler of a stdio server shares the server's event loop; the one *)
(* of the desktop application has a worker thread of its own.              *)
Scheduled(kind)   == kind \in {"retry", "other"}
RunsScheduler(p)  == proc[p] \in {"server", "daemon"}
OnThread(j, p, kind) ==
    /\ call[j].proc = p
    /\ Desktop(p) => (Scheduled(call[j].kind) <=> Scheduled(kind))

(* Stages that a thread leaves again before it serves any other callback:  *)
(* only synchronous SQLite calls and promise continuations lie between.    *)
(* Other threads and processes, time and a crash do get in.                *)
Transient == {"started", "committed", "released", "completing", "refusing"}

Free(p, kind) ==
    /\ Up(p)
    /\ \A j \in Attempt : OnThread(j, p, kind) => pc[j] \notin Transient
Runs(i) ==
    /\ Alive(i)
    /\ \A j \in Attempt \ {i} :
          OnThread(j, call[i].proc, call[i].kind) => pc[j] \notin Transient

Row(i)   == lease[call[i].acct]
Holds(i) == Row(i).inv = i /\ Row(i).token = held[i]
Valid(a) == lease[a].inv # None /\ lease[a].age < LeaseTtl

(* assertCliCapacityFence: the row is still the caller's and unexpired.    *)
Fence(i) == Holds(i) /\ Valid(call[i].acct)

(* An expired row is still honoured while the process that owns its        *)
(* running invocation is alive.                                            *)
OwnerStillRuns(row, rowsOfInv) ==
    /\ row.inv # None
    /\ rowsOfInv[row.inv].outcome = "running"
    /\ Alive(row.inv)

(* Mutant: the TTL alone decides on a takeover.                            *)
RefusedByTtl(a) == Valid(a)

Refused(a) == Valid(a) \/ OwnerStillRuns(lease[a], inv)

UnresolvedIn(rowsOfInv, c) ==
    {i \in Attempt : /\ call[i].conn = c
                     /\ rowsOfInv[i].outcome = "ambiguous"
                     /\ ~rowsOfInv[i].resolved}
Unresolved(c) == UnresolvedIn(inv, c)

(* The connection is still there, and evaluateModelAdmission lets a        *)
(* background call through; a test skips the second part.                  *)
Admits(kind, c) ==
    /\ c \notin archived
    /\ kind # "test" => Unresolved(c) = {} /\ conn[c] = "ready"

(* A failed turn or a stale recovery counts against the digest's budget.   *)
Retried(row) ==
    [status |-> IF row.retry + 1 >= MaxRetries THEN "failed" ELSE "pending",
     retry  |-> IF row.retry + 1 >= MaxRetries THEN MaxRetries
                                               ELSE row.retry + 1]

Completed(row) == [row EXCEPT !.status = "completed"]

Parked(row) ==
    IF row.status \in {"pending", "processing"}
    THEN [row EXCEPT !.status = "ambiguous"] ELSE row

-----------------------------------------------------------------------------
(* The worker around a call.                                               *)

(* brain_digest in async mode: the row is born "processing" and the same   *)
(* process works on it in the background.                                  *)
EnqueueInFlight(i, p, d) ==
    /\ pc[i] = "idle" /\ Free(p, "async")
    /\ digest[d].status = "none"
    /\ digest' = [digest EXCEPT ![d].status = "processing"]
    /\ call' = [call EXCEPT ![i] = [NoCall EXCEPT !.kind = "async",
                                                !.proc = p, !.work = d]]
    /\ pc' = [pc EXCEPT ![i] = "working"]
    /\ UNCHANGED <<proc, lease, inv, conn, archived, held, res, prompt, op>>

(* The scheduler's run lock admits one pass, hence one retry, at a time.   *)
NoRetryRunning ==
    \A j \in Attempt : call[j].kind = "retry" => pc[j] \in {"done", "dead"}

(* Mutant: a row that a crash left behind is simply put back.              *)
RecoveredFreely(S) ==
    [d \in Digest |-> IF d \in S THEN [digest[d] EXCEPT !.status = "pending"]
                                 ELSE digest[d]]

(* The stale recovery: every row that has been "processing" for more than  *)
(* ten minutes, which its worker may have left or still be busy with.      *)
Recovered(S) ==
    [d \in Digest |-> IF d \in S THEN Retried(digest[d]) ELSE digest[d]]
Processing == {d \in Digest : digest[d].status = "processing"}

(* digest-retry: recover stale rows, then claim a row that is due.         *)
ClaimNext(i, p) ==
    /\ pc[i] = "idle" /\ RunsScheduler(p) /\ Free(p, "retry") /\ NoRetryRunning
    /\ \E S \in SUBSET Processing, d \in Digest :
         /\ Recovered(S)[d].status = "pending"
         /\ digest' = [Recovered(S) EXCEPT ![d].status = "processing"]
         /\ call' = [call EXCEPT ![i] = [NoCall EXCEPT !.kind = "retry",
                                                     !.proc = p, !.work = d]]
    /\ pc' = [pc EXCEPT ![i] = "working"]
    /\ UNCHANGED <<proc, lease, inv, conn, archived, held, res, prompt, op>>

(* ... or find none that is due.                                           *)
ClaimNothing(p) ==
    /\ RunsScheduler(p) /\ Free(p, "retry") /\ NoRetryRunning
    /\ \E S \in (SUBSET Processing) \ {{}} : digest' = Recovered(S)
    /\ UNCHANGED <<proc, lease, inv, conn, archived, call, pc, held, res, prompt, op>>

Move(i, from, to) ==
    /\ pc[i] = from /\ Runs(i)
    /\ pc' = [pc EXCEPT ![i] = to]

(* The work ends without a call: none was needed, the environment check    *)
(* failed, or admission refused it before an invocation row existed.       *)
WorkWithoutCall(i) ==
    /\ Move(i, "working", "reporting")
    /\ UNCHANGED <<proc, rows, call, held, res, prompt, op>>

(* startCliInvocation, once the environment check and admission passed.    *)
StartInvocation(i, kind, c) ==
    /\ Admits(kind, c)
    /\ inv' = [inv EXCEPT ![i] = [NoRow EXCEPT !.outcome = "running"]]
    /\ pc' = [pc EXCEPT ![i] = "started"]
    /\ UNCHANGED <<proc, lease, conn, archived, digest, held, res, prompt, op>>

BeginWorkCall(i, c, a) ==
    /\ pc[i] = "working" /\ Runs(i)
    /\ call' = [call EXCEPT ![i].conn = c, ![i].acct = a]
    /\ StartInvocation(i, call[i].kind, c)

(* Any other metabolism task that needs the model.                         *)
BeginOtherCall(i, p, c, a) ==
    /\ pc[i] = "idle" /\ RunsScheduler(p) /\ Free(p, "other")
    /\ call' = [call EXCEPT ![i] = [NoCall EXCEPT !.proc = p, !.conn = c,
                                                !.acct = a]]
    /\ StartInvocation(i, "other", c)

(* connections:test calls the models one after another.                    *)
TestsOf(c) == {j \in Attempt : /\ call[j].kind = "test" /\ call[j].conn = c
                               /\ pc[j] \notin {"done", "dead"}}
BeginTestCall(i, c, a) ==
    /\ pc[i] = "idle" /\ op[c].type = "test" /\ TestsOf(c) = {}
    /\ Free(op[c].proc, "test")
    /\ call' = [call EXCEPT ![i] = [kind |-> "test", proc |-> op[c].proc,
                                    conn |-> c, acct |-> a, work |-> None]]
    /\ StartInvocation(i, "test", c)

-----------------------------------------------------------------------------
(* The call itself, under the lease of its account.                        *)

(* acquireCliCapacityLease: a fresh row, or the takeover of an expired row *)
(* whose owner's call is over or whose owner is gone.                      *)
AcquireLease(i) ==
    /\ pc[i] = "started" /\ Runs(i) /\ ~Refused(call[i].acct)
    /\ LET token == Row(i).token + 1 IN
         /\ lease' = [lease EXCEPT ![call[i].acct] =
                          [inv |-> i, token |-> token, age |-> 0]]
         /\ held' = [held EXCEPT ![i] = token]
    /\ pc' = [pc EXCEPT ![i] = "leased"]
    /\ UNCHANGED <<proc, inv, conn, archived, digest, call, res, prompt, op>>

CapacityRefused(i) ==
    /\ pc[i] = "started" /\ Runs(i) /\ Refused(call[i].acct)
    /\ res' = [res EXCEPT ![i] = "definite_failure"]
    /\ pc' = [pc EXCEPT ![i] = "released"]
    /\ UNCHANGED <<proc, rows, call, held, prompt, op>>

UnderLease == {"leased", "checked", "committed", "sent", "answered",
               "settled", "failing"}

(* The heartbeat; renewal is refused once the row expired or changed hands *)
(* and then aborts the call, which is one of the reasons a call fails.     *)
Renew(i) ==
    /\ pc[i] \in UnderLease /\ Runs(i) /\ Fence(i)
    /\ lease' = [lease EXCEPT ![call[i].acct].age = 0]
    /\ UNCHANGED <<proc, inv, conn, archived, digest, call, pc, held, res, prompt, op>>

FailWith(i, r) ==
    /\ res' = [res EXCEPT ![i] = r]
    /\ UNCHANGED <<proc, rows, call, held, op>>

(* beforePromptCommit: environment re-check, fence and a second admission. *)
PreCommitCheck(i) ==
    /\ Move(i, "leased", "checked")
    /\ Fence(i) /\ Admits(call[i].kind, call[i].conn)
    /\ UNCHANGED <<proc, rows, call, held, res, prompt, op>>

(* Nothing was submitted.  A refusal because of an ambiguity that arose    *)
(* meanwhile is itself an ambiguous_outcome error.                         *)
PreCommitFails(i) ==
    /\ Move(i, "leased", "failing")
    /\ \E r \in {"definite_failure"} \cup
             (IF /\ Background(i)
                 /\ \/ Unresolved(call[i].conn) # {}
                    \/ conn[call[i].conn] = "ambiguous"
              THEN {"ambiguous"} ELSE {}) : FailWith(i, r)
    /\ UNCHANGED prompt

(* onPromptCommitted: the row is marked before the prompt is written.      *)
CommitPrompt(i) ==
    /\ Move(i, "checked", "committed")
    /\ call[i].conn \notin archived
    /\ Fence(i) /\ inv[i].outcome = "running"
    /\ inv' = [inv EXCEPT ![i].committed = TRUE]
    /\ UNCHANGED <<proc, lease, conn, archived, digest, call, held, res, prompt, op>>

(* A row that cannot be marked, because it was judged, the fence was lost  *)
(* or SQLite is busy, is treated as a prompt that may have gone; a         *)
(* cancelled call or a changed route is known not to have been sent.       *)
CommitFails(i) ==
    /\ Move(i, "checked", "failing")
    /\ \E r \in {"definite_failure"} \cup IF Background(i) THEN {"ambiguous"} ELSE {} :
         FailWith(i, r)
    /\ UNCHANGED prompt

SendPrompt(i) ==
    /\ Move(i, "committed", "sent")
    /\ prompt' = [prompt EXCEPT ![i] = "running"]
    /\ UNCHANGED <<proc, rows, call, held, res, op>>

(* The child closed, and adapter.run returned a parsed result.             *)
Answer(i) ==
    /\ Move(i, "sent", "answered")
    /\ prompt' = [prompt EXCEPT ![i] = "ended"]
    /\ UNCHANGED <<proc, rows, call, held, res, op>>

(* The provider said that it refused the prompt (quota, model, login).     *)
Reject(i) ==
    /\ Move(i, "sent", "failing")
    /\ prompt' = [prompt EXCEPT ![i] = "ended"]
    /\ FailWith(i, "rejected")

(* Timeout, abort, crash of the child, unreadable output.  The child is    *)
(* killed, but its exit may remain unconfirmed: then it keeps running.     *)
CallFails(i) ==
    /\ Move(i, "sent", "failing")
    /\ \E fate \in {"running", "ended"} :
         prompt' = [prompt EXCEPT ![i] = fate]
    /\ FailWith(i, IF Background(i) THEN "ambiguous" ELSE "definite_failure")

(* The result transaction.  An answer of another model, or one without the *)
(* mark that a test asks for, is a success in the row and fails the test.  *)
FinishSuccess(i) ==
    /\ Move(i, "answered", "settled")
    /\ Fence(i) /\ inv[i].outcome = "running"
    /\ inv' = [inv EXCEPT ![i].outcome = "success"]
    /\ \E r \in {"success"} \cup IF Background(i) THEN {} ELSE {"mismatch"} :
         res' = [res EXCEPT ![i] = r]
    /\ UNCHANGED <<proc, lease, conn, archived, digest, call, held, prompt, op>>

(* The fence, the account binding or the row was lost after the answer.    *)
FinishFails(i) ==
    /\ Move(i, "answered", "failing")
    /\ \E r \in {"ambiguous"} \cup IF Background(i) THEN {} ELSE {"definite_failure"} :
         FailWith(i, r)
    /\ UNCHANGED prompt

(* The finally of withCliCapacityLease: compare-and-delete, before the     *)
(* failure is persisted.                                                   *)
LeaveLease(i) ==
    /\ pc[i] \in {"settled", "failing"} /\ Runs(i)
    /\ pc' = [pc EXCEPT ![i] = IF pc[i] = "settled" THEN "reporting"
                                                    ELSE "released"]
    /\ UNCHANGED <<proc, inv, conn, archived, digest, call, held, res, prompt, op>>

Release(i) ==
    /\ LeaveLease(i)
    /\ lease' = IF Holds(i) THEN [lease EXCEPT ![call[i].acct] = NoLease]
                            ELSE lease

(* SQLite refused the delete: the row stays until it expires.              *)
ReleaseFails(i) == LeaveLease(i) /\ UNCHANGED lease

FinalOutcome(i) ==
    IF res[i] = "rejected" THEN "definite_failure" ELSE res[i]

(* Mutant: the update is not restricted to running rows.                   *)
FinishedBlindly(i) ==
    [inv[i] EXCEPT !.outcome = FinalOutcome(i),
                   !.unconfirmed = (prompt[i] = "running")]

(* finishCliInvocation: a row that was judged meanwhile is left alone.     *)
Finished(i) ==
    IF inv[i].outcome = "running"
    THEN [inv[i] EXCEPT !.outcome = FinalOutcome(i),
                        !.unconfirmed = (prompt[i] = "running")]
    ELSE inv[i]

(* The failure transaction: the row, the connection's pause and the work   *)
(* item's pause together.                                                  *)
PersistOutcome(i) ==
    /\ Move(i, "released", "reporting")
    /\ inv' = [inv EXCEPT ![i] = Finished(i)]
    /\ IF res[i] = "ambiguous"
       THEN /\ conn' = [c \in Conn |-> IF c = call[i].conn /\ c \notin archived
                                       THEN "ambiguous" ELSE conn[c]]
            /\ digest' = [d \in Digest |-> IF d = call[i].work
                                           THEN Parked(digest[d])
                                           ELSE digest[d]]
       ELSE UNCHANGED <<conn, digest>>
    /\ UNCHANGED <<proc, lease, archived, call, held, res, prompt, op>>

(* The error still reaches the caller when its persistence fails.          *)
PersistFails(i) ==
    /\ Move(i, "released", "reporting")
    /\ UNCHANGED <<proc, rows, call, held, res, prompt, op>>

-----------------------------------------------------------------------------
(* What the caller does with the result.                                   *)

(* The row is updated by its id alone, whatever its status is by now; it is *)
(* gone when it was completed.  A busy database leaves it as it is.        *)
Reported(d, row) ==
    digest' \in {digest, IF digest[d].status = "completed" THEN digest
                         ELSE [digest EXCEPT ![d] = row]}

(* Whether the work succeeds does not depend on what became of its call:   *)
(* reconsolidateNode keeps the old text whatever callLLM throws.           *)
ReportRetry(i) ==
    LET d == call[i].work
    IN /\ call[i].kind = "retry" /\ Move(i, "reporting", "done")
       /\ Reported(d, Completed(digest[d])) \/ Reported(d, Retried(digest[d]))
       /\ UNCHANGED <<proc, lease, inv, conn, archived, call, held, res, prompt, op>>

(* The in-process worker first looks its row up by trace and status ...    *)
FindRow(i) ==
    /\ call[i].kind = "async"
    /\ \E to \in {"completing", "refusing"} :
         LET wanted == IF to = "completing" THEN {"processing"}
                                            ELSE {"pending", "processing"}
         IN Move(i, "reporting",
                 IF digest[call[i].work].status \in wanted THEN to ELSE "done")
    /\ UNCHANGED <<proc, rows, call, held, res, prompt, op>>

(* ... and then completes it, or fails it.                                 *)
ReportAsync(i) ==
    LET d == call[i].work
    IN /\ \/ Move(i, "completing", "done") /\ Reported(d, Completed(digest[d]))
          \/ Move(i, "refusing", "done") /\ Reported(d, Retried(digest[d]))
       /\ UNCHANGED <<proc, lease, inv, conn, archived, call, held, res, prompt, op>>

ReportOther(i) ==
    /\ call[i].kind = "other" /\ Move(i, "reporting", "done")
    /\ UNCHANGED <<proc, rows, call, held, res, prompt, op>>

ReportTest(i) ==
    /\ call[i].kind = "test" /\ Move(i, "reporting", "done")
    /\ op' = [op EXCEPT ![call[i].conn].ok = @ \/ res[i] = "success"]
    /\ UNCHANGED <<proc, rows, call, held, res, prompt>>

-----------------------------------------------------------------------------
(* Processes and startup reconciliation.                                   *)

BootServer(p) ==
    /\ proc[p] = "new"
    /\ proc' = [proc EXCEPT ![p] = "server"]
    /\ UNCHANGED <<rows, call, pc, held, res, prompt, op>>

(* A running row is stale when it has no lease and started long ago, or    *)
(* its lease expired long ago and the owning process is gone.              *)
Stale(i) ==
    /\ inv[i].outcome = "running"
    /\ IF Row(i).inv = i
       THEN Row(i).age > LeaseTtl + Grace /\ ~Alive(i)
       ELSE inv[i].age > Grace

(* Mutant: whatever died unfinished has failed.                            *)
WrittenOff(i) == [inv[i] EXCEPT !.outcome = "definite_failure"]

Written(i) ==
    IF inv[i].committed
    THEN [inv[i] EXCEPT !.outcome = "ambiguous", !.unconfirmed = TRUE]
    ELSE [inv[i] EXCEPT !.outcome = "definite_failure"]

ReconciledInv == [i \in Attempt |-> IF Stale(i) THEN Written(i) ELSE inv[i]]

(* Every waiting digest with an ambiguous invocation is parked, those that *)
(* an earlier crash left behind included.                                  *)
ReconciledDigest ==
    [d \in Digest |->
        IF \E i \in Attempt : /\ call[i].work = d
                              /\ ReconciledInv[i].outcome = "ambiguous"
        THEN Parked(digest[d]) ELSE digest[d]]

ReconciledLease ==
    [a \in Account |->
        IF /\ lease[a].age >= LeaseTtl + Grace
           /\ ~OwnerStillRuns(lease[a], ReconciledInv)
        THEN NoLease ELSE lease[a]]

(* Mutant: a leftover "busy" is cleared without looking for an old         *)
(* ambiguity under it.                                                     *)
ReconciledConnForgetful(idle) ==
    [c \in Conn |->
        IF c \in archived THEN conn[c]
        ELSE IF \E i \in Attempt : call[i].conn = c /\ Stale(i) /\ inv[i].committed
        THEN "ambiguous"
        ELSE IF conn[c] = "busy" THEN idle[c] ELSE conn[c]]

(* The pause is put back where a call is unresolved, unless the connection *)
(* is known to be unfit; an operation that a crash cut short is over.      *)
ReconciledConn(idle) ==
    [c \in Conn |->
        IF c \in archived THEN conn[c]
        ELSE IF \/ conn[c] # "unfit" /\ UnresolvedIn(ReconciledInv, c) # {}
                \/ \E i \in Attempt : /\ call[i].conn = c
                                       /\ Stale(i) /\ inv[i].committed
        THEN "ambiguous"
        ELSE IF conn[c] = "busy" THEN idle[c] ELSE conn[c]]

BootDesktop(p) ==
    /\ proc[p] = "new"
    /\ proc' = [proc EXCEPT ![p] = "desktop"]
    /\ UNCHANGED <<rows, call, pc, held, res, prompt, op>>

(* reconcileCliRuntimeState, one immediate transaction when the embedded   *)
(* daemon starts, seconds after the window: the user may be busy by then.  *)
StartDaemon(p) ==
    /\ proc[p] = "desktop" /\ Free(p, "test")
    /\ proc' = [proc EXCEPT ![p] = "daemon"]
    /\ inv' = ReconciledInv
    /\ digest' = ReconciledDigest
    /\ lease' = ReconciledLease
    /\ \E idle \in [Conn -> {"ready", "unfit"}] : conn' = ReconciledConn(idle)
    /\ UNCHANGED <<archived, call, pc, held, res, prompt, op>>

(* The children are detached: a prompt that was sent outlives its owner.   *)
Crash(p) ==
    /\ Up(p)
    /\ proc' = [proc EXCEPT ![p] = "down"]
    /\ pc' = [i \in Attempt |->
                IF call[i].proc = p /\ pc[i] \notin {"idle", "done"}
                THEN "dead" ELSE pc[i]]
    /\ op' = [c \in Conn |-> IF op[c].proc = p THEN NoOp ELSE op[c]]
    /\ UNCHANGED <<rows, call, held, res, prompt>>

(* The worker thread of the desktop application dies of an uncaught error: *)
(* its calls are gone although the process that owns their rows lives, and *)
(* the session gets no second worker.                                      *)
WorkerDies(p) ==
    /\ proc[p] = "daemon"
    /\ proc' = [proc EXCEPT ![p] = "degraded"]
    /\ pc' = [i \in Attempt |->
                IF /\ call[i].proc = p /\ Scheduled(call[i].kind)
                   /\ pc[i] \notin {"idle", "done"}
                THEN "dead" ELSE pc[i]]
    /\ UNCHANGED <<rows, call, held, res, prompt, op>>

(* An orphan finishes.  While its caller still has to persist the outcome  *)
(* nothing reads whether it has.                                           *)
ChildExit(i) ==
    /\ prompt[i] = "running" /\ pc[i] \in {"reporting", "completing", "refusing", "done", "dead"}
    /\ prompt' = [prompt EXCEPT ![i] = "ended"]
    /\ UNCHANGED <<proc, rows, call, pc, held, res, op>>

(* Mutant: ages are not capped.                                            *)
OlderForever(age, bound) == age + 1

Older(age, bound) == IF age < bound THEN age + 1 ELSE age

Tick ==
    /\ lease' = [a \in Account |->
                    IF lease[a].inv = None THEN lease[a]
                    ELSE [lease[a] EXCEPT !.age = Older(@, MaxLeaseAge)]]
    /\ inv' = [i \in Attempt |->
                    IF inv[i].outcome # "running" THEN inv[i]
                    ELSE [inv[i] EXCEPT !.age = Older(@, MaxInvAge)]]
    /\ UNCHANGED <<proc, conn, archived, digest, call, pc, held, res, prompt, op>>

-----------------------------------------------------------------------------
(* The user, in the settings of the one desktop process.                   *)

NoOtherHost(p) == \A c \in Conn : op[c].proc \in {None, p}

Begin(c, p, type) ==
    /\ Desktop(p) /\ Free(p, "test") /\ op[c].type = "none" /\ NoOtherHost(p)
    /\ op' = [op EXCEPT ![c] = [NoOp EXCEPT !.type = type, !.proc = p,
                                            !.prev = conn[c]]]
    /\ UNCHANGED <<proc, lease, inv, archived, digest, call, pc, held, res, prompt>>

End(c, type) ==
    /\ op[c].type = type /\ TestsOf(c) = {} /\ Free(op[c].proc, "test")
    /\ op' = [op EXCEPT ![c] = NoOp]
    /\ UNCHANGED <<proc, lease, inv, archived, digest, call, pc, held, res, prompt>>

Paused(c) == conn[c] = "ambiguous" \/ Unresolved(c) # {}

BeginTest(c, p) ==
    /\ Begin(c, p, "prepare") /\ c \notin archived
    /\ conn' = [conn EXCEPT ![c] = "busy"]

(* Once the environment was checked, the status is written again, with what *)
(* was found out: also over a pause that was recorded meanwhile.           *)
MarkTesting(c) ==
    /\ op[c].type = "prepare" /\ Free(op[c].proc, "test")
    /\ op' = [op EXCEPT ![c].type = "test"]
    /\ conn' = [conn EXCEPT ![c] = "busy"]
    /\ UNCHANGED <<proc, lease, inv, archived, digest, call, pc, held, res, prompt>>

(* A test proves that the model works now; it never resolves an ambiguity. *)
(* A success may be the work of another login, and then counts for nothing.*)
Judged(c) ==
    \E s \in {"ready", "unfit", "ambiguous"} :
        /\ s = "ready" => op[c].ok \/ op[c].prev # "ambiguous"
        /\ s = "unfit" => op[c].prev # "ambiguous"
        /\ s = "ambiguous" => op[c].prev = "ambiguous"
        /\ conn' = [conn EXCEPT ![c] = IF Unresolved(c) # {} THEN "ambiguous" ELSE s]

(* One that was cancelled puts the previous status back, one that failed   *)
(* says why: unless another status was written meanwhile.                  *)
PutBack(c) ==
    \E s \in {op[c].prev} \cup IF op[c].prev = "ambiguous" THEN {} ELSE {"unfit"} :
        conn' = [conn EXCEPT ![c] = IF conn[c] # "busy" THEN conn[c]
                                    ELSE IF Unresolved(c) # {} THEN "ambiguous"
                                    ELSE s]

EndTest(c) ==
    /\ \/ End(c, "prepare") /\ c \notin archived /\ PutBack(c)
       \/ End(c, "test") /\ c \notin archived /\ (Judged(c) \/ PutBack(c))
       \/ (End(c, "prepare") \/ End(c, "test")) /\ c \in archived /\ UNCHANGED conn

(* runEnvironmentCheck, also behind "refresh models".                      *)
BeginCheck(c, p) ==
    /\ Begin(c, p, "check") /\ c \notin archived
    /\ conn' = [conn EXCEPT ![c] = IF Paused(c) THEN "ambiguous" ELSE "busy"]

EndCheck(c) ==
    /\ End(c, "check")
    /\ \/ /\ c \notin archived
          /\ \E s \in {"ready", "unfit", op[c].prev} :
               conn' = [conn EXCEPT ![c] = IF Paused(c) THEN "ambiguous"
                                           ELSE IF conn[c] = "busy" THEN s
                                           ELSE conn[c]]
       \/ /\ c \in archived
          /\ UNCHANGED conn

Archive(c) ==
    /\ archived' = IF c \in archived THEN archived \ {c} ELSE archived \cup {c}
    /\ UNCHANGED <<proc, lease, inv, conn, digest, call, pc, held, res, prompt, op>>

(* cliResumeWorkPending: something of the old work may still be moving.    *)
WorkPending(c, a) ==
    \/ \E i \in Attempt : call[i].conn = c /\ inv[i].outcome = "running"
    \/ \E b \in Account :
          /\ lease[b].inv # None
          /\ \/ b = a
             \/ call[lease[b].inv].conn = c
             \/ \E i \in Unresolved(c) : call[i].acct = b
    \/ \E i \in Unresolved(c) :
          /\ call[i].work # None
          /\ digest[call[i].work].status \in {"pending", "processing"}

(* Mutant: an exit that was never confirmed does not block.                *)
ExitIgnored(c, a) == FALSE

ExitUnconfirmed(c, a) ==
    \E i \in Attempt : inv[i].unconfirmed /\ (call[i].conn = c \/ call[i].acct = a)

(* hasOutstandingWork, on the thread that would resume: it does not see    *)
(* the children of the metabolism worker.                                  *)
Outstanding(p) ==
    \E i \in Attempt : /\ OnThread(i, p, "test")
                       /\ \/ pc[i] \in {"leased", "checked", "committed", "sent"}
                          \/ prompt[i] = "running"

Resumable(c, a) ==
    /\ c \notin archived /\ conn[c] = "ambiguous" /\ Unresolved(c) # {}
    /\ ~ExitUnconfirmed(c, a) /\ ~WorkPending(c, a)

(* The block is frozen before the environment is checked ...               *)
PrepareResume(c, p, a) ==
    /\ Desktop(p) /\ Free(p, "test") /\ op[c].type = "none" /\ NoOtherHost(p)
    /\ Resumable(c, a) /\ ~Outstanding(p)
    /\ op' = [op EXCEPT ![c] = [NoOp EXCEPT !.type = "resume", !.proc = p,
                                     !.ids = Unresolved(c), !.acct = a]]
    /\ UNCHANGED <<proc, rows, call, pc, held, res, prompt>>

(* ... and compared with the block found afterwards, in the transaction    *)
(* that resolves it.                                                       *)
CommitResume(c) ==
    /\ op[c].type = "resume" /\ Free(op[c].proc, "test") /\ ~Outstanding(op[c].proc)
    /\ Resumable(c, op[c].acct) /\ Unresolved(c) = op[c].ids
    /\ inv' = [i \in Attempt |-> IF i \in Unresolved(c)
                                 THEN [inv[i] EXCEPT !.resolved = TRUE]
                                 ELSE inv[i]]
    /\ conn' = [conn EXCEPT ![c] = "ready"]
    /\ op' = [op EXCEPT ![c] = NoOp]
    /\ UNCHANGED <<proc, lease, archived, digest, call, pc, held, res, prompt>>

(* Cancelled, environment changed, or something moved: nothing is resolved.*)
BlockResume(c) ==
    /\ op[c].type = "resume" /\ Free(op[c].proc, "test")
    /\ op' = [op EXCEPT ![c] = NoOp]
    /\ UNCHANGED <<proc, rows, call, pc, held, res, prompt>>

-----------------------------------------------------------------------------
CallStep(i) ==
    \/ AcquireLease(i) \/ CapacityRefused(i) \/ Renew(i)
    \/ PreCommitCheck(i) \/ PreCommitFails(i)
    \/ CommitPrompt(i) \/ CommitFails(i) \/ SendPrompt(i)
    \/ Answer(i) \/ Reject(i) \/ CallFails(i)
    \/ FinishSuccess(i) \/ FinishFails(i)
    \/ Release(i) \/ ReleaseFails(i)
    \/ PersistOutcome(i) \/ PersistFails(i)
    \/ WorkWithoutCall(i) \/ ReportRetry(i) \/ FindRow(i) \/ ReportAsync(i)
    \/ ReportOther(i) \/ ReportTest(i)
    \/ ChildExit(i)

BeginStep(i) ==
    \/ \E p \in Proc, d \in Digest : EnqueueInFlight(i, p, d)
    \/ \E p \in Proc : ClaimNext(i, p)
    \/ \E c \in Conn, a \in Account :
          \/ BeginWorkCall(i, c, a)
          \/ BeginTestCall(i, c, a)
          \/ \E p \in Proc : BeginOtherCall(i, p, c, a)

ProcStep(p) ==
    \/ BootServer(p) \/ BootDesktop(p) \/ StartDaemon(p)
    \/ Crash(p) \/ WorkerDies(p) \/ ClaimNothing(p)

UserStep(c) ==
    \/ MarkTesting(c) \/ EndTest(c) \/ EndCheck(c) \/ CommitResume(c) \/ BlockResume(c)
    \/ Archive(c)
    \/ \E p \in Proc : \/ BeginTest(c, p) \/ BeginCheck(c, p)
                       \/ \E a \in Account : PrepareResume(c, p, a)

Next ==
    \/ \E i \in Attempt : CallStep(i) \/ BeginStep(i)
    \/ \E p \in Proc : ProcStep(p)
    \/ \E c \in Conn : UserStep(c)
    \/ Tick

Spec == Init /\ [][Next]_vars

-----------------------------------------------------------------------------
(* What must hold.                                                         *)

(* A prompt is in flight from the moment its row is marked until the       *)
(* caller has written the result.                                          *)
InFlight(i) == Alive(i) /\ pc[i] \in {"committed", "sent", "answered"}

(* One account never serves two living callers at once, however long       *)
(* either of them stalls, and whatever expires meanwhile: this is what the *)
(* lease, its takeover rule and reconciliation are for together.           *)
OneLiveCall ==
    \A i, j \in Attempt :
        InFlight(i) /\ InFlight(j) /\ call[i].acct = call[j].acct => i = j

(* A pause is never lost: a connection in use becomes paused in the step   *)
(* that records an ambiguous call, and stays paused while one is           *)
(* unresolved, whoever writes its status: a test that succeeds, an         *)
(* environment check, a resume, another process or a restarted daemon.     *)
Pausing == {"ambiguous", "busy"}
PauseIsKept ==
    [][\A c \in Conn :
          \/ c \notin archived /\ ~(Unresolved(c)' \subseteq Unresolved(c))
          \/ conn[c] \in Pausing /\ Unresolved(c) # {} /\ Unresolved(c)' # {}
          => conn'[c] \in Pausing]_vars

(* A background prompt that was marked as submitted is written off as a    *)
(* definite failure (and so may be repeated) only when the provider itself *)
(* refused it: no crash, stall or reconciliation turns "unknown" into      *)
(* "failed".                                                               *)
NeverWrittenOff ==
    \A i \in Attempt :
        /\ Background(i) /\ inv[i].committed
        /\ inv[i].outcome = "definite_failure"
        => res[i] = "rejected"

(* A final outcome is final: a late owner and a reconciling daemon never   *)
(* overwrite each other's verdict.                                         *)
OutcomeIsFinal ==
    [][\A i \in Attempt :
          inv[i].outcome \notin {"none", "running"}
            => inv'[i].outcome = inv[i].outcome]_vars

(* "Resume future calls" resolves only what it showed the user before the  *)
(* environment check, and only once no prompt of the connection can still  *)
(* be executing, in any process, alive or orphaned.                        *)
ResumeIsSafe ==
    [][\A i \in Attempt :
          ~inv[i].resolved /\ inv'[i].resolved =>
             /\ i \in op[call[i].conn].ids
             /\ \A j \in Attempt :
                   call[j].conn = call[i].conn => prompt[j] # "running"]_vars

(* No digest is worked on for ever: every turn that a worker took on it,   *)
(* but the one it is in now, was counted against its budget, whoever       *)
(* crashed, was recovered too early, failed or parked it in between.  With *)
(* a bounded count this bounds the turns.                                  *)
TakenBy(d) == {i \in Attempt : call[i].work = d}
Counted(row) ==
    row.retry + IF row.status \in {"processing", "ambiguous", "completed"} THEN 1 ELSE 0
EveryTurnCounts ==
    \A d \in Digest : Cardinality(TakenBy(d)) <= Counted(digest[d])

(* The account's calls take turns and are judged once: the refinement.     *)
CurrentCall(a) ==
    IF \E i \in Attempt : InFlight(i) /\ call[i].acct = a
    THEN CHOOSE i \in Attempt : InFlight(i) /\ call[i].acct = a
    ELSE None

VerdictOf(o) ==
    CASE o \in {"none", "running"} -> "open"
      [] o = "success"   -> "success"
      [] o = "ambiguous" -> "unknown"
      [] OTHER -> "failed"

Turns == INSTANCE AccountTurn WITH
    turn <- [a \in Account |-> CurrentCall(a)],
    verdict <- [i \in Attempt |-> VerdictOf(inv[i].outcome)]

ImplementsTurns == Turns!Spec

-----------------------------------------------------------------------------
(* What comments in the source say, and the code does not keep.  Each is   *)
(* refuted by a run of its own; the README tells the stories.              *)

(* The prompt of i reached the provider, the provider did not refuse it,   *)
(* and no result was ever recorded.                                        *)
MayHaveRun(i) ==
    /\ prompt[i] # "unsent" /\ res[i] # "rejected"
    /\ \/ inv[i].outcome = "running" /\ pc[i] = "dead"
       \/ inv[i].outcome = "ambiguous"

(* "Such work must not re-enter the ordinary retry queue": a digest is not *)
(* submitted again when an earlier submission of it may have run.          *)
NoReplay ==
    [][\A i, j \in Attempt :
          /\ i # j /\ call[i].work = call[j].work /\ call[i].work # None
          /\ MayHaveRun(i)
          => ~(prompt[j] = "unsent" /\ prompt'[j] = "running")]_vars
=============================================================================
