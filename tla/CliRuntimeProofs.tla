-------------------------- MODULE CliRuntimeProofs --------------------------
(***************************************************************************)
(* Theorems about CliRuntime, for any number of calls, processes,          *)
(* connections, accounts and digests, and any TTL, grace period and retry  *)
(* budget.  Everything rests on one inductive invariant, IInv: the state   *)
(* is well formed, every call under way belongs to a process that is up,   *)
(* and four facts hold of every call by itself (CallInv).  A step of one   *)
(* call is shown to preserve them for that call (OwnCallStep,              *)
(* OwnBeginStep) and not to touch the others (OthersStep); reconciliation  *)
(* and a crash get a lemma each, and the remaining steps are Quiet.        *)
(***************************************************************************)
EXTENDS CliRuntime, FiniteSetTheorems, TLAPS

Submitting == {"leased", "checked", "committed", "sent", "answered"}
Failing == {"rejected", "definite_failure", "ambiguous"}
Calling == Submitting \cup {"started", "settled", "failing", "released"}

(* An attempt under way belongs to a process that is up, and one that      *)
(* calls has a connection and an account.                                  *)
Owns(i) ==
    /\ pc[i] \notin {"idle", "done", "dead"} => Alive(i)
    /\ pc[i] \in Calling => call[i].conn \in Conn /\ call[i].acct \in Account
    /\ pc[i] \in {"failing", "released"} => res[i] \in Failing

Owned == \A i \in Attempt : Owns(i)

(* The invocation row follows the control of its caller: only a reconciling*)
(* daemon gets in between, and only where the caller has no lease.         *)
RowFollows(i) ==
    /\ pc[i] \in {"idle", "working"} =>
          inv[i].outcome = "none" /\ ~inv[i].committed /\ prompt[i] = "unsent"
    /\ pc[i] \in {"started", "leased", "checked"} => ~inv[i].committed
    /\ pc[i] \in {"committed", "sent", "answered"} =>
          inv[i].outcome = "running" /\ inv[i].committed

(* While a call submits, the lease of its account names it, unless its row *)
(* was judged first.                                                       *)
KeepsLease(i) ==
    pc[i] \in Submitting /\ inv[i].outcome = "running" => Row(i).inv = i

(* What may be written about a background prompt that was submitted.       *)
Unknown(i) ==
    Background(i) /\ inv[i].committed =>
        /\ pc[i] \in {"failing", "released"} => res[i] \in {"ambiguous", "rejected"}
        /\ inv[i].outcome = "definite_failure" => res[i] = "rejected"

(* A prompt that executes can be told from its row.                        *)
Traced(i) ==
    /\ prompt[i] = "running" =>
          /\ inv[i].committed
          /\ inv[i].outcome = "running" \/ inv[i].unconfirmed
    /\ pc[i] = "answered" => prompt[i] # "running"

CallInv(i) == RowFollows(i) /\ KeepsLease(i) /\ Unknown(i) /\ Traced(i)

IInv == TypeOK /\ Owned /\ \A i \in Attempt : CallInv(i)

USE DEF rows

LEMMA InvRowUpdate ==
    ASSUME NEW row \in InvRow
    PROVE  /\ \A o \in Outcome : [row EXCEPT !.outcome = o] \in InvRow
           /\ \A o \in Outcome, u \in BOOLEAN :
                 [row EXCEPT !.outcome = o, !.unconfirmed = u] \in InvRow
           /\ \A b \in BOOLEAN : [row EXCEPT !.committed = b] \in InvRow
           /\ \A b \in BOOLEAN : [row EXCEPT !.resolved = b] \in InvRow
           /\ \A n \in 0..MaxInvAge : [row EXCEPT !.age = n] \in InvRow
BY DEF InvRow

LEMMA OtherRowUpdates ==
    /\ \A row \in LeaseRow, n \in 0..MaxLeaseAge :
          [row EXCEPT !.age = n] \in LeaseRow
    /\ \A row \in DigestRow, s \in DigestStatus :
          [row EXCEPT !.status = s] \in DigestRow
    /\ \A row \in Operation, b \in BOOLEAN : [row EXCEPT !.ok = b] \in Operation
    /\ \A row \in CallData, c \in Conn, a \in Account :
          [row EXCEPT !.conn = c, !.acct = a] \in CallData
<1>1. \A row \in LeaseRow, n \in 0..MaxLeaseAge :
          [row EXCEPT !.age = n] \in LeaseRow
    BY DEF LeaseRow
<1>2. \A row \in DigestRow, s \in DigestStatus :
          [row EXCEPT !.status = s] \in DigestRow
    BY DEF DigestRow
<1>3. \A row \in Operation, b \in BOOLEAN : [row EXCEPT !.ok = b] \in Operation
    BY DEF Operation
<1>4. \A row \in CallData, c \in Conn, a \in Account :
          [row EXCEPT !.conn = c, !.acct = a] \in CallData
    BY DEF CallData
<1>. QED
    BY <1>1, <1>2, <1>3, <1>4

LEMMA NewRows ==
    /\ NoLease \in LeaseRow
    /\ NoRow \in InvRow
    /\ NoCall \in CallData
    /\ NoOp \in Operation
BY ParamAssumption DEF NoLease, LeaseRow, NoRow, InvRow, NoCall, CallData, NoOp,
   Operation, Outcome, Kind, Status, MaxLeaseAge, MaxInvAge

LEMMA DigestRowSteps ==
    \A row \in DigestRow :
        /\ Parked(row) \in DigestRow
        /\ Retried(row) \in DigestRow
        /\ Completed(row) \in DigestRow
<1>. SUFFICES ASSUME NEW row \in DigestRow
     PROVE /\ Parked(row) \in DigestRow
           /\ Retried(row) \in DigestRow
           /\ Completed(row) \in DigestRow
    OBVIOUS
<1>1. Parked(row) \in DigestRow
    BY OtherRowUpdates DEF Parked, DigestStatus
<1>2. Retried(row) \in DigestRow
    BY ParamAssumption DEF Retried, DigestRow, DigestStatus
<1>3. Completed(row) \in DigestRow
    BY OtherRowUpdates DEF Completed, DigestStatus
<1>. QED
    BY <1>1, <1>2, <1>3

LEMMA FinishedType ==
    ASSUME TypeOK, NEW i \in Attempt, res[i] # "none", res[i] # "mismatch"
    PROVE  Finished(i) \in InvRow
<1>1. FinalOutcome(i) \in Outcome
    BY DEF FinalOutcome, TypeOK, Result, Outcome
<1>2. (prompt[i] = "running") \in BOOLEAN /\ inv[i] \in InvRow
    BY DEF TypeOK
<1>. QED
    BY <1>1, <1>2, InvRowUpdate DEF Finished

LEMMA WrittenType ==
    ASSUME TypeOK, NEW i \in Attempt
    PROVE  Written(i) \in InvRow
<1>1. inv[i] \in InvRow
    BY DEF TypeOK
<1>. QED
    BY <1>1, InvRowUpdate DEF Written, Outcome

LEMMA TypeStep == TypeOK /\ Owned /\ [Next]_vars => TypeOK'
<1>. SUFFICES ASSUME TypeOK, Owned, [Next]_vars PROVE TypeOK'
    OBVIOUS
<1>. USE ParamAssumption
<1>1. CASE UNCHANGED vars
    BY <1>1 DEF TypeOK, vars
<1>2. ASSUME NEW i \in Attempt, CallStep(i) PROVE TypeOK'
  <2>1. CASE AcquireLease(i)
      BY <2>1 DEF AcquireLease, TypeOK, Owned, Owns, Calling, Row, LeaseRow,
         Stage, MaxLeaseAge
  <2>2. CASE CapacityRefused(i)
      BY <2>2 DEF CapacityRefused, TypeOK, Stage, Result
  <2>3. CASE Renew(i)
    <3>1. call[i].acct \in Account /\ 0 \in 0..MaxLeaseAge
        BY <2>3 DEF Renew, UnderLease, Owned, Owns, Calling, Submitting,
           MaxLeaseAge
    <3>2. [lease[call[i].acct] EXCEPT !.age = 0] \in LeaseRow
        BY <3>1, OtherRowUpdates DEF TypeOK
    <3>. QED
        BY <2>3, <3>1, <3>2 DEF Renew, TypeOK
  <2>4. CASE PreCommitCheck(i)
      BY <2>4 DEF PreCommitCheck, TypeOK, Move, Stage
  <2>5. CASE PreCommitFails(i)
      BY <2>5 DEF PreCommitFails, TypeOK, Move, FailWith, Stage, Result
  <2>6. CASE CommitPrompt(i)
    <3>1. [inv[i] EXCEPT !.committed = TRUE] \in InvRow
        BY InvRowUpdate DEF TypeOK
    <3>. QED
        BY <2>6, <3>1 DEF CommitPrompt, TypeOK, Move, Stage
  <2>7. CASE CommitFails(i)
      BY <2>7 DEF CommitFails, TypeOK, Move, FailWith, Stage, Result
  <2>8. CASE SendPrompt(i)
      BY <2>8 DEF SendPrompt, TypeOK, Move, Stage
  <2>9. CASE Answer(i)
      BY <2>9 DEF Answer, TypeOK, Move, Stage
  <2>10. CASE Reject(i)
      BY <2>10 DEF Reject, TypeOK, Move, FailWith, Stage, Result
  <2>11. CASE CallFails(i)
      BY <2>11 DEF CallFails, Background, TypeOK, Move, FailWith, Stage, Result
  <2>12. CASE FinishSuccess(i)
    <3>1. [inv[i] EXCEPT !.outcome = "success"] \in InvRow
        BY InvRowUpdate DEF TypeOK, Outcome
    <3>. QED
        BY <2>12, <3>1 DEF FinishSuccess, TypeOK, Move, Stage, Result
  <2>13. CASE FinishFails(i)
      BY <2>13 DEF FinishFails, TypeOK, Move, FailWith, Stage, Result
  <2>14. CASE Release(i)
      BY <2>14, NewRows DEF Release, LeaveLease, TypeOK, Stage
  <2>15. CASE ReleaseFails(i)
      BY <2>15 DEF ReleaseFails, LeaveLease, TypeOK, Stage
  <2>16. CASE PersistOutcome(i)
    <3>1. res[i] # "none" /\ res[i] # "mismatch"
        BY <2>16 DEF PersistOutcome, Move, Owned, Owns, Failing
    <3>2. inv' \in [Attempt -> InvRow]
        BY <2>16, <3>1, FinishedType DEF PersistOutcome, TypeOK
    <3>3. conn' \in [Conn -> Status]
        BY <2>16 DEF PersistOutcome, TypeOK, Status
    <3>4. digest' \in [Digest -> DigestRow]
        BY <2>16, DigestRowSteps DEF PersistOutcome, TypeOK
    <3>. QED
        BY <2>16, <3>2, <3>3, <3>4 DEF PersistOutcome, Move, TypeOK, Stage
  <2>17. CASE PersistFails(i)
      BY <2>17 DEF PersistFails, Move, TypeOK, Stage
  <2>18. CASE WorkWithoutCall(i)
      BY <2>18 DEF WorkWithoutCall, Move, TypeOK, Stage
  <2>19. CASE ReportRetry(i)
    <3>2. digest' \in [Digest -> DigestRow]
        BY <2>19, DigestRowSteps DEF ReportRetry, Reported, TypeOK
    <3>. QED
        BY <2>19, <3>2 DEF ReportRetry, Move, TypeOK, Stage
  <2>20. CASE FindRow(i)
      BY <2>20 DEF FindRow, Move, TypeOK, Stage
  <2>21. CASE ReportAsync(i)
    <3>2. digest' \in [Digest -> DigestRow]
        BY <2>21, DigestRowSteps DEF ReportAsync, Reported, TypeOK
    <3>. QED
        BY <2>21, <3>2 DEF ReportAsync, Move, TypeOK, Stage
  <2>22. CASE ReportOther(i)
      BY <2>22 DEF ReportOther, Move, TypeOK, Stage
  <2>23. CASE ReportTest(i)
    <3>1. \A o \in Operation, b \in BOOLEAN : [o EXCEPT !.ok = b] \in Operation
        BY OtherRowUpdates
    <3>2. op' \in [Conn -> Operation]
      <4>1. op' = [op EXCEPT ![call[i].conn] =
                      [op[call[i].conn] EXCEPT
                          !.ok = op[call[i].conn].ok \/ res[i] = "success"]]
          BY <2>23 DEF ReportTest
      <4>2. \A c \in Conn : (op[c].ok \/ res[i] = "success") \in BOOLEAN
          BY DEF TypeOK, Operation
      <4>. QED
          BY <3>1, <4>1, <4>2 DEF TypeOK
    <3>. QED
        BY <2>23, <3>2 DEF ReportTest, Move, TypeOK, Stage
  <2>24. CASE ChildExit(i)
      BY <2>24 DEF ChildExit, TypeOK
  <2>. QED
      BY <1>2, <2>1, <2>2, <2>3, <2>4, <2>5, <2>6, <2>7, <2>8, <2>9, <2>10,
         <2>11,
         <2>12, <2>13, <2>14, <2>15, <2>16, <2>17, <2>18, <2>19, <2>20, <2>21,
         <2>22, <2>23, <2>24 DEF CallStep
<1>3. ASSUME NEW i \in Attempt, BeginStep(i) PROVE TypeOK'
  <2>1. ASSUME NEW p \in Proc, NEW d \in Digest, EnqueueInFlight(i, p, d)
        PROVE TypeOK'
    <3>1. [NoCall EXCEPT !.kind = "async", !.proc = p, !.work = d] \in CallData
        BY DEF NoCall, CallData, Kind
    <3>2. [digest[d] EXCEPT !.status = "processing"] \in DigestRow
        BY OtherRowUpdates DEF TypeOK, DigestStatus
    <3>. QED
        BY <2>1, <3>1, <3>2 DEF EnqueueInFlight, TypeOK, Stage
  <2>2. ASSUME NEW p \in Proc, ClaimNext(i, p) PROVE TypeOK'
    <3>1. PICK S \in SUBSET Processing, d \in Digest :
             /\ digest' = [Recovered(S) EXCEPT ![d].status = "processing"]
             /\ call' = [call EXCEPT ![i] = [NoCall EXCEPT !.kind = "retry",
                                                         !.proc = p, !.work = d]]
        BY <2>2 DEF ClaimNext
    <3>2. [NoCall EXCEPT !.kind = "retry", !.proc = p, !.work = d] \in CallData
        BY DEF NoCall, CallData, Kind
    <3>3. Recovered(S) \in [Digest -> DigestRow]
        BY DigestRowSteps DEF Recovered, TypeOK
    <3>4. [Recovered(S)[d] EXCEPT !.status = "processing"] \in DigestRow
        BY <3>3, OtherRowUpdates DEF DigestStatus
    <3>. QED
        BY <2>2, <3>1, <3>2, <3>3, <3>4 DEF ClaimNext, TypeOK, Stage
  <2>3. [NoRow EXCEPT !.outcome = "running"] \in InvRow
      BY NewRows, InvRowUpdate DEF Outcome
  <2>4. ASSUME NEW c \in Conn, NEW a \in Account, BeginWorkCall(i, c, a)
        PROVE TypeOK'
    <3>1. [call[i] EXCEPT !.conn = c, !.acct = a] \in CallData
      <4>1. call[i] \in CallData
          BY DEF TypeOK
      <4>. QED
          BY <4>1, OtherRowUpdates
    <3>2. call' = [call EXCEPT ![i] = [call[i] EXCEPT !.conn = c, !.acct = a]]
        BY <2>4 DEF BeginWorkCall, TypeOK
    <3>. QED
        BY <2>3, <2>4, <3>1, <3>2 DEF BeginWorkCall, StartInvocation, TypeOK,
           Stage
  <2>5. ASSUME NEW c \in Conn, NEW a \in Account, BeginTestCall(i, c, a)
        PROVE TypeOK'
    <3>1. [kind |-> "test", proc |-> op[c].proc, conn |-> c, acct |-> a,
           work |-> None] \in CallData
        BY DEF TypeOK, Operation, CallData, Kind
    <3>. QED
        BY <2>3, <2>5, <3>1 DEF BeginTestCall, StartInvocation, TypeOK, Stage
  <2>6. ASSUME NEW c \in Conn, NEW a \in Account, NEW p \in Proc,
               BeginOtherCall(i, p, c, a)
        PROVE TypeOK'
    <3>1. [NoCall EXCEPT !.proc = p, !.conn = c, !.acct = a] \in CallData
        BY DEF NoCall, CallData, Kind
    <3>. QED
        BY <2>3, <2>6, <3>1 DEF BeginOtherCall, StartInvocation, TypeOK, Stage
  <2>. QED
      BY <1>3, <2>1, <2>2, <2>4, <2>5, <2>6 DEF BeginStep
<1>4. ASSUME NEW p \in Proc, ProcStep(p) PROVE TypeOK'
  <2>1. CASE BootServer(p)
      BY <2>1 DEF BootServer, TypeOK, Phase
  <2>2. CASE StartDaemon(p)
    <3>1. ReconciledInv \in [Attempt -> InvRow]
        BY WrittenType DEF ReconciledInv, TypeOK
    <3>2. ReconciledDigest \in [Digest -> DigestRow]
        BY DigestRowSteps DEF ReconciledDigest, TypeOK
    <3>3. ReconciledLease \in [Account -> LeaseRow]
        BY NewRows DEF ReconciledLease, TypeOK
    <3>4. \A idle \in [Conn -> {"ready", "unfit"}] : ReconciledConn(idle) \in [Conn -> Status]
        BY DEF ReconciledConn, TypeOK, Status
    <3>. QED
        BY <2>2, <3>1, <3>2, <3>3, <3>4 DEF StartDaemon, TypeOK, Phase
  <2>3. CASE Crash(p)
      BY <2>3, NewRows DEF Crash, TypeOK, Stage, Phase
  <2>4. CASE ClaimNothing(p)
      BY <2>4, DigestRowSteps DEF ClaimNothing, Recovered, TypeOK
  <2>5. CASE WorkerDies(p)
      BY <2>5 DEF WorkerDies, TypeOK, Stage, Phase
  <2>6. CASE BootDesktop(p)
      BY <2>6 DEF BootDesktop, TypeOK, Phase
  <2>. QED
      BY <1>4, <2>1, <2>2, <2>3, <2>4, <2>5, <2>6 DEF ProcStep
<1>5. ASSUME NEW c \in Conn, UserStep(c) PROVE TypeOK'
  <2>1. CASE EndTest(c)
    <3>1. op' = [op EXCEPT ![c] = NoOp] /\ UNCHANGED <<proc, lease, inv, archived, digest, call, pc, held, res, prompt>>
        BY <2>1 DEF EndTest, End
    <3>2. conn' \in [Conn -> Status]
      <4>1. op[c].prev \in Status /\ conn \in [Conn -> Status]
          BY DEF TypeOK, Operation
      <4>2. CASE Judged(c)
          BY <4>1, <4>2 DEF Judged, Status
      <4>3. CASE PutBack(c)
          BY <4>1, <4>3 DEF PutBack, Status
      <4>4. CASE UNCHANGED conn
          BY <4>1, <4>4
      <4>. QED
          BY <2>1, <4>2, <4>3, <4>4 DEF EndTest
    <3>. QED
        BY <3>1, <3>2, NewRows DEF TypeOK
  <2>2. CASE EndCheck(c)
      BY <2>2, NewRows DEF EndCheck, End, TypeOK, Operation, Status
  <2>3. CASE CommitResume(c)
    <3>1. \A i \in Attempt : [inv[i] EXCEPT !.resolved = TRUE] \in InvRow
        BY InvRowUpdate DEF TypeOK
    <3>. QED
        BY <2>3, <3>1, NewRows DEF CommitResume, TypeOK, Status
  <2>4. CASE BlockResume(c)
      BY <2>4, NewRows DEF BlockResume, TypeOK
  <2>5. CASE Archive(c)
      BY <2>5 DEF Archive, TypeOK
  <2>6. ASSUME NEW p \in Proc, BeginTest(c, p) PROVE TypeOK'
    <3>1. [NoOp EXCEPT !.type = "prepare", !.proc = p, !.prev = conn[c]] \in Operation
        BY DEF NoOp, Operation, TypeOK
    <3>. QED
        BY <2>6, <3>1 DEF BeginTest, Begin, TypeOK, Status
  <2>7. ASSUME NEW p \in Proc, BeginCheck(c, p) PROVE TypeOK'
    <3>1. [NoOp EXCEPT !.type = "check", !.proc = p, !.prev = conn[c]] \in Operation
        BY DEF NoOp, Operation, TypeOK
    <3>. QED
        BY <2>7, <3>1 DEF BeginCheck, Begin, TypeOK, Status
  <2>8. ASSUME NEW p \in Proc, NEW a \in Account, PrepareResume(c, p, a)
        PROVE TypeOK'
    <3>1. [NoOp EXCEPT !.type = "resume", !.proc = p, !.ids = Unresolved(c),
                       !.acct = a] \in Operation
        BY DEF NoOp, Operation, Status, Unresolved, UnresolvedIn
    <3>. QED
        BY <2>8, <3>1 DEF PrepareResume, TypeOK
  <2>9. CASE MarkTesting(c)
    <3>1. [op[c] EXCEPT !.type = "test"] \in Operation
        BY DEF TypeOK, Operation
    <3>. QED
        BY <2>9, <3>1 DEF MarkTesting, TypeOK, Status
  <2>. QED
      BY <1>5, <2>1, <2>2, <2>3, <2>4, <2>5, <2>6, <2>7, <2>8, <2>9 DEF UserStep
<1>6. CASE Tick
  <2>1. \A bound \in Nat : \A n \in 0..bound : Older(n, bound) \in 0..bound
      BY DEF Older
  <2>2. MaxLeaseAge \in Nat /\ MaxInvAge \in Nat
      BY DEF MaxLeaseAge, MaxInvAge
  <2>3. \A row \in LeaseRow :
           [row EXCEPT !.age = Older(row.age, MaxLeaseAge)] \in LeaseRow
      BY <2>1, <2>2, OtherRowUpdates DEF LeaseRow
  <2>4. \A row \in InvRow :
           [row EXCEPT !.age = Older(row.age, MaxInvAge)] \in InvRow
    <3>1. \A row \in InvRow : Older(row.age, MaxInvAge) \in 0..MaxInvAge
        BY <2>1, <2>2 DEF InvRow
    <3>. QED
        BY <3>1, InvRowUpdate
  <2>. QED
      BY <1>6, <2>3, <2>4 DEF Tick, TypeOK
<1>. QED
    BY <1>1, <1>2, <1>3, <1>4, <1>5, <1>6 DEF Next

(***************************************************************************)
(* A step of one attempt leaves the others alone, and their leases too:    *)
(* what it acquires was not refused, and it releases only its own.         *)
(***************************************************************************)
Same(i) ==
    /\ proc' = proc /\ pc'[i] = pc[i] /\ res'[i] = res[i] /\ inv'[i] = inv[i]
    /\ prompt'[i] = prompt[i] /\ call'[i] = call[i]

KeptFor(i) == Row(i).inv = i /\ OwnerStillRuns(Row(i), inv) => Row(i)'.inv = i

LEMMA OthersStep ==
    ASSUME TypeOK, Owned, NEW i \in Attempt, NEW j \in Attempt, i # j,
           CallStep(j) \/ BeginStep(j)
    PROVE  Same(i) /\ KeptFor(i)
<1>1. CASE AcquireLease(j)
  <2>1. Same(i)
      BY <1>1 DEF AcquireLease, Same, TypeOK
  <2>2. call[j].acct \in Account
      BY <1>1 DEF AcquireLease, Owned, Owns, Calling
  <2>3. KeptFor(i)
      BY <1>1, <2>1, <2>2 DEF AcquireLease, KeptFor, Same, Row, Refused, TypeOK
  <2>. QED
      BY <2>1, <2>3
<1>2. CASE CapacityRefused(j)
    BY <1>2 DEF CapacityRefused, Same, KeptFor, Row, TypeOK
<1>3. CASE Renew(j)
  <2>1. \A a \in Account : lease'[a].inv = lease[a].inv
      BY <1>3 DEF Renew, TypeOK, LeaseRow
  <2>2. Same(i)
      BY <1>3 DEF Renew, Same
  <2>. QED
      BY <1>3, <2>1, <2>2 DEF Renew, KeptFor, Same, Row, TypeOK
<1>4. CASE PreCommitCheck(j)
    BY <1>4 DEF PreCommitCheck, Same, KeptFor, Row, TypeOK, Move
<1>5. CASE PreCommitFails(j)
    BY <1>5 DEF PreCommitFails, Same, KeptFor, Row, TypeOK, Move, FailWith
<1>6. CASE CommitPrompt(j)
    BY <1>6 DEF CommitPrompt, Same, KeptFor, Row, TypeOK, Move
<1>7. CASE CommitFails(j)
    BY <1>7 DEF CommitFails, Same, KeptFor, Row, TypeOK, Move, FailWith
<1>8. CASE SendPrompt(j)
    BY <1>8 DEF SendPrompt, Same, KeptFor, Row, TypeOK, Move
<1>9. CASE Answer(j)
    BY <1>9 DEF Answer, Same, KeptFor, Row, TypeOK, Move
<1>10. CASE Reject(j)
    BY <1>10 DEF Reject, Same, KeptFor, Row, TypeOK, Move, FailWith
<1>11. CASE CallFails(j)
    BY <1>11 DEF CallFails, Same, KeptFor, Row, TypeOK, Move, FailWith
<1>12. CASE FinishSuccess(j)
    BY <1>12 DEF FinishSuccess, Same, KeptFor, Row, TypeOK, Move
<1>13. CASE FinishFails(j)
    BY <1>13 DEF FinishFails, Same, KeptFor, Row, TypeOK, Move, FailWith
<1>14. CASE Release(j)
  <2>1. Same(i)
      BY <1>14 DEF Release, LeaveLease, Same, TypeOK
  <2>2. KeptFor(i)
      BY <1>14, <2>1 DEF Release, KeptFor, Same, Row, Holds, TypeOK
  <2>. QED
      BY <2>1, <2>2
<1>15. CASE ReleaseFails(j)
    BY <1>15 DEF ReleaseFails, Same, KeptFor, Row, TypeOK, LeaveLease
<1>16. CASE PersistOutcome(j)
    BY <1>16 DEF PersistOutcome, Same, KeptFor, Row, TypeOK, Move
<1>17. CASE PersistFails(j)
    BY <1>17 DEF PersistFails, Same, KeptFor, Row, TypeOK, Move
<1>18. CASE WorkWithoutCall(j)
    BY <1>18 DEF WorkWithoutCall, Same, KeptFor, Row, TypeOK, Move
<1>19. CASE ReportRetry(j)
    BY <1>19 DEF ReportRetry, Same, KeptFor, Row, TypeOK, Move
<1>20. CASE FindRow(j)
    BY <1>20 DEF FindRow, Same, KeptFor, Row, TypeOK, Move
<1>21. CASE ReportAsync(j)
    BY <1>21 DEF ReportAsync, Same, KeptFor, Row, TypeOK, Move
<1>22. CASE ReportOther(j)
    BY <1>22 DEF ReportOther, Same, KeptFor, Row, TypeOK, Move
<1>23. CASE ReportTest(j)
    BY <1>23 DEF ReportTest, Same, KeptFor, Row, TypeOK, Move
<1>24. CASE ChildExit(j)
    BY <1>24 DEF ChildExit, Same, KeptFor, Row, TypeOK
<1>25. CASE BeginStep(j)
  <2>1. ASSUME NEW p \in Proc, NEW d \in Digest, EnqueueInFlight(j, p, d)
        PROVE  Same(i) /\ KeptFor(i)
      BY <2>1 DEF EnqueueInFlight, Same, KeptFor, Row, TypeOK
  <2>2. ASSUME NEW p \in Proc, ClaimNext(j, p) PROVE Same(i) /\ KeptFor(i)
      BY <2>2 DEF ClaimNext, Same, KeptFor, Row, TypeOK
  <2>3. ASSUME NEW c \in Conn, NEW a \in Account, BeginWorkCall(j, c, a)
        PROVE  Same(i) /\ KeptFor(i)
      BY <2>3 DEF BeginWorkCall, StartInvocation, Same, KeptFor, Row, TypeOK
  <2>4. ASSUME NEW c \in Conn, NEW a \in Account, BeginTestCall(j, c, a)
        PROVE  Same(i) /\ KeptFor(i)
      BY <2>4 DEF BeginTestCall, StartInvocation, Same, KeptFor, Row, TypeOK
  <2>5. ASSUME NEW c \in Conn, NEW a \in Account, NEW p \in Proc,
               BeginOtherCall(j, p, c, a)
        PROVE  Same(i) /\ KeptFor(i)
      BY <2>5 DEF BeginOtherCall, StartInvocation, Same, KeptFor, Row, TypeOK
  <2>. QED
      BY <1>25, <2>1, <2>2, <2>3, <2>4, <2>5 DEF BeginStep
<1>. QED
    BY <1>1, <1>2, <1>3, <1>4, <1>5, <1>6, <1>7, <1>8, <1>9, <1>10, <1>11,
       <1>12, <1>13, <1>14, <1>15, <1>16, <1>17, <1>18, <1>19, <1>20, <1>21,
       <1>22, <1>23, <1>24, <1>25 DEF CallStep

(* ... so its invariant stays.                                             *)
LEMMA SameKeeps ==
    ASSUME TypeOK, Owned, NEW i \in Attempt, CallInv(i), Same(i), KeptFor(i)
    PROVE  CallInv(i)' /\ Owns(i)'
<1>1. RowFollows(i)' /\ Unknown(i)' /\ Traced(i)'
    BY DEF CallInv, RowFollows, Unknown, Traced, Background, Same
<1>2. ASSUME (pc[i] \in Submitting /\ inv[i].outcome = "running")'
      PROVE  Row(i)'.inv = i
  <2>1. Row(i).inv = i /\ Alive(i)
      BY <1>2 DEF CallInv, KeepsLease, Same, Owned, Owns, Submitting
  <2>2. OwnerStillRuns(Row(i), inv)
      BY <1>2, <2>1, ParamAssumption DEF OwnerStillRuns, Same
  <2>. QED
      BY <2>1, <2>2 DEF KeptFor
<1>3. KeepsLease(i)'
    BY <1>2 DEF KeepsLease
<1>4. Owns(i)'
    BY DEF Owned, Owns, Same, Alive, Up, Desktop
<1>. QED
    BY <1>1, <1>3, <1>4 DEF CallInv

(* The step of an attempt itself.                                          *)
LEMMA OwnCallStep ==
    ASSUME TypeOK, Owned, NEW i \in Attempt, CallInv(i), CallStep(i)
    PROVE  CallInv(i)' /\ Owns(i)'
<1>. USE DEF CallInv, RowFollows, KeepsLease, Unknown, Traced, Background,
   Owned, Owns,
             Alive, Up, Desktop, Calling, Submitting, Failing, Row, TypeOK,
             LeaseRow, InvRow
<1>1. CASE AcquireLease(i)
    BY <1>1 DEF AcquireLease
<1>2. CASE CapacityRefused(i)
    BY <1>2 DEF CapacityRefused
<1>3. CASE Renew(i)
    BY <1>3 DEF Renew, UnderLease
<1>4. CASE PreCommitCheck(i)
    BY <1>4 DEF PreCommitCheck, Move
<1>5. CASE PreCommitFails(i)
    BY <1>5 DEF PreCommitFails, Move, FailWith
<1>6. CASE CommitPrompt(i)
  <2>1. /\ inv[i].outcome = "running" /\ inv'[i].outcome = "running"
        /\ inv'[i].committed = TRUE /\ inv'[i].unconfirmed = inv[i].unconfirmed
      BY <1>6 DEF CommitPrompt
  <2>2. pc[i] = "checked" /\ pc'[i] = "committed" /\ Alive(i)
      BY <1>6 DEF CommitPrompt, Move, Runs
  <2>3. Row(i).inv = i /\ Row(i)' = Row(i)
      BY <1>6, <2>1, <2>2 DEF CommitPrompt
  <2>4. ~(prompt[i] = "running") /\ prompt' = prompt
      BY <1>6, <2>2 DEF CommitPrompt
  <2>. QED
      BY <1>6, <2>1, <2>2, <2>3, <2>4 DEF CommitPrompt
<1>7. CASE CommitFails(i)
    BY <1>7 DEF CommitFails, Move, FailWith
<1>8. CASE SendPrompt(i)
    BY <1>8 DEF SendPrompt, Move
<1>9. CASE Answer(i)
    BY <1>9, SMTT(30) DEF Answer, Move
<1>10. CASE Reject(i)
    BY <1>10, SMTT(30) DEF Reject, Move, FailWith
<1>11. CASE CallFails(i)
    BY <1>11, SMTT(30) DEF CallFails, Move, FailWith
<1>12. CASE FinishSuccess(i)
    BY <1>12, SMTT(30) DEF FinishSuccess, Move
<1>13. CASE FinishFails(i)
    BY <1>13 DEF FinishFails, Move, FailWith
<1>14. CASE Release(i)
    BY <1>14 DEF Release, LeaveLease
<1>15. CASE ReleaseFails(i)
    BY <1>15 DEF ReleaseFails, LeaveLease
<1>16. CASE PersistOutcome(i)
    BY <1>16 DEF PersistOutcome, Move, Finished, FinalOutcome
<1>17. CASE PersistFails(i)
    BY <1>17 DEF PersistFails, Move
<1>18. CASE WorkWithoutCall(i)
    BY <1>18 DEF WorkWithoutCall, Move
<1>19. CASE ReportRetry(i)
    BY <1>19 DEF ReportRetry, Move
<1>20. CASE FindRow(i)
    BY <1>20 DEF FindRow, Move
<1>21. CASE ReportAsync(i)
    BY <1>21 DEF ReportAsync, Move
<1>22. CASE ReportOther(i)
    BY <1>22 DEF ReportOther, Move
<1>23. CASE ReportTest(i)
    BY <1>23 DEF ReportTest, Move
<1>24. CASE ChildExit(i)
    BY <1>24 DEF ChildExit
<1>. QED
    BY <1>1, <1>2, <1>3, <1>4, <1>5, <1>6, <1>7, <1>8, <1>9, <1>10, <1>11,
       <1>12, <1>13, <1>14, <1>15, <1>16, <1>17, <1>18, <1>19, <1>20, <1>21,
       <1>22, <1>23, <1>24 DEF CallStep

LEMMA OwnBeginStep ==
    ASSUME TypeOK, Owned, NEW i \in Attempt, CallInv(i), BeginStep(i)
    PROVE  CallInv(i)' /\ Owns(i)'
<1>. USE DEF CallInv, RowFollows, KeepsLease, Unknown, Traced, Background,
   Owned, Owns,
             Alive, Up, Desktop, Free, OnThread, Calling, Submitting, Failing,
             Row, TypeOK, CallData, InvRow, NoCall, NoRow
<1>1. ASSUME NEW p \in Proc, NEW d \in Digest, EnqueueInFlight(i, p, d)
      PROVE  CallInv(i)' /\ Owns(i)'
    BY <1>1 DEF EnqueueInFlight
<1>2. ASSUME NEW p \in Proc, ClaimNext(i, p) PROVE CallInv(i)' /\ Owns(i)'
    BY <1>2 DEF ClaimNext
<1>3. ASSUME NEW c \in Conn, NEW a \in Account, BeginWorkCall(i, c, a)
      PROVE  CallInv(i)' /\ Owns(i)'
  <2>1. /\ call'[i].conn = c /\ call'[i].acct = a
        /\ call'[i].kind = call[i].kind /\ call'[i].proc = call[i].proc
      BY <1>3 DEF BeginWorkCall
  <2>. QED
      BY <1>3, <2>1 DEF BeginWorkCall, StartInvocation
<1>4. ASSUME NEW c \in Conn, NEW a \in Account, BeginTestCall(i, c, a)
      PROVE  CallInv(i)' /\ Owns(i)'
    BY <1>4 DEF BeginTestCall, StartInvocation
<1>5. ASSUME NEW c \in Conn, NEW a \in Account, NEW p \in Proc,
             BeginOtherCall(i, p, c, a)
      PROVE  CallInv(i)' /\ Owns(i)'
    BY <1>5 DEF BeginOtherCall, StartInvocation
<1>. QED
    BY <1>1, <1>2, <1>3, <1>4, <1>5 DEF BeginStep

(***************************************************************************)
(* Steps of the user, of time and of most of a process's life say nothing  *)
(* about a call.                                                           *)
(***************************************************************************)
Quiet(i) ==
    /\ pc'[i] = pc[i] /\ res'[i] = res[i] /\ prompt'[i] = prompt[i]
    /\ call'[i] = call[i] /\ (Alive(i) => Alive(i)')
    /\ inv'[i].outcome = inv[i].outcome /\ inv'[i].committed = inv[i].committed
    /\ inv'[i].unconfirmed = inv[i].unconfirmed
    /\ Row(i).inv # None => Row(i)'.inv = Row(i).inv

LEMMA QuietKeeps ==
    ASSUME TypeOK, Owned, NEW i \in Attempt, CallInv(i), Quiet(i)
    PROVE  CallInv(i)' /\ Owns(i)'
<1>1. RowFollows(i)' /\ Unknown(i)' /\ Traced(i)'
    BY DEF CallInv, RowFollows, Unknown, Traced, Background, Quiet
<1>2. KeepsLease(i)'
    BY ParamAssumption DEF CallInv, KeepsLease, Quiet
<1>3. Owns(i)'
    BY DEF Owned, Owns, Quiet
<1>. QED
    BY <1>1, <1>2, <1>3 DEF CallInv

LEMMA UserQuiet ==
    ASSUME TypeOK, NEW c \in Conn, UserStep(c), NEW i \in Attempt
    PROVE  Quiet(i)
<1>. USE DEF Quiet, Alive, Up, Desktop, Row
<1>1. CASE EndTest(c)
    BY <1>1 DEF EndTest, End
<1>2. CASE EndCheck(c)
    BY <1>2 DEF EndCheck, End
<1>3. CASE CommitResume(c)
  <2>1. inv'[i] \in {inv[i], [inv[i] EXCEPT !.resolved = TRUE]}
      BY <1>3 DEF CommitResume
  <2>2. inv[i] \in InvRow
      BY DEF TypeOK
  <2>3. /\ inv'[i].outcome = inv[i].outcome /\ inv'[i].committed = inv[i].committed
        /\ inv'[i].unconfirmed = inv[i].unconfirmed
      BY <2>1, <2>2 DEF InvRow
  <2>. QED
      BY <1>3, <2>3 DEF CommitResume
<1>4. CASE BlockResume(c)
    BY <1>4 DEF BlockResume
<1>5. CASE Archive(c)
    BY <1>5 DEF Archive
<1>6. ASSUME NEW p \in Proc, BeginTest(c, p) PROVE Quiet(i)
    BY <1>6 DEF BeginTest, Begin
<1>7. ASSUME NEW p \in Proc, BeginCheck(c, p) PROVE Quiet(i)
    BY <1>7 DEF BeginCheck, Begin
<1>8. ASSUME NEW p \in Proc, NEW a \in Account, PrepareResume(c, p, a)
      PROVE Quiet(i)
    BY <1>8 DEF PrepareResume
<1>9. CASE MarkTesting(c)
    BY <1>9 DEF MarkTesting
<1>. QED
    BY <1>1, <1>2, <1>3, <1>4, <1>5, <1>6, <1>7, <1>8, <1>9 DEF UserStep

LEMMA TickQuiet ==
    ASSUME TypeOK, Tick, NEW i \in Attempt, Owns(i), pc[i] \in Submitting
    PROVE  Row(i)'.inv = Row(i).inv
<1>1. call[i].acct \in Account /\ call' = call
    BY DEF Tick, Owns, Calling
<1>2. lease'[call[i].acct].inv = lease[call[i].acct].inv
    BY <1>1 DEF Tick, TypeOK, LeaseRow
<1>. QED
    BY <1>1, <1>2 DEF Row

(* A reconciling daemon judges no call that is under way with its lease,   *)
(* and takes no lease from a call that runs.                               *)
LEMMA BootStep ==
    ASSUME TypeOK, Owned, NEW i \in Attempt, CallInv(i), NEW p \in Proc, StartDaemon(p)
    PROVE  CallInv(i)' /\ Owns(i)'
<1>1. /\ inv' = ReconciledInv /\ lease' = ReconciledLease
      /\ UNCHANGED <<call, pc, res, prompt>>
    BY DEF StartDaemon
<1>2. Alive(i) => Alive(i)'
    BY DEF StartDaemon, Alive, Up, Desktop, TypeOK
<1>3. inv'[i] = IF Stale(i) THEN Written(i) ELSE inv[i]
    BY <1>1 DEF ReconciledInv
<1>4. Owns(i)'
    BY <1>1, <1>2 DEF Owned, Owns
<1>5. inv[i] \in InvRow
    BY DEF TypeOK
<1>6. ASSUME pc[i] \in Submitting, inv[i].outcome = "running"
      PROVE  ~Stale(i)
  <2>1. Row(i).inv = i
      BY <1>6 DEF CallInv, KeepsLease
  <2>2. Alive(i)
      BY <1>6 DEF Owned, Owns, Submitting
  <2>. QED
      BY <2>1, <2>2 DEF Stale
<1>7. CASE ~Stale(i)
  <2>1. inv'[i] = inv[i]
      BY <1>3, <1>7
  <2>2. RowFollows(i)' /\ Unknown(i)' /\ Traced(i)'
      BY <1>1, <2>1 DEF CallInv, RowFollows, Unknown, Traced, Background
  <2>3. ASSUME pc[i] \in Submitting, inv[i].outcome = "running"
        PROVE  Row(i)'.inv = i
    <3>1. Row(i).inv = i /\ Alive(i) /\ call[i].acct \in Account
        BY <2>3 DEF CallInv, KeepsLease, Owned, Owns, Submitting, Calling
    <3>2. OwnerStillRuns(Row(i), ReconciledInv)
        BY <1>1, <2>1, <2>3, <3>1, ParamAssumption DEF OwnerStillRuns
    <3>3. lease'[call[i].acct] = lease[call[i].acct]
        BY <1>1, <3>1, <3>2 DEF ReconciledLease, Row
    <3>. QED
        BY <1>1, <3>1, <3>3 DEF Row
  <2>. QED
      BY <1>1, <1>4, <2>1, <2>2, <2>3 DEF CallInv, KeepsLease
<1>8. CASE Stale(i)
  <2>1. inv[i].outcome = "running" /\ inv'[i] = Written(i)
      BY <1>3, <1>8 DEF Stale
  <2>2. pc[i] \notin Submitting
      BY <1>6, <1>8, <2>1
  <2>3. /\ inv'[i].committed = inv[i].committed
        /\ inv[i].committed => inv'[i].outcome = "ambiguous" /\ inv'[i].unconfirmed
      BY <1>5, <2>1 DEF Written, InvRow
  <2>4. pc[i] \notin {"idle", "working"}
      BY <2>1 DEF CallInv, RowFollows
  <2>5. RowFollows(i)' /\ KeepsLease(i)'
      BY <1>1, <2>2, <2>3, <2>4 DEF RowFollows, KeepsLease, Submitting, CallInv
  <2>6. Unknown(i)' /\ Traced(i)'
      BY <1>1, <2>3 DEF CallInv, Unknown, Traced, Background
  <2>. QED
      BY <1>4, <2>5, <2>6 DEF CallInv
<1>. QED
    BY <1>7, <1>8

(* A crash of the process or of its worker ends calls, and an attempt that *)
(* goes on still has its process.                                          *)
LEMMA CrashStep ==
    ASSUME TypeOK, Owned, NEW i \in Attempt, CallInv(i), NEW p \in Proc,
           Crash(p) \/ WorkerDies(p)
    PROVE  CallInv(i)' /\ Owns(i)'
<1>1. UNCHANGED <<lease, inv, call, res, prompt>> /\ pc'[i] \in {pc[i], "dead"}
    BY DEF Crash, WorkerDies
<1>2. CASE pc'[i] = "dead"
    BY <1>1, <1>2 DEF CallInv, RowFollows, KeepsLease, Unknown, Traced,
       Background,
       Owns, Submitting, Calling
<1>3. CASE pc'[i] # "dead"
  <2>1. pc'[i] = pc[i]
      BY <1>1, <1>3
  <2>2. RowFollows(i)' /\ KeepsLease(i)' /\ Unknown(i)' /\ Traced(i)'
      BY <1>1, <2>1 DEF CallInv, RowFollows, KeepsLease, Unknown, Traced,
         Background, Row
  <2>3. ASSUME pc[i] \notin {"idle", "done", "dead"} PROVE Alive(i)'
    <3>1. Alive(i) /\ call'[i] = call[i]
        BY <1>1, <2>3 DEF Owned, Owns
    <3>2. CASE Crash(p)
      <4>1. call[i].proc # p
          BY <1>3, <2>3, <3>2 DEF Crash
      <4>. QED
          BY <3>1, <3>2, <4>1 DEF Crash, Alive, Up, Desktop, TypeOK
    <3>3. CASE WorkerDies(p)
        BY <3>1, <3>3 DEF WorkerDies, Alive, Up, Desktop, TypeOK
    <3>. QED
        BY <3>2, <3>3
  <2>4. Owns(i)'
      BY <1>1, <2>1, <2>3 DEF Owned, Owns
  <2>. QED
      BY <2>2, <2>4 DEF CallInv
<1>. QED
    BY <1>2, <1>3

LEMMA ProcQuiet ==
    ASSUME TypeOK, NEW p \in Proc, NEW i \in Attempt,
           BootServer(p) \/ BootDesktop(p) \/ ClaimNothing(p)
    PROVE  Quiet(i)
BY DEF BootServer, BootDesktop, ClaimNothing, Quiet, Alive, Up, Desktop, Row,
   TypeOK

(***************************************************************************)
(* The inductive invariant.                                                *)
(***************************************************************************)
LEMMA CallInvStep ==
    ASSUME TypeOK, Owned, NEW i \in Attempt, CallInv(i), [Next]_vars
    PROVE  CallInv(i)' /\ Owns(i)'
<1>1. CASE UNCHANGED vars
  <2>1. Quiet(i)
      BY <1>1 DEF vars, Quiet, Alive, Up, Desktop, Row
  <2>. QED
      BY <2>1, QuietKeeps
<1>2. ASSUME NEW j \in Attempt, CallStep(j) \/ BeginStep(j)
      PROVE  CallInv(i)' /\ Owns(i)'
    BY <1>2, OwnCallStep, OwnBeginStep, OthersStep, SameKeeps
<1>3. ASSUME NEW p \in Proc, ProcStep(p) PROVE CallInv(i)' /\ Owns(i)'
    BY <1>3, ProcQuiet, QuietKeeps, BootStep, CrashStep DEF ProcStep
<1>4. ASSUME NEW c \in Conn, UserStep(c) PROVE CallInv(i)' /\ Owns(i)'
    BY <1>4, UserQuiet, QuietKeeps
<1>5. CASE Tick
  <2>1. inv'[i].outcome = inv[i].outcome /\ inv'[i].committed = inv[i].committed
        /\ inv'[i].unconfirmed = inv[i].unconfirmed
      BY <1>5 DEF Tick, TypeOK, InvRow
  <2>2. /\ UNCHANGED <<pc, res, prompt, call, proc>>
      BY <1>5 DEF Tick
  <2>3. Owns(i)'
      BY <2>2 DEF Owned, Owns, Alive, Up, Desktop
  <2>4. RowFollows(i)' /\ Unknown(i)' /\ Traced(i)'
      BY <2>1, <2>2 DEF CallInv, RowFollows, Unknown, Traced, Background
  <2>5. KeepsLease(i)'
      BY <1>5, <2>1, <2>2, TickQuiet DEF CallInv, KeepsLease, Owned
  <2>. QED
      BY <2>3, <2>4, <2>5 DEF CallInv
<1>. QED
    BY <1>1, <1>2, <1>3, <1>4, <1>5 DEF Next

LEMMA InitIInv == Init => IInv
<1>. SUFFICES ASSUME Init PROVE IInv
    OBVIOUS
<1>1. TypeOK
    BY NewRows, ParamAssumption DEF Init, TypeOK, Status, DigestRow,
       DigestStatus, Stage, Result, Phase
<1>2. \A i \in Attempt : Owns(i) /\ CallInv(i)
    BY DEF Init, Owns, CallInv, RowFollows, KeepsLease, Unknown, Traced, NoRow,
       Calling, Submitting
<1>. QED
    BY <1>1, <1>2 DEF IInv, Owned

LEMMA StepIInv == IInv /\ [Next]_vars => IInv'
<1>. SUFFICES ASSUME IInv, [Next]_vars PROVE IInv'
    OBVIOUS
<1>1. TypeOK'
    BY TypeStep DEF IInv
<1>2. \A i \in Attempt : CallInv(i)' /\ Owns(i)'
    BY CallInvStep DEF IInv
<1>. QED
    BY <1>1, <1>2 DEF IInv, Owned

(* The invariant that every safety theorem below rests on: it holds in     *)
(* every reachable state, for any number of calls, processes, connections, *)
(* accounts and digests, and any TTL, grace period and retry budget.       *)
THEOREM Inductive == Spec => []IInv
BY InitIInv, StepIInv, PTL DEF Spec

(* The state of the runtime is always well formed.                         *)
THEOREM TypeCorrect == Spec => []TypeOK
<1>1. IInv => TypeOK
    BY DEF IInv
<1>. QED
    BY <1>1, Inductive, PTL

(***************************************************************************)
(* What follows from it in one state.                                      *)
(***************************************************************************)
LEMMA IInvOneLiveCall == IInv => OneLiveCall
<1>. SUFFICES ASSUME IInv, NEW i \in Attempt, NEW j \in Attempt,
                     InFlight(i), InFlight(j), call[i].acct = call[j].acct
              PROVE  i = j
    BY DEF OneLiveCall
<1>1. \A k \in {i, j} : Row(k).inv = k
    BY DEF IInv, CallInv, InFlight, RowFollows, KeepsLease, Submitting
<1>. QED
    BY <1>1 DEF Row

(* One account never serves two living callers at once.                    *)
THEOREM OneLiveCallCorrect == Spec => []OneLiveCall
BY IInvOneLiveCall, Inductive, PTL

LEMMA IInvNeverWrittenOff == IInv => NeverWrittenOff
BY DEF IInv, CallInv, Unknown, NeverWrittenOff

(* An unknown outcome of a submitted prompt is never turned into a failure *)
(* that may be repeated.                                                   *)
THEOREM NeverWrittenOffCorrect == Spec => []NeverWrittenOff
BY IInvNeverWrittenOff, Inductive, PTL

(***************************************************************************)
(* What a step does to a judged row, to a resolved one, and to a finished  *)
(* attempt.                                                                *)
(***************************************************************************)
RowStep(i) ==
    /\ inv[i].outcome \notin {"none", "running"} => inv'[i].outcome = inv[i].outcome
    /\ inv'[i].resolved => inv[i].resolved

LEMMA OwnRowStep ==
    ASSUME IInv, NEW i \in Attempt, CallStep(i) \/ BeginStep(i)
    PROVE  RowStep(i)
<1>1. inv[i] \in InvRow /\ inv \in [Attempt -> InvRow]
    BY DEF IInv, TypeOK
<1>2. CASE inv' = inv
    BY <1>2 DEF RowStep
<1>3. CASE CommitPrompt(i)
    BY <1>1, <1>3 DEF CommitPrompt, RowStep, InvRow
<1>4. CASE FinishSuccess(i)
    BY <1>1, <1>4 DEF FinishSuccess, RowStep, InvRow
<1>5. CASE PersistOutcome(i)
    BY <1>1, <1>5 DEF PersistOutcome, Finished, RowStep, InvRow
<1>6. CASE BeginStep(i)
  <2>1. \/ inv' = inv
        \/ /\ pc[i] \in {"idle", "working"}
           /\ inv' = [inv EXCEPT ![i] = [NoRow EXCEPT !.outcome = "running"]]
      BY <1>6 DEF BeginStep, EnqueueInFlight, ClaimNext, BeginWorkCall,
         BeginTestCall,
         BeginOtherCall, StartInvocation
  <2>2. pc[i] \in {"idle", "working"} => inv[i].outcome = "none"
      BY DEF IInv, CallInv, RowFollows
  <2>. QED
      BY <1>1, <2>1, <2>2 DEF RowStep, NoRow
<1>7. CASE CallStep(i)
  <2>1. \/ inv' = inv
        \/ CommitPrompt(i) \/ FinishSuccess(i) \/ PersistOutcome(i)
      BY <1>7 DEF CallStep, AcquireLease, CapacityRefused, Renew,
         PreCommitCheck,
         PreCommitFails, CommitFails, SendPrompt, Answer, Reject, CallFails,
         FinishFails, Release, ReleaseFails, LeaveLease, PersistFails, FailWith,
         WorkWithoutCall, ReportRetry, FindRow, ReportAsync, ReportOther,
         ReportTest, ChildExit
  <2>. QED
      BY <1>2, <1>3, <1>4, <1>5, <2>1
<1>. QED
    BY <1>6, <1>7

LEMMA RowSteps ==
    ASSUME IInv, NEW i \in Attempt, [Next]_vars,
           \A c \in Conn : ~CommitResume(c)
    PROVE  RowStep(i)
<1>0. TypeOK /\ Owned
    BY DEF IInv
<1>1. CASE inv'[i] = inv[i]
    BY <1>1 DEF RowStep
<1>2. ASSUME NEW j \in Attempt, CallStep(j) \/ BeginStep(j) PROVE RowStep(i)
    BY <1>0, <1>1, <1>2, OwnRowStep, OthersStep DEF Same
<1>3. ASSUME NEW p \in Proc, ProcStep(p) PROVE RowStep(i)
  <2>1. CASE StartDaemon(p)
    <3>1. inv'[i] = IF Stale(i) THEN Written(i) ELSE inv[i]
        BY <2>1 DEF StartDaemon, ReconciledInv
    <3>2. inv[i] \in InvRow
        BY <1>0 DEF TypeOK
    <3>. QED
        BY <1>1, <3>1, <3>2 DEF Stale, Written, RowStep, InvRow
  <2>. QED
      BY <1>1, <1>3, <2>1 DEF ProcStep, BootServer, BootDesktop, WorkerDies,
         Crash, ClaimNothing
<1>4. ASSUME NEW c \in Conn, UserStep(c) PROVE RowStep(i)
    BY <1>1, <1>4 DEF UserStep, EndTest, EndCheck, End, BlockResume, Archive,
       BeginTest, MarkTesting,
       BeginCheck, Begin, PrepareResume
<1>5. CASE Tick
  <2>1. inv[i] \in InvRow
      BY <1>0 DEF TypeOK
  <2>. QED
      BY <1>1, <1>5, <2>1 DEF Tick, RowStep, InvRow
<1>. QED
    BY <1>1, <1>2, <1>3, <1>4, <1>5 DEF Next, vars

LEMMA FinalStep ==
    ASSUME IInv, NEW i \in Attempt, [Next]_vars,
           inv[i].outcome \notin {"none", "running"}
    PROVE  inv'[i].outcome = inv[i].outcome
<1>1. CASE \E c \in Conn : CommitResume(c)
  <2>1. PICK c \in Conn : CommitResume(c)
      BY <1>1
  <2>2. Quiet(i)
      BY <2>1, UserQuiet DEF UserStep, IInv
  <2>. QED
      BY <2>2 DEF Quiet
<1>2. CASE \A c \in Conn : ~CommitResume(c)
    BY <1>2, RowSteps DEF RowStep
<1>. QED
    BY <1>1, <1>2

(* A final outcome is final: neither a late owner nor a reconciling daemon *)
(* overwrites the other's verdict.                                         *)
THEOREM OutcomeIsFinalCorrect == Spec => OutcomeIsFinal
<1>1. IInv /\ [Next]_vars =>
         [\A i \in Attempt : inv[i].outcome \notin {"none", "running"}
                                 => inv'[i].outcome = inv[i].outcome]_vars
    BY FinalStep
<1>. QED
    BY <1>1, Inductive, PTL DEF Spec, OutcomeIsFinal

(***************************************************************************)
(* Resuming: only CommitResume resolves, and its checks leave no row under *)
(* which a prompt could be executing.                                      *)
(***************************************************************************)
LEMMA ResumeStep ==
    ASSUME IInv, NEW i \in Attempt, [Next]_vars, ~inv[i].resolved, inv'[i].resolved
    PROVE  /\ i \in op[call[i].conn].ids
           /\ \A j \in Attempt :
                 call[j].conn = call[i].conn => prompt[j] # "running"
<1>1. PICK c \in Conn : CommitResume(c)
    BY RowSteps DEF RowStep
<1>2. i \in Unresolved(c) /\ Unresolved(c) = op[c].ids
    BY <1>1 DEF CommitResume
<1>3. call[i].conn = c
    BY <1>2 DEF Unresolved, UnresolvedIn
<1>4. ASSUME NEW j \in Attempt, call[j].conn = c PROVE prompt[j] # "running"
  <2>1. inv[j].outcome # "running" /\ ~inv[j].unconfirmed
      BY <1>1, <1>4 DEF CommitResume, Resumable, WorkPending, ExitUnconfirmed
  <2>. QED
      BY <2>1 DEF IInv, CallInv, Traced
<1>. QED
    BY <1>2, <1>3, <1>4

(* "Resume future calls" resolves only what it showed the user, and only   *)
(* once no prompt of the connection can still be executing.                *)
THEOREM ResumeIsSafeCorrect == Spec => ResumeIsSafe
<1>1. IInv /\ [Next]_vars =>
         [\A i \in Attempt :
             ~inv[i].resolved /\ inv'[i].resolved =>
                /\ i \in op[call[i].conn].ids
                /\ \A j \in Attempt :
                      call[j].conn = call[i].conn => prompt[j] # "running"]_vars
    BY ResumeStep
<1>. QED
    BY <1>1, Inductive, PTL DEF Spec, ResumeIsSafe

(***************************************************************************)
(* A pause is kept.                                                        *)
(***************************************************************************)
KeepsPause(c) ==
    \/ c \notin archived /\ ~(Unresolved(c)' \subseteq Unresolved(c))
    \/ conn[c] \in Pausing /\ Unresolved(c) # {} /\ Unresolved(c)' # {}
    => conn'[c] \in Pausing

(* A row that a step makes ambiguous, on the connection it belongs to.     *)
NewlyUnknown(i) ==
    (inv[i].outcome = "ambiguous" /\ ~inv[i].resolved)'
    /\ ~(inv[i].outcome = "ambiguous" /\ ~inv[i].resolved /\ call'[i].conn = call[i].conn)

LEMMA NothingNew ==
    ASSUME NEW c \in Conn, conn' = conn, \A i \in Attempt : ~NewlyUnknown(i)
    PROVE  KeepsPause(c)
BY DEF KeepsPause, Unresolved, UnresolvedIn, NewlyUnknown

LEMMA OwnNews ==
    ASSUME IInv, NEW i \in Attempt, CallStep(i) \/ BeginStep(i), ~PersistOutcome(i)
    PROVE  ~NewlyUnknown(i) /\ conn' = conn
<1>1. inv[i] \in InvRow /\ inv \in [Attempt -> InvRow] /\ call \in [Attempt -> CallData]
    BY DEF IInv, TypeOK
<1>2. CASE inv' = inv /\ call' = call /\ conn' = conn
    BY <1>2 DEF NewlyUnknown
<1>3. CASE CommitPrompt(i)
    BY <1>1, <1>3 DEF CommitPrompt, NewlyUnknown, InvRow
<1>4. CASE FinishSuccess(i)
    BY <1>1, <1>4 DEF FinishSuccess, NewlyUnknown, InvRow
<1>5. CASE BeginStep(i)
  <2>1. /\ conn' = conn /\ pc[i] \in {"idle", "working"}
        /\ \/ inv' = inv
           \/ inv' = [inv EXCEPT ![i] = [NoRow EXCEPT !.outcome = "running"]]
      BY <1>5 DEF BeginStep, EnqueueInFlight, ClaimNext, BeginWorkCall,
         BeginTestCall,
         BeginOtherCall, StartInvocation
  <2>2. pc[i] \in {"idle", "working"} => inv[i].outcome = "none"
      BY DEF IInv, CallInv, RowFollows
  <2>. QED
      BY <1>1, <2>1, <2>2 DEF NewlyUnknown, NoRow
<1>6. CASE CallStep(i)
  <2>1. \/ inv' = inv /\ call' = call /\ conn' = conn
        \/ CommitPrompt(i) \/ FinishSuccess(i)
      BY <1>6 DEF CallStep, AcquireLease, CapacityRefused, Renew,
         PreCommitCheck,
         PreCommitFails, CommitFails, SendPrompt, Answer, Reject, CallFails,
         FinishFails, Release, ReleaseFails, LeaveLease, PersistFails, FailWith,
         WorkWithoutCall, ReportRetry, FindRow, ReportAsync, ReportOther,
         ReportTest, ChildExit
  <2>. QED
      BY <1>2, <1>3, <1>4, <2>1
<1>. QED
    BY <1>5, <1>6

LEMMA CallPause ==
    ASSUME IInv, NEW c \in Conn, NEW i \in Attempt, CallStep(i) \/ BeginStep(i)
    PROVE  KeepsPause(c)
<1>1. ASSUME NEW j \in Attempt, j # i PROVE ~NewlyUnknown(j)
    BY <1>1, OthersStep DEF IInv, Same, NewlyUnknown
<1>2. CASE ~PersistOutcome(i)
    BY <1>1, <1>2, OwnNews, NothingNew
<1>3. CASE PersistOutcome(i) /\ res[i] # "ambiguous"
  <2>1. conn' = conn /\ inv' = [inv EXCEPT ![i] = Finished(i)] /\ call' = call
      BY <1>3 DEF PersistOutcome
  <2>2. ~NewlyUnknown(i)
      BY <1>3, <2>1 DEF NewlyUnknown, Finished, FinalOutcome, IInv, TypeOK,
         InvRow
  <2>. QED
      BY <1>1, <2>1, <2>2, NothingNew
<1>4. CASE PersistOutcome(i) /\ res[i] = "ambiguous"
  <2>1. /\ call' = call
        /\ conn'[c] = IF c = call[i].conn /\ c \notin archived
                      THEN "ambiguous" ELSE conn[c]
      BY <1>4 DEF PersistOutcome
  <2>2. CASE c = call[i].conn /\ c \notin archived
      BY <2>1, <2>2 DEF KeepsPause, Pausing
  <2>3. CASE c \in archived
      BY <2>1, <2>3 DEF KeepsPause
  <2>4. CASE c # call[i].conn
    <3>1. Unresolved(c)' \subseteq Unresolved(c)
        BY <1>1, <2>1, <2>4 DEF Unresolved, UnresolvedIn, NewlyUnknown
    <3>. QED
        BY <2>1, <2>4, <3>1 DEF KeepsPause
  <2>. QED
      BY <2>2, <2>3, <2>4
<1>. QED
    BY <1>2, <1>3, <1>4

LEMMA BootPause ==
    ASSUME IInv, NEW c \in Conn, NEW p \in Proc, StartDaemon(p)
    PROVE  KeepsPause(c)
<1>1. Unresolved(c)' = UnresolvedIn(ReconciledInv, c)
    BY DEF StartDaemon, Unresolved, UnresolvedIn
<1>2. PICK idle \in [Conn -> {"ready", "unfit"}] : conn'[c] = ReconciledConn(idle)[c]
    BY DEF StartDaemon
<1>3. CASE c \in archived
  <2>1. conn'[c] = conn[c]
      BY <1>2, <1>3 DEF ReconciledConn
  <2>. QED
      BY <1>3, <2>1 DEF KeepsPause
<1>4. CASE UnresolvedIn(ReconciledInv, c) = {}
    BY <1>1, <1>4 DEF KeepsPause
<1>5. CASE /\ c \notin archived /\ UnresolvedIn(ReconciledInv, c) # {}
           /\ \/ conn[c] # "unfit"
              \/ \E i \in Attempt : call[i].conn = c /\ Stale(i) /\ inv[i].committed
  <2>1. conn'[c] = "ambiguous"
      BY <1>2, <1>5 DEF ReconciledConn
  <2>. QED
      BY <2>1 DEF KeepsPause, Pausing
<1>6. CASE /\ conn[c] = "unfit"
           /\ \A i \in Attempt : ~(call[i].conn = c /\ Stale(i) /\ inv[i].committed)
  <2>1. conn[c] \notin Pausing
      BY <1>6 DEF Pausing
  <2>2. ASSUME NEW i \in UnresolvedIn(ReconciledInv, c)
        PROVE  i \in Unresolved(c)
    <3>1. /\ i \in Attempt /\ call[i].conn = c
          /\ ReconciledInv[i].outcome = "ambiguous" /\ ~ReconciledInv[i].resolved
        BY <2>2 DEF UnresolvedIn
    <3>2. CASE Stale(i)
      <4>1. ~inv[i].committed /\ inv[i] \in InvRow
          BY <1>6, <3>1, <3>2 DEF IInv, TypeOK
      <4>2. ReconciledInv[i].outcome = "definite_failure"
          BY <3>1, <3>2, <4>1 DEF ReconciledInv, Written, InvRow
      <4>. QED
          BY <3>1, <4>2
    <3>3. CASE ~Stale(i)
        BY <3>1, <3>3 DEF ReconciledInv, Unresolved, UnresolvedIn
    <3>. QED
        BY <3>2, <3>3
  <2>. QED
      BY <1>1, <2>1, <2>2 DEF KeepsPause
<1>. QED
    BY <1>3, <1>4, <1>5, <1>6

LEMMA UserPause ==
    ASSUME IInv, NEW c \in Conn, NEW u \in Conn, UserStep(u)
    PROVE  KeepsPause(c)
<1>1. conn \in [Conn -> Status]
    BY DEF IInv, TypeOK
<1>2. CASE CommitResume(u)
  <2>1. call' = call /\ conn' = [conn EXCEPT ![u] = "ready"]
      BY <1>2 DEF CommitResume
  <2>2. Unresolved(c)' \subseteq Unresolved(c)
      BY <1>2, <2>1 DEF CommitResume, Unresolved, UnresolvedIn, IInv, TypeOK,
         InvRow
  <2>3. c = u => Unresolved(c)' = {}
      BY <1>2, <2>1 DEF CommitResume, Unresolved, UnresolvedIn, IInv, TypeOK,
         InvRow
  <2>. QED
      BY <1>1, <2>1, <2>2, <2>3 DEF KeepsPause
<1>3. ASSUME UNCHANGED <<inv, call>>,
             \A s \in {conn'[c]} : s = conn[c] \/ s \in Pausing \/ Unresolved(c) = {}
      PROVE  KeepsPause(c)
  <2>1. Unresolved(c)' = Unresolved(c)
      BY <1>3 DEF Unresolved, UnresolvedIn
  <2>. QED
      BY <1>3, <2>1 DEF KeepsPause
<1>4. CASE EndTest(u)
  <2>1. UNCHANGED <<inv, call>>
      BY <1>4 DEF EndTest, End
  <2>2. CASE UNCHANGED conn
      BY <1>3, <2>1, <2>2
  <2>3. ASSUME NEW s,
               conn' = [conn EXCEPT ![u] =
                          IF Unresolved(u) # {} THEN "ambiguous" ELSE s]
        PROVE  KeepsPause(c)
      BY <1>1, <1>3, <2>1, <2>3 DEF Pausing
  <2>4. ASSUME NEW s,
               conn' = [conn EXCEPT ![u] =
                          IF conn[u] # "busy" THEN conn[u]
                          ELSE IF Unresolved(u) # {} THEN "ambiguous" ELSE s]
        PROVE  KeepsPause(c)
      BY <1>1, <1>3, <2>1, <2>4 DEF Pausing
  <2>. QED
      BY <1>4, <2>2, <2>3, <2>4 DEF EndTest, Judged, PutBack
<1>5. CASE EndCheck(u)
  <2>1. UNCHANGED <<inv, call>>
      BY <1>5 DEF EndCheck, End
  <2>2. CASE UNCHANGED conn
      BY <1>3, <2>1, <2>2
  <2>3. ASSUME NEW s,
               conn' = [conn EXCEPT ![u] = IF Paused(u) THEN "ambiguous"
                                           ELSE IF conn[u] = "busy" THEN s
                                           ELSE conn[u]]
        PROVE  KeepsPause(c)
      BY <1>1, <1>3, <2>1, <2>3 DEF Pausing, Paused
  <2>. QED
      BY <1>5, <2>2, <2>3 DEF EndCheck
<1>6. ASSUME NEW p \in Proc, BeginTest(u, p) \/ BeginCheck(u, p) PROVE KeepsPause(c)
  <2>1. UNCHANGED <<inv, call>>
      BY <1>6 DEF BeginTest, BeginCheck, Begin
  <2>2. conn'[c] = conn[c] \/ conn'[c] \in Pausing
      BY <1>1, <1>6 DEF BeginTest, BeginCheck, Pausing
  <2>. QED
      BY <1>3, <2>1, <2>2
<1>7. CASE UNCHANGED <<inv, call, conn>>
    BY <1>3, <1>7
<1>8. CASE MarkTesting(u)
  <2>1. UNCHANGED <<inv, call>>
      BY <1>8 DEF MarkTesting
  <2>2. conn'[c] = conn[c] \/ conn'[c] \in Pausing
      BY <1>1, <1>8 DEF MarkTesting, Pausing
  <2>. QED
      BY <1>3, <2>1, <2>2
<1>. QED
    BY <1>2, <1>4, <1>5, <1>6, <1>7, <1>8 DEF UserStep, BlockResume, Archive,
       PrepareResume

LEMMA PauseStep ==
    ASSUME IInv, NEW c \in Conn, [Next]_vars
    PROVE  KeepsPause(c)
<1>1. CASE UNCHANGED <<inv, call, conn>>
  <2>1. \A i \in Attempt : ~NewlyUnknown(i)
      BY <1>1 DEF NewlyUnknown
  <2>. QED
      BY <1>1, <2>1, NothingNew
<1>2. ASSUME NEW p \in Proc, ProcStep(p) PROVE KeepsPause(c)
    BY <1>1, <1>2, BootPause DEF ProcStep, BootServer, BootDesktop, WorkerDies,
       Crash, ClaimNothing
<1>3. CASE Tick
  <2>1. conn' = conn
      BY <1>3 DEF Tick
  <2>2. ASSUME NEW i \in Attempt PROVE ~NewlyUnknown(i)
      BY <1>3 DEF Tick, NewlyUnknown, IInv, TypeOK, InvRow
  <2>. QED
      BY <2>1, <2>2, NothingNew
<1>. QED
    BY <1>1, <1>2, <1>3, CallPause, UserPause DEF Next, vars

(* A connection in use is paused by the step that records an ambiguous     *)
(* call and stays so while one is unresolved, whoever writes its status.   *)
THEOREM PauseIsKeptCorrect == Spec => PauseIsKept
<1>1. IInv /\ [Next]_vars =>
         [\A c \in Conn :
             \/ c \notin archived /\ ~(Unresolved(c)' \subseteq Unresolved(c))
             \/ conn[c] \in Pausing /\ Unresolved(c) # {} /\ Unresolved(c)' # {}
             => conn'[c] \in Pausing]_vars
    BY PauseStep DEF KeepsPause
<1>. QED
    BY <1>1, Inductive, PTL DEF Spec, PauseIsKept

(***************************************************************************)
(* Every turn on a digest is counted.  Spent is what makes the count last: *)
(* a row whose budget is used up is not worked on.                         *)
(***************************************************************************)
Spent(row) == row.retry = MaxRetries => row.status \in {"failed", "completed"}

Counts ==
    \A d \in Digest : /\ Cardinality(TakenBy(d)) <= Counted(digest[d])
                      /\ Spent(digest[d])

(* What a step does to a row: it forgets no turn, or it counts one more.   *)
NotLess(row, new, n) == Counted(new) >= Counted(row) + n /\ Spent(new)

LEMMA RowsCount ==
    ASSUME NEW row \in DigestRow, Spent(row)
    PROVE  /\ NotLess(row, row, 0) /\ Counted(row) \in Nat
           /\ NotLess(row, Parked(row), 0)
           /\ NotLess(row, Completed(row), 0)
           /\ row.status # "completed" => NotLess(row, Retried(row), 0)
           /\ row.status \in {"none", "pending"} =>
                 NotLess(row, [row EXCEPT !.status = "processing"], 1)
<1>1. /\ row.retry \in Nat /\ row.retry <= MaxRetries /\ MaxRetries \in Nat
      /\ row = [status |-> row.status, retry |-> row.retry] /\ row.status \in DigestStatus
    BY ParamAssumption DEF DigestRow
<1>2. NotLess(row, row, 0) /\ Counted(row) \in Nat
    BY <1>1 DEF NotLess, Counted
<1>3. NotLess(row, Parked(row), 0)
    BY <1>1, <1>2 DEF NotLess, Counted, Parked, Spent
<1>4. NotLess(row, Completed(row), 0)
    BY <1>1 DEF NotLess, Counted, Completed, Spent
<1>5. ASSUME row.status # "completed" PROVE NotLess(row, Retried(row), 0)
    BY <1>1, <1>5 DEF NotLess, Counted, Retried, Spent
<1>6. ASSUME row.status \in {"none", "pending"}
      PROVE  NotLess(row, [row EXCEPT !.status = "processing"], 1)
    BY <1>1, <1>6 DEF NotLess, Counted, Spent
<1>. QED
    BY <1>2, <1>3, <1>4, <1>5, <1>6

(* What a step does to the digest d: it takes a turn on it, or none.       *)
Untaken(d) ==
    NotLess(digest[d], digest'[d], 0) /\ TakenBy(d)' \subseteq TakenBy(d)
Taken(d) ==
    /\ NotLess(digest[d], digest'[d], 1)
    /\ \E i \in Attempt : TakenBy(d)' \subseteq TakenBy(d) \cup {i}

(* The steps of an attempt that do not begin a turn.                       *)
LEMMA CallCounts ==
    ASSUME TypeOK, Counts, NEW i \in Attempt, CallStep(i), NEW d \in Digest
    PROVE  Untaken(d)
<1>1. call' = call
    BY DEF CallStep, AcquireLease, CapacityRefused, Renew,
       PreCommitCheck, PreCommitFails, CommitPrompt, CommitFails, SendPrompt, Answer,
       Reject, CallFails, FinishSuccess, FinishFails, FailWith, Release, ReleaseFails,
       LeaveLease, PersistOutcome, PersistFails, WorkWithoutCall, ReportRetry,
       FindRow, ReportAsync, ReportOther, ReportTest, ChildExit
<1>2. TakenBy(d)' = TakenBy(d)
    BY <1>1 DEF TakenBy
<1>3. digest[d] \in DigestRow /\ Spent(digest[d]) /\ digest \in [Digest -> DigestRow]
    BY DEF TypeOK, Counts
<1>4. ASSUME NEW e, NEW new \in {Completed(digest[e]), Retried(digest[e])}, Reported(e, new)
      PROVE  NotLess(digest[d], digest'[d], 0)
  <2>1. CASE digest'[d] = digest[d]
      BY <1>3, <2>1, RowsCount
  <2>2. CASE digest'[d] # digest[d]
    <3>1. digest' = [digest EXCEPT ![e] = new] /\ digest[e].status # "completed"
        BY <1>4, <2>2 DEF Reported
    <3>2. e = d
        BY <1>3, <2>2, <3>1
    <3>. QED
        BY <1>3, <1>4, <3>1, <3>2, RowsCount
  <2>. QED
      BY <2>1, <2>2
<1>5. CASE ReportRetry(i) \/ ReportAsync(i)
    BY <1>2, <1>4, <1>5 DEF ReportRetry, ReportAsync, Untaken
<1>6. CASE PersistOutcome(i)
  <2>1. digest'[d] \in {digest[d], Parked(digest[d])}
      BY <1>6 DEF PersistOutcome
  <2>. QED
      BY <1>2, <1>3, <2>1, RowsCount DEF Untaken
<1>7. CASE digest' = digest
    BY <1>2, <1>3, <1>7, RowsCount DEF Untaken
<1>. QED
    BY <1>5, <1>6, <1>7 DEF CallStep, AcquireLease, CapacityRefused, Renew,
       PreCommitCheck, PreCommitFails, CommitPrompt, CommitFails, SendPrompt, Answer,
       Reject, CallFails, FinishSuccess, FinishFails, FailWith, Release, ReleaseFails,
       LeaveLease, PersistFails, WorkWithoutCall, FindRow, ReportOther, ReportTest,
       ChildExit

(* A recovery counts the turns that it ends.                               *)
LEMMA RecoveryCounts ==
    ASSUME TypeOK, Counts, NEW S \in SUBSET Processing, NEW d \in Digest
    PROVE  /\ Recovered(S)[d] \in DigestRow
           /\ NotLess(digest[d], Recovered(S)[d], 0)
<1>1. digest[d] \in DigestRow /\ Spent(digest[d])
    BY DEF TypeOK, Counts
<1>2. d \in S => digest[d].status = "processing"
    BY DEF Processing
<1>. QED
    BY <1>1, <1>2, RowsCount, DigestRowSteps DEF Recovered

LEMMA BeginCounts ==
    ASSUME TypeOK, Counts, NEW i \in Attempt, BeginStep(i), NEW d \in Digest
    PROVE  Untaken(d) \/ Taken(d)
<1>1. digest[d] \in DigestRow /\ Spent(digest[d]) /\ digest \in [Digest -> DigestRow]
    BY DEF TypeOK, Counts
<1>2. call \in [Attempt -> CallData]
    BY DEF TypeOK
<1>3. ASSUME NEW p \in Proc, NEW e \in Digest, EnqueueInFlight(i, p, e)
      PROVE  Untaken(d) \/ Taken(d)
  <2>1. call' = [call EXCEPT ![i] = [NoCall EXCEPT !.kind = "async", !.proc = p, !.work = e]]
      BY <1>3 DEF EnqueueInFlight
  <2>2. TakenBy(d)' \subseteq TakenBy(d) \cup {i} /\ (d # e => TakenBy(d)' \subseteq TakenBy(d))
      BY <1>2, <2>1 DEF TakenBy, NoCall
  <2>3. CASE d = e
    <3>1. digest'[d] = [digest[d] EXCEPT !.status = "processing"] /\ digest[d].status = "none"
        BY <1>1, <1>3, <2>3 DEF EnqueueInFlight
    <3>. QED
        BY <1>1, <2>2, <3>1, RowsCount DEF Taken
  <2>4. CASE d # e
    <3>1. digest'[d] = digest[d]
        BY <1>1, <1>3, <2>4 DEF EnqueueInFlight
    <3>. QED
        BY <1>1, <2>2, <2>4, <3>1, RowsCount DEF Untaken
  <2>. QED
      BY <2>3, <2>4
<1>4. ASSUME NEW p \in Proc, ClaimNext(i, p)
      PROVE  Untaken(d) \/ Taken(d)
  <2>1. PICK S \in SUBSET Processing, e \in Digest :
           /\ Recovered(S)[e].status = "pending"
           /\ digest' = [Recovered(S) EXCEPT ![e].status = "processing"]
           /\ call' = [call EXCEPT ![i] = [NoCall EXCEPT !.kind = "retry", !.proc = p, !.work = e]]
      BY <1>4 DEF ClaimNext
  <2>2. TakenBy(d)' \subseteq TakenBy(d) \cup {i} /\ (d # e => TakenBy(d)' \subseteq TakenBy(d))
      BY <1>2, <2>1 DEF TakenBy, NoCall
  <2>3. Recovered(S)[d] \in DigestRow /\ NotLess(digest[d], Recovered(S)[d], 0)
      BY RecoveryCounts
  <2>4. CASE d = e
    <3>1. digest'[d] = [Recovered(S)[d] EXCEPT !.status = "processing"]
        BY <2>1, <2>4 DEF Recovered
    <3>2. NotLess(Recovered(S)[d], digest'[d], 1) /\ Counted(Recovered(S)[d]) \in Nat
        BY <2>1, <2>3, <2>4, <3>1, RowsCount DEF NotLess
    <3>3. Counted(digest'[d]) \in Nat
      <4>1. digest'[d] \in DigestRow
          BY <2>3, <3>1, OtherRowUpdates DEF DigestStatus
      <4>. QED
          BY <4>1, <3>2, RowsCount DEF NotLess
    <3>4. Counted(digest[d]) \in Nat
        BY <1>1, RowsCount
    <3>5. /\ Counted(digest'[d]) >= Counted(Recovered(S)[d]) + 1 /\ Spent(digest'[d])
          /\ Counted(Recovered(S)[d]) >= Counted(digest[d]) + 0
        BY <2>3, <3>2 DEF NotLess
    <3>6. Counted(digest'[d]) >= Counted(digest[d]) + 1
        BY <3>2, <3>3, <3>4, <3>5
    <3>7. NotLess(digest[d], digest'[d], 1)
        BY <3>5, <3>6 DEF NotLess
    <3>. QED
        BY <2>2, <3>7 DEF Taken
  <2>5. CASE d # e
    <3>1. digest'[d] = Recovered(S)[d]
        BY <2>1, <2>5 DEF Recovered
    <3>. QED
        BY <2>2, <2>3, <2>5, <3>1 DEF Untaken
  <2>. QED
      BY <2>4, <2>5
<1>5. CASE /\ digest' = digest
           /\ \A j \in Attempt : call'[j].work \in {call[j].work, None}
  <2>1. TakenBy(d)' \subseteq TakenBy(d)
      BY <1>5, ParamAssumption DEF TakenBy
  <2>. QED
      BY <1>1, <1>5, <2>1, RowsCount DEF Untaken
<1>6. ASSUME NEW c \in Conn, NEW a \in Account, BeginWorkCall(i, c, a)
      PROVE  Untaken(d)
  <2>1. \A j \in Attempt : call'[j].work = call[j].work
      BY <1>2, <1>6 DEF BeginWorkCall, CallData
  <2>2. TakenBy(d)' = TakenBy(d) /\ digest' = digest
      BY <1>6, <2>1 DEF TakenBy, BeginWorkCall, StartInvocation
  <2>. QED
      BY <1>1, <2>2, RowsCount DEF Untaken
<1>7. ASSUME NEW c \in Conn, NEW a \in Account, BeginTestCall(i, c, a)
      PROVE  Untaken(d) \/ Taken(d)
    BY <1>2, <1>5, <1>7 DEF BeginTestCall, StartInvocation
<1>8. ASSUME NEW c \in Conn, NEW a \in Account, NEW p \in Proc, BeginOtherCall(i, p, c, a)
      PROVE  Untaken(d) \/ Taken(d)
    BY <1>2, <1>5, <1>8 DEF BeginOtherCall, StartInvocation, NoCall
<1>. QED
    BY <1>3, <1>4, <1>6, <1>7, <1>8 DEF BeginStep

LEMMA OtherCounts ==
    ASSUME TypeOK, Counts, NEW d \in Digest,
           \/ \E p \in Proc : ProcStep(p)
           \/ \E c \in Conn : UserStep(c)
           \/ Tick \/ UNCHANGED vars
    PROVE  Untaken(d)
<1>1. digest[d] \in DigestRow /\ Spent(digest[d]) /\ digest \in [Digest -> DigestRow]
    BY DEF TypeOK, Counts
<1>2. call' = call
    BY DEF ProcStep, BootServer, BootDesktop, StartDaemon, Crash, WorkerDies, ClaimNothing,
       UserStep, MarkTesting, EndTest, EndCheck, End, CommitResume, BlockResume, Archive,
       BeginTest, BeginCheck, Begin, PrepareResume, Tick, vars
<1>3. TakenBy(d)' = TakenBy(d)
    BY <1>2 DEF TakenBy
<1>4. CASE \E p \in Proc : StartDaemon(p)
  <2>1. digest'[d] \in {digest[d], Parked(digest[d])}
      BY <1>4 DEF StartDaemon, ReconciledDigest
  <2>. QED
      BY <1>1, <1>3, <2>1, RowsCount DEF Untaken
<1>5. CASE \E p \in Proc : ClaimNothing(p)
    BY <1>3, <1>5, RecoveryCounts DEF ClaimNothing, Untaken
<1>6. CASE digest' = digest
    BY <1>1, <1>3, <1>6, RowsCount DEF Untaken
<1>. QED
    BY <1>4, <1>5, <1>6 DEF ProcStep, BootServer, BootDesktop, Crash, WorkerDies,
       UserStep, MarkTesting, EndTest, EndCheck, End, CommitResume, BlockResume, Archive,
       BeginTest, BeginCheck, Begin, PrepareResume, Tick, vars

LEMMA StepCounts == TypeOK /\ TypeOK' /\ Counts /\ [Next]_vars => Counts'
<1>. SUFFICES ASSUME TypeOK, TypeOK', Counts, [Next]_vars, NEW d \in Digest
              PROVE  Cardinality(TakenBy(d)') <= Counted(digest'[d]) /\ Spent(digest'[d])
    BY DEF Counts
<1>1. IsFiniteSet(TakenBy(d)) /\ Cardinality(TakenBy(d)) \in Nat
  <2>1. TakenBy(d) \subseteq Attempt
      BY DEF TakenBy
  <2>. QED
      BY <2>1, ParamAssumption, FS_Subset, FS_CardinalityType
<1>2. Counted(digest[d]) \in Nat /\ Cardinality(TakenBy(d)) <= Counted(digest[d])
    BY RowsCount DEF TypeOK, Counts
<1>3. Untaken(d) \/ Taken(d)
    BY CallCounts, BeginCounts, OtherCounts DEF Next
<1>4. Counted(digest'[d]) \in Int
  <2>1. digest'[d] \in DigestRow
      BY DEF TypeOK
  <2>. QED
      BY <2>1, ParamAssumption DEF Counted, DigestRow
<1>5. CASE Untaken(d)
  <2>1. Cardinality(TakenBy(d)') \in Nat /\ Cardinality(TakenBy(d)') <= Cardinality(TakenBy(d))
      BY <1>1, <1>5, FS_Subset, FS_CardinalityType DEF Untaken
  <2>. QED
      BY <1>1, <1>2, <1>4, <1>5, <2>1 DEF Untaken, NotLess
<1>6. CASE Taken(d)
  <2>1. PICK i \in Attempt : TakenBy(d)' \subseteq TakenBy(d) \cup {i}
      BY <1>6 DEF Taken
  <2>2. /\ IsFiniteSet(TakenBy(d) \cup {i}) /\ Cardinality(TakenBy(d) \cup {i}) \in Nat
        /\ Cardinality(TakenBy(d) \cup {i}) <= Cardinality(TakenBy(d)) + 1
    <3>1. /\ IsFiniteSet(TakenBy(d) \cup {i})
          /\ Cardinality(TakenBy(d) \cup {i}) =
                IF i \in TakenBy(d) THEN Cardinality(TakenBy(d)) ELSE Cardinality(TakenBy(d)) + 1
        BY <1>1, FS_AddElement, Zenon
    <3>. QED
        BY <1>1, <3>1
  <2>3. Cardinality(TakenBy(d)') \in Nat
        /\ Cardinality(TakenBy(d)') <= Cardinality(TakenBy(d) \cup {i})
      BY <2>1, <2>2, FS_Subset, FS_CardinalityType
  <2>. QED
      BY <1>1, <1>2, <1>4, <1>6, <2>2, <2>3 DEF Taken, NotLess
<1>. QED
    BY <1>3, <1>5, <1>6

LEMMA CountsAlways == Spec => []Counts
<1>1. Init => Counts
  <2>. SUFFICES ASSUME Init, NEW d \in Digest
                PROVE  Cardinality(TakenBy(d)) <= Counted(digest[d]) /\ Spent(digest[d])
      BY DEF Counts
  <2>1. TakenBy(d) = {}
      BY ParamAssumption DEF Init, TakenBy, NoCall
  <2>2. digest[d].retry = 0 /\ digest[d].status \in {"none", "pending"}
      BY DEF Init
  <2>. QED
      BY <2>1, <2>2, ParamAssumption, FS_EmptySet DEF Counted, Spent
<1>. QED
    BY <1>1, StepCounts, TypeCorrect, PTL DEF Spec

(* Every turn on a digest but the one it is in now was counted against its *)
(* budget, whoever crashed, was recovered too early, failed or parked it.  *)
THEOREM EveryTurnCountsCorrect == Spec => []EveryTurnCounts
<1>1. Counts => EveryTurnCounts
    BY DEF Counts, EveryTurnCounts
<1>. QED
    BY <1>1, CountsAlways, PTL

(* What the count is for: no unfinished digest has been worked on more     *)
(* than MaxRetries times, across all processes, crashes and restarts.      *)
THEOREM TurnsAreBounded ==
    Spec => [](\A d \in Digest :
                  digest[d].status # "completed" => Cardinality(TakenBy(d)) <= MaxRetries)
<1>1. TypeOK /\ Counts =>
         \A d \in Digest :
            digest[d].status # "completed" => Cardinality(TakenBy(d)) <= MaxRetries
  <2>. SUFFICES ASSUME TypeOK, Counts, NEW d \in Digest, digest[d].status # "completed"
                PROVE  Cardinality(TakenBy(d)) <= MaxRetries
      OBVIOUS
  <2>1. /\ digest[d].retry \in 0..MaxRetries /\ MaxRetries \in Nat
        /\ Cardinality(TakenBy(d)) <= Counted(digest[d]) /\ Spent(digest[d])
      BY ParamAssumption DEF TypeOK, DigestRow, Counts
  <2>2. Cardinality(TakenBy(d)) \in Nat
    <3>1. TakenBy(d) \subseteq Attempt
        BY DEF TakenBy
    <3>. QED
        BY <3>1, ParamAssumption, FS_Subset, FS_CardinalityType
  <2>. QED
      BY <2>1, <2>2 DEF Counted, Spent
<1>. QED
    BY <1>1, TypeCorrect, CountsAlways, PTL

(***************************************************************************)
(* The refinement: the calls of an account take turns.                     *)
(***************************************************************************)
TurnOfCall ==
    \A a \in Account :
       /\ \A i \in Attempt :
             CurrentCall(a) = i <=> InFlight(i) /\ call[i].acct = a
       /\ CurrentCall(a) \in Attempt \cup {None}

LEMMA CurrentCallIs == IInv => TurnOfCall
<1>. SUFFICES ASSUME IInv, NEW a \in Account
              PROVE  /\ \A i \in Attempt :
                            CurrentCall(a) = i <=> InFlight(i) /\ call[i].acct = a
                     /\ CurrentCall(a) \in Attempt \cup {None}
    BY DEF TurnOfCall
<1>1. OneLiveCall
    BY IInvOneLiveCall
<1>2. CASE \E i \in Attempt : InFlight(i) /\ call[i].acct = a
  <2>1. /\ CurrentCall(a) \in Attempt
        /\ InFlight(CurrentCall(a)) /\ call[CurrentCall(a)].acct = a
      BY <1>2 DEF CurrentCall
  <2>. QED
      BY <1>1, <2>1 DEF OneLiveCall
<1>3. CASE ~\E i \in Attempt : InFlight(i) /\ call[i].acct = a
    BY <1>3, ParamAssumption DEF CurrentCall
<1>. QED
    BY <1>2, <1>3

LEMMA CurrentCallIsNext == IInv' => TurnOfCall'
BY CurrentCallIs, PTL

(* Only a commit begins a turn.                                            *)
LEMMA TurnStep ==
    ASSUME IInv, NEW i \in Attempt, [Next]_vars, ~CommitPrompt(i), InFlight(i)'
    PROVE  InFlight(i) /\ call'[i].acct = call[i].acct
<1>0. TypeOK /\ Owned
    BY DEF IInv
<1>1. pc'[i] \in {"committed", "sent", "answered"}
    BY DEF InFlight
<1>2. ASSUME pc[i] \in {"committed", "sent", "answered"} PROVE InFlight(i)
    BY <1>0, <1>2 DEF InFlight, Owned, Owns
<1>3. ASSUME NEW j \in Attempt, CallStep(j) \/ BeginStep(j), i # j
      PROVE  InFlight(i) /\ call'[i].acct = call[i].acct
    BY <1>0, <1>1, <1>2, <1>3, OthersStep DEF Same
<1>4. CASE CallStep(i)
  <2>1. call' = call
      BY <1>4 DEF CallStep, AcquireLease, CapacityRefused, Renew,
         PreCommitCheck,
         PreCommitFails, CommitPrompt, CommitFails, SendPrompt, Answer, Reject,
         CallFails, FinishSuccess, FinishFails, FailWith, Release, ReleaseFails,
         LeaveLease, PersistOutcome, PersistFails, WorkWithoutCall, ReportRetry,
         FindRow, ReportAsync, ReportOther, ReportTest, ChildExit
  <2>2. pc[i] \in {"committed", "sent", "answered"}
      BY <1>0, <1>1, <1>4 DEF CallStep, AcquireLease, CapacityRefused, Renew,
         PreCommitCheck, PreCommitFails, CommitFails, SendPrompt, Answer,
         Reject,
         CallFails, FinishSuccess, FinishFails, Release, ReleaseFails,
         LeaveLease, PersistOutcome, PersistFails, WorkWithoutCall, ReportRetry,
         FindRow, ReportAsync, ReportOther, ReportTest, ChildExit, Move, TypeOK
  <2>. QED
      BY <1>2, <2>1, <2>2
<1>5. CASE BeginStep(i)
  <2>1. pc'[i] \in {"working", "started"}
      BY <1>0, <1>5 DEF BeginStep, EnqueueInFlight, ClaimNext, BeginWorkCall,
         BeginTestCall, BeginOtherCall, StartInvocation, TypeOK
  <2>. QED
      BY <1>1, <2>1
<1>6. CASE call' = call /\ pc'[i] = pc[i]
    BY <1>1, <1>2, <1>6
<1>7. ASSUME NEW p \in Proc, ProcStep(p)
      PROVE  InFlight(i) /\ call'[i].acct = call[i].acct
    BY <1>1, <1>6, <1>7 DEF ProcStep, BootServer, BootDesktop, StartDaemon,
       WorkerDies, Crash,
       ClaimNothing
<1>8. ASSUME NEW c \in Conn, UserStep(c)
      PROVE  InFlight(i) /\ call'[i].acct = call[i].acct
    BY <1>0, <1>1, <1>2, <1>8, UserQuiet DEF Quiet
<1>. QED
    BY <1>3, <1>4, <1>5, <1>6, <1>7, <1>8 DEF Next, Tick, vars

LEMMA VerdictTypes ==
    /\ \A o \in Outcome : VerdictOf(o) \in Turns!Verdict
    /\ \A o \in Outcome : VerdictOf(o) # "open" => o \notin {"none", "running"}
    /\ VerdictOf("none") = "open" /\ VerdictOf("running") = "open"
BY DEF VerdictOf, Turns!Verdict, Outcome

LEMMA TurnsInit == Init => Turns!Init
<1>. SUFFICES ASSUME Init PROVE Turns!Init
    OBVIOUS
<1>1. \A i \in Attempt : ~InFlight(i)
    BY DEF Init, InFlight
<1>2. \A a \in Account : CurrentCall(a) = None
    BY <1>1 DEF CurrentCall
<1>3. \A i \in Attempt : VerdictOf(inv[i].outcome) = "open"
    BY VerdictTypes DEF Init, NoRow
<1>. QED
    BY <1>2, <1>3 DEF Turns!Init

LEMMA TurnsTake ==
    ASSUME IInv, IInv', [Next]_vars, NEW i \in Attempt, CommitPrompt(i)
    PROVE  Turns!Next
<1>0. TypeOK /\ Owned /\ inv[i].outcome = "running"
    BY DEF IInv, CommitPrompt
<1>1. /\ pc[i] = "checked" /\ pc' = [pc EXCEPT ![i] = "committed"] /\ Alive(i)
      /\ UNCHANGED <<call, proc>>
    BY DEF CommitPrompt, Move, Runs
<1>2. PICK a \in Account : a = call[i].acct
    BY <1>0, <1>1 DEF Owned, Owns, Calling, Submitting
<1>3. /\ ~InFlight(i) /\ InFlight(i)'
      /\ \A j \in Attempt : j # i => (InFlight(j)' <=> InFlight(j))
    BY <1>0, <1>1 DEF InFlight, Alive, Up, Desktop, TypeOK
<1>4. \A b \in Account :
         /\ \A j \in Attempt :
               CurrentCall(b)' = j <=> InFlight(j)' /\ call'[j].acct = b
         /\ CurrentCall(b)' \in Attempt \cup {None}
    BY CurrentCallIsNext DEF TurnOfCall
<1>5. \A b \in Account :
         /\ \A j \in Attempt :
               CurrentCall(b) = j <=> InFlight(j) /\ call[j].acct = b
         /\ CurrentCall(b) \in Attempt \cup {None}
    BY CurrentCallIs DEF TurnOfCall
<1>6. CurrentCall(a)' = i
    BY <1>1, <1>2, <1>3, <1>4
<1>7. CurrentCall(a) = None
  <2>1. ASSUME NEW j \in Attempt, CurrentCall(a) = j PROVE FALSE
    <3>1. InFlight(j) /\ call[j].acct = a
        BY <1>2, <1>5, <2>1
    <3>2. j # i /\ InFlight(j)' /\ call'[j].acct = a
        BY <1>1, <1>3, <3>1
    <3>3. CurrentCall(a)' = j
        BY <1>2, <1>4, <3>2, <1>1
    <3>. QED
        BY <1>6, <3>2, <3>3
  <2>. QED
      BY <1>2, <1>5, <2>1
<1>8. \A b \in Account : b # a => CurrentCall(b)' = CurrentCall(b)
  <2>. SUFFICES ASSUME NEW b \in Account, b # a PROVE CurrentCall(b)' = CurrentCall(b)
      OBVIOUS
  <2>1. \A j \in Attempt : CurrentCall(b)' = j <=> CurrentCall(b) = j
    <3>1. \A j \in Attempt :
             (InFlight(j)' /\ call'[j].acct = b) <=> (InFlight(j) /\ call[j].acct = b)
        BY <1>1, <1>2, <1>3
    <3>. QED
        BY <3>1, <1>4, <1>5
  <2>2. CurrentCall(b)' \in Attempt \cup {None} /\ CurrentCall(b) \in Attempt \cup {None}
      BY <1>4, <1>5
  <2>. QED
      BY <2>1, <2>2
<1>9. \A j \in Attempt : inv'[j].outcome = inv[j].outcome
    BY <1>0 DEF CommitPrompt, TypeOK, InvRow
<1>10. VerdictOf(inv[i].outcome) = "open"
    BY <1>0, VerdictTypes
<1>11. Turns!Take(a, i)
  <2>1. [b \in Account |-> CurrentCall(b)]'
            = [[b \in Account |-> CurrentCall(b)] EXCEPT ![a] = i]
    <3>1. \A b \in Account : CurrentCall(b)' = IF b = a THEN i ELSE CurrentCall(b)
        BY <1>6, <1>8
    <3>. QED
        BY <1>2, <3>1
  <2>2. [j \in Attempt |-> VerdictOf(inv[j].outcome)]'
            = [j \in Attempt |-> VerdictOf(inv[j].outcome)]
      BY <1>9
  <2>3. [b \in Account |-> CurrentCall(b)][a] = None
      BY <1>2, <1>7
  <2>4. [j \in Attempt |-> VerdictOf(inv[j].outcome)][i] = "open"
      BY <1>10
  <2>. QED
      BY <2>1, <2>2, <2>3, <2>4 DEF Turns!Take
<1>. QED
    BY <1>2, <1>11 DEF Turns!Next

LEMMA TurnsLeave ==
    ASSUME IInv, IInv', [Next]_vars, \A i \in Attempt : ~CommitPrompt(i)
    PROVE  Turns!Next
<1> DEFINE turn == [a \in Account |-> CurrentCall(a)]
           verdict == [i \in Attempt |-> VerdictOf(inv[i].outcome)]
           S == {a \in Account : CurrentCall(a)' = None}
<1>1. \A b \in Account :
         /\ \A j \in Attempt :
               CurrentCall(b)' = j <=> InFlight(j)' /\ call'[j].acct = b
         /\ CurrentCall(b)' \in Attempt \cup {None}
    BY CurrentCallIsNext DEF TurnOfCall
<1>2. \A a \in Account : CurrentCall(a)' # None => CurrentCall(a)' = CurrentCall(a)
  <2>. SUFFICES ASSUME NEW a \in Account, CurrentCall(a)' # None
                PROVE  CurrentCall(a)' = CurrentCall(a)
      OBVIOUS
  <2>1. PICK i \in Attempt : CurrentCall(a)' = i
      BY <1>1
  <2>2. InFlight(i)' /\ call'[i].acct = a
      BY <1>1, <2>1
  <2>3. InFlight(i) /\ call[i].acct = a
      BY <2>2, TurnStep
  <2>. QED
      BY <2>1, <2>3, CurrentCallIs DEF TurnOfCall
<1>3. Turns!Leave(S)
    BY <1>2 DEF Turns!Leave
<1>4. \A i \in Attempt : inv[i].outcome \in Outcome /\ inv'[i].outcome \in Outcome
    BY DEF IInv, TypeOK, InvRow
<1>5. verdict' \in [Attempt -> Turns!Verdict]
    BY <1>4, VerdictTypes
<1>6. \A i \in Attempt : verdict[i] # "open" => verdict'[i] = verdict[i]
    BY <1>4, VerdictTypes, FinalStep
<1>7. \A a \in Account : turn'[a] # None => verdict'[turn'[a]] = "open"
  <2>. SUFFICES ASSUME NEW a \in Account, CurrentCall(a)' # None
                PROVE  verdict'[CurrentCall(a)'] = "open"
      OBVIOUS
  <2>1. PICK i \in Attempt : CurrentCall(a)' = i
      BY <1>1
  <2>2. InFlight(i)'
      BY <1>1, <2>1
  <2>3. inv'[i].outcome = "running"
      BY <2>2 DEF IInv, CallInv, RowFollows, InFlight
  <2>. QED
      BY <2>1, <2>3, VerdictTypes
<1>8. Turns!Judge
    BY <1>5, <1>6, <1>7 DEF Turns!Judge
<1>. QED
    BY <1>3, <1>8 DEF Turns!Next

(* The runtime implements the abstract turn-taking: an account is given to *)
(* one call at a time, and no call is judged while it has its turn.        *)
THEOREM TurnsImplemented == Spec => ImplementsTurns
<1>1. IInv /\ IInv' /\ [Next]_vars =>
         [Turns!Next]_<<[a \in Account |-> CurrentCall(a)],
                        [i \in Attempt |-> VerdictOf(inv[i].outcome)]>>
    BY TurnsTake, TurnsLeave
<1>. QED
    BY <1>1, TurnsInit, Inductive, PTL DEF Spec, ImplementsTurns, Turns!Spec

=============================================================================
