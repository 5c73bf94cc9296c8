-------------------------- MODULE AgentIntegration --------------------------
(* Projecting an integration into a host's configuration files and taking it
   out again: src/client/electron/agent-integration.  A run is journalled
   mutation by mutation, and a crash or a failed step leaves it to the recovery
   of the next maintenance pass, which reads the files back before it decides
   whether an effect may be replayed.

   One installation of one user is modelled, with the intent the user has for
   its connection.  Both workers are threads of control of one desktop process:
   they interleave at every await, and a crash ends both.  Host version, source
   trust, frozen generations and the shared consumers are readings of the
   outside world, which may fail whenever they are taken.                     *)
EXTENDS Naturals, FiniteSets

CONSTANTS Files,      \* the files a plan mutates, each its own mutation domain
          MaxRuns,    \* runs ever prepared
          MaxEdits,   \* edits of the files by the user
          MaxRev,     \* changes of the user's intent
          MaxFaults   \* crashes, lost leases, failed statements and verifications

ASSUME BoundsAssumption ==
  /\ MaxRuns \in Nat /\ MaxEdits \in Nat /\ MaxRev \in Nat /\ MaxFaults \in Nat

VARIABLES content,         \* what a file holds: nothing of ours, part of an effect, ours,
                           \* the user's own
          run,             \* reconcile_runs
          journal,         \* projection_mutations
          inst,            \* agent_installations: desired state and consent
          intent,          \* the connection intent: allowed, and its revision
          writerFence,     \* per file: the lease and the lock file
          executionFence,  \* per run: the lock file
          wk,              \* what each thread of control is doing
          edits, faults    \* bounds

vars == <<content, run, journal, inst, intent, writerFence, executionFence, wk, edits, faults>>

Workers == {"apply", "maintenance"}
Ops == {"connect", "repair", "disconnect"}
Runs == 1..MaxRuns

\* A connection writes a fragment where there was none, a disconnection removes it.
Before(op) == IF op = "disconnect" THEN "ours" ELSE "none"
Desired(op) == IF op = "disconnect" THEN "none" ELSE "ours"
Wanted(op) == IF op = "disconnect" THEN "removed" ELSE "managed"

InFlight == {"planned", "preconditions_checked", "applying"}
NonTerminal == InFlight \cup {"applied_unverified", "verified", "needs_recovery"}
RunStates == NonTerminal \cup {"none", "committed", "cancelled"}

\* mutationStatePredecessors: which states a saved journal entry may replace.
Predecessors(st) ==
  CASE st = "effect_started"    -> {"prepared", "effect_started", "needs_recovery"}
    [] st = "effect_observed"   -> {"prepared", "effect_started", "effect_observed", "needs_recovery"}
    [] st = "receipt_persisted" -> {"effect_observed", "receipt_persisted"}
    [] st = "verified"          -> {"receipt_persisted", "verified", "needs_recovery"}
    [] st = "committed"         -> {"verified"}
    [] st = "needs_recovery"    -> {"prepared", "effect_started", "effect_observed",
                                    "receipt_persisted", "verified", "needs_recovery"}

\* reconcileRunPreviousStates: which states of a run a new one may replace.
PreviousStates(st) ==
  CASE st = "preconditions_checked" -> {"planned"}
    [] st = "applying"           -> {"planned", "preconditions_checked", "applying", "needs_recovery"}
    [] st = "applied_unverified" -> {"applying", "needs_recovery"}
    [] st = "verified"           -> {"applied_unverified"}
    [] st = "committed"          -> {"verified"}
    [] st \in {"needs_recovery", "cancelled"} -> InFlight \cup {"applied_unverified", "needs_recovery"}

Idle == [pc |-> "idle", op |-> "connect", r |-> 0, f |-> "none", rec |-> FALSE,
         auth |-> TRUE, began |-> 0, expect |-> "unmanaged", obs |-> "none", why |-> "other"]
NoMutation == [st |-> "none", post |-> FALSE, receipt |-> FALSE, proved |-> FALSE]
NoRun == [op |-> "connect", st |-> "none", auto |-> FALSE, rev |-> 0, consent |-> 0, why |-> "other"]

\* Nothing was ever connected, or the user connected it in an earlier run, and may
\* have taken our fragments out since.
Init ==
  /\ \/ content = [f \in Files |-> "none"] /\ inst = [desired |-> "unmanaged", consent |-> 0]
     \/ \E c \in {"none", "ours"} :
          content = [f \in Files |-> c] /\ inst = [desired |-> "managed", consent |-> 0]
  /\ run = [r \in Runs |-> NoRun]
  /\ journal = [r \in Runs |-> [f \in Files |-> NoMutation]]
  /\ intent = [ok |-> TRUE, rev |-> 0]
  /\ writerFence = [f \in Files |-> "free"]
  /\ executionFence = [r \in Runs |-> "free"]
  /\ wk = [w \in Workers |-> Idle]
  /\ edits = 0 /\ faults = 0
-----------------------------------------------------------------------------
Fault == faults < MaxFaults /\ faults' = faults + 1

Free(fence, w) == [x \in DOMAIN fence |-> IF fence[x] = w THEN "free" ELSE fence[x]]

\* The finally blocks: a worker ends, its fences are released.
finish(w) ==
  /\ wk' = [wk EXCEPT ![w] = Idle]
  /\ writerFence' = Free(writerFence, w)
  /\ executionFence' = Free(executionFence, w)

goto(w, pc) ==
  /\ wk' = [wk EXCEPT ![w].pc = pc]
  /\ UNCHANGED <<writerFence, executionFence>>

\* needsRecovery is the next step of the worker, with this failure code.
failing(w, why) ==
  /\ wk' = [wk EXCEPT ![w].pc = "failed", ![w].why = why]
  /\ UNCHANGED <<writerFence, executionFence>>

setRunState(r, st, why) ==
  /\ run[r].st \in PreviousStates(st)
  /\ run' = [run EXCEPT ![r].st = st, ![r].why = why]

Mutated(r) == {f \in Files : journal[r][f].st # "none"}
Uncommitted(r) == {f \in Mutated(r) : journal[r][f].st # "committed"}

\* Mutant: the revision of the choice is not compared.
IntentCurrentAnyRevision(r) == run[r].op = "disconnect" \/ intent.ok

\* runConnectionIntentProblem: a disconnection is always allowed to go on, an
\* automatic run only while the user has chosen nothing since.
IntentCurrent(r) ==
  \/ run[r].op = "disconnect"
  \/ /\ intent.ok
     /\ run[r].auto => run[r].rev = intent.rev

\* The join of claimMutationEffect, revalidateClaimedMutationEffect and the finalizer.
ControlCurrent(r) ==
  /\ inst.consent = run[r].consent
  /\ inst.desired = Wanted(run[r].op)
-----------------------------------------------------------------------------
(* The user, and the automatic maintenance, ask for an operation. *)
request(w, op, began) ==
  wk' = [wk EXCEPT ![w] = [Idle EXCEPT !.pc = "prepare", !.op = op, !.began = began,
                                       !.expect = inst.desired]]

\* service.connect: allowExplicitConnection, then the coordinator.
userConnects ==
  /\ wk["apply"].pc = "idle"
  /\ inst.desired # "disabled"
  /\ intent.ok \/ intent.rev < MaxRev
  /\ intent' = IF intent.ok THEN intent ELSE [ok |-> TRUE, rev |-> intent.rev + 1]
  /\ request("apply", "connect", 0)
  /\ UNCHANGED <<content, run, journal, inst, writerFence, executionFence, edits, faults>>

\* service.disconnect: the intent is recorded before the run is prepared.
userDisconnects ==
  /\ wk["apply"].pc = "idle"
  /\ inst.desired \in {"managed", "disabled"}
  /\ intent.rev < MaxRev
  /\ intent' = [ok |-> FALSE, rev |-> intent.rev + 1]
  /\ request("apply", "disconnect", 0)
  /\ UNCHANGED <<content, run, journal, inst, writerFence, executionFence, edits, faults>>

\* The default policy connects what nobody chose for, and repairs what is missing.
maintenanceActs ==
  /\ wk["maintenance"].pc = "idle"
  /\ intent.ok
  /\ \E f \in Files : content[f] = "none"
  /\ \/ inst.desired = "unmanaged" /\ request("maintenance", "connect", intent.rev)
     \/ inst.desired = "managed" /\ request("maintenance", "repair", intent.rev)
  /\ UNCHANGED <<content, run, journal, inst, intent, writerFence, executionFence, edits, faults>>

Automatic(w, consent) ==
  IF wk[w].op = "connect" THEN w = "maintenance"
  ELSE wk[w].op = "repair" /\ consent # 0 /\ run[consent].auto

\* Mutant: a run that waits for recovery holds nothing.
OverlapsPastRecovery(r, op) ==
  /\ run[r].st \in NonTerminal \ {"needs_recovery"}
  /\ ~(run[r].st = "applied_unverified" /\ op = "disconnect" /\ run[r].op # "disconnect")

\* Mutant: a disconnection overtakes a connection in any state.
OverlapsNoDisconnect(r, op) ==
  /\ run[r].st \in NonTerminal
  /\ ~(op = "disconnect" /\ run[r].op # "disconnect")

\* ensureManagedFence: a run that is not at its end keeps others off the domains
\* of the installation, except that a disconnection need not wait for a
\* connection to be verified.
Overlaps(r, op) ==
  /\ run[r].st \in NonTerminal
  /\ ~(run[r].st = "applied_unverified" /\ op = "disconnect" /\ run[r].op # "disconnect")

\* retireCompletedWaitForFileRepair: the wait a repair replaces.
Retirable(r, consent) ==
  /\ run[r].op # "disconnect"
  /\ \/ run[r].st = "applied_unverified"
     \/ run[r].st = "needs_recovery" /\ run[r].why = "verification"
  /\ run[r].consent = consent
  /\ Mutated(r) # {} /\ Uncommitted(r) = {}

\* retireSameGenerationConnect: the wait that a confirmation without writes replaces.
Confirmable(r) ==
  /\ run[r].op # "disconnect" /\ run[r].st = "applied_unverified"
  /\ run[r].consent = inst.consent
  /\ Uncommitted(r) = {}

\* retireSupersededOwnershipTransfers: a disconnection that stages every file of a
\* completed connection for removal takes its place, verified or not.
Superseded(op) ==
  {r \in Runs : op = "disconnect" /\ run[r].op # "disconnect" /\ Mutated(r) # {}
                 /\ run[r].st \in {"applied_unverified", "needs_recovery"}}

TakenOver(op, files) == {r \in Superseded(op) : Uncommitted(r) = {} /\ Mutated(r) \subseteq files}

Fresh == {r \in Runs : run[r].st = "none" /\ \A q \in 1..(r - 1) : run[q].st # "none"}

\* prepareExecution, in one transaction, under the execution fence of the new run.
\* The installation is shared when a binding of identities freezes its generation.
prepareExecution(w) ==
  LET op == wk[w].op
      files == {f \in Files : content[f] = Before(op)}
      waits(c, shared) ==
        {q \in Runs : \/ op = "repair" /\ Retirable(q, c)
                      \/ op = "connect" /\ files = {} /\ shared /\ Confirmable(q)}
      retired(c, shared) == waits(c, shared) \cup TakenOver(op, files)
      unproven(c, shared) ==
        {q \in Superseded(op) \ retired(c, shared) : run[q].st = "applied_unverified"}
  IN  /\ wk[w].pc = "prepare"
      /\ \E r \in Fresh, shared \in BOOLEAN :
           LET consent == IF op = "repair" THEN inst.consent ELSE r
               auto == Automatic(w, consent)
           IN  /\ \/ files # {} \/ op = "disconnect"
                  \/ op = "connect" /\ inst.desired = "managed"
               /\ \A f \in Files : content[f] # "user"
               /\ inst.desired = wk[w].expect
               /\ op # "disconnect" =>
                    intent.ok /\ (auto => intent.rev = wk[w].began)
               /\ \A q \in waits(consent, shared) : executionFence[q] = "free"
               /\ \A q \in Runs \ retired(consent, shared) : ~Overlaps(q, op)
               /\ run' = [q \in Runs |->
                    IF q = r THEN [op |-> op, st |-> "planned", auto |-> auto, rev |-> wk[w].began,
                                   consent |-> consent, why |-> "other"]
                    ELSE IF q \in retired(consent, shared) THEN [run[q] EXCEPT !.st = "cancelled"]
                    ELSE IF q \in unproven(consent, shared)
                    THEN [run[q] EXCEPT !.st = "needs_recovery", !.why = "other"]
                    ELSE run[q]]
               /\ journal' = [journal EXCEPT ![r] =
                    [f \in Files |-> IF f \in files THEN [NoMutation EXCEPT !.st = "prepared"] ELSE NoMutation]]
               /\ inst' = [desired |-> Wanted(op), consent |-> consent]
               /\ executionFence' = [executionFence EXCEPT ![r] = w]
               /\ wk' = [wk EXCEPT ![w].pc = "start", ![w].r = r, ![w].began = intent.rev]
      /\ UNCHANGED <<content, intent, writerFence, edits, faults>>

\* A check of applyPrepared or of prepareExecution refuses: nothing was changed.
prepareRefused(w) ==
  /\ wk[w].pc = "prepare"
  /\ wk' = [wk EXCEPT ![w] = Idle]
  /\ UNCHANGED <<content, run, journal, inst, intent, writerFence, executionFence, edits, faults>>
-----------------------------------------------------------------------------
(* executePreparedRun, of a new run or of a recovered one. *)
start(w) ==
  LET r == wk[w].r IN
  /\ wk[w].pc = "start"
  /\ \/ wk[w].rec /\ Uncommitted(r) = {} /\ UNCHANGED run /\ goto(w, "next")
     \/ wk[w].rec /\ Uncommitted(r) # {} /\ setRunState(r, "applying", "other") /\ goto(w, "next")
     \/ ~wk[w].rec /\ setRunState(r, "preconditions_checked", "other") /\ goto(w, "mark")
     \/ UNCHANGED run /\ failing(w, "other")
  /\ UNCHANGED <<content, journal, inst, intent, edits, faults>>

markApplying(w) ==
  /\ wk[w].pc = "mark"
  /\ setRunState(wk[w].r, "applying", "other")
  /\ goto(w, "next")
  /\ UNCHANGED <<content, journal, inst, intent, edits, faults>>

\* The next mutation, under the writer fence of its file.
nextMutation(w) ==
  LET r == wk[w].r IN
  /\ wk[w].pc = "next"
  /\ \E f \in Uncommitted(r) :
       IF wk[w].rec \/ writerFence[f] = "free"
       THEN /\ writerFence' = [writerFence EXCEPT ![f] = w]
            /\ wk' = [wk EXCEPT ![w].f = f, ![w].pc = IF wk[w].rec THEN "recover" ELSE "effect_started"]
            /\ UNCHANGED executionFence
       ELSE failing(w, "other")
  /\ UNCHANGED <<content, run, journal, inst, intent, edits, faults>>

\* assertOwned of the writer fence: a heartbeat that failed loses the lease.
loseLease(w) ==
  /\ wk[w].pc \in {"recover", "decide", "claim", "boundary", "readback"}
  /\ Fault
  /\ goto(w, "needs_recovery")
  /\ UNCHANGED <<content, run, journal, inst, intent, edits>>

\* recoverMutation reads back first.
recoveryReads(w) ==
  /\ wk[w].pc = "recover"
  /\ \/ wk' = [wk EXCEPT ![w].obs = content[wk[w].f], ![w].pc = "decide"]
     \/ wk' = [wk EXCEPT ![w].pc = "needs_recovery"]
  /\ UNCHANGED <<content, run, journal, inst, intent, writerFence, executionFence, edits, faults>>

\* Mutant: only the state of the entry counts, not what it already recorded.
EvidenceByState(j) == j.st \in {"effect_observed", "receipt_persisted", "verified"}

\* hasDurableEffectEvidence
Evidence(j) ==
  \/ j.st \in {"effect_observed", "receipt_persisted", "verified"}
  \/ j.post \/ j.receipt

\* Mutant: an entry that needs recovery is taken for one with a receipt.
ResumeUnseen(j) ==
  CASE j.st \in {"prepared", "effect_started"} -> "effect_observed"
    [] j.st \in {"needs_recovery", "receipt_persisted"} -> "verified"
    [] j.st = "effect_observed" -> "receipt_persisted"
    [] j.st = "verified" -> "committed"

\* persistObservedAndCommit: the first state it saves.
ResumeAt(j) ==
  CASE j.st \in {"prepared", "effect_started"} -> "effect_observed"
    [] j.st = "needs_recovery" -> IF j.receipt THEN "verified" ELSE "effect_observed"
    [] j.st = "effect_observed" -> "receipt_persisted"
    [] j.st = "receipt_persisted" -> "verified"
    [] j.st = "verified" -> "committed"

\* checkRecoveryReplay, without the readings of the outside world.
MayReplay(w) ==
  /\ wk[w].auth
  /\ IntentCurrent(wk[w].r)
  /\ inst.desired # "disabled"
  /\ inst.desired = "removed" => run[wk[w].r].op = "disconnect"

\* recoverMutation decides from what it read.  An effect that stopped in a state
\* its plan froze (safeToResumeFrom) goes on like one that never began.
recoveryDecides(w) ==
  LET r == wk[w].r
      j == journal[r][wk[w].f]
      op == run[r].op
  IN  /\ wk[w].pc = "decide"
      /\ \/ wk[w].obs = Desired(op) /\ goto(w, ResumeAt(j))
         \/ wk[w].obs \in {Before(op), "partial"} /\ ~Evidence(j) /\ MayReplay(w) /\ goto(w, "effect_started")
         \/ wk[w].obs # Desired(op) /\ goto(w, "needs_recovery")
      /\ UNCHANGED <<content, run, journal, inst, intent, edits, faults>>
-----------------------------------------------------------------------------
(* applyAndCommit: the state is saved before the effect, and after it step by
   step.  The name of each state is where the worker is about to save it.     *)
Saves == {"effect_started", "effect_observed", "receipt_persisted", "verified", "committed", "needs_recovery"}

After(w, st) ==
  CASE st = "effect_started" -> "claim"
    [] st = "effect_observed" -> "receipt_persisted"
    [] st = "receipt_persisted" -> "verified"
    [] st = "verified" -> "committed"
    [] st = "committed" -> "next"
    [] st = "needs_recovery" -> "failed"

\* saveMutation: fingerprints and the receipt are kept once they are there.  The
\* fingerprint of a removed fragment is null, which COALESCE cannot keep.
Saved(j, op, st) ==
  [j EXCEPT !.st = st,
            !.post = @ \/ (st = "effect_observed" /\ op # "disconnect"),
            !.receipt = @ \/ st = "receipt_persisted",
            !.proved = @ \/ st = "effect_observed"]

saveMutation(w) ==
  LET r == wk[w].r
      f == wk[w].f
      st == wk[w].pc
  IN  /\ st \in Saves
      /\ journal[r][f].st \in Predecessors(st)
      /\ journal' = [journal EXCEPT ![r][f] = Saved(@, run[r].op, st)]
      /\ wk' = [wk EXCEPT ![w].pc = After(w, st), ![w].f = IF st = "committed" THEN "none" ELSE @,
                          ![w].obs = "none"]
      /\ writerFence' = IF st = "committed" /\ ~wk[w].rec THEN Free(writerFence, w) ELSE writerFence
      /\ UNCHANGED <<content, run, inst, intent, executionFence, edits, faults>>

\* The statement fails: mutation_runner_failed, the entry stays as it is.
saveFails(w) ==
  /\ wk[w].pc \in Saves
  /\ Fault
  /\ failing(w, "other")
  /\ UNCHANGED <<content, run, journal, inst, intent, edits>>

\* claimMutationEffect, after the first attestation of the source.
claimEffect(w) ==
  LET r == wk[w].r IN
  /\ wk[w].pc = "claim"
  /\ \/ run[r].st = "applying" /\ IntentCurrent(r) /\ ControlCurrent(r) /\ goto(w, "precondition")
     \/ goto(w, "needs_recovery")
  /\ UNCHANGED <<content, run, journal, inst, intent, edits, faults>>

\* assertLivePrecondition: only a recovery goes on from a frozen state.
checkPrecondition(w) ==
  /\ wk[w].pc = "precondition"
  /\ \/ /\ \/ content[wk[w].f] = Before(run[wk[w].r].op)
           \/ wk[w].rec /\ content[wk[w].f] = "partial"
        /\ goto(w, "boundary")
     \/ goto(w, "needs_recovery")
  /\ UNCHANGED <<content, run, journal, inst, intent, edits, faults>>

\* The last checks: revalidateClaimedMutationEffect up to isRunConnectionIntentCurrent.
crossBoundary(w) ==
  LET r == wk[w].r IN
  /\ wk[w].pc = "boundary"
  /\ \/ run[r].st = "applying" /\ IntentCurrent(r) /\ ControlCurrent(r) /\ goto(w, "write")
     \/ goto(w, "needs_recovery")
  /\ UNCHANGED <<content, run, journal, inst, intent, edits, faults>>

\* Mutant: the effect does not look at what it replaces.
adapterApplyBlind(w) ==
  /\ wk[w].pc = "write"
  /\ content' = [content EXCEPT ![wk[w].f] = Desired(run[wk[w].r].op)]
  /\ goto(w, "readback") \/ goto(w, "needs_recovery")
  /\ UNCHANGED <<run, journal, inst, intent, edits, faults>>

\* adapter.apply replaces what the plan froze, or what a part of its effect left.
\* It may fail before it did, after it, and on the way.
adapterApply(w) ==
  LET f == wk[w].f
      op == run[wk[w].r].op
  IN  /\ wk[w].pc = "write"
      /\ \/ /\ content[f] \in {Before(op), "partial"}
            /\ \/ /\ content' = [content EXCEPT ![f] = Desired(op)]
                  /\ goto(w, "readback") \/ goto(w, "needs_recovery")
               \/ /\ content' = [content EXCEPT ![f] = "partial"]
                  /\ goto(w, "needs_recovery")
         \/ UNCHANGED content /\ goto(w, "needs_recovery")
      /\ UNCHANGED <<run, journal, inst, intent, edits, faults>>

readBack(w) ==
  /\ wk[w].pc = "readback"
  /\ \/ content[wk[w].f] = Desired(run[wk[w].r].op) /\ goto(w, "effect_observed")
     \/ goto(w, "needs_recovery")
  /\ UNCHANGED <<content, run, journal, inst, intent, edits, faults>>

-----------------------------------------------------------------------------
\* Mutant: the loop over the mutations ends early.
markAppliedEarly(w) ==
  LET r == wk[w].r IN
  /\ wk[w].pc = "next"
  /\ setRunState(r, "applied_unverified", "other")
  /\ IF IntentCurrent(r) /\ (run[r].op # "disconnect" => inst.desired = "managed")
     THEN goto(w, "verify") ELSE finish(w)
  /\ UNCHANGED <<content, journal, inst, intent, edits, faults>>

(* After the last mutation: the host must recognise what was written. *)
markApplied(w) ==
  LET r == wk[w].r IN
  /\ wk[w].pc = "next" /\ Uncommitted(r) = {}
  /\ setRunState(r, "applied_unverified", "other")
  /\ IF IntentCurrent(r) /\ (run[r].op # "disconnect" => inst.desired = "managed")
     THEN goto(w, "verify") ELSE finish(w)
  /\ UNCHANGED <<content, journal, inst, intent, edits, faults>>

\* applied_unverified may not follow: the run is recovered without mutations and
\* still planned, or a disconnection took its place meanwhile.  The exception is
\* isolated from the other runs of the pass.
isolateRecoveryFailure(w) ==
  LET r == wk[w].r IN
  /\ wk[w].pc = "next" /\ Uncommitted(r) = {}
  /\ run[r].st \notin PreviousStates("applied_unverified")
  /\ \/ setRunState(r, "needs_recovery", "other")
     \/ run[r].st \notin PreviousStates("needs_recovery") /\ UNCHANGED run
  /\ finish(w)
  /\ UNCHANGED <<content, journal, inst, intent, edits, faults>>

\* verify: failed; incomplete, or the source of the desktop could not be verified
\* (DesktopSourceVerificationUnavailable); or complete and recorded.
verify(w) ==
  LET r == wk[w].r IN
  /\ wk[w].pc = "verify"
  /\ \/ IntentCurrent(r) /\ failing(w, "verification")
     \/ finish(w)
     \/ /\ \A f \in Mutated(r) : content[f] = Desired(run[r].op)
        /\ run[r].st = "applied_unverified" /\ IntentCurrent(r) /\ ControlCurrent(r)
        /\ goto(w, "promote")
  /\ UNCHANGED <<content, run, journal, inst, intent, edits, faults>>

promote(w) ==
  /\ wk[w].pc = "promote"
  /\ \/ setRunState(wk[w].r, "verified", "other") /\ goto(w, "commit")
     \/ UNCHANGED run /\ failing(w, "other")
  /\ UNCHANGED <<content, journal, inst, intent, edits, faults>>

\* loadValidatedRecoveryEnvelope: components and consumers still belong to the
\* consent of the run, as the preparation of the run left them.
Envelope(r) == inst.consent = run[r].consent

\* commitVerifiedRun: a pause leaves the run verified, anything else cancels it.
commitVerifiedRun(w) ==
  LET r == wk[w].r IN
  /\ wk[w].pc = "commit"
  /\ run[r].st = "verified"
  /\ IF Envelope(r) /\ ~IntentCurrent(r) THEN UNCHANGED run
     ELSE IF Envelope(r) /\ ControlCurrent(r) THEN setRunState(r, "committed", "other")
     ELSE run' = [run EXCEPT ![r].st = "cancelled"]
  /\ finish(w)
  /\ UNCHANGED <<content, journal, inst, intent, edits, faults>>

\* blockVerifiedFinalization: source or generation changed meanwhile.
blockVerified(w) ==
  LET r == wk[w].r IN
  /\ wk[w].pc = "commit"
  /\ run[r].st = "verified"
  /\ run' = [run EXCEPT ![r].st = "cancelled"]
  /\ finish(w)
  /\ UNCHANGED <<content, journal, inst, intent, edits, faults>>

\* The statement of the finalizer fails.  In a recovery the failure is isolated:
\* a run that was not read as verified is marked needs_recovery, if it may be.
commitFails(w) ==
  LET r == wk[w].r IN
  /\ wk[w].pc = "commit"
  /\ Fault
  /\ IF wk[w].rec /\ wk[w].expect # "verified" /\ run[r].st \in PreviousStates("needs_recovery")
     THEN run' = [run EXCEPT ![r].st = "needs_recovery"] ELSE UNCHANGED run
  /\ finish(w)
  /\ UNCHANGED <<content, journal, inst, intent, edits>>

\* DesktopSourceVerificationUnavailable: a verified run is left for a later pass.
sourceUnavailable(w) ==
  /\ wk[w].pc = "commit"
  /\ Fault
  /\ finish(w)
  /\ UNCHANGED <<content, run, journal, inst, intent, edits>>

\* needsRecovery
needsRecovery(w) ==
  /\ wk[w].pc = "failed"
  /\ \/ setRunState(wk[w].r, "needs_recovery", wk[w].why) /\ UNCHANGED faults
     \/ run[wk[w].r].st \notin PreviousStates("needs_recovery") /\ UNCHANGED <<run, faults>>
     \/ Fault /\ UNCHANGED run
  /\ finish(w)
  /\ UNCHANGED <<content, journal, inst, intent, edits>>
-----------------------------------------------------------------------------
(* recoverNonTerminalRuns, one run of a maintenance pass. *)

\* Mutant: a run keeps the revision it was prepared under.
RefreshedNever(r) == FALSE /\ run[r].auto

\* refreshRecoveryConnectionIntent: only a new attempt may take over the choice
\* the user made since; the attempt that was under way may not renew itself.
Refreshed(r) ==
  run[r].auto /\ run[r].op # "disconnect" /\ intent.ok
  /\ inst.desired = "managed" /\ inst.consent = run[r].consent

Authorized(r) ==
  \/ run[r].op = "disconnect"
  \/ intent.ok /\ (run[r].auto => Refreshed(r))

refreshed(r) == IF Refreshed(r) THEN [run EXCEPT ![r].rev = intent.rev] ELSE run

recoverRun(r) ==
  LET w == "maintenance"
      fences == IF run[r].st = "verified" THEN {} ELSE Mutated(r)
      begin(pc) ==
        /\ executionFence' = [executionFence EXCEPT ![r] = w]
        /\ writerFence' = [f \in Files |-> IF f \in fences THEN w ELSE writerFence[f]]
        /\ wk' = [wk EXCEPT ![w] = [Idle EXCEPT !.pc = pc, !.op = run[r].op, !.r = r, !.rec = TRUE,
                                               !.auth = Authorized(r), !.began = intent.rev,
                                               !.expect = run[r].st]]
      stay == UNCHANGED <<writerFence, executionFence, wk>>
  IN  /\ wk[w].pc = "idle"
      /\ run[r].st \in NonTerminal /\ Envelope(r)
      /\ executionFence[r] = "free"
      /\ \A f \in fences : writerFence[f] = "free"
      /\ CASE run[r].st = "verified" -> run' = refreshed(r) /\ begin("commit")
           [] run[r].st = "applied_unverified" ->
                IF Authorized(r) THEN run' = refreshed(r) /\ begin("verify")
                ELSE UNCHANGED run /\ stay
           [] OTHER -> run' = refreshed(r) /\ begin("start")
      /\ UNCHANGED <<content, journal, inst, intent, edits, faults>>

\* getRecoverableExecution finds another envelope, or canContinueRecovery does not
\* trust the source: a verified run is cancelled, any other is left for the user.
recoveryRefused(r) ==
  /\ wk["maintenance"].pc = "idle"
  /\ run[r].st \in NonTerminal
  /\ executionFence[r] = "free"
  /\ run' = [run EXCEPT ![r].st = IF @ = "verified" THEN "cancelled" ELSE "needs_recovery",
                        ![r].why = "other"]
  /\ UNCHANGED <<content, journal, inst, intent, writerFence, executionFence, wk, edits, faults>>

visitRun(r) == IF Envelope(r) THEN recoverRun(r) ELSE recoveryRefused(r)
-----------------------------------------------------------------------------
(* The user and the machine. *)
userEdits(f) ==
  /\ edits < MaxEdits /\ edits' = edits + 1
  /\ \E c \in {"none", "ours", "user"} \ {content[f]} : content' = [content EXCEPT ![f] = c]
  /\ UNCHANGED <<run, journal, inst, intent, writerFence, executionFence, wk, faults>>

\* setMemberUserIntent
pause ==
  /\ inst.desired = "managed" /\ intent.rev < MaxRev
  /\ inst' = [inst EXCEPT !.desired = "disabled"]
  /\ intent' = [ok |-> FALSE, rev |-> intent.rev + 1]
  /\ UNCHANGED <<content, run, journal, writerFence, executionFence, wk, edits, faults>>

resume ==
  /\ inst.desired = "disabled" /\ intent.rev < MaxRev
  /\ inst' = [inst EXCEPT !.desired = "managed"]
  /\ intent' = [ok |-> TRUE, rev |-> intent.rev + 1]
  /\ UNCHANGED <<content, run, journal, writerFence, executionFence, wk, edits, faults>>

\* Mutant: the lock file of a run survives its owner.
crashLeavesLock ==
  /\ Fault
  /\ \E w \in Workers : wk[w].pc # "idle"
  /\ wk' = [w \in Workers |-> Idle]
  /\ executionFence' = [r \in Runs |-> IF executionFence[r] = "free" THEN "free" ELSE "stale"]
  /\ writerFence' = [f \in Files |-> IF writerFence[f] = "free" THEN "free" ELSE "stale"]
  /\ UNCHANGED <<content, run, journal, inst, intent, edits>>

\* The lock file of a run is free as soon as its owner is dead; a writer fence
\* only when the lock file is old and the lease in the database has run out.
crash ==
  /\ Fault
  /\ \E w \in Workers : wk[w].pc # "idle"
  /\ wk' = [w \in Workers |-> Idle]
  /\ executionFence' = [r \in Runs |-> "free"]
  /\ writerFence' = [f \in Files |-> IF writerFence[f] = "free" THEN "free" ELSE "stale"]
  /\ UNCHANGED <<content, run, journal, inst, intent, edits>>

leaseExpires(f) ==
  /\ writerFence[f] = "stale"
  /\ writerFence' = [writerFence EXCEPT ![f] = "free"]
  /\ UNCHANGED <<content, run, journal, inst, intent, executionFence, wk, edits, faults>>
-----------------------------------------------------------------------------
Step(w) ==
  \/ prepareExecution(w) \/ prepareRefused(w)
  \/ start(w) \/ markApplying(w) \/ nextMutation(w)
  \/ recoveryReads(w) \/ recoveryDecides(w)
  \/ saveMutation(w)
  \/ claimEffect(w) \/ checkPrecondition(w) \/ crossBoundary(w)
  \/ adapterApply(w) \/ readBack(w)
  \/ markApplied(w) \/ isolateRecoveryFailure(w) \/ verify(w) \/ promote(w) \/ commitVerifiedRun(w) \/ blockVerified(w)
  \/ needsRecovery(w)

Failure(w) == saveFails(w) \/ loseLease(w) \/ commitFails(w) \/ sourceUnavailable(w)

User == userConnects \/ userDisconnects \/ pause \/ resume \/ \E f \in Files : userEdits(f)

Next ==
  \/ \E w \in Workers : Step(w) \/ Failure(w)
  \/ User \/ maintenanceActs
  \/ \E r \in Runs : recoverRun(r) \/ recoveryRefused(r)
  \/ crash
  \/ \E f \in Files : leaseExpires(f)

(* Threads of control go on, leases run out, and every maintenance pass visits
   every run that is not at its end: maintenance runs at the start and on a timer.
   The visit of a run takes place when the source of the desktop can be verified,
   which it can again and again.                                                 *)
Fairness ==
  /\ \A w \in Workers : WF_vars(Step(w))
  /\ \A r \in Runs : SF_vars(visitRun(r))
  /\ \A f \in Files : WF_vars(leaseExpires(f))

Spec == Init /\ [][Next]_vars /\ Fairness
-----------------------------------------------------------------------------
TypeOK ==
  /\ content \in [Files -> {"none", "partial", "ours", "user"}]
  /\ run \in [Runs -> [op : Ops, st : RunStates, auto : BOOLEAN, rev : 0..MaxRev,
                       consent : 0..MaxRuns, why : {"other", "verification"}]]
  /\ journal \in [Runs -> [Files -> [st : {"none", "prepared"} \cup Saves, post : BOOLEAN,
                                     receipt : BOOLEAN, proved : BOOLEAN]]]
  /\ inst \in [desired : {"unmanaged", "managed", "disabled", "removed"}, consent : 0..MaxRuns]
  /\ intent \in [ok : BOOLEAN, rev : 0..MaxRev]
  /\ writerFence \in [Files -> Workers \cup {"free", "stale"}]
  /\ executionFence \in [Runs -> Workers \cup {"free"}]

\* Of the runs that are not at their end, at most one may still write a file,
\* recovery, repair and a disconnection that overtakes a wait included.
OneRunPerFile ==
  \A f \in Files : Cardinality({r \in Runs : run[r].st \in NonTerminal /\ f \in Uncommitted(r)}) <= 1

\* What is presented to the host as written has been journalled to the end, for
\* every file of the plan, whatever failed on the way and however it recovered.
AppliedIsJournalled ==
  \A r \in Runs : run[r].st \in {"applied_unverified", "verified", "committed"} => Uncommitted(r) = {}

Writes(w) == wk[w].pc = "write" /\ content' # content /\ wk' # wk

\* Once the journal has recorded a fragment as written, the run never writes
\* that file again: what the user restored since stays.
NoSecondInstall ==
  [][\A w \in Workers : Writes(w) /\ run[wk[w].r].op # "disconnect"
        => ~journal[wk[w].r][wk[w].f].proved]_vars

\* An automatic attempt crosses to its effect only if the user has made no
\* choice since it began, even when a later pass renewed the run meanwhile.
OldWorkStops ==
  [][\A w \in Workers : wk[w].pc = "boundary" /\ wk'[w].pc = "write" /\ run[wk[w].r].auto
        => wk[w].began = intent.rev]_vars

\* After a disconnection is prepared no earlier run writes our fragment back;
\* only a connection the user asks for afterwards does.
DisconnectSticks ==
  [][\A w \in Workers : Writes(w) /\ inst.desired = "removed" => run[wk[w].r].op = "disconnect"]_vars

\* A verified run is a token for the finalizer: it ends, it is never replayed.
VerifiedOnlyEnds ==
  [][\A r \in Runs : run[r].st = "verified" => run'[r].st \in {"verified", "committed", "cancelled"}]_vars

\* What the runs do to the files is one run after the other on each file, each
\* until it has seen its effect, and shown only then: all that changes in a file
\* is the effect of the run whose turn it is, or an edit of the user.
PhaseOf(st) ==
  CASE st = "none" -> "none"
    [] st \in InFlight \cup {"needs_recovery"} -> "open"
    [] st = "applied_unverified" -> "shown"
    [] st = "verified" -> "verified"
    [] st \in {"committed", "cancelled"} -> "over"

KindOf(op) == IF op = "disconnect" THEN "remove" ELSE "install"

Turns == INSTANCE FileTurns WITH
  last <- IF inst.desired = "removed" THEN "remove" ELSE "install",
  kind <- [r \in Runs |-> KindOf(run[r].op)],
  phase <- [r \in Runs |-> PhaseOf(run[r].st)],
  pending <- [r \in Runs |-> Uncommitted(r)],
  seen <- [r \in Runs |-> {f \in Files : journal[r][f].proved}]

ImplementsFileTurns == Turns!Spec

\* An interrupted run does not stay under way, whatever ended its owner: it is
\* applied, or marked for recovery, or a disconnection takes its place.
InterruptedRunsEnd == \A r \in Runs : run[r].st \in InFlight ~> run[r].st \notin InFlight

\* finalizeVerifiedExecution: "either commits trustworthy current evidence or
\* cancels the stale finalizer token", unless the user's choice is to pause.
StaleTokenEnds ==
  \A r \in Runs : run[r].st = "verified" /\ intent.ok ~> run[r].st # "verified" \/ ~intent.ok
=============================================================================
