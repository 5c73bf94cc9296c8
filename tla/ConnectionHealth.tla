--------------------------- MODULE ConnectionHealth ---------------------------
(***************************************************************************)
(* The circuit breaker of one model connection: the row of                 *)
(* llm_connection_health, the probe lease that lets a single call through  *)
(* a half-open circuit, the calls of callLLM that read and write both from *)
(* several processes, and what the user does in the settings (reset, an    *)
(* environment check, a connection test, "resume future calls").  Rows of  *)
(* different connections never meet, so one row is the whole system.       *)
(*                                                                         *)
(* Time is a set of countdowns: an instant in the row is the number of     *)
(* ticks until it is reached, and 0 once it is.                            *)
(*                                                                         *)
(* Source: src/src/llm/connection-health.ts, src/src/llm/client.ts,        *)
(* src/src/llm/cli/invocation-state.ts and                                 *)
(* src/client/electron/ipc/{llm-health,connections}.ts.                    *)
(***************************************************************************)
EXTENDS Naturals

CONSTANTS
    Call,         \* workers that call the model, one call after another
    None,         \* stands for SQL NULL and for an absent row
    Threshold,    \* FAILURE_THRESHOLD
    Cooldown,     \* INITIAL_COOLDOWN_MS, in ticks
    MaxCooldown,  \* MAX_COOLDOWN_MS, in ticks
    Backoff,      \* the retryAt that a refused model may carry, in ticks
    ProbeTtl,     \* probeLeaseMs, in ticks
    Budget        \* ticks after which a call's own timeouts should have ended it

ASSUME HealthAssumption ==
    /\ Threshold \in Nat \ {0}
    /\ Cooldown \in Nat \ {0}
    /\ MaxCooldown \in Nat /\ Cooldown <= MaxCooldown
    /\ Backoff \in Nat
    /\ Budget \in Nat /\ ProbeTtl \in Nat /\ Budget <= ProbeTtl
    /\ None \notin Nat \cup Call

VARIABLES
    health,      \* the row of llm_connection_health
    probe,       \* the row of llm_connection_probe_leases
    pc,          \* where a call is
    token,       \* whether the call was given a probe token
    error,       \* the error that the call is about to record
    age,         \* ticks since the call was let through
    ousted,      \* what took a probing call's lease from it (history)
    unresolved,  \* ambiguous invocations that nobody has resolved
    op,          \* the settings operation in progress
    resetting    \* a reset is between its read and its transaction

calls == <<pc, token, error, age>>
user  == <<op, resetting>>
vars  == <<health, probe, calls, ousted, unresolved, user>>

-----------------------------------------------------------------------------
(* Error kinds by what the code does with them: "limited" is rate_limit    *)
(* and quota, "environment" what a fresh environment check disproves,      *)
(* "protocol" what only a successful test disproves, "policy" what neither *)
(* does.  Kinds of the model or of the caller do not reach the row.        *)
Kind == {"transient", "limited", "environment", "protocol", "policy",
         "ambiguous"}
Fault == [kind : {"transient"}, user : {FALSE}, retry : {None, Backoff}]
    \cup [kind : {"limited", "environment"}, user : BOOLEAN, retry : {None}]
    \cup [kind : {"protocol", "policy", "ambiguous"}, user : {TRUE},
          retry : {None}]
NoFault == [kind |-> "none", user |-> FALSE, retry |-> None]

(* The row that a success or a reset writes, and the one that is not there;*)
(* what the settings clear, where the cooldown that has grown stays.       *)
Closed(cool) == [open |-> FALSE, failures |-> 0, wait |-> None,
                 cooldown |-> cool, retry |-> None, kind |-> "none",
                 user |-> FALSE]
Healthy    == Closed(Cooldown)
Cleared(h) == Closed(h.cooldown)

NoProbe == [owner |-> None, ttl |-> 0]
NoOp    == [type |-> "none", newer |-> FALSE, ids |-> {}]

Stage == {"idle", "routed", "calling", "running", "lost", "ok", "failed",
          "over"}
Live(c) == pc[c] \in {"calling", "running"}

Time == Nat \cup {None}
HealthRow == [open : BOOLEAN, failures : 0..Threshold, wait : Time,
              cooldown : Nat, retry : Time, kind : Kind \cup {"none"},
              user : BOOLEAN]
ProbeRow  == [owner : Call \cup {None}, ttl : 0..ProbeTtl]
Operation == [type : {"none", "check", "test", "checked", "tested", "resume"},
              newer : BOOLEAN, ids : SUBSET Call]

TypeOK ==
    /\ health \in HealthRow
    /\ probe \in ProbeRow
    /\ pc \in [Call -> Stage]
    /\ token \in [Call -> BOOLEAN]
    /\ error \in [Call -> Fault \cup {NoFault}]
    /\ age \in [Call -> 0..Budget]
    /\ ousted \in [Call -> {"no", "reset", "prober"}]
    /\ unresolved \in SUBSET Call
    /\ op \in Operation
    /\ resetting \in BOOLEAN

Init ==
    /\ health = Healthy
    /\ probe = NoProbe
    /\ pc = [c \in Call |-> "idle"]
    /\ token = [c \in Call |-> FALSE]
    /\ error = [c \in Call |-> NoFault]
    /\ age = [c \in Call |-> 0]
    /\ ousted = [c \in Call |-> "no"]
    /\ unresolved = {}
    /\ op = NoOp
    /\ resetting = FALSE

-----------------------------------------------------------------------------
(* What the code reads and computes.                                       *)

(* rowToState: an open row becomes half-open by itself, unless the user    *)
(* has to act, when its retry time or its cooldown has passed.             *)
HalfOpen == health.open /\ ~health.user /\ (health.retry = 0 \/ health.wait = 0)

(* Mutant: a lease blocks until its owner deletes it.                      *)
HeldForever == probe.owner # None

Held == probe.ttl > 0

Callable == ~health.open \/ (HalfOpen /\ ~Held)

(* ownsProbe: the verdict of a probing call counts only under its lease.   *)
Owns(c) == token[c] => probe.owner = c /\ Held

Released(c) == IF token[c] /\ probe.owner = c THEN NoProbe ELSE probe

Smaller(m, n) == IF m < n THEN m ELSE n

(* Mutant: the row opens without the times at which it may be tried again. *)
FailedUndated(h, e) ==
    [h EXCEPT !.open = TRUE, !.failures = Smaller(h.failures + 1, Threshold),
              !.kind = e.kind, !.user = e.user, !.retry = e.retry]

(* recordConnectionFailure.  The count matters up to the threshold only.   *)
Failed(h, e) ==
    LET count == Smaller(h.failures + 1, Threshold)
        opens == e.kind # "transient" \/ count >= Threshold
        cool  == IF opens /\ h.open THEN Smaller(2 * h.cooldown, MaxCooldown)
                                    ELSE h.cooldown
    IN [open     |-> opens,
        failures |-> count,
        wait     |-> IF opens THEN cool ELSE h.wait,
        cooldown |-> cool,
        retry    |-> IF e.retry # None THEN e.retry
                     ELSE IF opens /\ ~e.user THEN cool ELSE None,
        kind     |-> e.kind,
        user     |-> e.user]

(* Mutant: the age of the error does not matter.                           *)
DisprovedAtAnyTime(type) ==
    health.kind \in IF type = "checked" THEN {"environment"}
                    ELSE {"environment", "limited", "transient", "protocol"}

(* recoverCliConnectionHealth: a check or a successful test disproves only *)
(* errors of certain kinds that were recorded before it began.             *)
Disproved(type) ==
    /\ ~op.newer
    /\ health.kind \in IF type = "checked" THEN {"environment"}
                       ELSE {"environment", "limited", "transient", "protocol"}

-----------------------------------------------------------------------------
(* A call, in one of several processes.                                    *)

(* resolveLLMRoute and assertRouteCallable: no ambiguity pauses the        *)
(* connection.                                                             *)
Begin(c) ==
    /\ pc[c] = "idle" /\ unresolved = {}
    /\ pc' = [pc EXCEPT ![c] = "routed"]
    /\ ousted' = [ousted EXCEPT ![c] = "no"]
    /\ UNCHANGED <<health, probe, token, error, age, unresolved, user>>

(* Mutant: the default of one minute for the lease of every call.          *)
GrantedForAMinute(c) == [owner |-> c, ttl |-> 1]

Granted(c) == [owner |-> c, ttl |-> ProbeTtl]

(* assertConnectionHealthCallable, one immediate transaction.              *)
Admit(c) ==
    /\ pc[c] = "routed" /\ Callable
    /\ probe' = IF health.open THEN Granted(c) ELSE probe
    /\ token' = [token EXCEPT ![c] = health.open]
    /\ ousted' = [d \in Call |-> IF health.open /\ token[d] /\ ousted[d] = "no"
                                 THEN "prober" ELSE ousted[d]]
    /\ age' = [age EXCEPT ![c] = 0]
    /\ pc' = [pc EXCEPT ![c] = "calling"]
    /\ UNCHANGED <<health, error, unresolved, user>>

Refuse(c) ==
    /\ pc[c] = "routed" /\ ~Callable
    /\ pc' = [pc EXCEPT ![c] = "idle"]
    /\ UNCHANGED <<health, probe, token, error, age, ousted, unresolved, user>>

(* A call of a local CLI inserts its invocation row, after its first       *)
(* environment check.                                                      *)
StartRow(c) ==
    /\ pc[c] = "calling" /\ unresolved = {}
    /\ pc' = [pc EXCEPT ![c] = "running"]
    /\ UNCHANGED <<health, probe, token, error, age, ousted, unresolved, user>>

Succeed(c) ==
    /\ Live(c)
    /\ pc' = [pc EXCEPT ![c] = "ok"]
    /\ UNCHANGED <<health, probe, token, error, age, ousted, unresolved, user>>

(* After its retries.  An ambiguous_outcome is the call's own, recorded    *)
(* with its invocation, or the refusal because of another's.               *)
Fail(c) ==
    /\ Live(c)
    /\ \E e \in Fault :
         /\ error' = [error EXCEPT ![c] = e]
         /\ \/ /\ e.kind = "ambiguous" /\ pc[c] = "running"
               /\ unresolved' = unresolved \cup {c}
            \/ /\ e.kind = "ambiguous" => unresolved # {}
               /\ UNCHANGED unresolved
    /\ pc' = [pc EXCEPT ![c] = "failed"]
    /\ UNCHANGED <<health, probe, token, age, ousted, user>>

(* Aborted, or failed for a reason that is not the connection's: nothing   *)
(* is recorded.                                                            *)
EndUnrecorded(c) ==
    /\ Live(c)
    /\ pc' = [pc EXCEPT ![c] = "over"]
    /\ UNCHANGED <<health, probe, token, error, age, ousted, unresolved, user>>

(* The check or resume under way will find that its evidence is older.     *)
Noted == [op EXCEPT !.newer = op.type # "none"]

(* recordConnectionSuccess.                                                *)
RecordSuccess(c) ==
    /\ pc[c] = "ok"
    /\ pc' = [pc EXCEPT ![c] = "over"]
    /\ \/ /\ Owns(c)
          /\ health' = Healthy
          /\ probe' = Released(c)
       \/ /\ ~Owns(c)
          /\ UNCHANGED <<health, probe>>
    /\ UNCHANGED <<token, error, age, ousted, unresolved, user>>

RecordFailure(c) ==
    /\ pc[c] = "failed"
    /\ pc' = [pc EXCEPT ![c] = "over"]
    /\ \/ /\ Owns(c)
          /\ health' = Failed(health, error[c])
          /\ probe' = Released(c)
          /\ op' = Noted
       \/ /\ ~Owns(c)
          /\ UNCHANGED <<health, probe, op>>
    /\ error' = [error EXCEPT ![c] = NoFault]
    /\ UNCHANGED <<token, age, ousted, unresolved, resetting>>

(* Recording is best effort.                                               *)
RecordFails(c) ==
    /\ pc[c] \in {"ok", "failed"}
    /\ pc' = [pc EXCEPT ![c] = "over"]
    /\ error' = [error EXCEPT ![c] = NoFault]
    /\ UNCHANGED <<health, probe, token, age, ousted, unresolved, user>>

(* The finally of callLLM; its release of the lease may fail, too.         *)
Finish(c) ==
    /\ pc[c] = "over"
    /\ pc' = [pc EXCEPT ![c] = "idle"]
    /\ token' = [token EXCEPT ![c] = FALSE]
    /\ probe' \in {Released(c), probe}
    /\ UNCHANGED <<health, error, age, ousted, unresolved, user>>

(* The process dies; a running invocation row stays behind ...             *)
Crash(c) ==
    /\ pc[c] \notin {"idle", "lost"}
    /\ pc' = [pc EXCEPT ![c] = IF pc[c] = "running" THEN "lost" ELSE "idle"]
    /\ token' = [token EXCEPT ![c] = FALSE]
    /\ error' = [error EXCEPT ![c] = NoFault]
    /\ UNCHANGED <<health, probe, age, ousted, unresolved, user>>

(* ... until a starting daemon judges it.                                  *)
Reconcile(c) ==
    /\ pc[c] = "lost"
    /\ pc' = [pc EXCEPT ![c] = "idle"]
    /\ unresolved' \in {unresolved, unresolved \cup {c}}
    /\ UNCHANGED <<health, probe, token, error, age, ousted, user>>

Earlier(t) == IF t = None \/ t = 0 THEN t ELSE t - 1

(* A call is as old as its budget once it has overrun it: its process was  *)
(* suspended.                                                              *)
Tick ==
    /\ health' = [health EXCEPT !.wait = Earlier(@), !.retry = Earlier(@)]
    /\ probe' = [probe EXCEPT !.ttl = Earlier(@)]
    /\ age' = [c \in Call |-> IF Live(c) THEN Smaller(age[c] + 1, Budget)
                                         ELSE age[c]]
    /\ UNCHANGED <<pc, token, error, ousted, unresolved, user>>

-----------------------------------------------------------------------------
(* The user, in the main thread of the desktop application.                *)

(* resetConnectionHealth reads the row, outside of its transaction, ...    *)
ResetRead ==
    /\ ~resetting /\ health.kind # "ambiguous"
    /\ resetting' = TRUE
    /\ UNCHANGED <<health, probe, calls, ousted, unresolved, op>>

(* Mutant: the lease outlives the reset.                                   *)
ResetKeepsLease ==
    /\ resetting
    /\ health' = Healthy
    /\ ousted' = [c \in Call |-> IF token[c] THEN "reset" ELSE ousted[c]]
    /\ resetting' = FALSE
    /\ UNCHANGED <<probe, calls, unresolved, op>>

(* ... and then writes it.                                                 *)
ResetWrite ==
    /\ resetting
    /\ health' = Healthy
    /\ probe' = NoProbe
    /\ ousted' = [c \in Call |-> IF token[c] THEN "reset" ELSE ousted[c]]
    /\ resetting' = FALSE
    /\ UNCHANGED <<calls, unresolved, op>>

BeginOp(type) ==
    /\ ~resetting /\ op.type = "none"
    /\ op' = [NoOp EXCEPT !.type = type, !.ids = unresolved]
    /\ UNCHANGED <<health, probe, calls, ousted, unresolved, resetting>>

BeginCheck == BeginOp("check")
BeginTest  == BeginOp("test")

(* The check or test ends well, and nothing pauses the connection ...      *)
Confirm ==
    /\ ~resetting /\ op.type \in {"check", "test"} /\ unresolved = {}
    /\ op' = [op EXCEPT !.type = IF @ = "check" THEN "checked" ELSE "tested"]
    /\ UNCHANGED <<health, probe, calls, ousted, unresolved, resetting>>

(* ... and in a statement of its own the row recovers.                     *)
Recover ==
    /\ ~resetting /\ op.type \in {"checked", "tested"}
    /\ health' = IF Disproved(op.type) THEN Cleared(health) ELSE health
    /\ op' = NoOp
    /\ UNCHANGED <<probe, calls, ousted, unresolved, resetting>>

(* Failed, cancelled, or the connection is paused: nothing recovers.       *)
GiveUp ==
    /\ ~resetting /\ op.type \in {"check", "test", "resume"}
    /\ op' = NoOp
    /\ UNCHANGED <<health, probe, calls, ousted, unresolved, resetting>>

(* cliResumeWorkPending: rows that still run, and the probe lease.         *)
WorkPending == Held \/ \E c \in Call : pc[c] \in {"running", "lost"}

BeginResume == unresolved # {} /\ ~WorkPending /\ BeginOp("resume")

(* resumeCliFutureCalls, one immediate transaction.                        *)
CommitResume ==
    /\ ~resetting /\ op.type = "resume"
    /\ unresolved # {} /\ unresolved = op.ids /\ ~WorkPending
    /\ ~(health.kind = "ambiguous" /\ op.newer)
    /\ unresolved' = {}
    /\ health' = IF health.kind = "ambiguous" THEN Cleared(health) ELSE health
    /\ op' = NoOp
    /\ UNCHANGED <<probe, calls, ousted, resetting>>

-----------------------------------------------------------------------------
CallStep(c) ==
    \/ Begin(c) \/ Admit(c) \/ Refuse(c) \/ StartRow(c)
    \/ Succeed(c) \/ Fail(c) \/ EndUnrecorded(c)
    \/ RecordSuccess(c) \/ RecordFailure(c) \/ RecordFails(c) \/ Finish(c)
    \/ Crash(c) \/ Reconcile(c)

UserStep ==
    \/ ResetRead \/ ResetWrite
    \/ BeginCheck \/ BeginTest \/ Confirm \/ Recover \/ GiveUp
    \/ BeginResume \/ CommitResume

Next == (\E c \in Call : CallStep(c)) \/ UserStep \/ Tick

(* The clock runs, whatever stalls or dies.  No caller and no user is      *)
(* asked to do anything.                                                   *)
Spec     == Init /\ [][Next]_vars
FairSpec == Spec /\ WF_vars(Tick)

-----------------------------------------------------------------------------
(* What must hold.                                                         *)

(* An open circuit that needs no user knows when it may be tried again,    *)
(* and three failures without a success or an intervention between them    *)
(* always have opened it: no order of verdicts, expiries and settings      *)
(* leaves the row half written.                                            *)
NeverStranded ==
    /\ health.open => /\ health.wait # None
                      /\ health.kind # "none"
                      /\ ~health.user => health.retry # None
    /\ health.failures = Threshold => health.open
    /\ health.failures = 0 => health.kind = "none"

(* A connection that needs no user can be called again sooner or later,    *)
(* although the prober may have died with the lease or failed again.       *)
SelfHeals == ~health.user ~> (health.user \/ Callable)

(* "half-open allows only one atomic probe owner": no second call is let   *)
(* through to probe while the first runs within its budget, unless the     *)
(* user reset the circuit meanwhile.                                       *)
InTime(c) == Live(c) /\ age[c] < Budget
OneProber ==
    \A c, d \in Call :
        /\ token[c] /\ ousted[c] # "reset" /\ InTime(c)
        /\ token[d] /\ ousted[d] # "reset" /\ InTime(d)
        => c = d

(* A prober that stalled until another call was let through in its place,  *)
(* or until the user reset the circuit, has no say any more: its late      *)
(* verdict neither closes the circuit nor opens it, whatever happened to   *)
(* the lease and the row since.                                            *)
OustedProbesAreMute ==
    [][\A c \in Call :
          /\ ousted[c] # "no"
          /\ pc[c] \in {"ok", "failed"} /\ pc'[c] = "over"
          => health' = health]_vars

(* A check, a test or a resume says nothing of an error that was recorded  *)
(* after it began: only a reset or another call's verdict replaces that.   *)
NewErrorSurvives ==
    [][op.newer /\ op.type # "none" /\ op'.type = "none"
          => health' = health]_vars

=============================================================================
