------------------------ MODULE ConnectionHealthProofs ------------------------
(***************************************************************************)
(* Theorems about ConnectionHealth, for any number of workers, any         *)
(* threshold, any cooldowns and any lease that outlives a call's budget.   *)
(* The inductive invariant IInv says that the row is consistent, that a    *)
(* call which is about to record a failure has one, and that the lease of  *)
(* a living prober has not run out: what it has left and the age of the    *)
(* call add up to the lease's length at least; and that a call which lost  *)
(* its lease to another prober or to a reset does not get it back.         *)
(***************************************************************************)
EXTENDS ConnectionHealth, TLAPS

(* A call that is about to record a failure knows which.                   *)
FaultKnown == \A c \in Call : pc[c] = "failed" => error[c] \in Fault

Probes(c) == InTime(c) /\ token[c] /\ ousted[c] # "reset"

(* A prober within its budget holds the lease.                             *)
LeaseLasts ==
    \A c \in Call :
        Probes(c) => probe.owner = c /\ probe.ttl + age[c] >= ProbeTtl

(* A probing call that was ousted does not hold the lease, nor will it get *)
(* it back before it is done.                                              *)
Ousted ==
    \A c \in Call :
        /\ token[c] => pc[c] \notin {"idle", "routed", "lost"}
        /\ ousted[c] # "no" =>
              \/ token[c] /\ probe.owner # c
              \/ ~token[c] /\ pc[c] \in {"idle", "lost"}

IInv == TypeOK /\ FaultKnown /\ NeverStranded /\ LeaseLasts /\ Ousted

(* What a consistent row is, of any row.                                   *)
Consistent(h) ==
    /\ h.open => /\ h.wait # None
                 /\ h.kind # "none"
                 /\ ~h.user => h.retry # None
    /\ h.failures = Threshold => h.open
    /\ h.failures = 0 => h.kind = "none"

LEMMA HealthyRow == Healthy \in HealthRow /\ Consistent(Healthy)
BY HealthAssumption DEF Healthy, Closed, HealthRow, Time, Consistent

LEMMA ClearedRow ==
    ASSUME NEW h \in HealthRow
    PROVE  Cleared(h) \in HealthRow /\ Consistent(Cleared(h))
<1>1. h.cooldown \in Nat
    BY DEF HealthRow
<1>. QED
    BY <1>1, HealthAssumption DEF Cleared, Closed, HealthRow, Time, Consistent

(* A recorded failure leaves a consistent row, whatever was there.         *)
LEMMA FailedRow ==
    ASSUME NEW h \in HealthRow, NEW e \in Fault
    PROVE  Failed(h, e) \in HealthRow /\ Consistent(Failed(h, e))
<1>. DEFINE count == Smaller(h.failures + 1, Threshold)
            opens == e.kind # "transient" \/ count >= Threshold
            cool  == IF opens /\ h.open THEN Smaller(2 * h.cooldown, MaxCooldown)
                                        ELSE h.cooldown
            retry == IF e.retry # None THEN e.retry
                     ELSE IF opens /\ ~e.user THEN cool ELSE None
            wait  == IF opens THEN cool ELSE h.wait
<1>1. count \in 1..Threshold
    BY HealthAssumption DEF HealthRow, Smaller
<1>2. cool \in Nat /\ cool # None
    BY HealthAssumption DEF HealthRow, Smaller
<1>3. /\ e.kind \in Kind /\ e.kind # "none" /\ e.user \in BOOLEAN
      /\ e.retry \in Time
    BY HealthAssumption DEF Fault, Kind, Time
<1>4. h.wait \in Time /\ opens \in BOOLEAN
    BY DEF HealthRow
<1>5. retry \in Time /\ wait \in Time
    BY <1>2, <1>3, <1>4 DEF Time
<1>6. Failed(h, e) = [open |-> opens, failures |-> count, wait |-> wait,
                      cooldown |-> cool, retry |-> retry, kind |-> e.kind,
                      user |-> e.user]
    BY DEF Failed
<1>7. Failed(h, e) \in HealthRow
    <2>. HIDE DEF count, opens, cool, retry, wait
    <2>. QED
        BY <1>1, <1>2, <1>3, <1>4, <1>5, <1>6 DEF HealthRow
<1>8. (opens => wait # None) /\ (opens /\ ~e.user => retry # None)
    BY <1>2
<1>9. count = Threshold => opens
    BY <1>1, HealthAssumption
<1>. HIDE DEF count, opens, cool, retry, wait
<1>. QED
    BY <1>1, <1>3, <1>6, <1>7, <1>8, <1>9 DEF Consistent

(* Time only moves an instant closer.                                      *)
LEMMA EarlierTime ==
    /\ \A t \in Time : Earlier(t) \in Time /\ (t # None => Earlier(t) # None)
    /\ \A n \in 0..ProbeTtl : /\ Earlier(n) \in 0..ProbeTtl
                              /\ n > 0 => Earlier(n) = n - 1
BY HealthAssumption DEF Earlier, Time

LEMMA ProbeRows ==
    /\ NoProbe \in ProbeRow
    /\ \A c \in Call : Granted(c) \in ProbeRow
    /\ TypeOK => \A c \in Call : Released(c) \in ProbeRow
BY HealthAssumption DEF NoProbe, ProbeRow, Granted, Released, TypeOK

LEMMA OpRows ==
    /\ NoOp \in Operation
    /\ TypeOK => Noted \in Operation
BY DEF NoOp, Operation, Noted, TypeOK

LEMMA InitInv == Init => IInv
<1>. SUFFICES ASSUME Init PROVE IInv
    OBVIOUS
<1>1. TypeOK
    <2>1. /\ health \in HealthRow /\ probe \in ProbeRow /\ op \in Operation
          /\ ousted \in [Call -> {"no", "reset", "prober"}] /\ unresolved \in SUBSET Call
          /\ resetting \in BOOLEAN
        BY HealthyRow, ProbeRows, OpRows DEF Init
    <2>2. /\ pc \in [Call -> Stage] /\ token \in [Call -> BOOLEAN]
          /\ error \in [Call -> Fault \cup {NoFault}]
        BY DEF Init, Stage
    <2>3. age \in [Call -> 0..Budget]
        BY HealthAssumption DEF Init
    <2>. QED
        BY <2>1, <2>2, <2>3 DEF TypeOK
<1>2. FaultKnown /\ LeaseLasts /\ Ousted
    BY DEF Init, FaultKnown, LeaseLasts, Probes, Live, Ousted
<1>3. NeverStranded
    BY HealthyRow DEF Init, NeverStranded, Consistent
<1>. QED
    BY <1>1, <1>2, <1>3 DEF IInv

(* The row stays consistent: five steps write it.                          *)
LEMMA RowStep ==
    ASSUME IInv, [Next]_vars
    PROVE  health' \in HealthRow /\ NeverStranded'
<1>0. health \in HealthRow /\ Consistent(health)
    BY DEF IInv, TypeOK, NeverStranded, Consistent
<1>. SUFFICES health' \in HealthRow /\ Consistent(health')
    BY DEF NeverStranded, Consistent
<1>1. CASE UNCHANGED health
    BY <1>0, <1>1
<1>2. ASSUME NEW c \in Call, CallStep(c)
      PROVE health' \in HealthRow /\ Consistent(health')
    <2>1. CASE RecordSuccess(c)
        BY <2>1, <1>0, HealthyRow DEF RecordSuccess
    <2>2. CASE RecordFailure(c)
        <3>1. error[c] \in Fault
            BY <2>2 DEF RecordFailure, IInv, FaultKnown
        <3>. QED
            BY <2>2, <3>1, <1>0, FailedRow DEF RecordFailure
    <2>3. UNCHANGED health \/ RecordSuccess(c) \/ RecordFailure(c)
        BY <1>2 DEF CallStep, Begin, Admit, Refuse, StartRow, Succeed, Fail,
           EndUnrecorded, RecordFails, Finish, Crash, Reconcile
    <2>. QED
        BY <2>1, <2>2, <2>3, <1>1
<1>3. CASE UserStep
    <2>1. CASE ResetWrite
        BY <2>1, HealthyRow DEF ResetWrite
    <2>2. CASE Recover
        BY <2>2, <1>0, ClearedRow DEF Recover
    <2>3. CASE CommitResume
        BY <2>3, <1>0, ClearedRow DEF CommitResume
    <2>4. UNCHANGED health \/ ResetWrite \/ Recover \/ CommitResume
        BY <1>3 DEF UserStep, ResetRead, BeginCheck, BeginTest, BeginOp,
           Confirm, GiveUp, BeginResume
    <2>. QED
        BY <2>1, <2>2, <2>3, <2>4, <1>1
<1>4. CASE Tick
    <2>1. /\ health.wait \in Time /\ health.retry \in Time
        BY <1>0 DEF HealthRow
    <2>2. health' = [health EXCEPT !.wait = Earlier(health.wait),
                                   !.retry = Earlier(health.retry)]
        BY <1>4 DEF Tick
    <2>. QED
        BY <1>0, <2>1, <2>2, EarlierTime DEF HealthRow, Consistent
<1>. QED
    BY <1>1, <1>2, <1>3, <1>4 DEF Next, vars

(* Every other variable keeps its type.                                    *)
LEMMA CallTypes ==
    ASSUME IInv, NEW c \in Call, CallStep(c), health' \in HealthRow
    PROVE  TypeOK'
<1>. USE DEF calls, user
<1>1. /\ TypeOK /\ NoProbe \in ProbeRow /\ Granted(c) \in ProbeRow
      /\ Released(c) \in ProbeRow /\ Noted \in Operation
    BY ProbeRows, OpRows DEF IInv
<1>2. 0 \in 0..Budget
    BY HealthAssumption
<1>3. CASE Begin(c) \/ Refuse(c) \/ StartRow(c) \/ Succeed(c) \/ EndUnrecorded(c)
    BY <1>1, <1>3 DEF TypeOK, Begin, Refuse, StartRow, Succeed, EndUnrecorded,
       Stage
<1>4. CASE Admit(c)
    BY <1>1, <1>2, <1>4 DEF TypeOK, Admit, Stage, HealthRow
<1>5. CASE Fail(c)
    BY <1>1, <1>5 DEF TypeOK, Fail, Stage
<1>6. CASE RecordSuccess(c) \/ RecordFailure(c) \/ RecordFails(c)
    BY <1>1, <1>6 DEF TypeOK, RecordSuccess, RecordFailure, RecordFails, Stage
<1>7. CASE Finish(c) \/ Crash(c) \/ Reconcile(c)
    BY <1>1, <1>7 DEF TypeOK, Finish, Crash, Reconcile, Stage
<1>. QED
    BY <1>3, <1>4, <1>5, <1>6, <1>7, CallStep(c) DEF CallStep

LEMMA OtherTypes ==
    ASSUME IInv, UserStep \/ Tick, health' \in HealthRow
    PROVE  TypeOK'
<1>. USE DEF calls, user
<1>1. TypeOK /\ NoProbe \in ProbeRow /\ NoOp \in Operation
    BY ProbeRows, OpRows DEF IInv
<1>2. CASE ResetRead \/ ResetWrite
    BY <1>1, <1>2 DEF TypeOK, ResetRead, ResetWrite
<1>3. CASE BeginCheck \/ BeginTest \/ BeginResume
    <2>1. PICK type \in {"check", "test", "resume"} : BeginOp(type)
        BY <1>3 DEF BeginCheck, BeginTest, BeginResume
    <2>2. [NoOp EXCEPT !.type = type, !.ids = unresolved] \in Operation
        BY <1>1 DEF NoOp, Operation, TypeOK
    <2>. QED
        BY <1>1, <2>1, <2>2 DEF TypeOK, BeginOp
<1>4. CASE Confirm
    <2>1. op' \in Operation
        BY <1>1, <1>4 DEF TypeOK, Confirm, Operation
    <2>. QED
        BY <1>1, <1>4, <2>1 DEF TypeOK, Confirm
<1>5. CASE Recover \/ GiveUp \/ CommitResume
    BY <1>1, <1>5 DEF TypeOK, Recover, GiveUp, CommitResume
<1>6. CASE Tick
    <2>1. probe' \in ProbeRow
        BY <1>1, <1>6, EarlierTime DEF TypeOK, Tick, ProbeRow
    <2>2. age' \in [Call -> 0..Budget]
        BY <1>1, <1>6, HealthAssumption DEF TypeOK, Tick, Smaller
    <2>. QED
        BY <1>1, <1>6, <2>1, <2>2 DEF TypeOK, Tick
<1>. QED
    BY <1>2, <1>3, <1>4, <1>5, <1>6 DEF UserStep

LEMMA FaultStep ==
    ASSUME IInv, [Next]_vars
    PROVE  FaultKnown'
<1>. USE DEF calls, user, FaultKnown
<1>0. TypeOK /\ FaultKnown
    BY DEF IInv
<1>1. CASE UNCHANGED <<pc, error>>
    BY <1>0, <1>1
<1>2. ASSUME NEW c \in Call, CallStep(c)
      PROVE FaultKnown'
    <2>1. CASE Fail(c)
        BY <2>1, <1>0 DEF Fail, TypeOK
    <2>2. /\ ~Fail(c) => pc'[c] # "failed"
          /\ \A d \in Call \ {c} : pc'[d] = pc[d] /\ error'[d] = error[d]
        BY <1>2, <1>0 DEF TypeOK, CallStep, Begin, Admit, Refuse, StartRow,
           Succeed, Fail, EndUnrecorded, RecordSuccess, RecordFailure,
           RecordFails, Finish, Crash, Reconcile
    <2>. QED
        BY <2>1, <2>2, <1>0
<1>3. CASE UserStep \/ Tick
    BY <1>0, <1>3 DEF UserStep, Tick, ResetRead, ResetWrite, BeginCheck,
       BeginTest, BeginOp, Confirm, Recover, GiveUp, BeginResume, CommitResume
<1>. QED
    BY <1>1, <1>2, <1>3 DEF Next, vars

(* A living prober keeps its lease: nobody else deletes or retakes it, and *)
(* the clock cannot use it up before the call is over.                     *)
LEMMA LeaseStep ==
    ASSUME IInv, [Next]_vars
    PROVE  LeaseLasts'
<1>. USE DEF calls, user
<1>. SUFFICES ASSUME NEW d \in Call, Probes(d)'
     PROVE (probe.owner = d /\ probe.ttl + age[d] >= ProbeTtl)'
    BY DEF LeaseLasts
<1>0. /\ TypeOK
      /\ Probes(d) => probe.owner = d /\ probe.ttl + age[d] >= ProbeTtl
      /\ age[d] \in 0..Budget /\ probe.ttl \in 0..ProbeTtl
    BY DEF IInv, LeaseLasts, TypeOK, ProbeRow
<1>1. CASE UNCHANGED <<pc, token, ousted, probe, age>>
    BY <1>0, <1>1 DEF Probes, InTime, Live
<1>2. ASSUME NEW c \in Call, CallStep(c), c # d
      PROVE (probe.owner = d /\ probe.ttl + age[d] >= ProbeTtl)'
    <2>1. Probes(d) /\ age'[d] = age[d]
        BY <1>2, <1>0 DEF Probes, InTime, Live, TypeOK, CallStep, Begin, Admit, Refuse,
           StartRow, Succeed, Fail, EndUnrecorded, RecordSuccess, RecordFailure,
           RecordFails, Finish, Crash, Reconcile
    <2>2. probe.owner = d /\ probe.ttl + age[d] >= ProbeTtl /\ probe.ttl > 0
        BY <2>1, <1>0, HealthAssumption DEF Probes, InTime
    <2>3. Released(c) = probe
        BY <2>2, <1>2 DEF Released
    <2>4. ~(Admit(c) /\ health.open)
        BY <2>2, <1>0 DEF Admit, Callable, Held
    <2>5. probe' = probe
        BY <2>3, <2>4, <1>2 DEF CallStep, Begin, Admit, Refuse, StartRow,
           Succeed, Fail, EndUnrecorded, RecordSuccess, RecordFailure,
           RecordFails, Finish, Crash, Reconcile
    <2>. QED
        BY <2>1, <2>2, <2>5
<1>3. CASE CallStep(d)
    <2>1. CASE Admit(d)
        <3>1. health.open /\ probe' = Granted(d) /\ age'[d] = 0
            BY <2>1, <1>0 DEF Admit, Probes, TypeOK, HealthRow
        <3>. QED
            BY <3>1, HealthAssumption DEF Granted
    <2>2. CASE StartRow(d)
        BY <2>2, <1>0 DEF StartRow, Probes, InTime, Live, TypeOK
    <2>3. Admit(d) \/ StartRow(d)
        BY <1>3, <1>0 DEF Probes, InTime, Live, TypeOK, CallStep, Begin, Refuse,
           Succeed, Fail, EndUnrecorded, RecordSuccess, RecordFailure,
           RecordFails, Finish, Crash, Reconcile
    <2>. QED
        BY <2>1, <2>2, <2>3
<1>4. CASE ResetWrite
    BY <1>4, <1>0 DEF ResetWrite, Probes, InTime, Live
<1>5. CASE UserStep /\ ~ResetWrite
    BY <1>5, <1>1 DEF UserStep, ResetRead, BeginCheck, BeginTest, BeginOp,
       Confirm, Recover, GiveUp, BeginResume, CommitResume
<1>6. CASE Tick
    <2>1. Live(d) /\ age'[d] = Smaller(age[d] + 1, Budget) /\ age'[d] < Budget
        BY <1>6, <1>0 DEF Tick, Probes, InTime, Live
    <2>2. Probes(d) /\ age[d] < Budget
        BY <1>6, <2>1, <1>0, HealthAssumption DEF Tick, Probes, InTime, Smaller
    <2>3. age'[d] = age[d] + 1
        BY <1>0, <2>1, <2>2, HealthAssumption DEF Smaller
    <2>4. probe.ttl > 0
        BY <1>0, <2>2, HealthAssumption
    <2>5. probe'.owner = probe.owner /\ probe'.ttl = probe.ttl - 1
        BY <1>6, <1>0, <2>4, EarlierTime DEF Tick, TypeOK, ProbeRow
    <2>. QED
        BY <1>0, <2>2, <2>3, <2>5, HealthAssumption
<1>. QED
    BY <1>1, <1>2, <1>3, <1>4, <1>5, <1>6 DEF Next, vars

(* An ousted prober stays ousted until its worker begins another call.     *)
LEMMA OustedStep ==
    ASSUME IInv, [Next]_vars
    PROVE  Ousted'
<1>. USE DEF calls, user, Ousted
<1>0. /\ TypeOK /\ Ousted
      /\ \A c \in Call : c # None
      /\ \A c, d \in Call : Released(c).owner # d \/ Released(c) = probe
    BY HealthAssumption DEF IInv, Released, NoProbe
<1>1. CASE UNCHANGED <<pc, token, ousted, probe>>
    BY <1>0, <1>1
<1>2. ASSUME NEW c \in Call, CallStep(c)
      PROVE  Ousted'
  <2>1. CASE Admit(c)
    <3>1. /\ pc[c] = "routed" /\ ~token[c] /\ ousted[c] = "no"
          /\ pc' = [pc EXCEPT ![c] = "calling"]
          /\ token' = [token EXCEPT ![c] = health.open]
        BY <1>0, <2>1 DEF Admit
    <3>2. CASE health.open
      <4>1. probe'.owner = c
          BY <2>1, <3>2 DEF Admit, Granted
      <4>2. \A d \in Call : /\ ousted'[d] \in {ousted[d], "prober"}
                            /\ ~token[d] => ousted'[d] = ousted[d]
          BY <2>1, <3>2 DEF Admit
      <4>. QED
          BY <1>0, <3>1, <3>2, <4>1, <4>2 DEF TypeOK
    <3>3. CASE ~health.open
      <4>1. probe' = probe /\ \A d \in Call : ousted'[d] = ousted[d]
          BY <2>1, <3>3 DEF Admit
      <4>. QED
          BY <1>0, <3>1, <3>3, <4>1 DEF TypeOK
    <3>. QED
        BY <3>2, <3>3
  <2>2. CASE Begin(c)
      BY <1>0, <2>2 DEF Begin, TypeOK
  <2>3. CASE Refuse(c) \/ StartRow(c) \/ Succeed(c) \/ Fail(c) \/ EndUnrecorded(c)
      BY <1>0, <2>3 DEF TypeOK, Refuse, StartRow, Succeed, Fail, EndUnrecorded, Live
  <2>4. CASE RecordSuccess(c) \/ RecordFailure(c) \/ RecordFails(c)
    <3>1. /\ probe' \in {probe, Released(c)}
          /\ pc' = [pc EXCEPT ![c] = "over"] /\ pc[c] \in {"ok", "failed"}
          /\ UNCHANGED <<token, ousted>>
        BY <2>4 DEF RecordSuccess, RecordFailure, RecordFails
    <3>. QED
        BY <1>0, <3>1 DEF TypeOK
  <2>5. CASE Finish(c)
      BY <1>0, <2>5 DEF TypeOK, Finish
  <2>6. CASE Crash(c) \/ Reconcile(c)
      BY <1>0, <2>6 DEF TypeOK, Crash, Reconcile
  <2>. QED
      BY <1>2, <2>1, <2>2, <2>3, <2>4, <2>5, <2>6 DEF CallStep
<1>3. CASE ResetWrite
    BY <1>0, <1>3 DEF ResetWrite, NoProbe
<1>4. CASE UserStep /\ ~ResetWrite
    BY <1>1, <1>4 DEF UserStep, ResetRead, BeginCheck, BeginTest, BeginOp,
       Confirm, Recover, GiveUp, BeginResume, CommitResume
<1>5. CASE Tick
    BY <1>0, <1>5 DEF Tick, TypeOK, ProbeRow
<1>. QED
    BY <1>1, <1>2, <1>3, <1>4, <1>5 DEF Next, vars

LEMMA StepInv == IInv /\ [Next]_vars => IInv'
<1>. SUFFICES ASSUME IInv, [Next]_vars PROVE IInv'
    OBVIOUS
<1>1. health' \in HealthRow /\ NeverStranded' /\ FaultKnown' /\ LeaseLasts' /\ Ousted'
    BY RowStep, FaultStep, LeaseStep, OustedStep
<1>2. TypeOK'
    <2>1. CASE UNCHANGED vars
        BY <2>1 DEF IInv, TypeOK, vars, calls, user
    <2>. QED
        BY <1>1, <2>1, CallTypes, OtherTypes DEF Next
<1>. QED
    BY <1>1, <1>2 DEF IInv

(* The row, the lease, every call and every settings operation are always  *)
(* of their types: the values the code may write, no count past its bound. *)
THEOREM WellFormed == Spec => []TypeOK
<1>1. IInv => TypeOK
    BY DEF IInv
<1>. QED
    BY <1>1, InitInv, StepInv, PTL DEF Spec

(* The state is always well formed, and an open circuit always has a way   *)
(* out: three failures open it, and what opened it without the user's need *)
(* knows when it may be tried again (recordConnectionFailure).             *)
THEOREM Stranding == Spec => [](TypeOK /\ NeverStranded)
<1>1. IInv => TypeOK /\ NeverStranded
    BY DEF IInv
<1>. QED
    BY <1>1, InitInv, StepInv, PTL DEF Spec

(* A half-open circuit never has two probers that are within their budget, *)
(* however verdicts, expiries, stalls and crashes interleave               *)
(* (assertConnectionHealthCallable with the probeLeaseMs of callLLM).      *)
THEOREM Probing == Spec => []OneProber
<1>1. IInv => OneProber
    BY DEF IInv, LeaseLasts, OneProber, Probes
<1>. QED
    BY <1>1, InitInv, StepInv, PTL DEF Spec

(* A call in whose place another prober was let through, or that a reset   *)
(* cut off, never changes the row, however late its verdict comes and      *)
(* whatever happened to lease and row meanwhile: a lease once lost does    *)
(* not come back to the call (ownsProbe, assertConnectionHealthCallable    *)
(* and resetConnectionHealth together).                                    *)
THEOREM Ousting == Spec => OustedProbesAreMute
<1>1. ASSUME IInv, [Next]_vars, NEW c \in Call, ousted[c] # "no",
             pc[c] \in {"ok", "failed"}, pc'[c] = "over"
      PROVE health' = health
    <2>1. ~Owns(c)
        BY <1>1 DEF IInv, Ousted, Owns
    <2>2. RecordSuccess(c) \/ RecordFailure(c) \/ RecordFails(c)
        <3>1. PICK d \in Call : CallStep(d)
            BY <1>1 DEF Next, UserStep, Tick, ResetRead, ResetWrite,
               BeginCheck, BeginTest, BeginOp, Confirm, Recover, GiveUp,
               BeginResume, CommitResume, vars, calls
        <3>2. d = c
            BY <1>1, <3>1 DEF IInv, TypeOK, CallStep, Begin, Admit, Refuse,
               StartRow, Succeed, Fail, EndUnrecorded, RecordSuccess,
               RecordFailure, RecordFails, Finish, Crash, Reconcile
        <3>. QED
            BY <1>1, <3>1, <3>2 DEF IInv, TypeOK, CallStep, Begin, Admit,
               Refuse, StartRow, Succeed, Fail, EndUnrecorded, Finish, Crash,
               Reconcile, Live
    <2>. QED
        BY <2>1, <2>2 DEF RecordSuccess, RecordFailure, RecordFails
<1>2. IInv /\ [Next]_vars =>
        [\A c \in Call :
            /\ ousted[c] # "no"
            /\ pc[c] \in {"ok", "failed"} /\ pc'[c] = "over"
            => health' = health]_vars
    BY <1>1
<1>. QED
    BY <1>2, InitInv, StepInv, PTL DEF Spec, OustedProbesAreMute

(* An environment check, a test or a resume that ends after a newer error  *)
(* was recorded leaves the row alone (recoverCliConnectionHealth and       *)
(* resumeCliFutureCalls compare last_error_at with their start).           *)
THEOREM Freshness == Spec => NewErrorSurvives
<1>1. ASSUME IInv, [Next]_vars, op.newer, op.type # "none", op'.type = "none"
      PROVE health' = health
    <2>0. op \in Operation
        BY <1>1 DEF IInv, TypeOK
    <2>1. Recover \/ GiveUp \/ CommitResume
        <3>1. ~Tick /\ ~UNCHANGED vars
            BY <1>1 DEF Tick, vars, user
        <3>2. ASSUME NEW c \in Call, CallStep(c) PROVE FALSE
            BY <1>1, <2>0, <3>2 DEF CallStep, Begin, Admit, Refuse, StartRow,
               Succeed, Fail, EndUnrecorded, RecordSuccess, RecordFailure,
               RecordFails, Finish, Crash, Reconcile, Noted, Operation, user
        <3>3. UserStep
            BY <1>1, <3>1, <3>2 DEF Next
        <3>. QED
            BY <1>1, <2>0, <3>3 DEF UserStep, ResetRead, ResetWrite,
               BeginCheck, BeginTest, BeginOp, BeginResume, Confirm, Operation
    <2>. QED
        BY <1>1, <2>1 DEF Recover, GiveUp, CommitResume, Disproved
<1>2. IInv /\ [Next]_vars =>
        [op.newer /\ op.type # "none" /\ op'.type = "none"
            => health' = health]_vars
    BY <1>1
<1>. QED
    BY <1>2, InitInv, StepInv, PTL DEF Spec, NewErrorSurvives
=============================================================================
