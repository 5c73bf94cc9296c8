-------------------------- MODULE SchedulerProofs --------------------------
(***************************************************************************)
(* Proofs about Scheduler for every number of processes, tasks and         *)
(* services, and every interval, threshold and cooldown.                   *)
(*                                                                         *)
(* Only the holder of the run lock is inside a pass, so a task has one     *)
(* executor; and the age of a claim never exceeds the age of the last      *)
(* attempt that may have had an effect, so a claim that can be swapped has *)
(* no such attempt within its interval.                                    *)
(***************************************************************************)
EXTENDS Scheduler, SequenceTheorems, TLAPS

Passes == [pc: {"idle", "scan", "task", "dead"}, at: 1 .. Len(Order) + 1,
           legacy: BOOLEAN, probed: BOOLEAN, observed: BOOLEAN]

\* What the claims, the lock and the passes are
ClaimTypes ==
  /\ since \in [Tasks -> 0 .. Gone] /\ kept \in [Tasks -> 0 .. Gone]
  /\ by \in [Tasks -> Procs \cup {NoProc}]
  /\ owner \in Procs \cup {NoProc}
  /\ pass \in [Procs -> Passes]

\* A process inside a pass holds the run lock, and works at a task of the list
InsidePass ==
  \A p \in Procs : /\ pass[p].pc \in {"scan", "task"} => owner = p
                   /\ pass[p].pc = "task" => pass[p].at <= Len(Order)

\* A claim is no older than the last attempt that may have had an effect
ClaimsAreYounger == \A t \in Tasks : since[t] <= kept[t]

IInv == ClaimTypes /\ InsidePass /\ ClaimsAreYounger

-----------------------------------------------------------------------------
\* The place of a scan that is not at the end of the list is a task.
LEMMA TaskOfPass ==
  ASSUME ClaimTypes, NEW p \in Procs, pass[p].at <= Len(Order)
  PROVE  Task(p) \in Tasks /\ pass[p].at \in 1 .. Len(Order)
  BY ConstantsAssumption DEF ClaimTypes, Passes, Task, Tasks

\* A pass with another stage, place or note is still a pass.
LEMMA MovedPass ==
  ASSUME NEW q \in Passes, NEW s \in {"idle", "scan", "task", "dead"}, NEW a \in 1 .. Len(Order) + 1
  PROVE  LET r == [q EXCEPT !.pc = s, !.at = a] IN r \in Passes /\ r.pc = s /\ r.at = a
  BY DEF Passes
LEMMA StagedPass ==
  ASSUME NEW q \in Passes, NEW s \in {"idle", "scan", "task", "dead"}
  PROVE  LET r == [q EXCEPT !.pc = s] IN r \in Passes /\ r.pc = s /\ r.at = q.at
  BY DEF Passes
LEMMA RoutedPass ==
  ASSUME NEW q \in Passes, NEW b \in BOOLEAN
  PROVE  LET r == [q EXCEPT !.pc = "scan", !.legacy = b] IN r \in Passes /\ r.pc = "scan"
  BY DEF Passes
LEMMA ProbedPass ==
  ASSUME NEW q \in Passes, NEW b \in BOOLEAN
  PROVE  LET r == [q EXCEPT !.probed = b] IN r \in Passes /\ r.at = q.at
  BY DEF Passes

\* The initial passes are idle and nothing is claimed.
LEMMA InitOK == Init => IInv
<1> SUFFICES ASSUME Init PROVE IInv
    OBVIOUS
<1>1. Gone \in Nat /\ 1 \in 1 .. Len(Order) + 1 /\ NoPass \in Passes
    BY ConstantsAssumption DEF Gone, NoPass, Passes
<1>2. ClaimTypes
    BY <1>1 DEF Init, ClaimTypes
<1>3. InsidePass
    BY DEF Init, InsidePass, NoPass
<1>4. ClaimsAreYounger
    BY <1>1 DEF Init, ClaimsAreYounger
<1> QED
    BY <1>2, <1>3, <1>4 DEF IInv

\* A pass that keeps its place and its position in the list keeps the facts
\* about the passes, whatever it notes of the calls it makes.
LEMMA NotesKeepPasses ==
  ASSUME IInv, NEW p \in Procs, NEW b \in BOOLEAN,
         pass' = [pass EXCEPT ![p].observed = b], owner' = owner
  PROVE  pass' \in [Procs -> Passes] /\ InsidePass'
<1>1. pass' \in [Procs -> Passes]
    BY DEF IInv, ClaimTypes, Passes
<1>2. InsidePass'
    BY DEF IInv, ClaimTypes, Passes, InsidePass
<1> QED
    BY <1>1, <1>2

\* The attempt is over: the pass ends or goes on at the next place.
LEMMA NextTaskOK ==
  ASSUME IInv, NEW p \in Procs, pass[p].pc = "task", NEW q \in Passes,
         q.at = pass[p].at, nextTask(p, q)
  PROVE  /\ pass' \in [Procs -> Passes] /\ owner' \in Procs \cup {NoProc} /\ InsidePass'
         /\ pass'[p].pc # "task" /\ \A o \in Procs \ {p} : pass'[o] = pass[o]
<1> DEFINE r == [q EXCEPT !.pc = "scan", !.at = q.at + 1]
<1>1. NoPass \in Passes /\ NoPass.pc = "idle"
    BY ConstantsAssumption DEF NoPass, Passes
<1>2. r \in Passes /\ r.pc = "scan"
  <2>1. q.at + 1 \in 1 .. Len(Order) + 1 /\ "scan" \in {"idle", "scan", "task", "dead"}
      BY ConstantsAssumption DEF Passes, IInv, InsidePass
  <2>2. \A s \in {"idle", "scan", "task", "dead"}, x \in 1 .. Len(Order) + 1 :
          [q EXCEPT !.pc = s, !.at = x] \in Passes /\ [q EXCEPT !.pc = s, !.at = x].pc = s
      BY DEF Passes
  <2> QED
      BY <2>1, <2>2
<1>3. owner = p /\ \A o \in Procs : pass[o].pc \in {"scan", "task"} => o = p
    BY DEF IInv, InsidePass
<1>4. CASE afterAttempt(p)
  <2>1. pass' = [pass EXCEPT ![p] = NoPass] /\ owner' = NoProc
      BY <1>4 DEF nextTask
  <2> QED
      BY <2>1, <1>1, <1>3 DEF IInv, ClaimTypes, InsidePass
<1>5. CASE ~afterAttempt(p)
  <2>1. pass' = [pass EXCEPT ![p] = r] /\ owner' = owner
      BY <1>5 DEF nextTask, Passes
  <2> HIDE DEF r
  <2> QED
      BY <2>1, <1>2, <1>3 DEF IInv, ClaimTypes, InsidePass
<1> QED
    BY <1>4, <1>5

\* A step that leaves claims, lock and passes alone.
LEMMA Elsewhere ==
  ASSUME IInv, UNCHANGED <<claims, owner, pass>> PROVE IInv'
  BY DEF IInv, ClaimTypes, InsidePass, ClaimsAreYounger, claims

\* A step that moves passes but leaves the claims alone.
LEMMA ClaimsAlone ==
  ASSUME IInv, UNCHANGED claims, owner' \in Procs \cup {NoProc},
         pass' \in [Procs -> Passes], InsidePass'
  PROVE  IInv'
  BY DEF IInv, ClaimTypes, ClaimsAreYounger, claims

\* A process leaves its pass, whichever it was, and the lock is not another's.
LEMMA LeavesPass ==
  ASSUME IInv, NEW p \in Procs, NEW q \in Passes, q.pc \in {"idle", "dead"},
         pass' = [pass EXCEPT ![p] = q],
         owner' = IF owner = p THEN NoProc ELSE owner
  PROVE  pass' \in [Procs -> Passes] /\ owner' \in Procs \cup {NoProc} /\ InsidePass'
  BY ConstantsAssumption DEF IInv, ClaimTypes, InsidePass

-----------------------------------------------------------------------------
\* Every step keeps the invariant.
LEMMA StepOK == IInv /\ [Next]_vars => IInv'
<1> SUFFICES ASSUME IInv, [Next]_vars PROVE IInv'
    OBVIOUS
<1> USE ConstantsAssumption
<1>g. Gone \in Nat /\ Gone = Interval + 1 /\ Interval \in Nat
    BY DEF Gone
<1>a. \A f \in [Tasks -> 0 .. Gone], t \in Tasks, a \in {0, Gone} :
        [f EXCEPT ![t] = a] \in [Tasks -> 0 .. Gone]
    BY <1>g
<1>n. NoPass \in Passes /\ NoPass.pc = "idle"
    BY DEF NoPass, Passes
<1>d. [NoPass EXCEPT !.pc = "dead"] \in Passes /\ [NoPass EXCEPT !.pc = "dead"].pc = "dead"
    BY <1>n, StagedPass
<1>1. CASE Tick
  <2>1. \A a \in 0 .. Gone : Aged(a, Gone) \in 0 .. Gone
      BY <1>g DEF Aged
  <2>2. \A a, b \in 0 .. Gone : a <= b => Aged(a, Gone) <= Aged(b, Gone)
      BY <1>g DEF Aged
  <2>3. ClaimTypes'
      BY <1>1, <2>1 DEF Tick, IInv, ClaimTypes
  <2>4. ClaimsAreYounger'
      BY <1>1, <2>2 DEF Tick, IInv, ClaimTypes, ClaimsAreYounger
  <2>5. InsidePass'
      BY <1>1 DEF Tick, IInv, InsidePass
  <2> QED
      BY <2>3, <2>4, <2>5 DEF IInv
<1>2. CASE setMode
    BY <1>2, Elsewhere DEF setMode
<1>3. CASE changeGate
    BY <1>3, Elsewhere DEF changeGate
<1>4. ASSUME NEW p \in Procs, Step(p) PROVE IInv'
  <2>1. CASE write(p)
      BY <2>1, Elsewhere DEF write
  <2>2. CASE runSchedulerTick(p)
    <3>1. PICK l \in Legacy :
            /\ owner = NoProc /\ owner' = p /\ UNCHANGED claims
            /\ pass' = [pass EXCEPT ![p] = [NoPass EXCEPT !.pc = "scan", !.legacy = l]]
        BY <2>2 DEF runSchedulerTick, LockFree
    <3>2. [NoPass EXCEPT !.pc = "scan", !.legacy = l] \in Passes
          /\ [NoPass EXCEPT !.pc = "scan", !.legacy = l].pc = "scan"
        BY <1>n, RoutedPass
    <3>3. \A o \in Procs : pass[o].pc \notin {"scan", "task"}
        BY <3>1 DEF IInv, InsidePass
    <3>4. pass' \in [Procs -> Passes] /\ InsidePass'
        BY <3>1, <3>2, <3>3 DEF IInv, ClaimTypes, InsidePass
    <3> QED
        BY <3>1, <3>4, ClaimsAlone
  <2>3. CASE tryClaimTask(p)
    <3>1. /\ pass[p].at <= Len(Order) /\ pass[p].pc = "scan" /\ owner = p
          /\ Task(p) \in Tasks
        BY <2>3, TaskOfPass DEF tryClaimTask, scanning, IInv, InsidePass
    <3> DEFINE q == [pass[p] EXCEPT !.pc = "task"]
    <3>5. q \in Passes /\ pass' = [pass EXCEPT ![p] = q]
        BY <2>3, StagedPass DEF tryClaimTask, IInv, ClaimTypes
    <3> HIDE DEF q
    <3>2. ClaimTypes'
      <4>1. since' \in [Tasks -> 0 .. Gone] /\ kept' \in [Tasks -> 0 .. Gone]
        <5>1. since' = [since EXCEPT ![Task(p)] = 0] /\ kept' = [kept EXCEPT ![Task(p)] = 0]
            BY <2>3 DEF tryClaimTask
        <5> QED
            BY <5>1, <1>a DEF IInv, ClaimTypes
      <4>2. by' \in [Tasks -> Procs \cup {NoProc}] /\ owner' = owner
          BY <2>3 DEF tryClaimTask, IInv, ClaimTypes
      <4>3. pass' \in [Procs -> Passes]
          BY <3>5 DEF IInv, ClaimTypes
      <4> QED
          BY <4>1, <4>2, <4>3 DEF IInv, ClaimTypes
    <3>3. ClaimsAreYounger'
        BY <2>3, <3>1, <1>g DEF tryClaimTask, IInv, ClaimTypes, ClaimsAreYounger
    <3>4. InsidePass'
        BY <2>3, <3>1 DEF tryClaimTask, IInv, ClaimTypes, Passes, InsidePass
    <3> QED
        BY <3>2, <3>3, <3>4 DEF IInv
  <2>4. CASE skipTask(p)
    <3>1. pass[p].at <= Len(Order) /\ pass[p].pc = "scan"
        BY <2>4 DEF skipTask, scanning
    <3> DEFINE q == [pass[p] EXCEPT !.pc = "scan", !.at = pass[p].at + 1]
    <3>4. q \in Passes
      <4>1. pass[p] \in Passes /\ pass[p].at + 1 \in 1 .. Len(Order) + 1
          BY <3>1 DEF IInv, ClaimTypes, Passes
      <4> QED
          BY <4>1, MovedPass
    <3>5. pass' = [pass EXCEPT ![p] = q]
        BY <2>4, <3>1 DEF skipTask, IInv, ClaimTypes, Passes
    <3>2. pass' \in [Procs -> Passes]
      <4> HIDE DEF q
      <4> QED
          BY <3>4, <3>5 DEF IInv, ClaimTypes
    <3>3. InsidePass'
        BY <2>4, <3>1 DEF skipTask, IInv, ClaimTypes, Passes, InsidePass
    <3> QED
        BY <2>4, <3>2, <3>3, ClaimsAlone DEF skipTask, IInv, ClaimTypes
  <2>5. CASE endPass(p)
    <3>1. owner = p
        BY <2>5 DEF endPass, IInv, InsidePass
    <3> QED
        BY <2>5, <3>1, <1>n, LeavesPass, ClaimsAlone DEF endPass
  <2>6. CASE taskFinishes(p)
    <3> DEFINE b == pass[p].probed \/ (pass[p].legacy /\ Task(p) \in Needs["llm"] /\ pass[p].observed)
               q == [pass[p] EXCEPT !.probed = b]
    <3>1. q \in Passes /\ q.at = pass[p].at
      <4>1. b \in BOOLEAN
          BY ZenonT(30) DEF IInv, ClaimTypes, Passes
      <4> HIDE DEF b
      <4> QED
          BY <4>1, ProbedPass DEF IInv, ClaimTypes
    <3>2. nextTask(p, q) /\ pass[p].pc = "task" /\ UNCHANGED claims
        BY <2>6 DEF taskFinishes
    <3> HIDE DEF q
    <3> QED
        BY <3>1, <3>2, NextTaskOK, ClaimsAlone
  <2>7. CASE taskFailsOpen(p)
    <3>1. pass[p] \in Passes
        BY DEF IInv, ClaimTypes
    <3>2. nextTask(p, pass[p]) /\ pass[p].pc = "task" /\ UNCHANGED claims
        BY <2>7 DEF taskFailsOpen
    <3> QED
        BY <3>1, <3>2, NextTaskOK, ClaimsAlone
  <2>8. CASE taskFails(p)
    <3>1. /\ pass[p].pc = "task" /\ since' = rolledBack(p)
          /\ kept' = [kept EXCEPT ![Task(p)] = Gone] /\ by' = by
        BY <2>8 DEF taskFails
    <3>2. PICK service \in BOOLEAN :
            nextTask(p, [pass[p] EXCEPT !.probed = @ \/ (service /\ pass[p].legacy)])
        BY <2>8 DEF taskFails
    <3> DEFINE q == [pass[p] EXCEPT !.probed = @ \/ (service /\ pass[p].legacy)]
    <3>3. q \in Passes /\ q.at = pass[p].at
      <4> DEFINE b == pass[p].probed \/ (service /\ pass[p].legacy)
      <4>1. b \in BOOLEAN
          BY ZenonT(30)
      <4> HIDE DEF b
      <4> SUFFICES [pass[p] EXCEPT !.probed = b] \in Passes /\ [pass[p] EXCEPT !.probed = b].at = pass[p].at
          BY DEF b
      <4> QED
          BY <4>1, ProbedPass DEF IInv, ClaimTypes
    <3>4. nextTask(p, q)
        BY <3>2
    <3> HIDE DEF q
    <3>5. pass' \in [Procs -> Passes] /\ owner' \in Procs \cup {NoProc} /\ InsidePass'
        BY <3>1, <3>3, <3>4, NextTaskOK
    <3>6. ClaimTypes'
      <4>1. since' \in [Tasks -> 0 .. Gone] /\ kept' \in [Tasks -> 0 .. Gone]
          BY <3>1, <1>a DEF IInv, ClaimTypes, rolledBack
      <4> QED
          BY <3>1, <3>5, <4>1 DEF IInv, ClaimTypes
    <3>7. ClaimsAreYounger'
        BY <3>1, <1>g DEF IInv, ClaimTypes, ClaimsAreYounger, rolledBack
    <3> QED
        BY <3>5, <3>6, <3>7 DEF IInv
  <2>9. CASE rollbackUnconfirmed(p)
    <3>1. owner = p
        BY <2>9 DEF rollbackUnconfirmed, IInv, InsidePass
    <3> DEFINE q == [NoPass EXCEPT !.pc = IF p \in Workers THEN "dead" ELSE "idle"]
    <3>2. q \in Passes /\ q.pc \in {"idle", "dead"}
        BY <1>n, StagedPass
    <3>3. pass' = [pass EXCEPT ![p] = q] /\ owner' = NoProc /\ UNCHANGED claims
        BY <2>9 DEF rollbackUnconfirmed
    <3> HIDE DEF q
    <3> QED
        BY <3>1, <3>2, <3>3, LeavesPass, ClaimsAlone
  <2>10. CASE crash(p)
      BY <2>10, <1>d, LeavesPass, ClaimsAlone DEF crash
  <2>11. CASE start(p)
    <3>1. pass' = [pass EXCEPT ![p] = NoPass] /\ owner' = owner /\ UNCHANGED claims
        BY <2>11 DEF start
    <3>2. pass' \in [Procs -> Passes] /\ InsidePass'
        BY <3>1, <1>n DEF IInv, ClaimTypes, InsidePass
    <3> QED
        BY <3>1, <3>2, ClaimsAlone DEF IInv, ClaimTypes
  <2>12. CASE resetCircuitBreaker(p) \/ retire(p)
      BY <2>12, Elsewhere DEF resetCircuitBreaker, retire
  <2>13. ASSUME NEW k \in Kinds, callSucceeds(p, k) \/ callFails(p, k) PROVE IInv'
    <3>1. observes(p, k) \in BOOLEAN
        BY DEF observes, IInv, ClaimTypes, Passes
    <3>2. pass' = [pass EXCEPT ![p].observed = observes(p, k)] /\ owner' = owner /\ UNCHANGED claims
        BY <2>13 DEF callSucceeds, callFails
    <3>3. pass' \in [Procs -> Passes] /\ InsidePass'
        BY <3>1, <3>2, NotesKeepPasses
    <3> QED
        BY <3>2, <3>3, ClaimsAlone DEF IInv, ClaimTypes
  <2> QED
      BY <1>4, <2>1, <2>2, <2>3, <2>4, <2>5, <2>6, <2>7, <2>8, <2>9, <2>10, <2>11, <2>12, <2>13
      DEF Step, Settles
<1>5. CASE UNCHANGED vars
    BY <1>5, Elsewhere DEF vars, claims
<1> QED
    BY <1>1, <1>2, <1>3, <1>4, <1>5 DEF Next

\* The lock, the passes and the claims fit together in every reachable state.
THEOREM Invariance == Spec => []IInv
  BY InitOK, StepOK, PTL DEF Spec

\* A task runs in one process at a time: only the holder of the run lock is
\* inside a pass, whatever crashes, rolls back or outlasts its interval.
THEOREM Exclusion == Spec => []OneExecution
<1>1. IInv => OneExecution
    BY DEF IInv, InsidePass, OneExecution, Attempts
<1> QED
    BY <1>1, Invariance, PTL

\* A claim is swapped only if no attempt within the interval may have had an
\* effect, for any interval, any number of processes and any crashes.
THEOREM NoReplay == Spec => NoEarlyReplay
<1> DEFINE A == \A p \in Procs, t \in Tasks : ~Attempts(p, t) /\ Attempts(p, t)' => kept[t] > Interval
<1>1. IInv /\ [Next]_vars => A
  <2> SUFFICES ASSUME IInv, [Next]_vars, NEW p \in Procs, NEW t \in Tasks,
                      ~Attempts(p, t), Attempts(p, t)'
               PROVE  kept[t] > Interval
      OBVIOUS
  <2> USE ConstantsAssumption
  <2>0. pass \in [Procs -> Passes]
      BY DEF IInv, ClaimTypes
  <2>1. pass[p]' # pass[p] /\ pass'[p].pc = "task"
      BY DEF Attempts, Task
  <2>2. ~(pass[p].pc = "task" /\ pass'[p].at = pass[p].at)
      BY DEF Attempts, Task
  <2>3. PICK o \in Procs : Step(o)
      BY <2>1 DEF Next, vars, Tick, setMode, changeGate
  <2>4. CASE tryClaimTask(o)
    <3>1. o = p
        BY <2>4, <2>1, <2>0 DEF tryClaimTask
    <3>2. Task(p) = t /\ since[t] > Interval
        BY <2>4, <3>1, <2>0 DEF tryClaimTask, attemptable, Due, Attempts, Task, Passes
    <3> QED
        BY <3>2 DEF IInv, ClaimTypes, ClaimsAreYounger, Gone
  <2>5. CASE ~tryClaimTask(o)
    <3>1. CASE write(o) \/ resetCircuitBreaker(o) \/ retire(o)
        BY <3>1, <2>1 DEF write, resetCircuitBreaker, retire
    <3>2. CASE runSchedulerTick(o) \/ endPass(o) \/ crash(o) \/ start(o) \/ rollbackUnconfirmed(o)
      <4>1. NoPass.pc = "idle" /\ \A v, l : [NoPass EXCEPT !.pc = v, !.legacy = l].pc = v
                              /\ \A x : [NoPass EXCEPT !.pc = x].pc = x
          BY DEF NoPass
      <4>2. pass'[o].pc # "task" /\ \A x \in Procs \ {o} : pass'[x] = pass[x]
        <5>1. CASE runSchedulerTick(o)
            BY <5>1, <4>1, <2>0 DEF runSchedulerTick
        <5>2. CASE endPass(o) \/ start(o) \/ crash(o)
            BY <5>2, <4>1, <2>0 DEF endPass, start, crash
        <5>3. CASE rollbackUnconfirmed(o)
            BY <5>3, <4>1, <2>0 DEF rollbackUnconfirmed
        <5> QED
            BY <3>2, <5>1, <5>2, <5>3
      <4> QED
          BY <4>2, <2>1
    <3>3. CASE skipTask(o)
      <4>1. pass'[o].pc = "scan" /\ \A x \in Procs \ {o} : pass'[x] = pass[x]
          BY <3>3, <2>0 DEF skipTask, scanning, Passes
      <4> QED
          BY <4>1, <2>1
    <3>4. CASE Settles(o)
      <4>1. pass[o].pc = "task" /\ \E b \in BOOLEAN : nextTask(o, [pass[o] EXCEPT !.probed = b])
        <5>1. CASE taskFinishes(o)
          <6> DEFINE b == pass[o].probed \/ (pass[o].legacy /\ Task(o) \in Needs["llm"] /\ pass[o].observed)
          <6>1. nextTask(o, [pass[o] EXCEPT !.probed = b]) /\ pass[o].pc = "task"
              BY <5>1 DEF taskFinishes
          <6>2. b \in BOOLEAN
              BY ZenonT(30) DEF IInv, ClaimTypes, Passes
          <6> QED
              BY <6>1, <6>2
        <5>2. CASE taskFailsOpen(o)
          <6>1. pass[o].probed \in BOOLEAN /\ pass[o] = [pass[o] EXCEPT !.probed = pass[o].probed]
              BY <2>0 DEF Passes
          <6> QED
              BY <5>2, <6>1 DEF taskFailsOpen
        <5>3. CASE taskFails(o)
          <6>1. PICK service \in BOOLEAN :
                  nextTask(o, [pass[o] EXCEPT !.probed = @ \/ (service /\ pass[o].legacy)])
              BY <5>3 DEF taskFails
          <6> DEFINE b == pass[o].probed \/ (service /\ pass[o].legacy)
          <6>2. nextTask(o, [pass[o] EXCEPT !.probed = b])
              BY <6>1
          <6>3. b \in BOOLEAN
              BY ZenonT(30)
          <6> QED
              BY <5>3, <6>2, <6>3 DEF taskFails
        <5> QED
            BY <3>4, <5>1, <5>2, <5>3 DEF Settles
      <4>2. PICK b \in BOOLEAN : nextTask(o, [pass[o] EXCEPT !.probed = b])
          BY <4>1
      <4>3. pass'[o].pc # "task" /\ \A x \in Procs \ {o} : pass'[x] = pass[x]
          BY <4>1, <4>2, <2>0, ProbedPass, NextTaskOK
      <4> QED
          BY <4>3, <2>1
    <3>5. ASSUME NEW k \in Kinds, callSucceeds(o, k) \/ callFails(o, k) PROVE FALSE
      <4>1. pass' = [pass EXCEPT ![o].observed = observes(o, k)]
          BY <3>5 DEF callSucceeds, callFails
      <4>2. pass'[p].pc = pass[p].pc /\ pass'[p].at = pass[p].at
        <5> HIDE DEF observes
        <5> QED
            BY <4>1, <2>0 DEF Passes
      <4> QED
          BY <4>2, <2>1, <2>2
    <3> QED
        BY <2>3, <2>5, <3>1, <3>2, <3>3, <3>4, <3>5 DEF Step
  <2> QED
      BY <2>4, <2>5
<1>2. Spec => [][A]_vars
    BY <1>1, Invariance, PTL DEF Spec
<1> QED
    BY <1>2 DEF NoEarlyReplay

-----------------------------------------------------------------------------
\* What a write may carry: a count, an age of an opening, a cooldown
Writes ==
  [kind: Kinds, field: {"failures"}, value: 0 .. Threshold]
    \cup [kind: Kinds, field: {"opened"}, value: 0 .. CoolMax]
    \cup [kind: Kinds, field: {"cool"}, value: 1 .. CoolMax]
Circuits == [failures: 0 .. Threshold, opened: 0 .. CoolMax, cool: 1 .. CoolMax]

\* The circuits, the writes under way and the environment
CircuitTypes ==
  /\ writes \in [Procs -> Seq(Writes)]
  /\ circuit \in [Kinds -> Circuits]
  /\ gate \in [Gated -> BOOLEAN] /\ mode \in {"background", "foreground"}
  /\ outdated \in SUBSET Workers /\ crashes \in 0 .. MaxCrashes

\* The writes of a recorded failure are writes, the count kept at the threshold.
LEMMA RecordedWrites ==
  ASSUME CircuitTypes, NEW k \in Kinds
  PROVE  recordFailure(k) \in Seq(Writes)
<1> USE ConstantsAssumption
<1> DEFINE c == circuit[k]
           n == IF c.failures < Threshold THEN c.failures + 1 ELSE Threshold
           w(f, v) == [kind |-> k, field |-> f, value |-> v]
<1>1. c \in Circuits
    BY DEF CircuitTypes
<1>2. n \in 0 .. Threshold /\ nextCooldown(c) \in 1 .. CoolMax /\ 0 \in 0 .. CoolMax
    BY <1>1 DEF Circuits, nextCooldown
<1>3. w("failures", n) \in Writes /\ w("opened", 0) \in Writes /\ w("cool", nextCooldown(c)) \in Writes
  <2> HIDE DEF n, c
  <2> QED
      BY <1>2 DEF Writes
<1>4. recordFailure(k) = <<w("failures", n)>> \o IF n < Threshold THEN << >>
                                     ELSE <<w("opened", 0), w("cool", nextCooldown(c))>>
    BY DEF recordFailure
<1> HIDE DEF w, n, c
<1> QED
    BY <1>3, <1>4

\* A database without rows has closed circuits.
LEMMA CircuitInit == Init => CircuitTypes
  BY ConstantsAssumption DEF Init, CircuitTypes, Circuits

\* Every step keeps the types of the circuits and of the writes under way.
LEMMA CircuitStep == IInv /\ CircuitTypes /\ [Next]_vars => CircuitTypes'
<1> SUFFICES ASSUME IInv, CircuitTypes, [Next]_vars PROVE CircuitTypes'
    OBVIOUS
<1> USE ConstantsAssumption
<1>1. CASE Tick
  <2>1. \A a \in 0 .. CoolMax : Aged(a, CoolMax) \in 0 .. CoolMax
      BY DEF Aged
  <2>2. \A c \in Circuits : [c EXCEPT !.opened = Aged(@, CoolMax)] \in Circuits
      BY <2>1 DEF Circuits
  <2> QED
      BY <1>1, <2>2 DEF Tick, CircuitTypes
<1>2. CASE setMode
    BY <1>2 DEF setMode, CircuitTypes
<1>3. CASE changeGate
    BY <1>3 DEF changeGate, CircuitTypes
<1>4. ASSUME NEW p \in Procs, Step(p) PROVE CircuitTypes'
  <2>1. CASE write(p)
    <3> DEFINE w == Head(writes[p])
    <3>1. writes[p] \in Seq(Writes) /\ writes[p] # << >>
        BY <2>1 DEF write, CircuitTypes
    <3>2. w \in Writes /\ Tail(writes[p]) \in Seq(Writes)
        BY <3>1
    <3>3. w.kind \in Kinds
        BY <3>2 DEF Writes
    <3> DEFINE c == circuit[w.kind]
               d == CASE w.field = "failures" -> [c EXCEPT !.failures = w.value]
                      [] w.field = "opened" -> [c EXCEPT !.opened = w.value]
                      [] w.field = "cool" -> [c EXCEPT !.cool = w.value]
    <3>4. circuit' = [circuit EXCEPT ![w.kind] = d] /\ writes' = [writes EXCEPT ![p] = Tail(writes[p])]
        BY <2>1 DEF write
    <3>5. d \in Circuits
      <4>1. c \in Circuits
          BY <3>3 DEF CircuitTypes
      <4> HIDE DEF c, w
      <4>2. CASE w \in [kind: Kinds, field: {"failures"}, value: 0 .. Threshold]
          BY <4>1, <4>2 DEF Circuits
      <4>3. CASE w \in [kind: Kinds, field: {"opened"}, value: 0 .. CoolMax]
          BY <4>1, <4>3 DEF Circuits
      <4>4. CASE w \in [kind: Kinds, field: {"cool"}, value: 1 .. CoolMax]
          BY <4>1, <4>4 DEF Circuits
      <4> QED
          BY <3>2, <4>2, <4>3, <4>4 DEF Writes
    <3> HIDE DEF d, w
    <3>6. circuit' \in [Kinds -> Circuits] /\ writes' \in [Procs -> Seq(Writes)]
        BY <3>2, <3>3, <3>4, <3>5 DEF CircuitTypes
    <3> QED
        BY <2>1, <3>6 DEF write, CircuitTypes
  <2>2. ASSUME NEW k \in Kinds, callSucceeds(p, k) PROVE CircuitTypes'
    <3>1. Closed \in Circuits
        BY DEF Closed, Circuits
    <3> QED
        BY <2>2, <3>1 DEF callSucceeds, CircuitTypes
  <2>3. ASSUME NEW k \in Kinds, callFails(p, k) PROVE CircuitTypes'
      BY <2>3, RecordedWrites DEF callFails, CircuitTypes
  <2>4. CASE resetCircuitBreaker(p)
    <3>1. "llm" \in Kinds /\ circuit["llm"] \in Circuits
        BY DEF CircuitTypes
    <3>2. [circuit["llm"] EXCEPT !.failures = 0] \in Circuits
        BY <3>1 DEF Circuits
    <3>3. [kind |-> "llm", field |-> "opened", value |-> CoolMax] \in Writes
          /\ [kind |-> "llm", field |-> "cool", value |-> 1] \in Writes
        BY <3>1 DEF Writes
    <3>4. <<[kind |-> "llm", field |-> "opened", value |-> CoolMax],
            [kind |-> "llm", field |-> "cool", value |-> 1]>> \in Seq(Writes)
        BY <3>3
    <3>5. circuit' \in [Kinds -> Circuits]
        BY <2>4, <3>1, <3>2 DEF resetCircuitBreaker, CircuitTypes
    <3> QED
        BY <2>4, <3>4, <3>5 DEF resetCircuitBreaker, CircuitTypes
  <2>5. CASE taskFails(p)
    <3>1. PICK service \in {b \in BOOLEAN : b => Task(p) \in Needs["llm"]} :
            writes' = [writes EXCEPT ![p] = IF service THEN recordFailure("llm") ELSE << >>]
        BY <2>5 DEF taskFails
    <3>2. recordFailure("llm") \in Seq(Writes) /\ << >> \in Seq(Writes)
        BY RecordedWrites
    <3> QED
        BY <2>5, <3>1, <3>2 DEF taskFails, CircuitTypes
  <2>6. CASE crash(p)
    <3>1. << >> \in Seq(Writes)
        OBVIOUS
    <3>2. writes' \in [Procs -> Seq(Writes)]
        BY <2>6, <3>1 DEF crash, CircuitTypes
    <3>3. crashes' \in 0 .. MaxCrashes /\ outdated' \in SUBSET Workers
        BY <2>6 DEF crash, CircuitTypes
    <3> QED
        BY <2>6, <3>2, <3>3 DEF crash, CircuitTypes
  <2>7. CASE rollbackUnconfirmed(p)
      BY <2>7 DEF rollbackUnconfirmed, CircuitTypes
  <2>8. CASE UNCHANGED <<writes, circuit, gate, mode, outdated, crashes>>
      BY <2>8 DEF CircuitTypes
  <2>9. CASE retire(p)
      BY <2>9 DEF retire, CircuitTypes
  <2> QED
      BY <1>4, <2>1, <2>2, <2>3, <2>4, <2>5, <2>6, <2>7, <2>8, <2>9
      DEF Step, Settles, runSchedulerTick, tryClaimTask, skipTask, endPass, taskFinishes, taskFailsOpen, start
<1>5. CASE UNCHANGED vars
    BY <1>5 DEF vars, CircuitTypes
<1> QED
    BY <1>1, <1>2, <1>3, <1>4, <1>5 DEF Next

\* Every variable keeps its type: no count, age or cooldown of a circuit breaker
\* leaves its range, whichever writes of two processes alternate.
THEOREM WellFormed == Spec => []TypeOK
<1>1. Init => IInv /\ CircuitTypes
    BY InitOK, CircuitInit
<1>2. IInv /\ CircuitTypes /\ [Next]_vars => (IInv /\ CircuitTypes)'
    BY StepOK, CircuitStep
<1>3. IInv /\ CircuitTypes => TypeOK
  <2>1. Writes \subseteq [kind: Kinds, field: Fields, value: 0 .. CoolMax + Threshold]
      BY ConstantsAssumption DEF Writes, Fields
  <2>2. \A s \in Seq(Writes) : s \in Seq([kind: Kinds, field: Fields, value: 0 .. CoolMax + Threshold])
      BY <2>1, SeqMonotonic
  <2> QED
      BY <2>2 DEF IInv, ClaimTypes, Passes, CircuitTypes, Circuits, TypeOK
<1> QED
    BY <1>1, <1>2, <1>3, PTL DEF Spec
=============================================================================
