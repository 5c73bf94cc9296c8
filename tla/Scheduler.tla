----------------------------- MODULE Scheduler -----------------------------
(***************************************************************************)
(* The metabolism scheduler: processes that share one database (the worker *)
(* of the desktop client, stdio servers, the standalone daemon) run passes *)
(* over the registered tasks.  A pass holds the run lock; a task is        *)
(* claimed by a compare-and-swap on its last_task_* row, executed, and its *)
(* claim rolled back only if it failed for certain.  Two circuit breakers  *)
(* in the same metadata table, one for language models and one for         *)
(* embeddings, keep tasks from a service that fails.                       *)
(*                                                                         *)
(* Times are ages: of a claim, of an opening.  An age stops at the value   *)
(* from which nothing distinguishes it, so time is not bounded.            *)
(***************************************************************************)
EXTENDS Naturals, Sequences, FiniteSets

CONSTANTS Workers,    \* processes whose failed pass ends the process (the desktop worker)
          Others,     \* the other processes that schedule
          NoProc,     \* no process
          Order,      \* the registered tasks, in their order
          Kinds,      \* the services with a circuit breaker: "llm", "embedding"
          Needs,      \* Needs[k]: the tasks that require service k
          Gated,      \* tasks with a gateCheck
          Interval,   \* age a claim must exceed to be claimed again
          Threshold,  \* CIRCUIT_FAILURE_THRESHOLD
          CoolMax,    \* CIRCUIT_COOLDOWN_MAX, the initial cooldown being 1
          Legacy,     \* the values legacyOnlyRoutes may take in a pass
          MaxCrashes  \* bound on crashes and on replacements of the worker

Procs == Workers \cup Others
Tasks == {Order[i] : i \in 1 .. Len(Order)}

ASSUME ConstantsAssumption ==
  /\ NoProc \notin Procs
  /\ Order \in Seq(Tasks)
  /\ \A i, j \in 1 .. Len(Order) : Order[i] = Order[j] => i = j
  /\ "llm" \in Kinds /\ Needs \in [Kinds -> SUBSET Tasks]
  /\ Interval \in Nat /\ Threshold \in Nat \ {0} /\ CoolMax \in Nat \ {0}
  /\ Legacy \subseteq BOOLEAN /\ MaxCrashes \in Nat

VARIABLES
  since,    \* since[t]: age of the claim in last_task_t; Interval + 1 also stands for no row
  by,       \* by[t]: the process whose claim the row holds
  kept,     \* kept[t]: age of the last attempt that may have had an effect
  owner,    \* holder of the run lock
  pass,     \* pass[p]: where the pass of process p stands
  writes,   \* writes[p]: metadata writes p still has to do in its current turn
  circuit,  \* the rows of the two circuit breakers
  gate,     \* gate[t]: the gate check of t holds
  mode,     \* schedule mode of the desktop worker
  outdated, \* workers that were told to stop or whose runtime snapshot is invalid
  crashes

vars == <<since, by, kept, owner, pass, writes, circuit, gate, mode, outdated, crashes>>
claims == <<since, by, kept>>

Fields == {"failures", "opened", "cool"}
Gone == Interval + 1       \* an age from which a task is due

TypeOK ==
  /\ since \in [Tasks -> 0 .. Gone] /\ kept \in [Tasks -> 0 .. Gone]
  /\ by \in [Tasks -> Procs \cup {NoProc}]
  /\ owner \in Procs \cup {NoProc}
  /\ pass \in [Procs -> [pc: {"idle", "scan", "task", "dead"}, at: 1 .. Len(Order) + 1,
                         legacy: BOOLEAN, probed: BOOLEAN, observed: BOOLEAN]]
  /\ writes \in [Procs -> Seq([kind: Kinds, field: Fields, value: 0 .. CoolMax + Threshold])]
  /\ circuit \in [Kinds -> [failures: 0 .. Threshold, opened: 0 .. CoolMax, cool: 1 .. CoolMax]]
  /\ gate \in [Gated -> BOOLEAN] /\ mode \in {"background", "foreground"}
  /\ outdated \in SUBSET Workers /\ crashes \in 0 .. MaxCrashes

NoPass == [pc |-> "idle", at |-> 1, legacy |-> TRUE, probed |-> FALSE, observed |-> FALSE]

Init ==
  /\ since = [t \in Tasks |-> Gone] /\ kept = [t \in Tasks |-> Gone]
  /\ by = [t \in Tasks |-> NoProc]
  /\ owner = NoProc
  /\ pass = [p \in Procs |-> NoPass]
  /\ writes = [p \in Procs |-> << >>]
  /\ circuit = [k \in Kinds |-> [failures |-> 0, opened |-> CoolMax, cool |-> 1]]
  /\ gate = [t \in Gated |-> TRUE] /\ mode = "background"
  /\ outdated = {} /\ crashes = 0

-----------------------------------------------------------------------------
(* Time                                                                    *)

Aged(a, top) == IF a < top THEN a + 1 ELSE a

Tick ==
  /\ since' = [t \in Tasks |-> Aged(since[t], Gone)]
  /\ kept' = [t \in Tasks |-> Aged(kept[t], Gone)]
  /\ circuit' = [k \in Kinds |-> [circuit[k] EXCEPT !.opened = Aged(@, CoolMax)]]
  /\ UNCHANGED <<by, owner, pass, writes, gate, mode, outdated, crashes>>

-----------------------------------------------------------------------------
(* The circuit breakers                                                    *)

\* Mutant: a tripped circuit waits for a reset
getCircuitStateLatched(k) == IF circuit[k].failures < Threshold THEN "closed" ELSE "open"

\* getCircuitState: the three rows are read by one statement; an opening that
\* was never dated counts as long ago
getCircuitState(k) ==
  LET c == circuit[k]
  IN CASE c.failures < Threshold -> "closed"
       [] c.failures >= Threshold /\ c.opened >= c.cool -> "half-open"
       [] OTHER -> "open"

\* The cooldown a further failure sets
nextCooldown(c) ==
  IF c.failures < Threshold THEN 1
  ELSE IF c.cool * 2 > CoolMax THEN CoolMax ELSE c.cool * 2

\* recordLLMFailure and recordEmbeddingFailure read the rows once and write
\* them one by one, outside a transaction.  The count is kept up to the
\* threshold, beyond which nothing depends on it.
recordFailure(k) ==
  LET c == circuit[k]
      n == IF c.failures < Threshold THEN c.failures + 1 ELSE Threshold
      w(f, v) == [kind |-> k, field |-> f, value |-> v]
  IN <<w("failures", n)>>
       \o IF n < Threshold THEN << >> ELSE <<w("opened", 0), w("cool", nextCooldown(c))>>

\* noteSuccessfulLLMCall and recordEmbeddingSuccess: one transaction
Closed == [failures |-> 0, opened |-> CoolMax, cool |-> 1]

Free(p) == pass[p].pc # "dead" /\ writes[p] = << >>

\* The next write of a turn that records a failure or resets the circuit
write(p) ==
  /\ writes[p] # << >>
  /\ LET w == Head(writes[p])
     IN circuit' = [circuit EXCEPT ![w.kind] =
                      CASE w.field = "failures" -> [@ EXCEPT !.failures = w.value]
                        [] w.field = "opened" -> [@ EXCEPT !.opened = w.value]
                        [] w.field = "cool" -> [@ EXCEPT !.cool = w.value]]
  /\ writes' = [writes EXCEPT ![p] = Tail(@)]
  /\ UNCHANGED <<claims, owner, pass, gate, mode, outdated, crashes>>

\* The worker calls services in its tasks only; the other processes serve recall
\* too, which leaves calls behind
Calls(p) == Free(p) /\ (p \in Others \/ pass[p].pc = "task")

\* llmCallObservedInTick: it is cleared when a pass begins, so only a pass keeps it
observes(p, k) == pass[p].observed \/ (k = "llm" /\ pass[p].pc # "idle")

\* A call to a service of a legacy route succeeds, in a task of a pass or in
\* work that recall left behind
callSucceeds(p, k) ==
  /\ Calls(p)
  /\ circuit' = [circuit EXCEPT ![k] = Closed]
  /\ pass' = [pass EXCEPT ![p].observed = observes(p, k)]
  /\ UNCHANGED <<claims, owner, writes, gate, mode, outdated, crashes>>

\* Such a call fails and its caller reports it through the failure hook
callFails(p, k) ==
  /\ Calls(p)
  /\ writes' = [writes EXCEPT ![p] = recordFailure(k)]
  /\ pass' = [pass EXCEPT ![p].observed = observes(p, k)]
  /\ UNCHANGED <<claims, owner, circuit, gate, mode, outdated, crashes>>

\* resetCircuitBreaker: the count first, then the two other rows at once
resetCircuitBreaker(p) ==
  /\ Free(p) /\ p \in Others
  /\ circuit' = [circuit EXCEPT !["llm"].failures = 0]
  /\ writes' = [writes EXCEPT ![p] = <<[kind |-> "llm", field |-> "opened", value |-> CoolMax],
                                       [kind |-> "llm", field |-> "cool", value |-> 1]>>]
  /\ UNCHANGED <<claims, owner, pass, gate, mode, outdated, crashes>>

-----------------------------------------------------------------------------
(* A pass                                                                  *)

Task(p) == Order[pass[p].at]

\* tryAcquireSchedulerRunLock; the mutant believes a lock in its own memory
LockFreeInMemory(p) == pass[p].pc = "idle"
LockFree(p) == owner = NoProc

\* runSchedulerTick up to the first task
runSchedulerTick(p) ==
  /\ Free(p) /\ pass[p].pc = "idle" /\ LockFree(p)
  /\ owner' = p
  /\ \E l \in Legacy : pass' = [pass EXCEPT ![p] = [NoPass EXCEPT !.pc = "scan", !.legacy = l]]
  /\ UNCHANGED <<claims, writes, circuit, gate, mode, outdated, crashes>>

\* What keeps a task from being attempted at its place of the scan
CircuitForbids(p, t) ==
  \/ /\ t \in Needs["llm"] /\ pass[p].legacy
     /\ \/ getCircuitState("llm") = "open"
        \/ getCircuitState("llm") = "half-open" /\ pass[p].probed
  \/ \E k \in Kinds \ {"llm"} : t \in Needs[k] /\ getCircuitState(k) = "open"
GateForbids(t) == t \in Gated /\ ~gate[t]

\* The threshold of tryClaimTask; the mutant claims whatever the age
DueAlways(t) == TRUE
Due(t) == since[t] > Interval

attemptable(p) == ~CircuitForbids(p, Task(p)) /\ ~GateForbids(Task(p)) /\ Due(Task(p))
scanning(p) == Free(p) /\ pass[p].pc = "scan" /\ pass[p].at <= Len(Order)

\* tryClaimTask inserts or swaps the row
tryClaimTask(p) ==
  /\ scanning(p) /\ attemptable(p)
  /\ since' = [since EXCEPT ![Task(p)] = 0]
  /\ by' = [by EXCEPT ![Task(p)] = p]
  /\ kept' = [kept EXCEPT ![Task(p)] = 0]
  /\ pass' = [pass EXCEPT ![p].pc = "task"]
  /\ UNCHANGED <<owner, writes, circuit, gate, mode, outdated, crashes>>

skipTask(p) ==
  /\ scanning(p) /\ ~attemptable(p)
  /\ pass' = [pass EXCEPT ![p].at = @ + 1]
  /\ UNCHANGED <<claims, owner, writes, circuit, gate, mode, outdated, crashes>>

\* The pass ends: at the end of the list, or because the database is busy while
\* no claim is unsettled
endPass(p) ==
  /\ Free(p) /\ pass[p].pc = "scan"
  /\ pass' = [pass EXCEPT ![p] = NoPass]
  /\ owner' = NoProc
  /\ UNCHANGED <<claims, writes, circuit, gate, mode, outdated, crashes>>

\* After an attempt the worker goes on only in the background, and only until it
\* is told to stop or learns that its runtime snapshot is invalid
afterAttemptStops(p) == p \in Workers
afterAttempt(p) == p \in Workers /\ (mode # "background" \/ p \in outdated)

nextTask(p, q) ==
  IF afterAttempt(p)
  THEN pass' = [pass EXCEPT ![p] = NoPass] /\ owner' = NoProc
  ELSE pass' = [pass EXCEPT ![p] = [q EXCEPT !.pc = "scan", !.at = @ + 1]] /\ UNCHANGED owner

\* The task returns: its claim is now the time of its last run
taskFinishes(p) ==
  /\ Free(p) /\ pass[p].pc = "task"
  /\ LET q == pass[p]
     IN nextTask(p, [q EXCEPT !.probed = @ \/ (q.legacy /\ Task(p) \in Needs["llm"] /\ q.observed)])
  /\ UNCHANGED <<claims, writes, circuit, gate, mode, outdated, crashes>>

\* The outcome is unknown or part of the effect is committed: the claim stays
taskFailsOpen(p) ==
  /\ Free(p) /\ pass[p].pc = "task"
  /\ nextTask(p, pass[p])
  /\ UNCHANGED <<claims, writes, circuit, gate, mode, outdated, crashes>>

\* rollbackClaim: the row becomes due again if it still holds this claim
rolledBack(p) == IF by[Task(p)] = p THEN [since EXCEPT ![Task(p)] = Gone] ELSE since

\* The task fails for certain: its claim is rolled back, and an error of the
\* service on a legacy route is recorded
taskFails(p) ==
  /\ Free(p) /\ pass[p].pc = "task"
  /\ since' = rolledBack(p)
  /\ kept' = [kept EXCEPT ![Task(p)] = Gone]
  /\ \E service \in {b \in BOOLEAN : b => Task(p) \in Needs["llm"]} :
       /\ nextTask(p, [pass[p] EXCEPT !.probed = @ \/ (service /\ pass[p].legacy)])
       /\ writes' = [writes EXCEPT ![p] = IF service THEN recordFailure("llm") ELSE << >>]
  /\ UNCHANGED <<by, circuit, gate, mode, outdated, crashes>>

\* The rollback itself finds the database busy: SchedulerClaimRollbackUnconfirmedError
\* ends the pass, and the worker with it
rollbackUnconfirmed(p) ==
  /\ Free(p) /\ pass[p].pc = "task" /\ crashes < MaxCrashes
  /\ crashes' = crashes + 1
  /\ pass' = [pass EXCEPT ![p] = [NoPass EXCEPT !.pc = IF p \in Workers THEN "dead" ELSE "idle"]]
  /\ owner' = NoProc
  /\ outdated' = outdated \ {p}
  /\ UNCHANGED <<claims, writes, circuit, gate, mode>>

-----------------------------------------------------------------------------
(* Processes and their environment                                         *)

\* The runtime snapshot of the worker is invalidated or it is told to stop; the
\* first lets it begin passes yet, the second does not
retire(p) ==
  /\ p \in Workers \ outdated /\ pass[p].pc # "dead" /\ crashes < MaxCrashes
  /\ outdated' = outdated \cup {p} /\ crashes' = crashes + 1
  /\ UNCHANGED <<claims, owner, pass, writes, circuit, gate, mode>>

\* The process ends: it crashes, or the outdated worker is replaced, between two
\* tasks or, at its deadline, inside one.
\* The lock is a transaction of the sidecar database: it dies with its holder
crash(p) ==
  /\ pass[p].pc # "dead"
  /\ IF p \in outdated THEN UNCHANGED crashes
     ELSE crashes < MaxCrashes /\ crashes' = crashes + 1
  /\ outdated' = outdated \ {p}
  /\ pass' = [pass EXCEPT ![p] = [NoPass EXCEPT !.pc = "dead"]]
  /\ writes' = [writes EXCEPT ![p] = << >>]
  /\ owner' = IF owner = p THEN NoProc ELSE owner
  /\ UNCHANGED <<claims, circuit, gate, mode>>

start(p) ==
  /\ pass[p].pc = "dead"
  /\ pass' = [pass EXCEPT ![p] = NoPass]
  /\ UNCHANGED <<claims, owner, writes, circuit, gate, mode, outdated, crashes>>

setMode ==
  /\ mode' \in {"background", "foreground"} \ {mode}
  /\ UNCHANGED <<claims, owner, pass, writes, circuit, gate, outdated, crashes>>

changeGate ==
  /\ \E t \in Gated : gate' = [gate EXCEPT ![t] = ~@]
  /\ UNCHANGED <<claims, owner, pass, writes, circuit, mode, outdated, crashes>>

-----------------------------------------------------------------------------
Settles(p) == taskFinishes(p) \/ taskFailsOpen(p) \/ taskFails(p)
Step(p) ==
  \/ write(p) \/ runSchedulerTick(p) \/ tryClaimTask(p) \/ skipTask(p) \/ endPass(p)
  \/ Settles(p) \/ rollbackUnconfirmed(p) \/ retire(p) \/ crash(p) \/ start(p)
  \/ resetCircuitBreaker(p)
  \/ \E k \in Kinds : callSucceeds(p, k) \/ callFails(p, k)

Next == Tick \/ setMode \/ changeGate \/ \E p \in Procs : Step(p)

\* Time passes; every process that runs is timed to try a pass, finishes its
\* turn, and its tasks end (their calls have timeouts); an outdated worker is
\* replaced, and a process that died is started again; the database is not busy
\* for ever at one place of the scan.
Fairness ==
  /\ WF_vars(Tick)
  /\ SF_vars(\E p \in Procs : runSchedulerTick(p))
  /\ \A p \in Procs :
       /\ WF_vars(write(p)) /\ SF_vars(Settles(p)) /\ WF_vars(start(p)) /\ SF_vars(endPass(p))
       /\ WF_vars(p \in outdated /\ crash(p))
       /\ \A i \in 1 .. Len(Order) :
            SF_vars(pass[p].at = i /\ (tryClaimTask(p) \/ skipTask(p)))

Spec == Init /\ [][Next]_vars
FairSpec == Spec /\ Fairness

-----------------------------------------------------------------------------
Attempts(p, t) == pass[p].pc = "task" /\ Task(p) = t

\* A task runs in one process at a time, although processes crash in the middle
\* of it, the rollback of a claim makes it due again, and an attempt may outlast
\* the interval after which the claim can be taken over.
OneExecution ==
  \A p, q \in Procs, t \in Tasks : Attempts(p, t) /\ Attempts(q, t) => p = q

\* A task whose last attempt may have had an effect (it returned, it failed with
\* an unknown outcome, its process died in it, its rollback was not confirmed) is
\* not attempted again within its interval.
NoEarlyReplay ==
  [][\A p \in Procs, t \in Tasks :
       ~Attempts(p, t) /\ Attempts(p, t)' => kept[t] > Interval]_vars

\* An open circuit does not stay open, unless failures keep being recorded:
\* whatever a crash or another process left of the three rows, the cooldown ends.
CircuitHeals ==
  \A k \in Kinds :
    (getCircuitState(k) = "open") ~> \/ getCircuitState(k) # "open"
                                     \/ \E p \in Procs : writes[p] # << >>

\* In the background every task that needs no service is attempted again and
\* again while it is due and its gate is open, although tasks before it keep
\* failing and being rolled back.
EveryTaskAttempted ==
  <>[](mode = "background") =>
    \A t \in Tasks \ UNION {Needs[k] : k \in Kinds} :
      []<>(~Due(t) \/ GateForbids(t) \/ \E p \in Procs : Attempts(p, t))
=============================================================================
