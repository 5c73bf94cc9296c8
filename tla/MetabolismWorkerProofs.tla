----------------------- MODULE MetabolismWorkerProofs -----------------------
(***************************************************************************)
(* Proofs about MetabolismWorker for any number of edits and restarts.     *)
(*                                                                         *)
(* The argument follows the fields of the manager: a generation is built   *)
(* only while no controller is current (Current), its number was never     *)
(* used (Unused), and a thread that lives is the one of the current        *)
(* controller (Life).  The fence of the prompts only needs the row of the  *)
(* runtime revision (Fences).                                              *)
(***************************************************************************)
EXTENDS MetabolismWorker, FiniteSetTheorems, TLAPS

Managers == [ctl: Nat, generation: Nat, starting: BOOLEAN,
             restart: {"no", "wait", "drain", "spawn"}, want: Nat, target: Nat,
             spawn: {"no", "build", "built", "await", "kill"},
             stopped: BOOLEAN, degraded: BOOLEAN,
             quit: {"no", "end", "kill", "join", "done"}]

\* How the fields of the manager hang together
Current(s) ==
  /\ s.spawn = "no" <=> (~s.starting /\ s.restart # "spawn")
  /\ s.spawn \in {"build", "built"} => s.ctl = 0 /\ ~s.degraded
  /\ s.spawn = "await" => s.ctl = s.generation + 1
  /\ s.spawn = "kill" => s.ctl # 0 /\ s.degraded
  /\ s.restart = "drain" => s.spawn = "no" /\ ~s.degraded
  /\ s.ctl > s.generation => s.ctl = s.generation + 1 /\ (s.spawn = "await" \/ s.degraded)
  /\ s.quit # "no" => s.stopped
  /\ s.quit \in {"join", "done"} => s.ctl = 0
  /\ s.quit = "done" => s.spawn = "no" /\ s.restart = "no"

\* Generations that were never spawned
Unused(s, g) ==
  \/ g > s.generation + 1
  \/ g = s.generation + 1 /\ ~s.degraded /\ s.spawn # "await"

\* A state the manager may take after s: its fields fit and no generation has
\* become unused
Follows(s, t) == t \in Managers /\ Current(t) /\ \A g \in Gens : Unused(t, g) => Unused(s, g)

Ends == {"exit0", "exit1"}

\* Controllers, threads and messages of the generations
Life ==
  /\ life \in [Gens -> Lives] /\ thread \in [Gens -> Threads]
  /\ outbox \in [Gens -> Seq(Messages)]
  /\ \A g \in Gens :
       /\ Unused(m, g) => life[g] = "none"
       /\ life[g] = "none" => thread[g] = "none" /\ outbox[g] = << >>
       /\ Alive(g) => m.ctl = g
       /\ \A i \in 1 .. Len(outbox[g]) : outbox[g][i] \in Ends => thread[g] = "dead"

\* Snapshots, the row of the revision and the prompts
Fences ==
  /\ config \in Nat /\ files \in Nat /\ seen \in Nat /\ fenced \in Nat /\ dropped \in Nat
  /\ files <= config /\ seen <= config /\ fenced <= config /\ dropped <= config
  /\ snap \in [Gens -> Nat]
  /\ \A g \in Gens : revision = g => snap[g] >= fenced
  /\ prompt.built \in Nat /\ prompt.fenced \in Nat /\ prompt.built >= prompt.fenced

IInv == m \in Managers /\ Current(m) /\ Life /\ Fences

-----------------------------------------------------------------------------
(* The manager's transitions, one lemma each: the fields keep together, the *)
(* current controller is kept or given up, no generation becomes unused.    *)

\* Generations are numbered from one; zero stands for none.
LEMMA GenNumbers == \A g \in Gens : g \in Nat /\ g # 0
  BY BoundsAssumption DEF Gens

\* A request is counted and starts a restart, or joins the one under way.
LEMMA RequestOK ==
  ASSUME NEW s \in Managers, Current(s), NEW t, t = requestRestart(s)
  PROVE  Follows(s, t) /\ t.ctl = s.ctl
<1>1. CASE s.stopped \/ s.degraded
    BY <1>1 DEF requestRestart, Follows
<1>2. CASE ~(s.stopped \/ s.degraded) /\ s.restart = "no"
  <2>1. t = [s EXCEPT !.want = s.want + 1, !.restart = "wait", !.target = s.want + 1]
      BY <1>2 DEF requestRestart, Managers
  <2>2. t \in Managers
    <3> DEFINE w == s.want + 1
    <3>1. w \in Nat
        BY DEF Managers
    <3> HIDE DEF w
    <3>2. t = [s EXCEPT !.want = w, !.restart = "wait", !.target = w]
        BY <2>1 DEF w
    <3> QED
        BY <3>1, <3>2 DEF Managers
  <2>3. /\ t.ctl = s.ctl /\ t.generation = s.generation /\ t.starting = s.starting /\ t.restart = "wait"
        /\ t.spawn = s.spawn /\ t.stopped = s.stopped /\ t.degraded = s.degraded /\ t.quit = s.quit
      BY <2>1 DEF Managers
  <2> QED
      BY <1>2, <2>2, <2>3, GenNumbers DEF Follows, Current, Unused
<1>3. CASE ~(s.stopped \/ s.degraded) /\ s.restart # "no"
  <2>1. t = [s EXCEPT !.want = s.want + 1]
      BY <1>3 DEF requestRestart, Managers
  <2> QED
      BY <1>3, <2>1, GenNumbers DEF Follows, Managers, Current, Unused
<1> QED
    BY <1>1, <1>2, <1>3

\* A build that fails settles both promises and degrades the session.
LEMMA FailedOK ==
  ASSUME NEW s \in Managers, Current(s), s.spawn = "build", NEW t, t = failed(s)
  PROVE  Follows(s, t) /\ t.ctl = s.ctl
  BY GenNumbers DEF Follows, Managers, Current, Unused, failed

\* A start that finds the manager stopped gives up.
LEMMA AbandonedOK ==
  ASSUME NEW s \in Managers, Current(s), s.spawn \in {"build", "built"}, NEW t, t = abandoned(s)
  PROVE  Follows(s, t) /\ t.ctl = s.ctl
  BY GenNumbers DEF Follows, Managers, Current, Unused, abandoned

\* A controller that degrades stops a drain and turns waits into kills.
LEMMA DegradedOK ==
  ASSUME NEW s \in Managers, Current(s), NEW g \in Gens, NEW t, t = onDegraded(s, g)
  PROVE  Follows(s, t) /\ t.ctl = s.ctl
  BY GenNumbers DEF Follows, Managers, Current, Unused, onDegraded

\* A controller that is ready ends its start.
LEMMA ReadyOK ==
  ASSUME NEW s \in Managers, Current(s), NEW g \in Gens, NEW t, t = onReady(s, g)
  PROVE  Follows(s, t) /\ t.ctl = s.ctl
<1> DEFINE u == [s EXCEPT !.spawn = "no", !.starting = FALSE, !.generation = g]
<1>1. CASE s.ctl # g \/ s.spawn # "await"
    BY <1>1 DEF onReady, Follows
<1>2. CASE s.ctl = g /\ s.spawn = "await"
  <2>0. g \in Nat /\ u \in Managers
    <3>1. g \in Nat
        BY GenNumbers
    <3> QED
        BY <3>1 DEF Managers
  <2>1. /\ u.ctl = g /\ u.spawn = "no" /\ ~u.starting /\ u.generation = g
        /\ u.restart = s.restart /\ u.want = s.want /\ u.target = s.target
        /\ u.stopped = s.stopped /\ u.degraded = s.degraded /\ u.quit = s.quit
      BY <1>2, <2>0 DEF Managers
  <2>2. t = IF s.restart # "spawn" THEN u
            ELSE IF s.target = s.want \/ s.stopped THEN [u EXCEPT !.restart = "no"]
            ELSE [u EXCEPT !.restart = "wait", !.target = s.want]
      BY <1>2 DEF onReady
  <2>3. s.generation \in Nat /\ g = s.generation + 1
      BY <1>2 DEF Current, Managers
  <2> HIDE DEF u
  <2>4. CASE s.restart # "spawn"
      BY <1>2, <2>0, <2>1, <2>2, <2>3, <2>4, GenNumbers DEF Follows, Current, Unused
  <2>5. CASE s.restart = "spawn" /\ (s.target = s.want \/ s.stopped)
    <3>1. t = [u EXCEPT !.restart = "no"]
        BY <2>2, <2>5
    <3> QED
        BY <1>2, <2>0, <2>1, <3>1, <2>3, <2>5, GenNumbers DEF Follows, Managers, Current, Unused
  <2>6. CASE s.restart = "spawn" /\ ~(s.target = s.want \/ s.stopped)
    <3>1. t = [u EXCEPT !.restart = "wait", !.target = s.want]
        BY <2>2, <2>6
    <3>2. t \in Managers
        BY <2>0, <3>1 DEF Managers
    <3>3. /\ t.ctl = u.ctl /\ t.generation = u.generation /\ t.starting = u.starting /\ t.restart = "wait"
          /\ t.spawn = u.spawn /\ t.stopped = u.stopped /\ t.degraded = u.degraded /\ t.quit = u.quit
        BY <2>0, <3>1 DEF Managers
    <3> QED
        BY <1>2, <2>0, <2>1, <2>3, <2>6, <3>2, <3>3, GenNumbers DEF Follows, Current, Unused
  <2> QED
      BY <2>4, <2>5, <2>6
<1> QED
    BY <1>1, <1>2

\* A controller that ends is current no more; a drain goes on to the next.
LEMMA EndedOK ==
  ASSUME NEW s \in Managers, Current(s), NEW g \in Gens, NEW t, t = onEnded(s, g)
  PROVE  Follows(s, t) /\ t.ctl = IF s.ctl = g THEN 0 ELSE s.ctl
<1> DEFINE q == IF s.quit \in {"end", "kill"} THEN "join" ELSE s.quit
           u == [s EXCEPT !.ctl = 0, !.quit = q]
<1>1. CASE s.ctl # g
    BY <1>1 DEF onEnded, Follows
<1>2. CASE s.ctl = g
  <2>1. q \in {"no", "join", "done"} /\ (q # "no" <=> s.quit # "no") /\ (q = "done" <=> s.quit = "done")
      BY DEF Managers
  <2> HIDE DEF q
  <2>0. u \in Managers
      BY <2>1 DEF Managers
  <2>2. /\ u.ctl = 0 /\ u.quit = q /\ u.spawn = s.spawn /\ u.starting = s.starting
        /\ u.generation = s.generation /\ u.restart = s.restart
        /\ u.stopped = s.stopped /\ u.degraded = s.degraded
      BY <2>1 DEF Managers
  <2>3. t = CASE s.spawn \in {"await", "kill"} -> failed(u)
              [] s.restart = "drain" /\ s.stopped -> [u EXCEPT !.restart = "no"]
              [] s.restart = "drain" /\ ~s.stopped -> [u EXCEPT !.restart = "spawn", !.spawn = "build"]
              [] OTHER -> u
      BY <1>2 DEF onEnded, q
  <2>4. /\ g \in Nat /\ g # 0 /\ s.spawn \in {"no", "await", "kill"}
        /\ s.generation \in Nat /\ s.quit # "done" /\ q # "done"
      BY <2>1, <1>2, GenNumbers DEF Current, Managers
  <2>5. ~(s.spawn \in {"await", "kill"} /\ s.restart = "drain")
      BY DEF Current
  <2> HIDE DEF u
  <2>6. CASE s.spawn \in {"await", "kill"}
    <3>1. t = [u EXCEPT !.starting = FALSE, !.restart = "no", !.spawn = "no", !.degraded = TRUE]
        BY <2>3, <2>5, <2>6 DEF failed
    <3>2. t \in Managers
        BY <2>0, <3>1 DEF Managers
    <3>3. /\ t.ctl = u.ctl /\ t.generation = u.generation /\ ~t.starting /\ t.restart = "no"
          /\ t.spawn = "no" /\ t.stopped = u.stopped /\ t.degraded /\ t.quit = u.quit
        BY <2>0, <3>1 DEF Managers
    <3>4. Current(t)
        BY <2>1, <2>2, <2>4, <2>5, <2>6, <3>3 DEF Current
    <3>5. \A h \in Gens : Unused(t, h) => Unused(s, h)
        BY <2>2, <2>4, <2>5, <2>6, <3>3, GenNumbers DEF Unused, Current
    <3> QED
        BY <1>2, <2>2, <3>2, <3>3, <3>4, <3>5 DEF Follows
  <2>7. CASE s.restart = "drain" /\ s.stopped
    <3>1. t = [u EXCEPT !.restart = "no"]
        BY <2>3, <2>5, <2>7
    <3>2. t \in Managers
        BY <2>0, <3>1 DEF Managers
    <3>3. /\ t.ctl = u.ctl /\ t.generation = u.generation /\ t.starting = u.starting /\ t.restart = "no"
          /\ t.spawn = u.spawn /\ t.stopped = u.stopped /\ t.degraded = u.degraded /\ t.quit = u.quit
        BY <2>0, <3>1 DEF Managers
    <3>4. Current(t)
        BY <2>1, <2>2, <2>4, <2>5, <2>7, <3>3 DEF Current
    <3>5. \A h \in Gens : Unused(t, h) => Unused(s, h)
        BY <2>2, <2>4, <2>5, <2>7, <3>3, GenNumbers DEF Unused, Current
    <3> QED
        BY <1>2, <2>2, <3>2, <3>3, <3>4, <3>5 DEF Follows
  <2>8. CASE s.restart = "drain" /\ ~s.stopped
    <3>1. t = [u EXCEPT !.restart = "spawn", !.spawn = "build"]
        BY <2>3, <2>5, <2>8
    <3>2. t \in Managers
        BY <2>0, <3>1 DEF Managers
    <3>3. /\ t.ctl = u.ctl /\ t.generation = u.generation /\ t.starting = u.starting /\ t.restart = "spawn"
          /\ t.spawn = "build" /\ t.stopped = u.stopped /\ t.degraded = u.degraded /\ t.quit = u.quit
        BY <2>0, <3>1 DEF Managers
    <3>4. Current(t)
        BY <2>1, <2>2, <2>4, <2>5, <2>8, <3>3 DEF Current
    <3>5. \A h \in Gens : Unused(t, h) => Unused(s, h)
        BY <2>2, <2>4, <2>5, <2>8, <3>3, GenNumbers DEF Unused, Current
    <3> QED
        BY <1>2, <2>2, <3>2, <3>3, <3>4, <3>5 DEF Follows
  <2>9. CASE s.spawn \notin {"await", "kill"} /\ s.restart # "drain"
    <3>1. t = u
        BY <2>3, <2>9
    <3>4. Current(t)
        BY <2>1, <2>2, <2>4, <2>9, <3>1 DEF Current
    <3>5. \A h \in Gens : Unused(t, h) => Unused(s, h)
        BY <2>2, <2>4, <2>9, <3>1, GenNumbers DEF Unused
    <3> QED
        BY <1>2, <2>0, <2>2, <3>1, <3>4, <3>5 DEF Follows
  <2> QED
      BY <2>6, <2>7, <2>8, <2>9
<1> QED
    BY <1>1, <1>2

-----------------------------------------------------------------------------
(* The steps                                                               *)

\* The manager starts with the first generation to build.
LEMMA InitOK == Init => IInv
<1> SUFFICES ASSUME Init PROVE IInv
    OBVIOUS
<1>1. m \in Managers
    BY DEF Init, Managers
<1>2. Current(m)
    BY DEF Init, Current
<1>3. Life
    BY DEF Init, Life, Lives, Threads, Messages, Alive
<1>4. Fences
    BY GenNumbers DEF Init, Fences, Invalid
<1> QED
    BY <1>1, <1>2, <1>3, <1>4 DEF IInv

\* The manager moves, the generations do not.
LEMMA ManagerMoves ==
  ASSUME IInv, Follows(m, m'), m'.ctl = m.ctl, UNCHANGED <<life, thread, outbox>>
  PROVE  m' \in Managers /\ Current(m') /\ Life'
  BY DEF IInv, Follows, Life, Alive

\* A controller moves on: its generation was in use.
LEMMA ControllerMoves ==
  ASSUME IInv, Follows(m, m'), m'.ctl = m.ctl, NEW g \in Gens, NEW l \in Lives \ {"none"},
         life[g] # "none" \/ ~Unused(m', g),
         life' = [life EXCEPT ![g] = l], UNCHANGED <<thread, outbox>>
  PROVE  m' \in Managers /\ Current(m') /\ Life'
  BY DEF IInv, Follows, Life, Alive

\* The generation of the current controller is in use.
LEMMA CurrentIsUsed ==
  ASSUME m \in Managers, Current(m), NEW g \in Gens, m.ctl = g PROVE ~Unused(m, g)
  BY GenNumbers DEF Managers, Current, Unused

\* The worker moves: a thread that lives or dies stays with its controller, and
\* reports its end only when it is dead.
LEMMA WorkerMoves ==
  ASSUME IInv, m' = m, life' = life, NEW g \in Gens, Alive(g), NEW t \in Threads \ {"none"},
         NEW ms \in Seq(Messages),
         \A i \in 1 .. Len(ms) : ms[i] \in Ends => t = "dead",
         thread' = [thread EXCEPT ![g] = t], outbox' = [outbox EXCEPT ![g] = @ \o ms]
  PROVE  m' \in Managers /\ Current(m') /\ Life'
<1>1. thread' \in [Gens -> Threads] /\ outbox[g] \in Seq(Messages)
    BY DEF IInv, Life
<1>2. outbox[g] \o ms \in Seq(Messages)
    BY <1>1
<1>3. outbox' \in [Gens -> Seq(Messages)]
    BY <1>2 DEF IInv, Life
<1>4. \A i \in 1 .. Len(outbox[g] \o ms) : (outbox[g] \o ms)[i] \in Ends => t = "dead"
  <2> SUFFICES ASSUME NEW i \in 1 .. Len(outbox[g] \o ms), (outbox[g] \o ms)[i] \in Ends PROVE t = "dead"
      OBVIOUS
  <2>1. \A j \in 1 .. Len(outbox[g]) : outbox[g][j] \notin Ends
      BY DEF IInv, Life, Alive
  <2>2. CASE i <= Len(outbox[g])
      BY <1>1, <2>1, <2>2
  <2>3. CASE i > Len(outbox[g])
    <3>1. i - Len(outbox[g]) \in 1 .. Len(ms) /\ (outbox[g] \o ms)[i] = ms[i - Len(outbox[g])]
        BY <1>1, <2>3
    <3> QED
        BY <3>1
  <2> QED
      BY <1>1, <2>2, <2>3
<1>5. life[g] # "none"
    BY DEF IInv, Life, Alive
<1> QED
    BY <1>1, <1>3, <1>4, <1>5 DEF IInv, Life, Alive

\* A message is taken from the outbox: what is left was there before.
LEMMA Taken ==
  ASSUME IInv, NEW g \in Gens, outbox[g] # << >>, outbox' = [outbox EXCEPT ![g] = Tail(@)]
  PROVE  /\ outbox' \in [Gens -> Seq(Messages)] /\ life[g] # "none"
         /\ \A h \in Gens : outbox[h] = << >> => outbox'[h] = << >>
         /\ \A h \in Gens : \A i \in 1 .. Len(outbox'[h]) :
              outbox'[h][i] \in Ends => thread[h] = "dead"
<1>1. outbox[g] \in Seq(Messages)
    BY DEF IInv, Life
<1>2. Tail(outbox[g]) \in Seq(Messages) /\ Len(Tail(outbox[g])) = Len(outbox[g]) - 1
      /\ \A i \in 1 .. Len(Tail(outbox[g])) : Tail(outbox[g])[i] = outbox[g][i + 1]
    BY <1>1
<1>3. outbox' \in [Gens -> Seq(Messages)]
    BY <1>2 DEF IInv, Life
<1>4. life[g] # "none"
    BY DEF IInv, Life
<1>5. \A h \in Gens : outbox[h] = << >> => outbox'[h] = << >>
    BY DEF IInv, Life
<1>6. ASSUME NEW h \in Gens, NEW i \in 1 .. Len(outbox'[h]), outbox'[h][i] \in Ends
      PROVE  thread[h] = "dead"
  <2>1. CASE h = g
    <3>1. outbox'[g] = Tail(outbox[g])
        BY DEF IInv, Life
    <3>3. i \in 1 .. Len(Tail(outbox[g])) /\ Len(outbox[g]) \in Nat
      <4>1. outbox'[h] = Tail(outbox[g]) /\ i \in 1 .. Len(outbox'[h])
          BY <1>6, <2>1, <3>1
      <4>2. Len(outbox[g]) \in Nat
          BY <1>1
      <4>3. i \in 1 .. Len(Tail(outbox[g]))
          BY <4>1, Zenon
      <4> QED
          BY <4>2, <4>3
    <3>2. i + 1 \in 1 .. Len(outbox[g]) /\ outbox[g][i + 1] \in Ends
      <4>1. i + 1 \in 1 .. Len(outbox[g])
          BY <1>2, <3>3
      <4>2. outbox[g][i + 1] = outbox'[h][i]
          BY <1>2, <2>1, <3>1, <3>3
      <4> QED
          BY <1>6, <4>1, <4>2
    <3> QED
        BY <2>1, <3>2 DEF IInv, Life
  <2>2. CASE h # g
    <3>1. outbox'[h] = outbox[h]
        BY <2>2 DEF IInv, Life
    <3> QED
        BY <1>6, <3>1 DEF IInv, Life
  <2> QED
      BY <2>1, <2>2
<1> QED
    BY <1>3, <1>4, <1>5, <1>6

\* A step of the manager, its controllers or a worker keeps its fields and the
\* generations together.
LEMMA StepOfLife ==
  ASSUME IInv, [Next]_vars PROVE m' \in Managers /\ Current(m') /\ Life'
<1> USE DEF worker, world, edits
<1>i. m \in Managers /\ Current(m) /\ Life
    BY DEF IInv
<1>s. Follows(m, m)
    BY <1>i DEF Follows
<1>1. CASE buildBootstrap
  <2>1. m.spawn = "build" /\ UNCHANGED <<life, thread, outbox>>
      BY <1>1 DEF buildBootstrap
  <2>2. CASE m' = abandoned(m)
      BY <1>i, <2>1, <2>2, AbandonedOK, ManagerMoves
  <2>3. CASE m' = failed(m)
      BY <1>i, <2>1, <2>3, FailedOK, ManagerMoves
  <2>4. CASE m' = [m EXCEPT !.spawn = "built"]
    <3>1. m' \in Managers
        BY <1>i, <2>4 DEF Managers
    <3>2. /\ m'.ctl = m.ctl /\ m'.generation = m.generation /\ m'.starting = m.starting
          /\ m'.restart = m.restart /\ m'.spawn = "built" /\ m'.stopped = m.stopped
          /\ m'.degraded = m.degraded /\ m'.quit = m.quit
        BY <1>i, <2>4 DEF Managers
    <3>3. Follows(m, m')
        BY <1>i, <2>1, <3>1, <3>2 DEF Follows, Current, Unused
    <3> QED
        BY <2>1, <3>2, <3>3, ManagerMoves
  <2> QED
      BY <1>1, <2>2, <2>3, <2>4 DEF buildBootstrap
<1>2. CASE startNextGeneration
  <2> DEFINE g == m.generation + 1
  <2>1. m.spawn = "built" /\ m.ctl = 0 /\ ~m.degraded /\ m.generation \in Nat /\ outbox' = outbox
      BY <1>2, <1>i DEF startNextGeneration, Current, Managers
  <2>2. CASE m.stopped
    <3>1. m' = abandoned(m) /\ UNCHANGED <<life, thread, outbox>>
        BY <1>2, <2>2 DEF startNextGeneration
    <3> QED
        BY <1>i, <2>1, <3>1, AbandonedOK, ManagerMoves
  <2>3. CASE ~m.stopped
    <3>1. /\ m' = [m EXCEPT !.spawn = "await", !.ctl = g]
          /\ life' = [life EXCEPT ![g] = "bootstrapping"]
          /\ thread' = [thread EXCEPT ![g] = "boot"]
        BY <1>2, <2>3 DEF startNextGeneration, nextGeneration
    <3> HIDE DEF g
    <3>g. g \in Nat /\ g = m.generation + 1
        BY <2>1 DEF g
    <3>2. m' \in Managers
        BY <1>i, <3>1, <3>g DEF Managers
    <3>3. /\ m'.ctl = g /\ m'.generation = m.generation /\ m'.starting = m.starting
          /\ m'.restart = m.restart /\ m'.spawn = "await" /\ m'.stopped = m.stopped
          /\ m'.degraded = m.degraded /\ m'.quit = m.quit
        BY <1>i, <3>1 DEF Managers
    <3>4. Current(m')
      <4>1. m.quit = "no"
          BY <1>i, <2>3 DEF Current
      <4> QED
          BY <1>i, <2>1, <3>3, <3>g, <4>1 DEF Current
    <3>5. \A h \in Gens : Unused(m', h) => Unused(m, h) /\ h # g
        BY <2>1, <3>3, <3>g, GenNumbers DEF Unused
    <3>6. \A h \in Gens : ~Alive(h)
        BY <2>1, GenNumbers DEF IInv, Life
    <3>7. g \in Gens => outbox[g] = << >>
        BY <2>1, <3>g DEF IInv, Life, Unused
    <3>8. Life'
      <4>1. life' \in [Gens -> Lives] /\ thread' \in [Gens -> Threads] /\ outbox' \in [Gens -> Seq(Messages)]
          BY <1>i, <2>1, <3>1 DEF Life, Lives, Threads
      <4>2. ASSUME NEW h \in Gens
            PROVE  /\ Unused(m', h) => life'[h] = "none"
                   /\ life'[h] = "none" => thread'[h] = "none" /\ outbox'[h] = << >>
                   /\ Alive(h)' => m'.ctl = h
                   /\ \A i \in 1 .. Len(outbox'[h]) : outbox'[h][i] \in Ends => thread'[h] = "dead"
        <5>1. CASE h = g
          <6>1. life'[h] = "bootstrapping" /\ thread'[h] = "boot" /\ outbox'[h] = << >>
              BY <1>i, <2>1, <3>1, <3>7, <5>1 DEF Life
          <6> QED
              BY <3>3, <3>5, <5>1, <6>1
        <5>2. CASE h # g
          <6>1. life'[h] = life[h] /\ thread'[h] = thread[h] /\ outbox'[h] = outbox[h]
              BY <1>i, <2>1, <3>1, <5>2 DEF Life
          <6> QED
              BY <1>i, <3>5, <3>6, <6>1 DEF Life, Alive
        <5> QED
            BY <5>1, <5>2
      <4> QED
          BY <4>1, <4>2 DEF Life
    <3> QED
        BY <3>2, <3>4, <3>8
  <2> QED
      BY <2>2, <2>3
<1>3. CASE restartCurrentGeneration
  <2>1. m.restart = "wait" /\ ~m.starting /\ UNCHANGED <<thread, outbox>> /\ m.spawn = "no" /\ m.quit # "done"
      BY <1>3, <1>i DEF restartCurrentGeneration, Current
  <2>2. CASE loopEnds
    <3>1. m' = [m EXCEPT !.restart = "no"] /\ life' = life
        BY <1>3, <2>2 DEF restartCurrentGeneration
    <3>2. m' \in Managers /\ m'.ctl = m.ctl
        BY <1>i, <3>1 DEF Managers
    <3>3. Follows(m, m')
        BY <1>i, <2>1, <3>1, <3>2 DEF Follows, Current, Unused, Managers
    <3> QED
        BY <2>1, <3>1, <3>2, <3>3, ManagerMoves
  <2>3. CASE ~loopEnds /\ m.ctl = 0
    <3>1. m' = [m EXCEPT !.restart = "spawn", !.spawn = "build"] /\ life' = life
        BY <1>3, <2>3 DEF restartCurrentGeneration
    <3>2. m' \in Managers /\ m'.ctl = m.ctl
        BY <1>i, <3>1 DEF Managers
    <3>3. Follows(m, m')
        BY <1>i, <2>1, <2>3, <3>1, <3>2 DEF Follows, Current, Unused, Managers, loopEnds
    <3> QED
        BY <2>1, <3>1, <3>2, <3>3, ManagerMoves
  <2>4. CASE ~loopEnds /\ m.ctl # 0
    <3>1. m' = [m EXCEPT !.restart = "drain"]
        BY <1>3, <2>4 DEF restartCurrentGeneration
    <3>2. m' \in Managers /\ m'.ctl = m.ctl
        BY <1>i, <3>1 DEF Managers
    <3>3. Follows(m, m')
        BY <1>i, <2>1, <2>4, <3>1, <3>2 DEF Follows, Current, Unused, Managers, loopEnds
    <3>4. CASE life[m.ctl] = "ready"
      <4>1. life' = [life EXCEPT ![m.ctl] = "draining"]
          BY <1>3, <2>4, <3>4 DEF restartCurrentGeneration
      <4>2. CASE m.ctl \in Gens
          BY <2>1, <3>2, <3>3, <3>4, <4>1, <4>2, ControllerMoves DEF Lives
      <4>3. CASE m.ctl \notin Gens
        <5>1. life' = life
            BY <1>i, <4>1, <4>3 DEF Life
        <5> QED
            BY <2>1, <3>2, <3>3, <5>1, ManagerMoves
      <4> QED
          BY <4>2, <4>3
    <3>5. CASE life[m.ctl] # "ready"
      <4>1. life' = life
          BY <1>3, <2>4, <3>5 DEF restartCurrentGeneration
      <4> QED
          BY <2>1, <3>2, <3>3, <4>1, ManagerMoves
    <3> QED
        BY <3>4, <3>5
  <2> QED
      BY <2>2, <2>3, <2>4
<1>4. CASE shutdown
  <2>1. m.quit = "no" /\ UNCHANGED <<thread, outbox>>
      BY <1>4 DEF shutdown
  <2>2. PICK q \in {"join", "kill", "end"} :
          m' = [m EXCEPT !.stopped = TRUE, !.quit = q] /\ (q = "join" <=> m.ctl = 0)
      BY <1>4 DEF shutdown
  <2>3. m' \in Managers
      BY <1>i, <2>2 DEF Managers
  <2>4. /\ m'.ctl = m.ctl /\ m'.generation = m.generation /\ m'.starting = m.starting
        /\ m'.restart = m.restart /\ m'.spawn = m.spawn /\ m'.stopped
        /\ m'.degraded = m.degraded /\ m'.quit = q
      BY <1>i, <2>2 DEF Managers
  <2>5. Follows(m, m')
      BY <1>i, <2>2, <2>3, <2>4 DEF Follows, Current, Unused
  <2>6. CASE life' = life
      BY <2>1, <2>4, <2>5, <2>6, ManagerMoves
  <2>7. CASE life' = [life EXCEPT ![m.ctl] = "stopping"] /\ m.ctl \in Gens
    <3>1. ~Unused(m', m.ctl)
        BY <1>i, <2>3, <2>4, <2>5, <2>7, CurrentIsUsed DEF Follows
    <3> QED
        BY <2>1, <2>4, <2>5, <2>7, <3>1, ControllerMoves DEF Lives
  <2>8. CASE life' = [life EXCEPT ![m.ctl] = "stopping"] /\ m.ctl \notin Gens
    <3>1. life' = life
        BY <1>i, <2>8 DEF Life
    <3> QED
        BY <2>6, <3>1
  <2> QED
      BY <1>4, <2>6, <2>7, <2>8 DEF shutdown
<1>5. CASE shutdownJoins
  <2>1. m.quit = "join" /\ m.restart = "no" /\ ~m.starting /\ m' = [m EXCEPT !.quit = "done"]
        /\ UNCHANGED <<life, thread, outbox>>
      BY <1>5 DEF shutdownJoins
  <2>2. m' \in Managers /\ m'.ctl = m.ctl
      BY <1>i, <2>1 DEF Managers
  <2>3. Follows(m, m')
      BY <1>i, <2>1, <2>2 DEF Follows, Current, Unused, Managers
  <2> QED
      BY <2>1, <2>2, <2>3, ManagerMoves
<1>6. ASSUME NEW g \in Gens, forceTerminate(g) PROVE m' \in Managers /\ Current(m') /\ Life'
  <2> DEFINE d == onDegraded(m, g)
  <2>1. Follows(m, d) /\ d.ctl = g /\ m.ctl = g
      BY <1>i, <1>6, DegradedOK DEF forceTerminate
  <2>2. m' = onEnded(d, g)
      BY <1>6 DEF forceTerminate
  <2> HIDE DEF d
  <2>3. Follows(d, m') /\ m'.ctl = 0
      BY <2>1, <2>2, EndedOK DEF Follows
  <2>4. m' \in Managers /\ Current(m') /\ \A h \in Gens : Unused(m', h) => Unused(d, h) /\ Unused(m, h)
      BY <2>1, <2>3 DEF Follows
  <2>5. ~Unused(d, g)
      BY <2>1, GenNumbers DEF Follows, Managers, Current, Unused
  <2>6. /\ thread' = [thread EXCEPT ![g] = "dead"] /\ life' = [life EXCEPT ![g] = "exited"]
        /\ outbox' = [outbox EXCEPT ![g] = << >>]
      BY <1>6 DEF forceTerminate
  <2>7. Life'
    <3>1. /\ life' \in [Gens -> Lives] /\ thread' \in [Gens -> Threads]
          /\ outbox' \in [Gens -> Seq(Messages)]
      <4>1. "exited" \in Lives /\ "dead" \in Threads /\ << >> \in Seq(Messages)
          BY DEF Lives, Threads
      <4> QED
          BY <1>i, <2>6, <4>1 DEF Life
    <3>2. ASSUME NEW h \in Gens
          PROVE  /\ Unused(m', h) => life'[h] = "none"
                 /\ life'[h] = "none" => thread'[h] = "none" /\ outbox'[h] = << >>
                 /\ Alive(h)' => m'.ctl = h
                 /\ \A i \in 1 .. Len(outbox'[h]) : outbox'[h][i] \in Ends => thread'[h] = "dead"
      <4>1. CASE h = g
        <5>1. life'[h] = "exited" /\ thread'[h] = "dead"
            BY <1>i, <2>6, <4>1 DEF Life
        <5> QED
            BY <2>4, <2>5, <4>1, <5>1 DEF Alive
      <4>2. CASE h # g
        <5>1. life'[h] = life[h] /\ thread'[h] = thread[h] /\ outbox'[h] = outbox[h]
            BY <1>i, <2>6, <4>2 DEF Life
        <5> QED
            BY <1>i, <2>1, <2>4, <4>2, <5>1 DEF Life, Alive
      <4> QED
          BY <4>1, <4>2
    <3> QED
        BY <3>1, <3>2 DEF Life
  <2> QED
      BY <2>4, <2>7
<1>7. ASSUME NEW g \in Gens, expire(g) PROVE m' \in Managers /\ Current(m') /\ Life'
  <2>1. Follows(m, m') /\ m'.ctl = m.ctl
      BY <1>i, <1>7, DegradedOK DEF expire
  <2>2. life[g] # "none" /\ life' = [life EXCEPT ![g] = "degraded"] /\ UNCHANGED <<thread, outbox>>
      BY <1>7 DEF expire
  <2> QED
      BY <2>1, <2>2, ControllerMoves DEF Lives
<1>8. ASSUME NEW g \in Gens, handleMessage(g) PROVE m' \in Managers /\ Current(m') /\ Life'
  <2> DEFINE msg == Head(outbox[g])
  <2>1. outbox[g] # << >> /\ outbox' = [outbox EXCEPT ![g] = Tail(@)] /\ thread' = thread
      BY <1>8 DEF handleMessage
  <2>2. Follows(m, m') /\ m'.ctl = m.ctl
    <3>1. m' \in {m, onReady(m, g), onDegraded(m, g), requestRestart(m)}
        BY <1>8 DEF handleMessage
    <3> QED
        BY <1>i, <1>s, <3>1, ReadyOK, DegradedOK, RequestOK
  <2>3. life' = life \/ \E l \in Lives \ {"none"} : life' = [life EXCEPT ![g] = l]
    <3>1. life[g] \in Lives \ {"none"}
        BY <1>i, <2>1 DEF Life
    <3>2. CASE life[g] \in {"exited", "degraded"}
        BY <1>8, <3>2 DEF handleMessage
    <3>3. CASE life[g] \notin {"exited", "degraded"}
      <4> DEFINE l == CASE msg = "ready" /\ life[g] = "bootstrapping" -> "ready"
                        [] msg = "fatal" -> "degraded"
                        [] OTHER -> life[g]
      <4>1. life' = [life EXCEPT ![g] = l]
          BY <1>8, <3>3 DEF handleMessage
      <4>2. l \in Lives \ {"none"}
          BY <3>1 DEF Lives
      <4> HIDE DEF l
      <4> QED
          BY <4>1, <4>2
    <3> QED
        BY <3>2, <3>3
  <2>4. /\ outbox' \in [Gens -> Seq(Messages)] /\ life[g] # "none"
        /\ \A h \in Gens : outbox[h] = << >> => outbox'[h] = << >>
        /\ \A h \in Gens : \A i \in 1 .. Len(outbox'[h]) : outbox'[h][i] \in Ends => thread[h] = "dead"
      BY <2>1, Taken
  <2>5. life' \in [Gens -> Lives] /\ \A h \in Gens : life'[h] = "none" <=> life[h] = "none"
      BY <1>i, <2>3, <2>4 DEF Life
  <2> QED
      BY <1>i, <2>1, <2>2, <2>4, <2>5 DEF Follows, Life, Alive
<1>9. ASSUME NEW g \in Gens, handleExit(g) PROVE m' \in Managers /\ Current(m') /\ Life'
  <2>1. /\ outbox[g] # << >> /\ outbox' = [outbox EXCEPT ![g] = Tail(@)] /\ thread' = thread
        /\ life' = [life EXCEPT ![g] = "exited"] /\ Head(outbox[g]) \in Ends
      BY <1>9 DEF handleExit, Ends
  <2>2. thread[g] = "dead"
    <3>1. outbox[g] \in Seq(Messages)
        BY <1>i DEF Life
    <3>2. 1 \in 1 .. Len(outbox[g]) /\ outbox[g][1] = Head(outbox[g])
        BY <2>1, <3>1
    <3> QED
        BY <1>i, <2>1, <3>2 DEF Life
  <2>3. Follows(m, m') /\ (m'.ctl = m.ctl \/ (m'.ctl = 0 /\ m.ctl = g))
    <3>1. CASE m' = m
        BY <1>s, <3>1
    <3>2. CASE m' = onEnded(m, g)
        BY <1>i, <3>2, EndedOK
    <3>3. CASE m' = onEnded(onDegraded(m, g), g)
      <4> DEFINE d == onDegraded(m, g)
      <4>1. Follows(m, d) /\ d.ctl = m.ctl
          BY <1>i, DegradedOK
      <4> HIDE DEF d
      <4>2. m' = onEnded(d, g)
          BY <3>3 DEF d
      <4>3. Follows(d, m') /\ m'.ctl = IF d.ctl = g THEN 0 ELSE d.ctl
          BY <4>1, <4>2, EndedOK DEF Follows
      <4> QED
          BY <4>1, <4>3 DEF Follows
    <3> QED
        BY <1>9, <3>1, <3>2, <3>3 DEF handleExit
  <2>4. /\ outbox' \in [Gens -> Seq(Messages)] /\ life[g] # "none"
        /\ \A h \in Gens : outbox[h] = << >> => outbox'[h] = << >>
        /\ \A h \in Gens : \A i \in 1 .. Len(outbox'[h]) : outbox'[h][i] \in Ends => thread[h] = "dead"
      BY <2>1, Taken
  <2>5. life' \in [Gens -> Lives] /\ \A h \in Gens : life'[h] = "none" <=> life[h] = "none"
      BY <1>i, <2>1, <2>4 DEF Life, Lives
  <2> QED
      BY <1>i, <2>1, <2>2, <2>3, <2>4, <2>5 DEF Follows, Life, Alive
<1>10. CASE notifyMetabolismWorkerRuntimeMutation \/ poll \/ pollUnreadable \/ restartMetabolismWorker
  <2>1. m' = requestRestart(m) /\ UNCHANGED <<life, thread, outbox>>
      BY <1>10 DEF notifyMetabolismWorkerRuntimeMutation, poll, pollUnreadable, restartMetabolismWorker
  <2> QED
      BY <1>i, <2>1, RequestOK, ManagerMoves
<1>11. ASSUME m' = m, UNCHANGED <<life, thread, outbox>> PROVE m' \in Managers /\ Current(m') /\ Life'
    BY <1>11, <1>s, ManagerMoves
<1>12. ASSUME NEW g \in Gens, Worker(g) PROVE m' \in Managers /\ Current(m') /\ Life'
  <2>1. CASE stop(g) \/ requestRun(g) \/ commitPrompt(g) \/ passEnds(g)
      BY <1>11, <2>1 DEF stop, requestRun, commitPrompt, passEnds
  <2>2. CASE boot(g)
    <3> DEFINE ms == IF stopping[g] = "no" THEN <<"ready">> ELSE << >>
    <3>1. ms \in Seq(Messages) /\ \A i \in 1 .. Len(ms) : ms[i] \notin Ends
      <4>1. <<"ready">> \in Seq(Messages) /\ \A i \in 1 .. Len(<<"ready">>) : <<"ready">>[i] \notin Ends
          BY DEF Messages, Ends
      <4>2. << >> \in Seq(Messages) /\ Len(<< >>) = 0
          OBVIOUS
      <4>3. CASE stopping[g] = "no"
          BY <4>1, <4>3
      <4>4. CASE stopping[g] # "no"
          BY <4>2, <4>4
      <4> QED
          BY <4>3, <4>4
    <3>2. Alive(g) /\ m' = m /\ life' = life /\ thread' = [thread EXCEPT ![g] = "run"]
          /\ outbox' = [outbox EXCEPT ![g] = @ \o ms]
        BY <2>2 DEF boot, post, Alive
    <3> HIDE DEF ms
    <3> QED
        BY <3>1, <3>2, WorkerMoves DEF Threads
  <2>3. CASE observeLearningRuntimeMutation(g)
    <3> DEFINE ms == <<"invalidated">>
    <3>1. ms \in Seq(Messages) /\ \A i \in 1 .. Len(ms) : ms[i] \notin Ends
        BY DEF Messages, Ends
    <3>2. Alive(g) /\ m' = m /\ life' = life /\ thread' = [thread EXCEPT ![g] = "run"]
          /\ outbox' = [outbox EXCEPT ![g] = @ \o ms]
        BY <1>i, <2>3 DEF observeLearningRuntimeMutation, post, Alive, Life
    <3> HIDE DEF ms
    <3> QED
        BY <3>1, <3>2, WorkerMoves DEF Threads
  <2>4. CASE stopped(g)
    <3> DEFINE ms == <<"stopped">>
    <3>1. ms \in Seq(Messages) /\ \A i \in 1 .. Len(ms) : ms[i] \notin Ends
        BY DEF Messages, Ends
    <3>2. Alive(g) /\ m' = m /\ life' = life /\ thread' = [thread EXCEPT ![g] = "closing"]
          /\ outbox' = [outbox EXCEPT ![g] = @ \o ms]
        BY <2>4 DEF stopped, post, Alive
    <3> HIDE DEF ms
    <3> QED
        BY <3>1, <3>2, WorkerMoves DEF Threads
  <2>5. CASE exits(g)
    <3> DEFINE ms == <<"exit0">>
    <3>1. ms \in Seq(Messages)
        BY DEF Messages
    <3>2. Alive(g) /\ m' = m /\ life' = life /\ thread' = [thread EXCEPT ![g] = "dead"]
          /\ outbox' = [outbox EXCEPT ![g] = @ \o ms]
        BY <2>5 DEF exits, post, Alive
    <3> HIDE DEF ms
    <3> QED
        BY <3>1, <3>2, WorkerMoves DEF Threads
  <2>6. CASE dies(g)
    <3>1. PICK report \in {<<"fatal">>, << >>} : outbox' = [outbox EXCEPT ![g] = @ \o (report \o <<"exit1">>)]
        BY <2>6 DEF dies, post
    <3> DEFINE ms == report \o <<"exit1">>
    <3>2. ms \in Seq(Messages)
      <4>1. <<"fatal">> \in Seq(Messages) /\ << >> \in Seq(Messages) /\ <<"exit1">> \in Seq(Messages)
          BY DEF Messages
      <4>2. report \in Seq(Messages)
          BY <3>1, <4>1
      <4> QED
          BY <4>1, <4>2
    <3>3. Alive(g) /\ m' = m /\ life' = life /\ thread' = [thread EXCEPT ![g] = "dead"]
          /\ outbox' = [outbox EXCEPT ![g] = @ \o ms]
        BY <2>6, <3>1 DEF dies
    <3> HIDE DEF ms
    <3> QED
        BY <3>2, <3>3, WorkerMoves DEF Threads
  <2> QED
      BY <1>12, <2>1, <2>2, <2>3, <2>4, <2>5, <2>6 DEF Worker
<1>13. CASE mutationFails \/ ExternalEdit \/ pollFails
    BY <1>11, <1>13 DEF mutationFails, ExternalEdit, pollFails
<1>14. CASE UNCHANGED vars
    BY <1>11, <1>14 DEF vars
<1> QED
    BY <1>1, <1>2, <1>3, <1>4, <1>5, <1>6, <1>7, <1>8, <1>9, <1>10, <1>12, <1>13, <1>14
    DEF Next, Manager, Controller

\* Every step keeps the fence: a snapshot whose revision is in the row is as new
\* as the last invalidation.
LEMMA StepOfFences ==
  ASSUME IInv, [Next]_vars PROVE Fences'
<1> USE DEF worker, world, edits
<1>1. CASE /\ UNCHANGED <<config, files, fenced, revision, snap, prompt>>
           /\ seen' \in {seen, config} /\ dropped' \in {dropped, config, 0}
    BY <1>1 DEF IInv, Fences
<1>2. CASE buildBootstrap
  <2>1. CASE UNCHANGED <<revision, snap>>
      BY <1>1, <1>2, <2>1 DEF buildBootstrap
  <2>2. CASE revision' = nextGeneration /\ snap' = [snap EXCEPT ![nextGeneration] = config]
    <3>1. UNCHANGED <<config, files, seen, fenced, dropped, prompt>>
        BY <1>2 DEF buildBootstrap
    <3>2. snap' \in [Gens -> Nat] /\ \A g \in Gens : revision' = g => snap'[g] = config
        BY <2>2 DEF IInv, Fences
    <3> QED
        BY <3>1, <3>2 DEF IInv, Fences
  <2> QED
      BY <1>2, <2>1, <2>2 DEF buildBootstrap
<1>3. CASE notifyMetabolismWorkerRuntimeMutation \/ mutationFails \/ poll \/ pollUnreadable
  <2>1. /\ config' \in {config, config + 1} /\ files' \in {files, config'}
        /\ seen' \in {seen, config'} /\ dropped' \in {0, config'}
        /\ \/ fenced' = config' /\ revision' = Invalid
           \/ UNCHANGED <<fenced, revision>>
        /\ UNCHANGED <<snap, prompt>>
      BY <1>3 DEF notifyMetabolismWorkerRuntimeMutation, mutationFails, mutated, poll, pollUnreadable
  <2> QED
      BY <2>1, GenNumbers DEF IInv, Fences, Invalid
<1>4. ASSUME NEW g \in Gens, commitPrompt(g) PROVE Fences'
  <2>1. /\ revision = g /\ prompt' = [built |-> snap[g], fenced |-> fenced]
        /\ UNCHANGED <<config, files, seen, fenced, dropped, revision, snap>>
      BY <1>4 DEF commitPrompt
  <2> QED
      BY <2>1 DEF IInv, Fences
<1>5. CASE config' = config + 1 /\ files' = config' /\ UNCHANGED <<seen, fenced, dropped, revision, snap, prompt>>
    BY <1>5 DEF IInv, Fences
<1>6. ASSUME NEW g \in Gens, Controller(g) \/ expire(g) PROVE Fences'
    BY <1>1, <1>6 DEF Controller, expire, handleMessage, handleExit, forceTerminate
<1>7. ASSUME NEW g \in Gens, Worker(g) PROVE Fences'
  <2>1. CASE observeLearningRuntimeMutation(g)
      BY <1>5, <2>1 DEF observeLearningRuntimeMutation
  <2>2. CASE commitPrompt(g)
      BY <1>4, <2>2
  <2> QED
      BY <1>1, <1>7, <2>1, <2>2 DEF Worker, boot, stop, requestRun, passEnds, stopped, exits, dies
<1>8. CASE \/ startNextGeneration \/ restartCurrentGeneration \/ shutdownJoins \/ shutdown
           \/ pollFails \/ restartMetabolismWorker
    BY <1>1, <1>8 DEF startNextGeneration, restartCurrentGeneration, shutdownJoins, shutdown, pollFails,
       restartMetabolismWorker
<1>9. CASE ExternalEdit
    BY <1>5, <1>9 DEF ExternalEdit
<1>10. CASE UNCHANGED vars
    BY <1>1, <1>10 DEF vars
<1> QED
    BY <1>2, <1>3, <1>6, <1>7, <1>8, <1>9, <1>10 DEF Next, Manager

-----------------------------------------------------------------------------
(* How many generations there can be.  Every edit asks for two restarts at *)
(* most, one by the poll and one by the worker's own report, and every     *)
(* restart that was asked for builds at most one generation.               *)

\* The reports under way in a queue, by their place
Reports(q) == {i \in 1 .. Len(q) : q[i] = "invalidated"}

\* A generation is built for the start or for a restart that was asked for
Counted(s) ==
  /\ s.ctl <= s.want + 1 /\ s.generation <= s.want + 1
  /\ s.starting => s.generation = 0
  /\ s.restart # "no" => s.target # 0 /\ s.generation <= s.target /\ s.target <= s.want

\* Only the current controller has messages under way, an exit is the last
Tidy ==
  \A g \in Gens :
    /\ Alive(g) \/ outbox[g] # << >> => m.ctl = g /\ life[g] # "exited"
    /\ \A i \in 1 .. Len(outbox[g]) : outbox[g][i] \in Ends => i = Len(outbox[g])

\* The restarts asked for, and those that the reports under way will ask for
Budget ==
  /\ config <= MaxEdits
  /\ \A g \in Gens : /\ Cardinality(Reports(outbox[g])) <= config
                     /\ m.want + Cardinality(Reports(outbox[g])) <= config + seen + MaxRequests

\* What the other invariants leave of the types
Rest ==
  /\ settled \in [Gens -> BOOLEAN] /\ busy \in [Gens -> BOOLEAN]
  /\ stopping \in [Gens -> {"no", "restart", "shutdown"}]
  /\ inbox \in [Gens -> SUBSET {"restart", "shutdown"}]
  /\ revision \in Gens \cup {Invalid}
  /\ snap \in [Gens -> 0 .. MaxEdits]
  /\ prompt \in [built: 0 .. MaxEdits, fenced: 0 .. MaxEdits]

CInv == Tidy /\ Counted(m) /\ Budget /\ Rest

\* The reports of a queue can be counted.
LEMMA ReportsFinite ==
  ASSUME NEW q \in Seq(Messages)
  PROVE  IsFiniteSet(Reports(q)) /\ Cardinality(Reports(q)) \in Nat
<1>1. Len(q) \in Nat /\ IsFiniteSet(1 .. Len(q))
    BY FS_Interval
<1>2. Reports(q) \subseteq 1 .. Len(q)
    BY DEF Reports
<1> QED
    BY <1>1, <1>2, FS_Subset, FS_CardinalityType

\* Taking a message leaves the other reports, and one less if it was a report.
LEMMA ReportsTaken ==
  ASSUME NEW q \in Seq(Messages), q # << >>
  PROVE  Cardinality(Reports(Tail(q))) <=
           IF Head(q) = "invalidated" THEN Cardinality(Reports(q)) - 1 ELSE Cardinality(Reports(q))
<1> DEFINE t == Tail(q)
           f == [i \in Reports(t) |-> i + 1]
<1>1. /\ t \in Seq(Messages) /\ Len(q) \in Nat /\ Len(q) > 0 /\ Len(t) = Len(q) - 1
      /\ \A i \in 1 .. Len(t) : t[i] = q[i + 1]
      /\ Head(q) = q[1]
    OBVIOUS
<1>2. \A i \in Reports(t) : i \in Nat /\ i # 0 /\ i + 1 \in Reports(q)
  <2> SUFFICES ASSUME NEW i \in Reports(t) PROVE i \in Nat /\ i # 0 /\ i + 1 \in Reports(q)
      OBVIOUS
  <2>1. i \in 1 .. Len(t) /\ t[i] = "invalidated"
      BY DEF Reports
  <2>2. i + 1 \in 1 .. Len(q) /\ q[i + 1] = "invalidated"
      BY <1>1, <2>1
  <2> QED
      BY <1>1, <2>1, <2>2 DEF Reports
<1> HIDE DEF t
<1>3. f \in Injection(Reports(t), Reports(q) \ {1})
  <2>1. f \in [Reports(t) -> Reports(q) \ {1}]
      BY <1>2
  <2>2. \A i, j \in Reports(t) : f[i] = f[j] => i = j
      BY <1>2
  <2> QED
      BY <2>1, <2>2 DEF Injection, IsInjective
<1> HIDE DEF f
<1>4. IsFiniteSet(Reports(q)) /\ Cardinality(Reports(q)) \in Nat
    BY ReportsFinite
<1>5. IsFiniteSet(Reports(q) \ {1}) /\ Cardinality(Reports(q) \ {1}) =
        IF 1 \in Reports(q) THEN Cardinality(Reports(q)) - 1 ELSE Cardinality(Reports(q))
    BY <1>4, FS_RemoveElement
<1>6. Cardinality(Reports(t)) <= Cardinality(Reports(q) \ {1})
    BY <1>3, <1>5, FS_Injection
<1>7. 1 \in Reports(q) <=> Head(q) = "invalidated"
    BY <1>1 DEF Reports
<1> QED
    BY <1>4, <1>5, <1>6, <1>7 DEF t

\* A message that is no report adds none, a report adds one.
LEMMA ReportsPosted ==
  ASSUME NEW q \in Seq(Messages), NEW ms \in Seq(Messages)
  PROVE  /\ (\A i \in 1 .. Len(ms) : ms[i] # "invalidated") => Reports(q \o ms) = Reports(q)
         /\ Len(ms) = 1 => Cardinality(Reports(q \o ms)) <= Cardinality(Reports(q)) + 1
<1>1. /\ q \o ms \in Seq(Messages) /\ Len(q) \in Nat /\ Len(ms) \in Nat /\ Len(q \o ms) = Len(q) + Len(ms)
      /\ \A i \in 1 .. Len(q) : (q \o ms)[i] = q[i]
      /\ \A i \in 1 .. Len(q) + Len(ms) : i > Len(q) => (q \o ms)[i] = ms[i - Len(q)]
    OBVIOUS
<1>2. IsFiniteSet(Reports(q)) /\ Cardinality(Reports(q)) \in Nat
    BY ReportsFinite
<1>3. ASSUME \A i \in 1 .. Len(ms) : ms[i] # "invalidated"
      PROVE  Reports(q \o ms) = Reports(q)
  <2>1. ASSUME NEW i \in 1 .. Len(q) + Len(ms), i > Len(q) PROVE (q \o ms)[i] # "invalidated"
    <3>1. i - Len(q) \in 1 .. Len(ms)
        BY <1>1, <2>1
    <3> QED
        BY <1>1, <1>3, <2>1, <3>1
  <2> QED
      BY <1>1, <2>1 DEF Reports
<1>4. ASSUME Len(ms) = 1
      PROVE  Cardinality(Reports(q \o ms)) <= Cardinality(Reports(q)) + 1
  <2> DEFINE n == Len(q) + 1
  <2>1. Reports(q \o ms) \subseteq Reports(q) \cup {n}
      BY <1>1, <1>4 DEF Reports
  <2> HIDE DEF n
  <2>2. IsFiniteSet(Reports(q) \cup {n}) /\ Cardinality(Reports(q) \cup {n}) <= Cardinality(Reports(q)) + 1
    <3>1. /\ IsFiniteSet(Reports(q) \cup {n})
          /\ Cardinality(Reports(q) \cup {n}) =
               IF n \in Reports(q) THEN Cardinality(Reports(q)) ELSE Cardinality(Reports(q)) + 1
        BY <1>2, FS_AddElement, Zenon
    <3> QED
        BY <1>2, <3>1
  <2>3. /\ Cardinality(Reports(q \o ms)) <= Cardinality(Reports(q) \cup {n})
        /\ Cardinality(Reports(q) \cup {n}) \in Nat
      BY <2>1, <2>2, FS_Subset, FS_CardinalityType
  <2>4. Cardinality(Reports(q \o ms)) \in Nat
      BY <1>1, ReportsFinite
  <2> QED
      BY <1>2, <2>2, <2>3, <2>4
<1> QED
    BY <1>3, <1>4

\* A request adds one to the restarts asked for.
LEMMA RequestCounted ==
  ASSUME NEW s \in Managers, Counted(s), NEW t, t = requestRestart(s)
  PROVE  Counted(t) /\ t.want \in {s.want, s.want + 1}
<1>1. CASE s.stopped \/ s.degraded
    BY <1>1 DEF requestRestart
<1>2. CASE ~(s.stopped \/ s.degraded)
  <2> DEFINE w == s.want + 1
  <2>1. w \in Nat /\ w = s.want + 1 /\ s.want \in Nat /\ s.target \in Nat /\ s.generation \in Nat /\ s.ctl \in Nat
      BY DEF Managers
  <2> HIDE DEF w
  <2>2. t = [s EXCEPT !.want = w, !.restart = IF s.restart = "no" THEN "wait" ELSE s.restart,
                      !.target = IF s.restart = "no" THEN w ELSE s.target]
      BY <1>2, <2>1 DEF requestRestart, Managers
  <2>3. /\ t.ctl = s.ctl /\ t.generation = s.generation /\ t.starting = s.starting /\ t.want = w
        /\ t.target = IF s.restart = "no" THEN w ELSE s.target
      BY <2>2 DEF Managers
  <2> QED
      BY <2>1, <2>3 DEF Counted
<1> QED
    BY <1>1, <1>2

\* A controller that degrades asks for nothing.
LEMMA DegradedCounted ==
  ASSUME NEW s \in Managers, Counted(s), NEW g \in Gens, NEW t, t = onDegraded(s, g)
  PROVE  Counted(t) /\ t.want = s.want
<1>1. \/ t = s
      \/ /\ t.ctl = s.ctl /\ t.generation = s.generation /\ t.starting = s.starting
         /\ t.want = s.want /\ t.target = s.target /\ t.restart \in {s.restart, "no"}
    BY DEF onDegraded, Managers
<1> QED
    BY <1>1 DEF Counted

\* A generation that is ready is the first one or the one a restart asked for.
LEMMA ReadyCounted ==
  ASSUME NEW s \in Managers, Current(s), Counted(s), NEW g \in Gens, NEW t, t = onReady(s, g)
  PROVE  Counted(t) /\ t.want = s.want
<1>1. CASE s.ctl # g \/ s.spawn # "await"
    BY <1>1 DEF onReady
<1>2. CASE s.ctl = g /\ s.spawn = "await"
  <2>1. /\ s.want \in Nat /\ s.target \in Nat /\ s.generation \in Nat /\ s.ctl \in Nat
        /\ g \in Nat /\ g = s.generation + 1
      BY <1>2 DEF Current, Managers
  <2>2. s.starting \/ s.restart = "spawn"
      BY <1>2 DEF Current
  <2>3. /\ t.ctl = s.ctl /\ t.generation = g /\ ~t.starting /\ t.want = s.want
        /\ \/ s.restart # "spawn" /\ t.restart = s.restart /\ t.target = s.target
           \/ t.restart = "no"
           \/ s.restart = "spawn" /\ s.target # s.want /\ t.target = s.want
    <3> DEFINE u == [s EXCEPT !.spawn = "no", !.starting = FALSE, !.generation = g]
    <3>1. /\ u.ctl = s.ctl /\ ~u.starting /\ u.generation = g /\ u.want = s.want
          /\ u.restart = s.restart /\ u.target = s.target
        BY <2>1 DEF Managers
    <3>2. t = IF s.restart # "spawn" THEN u
              ELSE IF s.target = s.want \/ s.stopped THEN [u EXCEPT !.restart = "no"]
              ELSE [u EXCEPT !.restart = "wait", !.target = s.want]
        BY <1>2 DEF onReady
    <3>3. u \in Managers
        BY <2>1 DEF Managers
    <3> HIDE DEF u
    <3> QED
        BY <3>1, <3>2, <3>3 DEF Managers
  <2> QED
      BY <2>1, <2>2, <2>3 DEF Counted
<1> QED
    BY <1>1, <1>2

\* A controller that ends asks for nothing.
LEMMA EndedCounted ==
  ASSUME NEW s \in Managers, Counted(s), NEW g \in Gens, NEW t, t = onEnded(s, g)
  PROVE  Counted(t) /\ t.want = s.want
<1> DEFINE q == IF s.quit \in {"end", "kill"} THEN "join" ELSE s.quit
           u == [s EXCEPT !.ctl = 0, !.quit = q]
<1>1. CASE s.ctl # g
    BY <1>1 DEF onEnded
<1>2. CASE s.ctl = g
  <2>1. u \in Managers /\ u.ctl = 0 /\ u.generation = s.generation /\ u.starting = s.starting
        /\ u.want = s.want /\ u.target = s.target /\ u.restart = s.restart
      BY DEF Managers
  <2>2. \/ t = failed(u) \/ t = [u EXCEPT !.restart = "no"] \/ t = u
        \/ s.restart = "drain" /\ t = [u EXCEPT !.restart = "spawn", !.spawn = "build"]
      BY <1>2 DEF onEnded
  <2> HIDE DEF u
  <2>3. /\ t.ctl = 0 /\ t.generation = s.generation /\ (t.starting => s.starting)
        /\ t.want = s.want /\ t.target = s.target
        /\ t.restart # "no" => s.restart # "no"
    <3>1. CASE t = failed(u)
      <4>1. t = [u EXCEPT !.starting = FALSE, !.restart = "no", !.spawn = "no", !.degraded = TRUE]
          BY <3>1 DEF failed
      <4> QED
          BY <2>1, <4>1 DEF Managers
    <3>2. CASE t = [u EXCEPT !.restart = "no"]
        BY <2>1, <3>2 DEF Managers
    <3>3. CASE t = u
        BY <2>1, <3>3
    <3>4. CASE s.restart = "drain" /\ t = [u EXCEPT !.restart = "spawn", !.spawn = "build"]
        BY <2>1, <3>4 DEF Managers
    <3> QED
        BY <2>2, <3>1, <3>2, <3>3, <3>4
  <2>4. s.want \in Nat
      BY DEF Managers
  <2> QED
      BY <2>3, <2>4 DEF Counted
<1> QED
    BY <1>1, <1>2

\* Every step keeps the budget: what adds a report or asks for a restart is an
\* edit, an acknowledgement, a request of the operator or a report taken.
LEMMA StepOfBudget ==
  ASSUME IInv, CInv, IInv', [Next]_vars PROVE Counted(m') /\ Budget'
<1> USE DEF worker, world, edits
<1> DEFINE N(g) == Cardinality(Reports(outbox[g]))
           Within == \A g \in Gens : N(g) <= config /\ m.want + N(g) <= config + seen + MaxRequests
           Goal == Counted(m') /\ config' <= MaxEdits /\ Within'
<1>0. m \in Managers /\ m' \in Managers /\ Current(m) /\ Counted(m) /\ Tidy
    BY DEF IInv, CInv
<1>1. /\ m.want \in Nat /\ m'.want \in Nat /\ MaxEdits \in Nat /\ MaxRequests \in Nat
      /\ config \in Nat /\ seen \in Nat /\ config' \in Nat /\ seen' \in Nat
      /\ config <= MaxEdits /\ seen <= config
  <2>1. m.want \in Nat /\ m'.want \in Nat
      BY <1>0 DEF Managers
  <2> QED
      BY <2>1, BoundsAssumption DEF IInv, CInv, Budget, Fences
<1>2. outbox \in [Gens -> Seq(Messages)] /\ outbox' \in [Gens -> Seq(Messages)]
    BY DEF IInv, Life
<1>3. \A g \in Gens : N(g) \in Nat /\ N(g)' \in Nat
    BY <1>2, ReportsFinite
<1>4. Within
    BY DEF CInv, Budget
<1> SUFFICES Goal
    BY DEF Budget
<1>6. UNCHANGED outbox => \A g \in Gens : N(g)' = N(g)
    OBVIOUS
<1>t. ASSUME NEW g \in Gens, outbox[g] # << >>, outbox' = [outbox EXCEPT ![g] = Tail(@)]
      PROVE  /\ \A h \in Gens : N(h)' <= N(h)
             /\ Head(outbox[g]) = "invalidated" => N(g)' <= N(g) - 1
  <2>1. \A h \in Gens : outbox'[h] = IF h = g THEN Tail(outbox[g]) ELSE outbox[h]
      BY <1>2, <1>t
  <2>2. N(g)' <= IF Head(outbox[g]) = "invalidated" THEN N(g) - 1 ELSE N(g)
      BY <1>2, <1>t, <2>1, ReportsTaken
  <2>3. \A h \in Gens : h # g => N(h)' = N(h)
      BY <2>1
  <2> HIDE DEF N
  <2> QED
      BY <1>3, <2>2, <2>3
<1>e. \A g \in Gens : outbox[g] = << >> => N(g) = 0
  <2>1. Reports(<< >>) = {}
      BY DEF Reports
  <2> QED
      BY <2>1, FS_EmptySet
<1> HIDE DEF N
<1>5. ASSUME UNCHANGED <<config, seen>>, \A g \in Gens : N(g)' <= N(g), Counted(m'), m'.want = m.want
      PROVE  Goal
    BY <1>1, <1>3, <1>4, <1>5
<1>7. ASSUME UNCHANGED <<config, seen, outbox>>, Counted(m'), m'.want = m.want
      PROVE  Goal
    BY <1>3, <1>5, <1>6, <1>7
<1>8. CASE buildBootstrap
  <2>1. m.spawn = "build" /\ UNCHANGED <<config, seen, outbox>>
      BY <1>8 DEF buildBootstrap
  <2>2. m' = [m EXCEPT !.spawn = "no", !.starting = FALSE, !.restart = "no"]
        \/ m' = [m EXCEPT !.spawn = "built"]
        \/ m' = [m EXCEPT !.starting = FALSE, !.restart = "no", !.spawn = "no", !.degraded = TRUE]
      BY <1>8 DEF buildBootstrap, abandoned, failed
  <2>3. /\ m'.ctl = m.ctl /\ m'.generation = m.generation /\ m'.want = m.want /\ m'.target = m.target
        /\ m'.starting \in {m.starting, FALSE} /\ m'.restart \in {m.restart, "no"}
      BY <1>0, <2>2 DEF Managers
  <2> QED
      BY <1>0, <1>7, <2>1, <2>3 DEF Counted
<1>9. CASE startNextGeneration
  <2>1. m.spawn = "built" /\ UNCHANGED <<config, seen, outbox>>
      BY <1>9 DEF startNextGeneration
  <2>2. CASE m' = abandoned(m)
    <3>1. /\ m'.ctl = m.ctl /\ m'.generation = m.generation /\ m'.want = m.want /\ m'.target = m.target
          /\ ~m'.starting /\ m'.restart = "no"
        BY <1>0, <2>2 DEF Managers, abandoned
    <3> QED
        BY <1>0, <1>7, <2>1, <3>1 DEF Counted
  <2>3. CASE m' = [m EXCEPT !.spawn = "await", !.ctl = nextGeneration]
    <3>1. /\ m'.ctl = m.generation + 1 /\ m'.generation = m.generation /\ m'.want = m.want
          /\ m'.target = m.target /\ m'.starting = m.starting /\ m'.restart = m.restart
        BY <1>0, <2>3 DEF Managers, nextGeneration
    <3>2. /\ m.starting \/ m.restart = "spawn"
          /\ m.generation \in Nat /\ m.target \in Nat
        BY <1>0, <2>1 DEF Current, Managers
    <3> QED
        BY <1>0, <1>1, <1>7, <2>1, <3>1, <3>2 DEF Counted
  <2> QED
      BY <1>9, <2>2, <2>3 DEF startNextGeneration
<1>10. CASE restartCurrentGeneration
  <2>1. m.restart = "wait" /\ UNCHANGED <<config, seen, outbox>>
      BY <1>10 DEF restartCurrentGeneration
  <2>2. /\ m'.ctl = m.ctl /\ m'.generation = m.generation /\ m'.want = m.want
        /\ m'.target = m.target /\ m'.starting = m.starting
      BY <1>0, <1>10 DEF Managers, restartCurrentGeneration
  <2> QED
      BY <1>0, <1>7, <2>1, <2>2 DEF Counted
<1>11. CASE shutdown \/ shutdownJoins
  <2>1. UNCHANGED <<config, seen, outbox>>
      BY <1>11 DEF shutdown, shutdownJoins
  <2>2. /\ m'.ctl = m.ctl /\ m'.generation = m.generation /\ m'.want = m.want /\ m'.target = m.target
        /\ m'.starting = m.starting /\ m'.restart = m.restart
      BY <1>0, <1>11 DEF Managers, shutdown, shutdownJoins
  <2> QED
      BY <1>0, <1>7, <2>1, <2>2 DEF Counted
<1>12. ASSUME NEW g \in Gens, forceTerminate(g) PROVE Goal
  <2> DEFINE d == onDegraded(m, g)
  <2>1. Follows(m, d) /\ Counted(d) /\ d.want = m.want
      BY <1>0, DegradedOK, DegradedCounted
  <2>2. m' = onEnded(d, g) /\ outbox' = [outbox EXCEPT ![g] = << >>] /\ UNCHANGED <<config, seen>>
      BY <1>12 DEF forceTerminate
  <2> HIDE DEF d
  <2>3. Counted(m') /\ m'.want = m.want
      BY <2>1, <2>2, EndedCounted DEF Follows
  <2>4. N(g)' = 0 /\ \A h \in Gens : h # g => N(h)' = N(h)
    <3>1. Reports(<< >>) = {}
        BY DEF Reports
    <3> QED
        BY <1>2, <2>2, <3>1, FS_EmptySet DEF N
  <2>5. \A h \in Gens : N(h)' <= N(h)
      BY <1>3, <2>4
  <2> QED
      BY <1>5, <2>2, <2>3, <2>5
<1>13. ASSUME NEW g \in Gens, expire(g) PROVE Goal
  <2>1. UNCHANGED <<config, seen, outbox>> /\ m' = onDegraded(m, g)
      BY <1>13 DEF expire
  <2> QED
      BY <1>0, <1>7, <2>1, DegradedCounted
<1>14. ASSUME NEW g \in Gens, handleMessage(g) PROVE Goal
  <2>1. /\ outbox[g] # << >> /\ outbox' = [outbox EXCEPT ![g] = Tail(@)] /\ config' = config
        /\ \/ m' \in {m, onReady(m, g), onDegraded(m, g)} /\ seen' = seen
           \/ /\ Head(outbox[g]) = "invalidated" /\ m.ctl = g
              /\ m' = requestRestart(m) /\ seen' \in {config, seen}
      BY <1>14 DEF handleMessage
  <2>2. CASE m' \in {m, onReady(m, g), onDegraded(m, g)} /\ seen' = seen
    <3>1. Counted(m') /\ m'.want = m.want
        BY <1>0, <2>2, ReadyCounted, DegradedCounted
    <3> QED
        BY <1>5, <1>t, <2>1, <2>2, <3>1
  <2>3. CASE /\ Head(outbox[g]) = "invalidated" /\ m.ctl = g
             /\ m' = requestRestart(m) /\ seen' \in {config, seen}
    <3>1. Counted(m') /\ m'.want \in {m.want, m.want + 1}
        BY <1>0, <2>3, RequestCounted
    <3>2. N(g)' <= N(g) - 1 /\ \A h \in Gens : N(h)' <= N(h)
        BY <1>t, <2>1, <2>3
    <3>3. \A h \in Gens : h # g => N(h) = 0
      <4>1. \A h \in Gens : h # g => outbox[h] = << >>
          BY <1>0, <2>3 DEF Tidy
      <4> QED
          BY <1>e, <4>1
    <3>4. m.want + N(g) <= config + seen + MaxRequests /\ N(g) \in Nat /\ N(g)' \in Nat
        BY <1>3, <1>4
    <3>6. seen <= seen'
        BY <1>1, <2>3
    <3>5. ASSUME NEW h \in Gens
          PROVE  N(h)' <= config /\ m'.want + N(h)' <= config + seen' + MaxRequests
      <4>1. N(h) \in Nat /\ N(h)' \in Nat /\ N(h) <= config
          BY <1>3, <1>4
      <4>2. CASE h = g
          BY <1>1, <3>1, <3>2, <3>4, <3>6, <4>1, <4>2
      <4>3. CASE h # g
        <5>1. N(h)' = 0
            BY <3>2, <3>3, <4>1, <4>3
        <5> QED
            BY <1>1, <3>1, <3>2, <3>4, <3>6, <5>1
      <4> QED
          BY <4>2, <4>3
    <3> QED
        BY <1>1, <2>1, <2>3, <3>1, <3>5
  <2> QED
      BY <2>1, <2>2, <2>3
<1>15. ASSUME NEW g \in Gens, handleExit(g) PROVE Goal
  <2>1. /\ outbox[g] # << >> /\ outbox' = [outbox EXCEPT ![g] = Tail(@)] /\ UNCHANGED <<config, seen>>
        /\ m' \in {m, onEnded(m, g), onEnded(onDegraded(m, g), g)}
      BY <1>15 DEF handleExit
  <2> DEFINE d == onDegraded(m, g)
  <2>2. Follows(m, d) /\ Counted(d) /\ d.want = m.want
      BY <1>0, DegradedOK, DegradedCounted
  <2>3. m' \in {m, onEnded(m, g), onEnded(d, g)}
      BY <2>1
  <2> HIDE DEF d
  <2>4. Counted(m') /\ m'.want = m.want
      BY <1>0, <2>2, <2>3, EndedCounted DEF Follows
  <2> QED
      BY <1>5, <1>t, <2>1, <2>4
<1>16. CASE m' = requestRestart(m) /\ outbox' = outbox /\ config' \in {config, config + 1} /\ config' <= MaxEdits
            /\ \/ m.want < MaxRequests /\ seen' = seen
               \/ seen' = config' /\ seen # config'
  <2>1. Counted(m') /\ m'.want \in {m.want, m.want + 1}
      BY <1>0, <1>16, RequestCounted
  <2>2. \A g \in Gens : N(g)' = N(g) /\ N(g) \in Nat
      BY <1>3, <1>6, <1>16
  <2>3. CASE seen' = config' /\ seen # config'
    <3>1. ASSUME NEW g \in Gens PROVE N(g)' <= config' /\ m'.want + N(g)' <= config' + seen' + MaxRequests
      <4>1. N(g)' = N(g) /\ N(g) \in Nat /\ N(g) <= config /\ m.want + N(g) <= config + seen + MaxRequests
          BY <1>4, <2>2
      <4>2. seen + 1 <= seen' /\ config <= config'
          BY <1>1, <1>16, <2>3
      <4> QED
          BY <1>1, <2>1, <4>1, <4>2
    <3> QED
        BY <1>16, <2>1, <3>1
  <2>4. CASE m.want < MaxRequests /\ seen' = seen
    <3>1. ASSUME NEW g \in Gens PROVE N(g)' <= config' /\ m'.want + N(g)' <= config' + seen' + MaxRequests
      <4>1. N(g)' = N(g) /\ N(g) \in Nat /\ N(g) <= config /\ m.want + N(g) <= config + seen + MaxRequests
          BY <1>4, <2>2
      <4>2. config <= config'
          BY <1>1, <1>16
      <4> QED
          BY <1>1, <2>1, <2>4, <4>1, <4>2
    <3> QED
        BY <1>16, <2>1, <3>1
  <2> QED
      BY <1>16, <2>3, <2>4
<1>17. CASE notifyMetabolismWorkerRuntimeMutation \/ poll \/ pollUnreadable \/ restartMetabolismWorker
  <2>1. CASE notifyMetabolismWorkerRuntimeMutation
    <3>1. /\ config < MaxEdits /\ config' = config + 1 /\ seen' = config' /\ m' = requestRestart(m)
          /\ outbox' = outbox
        BY <2>1 DEF notifyMetabolismWorkerRuntimeMutation, mutated
    <3>2. config' <= MaxEdits /\ seen # config'
        BY <1>1, <3>1
    <3> QED
        BY <1>16, <3>1, <3>2
  <2>2. CASE poll
    <3>1. /\ m' = requestRestart(m) /\ UNCHANGED <<config, outbox>>
          /\ seen' = config /\ seen < files /\ files \in Nat /\ files <= config
        BY <2>2 DEF poll, IInv, Fences
    <3> QED
        BY <1>1, <1>16, <3>1
  <2>3. CASE pollUnreadable \/ restartMetabolismWorker
    <3>1. m' = requestRestart(m) /\ m.want < MaxRequests /\ UNCHANGED <<config, seen, outbox>>
        BY <2>3 DEF pollUnreadable, restartMetabolismWorker
    <3> QED
        BY <1>1, <1>16, <3>1
  <2> QED
      BY <1>17, <2>1, <2>2, <2>3
<1>18. CASE mutationFails \/ ExternalEdit
  <2>1. config' = config + 1 /\ config < MaxEdits /\ seen' = seen /\ m' = m /\ outbox' = outbox
      BY <1>18 DEF mutationFails, mutated, ExternalEdit
  <2>2. \A g \in Gens : N(g)' = N(g) /\ N(g) \in Nat
      BY <1>3, <1>6, <2>1
  <2> QED
      BY <1>0, <1>1, <1>4, <2>1, <2>2
<1>19. ASSUME NEW g \in Gens, observeLearningRuntimeMutation(g) PROVE Goal
  <2>1. /\ config' = config + 1 /\ config < MaxEdits /\ seen' = seen /\ m' = m
        /\ outbox' = [outbox EXCEPT ![g] = @ \o <<"invalidated">>]
      BY <1>19 DEF observeLearningRuntimeMutation, post
  <2>2. \A h \in Gens : N(h)' <= N(h) + 1
    <3>1. outbox[g] \in Seq(Messages) /\ <<"invalidated">> \in Seq(Messages) /\ Len(<<"invalidated">>) = 1
        BY <1>2 DEF Messages
    <3>2. Cardinality(Reports(outbox[g] \o <<"invalidated">>)) <= Cardinality(Reports(outbox[g])) + 1
        BY <3>1, ReportsPosted
    <3>3. N(g)' <= N(g) + 1
        BY <1>2, <2>1, <3>2 DEF N
    <3>4. \A h \in Gens : h # g => N(h)' = N(h)
        BY <1>2, <2>1 DEF N
    <3> QED
        BY <1>3, <3>3, <3>4
  <2>3. ASSUME NEW h \in Gens PROVE N(h)' <= config' /\ m'.want + N(h)' <= config' + seen' + MaxRequests
    <3>1. N(h) \in Nat /\ N(h)' \in Nat /\ N(h)' <= N(h) + 1 /\ N(h) <= config
          /\ m.want + N(h) <= config + seen + MaxRequests
        BY <1>3, <1>4, <2>2
    <3> QED
        BY <1>1, <2>1, <3>1
  <2> QED
      BY <1>0, <1>1, <2>1, <2>3
<1>20. ASSUME NEW g \in Gens, NEW ms \in Seq(Messages), \A i \in 1 .. Len(ms) : ms[i] # "invalidated",
              outbox' = [outbox EXCEPT ![g] = @ \o ms], UNCHANGED <<m, config, seen>>
       PROVE  Goal
  <2>1. outbox[g] \in Seq(Messages) /\ Reports(outbox[g] \o ms) = Reports(outbox[g])
      BY <1>2, <1>20, ReportsPosted
  <2>2. \A h \in Gens : N(h)' = N(h)
      BY <1>2, <1>20, <2>1 DEF N
  <2>3. \A h \in Gens : N(h)' <= N(h)
      BY <1>3, <2>2
  <2> QED
      BY <1>0, <1>5, <1>20, <2>3
<1>21. ASSUME NEW g \in Gens, Worker(g) PROVE Goal
  <2>1. CASE stop(g) \/ requestRun(g) \/ commitPrompt(g) \/ passEnds(g)
      BY <1>0, <1>7, <2>1 DEF stop, requestRun, commitPrompt, passEnds
  <2>2. CASE boot(g) \/ stopped(g) \/ exits(g) \/ dies(g)
    <3>1. /\ << >> \in Seq(Messages) /\ Len(<< >>) = 0
          /\ \A x \in Messages \ {"invalidated"} :
               <<x>> \in Seq(Messages) /\ \A i \in 1 .. Len(<<x>>) : <<x>>[i] # "invalidated"
        OBVIOUS
    <3>2. << >> \o <<"exit1">> = <<"exit1">>
      <4>1. \A q \in Seq(Messages) : << >> \o q = q
          OBVIOUS
      <4>2. <<"exit1">> \in Seq(Messages)
          BY DEF Messages
      <4> QED
          BY <4>1, <4>2
    <3> DEFINE report == <<"fatal">> \o <<"exit1">>
    <3>3. report \in Seq(Messages) /\ \A i \in 1 .. Len(report) : report[i] # "invalidated"
      <4>1. <<"fatal">> \in Seq(Messages) /\ <<"exit1">> \in Seq(Messages)
          BY DEF Messages
      <4>2. Len(report) = 2 /\ report[1] = "fatal" /\ report[2] = "exit1"
          BY <4>1
      <4>3. report \in Seq(Messages)
          BY <4>1
      <4> HIDE DEF report
      <4> QED
          BY <4>2, <4>3
    <3> HIDE DEF report
    <3>4. PICK ms \in {<< >>, <<"ready">>, <<"stopped">>, <<"exit0">>, <<"exit1">>, report} :
            outbox' = [outbox EXCEPT ![g] = @ \o ms]
      <4>1. CASE boot(g) \/ stopped(g) \/ exits(g)
          BY <4>1 DEF boot, stopped, exits, post
      <4>2. CASE dies(g)
          BY <3>2, <4>2 DEF dies, post, report
      <4> QED
          BY <2>2, <4>1, <4>2
    <3>5. ms \in Seq(Messages) /\ \A i \in 1 .. Len(ms) : ms[i] # "invalidated"
      <4>1. CASE ms = << >>
          BY <3>1, <4>1
      <4>2. CASE ms \in {<<"ready">>, <<"stopped">>, <<"exit0">>, <<"exit1">>}
          BY <3>1, <4>2 DEF Messages
      <4>3. CASE ms = report
          BY <3>3, <4>3
      <4> QED
          BY <3>4, <4>1, <4>2, <4>3
    <3>6. UNCHANGED <<m, config, seen>>
        BY <2>2 DEF boot, stopped, exits, dies
    <3> QED
        BY <1>20, <3>4, <3>5, <3>6
  <2> QED
      BY <1>19, <1>21, <2>1, <2>2 DEF Worker
<1>22. CASE UNCHANGED vars
    BY <1>0, <1>7, <1>22 DEF vars
<1>23. CASE pollFails
  <2>1. m' = m /\ UNCHANGED <<config, outbox>> /\ seen' = config
      BY <1>23 DEF pollFails
  <2>2. \A g \in Gens : N(g)' = N(g) /\ N(g) \in Nat
      BY <1>3, <1>6, <2>1
  <2> QED
      BY <1>0, <1>1, <1>4, <2>1, <2>2
<1> QED
    BY <1>8, <1>9, <1>10, <1>11, <1>12, <1>13, <1>14, <1>15, <1>17, <1>18, <1>21, <1>22, <1>23
    DEF Next, Manager, Controller

\* Every step keeps the queues tidy: messages come from the current controller's
\* worker, and nothing follows an exit.
LEMMA StepOfTidy ==
  ASSUME IInv, CInv, IInv', [Next]_vars PROVE Tidy'
<1> USE DEF worker, world, edits
<1>0. /\ m \in Managers /\ Current(m) /\ Tidy /\ Life /\ Life'
      /\ life \in [Gens -> Lives] /\ thread \in [Gens -> Threads] /\ outbox \in [Gens -> Seq(Messages)]
    BY DEF IInv, CInv, Life
<1>f. m.ctl \in Nat /\ m.generation \in Nat
    BY <1>0 DEF Managers
<1>1. ASSUME UNCHANGED <<thread, outbox>>, m'.ctl = m.ctl,
             \A g \in Gens : life'[g] = "exited" => life[g] = "exited"
      PROVE  Tidy'
    BY <1>0, <1>1 DEF Tidy, Alive
<1>3. CASE \/ buildBootstrap \/ shutdownJoins \/ notifyMetabolismWorkerRuntimeMutation \/ mutationFails
           \/ ExternalEdit \/ poll \/ pollFails \/ pollUnreadable \/ restartMetabolismWorker
  <2>1. UNCHANGED <<life, thread, outbox>>
      BY <1>3 DEF buildBootstrap, shutdownJoins, notifyMetabolismWorkerRuntimeMutation, mutationFails,
         ExternalEdit, poll, pollFails, pollUnreadable, restartMetabolismWorker
  <2>5. m'.ctl = m.ctl
    <3>1. buildBootstrap => m'.ctl = m.ctl
      <4> SUFFICES ASSUME buildBootstrap PROVE m'.ctl = m.ctl
          OBVIOUS
      <4>1. \/ m' = [m EXCEPT !.spawn = "no", !.starting = FALSE, !.restart = "no"]
            \/ m' = [m EXCEPT !.spawn = "built"]
            \/ m' = [m EXCEPT !.starting = FALSE, !.restart = "no", !.spawn = "no", !.degraded = TRUE]
          BY DEF buildBootstrap, abandoned, failed
      <4> QED
          BY <1>0, <4>1 DEF Managers
    <3>2. shutdownJoins => m'.ctl = m.ctl
        BY <1>0 DEF shutdownJoins, Managers
    <3>3. m' = requestRestart(m) => m'.ctl = m.ctl
        BY <1>0, RequestOK
    <3> QED
        BY <1>3, <3>1, <3>2, <3>3
        DEF notifyMetabolismWorkerRuntimeMutation, mutationFails, ExternalEdit, poll, pollFails,
            pollUnreadable, restartMetabolismWorker
  <2> QED
      BY <1>1, <2>1, <2>5
<1>4. CASE startNextGeneration
  <2>1. m.ctl = 0 /\ m.spawn = "built" /\ ~m.degraded /\ outbox' = outbox
      BY <1>0, <1>4 DEF startNextGeneration, Current
  <2>2. \A g \in Gens : ~Alive(g) /\ outbox[g] = << >>
      BY <1>0, <2>1, GenNumbers DEF Tidy
  <2>3. CASE m.stopped
    <3>1. m' = abandoned(m) /\ UNCHANGED <<life, thread, outbox>>
        BY <1>4, <2>3 DEF startNextGeneration
    <3>2. m'.ctl = m.ctl
        BY <1>0, <3>1 DEF abandoned, Managers
    <3> QED
        BY <1>1, <3>1, <3>2
  <2>4. CASE ~m.stopped
    <3> DEFINE n == nextGeneration
    <3>1. /\ m' = [m EXCEPT !.spawn = "await", !.ctl = n] /\ life' = [life EXCEPT ![n] = "bootstrapping"]
          /\ thread' = [thread EXCEPT ![n] = "boot"]
        BY <1>4, <2>4 DEF startNextGeneration
    <3>2. m'.ctl = n
        BY <1>0, <3>1 DEF Managers
    <3> HIDE DEF n
    <3> QED
        BY <1>0, <2>1, <2>2, <3>1, <3>2 DEF Tidy, Alive
  <2> QED
      BY <2>3, <2>4
<1>5. CASE restartCurrentGeneration
  <2>1. UNCHANGED <<thread, outbox>> /\ (life' = life \/ life' = [life EXCEPT ![m.ctl] = "draining"])
      BY <1>5 DEF restartCurrentGeneration
  <2>2. m'.ctl = m.ctl
      BY <1>0, <1>5 DEF restartCurrentGeneration, Managers
  <2> QED
      BY <1>0, <1>1, <2>1, <2>2
<1>6. CASE shutdown
  <2>1. UNCHANGED <<thread, outbox>> /\ (life' = life \/ life' = [life EXCEPT ![m.ctl] = "stopping"])
      BY <1>6 DEF shutdown
  <2>2. m'.ctl = m.ctl
      BY <1>0, <1>6 DEF shutdown, Managers
  <2> QED
      BY <1>0, <1>1, <2>1, <2>2
<1>7. ASSUME NEW g \in Gens, forceTerminate(g) PROVE Tidy'
  <2>1. /\ m.ctl = g /\ thread' = [thread EXCEPT ![g] = "dead"] /\ outbox' = [outbox EXCEPT ![g] = << >>]
      BY <1>7 DEF forceTerminate
  <2>2. \A h \in Gens : h # g => ~Alive(h) /\ outbox[h] = << >>
      BY <1>0, <2>1 DEF Tidy
  <2>3. \A h \in Gens : ~Alive(h)' /\ outbox'[h] = << >>
      BY <1>0, <2>1, <2>2 DEF Alive
  <2> QED
      BY <2>3 DEF Tidy
<1>8. ASSUME NEW g \in Gens, expire(g) PROVE Tidy'
  <2>1. UNCHANGED <<thread, outbox>> /\ life' = [life EXCEPT ![g] = "degraded"] /\ m' = onDegraded(m, g)
      BY <1>8 DEF expire
  <2>2. m'.ctl = m.ctl
      BY <1>0, <2>1, DegradedOK
  <2> QED
      BY <1>0, <1>1, <2>1, <2>2
<1>t. ASSUME NEW g \in Gens, outbox[g] # << >>, outbox' = [outbox EXCEPT ![g] = Tail(@)]
      PROVE  /\ \A h \in Gens : \A i \in 1 .. Len(outbox'[h]) : outbox'[h][i] \in Ends => i = Len(outbox'[h])
             /\ Head(outbox[g]) \in Ends => outbox'[g] = << >>
             /\ \A h \in Gens : h # g => outbox'[h] = outbox[h]
  <2> DEFINE q == outbox[g]  t == Tail(q)
  <2>1. \A h \in Gens : outbox'[h] = IF h = g THEN t ELSE outbox[h]
      BY <1>0, <1>t
  <2>2. \A i \in 1 .. Len(q) : q[i] \in Ends => i = Len(q)
      BY <1>0 DEF Tidy
  <2>3. /\ q \in Seq(Messages) /\ q # << >>
      BY <1>0, <1>t
  <2> HIDE DEF q
  <2>4. /\ Len(q) \in Nat /\ Len(q) > 0 /\ t \in Seq(Messages) /\ Len(t) = Len(q) - 1 /\ Head(q) = q[1]
        /\ \A i \in 1 .. Len(t) : t[i] = q[i + 1]
      BY <2>3
  <2> HIDE DEF t
  <2>5. ASSUME NEW i \in 1 .. Len(t), t[i] \in Ends PROVE i = Len(t)
    <3>1. i + 1 \in 1 .. Len(q) /\ q[i + 1] \in Ends
        BY <2>4, <2>5
    <3> QED
        BY <2>2, <2>4, <3>1
  <2>6. ASSUME Head(q) \in Ends PROVE t = << >>
    <3>1. 1 = Len(q)
        BY <2>2, <2>4, <2>6
    <3>2. t \in Seq(Messages) /\ Len(t) = Len(q) - 1
        BY <2>4
    <3>3. Len(t) = 0
        BY <3>1, <3>2
    <3> QED
        BY <3>2, <3>3
  <2> QED
      BY <1>0, <2>1, <2>5, <2>6 DEF Tidy, q
<1>9. ASSUME NEW g \in Gens, handleMessage(g) PROVE Tidy'
  <2>1. /\ outbox[g] # << >> /\ outbox' = [outbox EXCEPT ![g] = Tail(@)] /\ thread' = thread
        /\ m' \in {m, onReady(m, g), onDegraded(m, g), requestRestart(m)}
      BY <1>9 DEF handleMessage
  <2>2. m'.ctl = m.ctl
      BY <1>0, <2>1, ReadyOK, DegradedOK, RequestOK
  <2>3. \A h \in Gens : life'[h] = "exited" => life[h] = "exited"
    <3>1. CASE life[g] \in {"exited", "degraded"}
        BY <1>9, <3>1 DEF handleMessage
    <3>2. CASE life[g] \notin {"exited", "degraded"}
      <4>1. PICK l \in {"ready", "degraded", life[g]} : life' = [life EXCEPT ![g] = l]
          BY <1>9, <3>2 DEF handleMessage
      <4> QED
          BY <1>0, <3>2, <4>1
    <3> QED
        BY <3>1, <3>2
  <2>4. /\ \A h \in Gens : \A i \in 1 .. Len(outbox'[h]) : outbox'[h][i] \in Ends => i = Len(outbox'[h])
        /\ \A h \in Gens : h # g => outbox'[h] = outbox[h]
      BY <1>t, <2>1
  <2>5. \A h \in Gens : outbox'[h] # << >> => outbox[h] # << >>
      BY <2>1, <2>4
  <2> QED
      BY <1>0, <2>1, <2>2, <2>3, <2>4, <2>5 DEF Tidy, Alive
<1>10. ASSUME NEW g \in Gens, handleExit(g) PROVE Tidy'
  <2>1. /\ outbox[g] # << >> /\ outbox' = [outbox EXCEPT ![g] = Tail(@)] /\ thread' = thread
        /\ Head(outbox[g]) \in Ends
      BY <1>10 DEF handleExit, Ends
  <2>2. thread[g] = "dead"
    <3>1. outbox[g] \in Seq(Messages)
        BY <1>0
    <3>2. 1 \in 1 .. Len(outbox[g]) /\ outbox[g][1] = Head(outbox[g])
        BY <2>1, <3>1
    <3> QED
        BY <1>0, <2>1, <3>2 DEF Life
  <2>3. outbox'[g] = << >> /\ \A h \in Gens : h # g => outbox'[h] = outbox[h]
      BY <1>t, <2>1
  <2>4. m.ctl = g
      BY <1>0, <2>1 DEF Tidy
  <2>5. \A h \in Gens : ~Alive(h)' /\ outbox'[h] = << >>
      BY <1>0, <2>1, <2>2, <2>3, <2>4 DEF Tidy, Alive
  <2> QED
      BY <2>5 DEF Tidy
<1>11. ASSUME NEW g \in Gens, Alive(g), NEW ms \in Seq(Messages),
              \A i \in 1 .. Len(ms) : ms[i] \in Ends => i = Len(ms),
              \A h \in Gens : h # g => thread'[h] = thread[h],
              outbox' = [outbox EXCEPT ![g] = @ \o ms], UNCHANGED <<m, life>>
       PROVE  Tidy'
  <2> DEFINE q == outbox[g]  r == q \o ms
  <2>1. \A i \in 1 .. Len(q) : q[i] \notin Ends
      BY <1>0, <1>11 DEF Life, Alive
  <2>2. q \in Seq(Messages) /\ \A h \in Gens : outbox'[h] = IF h = g THEN r ELSE outbox[h]
      BY <1>0, <1>11
  <2> HIDE DEF q
  <2>3. /\ Len(q) \in Nat /\ Len(ms) \in Nat /\ r \in Seq(Messages) /\ Len(r) = Len(q) + Len(ms)
        /\ \A i \in 1 .. Len(q) : r[i] = q[i]
        /\ \A i \in 1 .. Len(r) : i > Len(q) => i - Len(q) \in 1 .. Len(ms) /\ r[i] = ms[i - Len(q)]
      BY <1>11, <2>2
  <2> HIDE DEF r
  <2>4. ASSUME NEW i \in 1 .. Len(r), r[i] \in Ends PROVE i = Len(r)
    <3>1. i > Len(q)
        BY <2>1, <2>3, <2>4
    <3>2. i - Len(q) = Len(ms)
        BY <1>11, <2>3, <2>4, <3>1
    <3> QED
        BY <2>3, <3>1, <3>2
  <2>5. m.ctl = g /\ life[g] # "exited" /\ \A h \in Gens : h # g => ~Alive(h) /\ outbox[h] = << >>
      BY <1>0, <1>11 DEF Tidy
  <2>6. \A h \in Gens : h # g => ~Alive(h)' /\ outbox'[h] = << >>
      BY <1>11, <2>2, <2>5 DEF Alive
  <2>7. ASSUME NEW h \in Gens
        PROVE  /\ Alive(h)' \/ outbox'[h] # << >> => m'.ctl = h /\ life'[h] # "exited"
               /\ \A i \in 1 .. Len(outbox'[h]) : outbox'[h][i] \in Ends => i = Len(outbox'[h])
    <3>1. CASE h = g
      <4>1. outbox'[h] = r
          BY <2>2, <3>1
      <4>2. m'.ctl = h /\ life'[h] # "exited"
          BY <1>11, <2>5, <3>1
      <4> QED
          BY <2>4, <4>1, <4>2, Zenon
    <3>2. CASE h # g
        BY <2>6, <3>2
    <3> QED
        BY <3>1, <3>2
  <2> QED
      BY <2>7 DEF Tidy
<1>12. ASSUME NEW g \in Gens, Worker(g) PROVE Tidy'
  <2>1. CASE stop(g) \/ requestRun(g) \/ commitPrompt(g) \/ passEnds(g)
      BY <1>1, <2>1 DEF stop, requestRun, commitPrompt, passEnds
  <2>2. CASE boot(g) \/ observeLearningRuntimeMutation(g) \/ stopped(g) \/ exits(g) \/ dies(g)
    <3>1. /\ << >> \in Seq(Messages) /\ Len(<< >>) = 0
          /\ \A x \in Messages : <<x>> \in Seq(Messages) /\ Len(<<x>>) = 1
        OBVIOUS
    <3> DEFINE report == <<"fatal">> \o <<"exit1">>
    <3>2. << >> \o <<"exit1">> = <<"exit1">>
      <4>1. \A q \in Seq(Messages) : << >> \o q = q
          OBVIOUS
      <4>2. <<"exit1">> \in Seq(Messages)
          BY DEF Messages
      <4> QED
          BY <4>1, <4>2
    <3>3. report \in Seq(Messages) /\ \A i \in 1 .. Len(report) : report[i] \in Ends => i = Len(report)
      <4>1. <<"fatal">> \in Seq(Messages) /\ <<"exit1">> \in Seq(Messages)
          BY DEF Messages
      <4>2. Len(report) = 2 /\ report[1] = "fatal" /\ report[2] = "exit1"
          BY <4>1
      <4>3. report \in Seq(Messages)
          BY <4>1
      <4> HIDE DEF report
      <4> QED
          BY <4>2, <4>3 DEF Ends
    <3> HIDE DEF report
    <3>4. PICK ms \in {<< >>, <<"ready">>, <<"invalidated">>, <<"stopped">>, <<"exit0">>, <<"exit1">>, report} :
            outbox' = [outbox EXCEPT ![g] = @ \o ms]
      <4>1. CASE boot(g) \/ observeLearningRuntimeMutation(g) \/ stopped(g) \/ exits(g)
          BY <4>1 DEF boot, observeLearningRuntimeMutation, stopped, exits, post
      <4>2. CASE dies(g)
          BY <3>2, <4>2 DEF dies, post, report
      <4> QED
          BY <2>2, <4>1, <4>2
    <3>5. ms \in Seq(Messages) /\ \A i \in 1 .. Len(ms) : ms[i] \in Ends => i = Len(ms)
      <4>1. CASE ms = << >>
          BY <3>1, <4>1
      <4>2. CASE ms \in {<<"ready">>, <<"invalidated">>, <<"stopped">>, <<"exit0">>, <<"exit1">>}
        <5>1. ms \in Seq(Messages) /\ Len(ms) = 1
            BY <3>1, <4>2 DEF Messages
        <5> QED
            BY <5>1
      <4>3. CASE ms = report
          BY <3>3, <4>3
      <4> QED
          BY <3>4, <4>1, <4>2, <4>3
    <3>6. /\ UNCHANGED <<m, life>> /\ Alive(g)
          /\ thread' = thread \/ \E t \in Threads : thread' = [thread EXCEPT ![g] = t]
        BY <2>2 DEF boot, observeLearningRuntimeMutation, stopped, exits, dies, Alive, Threads
    <3>7. \A h \in Gens : h # g => thread'[h] = thread[h]
        BY <1>0, <3>6
    <3> QED
        BY <1>11, <3>4, <3>5, <3>6, <3>7
  <2> QED
      BY <1>12, <2>1, <2>2 DEF Worker
<1>13. CASE UNCHANGED vars
    BY <1>1, <1>13 DEF vars
<1> QED
    BY <1>3, <1>4, <1>5, <1>6, <1>7, <1>8, <1>9, <1>10, <1>12, <1>13 DEF Next, Manager, Controller

\* A count of restarts within the budget is the number of a generation.
LEMMA WithinGens ==
  ASSUME IInv, Budget, NEW n \in Nat, n <= m.want + 1
  PROVE  n \in Gens \cup {0}
<1>1. 1 \in Gens
    BY BoundsAssumption DEF Gens
<1>2. outbox[1] \in Seq(Messages)
    BY <1>1 DEF IInv, Life
<1>3. Cardinality(Reports(outbox[1])) \in Nat
    BY <1>2, ReportsFinite
<1>4. m.want \in Nat /\ config \in Nat /\ seen \in Nat /\ seen <= config
    BY DEF IInv, Managers, Fences
<1>5. config <= MaxEdits /\ m.want + Cardinality(Reports(outbox[1])) <= config + seen + MaxRequests
    BY <1>1 DEF Budget
<1>6. m.want <= 2 * MaxEdits + MaxRequests
    BY <1>3, <1>4, <1>5, BoundsAssumption
<1> QED
    BY <1>4, <1>6, BoundsAssumption DEF Gens

\* The bounds of the model are never exceeded: the budget keeps the numbers of
\* the generations within Gens.
LEMMA TypesFit == ASSUME IInv, CInv PROVE TypeOK
<1>0. Counted(m) /\ Budget /\ Rest
    BY DEF CInv
<1>1. m.ctl \in Gens \cup {0} /\ m.generation \in Gens \cup {0}
  <2>1. m.ctl \in Nat /\ m.generation \in Nat /\ m.ctl <= m.want + 1 /\ m.generation <= m.want + 1
      BY <1>0 DEF IInv, Managers, Counted
  <2> QED
      BY <1>0, <2>1, WithinGens
<1>2. m \in [ctl: Gens \cup {0}, generation: Gens \cup {0}, starting: BOOLEAN,
             restart: {"no", "wait", "drain", "spawn"}, want: Nat, target: Nat,
             spawn: {"no", "build", "built", "await", "kill"},
             stopped: BOOLEAN, degraded: BOOLEAN,
             quit: {"no", "end", "kill", "join", "done"}]
    BY <1>1 DEF IInv, Managers
<1>3. /\ config \in 0 .. MaxEdits /\ files \in 0 .. MaxEdits /\ seen \in 0 .. MaxEdits
      /\ fenced \in 0 .. MaxEdits /\ dropped \in 0 .. MaxEdits
    BY <1>0, BoundsAssumption DEF IInv, Fences, Budget
<1> QED
    BY <1>0, <1>2, <1>3 DEF TypeOK, Rest, IInv, Life

\* Every step keeps the types that are left.
LEMMA StepOfRest == ASSUME IInv, CInv, [Next]_vars PROVE Rest'
<1> USE DEF worker, world, edits
<1>0. Rest
    BY DEF CInv
<1>1. config \in 0 .. MaxEdits /\ fenced \in 0 .. MaxEdits
    BY BoundsAssumption DEF CInv, IInv, Budget, Fences
<1>2. ASSUME UNCHANGED <<settled, busy, stopping, inbox, revision, snap, prompt>> PROVE Rest'
    BY <1>0, <1>2 DEF Rest
<1>3. CASE buildBootstrap
  <2>1. m.spawn = "build" /\ UNCHANGED <<settled, busy, stopping, inbox, prompt>>
      BY <1>3 DEF buildBootstrap
  <2>2. CASE UNCHANGED <<revision, snap>>
      BY <1>2, <2>1, <2>2
  <2>3. CASE revision' = nextGeneration /\ snap' = [snap EXCEPT ![nextGeneration] = config]
    <3>1. nextGeneration \in Nat /\ nextGeneration <= m.want + 1
      <4>1. /\ m.generation \in Nat /\ m.want \in Nat /\ m.target \in Nat
            /\ m.starting \/ m.restart = "spawn"
          BY <2>1 DEF IInv, Managers, Current
      <4>2. m.generation <= m.want
          BY <4>1 DEF CInv, Counted
      <4> QED
          BY <4>1, <4>2 DEF nextGeneration
    <3>2. nextGeneration \in Gens \cup {Invalid}
        BY <3>1, WithinGens DEF CInv, Invalid
    <3> QED
        BY <1>0, <1>1, <2>1, <2>3, <3>2 DEF Rest
  <2> QED
      BY <1>3, <2>2, <2>3 DEF buildBootstrap
<1>4. CASE startNextGeneration \/ shutdownJoins \/ ExternalEdit \/ pollFails \/ restartMetabolismWorker
    BY <1>2, <1>4 DEF startNextGeneration, shutdownJoins, ExternalEdit, pollFails, restartMetabolismWorker
<1>5. CASE restartCurrentGeneration \/ shutdown
  <2>1. /\ UNCHANGED <<settled, busy, stopping, revision, snap, prompt>>
        /\ \/ inbox' = inbox
           \/ inbox' = [inbox EXCEPT ![m.ctl] = @ \cup {"restart"}]
           \/ inbox' = [inbox EXCEPT ![m.ctl] = @ \cup {"shutdown"}]
      BY <1>5 DEF restartCurrentGeneration, shutdown
  <2> QED
      BY <1>0, <2>1 DEF Rest
<1>6. ASSUME NEW g \in Gens, Controller(g) \/ expire(g) PROVE Rest'
  <2>1. CASE handleExit(g) \/ expire(g)
      BY <1>2, <2>1 DEF handleExit, expire
  <2>2. CASE forceTerminate(g)
      BY <1>0, <2>2 DEF forceTerminate, Rest
  <2>3. CASE handleMessage(g)
    <3>1. /\ UNCHANGED <<busy, stopping, inbox, revision, snap, prompt>>
          /\ \/ settled' = settled
             \/ settled' = [settled EXCEPT ![g] = @ \/ (Head(outbox[g]) = "stopped" /\ life[g] \in {"draining", "stopping"})]
        BY <2>3 DEF handleMessage
    <3> QED
        BY <1>0, <3>1 DEF Rest
  <2> QED
      BY <1>6, <2>1, <2>2, <2>3 DEF Controller
<1>7. CASE notifyMetabolismWorkerRuntimeMutation \/ mutationFails \/ poll \/ pollUnreadable
  <2>1. revision' \in {revision, Invalid} /\ UNCHANGED <<settled, busy, stopping, inbox, snap, prompt>>
      BY <1>7 DEF notifyMetabolismWorkerRuntimeMutation, mutationFails, poll, pollUnreadable
  <2> QED
      BY <1>0, <2>1 DEF Rest
<1>8. ASSUME NEW g \in Gens, Worker(g) PROVE Rest'
  <2>1. CASE boot(g) \/ observeLearningRuntimeMutation(g) \/ stopped(g) \/ exits(g)
      BY <1>2, <2>1 DEF boot, observeLearningRuntimeMutation, stopped, exits
  <2>2. CASE stop(g)
    <3>1. PICK r \in inbox[g] :
            /\ inbox' = [inbox EXCEPT ![g] = @ \ {r}]
            /\ stopping' = [stopping EXCEPT ![g] = IF r = "shutdown" \/ @ = "no" THEN r ELSE @]
        BY <2>2 DEF stop
    <3>2. UNCHANGED <<settled, busy, revision, snap, prompt>>
        BY <2>2 DEF stop
    <3>3. r \in {"restart", "shutdown"}
        BY <1>0 DEF Rest
    <3> QED
        BY <1>0, <3>1, <3>2, <3>3 DEF Rest
  <2>3. CASE requestRun(g) \/ passEnds(g) \/ dies(g)
    <3>1. /\ UNCHANGED <<settled, stopping, inbox, revision, snap, prompt>>
          /\ \/ busy' = [busy EXCEPT ![g] = TRUE]
             \/ busy' = [busy EXCEPT ![g] = FALSE]
        BY <2>3 DEF requestRun, passEnds, dies
    <3> QED
        BY <1>0, <3>1 DEF Rest
  <2>4. CASE commitPrompt(g)
    <3>1. /\ prompt' = [built |-> snap[g], fenced |-> fenced]
          /\ UNCHANGED <<settled, busy, stopping, inbox, revision, snap>>
        BY <2>4 DEF commitPrompt
    <3> QED
        BY <1>0, <1>1, <3>1 DEF Rest
  <2> QED
      BY <1>8, <2>1, <2>2, <2>3, <2>4 DEF Worker
<1>9. CASE UNCHANGED vars
    BY <1>2, <1>9 DEF vars
<1> QED
    BY <1>3, <1>4, <1>5, <1>6, <1>7, <1>8, <1>9 DEF Next, Manager

\* Nothing is asked for and nothing under way at the start.
LEMMA InitCounted == Init => CInv
<1> SUFFICES ASSUME Init PROVE CInv
    OBVIOUS
<1>1. Counted(m)
    BY DEF Init, Counted
<1>2. Tidy
    BY DEF Init, Tidy, Alive
<1>3. Budget
  <2>1. Reports(<< >>) = {} /\ Cardinality({}) = 0
      BY FS_EmptySet DEF Reports
  <2>2. \A g \in Gens : Cardinality(Reports(outbox[g])) = 0
      BY <2>1 DEF Init
  <2>3. config = 0 /\ seen = 0 /\ m.want = 0
      BY DEF Init
  <2> QED
      BY <2>2, <2>3, BoundsAssumption DEF Budget
<1>4. Rest
    BY BoundsAssumption DEF Init, Rest
<1> QED
    BY <1>1, <1>2, <1>3, <1>4 DEF CInv

-----------------------------------------------------------------------------
\* Fields, generations and fences fit together in every reachable state.
THEOREM Invariance == Spec => []IInv
<1>1. IInv /\ [Next]_vars => IInv'
    BY StepOfLife, StepOfFences DEF IInv
<1> QED
    BY InitOK, <1>1, PTL DEF Spec

\* Every variable keeps its type: for any number of edits and restarts there are
\* never more generations than 2 * MaxEdits + MaxRequests + 1, for every edit asks
\* for two restarts at most and every restart builds one generation at most.
THEOREM WellFormed == Spec => []TypeOK
<1>1. IInv /\ CInv /\ IInv' /\ [Next]_vars => CInv'
  <2> SUFFICES ASSUME IInv, CInv, IInv', [Next]_vars PROVE CInv'
      OBVIOUS
  <2>1. Counted(m') /\ Budget'
      BY StepOfBudget
  <2>2. Tidy'
      BY StepOfTidy
  <2>3. Rest'
      BY StepOfRest
  <2> QED
      BY <2>1, <2>2, <2>3 DEF CInv, Counted
<1>2. IInv /\ CInv => TypeOK
    BY TypesFit
<1> QED
    BY InitCounted, Invariance, <1>1, <1>2, PTL DEF Spec

\* At most one worker thread lives, for any number of edits, restarts, failures
\* and deadlines: a generation is spawned only while no controller is current.
THEOREM OneWorker == Spec => []OneLiveWorker
<1>1. IInv => OneLiveWorker
    BY DEF IInv, Life, OneLiveWorker
<1> QED
    BY <1>1, Invariance, PTL

\* After shutdown returned no worker lives and none will be spawned.
THEOREM Released == Spec => []ReleasedAfterShutdown
<1>1. IInv => ReleasedAfterShutdown
    BY GenNumbers DEF IInv, Life, Current, ReleasedAfterShutdown
<1> QED
    BY <1>1, Invariance, PTL

\* No committed prompt was built before the last invalidation of the revision.
THEOREM Fresh == Spec => []NoStalePrompt
<1>1. IInv => NoStalePrompt
    BY DEF IInv, Fences, NoStalePrompt
<1> QED
    BY <1>1, Invariance, PTL

\* A degraded session spawns no worker.
THEOREM Degraded == Spec => NoSpawnWhenDegraded
<1> DEFINE A == m.degraded => \A g \in Gens : thread'[g] = "boot" => thread[g] = "boot"
<1>1. IInv /\ [Next]_vars => A
  <2> SUFFICES ASSUME IInv, [Next]_vars, m.degraded, NEW g \in Gens, thread'[g] = "boot"
               PROVE  thread[g] = "boot"
      OBVIOUS
  <2> USE DEF worker, world, edits
  <2>1. CASE thread' = thread
      BY <2>1
  <2>2. ~startNextGeneration
      BY DEF startNextGeneration, IInv, Current
  <2>3. ASSUME NEW h \in Gens, NEW t \in {"run", "closing", "dead"}, thread' = [thread EXCEPT ![h] = t]
        PROVE  thread[g] = "boot"
      BY <2>3 DEF IInv, Life
  <2>4. CASE \/ Manager \/ shutdown \/ notifyMetabolismWorkerRuntimeMutation \/ mutationFails
             \/ ExternalEdit \/ poll \/ pollFails \/ pollUnreadable \/ restartMetabolismWorker
      BY <2>1, <2>2, <2>4 DEF Manager, buildBootstrap, restartCurrentGeneration, shutdownJoins, shutdown,
         notifyMetabolismWorkerRuntimeMutation, mutationFails, ExternalEdit, poll, pollFails,
         pollUnreadable, restartMetabolismWorker
  <2>5. ASSUME NEW h \in Gens, Controller(h) \/ expire(h) PROVE thread[g] = "boot"
      BY <2>1, <2>3, <2>5 DEF Controller, handleMessage, handleExit, forceTerminate, expire
  <2>6. ASSUME NEW h \in Gens, Worker(h) PROVE thread[g] = "boot"
      BY <2>1, <2>3, <2>6 DEF Worker, boot, stop, requestRun, commitPrompt, observeLearningRuntimeMutation,
         passEnds, stopped, exits, dies
  <2>7. CASE UNCHANGED vars
      BY <2>1, <2>7 DEF vars
  <2> QED
      BY <2>4, <2>5, <2>6, <2>7 DEF Next
<1>2. Spec => [][A]_vars
    BY <1>1, Invariance, PTL DEF Spec
<1> QED
    BY <1>2 DEF NoSpawnWhenDegraded
=============================================================================
