------------------------- MODULE MetabolismWorker -------------------------
(***************************************************************************)
(* The metabolism scheduler of the desktop client runs on a worker thread. *)
(* The main thread owns a generation manager that replaces the worker when *)
(* the configuration changes (drain, wait for the exit, build a new        *)
(* snapshot, spawn), a controller per generation that follows the thread   *)
(* through its messages and deadlines, and one row of the database with    *)
(* the runtime revision a prompt must carry to be committed.               *)
(*                                                                         *)
(* A step is one task of an event loop: a whole handler on the main thread *)
(* or on the worker.  What crosses the threads (messages, exit events,     *)
(* terminate) is delayed.                                                  *)
(***************************************************************************)
EXTENDS Naturals, Sequences, FiniteSets

CONSTANTS MaxEdits,     \* bound on the edits of configuration and strategies
          MaxRequests   \* bound on the restarts an operator asks for

ASSUME BoundsAssumption == MaxEdits \in Nat /\ MaxRequests \in Nat

Gens == 1 .. (2 * MaxEdits + MaxRequests + 1)
Invalid == 0
Lives == {"none", "bootstrapping", "ready", "draining", "stopping", "exited", "degraded"}
Threads == {"none", "boot", "run", "closing", "dead"}
Messages == {"ready", "invalidated", "fatal", "stopped", "exit0", "exit1"}

VARIABLES
  m,        \* the manager: its fields and where its asynchronous methods stand
  life,     \* life[g]: lifecycle of the controller of generation g
  settled,  \* settled[g]: the controller has seen 'stopped'
  thread,   \* thread[g]: the worker thread of generation g
  stopping, \* stopping[g]: what the worker was told: "no", "restart" or "shutdown"
  busy,     \* busy[g]: the worker is inside a scheduler pass
  inbox,    \* inbox[g]: stop requests on their way to the worker
  outbox,   \* outbox[g]: messages and exit events on their way to main
  config,   \* version of the configuration, connections and strategy files
  files,    \* version of the last edit that the watcher has or could have found
  seen,     \* version the main thread last acknowledged
  fenced,   \* version of the last invalidation of the runtime revision
  dropped,  \* version of the last edit if main failed to ask a restart for it, or 0
  revision, \* metabolism_worker_runtime_revision in the database
  snap,     \* snap[g]: version the snapshot of generation g was built from
  prompt    \* last committed prompt: version it was built with, version fenced then

vars == <<m, life, settled, thread, stopping, busy, inbox, outbox,
          config, files, seen, fenced, dropped, revision, snap, prompt>>
edits == <<config, files, seen, fenced, dropped>>
world == <<edits, revision, snap, prompt>>
worker == <<thread, stopping, busy>>

Alive(g) == thread[g] \in {"boot", "run", "closing"}

TypeOK ==
  /\ m \in [ctl: Gens \cup {0}, generation: Gens \cup {0}, starting: BOOLEAN,
            restart: {"no", "wait", "drain", "spawn"}, want: Nat, target: Nat,
            spawn: {"no", "build", "built", "await", "kill"},
            stopped: BOOLEAN, degraded: BOOLEAN,
            quit: {"no", "end", "kill", "join", "done"}]
  /\ life \in [Gens -> Lives] /\ settled \in [Gens -> BOOLEAN]
  /\ thread \in [Gens -> Threads] /\ busy \in [Gens -> BOOLEAN]
  /\ stopping \in [Gens -> {"no", "restart", "shutdown"}]
  /\ inbox \in [Gens -> SUBSET {"restart", "shutdown"}]
  /\ outbox \in [Gens -> Seq(Messages)]
  /\ config \in 0 .. MaxEdits /\ files \in 0 .. MaxEdits /\ seen \in 0 .. MaxEdits
  /\ fenced \in 0 .. MaxEdits /\ dropped \in 0 .. MaxEdits
  /\ revision \in Gens \cup {Invalid}
  /\ snap \in [Gens -> 0 .. MaxEdits]
  /\ prompt \in [built: 0 .. MaxEdits, fenced: 0 .. MaxEdits]

Init ==
  /\ m = [ctl |-> 0, generation |-> 0, starting |-> TRUE, restart |-> "no",
          want |-> 0, target |-> 0, spawn |-> "build",
          stopped |-> FALSE, degraded |-> FALSE, quit |-> "no"]
  /\ life = [g \in Gens |-> "none"] /\ settled = [g \in Gens |-> FALSE]
  /\ thread = [g \in Gens |-> "none"] /\ stopping = [g \in Gens |-> "no"]
  /\ busy = [g \in Gens |-> FALSE]
  /\ inbox = [g \in Gens |-> {}] /\ outbox = [g \in Gens |-> << >>]
  /\ config = 0 /\ files = 0 /\ seen = 0 /\ fenced = 0 /\ dropped = 0
  /\ revision = Invalid /\ snap = [g \in Gens |-> 0]
  /\ prompt = [built |-> 0, fenced |-> 0]

-----------------------------------------------------------------------------
(* The manager as a function of the events of its controllers.             *)

\* requestRestart: rejected once stopped or degraded, otherwise counted, and
\* coalesced into the restart that is already running
requestRestart(s) ==
  IF s.stopped \/ s.degraded THEN s
  ELSE [s EXCEPT !.want = @ + 1,
                 !.restart = IF @ = "no" THEN "wait" ELSE @,
                 !.target = IF s.restart = "no" THEN s.want + 1 ELSE @]

\* restartUntilCurrent and the start promise when the generation they wait
\* for has come to nothing: both promises settle, the session is degraded
failed(s) == [s EXCEPT !.starting = FALSE, !.restart = "no", !.spawn = "no",
                       !.degraded = TRUE]

\* Mutants: a drain that failed goes on to the next generation; a shutdown goes
\* on waiting for the end of a worker that has degraded
onDegradedGoesOn(s, g) ==
  IF s.ctl # g THEN s
  ELSE [s EXCEPT !.restart = IF @ = "drain" THEN "spawn" ELSE @,
                 !.spawn = IF s.restart = "drain" THEN "build" ELSE IF @ = "await" THEN "kill" ELSE @,
                 !.quit = IF @ = "end" THEN "kill" ELSE @]
onDegradedWaits(s, g) ==
  IF s.ctl # g THEN s
  ELSE [s EXCEPT !.degraded = TRUE,
                 !.restart = IF @ = "drain" THEN "no" ELSE @,
                 !.spawn = IF @ = "await" THEN "kill" ELSE @]

\* 'degraded' of controller g: the session is degraded, a drain that waits for
\* g rejects, a shutdown that waits for g terminates it, a start that waits for
\* g terminates it too
onDegraded(s, g) ==
  IF s.ctl # g THEN s
  ELSE [s EXCEPT !.degraded = TRUE,
                 !.restart = IF @ = "drain" THEN "no" ELSE @,
                 !.quit = IF @ = "end" THEN "kill" ELSE @,
                 !.spawn = IF @ = "await" THEN "kill" ELSE @]

\* 'generation-ended' of controller g: the drain goes on to the next
\* generation unless the manager was stopped
onEnded(s, g) ==
  IF s.ctl # g THEN s
  ELSE LET t == [s EXCEPT !.ctl = 0,
                          !.quit = IF @ \in {"end", "kill"} THEN "join" ELSE @]
       IN CASE s.spawn \in {"await", "kill"} -> failed(t)
            [] s.restart = "drain" /\ s.stopped -> [t EXCEPT !.restart = "no"]
            [] s.restart = "drain" /\ ~s.stopped ->
                 [t EXCEPT !.restart = "spawn", !.spawn = "build"]
            [] OTHER -> t

\* Mutant: a restart asked for while the generation started is forgotten
onReadyAndDone(s, g) ==
  IF s.ctl # g \/ s.spawn # "await" THEN s
  ELSE [s EXCEPT !.spawn = "no", !.starting = FALSE, !.generation = g, !.restart = "no"]

\* controller.start resolves: the generation is ready, and the restart loop
\* ends unless another restart was asked for meanwhile
onReady(s, g) ==
  IF s.ctl # g \/ s.spawn # "await" THEN s
  ELSE LET t == [s EXCEPT !.spawn = "no", !.starting = FALSE, !.generation = g]
       IN IF s.restart # "spawn" THEN t
          ELSE IF s.target = s.want \/ s.stopped THEN [t EXCEPT !.restart = "no"]
          ELSE [t EXCEPT !.restart = "wait", !.target = s.want]

\* Mutant: generations are counted when they are spawned and when they are ready
nextGenerationSkips == m.generation + 2

\* The generation being built and the end of its start when the manager was
\* stopped meanwhile
nextGeneration == m.generation + 1
abandoned(s) == [s EXCEPT !.spawn = "no", !.starting = FALSE, !.restart = "no"]

-----------------------------------------------------------------------------
(* Main thread: the manager                                                *)

\* buildBootstrap: one revision and one snapshot, the revision published
buildBootstrap ==
  /\ m.spawn = "build"
  /\ \/ /\ m.stopped
        /\ m' = abandoned(m) /\ UNCHANGED <<revision, snap>>
     \/ /\ ~m.stopped
        /\ m' = [m EXCEPT !.spawn = "built"]
        /\ revision' = nextGeneration
        /\ snap' = [snap EXCEPT ![nextGeneration] = config]
     \/ /\ ~m.stopped                       \* a source cannot be read
        /\ m' = failed(m) /\ UNCHANGED <<revision, snap>>
  /\ UNCHANGED <<life, settled, worker, inbox, outbox, edits, prompt>>

\* createController and controller.start
startNextGeneration ==
  LET g == nextGeneration
  IN /\ m.spawn = "built"
     /\ IF m.stopped
        THEN m' = abandoned(m) /\ UNCHANGED <<life, thread>>
        ELSE /\ m' = [m EXCEPT !.spawn = "await", !.ctl = g]
             /\ life' = [life EXCEPT ![g] = "bootstrapping"]
             /\ thread' = [thread EXCEPT ![g] = "boot"]
     /\ UNCHANGED <<settled, stopping, busy, inbox, outbox, world>>

\* What ends the restart loop
loopEnds == m.stopped \/ m.degraded

\* restartCurrentGeneration up to its wait for the end of the current worker
restartCurrentGeneration ==
  /\ m.restart = "wait" /\ ~m.starting
  /\ IF loopEnds
     THEN m' = [m EXCEPT !.restart = "no"] /\ UNCHANGED <<life, inbox>>
     ELSE IF m.ctl = 0
     THEN m' = [m EXCEPT !.restart = "spawn", !.spawn = "build"] /\ UNCHANGED <<life, inbox>>
     ELSE /\ m' = [m EXCEPT !.restart = "drain"]
          /\ IF life[m.ctl] = "ready"
             THEN /\ life' = [life EXCEPT ![m.ctl] = "draining"]
                  /\ inbox' = [inbox EXCEPT ![m.ctl] = @ \cup {"restart"}]
             ELSE UNCHANGED <<life, inbox>>
  /\ UNCHANGED <<settled, worker, outbox, world>>

\* manager.shutdown and controller.shutdown of the current controller
shutdown ==
  /\ m.quit = "no"
  /\ IF m.ctl = 0
     THEN m' = [m EXCEPT !.stopped = TRUE, !.quit = "join"] /\ UNCHANGED <<life, inbox>>
     ELSE IF life[m.ctl] = "degraded"
     THEN m' = [m EXCEPT !.stopped = TRUE, !.quit = "kill"] /\ UNCHANGED <<life, inbox>>
     ELSE /\ m' = [m EXCEPT !.stopped = TRUE, !.quit = "end"]
          /\ life' = [life EXCEPT ![m.ctl] = "stopping"]
          /\ inbox' = [inbox EXCEPT ![m.ctl] = @ \cup {"shutdown"}]
  /\ UNCHANGED <<settled, worker, outbox, world>>

\* Mutant: shutdown does not wait for a restart between two generations
shutdownReturnsEarly ==
  /\ m.quit = "join"
  /\ m' = [m EXCEPT !.quit = "done"]
  /\ UNCHANGED <<life, settled, worker, inbox, outbox, world>>

\* shutdown waits for the restart and the start it found under way
shutdownJoins ==
  /\ m.quit = "join" /\ m.restart = "no" /\ ~m.starting
  /\ m' = [m EXCEPT !.quit = "done"]
  /\ UNCHANGED <<life, settled, worker, inbox, outbox, world>>

\* forceTerminate settles: the thread is gone and its exit is handled
forceTerminate(g) ==
  /\ m.ctl = g /\ (m.quit = "kill" \/ m.spawn = "kill")
  /\ thread' = [thread EXCEPT ![g] = "dead"] /\ busy' = [busy EXCEPT ![g] = FALSE]
  /\ life' = [life EXCEPT ![g] = "exited"]
  /\ outbox' = [outbox EXCEPT ![g] = << >>]
  /\ m' = onEnded(onDegraded(m, g), g)
  /\ UNCHANGED <<settled, stopping, inbox, world>>

-----------------------------------------------------------------------------
(* Main thread: the controller of one generation                           *)

\* A deadline of a controller expires: ready, stopped or exit
expire(g) ==
  /\ life[g] \in {"bootstrapping", "draining", "stopping"}
  /\ life' = [life EXCEPT ![g] = "degraded"]
  /\ m' = onDegraded(m, g)
  /\ UNCHANGED <<settled, worker, inbox, outbox, world>>

\* handleMessage: nothing once the controller has exited or degraded.  After a
\* report of the worker the sources are acknowledged, if they can be read.
handleMessage(g) ==
  /\ outbox[g] # << >> /\ Head(outbox[g]) \notin {"exit0", "exit1"}
  /\ outbox' = [outbox EXCEPT ![g] = Tail(@)]
  /\ LET msg == Head(outbox[g])
     IN IF life[g] \in {"exited", "degraded"}
        THEN UNCHANGED <<m, life, settled, seen, dropped>>
        ELSE /\ life' = [life EXCEPT ![g] =
                           CASE msg = "ready" /\ @ = "bootstrapping" -> "ready"
                             [] msg = "fatal" -> "degraded"
                             [] OTHER -> @]
             /\ settled' = [settled EXCEPT ![g] =
                              @ \/ (msg = "stopped" /\ life[g] \in {"draining", "stopping"})]
             /\ m' = CASE msg = "ready" /\ life[g] = "bootstrapping" -> onReady(m, g)
                       [] msg = "fatal" -> onDegraded(m, g)
                       [] msg = "invalidated" /\ m.ctl = g -> requestRestart(m)
                       [] OTHER -> m
             /\ IF msg = "invalidated" /\ m.ctl = g
                THEN seen' \in {config, seen} /\ dropped' = 0
                ELSE UNCHANGED <<seen, dropped>>
  /\ UNCHANGED <<worker, inbox, config, files, fenced, revision, snap, prompt>>

\* handleExit: an exit that was not announced by 'stopped' degrades first
handleExit(g) ==
  /\ outbox[g] # << >> /\ Head(outbox[g]) \in {"exit0", "exit1"}
  /\ outbox' = [outbox EXCEPT ![g] = Tail(@)]
  /\ life' = [life EXCEPT ![g] = "exited"]
  /\ LET unannounced == Head(outbox[g]) = "exit1" \/ ~settled[g]
     IN m' = IF life[g] = "exited" THEN m
             ELSE onEnded(IF unannounced /\ life[g] # "degraded" THEN onDegraded(m, g) ELSE m, g)
  /\ UNCHANGED <<settled, worker, inbox, world>>

-----------------------------------------------------------------------------
(* Main thread: the configuration and the runtime revision                 *)

\* A mutation made in the application: notifyMetabolismWorkerRuntimeMutation
\* writes 'invalid', acknowledges the sources and asks for a restart
mutated == config < MaxEdits /\ ~m.stopped /\ config' = config + 1
notifyMetabolismWorkerRuntimeMutation ==
  /\ mutated
  /\ files' = config' /\ seen' = config' /\ fenced' = config' /\ revision' = Invalid
  /\ m' = requestRestart(m) /\ dropped' = 0
  /\ UNCHANGED <<life, settled, worker, inbox, outbox, snap, prompt>>

\* The database is busy, or the sources cannot be read once 'invalid' is written:
\* no restart is asked for, the user is shown a degraded worker.  The watcher will
\* find out if the edit was one of the files, not of the database alone
mutationFails ==
  /\ mutated
  /\ files' \in {files, config'} /\ dropped' = config'
  /\ \/ UNCHANGED <<fenced, revision>>
     \/ fenced' = config' /\ revision' = Invalid
  /\ UNCHANGED <<m, life, settled, worker, inbox, outbox, seen, snap, prompt>>

\* A strategy file or a credential file is edited outside the application
ExternalEdit ==
  /\ config < MaxEdits
  /\ config' = config + 1 /\ files' = config'
  /\ UNCHANGED <<m, life, settled, worker, inbox, outbox, seen, fenced, dropped, revision, snap, prompt>>

\* The poll of the watcher finds a fingerprint it has not acknowledged
poll ==
  /\ seen < files /\ ~m.stopped
  /\ seen' = config /\ fenced' = config /\ revision' = Invalid
  /\ m' = requestRestart(m) /\ dropped' = 0
  /\ UNCHANGED <<life, settled, worker, inbox, outbox, config, files, snap, prompt>>

\* It takes the fingerprint for known before onChange finds the database busy,
\* twice, or once after a poll that could not read the sources
pollFails ==
  /\ seen < files /\ ~m.stopped
  /\ seen' = config /\ dropped' = config
  /\ UNCHANGED <<m, life, settled, worker, inbox, outbox, config, files, fenced, revision, snap, prompt>>

\* The poll cannot read the sources: once in a row it asks for a restart, too
pollUnreadable ==
  /\ m.want < MaxRequests /\ ~m.stopped
  /\ fenced' = config /\ revision' = Invalid
  /\ m' = requestRestart(m) /\ dropped' = 0
  /\ UNCHANGED <<life, settled, worker, inbox, outbox, config, files, seen, snap, prompt>>

\* restartMetabolismWorkerAndTriggerImmediate
restartMetabolismWorker ==
  /\ m.want < MaxRequests /\ ~m.stopped
  /\ m' = requestRestart(m) /\ dropped' = 0
  /\ UNCHANGED <<life, settled, worker, inbox, outbox, config, files, seen, fenced, revision, snap, prompt>>

-----------------------------------------------------------------------------
(* The worker thread                                                       *)

post(g, msgs) == outbox' = [outbox EXCEPT ![g] = @ \o msgs]

\* boot: 'ready' unless it was told to stop meanwhile
boot(g) ==
  /\ thread[g] = "boot"
  /\ thread' = [thread EXCEPT ![g] = "run"]
  /\ post(g, IF stopping[g] = "no" THEN <<"ready">> ELSE << >>)
  /\ UNCHANGED <<m, life, settled, stopping, busy, inbox, world>>

\* A stop request arrives: a shutdown takes over from a restart
stop(g) ==
  /\ thread[g] \in {"boot", "run"}
  /\ \E r \in inbox[g] :
       /\ inbox' = [inbox EXCEPT ![g] = @ \ {r}]
       /\ stopping' = [stopping EXCEPT ![g] =
                         IF r = "shutdown" \/ @ = "no" THEN r ELSE @]
  /\ UNCHANGED <<m, life, settled, thread, busy, outbox, world>>

\* requestRun: a pass of the scheduler begins
requestRun(g) ==
  /\ thread[g] = "run" /\ ~busy[g] /\ stopping[g] = "no"
  /\ busy' = [busy EXCEPT ![g] = TRUE]
  /\ UNCHANGED <<m, life, settled, thread, stopping, inbox, outbox, world>>

\* Mutant: the transaction does not read the row
commitPromptUnfenced(g) ==
  /\ thread[g] = "run" /\ busy[g]
  /\ prompt' = [built |-> snap[g], fenced |-> fenced]
  /\ UNCHANGED <<m, life, settled, worker, inbox, outbox, edits, revision, snap>>

\* A task commits a prompt: the transaction compares the runtime revision of
\* the worker with the row
commitPrompt(g) ==
  /\ thread[g] = "run" /\ busy[g]
  /\ revision = g
  /\ prompt' = [built |-> snap[g], fenced |-> fenced]
  /\ UNCHANGED <<m, life, settled, worker, inbox, outbox, edits, revision, snap>>

\* The learning task rewrites a strategy: the worker reports the new fingerprint
observeLearningRuntimeMutation(g) ==
  /\ thread[g] = "run" /\ busy[g] /\ config < MaxEdits
  /\ config' = config + 1 /\ files' = config'
  /\ post(g, <<"invalidated">>)
  /\ UNCHANGED <<m, life, settled, worker, inbox, seen, fenced, dropped, revision, snap, prompt>>

\* The pass ends: by itself, or because a shutdown aborts its calls
passEnds(g) ==
  /\ busy[g]
  /\ busy' = [busy EXCEPT ![g] = FALSE]
  /\ UNCHANGED <<m, life, settled, thread, stopping, inbox, outbox, world>>

\* stop ends after the boot and after the pass: 'stopped', then the port closes
stopped(g) ==
  /\ thread[g] = "run" /\ stopping[g] # "no" /\ ~busy[g]
  /\ thread' = [thread EXCEPT ![g] = "closing"]
  /\ post(g, <<"stopped">>)
  /\ UNCHANGED <<m, life, settled, stopping, busy, inbox, world>>

\* The thread ends after its port closed
exits(g) ==
  /\ thread[g] = "closing"
  /\ thread' = [thread EXCEPT ![g] = "dead"]
  /\ post(g, <<"exit0">>)
  /\ UNCHANGED <<m, life, settled, stopping, busy, inbox, world>>

\* A failure of the boot, of a pass or of the abort, reported before the exit,
\* or a crash, which is not
dies(g) ==
  /\ Alive(g)
  /\ thread' = [thread EXCEPT ![g] = "dead"] /\ busy' = [busy EXCEPT ![g] = FALSE]
  /\ \E report \in {<<"fatal">>, << >>} : post(g, report \o <<"exit1">>)
  /\ UNCHANGED <<m, life, settled, stopping, inbox, world>>

-----------------------------------------------------------------------------
Manager == \/ buildBootstrap \/ startNextGeneration \/ restartCurrentGeneration
           \/ shutdownJoins
Controller(g) == handleMessage(g) \/ handleExit(g) \/ forceTerminate(g)
Worker(g) ==
  \/ boot(g) \/ stop(g) \/ requestRun(g) \/ commitPrompt(g)
  \/ observeLearningRuntimeMutation(g) \/ passEnds(g) \/ stopped(g) \/ exits(g) \/ dies(g)

Next ==
  \/ Manager \/ shutdown
  \/ notifyMetabolismWorkerRuntimeMutation \/ mutationFails \/ ExternalEdit
  \/ poll \/ pollFails \/ pollUnreadable \/ restartMetabolismWorker
  \/ \E g \in Gens : Controller(g) \/ expire(g) \/ Worker(g)

\* The event loop of the main thread runs what is due, its timers included, and
\* terminate settles.  Nothing is assumed of the worker: it may hang anywhere.
Fairness ==
  /\ WF_vars(Manager) /\ WF_vars(poll)
  /\ \A g \in Gens : WF_vars(Controller(g)) /\ WF_vars(expire(g))

Spec == Init /\ [][Next]_vars
FairSpec == Spec /\ Fairness

-----------------------------------------------------------------------------
\* At most one worker thread lives: a generation is spawned only after the
\* thread of the one before has ended, restarts, failures and shutdowns mixed.
OneLiveWorker == \A g, h \in Gens : Alive(g) /\ Alive(h) => g = h

\* Once shutdown has returned the main thread closes the database: no worker
\* lives then and none will be spawned.
ReleasedAfterShutdown ==
  m.quit = "done" => /\ \A g \in Gens : ~Alive(g)
                     /\ m.spawn = "no" /\ m.restart = "no"

\* No prompt is committed with a snapshot built before the last edit the main
\* thread has invalidated the runtime revision for.
NoStalePrompt == prompt.built >= prompt.fenced

\* A controller that has degraded never comes back, and the session with it: no
\* generation is spawned on top of a worker whose effects are unknown.
NoSpawnWhenDegraded ==
  [][m.degraded => \A g \in Gens : thread'[g] = "boot" => thread[g] = "boot"]_vars

\* An edit reaches a running worker, unless the session is degraded or shut down
\* or the main thread failed to ask for the restart: no request is lost in another
\* one, whichever of the mutation, the poll and the worker's report makes it.
EditReachesWorker ==
  \A n \in 1 .. MaxEdits :
    (config >= n) ~> \/ m.degraded \/ m.stopped \/ dropped >= n
                     \/ m.ctl # 0 /\ life[m.ctl] = "ready" /\ snap[m.ctl] >= n

\* A shutdown returns even if the worker hangs.
ShutdownReturns == (m.quit # "no") ~> (m.quit = "done")
=============================================================================
