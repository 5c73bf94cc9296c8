----------------------- MODULE AgentIntegrationProofs -----------------------
(***************************************************************************)
(* Proofs about AgentIntegration for any files, runs, edits, choices and   *)
(* faults.                                                                 *)
(*                                                                         *)
(* A thread of control owns its run by the execution fence (Fits), so only *)
(* a disconnection changes the run behind its back, and never one that is  *)
(* being applied.  What was presented as applied has nothing left to write *)
(* (Journalled), which is why a run that may be overtaken does not share a *)
(* file with the one that overtakes it (Exclusive).                        *)
(***************************************************************************)
EXTENDS AgentIntegration, FiniteSetTheorems, TLAPS

Filed == {"recover", "decide", "claim", "precondition", "boundary", "write", "readback"} \cup Saves
Pcs == {"idle", "prepare", "start", "mark", "next", "verify", "promote", "commit", "failed"} \cup Filed
Desires == {"unmanaged", "managed", "disabled", "removed"}
Contents == {"none", "partial", "ours", "user"}
Whys == {"other", "verification"}
RunRecords == [op : Ops, st : RunStates, auto : BOOLEAN, rev : 0 .. MaxRev,
               consent : 0 .. MaxRuns, why : Whys]
Entries == [st : {"none", "prepared"} \cup Saves, post : BOOLEAN, receipt : BOOLEAN, proved : BOOLEAN]
Threads == [pc : Pcs, op : Ops, r : 0 .. MaxRuns, f : Files \cup {"none"}, rec : BOOLEAN,
            auth : BOOLEAN, began : 0 .. MaxRev, expect : Desires \cup RunStates,
            obs : Contents, why : Whys]

\* Between the decision to write a file and the write
Towards == {"effect_started", "claim", "precondition", "boundary", "write"}
\* Before a file is taken up
Between == {"start", "mark", "next"}

\* What a thread at work may rely on
Works(w, s) ==
  /\ s.r \in Runs /\ executionFence[s.r] = w
  /\ run[s.r].st # "none" /\ run[s.r].rev <= s.began
  /\ s.pc \in Filed => s.f \in Uncommitted(s.r)
  /\ ~s.rec => \A g \in Uncommitted(s.r) : ~journal[s.r][g].proved \/ (s.pc \notin Between /\ g = s.f)
  /\ s.pc \in Towards /\ run[s.r].op # "disconnect" => ~journal[s.r][s.f].proved
  /\ s.pc = "write" =>
       /\ run[s.r].st = "applying"
       /\ run[s.r].op # "disconnect" => inst.desired \in {"managed", "disabled"}

\* A thread's record fits the state
Fits(w, s) ==
  /\ s \in Threads /\ s.began <= intent.rev
  /\ s.pc \notin {"idle", "prepare"} => Works(w, s)

\* The journal of a run
Journalled ==
  \A r \in Runs :
    /\ run[r].st \in {"applied_unverified", "verified", "committed"} => Uncommitted(r) = {}
    /\ run[r].op = "disconnect" => ~run[r].auto
    /\ \A f \in Files : journal[r][f].proved /\ run[r].op # "disconnect" => journal[r][f].post

\* No file is still to be written by two runs
Exclusive ==
  \A q \in Runs : \A r \in Runs : \A f \in Files :
    run[q].st \in NonTerminal /\ run[r].st \in NonTerminal
      /\ f \in Uncommitted(q) /\ f \in Uncommitted(r) => q = r

\* No run is of a choice to come
Dated == \A r \in Runs : run[r].rev <= intent.rev

IInv == TypeOK /\ wk \in [Workers -> Threads] /\ (\A w \in Workers : Fits(w, wk[w]))
        /\ Journalled /\ Exclusive /\ Dated

-----------------------------------------------------------------------------
(* Records.                                                                *)

\* The types of the tables, with their records named.
LEMMA TypesAre ==
  TypeOK <=>
    /\ content \in [Files -> Contents]
    /\ run \in [Runs -> RunRecords]
    /\ journal \in [Runs -> [Files -> Entries]]
    /\ inst \in [desired : Desires, consent : 0 .. MaxRuns]
    /\ intent \in [ok : BOOLEAN, rev : 0 .. MaxRev]
    /\ writerFence \in [Files -> Workers \cup {"free", "stale"}]
    /\ executionFence \in [Runs -> Workers \cup {"free"}]
BY DEF TypeOK, Contents, RunRecords, Whys, Entries, Desires

\* The same in the next state.
LEMMA TypesNext ==
  TypeOK' <=>
    /\ content' \in [Files -> Contents]
    /\ run' \in [Runs -> RunRecords]
    /\ journal' \in [Runs -> [Files -> Entries]]
    /\ inst' \in [desired : Desires, consent : 0 .. MaxRuns]
    /\ intent' \in [ok : BOOLEAN, rev : 0 .. MaxRev]
    /\ writerFence' \in [Files -> Workers \cup {"free", "stale"}]
    /\ executionFence' \in [Runs -> Workers \cup {"free"}]
BY DEF TypeOK, Contents, RunRecords, Whys, Entries, Desires

\* No saved state replaces an entry that is missing or at its end.
LEMMA NeverFromTheEnds ==
  \A st \in Saves : "none" \notin Predecessors(st) /\ "committed" \notin Predecessors(st)
BY DEF Saves, Predecessors

\* Only files of the journal are uncommitted.
LEMMA UncommittedIs ==
  \A r \in Runs : Uncommitted(r) =
    {f \in Files : journal[r][f].st # "none" /\ journal[r][f].st # "committed"}
BY DEF Uncommitted, Mutated

\* Fences that a thread gives up are free, the others stay.
LEMMA FreeIs ==
  ASSUME TypeOK, NEW w \in Workers
  PROVE  /\ Free(writerFence, w) \in [Files -> Workers \cup {"free", "stale"}]
         /\ Free(executionFence, w) \in [Runs -> Workers \cup {"free"}]
         /\ \A r \in Runs : \A v \in Workers \ {w} :
              executionFence[r] = v => Free(executionFence, w)[r] = v
BY DEF TypeOK, Free

\* A run's state is set, and its failure code, nothing else.
LEMMA SetRunStateIs ==
  ASSUME TypeOK, NEW r \in Runs, NEW st \in RunStates, NEW why \in Whys,
         run' = [run EXCEPT ![r].st = st, ![r].why = why]
  PROVE  /\ run' \in [Runs -> RunRecords]
         /\ \A q \in Runs \ {r} : run'[q] = run[q]
         /\ run'[r].st = st /\ run'[r].op = run[r].op /\ run'[r].rev = run[r].rev
         /\ run'[r].auto = run[r].auto /\ run'[r].consent = run[r].consent
<1>1. run \in [Runs -> RunRecords]
    BY TypesAre
<1>2. run' = [run EXCEPT ![r] = [run[r] EXCEPT !.st = st, !.why = why]]
    BY <1>1
<1>3. [run[r] EXCEPT !.st = st, !.why = why] \in RunRecords
    BY <1>1 DEF RunRecords
<1> QED BY <1>1, <1>2, <1>3 DEF RunRecords

-----------------------------------------------------------------------------
(* What a step keeps.                                                      *)

\* A verified run only ends (the body of VerifiedOnlyEnds).
Ends == \A r \in Runs : run[r].st = "verified" => run'[r].st \in {"verified", "committed", "cancelled"}

AtWork(w) == wk[w].pc \notin {"idle", "prepare"}

\* A thread that does not move relies on what it did if its run, the run's
\* journal and its fence stay, or if a write is not under way and the run is
\* merely taken from it.
LEMMA OthersFit ==
  ASSUME IInv, NEW v \in Workers, wk'[v] = wk[v], intent'.rev \in Nat, intent.rev <= intent'.rev,
         AtWork(v) => /\ run'[wk[v].r].st # "none"
                      /\ run'[wk[v].r].rev = run[wk[v].r].rev
                      /\ run'[wk[v].r].op = run[wk[v].r].op
                      /\ executionFence'[wk[v].r] = v
                      /\ journal'[wk[v].r] = journal[wk[v].r],
         AtWork(v) /\ wk[v].pc = "write" =>
           /\ run'[wk[v].r].st = "applying"
           /\ run[wk[v].r].op # "disconnect" => inst'.desired \in {"managed", "disabled"}
  PROVE  Fits(v, wk[v])'
<1> DEFINE s == wk[v]
<1>1. Fits(v, s)
    BY DEF IInv
<1>2. s \in Threads /\ s.began \in Nat /\ intent.rev \in Nat
    BY <1>1, TypesAre DEF IInv, Fits, Threads
<1>3. s.began <= intent'.rev
    BY <1>1, <1>2 DEF Fits
<1>4. ASSUME AtWork(v)
      PROVE  /\ s.r \in Runs /\ executionFence'[s.r] = v
             /\ run'[s.r].st # "none" /\ run'[s.r].rev <= s.began
             /\ s.pc \in Filed => s.f \in Uncommitted(s.r)'
             /\ ~s.rec => \A g \in Uncommitted(s.r)' : ~journal'[s.r][g].proved \/ (s.pc \notin Between /\ g = s.f)
             /\ s.pc \in Towards /\ run'[s.r].op # "disconnect" => ~journal'[s.r][s.f].proved
             /\ s.pc = "write" =>
                  /\ run'[s.r].st = "applying"
                  /\ run'[s.r].op # "disconnect" => inst'.desired \in {"managed", "disabled"}
  <2>1. Works(v, s)
      BY <1>1, <1>4 DEF Fits, AtWork
  <2>2. Uncommitted(s.r)' = Uncommitted(s.r)
      BY <1>4 DEF Uncommitted, Mutated
  <2> QED BY <1>4, <2>1, <2>2 DEF Works
<1>5. AtWork(v) => Works(v, wk[v])'
    BY <1>4 DEF Works
<1> QED BY <1>2, <1>3, <1>5 DEF Fits, AtWork

\* States of runs may change as long as an applied run has nothing left to
\* write and no run leaves its end.
LEMMA StatesOK ==
  ASSUME IInv, UNCHANGED journal,
         \A r \in Runs :
           /\ run'[r].op = run[r].op /\ run'[r].auto = run[r].auto
           /\ run'[r].st \in NonTerminal => run[r].st \in NonTerminal
           /\ run'[r].st \in {"applied_unverified", "verified", "committed"} =>
                \/ run[r].st \in {"applied_unverified", "verified", "committed"}
                \/ Uncommitted(r) = {}
  PROVE  Journalled' /\ Exclusive'
<1>1. \A r \in Runs : Uncommitted(r)' = Uncommitted(r)
    BY DEF Uncommitted, Mutated
<1>2. Journalled'
    BY <1>1 DEF IInv, Journalled
<1>3. Exclusive'
    BY <1>1 DEF IInv, Exclusive
<1> QED BY <1>2, <1>3

\* A thread moves on and changes nothing but a file or a writer fence.
LEMMA MovesOK ==
  ASSUME IInv, NEW w \in Workers, NEW n \in Threads, wk' = [wk EXCEPT ![w] = n],
         n.began <= intent.rev, n.pc \notin {"idle", "prepare"} => Works(w, n),
         UNCHANGED <<run, journal, inst, intent, executionFence>>,
         content' \in [Files -> Contents], writerFence' \in [Files -> Workers \cup {"free", "stale"}]
  PROVE  IInv' /\ Ends
<1>1. TypeOK' /\ wk' \in [Workers -> Threads] /\ wk'[w] = n
    BY TypesAre, TypesNext DEF IInv
<1>2. \A v \in Workers : Fits(v, wk[v])'
  <2> TAKE v \in Workers
  <2>1. CASE v = w
      BY <1>1, <2>1 DEF Fits, Works, Uncommitted, Mutated
  <2>2. CASE v # w
    <3>1. wk'[v] = wk[v] /\ intent.rev \in Nat
        BY <2>2, TypesAre DEF IInv
    <3>2. AtWork(v) => Works(v, wk[v])
        BY DEF IInv, Fits, AtWork
    <3> QED BY <3>1, <3>2, OthersFit DEF Works
  <2> QED BY <2>1, <2>2
<1>3. Journalled' /\ Exclusive'
    BY StatesOK
<1>4. Ends /\ Dated'
    BY DEF Ends, Dated, IInv
<1> QED BY <1>1, <1>2, <1>3, <1>4 DEF IInv

\* A run's state changes on the way to its end, and nothing else of it.
OwnRun(r) ==
  /\ run' \in [Runs -> RunRecords]
  /\ \A q \in Runs \ {r} : run'[q] = run[q]
  /\ run'[r].op = run[r].op /\ run'[r].auto = run[r].auto /\ run'[r].rev = run[r].rev
  /\ run'[r].st # "none"
  /\ run'[r].st \in NonTerminal => run[r].st \in NonTerminal
  /\ run'[r].st \in {"applied_unverified", "verified", "committed"} =>
       run[r].st \in {"applied_unverified", "verified", "committed"} \/ Uncommitted(r) = {}
  /\ run[r].st = "verified" => run'[r].st \in {"verified", "committed", "cancelled"}

\* Such a change, by the state that is set.
LEMMA OwnRunIs ==
  ASSUME IInv, NEW r \in Runs, run[r].st # "none",
         NEW st \in RunStates \ {"none"}, NEW why \in Whys,
         \/ run' = [run EXCEPT ![r].st = st, ![r].why = why]
         \/ run' = [run EXCEPT ![r].st = st]
         \/ UNCHANGED run /\ st = run[r].st,
         st \in NonTerminal => run[r].st \in NonTerminal,
         st \in {"applied_unverified", "verified", "committed"} =>
           run[r].st \in {"applied_unverified", "verified", "committed"} \/ Uncommitted(r) = {},
         run[r].st = "verified" => st \in {"verified", "committed", "cancelled"}
  PROVE  OwnRun(r) /\ run'[r].st = st
<1>0. run \in [Runs -> RunRecords]
    BY TypesAre DEF IInv
<1>1. CASE run' = [run EXCEPT ![r].st = st, ![r].why = why]
    BY <1>1, SetRunStateIs DEF OwnRun, IInv
<1>2. CASE run' = [run EXCEPT ![r].st = st]
  <2>1. run' = [run EXCEPT ![r] = [run[r] EXCEPT !.st = st]]
      BY <1>0, <1>2
  <2>2. [run[r] EXCEPT !.st = st] \in RunRecords
      BY <1>0 DEF RunRecords
  <2> QED BY <1>0, <2>1, <2>2 DEF OwnRun, RunRecords
<1>3. CASE UNCHANGED run /\ st = run[r].st
    BY <1>0, <1>3 DEF OwnRun
<1> QED BY <1>1, <1>2, <1>3

\* setRunState starts from a state on the way and never leaves the end.
LEMMA SetStateOK ==
  ASSUME IInv, NEW r \in Runs, NEW why \in Whys,
         NEW st \in {"preconditions_checked", "applying", "applied_unverified", "verified",
                     "committed", "needs_recovery"},
         setRunState(r, st, why), st = "applied_unverified" => Uncommitted(r) = {}
  PROVE  OwnRun(r) /\ run'[r].st = st
<1>1. run[r].st \in PreviousStates(st) /\ run' = [run EXCEPT ![r].st = st, ![r].why = why]
    BY DEF setRunState
<1>2. run[r].st \in NonTerminal /\ run[r].st # "none"
    BY <1>1 DEF PreviousStates, NonTerminal, InFlight
<1>3. st \in RunStates \ {"none"}
    BY DEF RunStates, NonTerminal, InFlight
<1>4. run[r].st = "verified" => st = "committed"
    BY <1>1 DEF PreviousStates, InFlight
<1>5. st \in {"verified", "committed"} => run[r].st \in {"applied_unverified", "verified"}
    BY <1>1 DEF PreviousStates
<1>6. st \in {"applied_unverified", "verified", "committed"} =>
        run[r].st \in {"applied_unverified", "verified", "committed"} \/ Uncommitted(r) = {}
    BY <1>5
<1> HIDE DEF NonTerminal
<1> QED BY <1>1, <1>2, <1>3, <1>4, <1>6, OwnRunIs

\* A thread at work sets the state of its own run, and goes on or ends.
LEMMA OwnRunOK ==
  ASSUME IInv, NEW w \in Workers, AtWork(w), NEW n \in Threads, wk' = [wk EXCEPT ![w] = n],
         OwnRun(wk[w].r),
         \/ n = Idle
         \/ /\ n.r = wk[w].r /\ n.began = wk[w].began /\ n.rec = wk[w].rec /\ n.f = wk[w].f
            /\ n.pc \notin Filed \cup Towards /\ executionFence' = executionFence
            /\ n.pc \in Between => wk[w].pc \in Between,
         UNCHANGED <<content, journal, inst, intent>>,
         writerFence' \in [Files -> Workers \cup {"free", "stale"}],
         executionFence' \in [Runs -> Workers \cup {"free"}],
         \A q \in Runs : \A v \in Workers \ {w} : executionFence[q] = v => executionFence'[q] = v
  PROVE  IInv' /\ Ends
<1> DEFINE r == wk[w].r
<1>1. TypeOK' /\ wk' \in [Workers -> Threads] /\ wk'[w] = n
    BY TypesAre, TypesNext DEF IInv, OwnRun
<1>2. Works(w, wk[w]) /\ Fits(w, wk[w])
    BY DEF IInv, Fits, AtWork
<1>3. \A v \in Workers : Fits(v, wk[v])'
  <2> TAKE v \in Workers
  <2>1. CASE v = w /\ n = Idle
    <3>1. n.pc = "idle" /\ n.began = 0 /\ intent.rev \in Nat
        BY <2>1, TypesAre DEF Idle, IInv
    <3> QED BY <1>1, <2>1, <3>1 DEF Fits
  <2>2. CASE v = w /\ n # Idle
    <3>1. Uncommitted(n.r)' = Uncommitted(n.r)
        BY DEF Uncommitted, Mutated
    <3>2. Works(w, n)'
        BY <1>2, <2>2, <3>1 DEF Works, Towards, OwnRun
    <3> QED BY <1>1, <1>2, <2>2, <3>2 DEF Fits
  <2>3. CASE v # w
    <3>1. wk'[v] = wk[v] /\ intent.rev \in Nat
        BY <2>3, TypesAre DEF IInv
    <3>2. AtWork(v) => Works(v, wk[v])
        BY DEF IInv, Fits, AtWork
    <3>3. AtWork(v) => wk[v].r \in Runs /\ wk[v].r # r
        BY <1>2, <2>3, <3>2 DEF Works
    <3>4. AtWork(v) => run'[wk[v].r] = run[wk[v].r] /\ executionFence'[wk[v].r] = v
        BY <2>3, <3>2, <3>3 DEF Works, OwnRun
    <3> QED BY <3>1, <3>2, <3>4, OthersFit DEF Works
  <2> QED BY <2>1, <2>2, <2>3
<1>4. r \in Runs
    BY <1>2 DEF Works
<1>5. Journalled' /\ Exclusive'
    BY <1>4, StatesOK DEF OwnRun
<1>6. Ends
    BY DEF Ends, OwnRun
<1>7. Dated'
    BY <1>4 DEF OwnRun, Dated, IInv
<1> QED BY <1>1, <1>3, <1>5, <1>6, <1>7 DEF IInv

\* The user chooses, edits, or a fence is given back; threads that are not at
\* work yet come and go.
LEMMA QuietOK ==
  ASSUME IInv, UNCHANGED <<run, journal>>,
         content' \in [Files -> Contents], writerFence' \in [Files -> Workers \cup {"free", "stale"}],
         executionFence' \in [Runs -> Workers \cup {"free"}],
         intent' \in [ok : BOOLEAN, rev : 0 .. MaxRev], intent.rev <= intent'.rev,
         inst' \in [desired : Desires, consent : 0 .. MaxRuns],
         inst.desired \in {"managed", "disabled"} => inst'.desired \in {"managed", "disabled"},
         wk' \in [Workers -> Threads],
         \A v \in Workers : \/ wk'[v].pc \in {"idle", "prepare"} /\ wk'[v].began <= intent'.rev
                            \/ wk'[v] = wk[v] /\ executionFence' = executionFence
  PROVE  IInv' /\ Ends
<1>1. TypeOK'
    BY TypesAre, TypesNext DEF IInv
<1>2. \A v \in Workers : Fits(v, wk[v])'
  <2> TAKE v \in Workers
  <2>1. CASE wk'[v].pc \in {"idle", "prepare"} /\ wk'[v].began <= intent'.rev
      BY <2>1 DEF Fits
  <2>2. CASE wk'[v] = wk[v] /\ executionFence' = executionFence
    <3>1. intent'.rev \in Nat
        BY TypesAre DEF IInv
    <3>2. AtWork(v) => Works(v, wk[v])
        BY DEF IInv, Fits, AtWork
    <3> QED BY <2>2, <3>1, <3>2, OthersFit DEF Works
  <2> QED BY <2>1, <2>2
<1>3. Journalled' /\ Exclusive'
    BY StatesOK
<1>4. Dated'
  <2>1. \A r \in Runs : run[r].rev \in Nat
      BY TypesAre DEF IInv, RunRecords
  <2>2. intent.rev \in Nat /\ intent'.rev \in Nat
      BY TypesAre DEF IInv
  <2> QED BY <2>1, <2>2 DEF Dated, IInv
<1> QED BY <1>1, <1>2, <1>3, <1>4 DEF IInv, Ends

\* A new request.
LEMMA RequestIs ==
  ASSUME IInv, NEW w \in Workers, NEW op \in Ops, NEW began \in 0 .. MaxRev, request(w, op, began)
  PROVE  /\ wk' \in [Workers -> Threads]
         /\ wk'[w].pc = "prepare" /\ wk'[w].began = began
         /\ \A v \in Workers \ {w} : wk'[v] = wk[v]
<1> DEFINE d == inst.desired
           n == [Idle EXCEPT !.pc = "prepare", !.op = op, !.began = began, !.expect = d]
<1>1. wk' = [wk EXCEPT ![w] = n]
    BY DEF request
<1>2. d \in Desires
    BY TypesAre DEF IInv
<1>3. Idle \in Threads
  <2>1. 0 \in 0 .. MaxRuns /\ 0 \in 0 .. MaxRev
      BY BoundsAssumption
  <2> QED BY <2>1 DEF Idle, Threads, Pcs, Ops, Desires, Contents, Whys
<1> HIDE DEF d
<1>4. n \in Threads /\ n.pc = "prepare" /\ n.began = began
  <2> DEFINE i == Idle
  <2>1. i \in Threads /\ n = [i EXCEPT !.pc = "prepare", !.op = op, !.began = began, !.expect = d]
      BY <1>3
  <2> HIDE DEF i, n
  <2>2. "prepare" \in Pcs
      BY DEF Pcs
  <2> QED BY <1>2, <2>1, <2>2 DEF Threads
<1> HIDE DEF n
<1> QED BY <1>1, <1>4 DEF IInv

\* What the user and the machine do outside of a run.
LEMMA OutsideOK ==
  ASSUME IInv, \/ User \/ maintenanceActs \/ crash
               \/ \E f \in Files : leaseExpires(f)
               \/ \E w \in Workers : prepareRefused(w)
  PROVE  IInv' /\ Ends
<1>0. /\ intent.rev \in 0 .. MaxRev /\ intent.ok \in BOOLEAN /\ intent.rev \in Nat
      /\ inst.desired \in Desires /\ inst.consent \in 0 .. MaxRuns
      /\ intent \in [ok : BOOLEAN, rev : 0 .. MaxRev] /\ inst \in [desired : Desires, consent : 0 .. MaxRuns]
      /\ content \in [Files -> Contents] /\ writerFence \in [Files -> Workers \cup {"free", "stale"}]
      /\ executionFence \in [Runs -> Workers \cup {"free"}] /\ wk \in [Workers -> Threads]
    BY TypesAre DEF IInv
<1>1. CASE userConnects
  <2>1. request("apply", "connect", 0) /\ "apply" \in Workers /\ "connect" \in Ops /\ 0 \in 0 .. MaxRev
      BY <1>1, BoundsAssumption DEF userConnects, Workers, Ops
  <2>2. /\ wk' \in [Workers -> Threads] /\ wk'["apply"].pc = "prepare" /\ wk'["apply"].began = 0
        /\ \A v \in Workers \ {"apply"} : wk'[v] = wk[v]
      BY <2>1, RequestIs
  <2>3. intent' \in [ok : BOOLEAN, rev : 0 .. MaxRev] /\ intent.rev <= intent'.rev /\ 0 <= intent'.rev
      BY <1>0, <1>1, BoundsAssumption DEF userConnects
  <2>4. UNCHANGED <<content, run, journal, inst, writerFence, executionFence>>
      BY <1>1 DEF userConnects
  <2> QED BY <1>0, <2>2, <2>3, <2>4, QuietOK
<1>2. CASE userDisconnects
  <2>1. request("apply", "disconnect", 0) /\ "apply" \in Workers /\ "disconnect" \in Ops /\ 0 \in 0 .. MaxRev
      BY <1>2, BoundsAssumption DEF userDisconnects, Workers, Ops
  <2>2. /\ wk' \in [Workers -> Threads] /\ wk'["apply"].pc = "prepare" /\ wk'["apply"].began = 0
        /\ \A v \in Workers \ {"apply"} : wk'[v] = wk[v]
      BY <2>1, RequestIs
  <2>3. intent' \in [ok : BOOLEAN, rev : 0 .. MaxRev] /\ intent.rev <= intent'.rev /\ 0 <= intent'.rev
      BY <1>0, <1>2, BoundsAssumption DEF userDisconnects
  <2>4. UNCHANGED <<content, run, journal, inst, writerFence, executionFence>>
      BY <1>2 DEF userDisconnects
  <2> QED BY <1>0, <2>2, <2>3, <2>4, QuietOK
<1>3. CASE maintenanceActs
  <2>1. PICK op \in Ops : request("maintenance", op, intent.rev)
      BY <1>3 DEF maintenanceActs, Ops
  <2>2. "maintenance" \in Workers
      BY DEF Workers
  <2>3. /\ wk' \in [Workers -> Threads]
        /\ wk'["maintenance"].pc = "prepare" /\ wk'["maintenance"].began = intent.rev
        /\ \A v \in Workers \ {"maintenance"} : wk'[v] = wk[v]
      BY <1>0, <2>1, <2>2, RequestIs
  <2>4. UNCHANGED <<content, run, journal, inst, intent, writerFence, executionFence>>
      BY <1>3 DEF maintenanceActs
  <2> QED BY <1>0, <2>3, <2>4, QuietOK
<1>4. CASE pause \/ resume
  <2>1. intent' \in [ok : BOOLEAN, rev : 0 .. MaxRev] /\ intent.rev <= intent'.rev
    <3> DEFINE next == intent.rev + 1
    <3>1. next \in 0 .. MaxRev /\ intent.rev <= next
        BY <1>0, <1>4, BoundsAssumption DEF pause, resume
    <3>2. intent' = [ok |-> FALSE, rev |-> next] \/ intent' = [ok |-> TRUE, rev |-> next]
        BY <1>4 DEF pause, resume
    <3> HIDE DEF next
    <3>3. intent' \in [ok : BOOLEAN, rev : 0 .. MaxRev] /\ intent'.rev = next
      <4>1. CASE intent' = [ok |-> FALSE, rev |-> next]
          BY <3>1, <4>1
      <4>2. CASE intent' = [ok |-> TRUE, rev |-> next]
          BY <3>1, <4>2
      <4> QED BY <3>2, <4>1, <4>2
    <3> QED BY <3>1, <3>3
  <2>2. inst' \in [desired : Desires, consent : 0 .. MaxRuns] /\ inst'.desired \in {"managed", "disabled"}
      BY <1>0, <1>4 DEF pause, resume, Desires
  <2>3. UNCHANGED <<content, run, journal, writerFence, executionFence, wk>>
      BY <1>4 DEF pause, resume
  <2> QED BY <1>0, <2>1, <2>2, <2>3, QuietOK
<1>5. CASE \E f \in Files : userEdits(f)
  <2>1. content' \in [Files -> Contents]
      BY <1>0, <1>5 DEF userEdits, Contents
  <2>2. UNCHANGED <<run, journal, inst, intent, writerFence, executionFence, wk>>
      BY <1>5 DEF userEdits
  <2> QED BY <1>0, <2>1, <2>2, QuietOK
<1>6. CASE \E f \in Files : leaseExpires(f)
  <2>1. writerFence' \in [Files -> Workers \cup {"free", "stale"}]
      BY <1>0, <1>6 DEF leaseExpires
  <2>2. UNCHANGED <<content, run, journal, inst, intent, executionFence, wk>>
      BY <1>6 DEF leaseExpires
  <2> QED BY <1>0, <2>1, <2>2, QuietOK
<1>7. Idle \in Threads /\ Idle.pc = "idle" /\ Idle.began = 0
    BY BoundsAssumption DEF Idle, Threads, Pcs, Ops, Desires, Contents, Whys
<1>8. CASE crash
  <2>1. writerFence' \in [Files -> Workers \cup {"free", "stale"}]
        /\ executionFence' \in [Runs -> Workers \cup {"free"}]
      BY <1>0, <1>8 DEF crash
  <2>2. UNCHANGED <<content, run, journal, inst, intent>> /\ wk' = [w \in Workers |-> Idle]
      BY <1>8 DEF crash
  <2> QED BY <1>0, <1>7, <2>1, <2>2, QuietOK
<1>9. CASE \E w \in Workers : prepareRefused(w)
  <2>1. UNCHANGED <<content, run, journal, inst, intent, writerFence, executionFence>>
        /\ \E w \in Workers : wk' = [wk EXCEPT ![w] = Idle]
      BY <1>9 DEF prepareRefused
  <2> QED BY <1>0, <1>7, <2>1, QuietOK
<1> QED BY <1>1, <1>2, <1>3, <1>4, <1>5, <1>6, <1>8, <1>9 DEF User

-----------------------------------------------------------------------------
(* A thread at work.                                                       *)

\* What is known of a thread at work.
LEMMA AtWorkIs ==
  ASSUME IInv, NEW w \in Workers, AtWork(w)
  PROVE  /\ wk[w] \in Threads /\ wk[w].r \in Runs /\ Works(w, wk[w])
         /\ wk[w].began <= intent.rev /\ run[wk[w].r] \in RunRecords
         /\ run[wk[w].r].op \in Ops /\ run[wk[w].r].st \in RunStates
BY TypesAre DEF IInv, Fits, AtWork, Works, RunRecords

\* A thread keeps its run, its file and what it read of the choice.
Alike(s, n) == n.r = s.r /\ n.f = s.f /\ n.rec = s.rec /\ n.began = s.began

\* A thread that goes on without a change of a run keeps the invariant if the
\* place it goes to asks nothing new.
LEMMA GotoOK ==
  ASSUME IInv, NEW w \in Workers, AtWork(w), NEW pc \in Pcs, NEW why \in Whys,
         goto(w, pc) \/ (pc = "failed" /\ failing(w, why)),
         pc \notin {"idle", "prepare"},
         pc \in Filed => wk[w].pc \in Filed,
         pc \in Between => wk[w].pc \in Between,
         pc \in Towards /\ run[wk[w].r].op # "disconnect" => ~journal[wk[w].r][wk[w].f].proved,
         pc = "write" => /\ run[wk[w].r].st = "applying"
                         /\ run[wk[w].r].op # "disconnect" => inst.desired \in {"managed", "disabled"},
         UNCHANGED <<run, journal, inst, intent>>,
         content' \in [Files -> Contents]
  PROVE  IInv' /\ Ends
<1> DEFINE s == wk[w]
<1>1. s \in Threads /\ Works(w, s) /\ s.began <= intent.rev
    BY AtWorkIs
<1>2. PICK n : /\ n = [s EXCEPT !.pc = pc] \/ n = [s EXCEPT !.pc = pc, !.why = why]
               /\ wk' = [wk EXCEPT ![w] = n]
    BY DEF goto, failing
<1>3. n \in Threads /\ n.pc = pc /\ n.r = s.r /\ n.f = s.f /\ n.rec = s.rec /\ n.began = s.began
  <2> HIDE DEF s
  <2>1. s \in Threads
      BY <1>1
  <2>2. n \in Threads /\ Alike(s, n) /\ n.pc = pc
      BY <2>1, <1>2 DEF Threads, Alike
  <2> QED BY <2>2 DEF Alike
<1>4. UNCHANGED <<writerFence, executionFence>>
    BY DEF goto, failing
<1>5. writerFence \in [Files -> Workers \cup {"free", "stale"}]
    BY TypesAre DEF IInv
<1>6. Works(w, n)
    BY <1>1, <1>3 DEF Works
<1> QED BY <1>1, <1>2, <1>3, <1>4, <1>5, <1>6, MovesOK

\* A thread ends, with what it says of its run.
LEMMA FinishOK ==
  ASSUME IInv, NEW w \in Workers, AtWork(w), finish(w), OwnRun(wk[w].r),
         UNCHANGED <<content, journal, inst, intent>>
  PROVE  IInv' /\ Ends
<1>1. Idle \in Threads
  <2>1. 0 \in 0 .. MaxRuns /\ 0 \in 0 .. MaxRev
      BY BoundsAssumption
  <2> QED BY <2>1 DEF Idle, Threads, Pcs, Ops, Desires, Contents, Whys
<1>2. /\ writerFence' \in [Files -> Workers \cup {"free", "stale"}]
      /\ executionFence' \in [Runs -> Workers \cup {"free"}]
      /\ \A q \in Runs : \A v \in Workers \ {w} : executionFence[q] = v => executionFence'[q] = v
    BY FreeIs DEF finish, IInv
<1>3. wk' = [wk EXCEPT ![w] = Idle]
    BY DEF finish
<1> QED BY <1>1, <1>2, <1>3, OwnRunOK

\* A thread says something of its run and goes on.
LEMMA SetAndGotoOK ==
  ASSUME IInv, NEW w \in Workers, AtWork(w), OwnRun(wk[w].r),
         NEW pc \in {"mark", "next", "verify", "commit"}, goto(w, pc),
         pc \in Between => wk[w].pc \in Between,
         UNCHANGED <<content, journal, inst, intent>>
  PROVE  IInv' /\ Ends
<1> DEFINE s == wk[w]
           n == [s EXCEPT !.pc = pc]
<1>1. s \in Threads
    BY AtWorkIs
<1>2. wk' = [wk EXCEPT ![w] = n] /\ UNCHANGED <<writerFence, executionFence>>
    BY DEF goto
<1>3. pc \in Pcs /\ pc \notin Filed \cup Towards /\ pc \notin {"idle", "prepare"}
    BY DEF Pcs, Filed, Towards, Saves
<1>4. n \in Threads /\ Alike(s, n) /\ n.pc = pc
  <2> HIDE DEF s
  <2> QED BY <1>1, <1>3 DEF Threads, Alike
<1>5. /\ writerFence' \in [Files -> Workers \cup {"free", "stale"}]
      /\ executionFence' \in [Runs -> Workers \cup {"free"}]
    BY <1>2, TypesAre DEF IInv
<1> HIDE DEF n
<1> QED BY <1>2, <1>3, <1>4, <1>5, OwnRunOK DEF Alike

\* executePreparedRun.
LEMMA StartOK ==
  ASSUME IInv, NEW w \in Workers, start(w) \/ markApplying(w)
  PROVE  IInv' /\ Ends
<1> DEFINE r == wk[w].r
<1>1. AtWork(w) /\ wk[w].pc \in Between /\ UNCHANGED <<content, journal, inst, intent>>
    BY DEF start, markApplying, AtWork, Between
<1>2. r \in Runs /\ run[r].st # "none" /\ run[r].st \in RunStates
    BY <1>1, AtWorkIs DEF Works
<1>3. "other" \in Whys
    BY DEF Whys
<1>4. \/ UNCHANGED run /\ goto(w, "next")
      \/ \E st \in {"applying", "preconditions_checked"}, pc \in {"next", "mark"} :
           setRunState(r, st, "other") /\ goto(w, pc)
      \/ UNCHANGED run /\ failing(w, "other")
    BY DEF start, markApplying
<1>5. CASE UNCHANGED run /\ goto(w, "next")
  <2>1. OwnRun(r)
      BY <1>2, <1>3, <1>5, OwnRunIs
  <2> QED BY <1>1, <1>5, <2>1, SetAndGotoOK
<1>6. ASSUME NEW st \in {"applying", "preconditions_checked"}, NEW pc \in {"next", "mark"},
             setRunState(r, st, "other"), goto(w, pc)
      PROVE  IInv' /\ Ends
  <2>1. OwnRun(r)
      BY <1>2, <1>3, <1>6, SetStateOK
  <2> QED BY <1>1, <1>6, <2>1, SetAndGotoOK
<1>7. CASE UNCHANGED run /\ failing(w, "other")
  <2>1. "failed" \in Pcs /\ "failed" \notin Filed \cup Between \cup Towards
      BY DEF Pcs, Filed, Between, Towards, Saves
  <2>2. content' \in [Files -> Contents]
      BY <1>1, TypesAre DEF IInv
  <2> QED BY <1>1, <1>3, <1>7, <2>1, <2>2, GotoOK
<1> QED BY <1>4, <1>5, <1>6, <1>7

\* The places of a mutation that change nothing but the place, or the file.
LEMMA MutationOK ==
  ASSUME IInv, NEW w \in Workers,
         \/ loseLease(w) \/ recoveryDecides(w) \/ claimEffect(w) \/ checkPrecondition(w)
         \/ crossBoundary(w) \/ adapterApply(w) \/ readBack(w) \/ saveFails(w)
  PROVE  IInv' /\ Ends
<1> DEFINE s == wk[w]
           r == wk[w].r
           stay == content' \in [Files -> Contents]
<1>1. AtWork(w) /\ s.pc \in Filed /\ UNCHANGED <<run, journal, inst, intent>>
    BY DEF loseLease, recoveryDecides, claimEffect, checkPrecondition, crossBoundary, adapterApply,
           readBack, saveFails, AtWork, Filed, Saves
<1>2. /\ s \in Threads /\ r \in Runs /\ s.f \in Files /\ Works(w, s)
      /\ run[r] \in RunRecords /\ run[r].op \in Ops
    BY <1>1, AtWorkIs, UncommittedIs DEF Works
<1>3. content \in [Files -> Contents] /\ inst.desired \in Desires
    BY TypesAre DEF IInv
<1>4. content' \in [Files -> Contents]
  <2>1. CASE adapterApply(w)
      BY <1>2, <1>3, <2>1 DEF adapterApply, Desired, Contents
  <2>2. CASE ~adapterApply(w)
      BY <1>3, <2>2 DEF loseLease, recoveryDecides, claimEffect, checkPrecondition, crossBoundary,
                        readBack, saveFails
  <2> QED BY <2>1, <2>2
<1>5. "other" \in Whys
    BY DEF Whys
<1>6. ASSUME NEW pc \in {"needs_recovery", "effect_observed", "receipt_persisted", "verified",
                         "committed", "readback"},
             goto(w, pc)
      PROVE  IInv' /\ Ends
  <2>1. pc \in Pcs /\ pc \notin Between \cup Towards \cup {"idle", "prepare"}
      BY DEF Pcs, Filed, Between, Towards, Saves
  <2>2. pc # "write"
      OBVIOUS
  <2> QED BY <1>1, <1>4, <1>5, <1>6, <2>1, <2>2, GotoOK
<1>7. ASSUME failing(w, "other")
      PROVE  IInv' /\ Ends
  <2>1. "failed" \in Pcs /\ "failed" \notin Filed \cup Between \cup Towards
      BY DEF Pcs, Filed, Between, Towards, Saves
  <2> QED BY <1>1, <1>4, <1>5, <1>7, <2>1, GotoOK
<1>8. ASSUME NEW pc \in {"precondition", "boundary"}, goto(w, pc), s.pc \in Towards
      PROVE  IInv' /\ Ends
  <2>1. pc \in Pcs /\ pc \notin Between \cup {"idle", "prepare", "write"}
      BY DEF Pcs, Filed, Between, Saves
  <2>2. run[r].op # "disconnect" => ~journal[r][s.f].proved
      BY <1>2, <1>8 DEF Works
  <2> QED BY <1>1, <1>4, <1>5, <1>8, <2>1, <2>2, GotoOK
<1>9. CASE loseLease(w)
    BY <1>6, <1>9 DEF loseLease
<1>10. CASE saveFails(w)
    BY <1>7, <1>10 DEF saveFails
<1>11. CASE readBack(w)
    BY <1>6, <1>11 DEF readBack
<1>12. CASE adapterApply(w)
    BY <1>6, <1>12 DEF adapterApply
<1>13. CASE claimEffect(w)
    BY <1>6, <1>8, <1>13 DEF claimEffect, Towards
<1>14. CASE checkPrecondition(w)
    BY <1>6, <1>8, <1>14 DEF checkPrecondition, Towards
<1>15. CASE crossBoundary(w)
  <2>1. CASE goto(w, "needs_recovery")
      BY <1>6, <2>1
  <2>2. CASE run[r].st = "applying" /\ ControlCurrent(r) /\ goto(w, "write")
    <3>1. "write" \in Pcs /\ "write" \notin Between \cup {"idle", "prepare"} /\ s.pc \in Towards
        BY <1>15 DEF Pcs, Filed, Between, Saves, crossBoundary, Towards
    <3>2. run[r].op # "disconnect" => ~journal[r][s.f].proved
        BY <1>2, <3>1 DEF Works
    <3>3. run[r].op # "disconnect" => inst.desired \in {"managed", "disabled"}
        BY <2>2 DEF ControlCurrent, Wanted
    <3> QED BY <1>1, <1>4, <1>5, <2>2, <3>1, <3>2, <3>3, GotoOK
  <2> QED BY <1>15, <2>1, <2>2 DEF crossBoundary
<1>16. CASE recoveryDecides(w)
  <2> DEFINE j == journal[r][s.f]
  <2>1. j \in Entries
      BY <1>2, TypesAre DEF IInv
  <2>2. CASE goto(w, "needs_recovery")
      BY <1>6, <2>2
  <2>3. CASE goto(w, ResumeAt(j))
    <3>1. j.st \in {"prepared"} \cup (Saves \ {"committed"})
        BY <1>1, <1>2, <2>1, UncommittedIs DEF Works, Entries
    <3>2. ResumeAt(j) \in {"effect_observed", "receipt_persisted", "verified", "committed"}
        BY <3>1 DEF ResumeAt, Saves
    <3> QED BY <1>6, <2>3, <3>2
  <2>4. CASE goto(w, "effect_started") /\ ~Evidence(j)
    <3>1. "effect_started" \in Pcs /\ "effect_started" \notin Between \cup {"idle", "prepare", "write"}
        BY DEF Pcs, Filed, Between, Saves
    <3>2. run[r].op # "disconnect" => ~j.proved
        BY <1>2, <2>4 DEF Evidence, IInv, Journalled
    <3> QED BY <1>1, <1>4, <1>5, <2>4, <3>1, <3>2, GotoOK
  <2> QED BY <1>16, <2>2, <2>3, <2>4 DEF recoveryDecides
<1> QED BY <1>9, <1>10, <1>11, <1>12, <1>13, <1>14, <1>15, <1>16

\* The next file is one of those that are left, and not written yet.
LEMMA NextMutationOK ==
  ASSUME IInv, NEW w \in Workers, nextMutation(w)
  PROVE  IInv' /\ Ends
<1> DEFINE s == wk[w]
           r == wk[w].r
<1>1. AtWork(w) /\ s.pc = "next" /\ UNCHANGED <<content, run, journal, inst, intent>>
    BY DEF nextMutation, AtWork
<1>2. s \in Threads /\ r \in Runs /\ Works(w, s) /\ s.began <= intent.rev
    BY <1>1, AtWorkIs DEF Works
<1>3. content \in [Files -> Contents] /\ writerFence \in [Files -> Workers \cup {"free", "stale"}]
    BY TypesAre DEF IInv
<1>4. PICK f \in Uncommitted(r) :
        IF s.rec \/ writerFence[f] = "free"
        THEN /\ writerFence' = [writerFence EXCEPT ![f] = w]
             /\ wk' = [wk EXCEPT ![w].f = f, ![w].pc = IF s.rec THEN "recover" ELSE "effect_started"]
             /\ UNCHANGED executionFence
        ELSE failing(w, "other")
    BY DEF nextMutation
<1>5. CASE s.rec \/ writerFence[f] = "free"
  <2> DEFINE pc == IF s.rec THEN "recover" ELSE "effect_started"
             n == [s EXCEPT !.f = f, !.pc = pc]
  <2>1. f \in Files
      BY <1>2, UncommittedIs
  <2>2. pc \in Pcs /\ (pc \in Towards => ~s.rec) /\ pc \notin Between /\ pc # "write"
      BY DEF Pcs, Filed, Saves, Towards, Between
  <2>3. wk' = [wk EXCEPT ![w] = n] /\ UNCHANGED executionFence
      BY <1>4, <1>5
  <2>4. n \in Threads /\ n.pc = pc /\ n.f = f /\ n.r = s.r /\ n.rec = s.rec /\ n.began = s.began
    <3> HIDE DEF s, pc
    <3> QED BY <1>2, <2>1, <2>2 DEF Threads
  <2>5. writerFence' \in [Files -> Workers \cup {"free", "stale"}]
      BY <1>3, <1>4, <1>5
  <2>6. ~s.rec => \A g \in Uncommitted(r) : ~journal[r][g].proved
      BY <1>1, <1>2 DEF Works, Between
  <2> HIDE DEF n, pc
  <2>7. Works(w, n)
      BY <1>2, <2>2, <2>4, <2>6 DEF Works
  <2> QED BY <1>1, <1>2, <1>3, <2>3, <2>4, <2>5, <2>7, MovesOK
<1>6. CASE ~(s.rec \/ writerFence[f] = "free")
  <2>1. "failed" \in Pcs /\ "failed" \notin Filed \cup Between \cup Towards /\ "other" \in Whys
      BY DEF Pcs, Filed, Between, Towards, Saves, Whys
  <2> QED BY <1>1, <1>3, <1>4, <1>6, <2>1, GotoOK
<1> QED BY <1>5, <1>6

\* A recovery reads the file it took up.
LEMMA RecoveryReadsOK ==
  ASSUME IInv, NEW w \in Workers, recoveryReads(w)
  PROVE  IInv' /\ Ends
<1> DEFINE s == wk[w]
<1>1. AtWork(w) /\ s.pc = "recover" /\ s.pc \in Filed
      /\ UNCHANGED <<content, run, journal, inst, intent, writerFence, executionFence>>
    BY DEF recoveryReads, AtWork, Filed
<1>2. s \in Threads /\ s.r \in Runs /\ Works(w, s) /\ s.began <= intent.rev
    BY <1>1, AtWorkIs DEF Works
<1>3. content \in [Files -> Contents] /\ writerFence \in [Files -> Workers \cup {"free", "stale"}]
    BY TypesAre DEF IInv
<1>4. s.f \in Files
    BY <1>1, <1>2, UncommittedIs DEF Works
<1>5. ASSUME NEW pc \in {"decide", "needs_recovery"}, NEW n, wk' = [wk EXCEPT ![w] = n],
             n = [s EXCEPT !.obs = content[s.f], !.pc = pc] \/ n = [s EXCEPT !.pc = pc]
      PROVE  IInv' /\ Ends
  <2>1. n \in Threads /\ Alike(s, n) /\ n.pc = pc
    <3> DEFINE c == content[s.f]
    <3>1. c \in Contents
        BY <1>3, <1>4
    <3>2. pc \in Pcs
        BY DEF Pcs, Filed, Saves
    <3>3. n = [s EXCEPT !.obs = c, !.pc = pc] \/ n = [s EXCEPT !.pc = pc]
        BY <1>5
    <3> HIDE DEF s, c
    <3> QED BY <1>2, <3>1, <3>2, <3>3 DEF Threads, Alike
  <2>2. Works(w, n)
    <3>1. pc \in Filed /\ pc \notin Towards \cup Between \cup {"write"}
        BY DEF Filed, Saves, Towards, Between
    <3> QED BY <1>1, <1>2, <2>1, <3>1 DEF Works, Alike, Between
  <2> QED BY <1>1, <1>2, <1>3, <1>5, <2>1, <2>2, MovesOK DEF Alike
<1>6. CASE wk' = [wk EXCEPT ![w].obs = content[s.f], ![w].pc = "decide"]
  <2>1. wk' = [wk EXCEPT ![w] = [s EXCEPT !.obs = content[s.f], !.pc = "decide"]]
      BY <1>6
  <2> QED BY <1>5, <2>1
<1>7. CASE wk' = [wk EXCEPT ![w].pc = "needs_recovery"]
  <2>1. wk' = [wk EXCEPT ![w] = [s EXCEPT !.pc = "needs_recovery"]]
      BY <1>7
  <2> QED BY <1>5, <2>1
<1> QED BY <1>6, <1>7 DEF recoveryReads

\* A saved entry is one that was under way: what is uncommitted shrinks.
LEMMA SaveOK ==
  ASSUME IInv, NEW w \in Workers, saveMutation(w)
  PROVE  IInv' /\ Ends
<1> DEFINE s == wk[w]
           r == wk[w].r
           f == wk[w].f
           st == wk[w].pc
           j == journal[r][f]
           e == Saved(j, run[r].op, st)
<1>1. AtWork(w) /\ st \in Saves /\ st \in Filed /\ UNCHANGED <<content, run, inst, intent, executionFence>>
      /\ j.st \in Predecessors(st) /\ journal' = [journal EXCEPT ![r][f] = e]
    BY DEF saveMutation, AtWork, Saves, Filed
<1>2. s \in Threads /\ r \in Runs /\ Works(w, s) /\ s.began <= intent.rev /\ intent.rev \in Nat
    BY <1>1, AtWorkIs, TypesAre DEF Works, IInv
<1>3. f \in Uncommitted(r) /\ f \in Files
    BY <1>1, <1>2, UncommittedIs DEF Works
<1>4. j \in Entries /\ journal \in [Runs -> [Files -> Entries]] /\ content \in [Files -> Contents]
      /\ writerFence \in [Files -> Workers \cup {"free", "stale"}]
    BY <1>2, <1>3, TypesAre DEF IInv
<1>5. /\ e \in Entries /\ e.st = st
      /\ e.proved => j.proved \/ st = "effect_observed"
      /\ j.post => e.post
      /\ st = "effect_observed" /\ run[r].op # "disconnect" => e.post
  <2> DEFINE post == j.post \/ (st = "effect_observed" /\ run[r].op # "disconnect")
             receipt == j.receipt \/ st = "receipt_persisted"
             proved == j.proved \/ st = "effect_observed"
  <2>1. e = [j EXCEPT !.st = st, !.post = post, !.receipt = receipt, !.proved = proved]
      BY <1>4 DEF Saved, Entries
  <2>2. post \in BOOLEAN /\ receipt \in BOOLEAN /\ proved \in BOOLEAN
      BY <1>4, ZenonT(30) DEF Entries
  <2>3. e \in Entries /\ e.st = st /\ e.post = post /\ e.proved = proved
    <3> HIDE DEF post, receipt, proved, j, e, st
    <3> QED BY <1>1, <1>4, <2>1, <2>2 DEF Entries
  <2> QED BY <2>3
<1> HIDE DEF e
<1>6. /\ journal' \in [Runs -> [Files -> Entries]] /\ journal'[r][f] = e
      /\ \A q \in Runs : \A g \in Files : <<q, g>> # <<r, f>> => journal'[q][g] = journal[q][g]
      /\ \A q \in Runs \ {r} : journal'[q] = journal[q]
    BY <1>1, <1>2, <1>3, <1>4, <1>5
<1>7. \A q \in Runs : Uncommitted(q)' = {g \in Files : journal'[q][g].st # "none" /\ journal'[q][g].st # "committed"}
    BY DEF Uncommitted, Mutated
<1>8. \A q \in Runs : Uncommitted(q)' \subseteq Uncommitted(q)
    BY <1>3, <1>6, <1>7, UncommittedIs
<1>9. Uncommitted(r) # {}
    BY <1>3
<1>10. Journalled'
  <2>1. run[r].st \notin {"applied_unverified", "verified", "committed"}
      BY <1>2, <1>9 DEF IInv, Journalled
  <2>2. \A q \in Runs : \A g \in Files : journal'[q][g].proved /\ run[q].op # "disconnect" => journal'[q][g].post
      BY <1>5, <1>6, <1>3, <1>2 DEF IInv, Journalled
  <2> QED BY <1>1, <1>8, <2>1, <2>2 DEF IInv, Journalled
<1>11. Exclusive'
    BY <1>1, <1>8 DEF IInv, Exclusive
<1>12. TypeOK'
  <2>1. writerFence' \in [Files -> Workers \cup {"free", "stale"}]
      BY <1>4, FreeIs DEF saveMutation, IInv
  <2> QED BY <1>1, <1>6, <2>1, TypesAre, TypesNext DEF IInv
<1>13. PICK n : /\ wk' = [wk EXCEPT ![w] = n] /\ n \in Threads /\ n.pc = After(w, st)
                /\ n.r = s.r /\ n.rec = s.rec /\ n.began = s.began /\ (st # "committed" => n.f = f)
  <2> DEFINE g == IF st = "committed" THEN "none" ELSE f
             pc == After(w, st)
             n == [s EXCEPT !.pc = pc, !.f = g, !.obs = "none"]
  <2>1. pc \in Pcs
      BY <1>1 DEF After, Pcs, Filed, Saves
  <2>2. g \in Files \cup {"none"}
      BY <1>3
  <2>3. wk' = [wk EXCEPT ![w] = n]
      BY DEF saveMutation
  <2>4. n \in Threads /\ n.pc = pc /\ n.f = g /\ n.r = s.r /\ n.rec = s.rec /\ n.began = s.began
    <3>1. "none" \in Contents
        BY DEF Contents
    <3> HIDE DEF s, pc, g
    <3> QED BY <1>2, <2>1, <2>2, <3>1 DEF Threads
  <2> QED BY <2>3, <2>4
<1>14. Works(w, n)'
  <2>1. n.r \in Runs /\ executionFence'[n.r] = w /\ run'[n.r].st # "none" /\ run'[n.r].rev <= n.began
      BY <1>1, <1>2, <1>13 DEF Works
  <2>2. n.pc \in Filed => n.f \in Uncommitted(n.r)'
    <3>1. n.pc \in Filed => st \in Saves \ {"committed", "needs_recovery"}
        BY <1>1, <1>13 DEF After, Filed, Saves
    <3>2. st \in Saves \ {"committed", "needs_recovery"} => e.st \notin {"none", "committed"}
        BY <1>5 DEF Saves
    <3> QED BY <1>2, <1>3, <1>6, <1>7, <1>13, <3>1, <3>2
  <2>3. ~n.rec => \A g \in Uncommitted(n.r)' : ~journal'[n.r][g].proved \/ (n.pc \notin Between /\ g = n.f)
    <3> SUFFICES ASSUME ~n.rec, NEW g \in Uncommitted(n.r)', journal'[n.r][g].proved
                 PROVE  n.pc \notin Between /\ g = n.f
        OBVIOUS
    <3>0. n.r = r /\ n.r \in Runs
        BY <1>2, <1>13
    <3>1. g \in Uncommitted(r)
        BY <1>8, <3>0
    <3>2. g \in Files /\ journal'[n.r][g].st # "committed"
        BY <1>7, <3>0
    <3>3. st \notin Between
        BY <1>1 DEF Saves, Between
    <3>4. g = f
        BY <1>2, <1>6, <1>13, <3>0, <3>1, <3>2 DEF Works
    <3>5. st # "committed"
        BY <1>5, <1>6, <3>0, <3>2, <3>4
    <3>6. n.pc \notin Between
        BY <1>1, <1>13, <3>5 DEF After, Saves, Between
    <3> QED BY <1>13, <3>4, <3>5, <3>6
  <2>4. n.pc \in Towards /\ run'[n.r].op # "disconnect" => ~journal'[n.r][n.f].proved
    <3>1. n.pc \in Towards => st = "effect_started"
        BY <1>1, <1>13 DEF After, Saves, Towards
    <3>2. st = "effect_started" /\ run[r].op # "disconnect" => ~j.proved
        BY <1>2 DEF Works, Towards
    <3>3. st = "effect_started" => (e.proved => j.proved)
        BY <1>5
    <3> QED BY <1>1, <1>6, <1>13, <3>1, <3>2, <3>3
  <2>5. n.pc # "write"
      BY <1>1, <1>13 DEF After, Saves
  <2> QED BY <2>1, <2>2, <2>3, <2>4, <2>5 DEF Works
<1>15. \A v \in Workers : Fits(v, wk[v])'
  <2> TAKE v \in Workers
  <2>1. CASE v = w
    <3>1. wk'[v] = n
        BY <1>13, <2>1 DEF IInv
    <3>2. n.began <= intent'.rev
        BY <1>1, <1>2, <1>13
    <3> QED BY <1>13, <1>14, <2>1, <3>1, <3>2 DEF Fits
  <2>2. CASE v # w
    <3>1. wk'[v] = wk[v]
        BY <1>13, <2>2 DEF IInv
    <3>2. AtWork(v) => Works(v, wk[v])
        BY DEF IInv, Fits, AtWork
    <3>3. AtWork(v) => wk[v].r \in Runs /\ wk[v].r # r
        BY <1>2, <2>2, <3>2 DEF Works
    <3>4. AtWork(v) => journal'[wk[v].r] = journal[wk[v].r]
        BY <1>6, <3>3
    <3> QED BY <1>1, <1>2, <3>1, <3>2, <3>4, OthersFit DEF Works
  <2> QED BY <2>1, <2>2
<1>16. wk' \in [Workers -> Threads]
    BY <1>13 DEF IInv
<1>17. Ends /\ Dated'
    BY <1>1 DEF Ends, Dated, IInv
<1> QED BY <1>10, <1>11, <1>12, <1>15, <1>16, <1>17 DEF IInv

\* What follows the mutations: the run is applied, verified, and ends, or the
\* thread gives it up.
LEMMA EndingOK ==
  ASSUME IInv, NEW w \in Workers,
         \/ markApplied(w) \/ isolateRecoveryFailure(w) \/ verify(w) \/ promote(w)
         \/ commitVerifiedRun(w) \/ blockVerified(w) \/ commitFails(w) \/ needsRecovery(w)
         \/ sourceUnavailable(w)
  PROVE  IInv' /\ Ends
<1> DEFINE r == wk[w].r
<1>1. AtWork(w) /\ UNCHANGED <<content, journal, inst, intent>>
    BY DEF markApplied, isolateRecoveryFailure, verify, promote, commitVerifiedRun, blockVerified,
           commitFails, needsRecovery, sourceUnavailable, AtWork
<1>2. r \in Runs /\ run[r].st # "none" /\ run[r].st \in RunStates /\ wk[w].why \in Whys
    BY <1>1, AtWorkIs DEF Works, Threads
<1>3. "other" \in Whys /\ content' \in [Files -> Contents]
    BY <1>1, TypesAre DEF Whys, IInv
<1>4. UNCHANGED run => OwnRun(r)
  <2>1. run \in [Runs -> RunRecords]
      BY TypesAre DEF IInv
  <2> QED BY <1>2, <2>1 DEF OwnRun
<1>5. ASSUME OwnRun(r), finish(w) PROVE IInv' /\ Ends
    BY <1>1, <1>5, FinishOK
<1>6. ASSUME UNCHANGED run, NEW why \in Whys, failing(w, why) PROVE IInv' /\ Ends
  <2>1. "failed" \in Pcs /\ "failed" \notin Filed \cup Between \cup Towards \cup {"idle", "prepare", "write"}
      BY DEF Pcs, Filed, Between, Towards, Saves
  <2> QED BY <1>1, <1>3, <1>6, <2>1, GotoOK
<1>7. ASSUME NEW why \in Whys, setRunState(r, "needs_recovery", why) PROVE OwnRun(r)
    BY <1>2, <1>7, SetStateOK
<1>8. CASE markApplied(w)
  <2>1. OwnRun(r)
      BY <1>2, <1>3, <1>8, SetStateOK DEF markApplied
  <2>2. CASE finish(w)
      BY <1>5, <2>1, <2>2
  <2>3. CASE goto(w, "verify")
      BY <1>1, <2>1, <2>3, SetAndGotoOK DEF Between
  <2> QED BY <1>8, <2>2, <2>3 DEF markApplied
<1>9. CASE isolateRecoveryFailure(w)
  <2>1. OwnRun(r)
      BY <1>3, <1>4, <1>7, <1>9 DEF isolateRecoveryFailure
  <2> QED BY <1>5, <1>9, <2>1 DEF isolateRecoveryFailure
<1>10. CASE verify(w)
  <2>1. UNCHANGED run /\ "verification" \in Whys
      BY <1>10 DEF verify, Whys
  <2>2. CASE failing(w, "verification")
      BY <1>6, <2>1, <2>2
  <2>3. CASE finish(w)
      BY <1>4, <1>5, <2>1, <2>3
  <2>4. CASE goto(w, "promote")
    <3>1. "promote" \in Pcs /\ "promote" \notin Filed \cup Between \cup Towards \cup {"idle", "prepare", "write"}
        BY DEF Pcs, Filed, Between, Towards, Saves
    <3> QED BY <1>1, <1>3, <2>1, <2>4, <3>1, GotoOK
  <2> QED BY <1>10, <2>2, <2>3, <2>4 DEF verify
<1>11. CASE promote(w)
  <2>1. CASE setRunState(r, "verified", "other") /\ goto(w, "commit")
    <3>1. OwnRun(r)
        BY <1>2, <1>3, <2>1, SetStateOK
    <3> QED BY <1>1, <2>1, <3>1, SetAndGotoOK DEF Between
  <2>2. CASE UNCHANGED run /\ failing(w, "other")
      BY <1>3, <1>6, <2>2
  <2> QED BY <1>11, <2>1, <2>2 DEF promote
<1>12. CASE commitVerifiedRun(w) \/ blockVerified(w)
  <2>1. run[r].st = "verified" /\ finish(w)
      BY <1>12 DEF commitVerifiedRun, blockVerified
  <2>2. CASE UNCHANGED run
      BY <1>4, <1>5, <2>1, <2>2
  <2>3. CASE setRunState(r, "committed", "other")
    <3>1. OwnRun(r)
        BY <1>2, <1>3, <2>3, SetStateOK
    <3> QED BY <1>5, <2>1, <3>1
  <2>4. CASE run' = [run EXCEPT ![r].st = "cancelled"]
    <3>1. "cancelled" \in RunStates \ {"none"} /\ "cancelled" \notin NonTerminal
        BY DEF RunStates, NonTerminal, InFlight
    <3>2. OwnRun(r)
        BY <1>2, <1>3, <2>1, <2>4, <3>1, OwnRunIs
    <3> QED BY <1>5, <2>1, <3>2
  <2> QED BY <1>12, <2>2, <2>3, <2>4 DEF commitVerifiedRun, blockVerified
<1>13. CASE commitFails(w)
  <2>1. finish(w)
      BY <1>13 DEF commitFails
  <2>2. CASE UNCHANGED run
      BY <1>4, <1>5, <2>1, <2>2
  <2>3. CASE run[r].st \in PreviousStates("needs_recovery")
             /\ run' = [run EXCEPT ![r].st = "needs_recovery"]
    <3>1. run[r].st \in NonTerminal /\ run[r].st # "verified"
        BY <2>3 DEF PreviousStates, NonTerminal, InFlight
    <3>2. "needs_recovery" \in RunStates \ {"none"}
        BY DEF RunStates, NonTerminal
    <3> HIDE DEF r
    <3>3. OwnRun(r)
        BY <1>2, <1>3, <2>3, <3>1, <3>2, OwnRunIs
    <3> QED BY <1>5, <2>1, <3>3 DEF r
  <2> QED BY <1>13, <2>2, <2>3 DEF commitFails
<1>14. CASE needsRecovery(w)
  <2>1. OwnRun(r)
      BY <1>2, <1>4, <1>7, <1>14 DEF needsRecovery
  <2> QED BY <1>5, <1>14, <2>1 DEF needsRecovery
<1>15. CASE sourceUnavailable(w)
    BY <1>4, <1>5, <1>15 DEF sourceUnavailable
<1> QED BY <1>8, <1>9, <1>10, <1>11, <1>12, <1>13, <1>14, <1>15

-----------------------------------------------------------------------------
(* Preparations and recoveries.                                            *)

\* A preparation takes a run nobody knows; the runs it overtakes are not being
\* applied and have nothing left to write.
LEMMA PrepareOK ==
  ASSUME IInv, NEW w \in Workers, prepareExecution(w)
  PROVE  IInv' /\ Ends
<1> DEFINE op == wk[w].op
           files == {f \in Files : content[f] = Before(op)}
           waits(c, shared) ==
             {q \in Runs : \/ op = "repair" /\ Retirable(q, c)
                           \/ op = "connect" /\ files = {} /\ shared /\ Confirmable(q)}
           retired(c, shared) == waits(c, shared) \cup TakenOver(op, files)
           unproven(c, shared) ==
             {q \in Superseded(op) \ retired(c, shared) : run[q].st = "applied_unverified"}
           entries == [f \in Files |-> IF f \in files THEN [NoMutation EXCEPT !.st = "prepared"] ELSE NoMutation]
<1>1. PICK r \in Fresh, shared \in BOOLEAN :
        LET consent == IF op = "repair" THEN inst.consent ELSE r
            auto == Automatic(w, consent)
        IN  /\ op # "disconnect" => intent.ok /\ (auto => intent.rev = wk[w].began)
            /\ \A q \in Runs \ retired(consent, shared) : ~Overlaps(q, op)
            /\ run' = [q \in Runs |->
                 IF q = r THEN [op |-> op, st |-> "planned", auto |-> auto, rev |-> wk[w].began,
                                consent |-> consent, why |-> "other"]
                 ELSE IF q \in retired(consent, shared) THEN [run[q] EXCEPT !.st = "cancelled"]
                 ELSE IF q \in unproven(consent, shared) THEN [run[q] EXCEPT !.st = "needs_recovery", !.why = "other"]
                 ELSE run[q]]
            /\ journal' = [journal EXCEPT ![r] = entries]
            /\ inst' = [desired |-> Wanted(op), consent |-> consent]
            /\ executionFence' = [executionFence EXCEPT ![r] = w]
            /\ wk' = [wk EXCEPT ![w].pc = "start", ![w].r = r, ![w].began = intent.rev]
    BY DEF prepareExecution
<1> DEFINE consent == IF op = "repair" THEN inst.consent ELSE r
           auto == Automatic(w, consent)
           gone == retired(consent, shared)
           left == unproven(consent, shared)
           new == [op |-> op, st |-> "planned", auto |-> auto, rev |-> wk[w].began,
                   consent |-> consent, why |-> "other"]
<1>2. wk[w].pc = "prepare" /\ UNCHANGED <<content, intent, writerFence>>
    BY DEF prepareExecution
<1>3. r \in Runs /\ run[r].st = "none"
    BY DEF Fresh
<1>4. /\ run \in [Runs -> RunRecords] /\ journal \in [Runs -> [Files -> Entries]]
      /\ content \in [Files -> Contents] /\ intent \in [ok : BOOLEAN, rev : 0 .. MaxRev]
      /\ intent.rev \in 0 .. MaxRev /\ intent.rev \in Nat
      /\ inst.consent \in 0 .. MaxRuns /\ inst.desired \in Desires
      /\ writerFence \in [Files -> Workers \cup {"free", "stale"}]
      /\ executionFence \in [Runs -> Workers \cup {"free"}]
    BY TypesAre DEF IInv
<1>5. /\ wk[w] \in Threads /\ op \in Ops /\ wk[w].began \in 0 .. MaxRev /\ wk[w].began <= intent.rev
      /\ wk[w].rec \in BOOLEAN
    BY DEF IInv, Fits, Threads
<1>6. consent \in 0 .. MaxRuns /\ (op = "repair" => consent = inst.consent)
    BY <1>3, <1>4, BoundsAssumption DEF Runs
<1>7. auto \in BOOLEAN /\ (op = "disconnect" => ~auto)
  <2>1. op = "connect" => auto \in BOOLEAN
      BY DEF Automatic
  <2>2. op # "connect" => auto \in BOOLEAN
      BY ZenonT(30) DEF Automatic
  <2> QED BY <2>1, <2>2 DEF Automatic
<1>8. \A q \in gone \cup left : q \in Runs /\ run[q].st \in {"applied_unverified", "needs_recovery"}
    BY DEF Retirable, Confirmable, TakenOver, Superseded
<1>9. r \notin gone \cup left
    BY <1>3, <1>8
<1>10. \A q \in Runs \ gone : ~Overlaps(q, op)
    BY <1>1
<1>11. run' = [q \in Runs |-> IF q = r THEN new
                 ELSE IF q \in gone THEN [run[q] EXCEPT !.st = "cancelled"]
                 ELSE IF q \in left THEN [run[q] EXCEPT !.st = "needs_recovery", !.why = "other"]
                 ELSE run[q]]
    BY <1>1
<1>12. /\ journal' = [journal EXCEPT ![r] = entries] /\ executionFence' = [executionFence EXCEPT ![r] = w]
       /\ wk' = [wk EXCEPT ![w].pc = "start", ![w].r = r, ![w].began = intent.rev]
       /\ inst' = [desired |-> Wanted(op), consent |-> consent]
    BY <1>1
<1> HIDE DEF gone, left, consent, auto
<1>13. new \in RunRecords /\ new.st = "planned" /\ new.op = op /\ new.auto = auto /\ new.rev = wk[w].began
    BY <1>5, <1>6, <1>7 DEF RunRecords, RunStates, NonTerminal, InFlight, Whys
<1> HIDE DEF new
<1>14. ASSUME NEW q \in Runs \ {r}
       PROVE  /\ run'[q] \in RunRecords /\ run'[q].op = run[q].op /\ run'[q].auto = run[q].auto
              /\ run'[q].rev = run[q].rev
              /\ \/ run'[q].st = run[q].st /\ q \notin gone
                 \/ run'[q].st = "cancelled" /\ q \in gone
                 \/ run'[q].st = "needs_recovery" /\ run[q].st = "applied_unverified" /\ q \notin gone
  <2>1. run[q] \in RunRecords
      BY <1>4
  <2>2. CASE q \in gone
    <3>1. run'[q] = [run[q] EXCEPT !.st = "cancelled"]
        BY <1>11, <2>2
    <3> QED BY <2>1, <2>2, <3>1 DEF RunRecords, RunStates
  <2>3. CASE q \notin gone /\ q \in left
    <3>1. run'[q] = [run[q] EXCEPT !.st = "needs_recovery", !.why = "other"]
        BY <1>11, <2>3
    <3>2. run[q].st = "applied_unverified"
        BY <2>3 DEF left
    <3> QED BY <2>1, <2>3, <3>1, <3>2 DEF RunRecords, RunStates, NonTerminal, Whys
  <2>4. CASE q \notin gone /\ q \notin left
      BY <1>11, <2>1, <2>4
  <2> QED BY <2>2, <2>3, <2>4
<1>15. run'[r] = new /\ run' \in [Runs -> RunRecords]
  <2>1. run'[r] = new
      BY <1>3, <1>11
  <2>2. \A q \in Runs : run'[q] \in RunRecords
      BY <1>13, <1>14, <2>1
  <2>3. DOMAIN run' = Runs /\ run' = [q \in Runs |-> run'[q]]
      BY <1>11
  <2> QED BY <2>1, <2>2, <2>3
<1>16. entries \in [Files -> Entries] /\ \A f \in Files : ~entries[f].proved
    BY DEF NoMutation, Entries, Saves
<1> HIDE DEF entries
<1>17. /\ journal' \in [Runs -> [Files -> Entries]] /\ journal'[r] = entries
       /\ \A q \in Runs \ {r} : journal'[q] = journal[q]
    BY <1>3, <1>4, <1>12, <1>16
<1>18. \A q \in Runs : Uncommitted(q)' = {g \in Files : journal'[q][g].st # "none" /\ journal'[q][g].st # "committed"}
    BY DEF Uncommitted, Mutated
<1>19. \A q \in Runs \ {r} : Uncommitted(q)' = Uncommitted(q)
    BY <1>17, <1>18, UncommittedIs
<1>20. TypeOK'
  <2>1. inst' \in [desired : Desires, consent : 0 .. MaxRuns]
      BY <1>6, <1>12 DEF Wanted, Desires
  <2>2. executionFence' \in [Runs -> Workers \cup {"free"}]
      BY <1>4, <1>12
  <2> QED BY <1>2, <1>4, <1>15, <1>17, <2>1, <2>2, TypesNext
<1>21. Journalled'
  <2> SUFFICES ASSUME NEW q \in Runs
               PROVE  /\ run'[q].st \in {"applied_unverified", "verified", "committed"} => Uncommitted(q)' = {}
                      /\ run'[q].op = "disconnect" => ~run'[q].auto
                      /\ \A f \in Files : journal'[q][f].proved /\ run'[q].op # "disconnect" => journal'[q][f].post
      BY DEF Journalled
  <2>1. CASE q = r
      BY <1>7, <1>13, <1>15, <1>16, <1>17, <2>1
  <2>2. CASE q # r
      BY <1>14, <1>17, <1>19, <2>2 DEF IInv, Journalled
  <2> QED BY <2>1, <2>2
<1>22. ASSUME NEW q \in Runs \ {r}, run'[q].st \in NonTerminal
       PROVE  run[q].st \in NonTerminal /\ Uncommitted(q) = {}
  <2>1. q \notin gone /\ run[q].st \in NonTerminal
      BY <1>14, <1>22 DEF NonTerminal, InFlight
  <2>2. run[q].st = "applied_unverified"
      BY <1>10, <2>1 DEF Overlaps
  <2> QED BY <2>1, <2>2 DEF IInv, Journalled
<1>23. Exclusive'
    BY <1>19, <1>22 DEF Exclusive
<1>24. PICK n : /\ wk' = [wk EXCEPT ![w] = n] /\ n \in Threads /\ n.pc = "start" /\ n.r = r
                /\ n.began = intent.rev
  <2> DEFINE s == wk[w]
             now == intent.rev
             n == [s EXCEPT !.pc = "start", !.r = r, !.began = now]
  <2>1. wk' = [wk EXCEPT ![w] = n]
      BY <1>12
  <2>2. n \in Threads /\ n.pc = "start" /\ n.r = r /\ n.began = now
    <3>1. "start" \in Pcs /\ r \in 0 .. MaxRuns /\ now \in 0 .. MaxRev /\ s \in Threads
        BY <1>3, <1>4, <1>5 DEF Pcs, Runs
    <3> HIDE DEF s, now
    <3> QED BY <3>1 DEF Threads
  <2> QED BY <2>1, <2>2
<1>25. Works(w, n)'
  <2>1. executionFence'[r] = w
      BY <1>3, <1>4, <1>12
  <2>2. \A g \in Uncommitted(n.r)' : ~journal'[n.r][g].proved
      BY <1>3, <1>16, <1>17, <1>18, <1>24
  <2>3. n.pc \notin Filed \cup Towards \cup {"write"}
      BY <1>24 DEF Filed, Saves, Towards
  <2> QED BY <1>3, <1>5, <1>13, <1>15, <1>24, <2>1, <2>2, <2>3 DEF Works
<1>26. \A v \in Workers : Fits(v, wk[v])'
  <2> TAKE v \in Workers
  <2>1. CASE v = w
    <3>1. wk'[v] = n
        BY <1>24, <2>1 DEF IInv
    <3>2. n.began <= intent'.rev
        BY <1>2, <1>4, <1>24
    <3> QED BY <1>24, <1>25, <2>1, <3>1, <3>2 DEF Fits
  <2>2. CASE v # w
    <3>1. wk'[v] = wk[v]
        BY <1>24, <2>2 DEF IInv
    <3>2. AtWork(v) => Works(v, wk[v])
        BY DEF IInv, Fits, AtWork
    <3>3. AtWork(v) => wk[v].r \in Runs \ {r}
        BY <1>3, <3>2 DEF Works
    <3>4. AtWork(v) => /\ run'[wk[v].r].st # "none"
                       /\ run'[wk[v].r].rev = run[wk[v].r].rev
                       /\ run'[wk[v].r].op = run[wk[v].r].op
                       /\ executionFence'[wk[v].r] = v
                       /\ journal'[wk[v].r] = journal[wk[v].r]
        BY <1>12, <1>14, <1>17, <3>2, <3>3 DEF Works
    <3>5. ~(AtWork(v) /\ wk[v].pc = "write")
      <4> SUFFICES ASSUME AtWork(v), wk[v].pc = "write" PROVE FALSE
          OBVIOUS
      <4>1. run[wk[v].r].st = "applying" /\ wk[v].r \in Runs
          BY <3>2, <3>3 DEF Works
      <4>2. wk[v].r \notin gone
          BY <1>8, <4>1
      <4>3. ~Overlaps(wk[v].r, op)
          BY <1>10, <4>1, <4>2
      <4> QED BY <4>1, <4>3 DEF Overlaps, NonTerminal, InFlight
    <3> QED BY <1>2, <1>4, <3>1, <3>4, <3>5, OthersFit
  <2> QED BY <2>1, <2>2
<1>27. wk' \in [Workers -> Threads]
    BY <1>24 DEF IInv
<1>28. Ends
  <2> SUFFICES ASSUME NEW q \in Runs, run[q].st = "verified" PROVE run'[q].st = "verified" \/ run'[q].st = "cancelled"
      BY DEF Ends
  <2> QED BY <1>3, <1>14
<1>29. Dated'
    BY <1>2, <1>5, <1>13, <1>14, <1>15 DEF Dated, IInv
<1> QED BY <1>20, <1>21, <1>23, <1>26, <1>27, <1>28, <1>29 DEF IInv

\* A change of a run that no thread owns.
LEMMA NobodysRunOK ==
  ASSUME IInv, NEW r \in Runs, OwnRun(r), executionFence[r] = "free",
         UNCHANGED <<content, journal, inst, intent, writerFence, executionFence, wk>>
  PROVE  IInv' /\ Ends
<1>1. TypeOK'
    BY TypesAre, TypesNext DEF IInv, OwnRun
<1>2. \A v \in Workers : Fits(v, wk[v])'
  <2> TAKE v \in Workers
  <2>1. AtWork(v) => Works(v, wk[v])
      BY DEF IInv, Fits, AtWork
  <2>2. v # "free" /\ intent.rev \in Nat
      BY TypesAre DEF Workers, IInv
  <2>3. AtWork(v) => wk[v].r \in Runs \ {r}
      BY <2>1, <2>2 DEF Works
  <2> QED BY <2>1, <2>2, <2>3, OthersFit DEF Works, OwnRun
<1>3. Journalled' /\ Exclusive' /\ Dated'
    BY StatesOK DEF OwnRun, Dated, IInv
<1>4. Ends
    BY DEF Ends, OwnRun
<1> QED BY <1>1, <1>2, <1>3, <1>4 DEF IInv

\* A run that cannot be recovered is nobody's.
LEMMA RecoveryRefusedOK ==
  ASSUME IInv, NEW r \in Runs, recoveryRefused(r)
  PROVE  IInv' /\ Ends
<1> DEFINE st == IF run[r].st = "verified" THEN "cancelled" ELSE "needs_recovery"
<1>1. /\ run[r].st \in NonTerminal /\ executionFence[r] = "free"
      /\ UNCHANGED <<content, journal, inst, intent, writerFence, executionFence, wk>>
      /\ run' = [run EXCEPT ![r].st = st, ![r].why = "other"]
    BY DEF recoveryRefused
<1>2. st \in RunStates \ {"none"} /\ "other" \in Whys /\ run[r].st # "none"
      /\ (run[r].st = "verified" => st = "cancelled")
      /\ st \notin {"applied_unverified", "verified", "committed"}
    BY <1>1 DEF RunStates, NonTerminal, InFlight, Whys
<1> HIDE DEF st
<1>3. OwnRun(r)
    BY <1>1, <1>2, OwnRunIs
<1> QED BY <1>1, <1>3, NobodysRunOK

\* A recovery takes a run that is nobody's, and may renew its date.
LEMMA RecoverRunOK ==
  ASSUME IInv, NEW r \in Runs, recoverRun(r)
  PROVE  IInv' /\ Ends
<1> DEFINE w == "maintenance"
           op == run[r].op
           may == Authorized(r)
           now == intent.rev
           st == run[r].st
           fences == IF st = "verified" THEN {} ELSE Mutated(r)
           n(pc) == [Idle EXCEPT !.pc = pc, !.op = op, !.r = r, !.rec = TRUE,
                                 !.auth = may, !.began = now, !.expect = st]
<1>1. /\ wk[w].pc = "idle" /\ st \in NonTerminal /\ executionFence[r] = "free"
      /\ UNCHANGED <<content, journal, inst, intent>> /\ w \in Workers
    BY DEF recoverRun, Workers
<1>2. \/ UNCHANGED <<run, writerFence, executionFence, wk>>
      \/ \E pc \in {"commit", "verify", "start"} :
           /\ run' = refreshed(r)
           /\ executionFence' = [executionFence EXCEPT ![r] = w]
           /\ writerFence' = [f \in Files |-> IF f \in fences THEN w ELSE writerFence[f]]
           /\ wk' = [wk EXCEPT ![w] = n(pc)]
    BY DEF recoverRun
<1>3. /\ run \in [Runs -> RunRecords] /\ now \in 0 .. MaxRev /\ now \in Nat
      /\ executionFence \in [Runs -> Workers \cup {"free"}]
      /\ writerFence \in [Files -> Workers \cup {"free", "stale"}]
      /\ content \in [Files -> Contents] /\ intent \in [ok : BOOLEAN, rev : 0 .. MaxRev]
      /\ inst \in [desired : Desires, consent : 0 .. MaxRuns] /\ wk \in [Workers -> Threads]
    BY TypesAre DEF IInv
<1>4. CASE UNCHANGED <<run, writerFence, executionFence, wk>>
    BY <1>1, <1>3, <1>4, QuietOK
<1>5. ASSUME NEW pc \in {"commit", "verify", "start"},
             run' = refreshed(r), executionFence' = [executionFence EXCEPT ![r] = w],
             writerFence' = [f \in Files |-> IF f \in fences THEN w ELSE writerFence[f]],
             wk' = [wk EXCEPT ![w] = n(pc)]
      PROVE  IInv' /\ Ends
  <2> DEFINE m == n(pc)
  <2>1. m \in Threads /\ m.pc = pc /\ m.r = r /\ m.rec = TRUE /\ m.began = now
    <3>1. op \in Ops /\ st \in RunStates
        BY <1>3 DEF RunRecords
    <3>2. may \in BOOLEAN
        BY ZenonT(30) DEF Authorized
    <3>3. pc \in Pcs /\ r \in 0 .. MaxRuns
        BY DEF Pcs, Runs
    <3>4. Idle \in Threads
        BY BoundsAssumption DEF Idle, Threads, Pcs, Ops, Desires, Contents, Whys
    <3> DEFINE i == Idle
    <3>5. i \in Threads /\ m = [i EXCEPT !.pc = pc, !.op = op, !.r = r, !.rec = TRUE,
                                         !.auth = may, !.began = now, !.expect = st]
        BY <3>4
    <3>6. now \in 0 .. MaxRev
        BY <1>3
    <3> HIDE DEF m, i, op, st, may, now
    <3> QED BY <3>1, <3>2, <3>3, <3>5, <3>6 DEF Threads
  <2> HIDE DEF m
  <2>2. /\ run' \in [Runs -> RunRecords] /\ run'[r].rev <= now
        /\ \A q \in Runs \ {r} : run'[q] = run[q]
        /\ run'[r].op = op /\ run'[r].auto = run[r].auto /\ run'[r].st = st
    <3>1. run[r].rev <= now /\ run[r] \in RunRecords
        BY <1>3 DEF IInv, Dated
    <3>2. CASE run' = [run EXCEPT ![r].rev = now]
      <4>1. run' = [run EXCEPT ![r] = [run[r] EXCEPT !.rev = now]]
          BY <1>3, <3>2
      <4>2. now \in 0 .. MaxRev /\ now <= now
          BY <1>3
      <4> HIDE DEF now
      <4>3. [run[r] EXCEPT !.rev = now] \in RunRecords
          BY <3>1, <4>2 DEF RunRecords
      <4> QED BY <1>3, <4>1, <4>2, <4>3 DEF RunRecords
    <3>3. CASE UNCHANGED run
        BY <1>3, <3>1, <3>3
    <3> QED BY <1>5, <3>2, <3>3 DEF refreshed
  <2>3. TypeOK'
    <3>1. writerFence' \in [Files -> Workers \cup {"free", "stale"}]
          /\ executionFence' \in [Runs -> Workers \cup {"free"}]
        BY <1>1, <1>3, <1>5
    <3>2. journal' \in [Runs -> [Files -> Entries]]
        BY <1>1, TypesAre DEF IInv
    <3> QED BY <1>1, <1>3, <2>2, <3>1, <3>2, TypesNext
  <2>4. \A v \in Workers : Fits(v, wk[v])'
    <3> TAKE v \in Workers
    <3>1. CASE v = w
      <4>1. wk'[v] = m
          BY <1>3, <1>5, <3>1 DEF m
      <4>2. pc \notin Filed \cup Towards \cup {"write"}
          BY DEF Filed, Saves, Towards
      <4>3. executionFence'[r] = w /\ run'[r].st # "none"
          BY <1>1, <1>3, <1>5, <2>2 DEF NonTerminal, InFlight
      <4>4. m.began <= intent'.rev
          BY <1>1, <1>3, <2>1
      <4> QED BY <2>1, <2>2, <3>1, <4>1, <4>2, <4>3, <4>4 DEF Fits, Works
    <3>2. CASE v # w
      <4>1. wk'[v] = wk[v] /\ v # "free"
          BY <1>3, <1>5, <3>2 DEF Workers
      <4>2. AtWork(v) => Works(v, wk[v])
          BY DEF IInv, Fits, AtWork
      <4>3. AtWork(v) => wk[v].r \in Runs \ {r}
          BY <1>1, <4>1, <4>2 DEF Works
      <4>4. AtWork(v) => executionFence'[wk[v].r] = v /\ run'[wk[v].r] = run[wk[v].r]
          BY <1>5, <2>2, <4>2, <4>3 DEF Works
      <4> QED BY <1>1, <1>3, <4>1, <4>2, <4>3, <4>4, OthersFit DEF Works
    <3> QED BY <3>1, <3>2
  <2>5. Journalled' /\ Exclusive'
    <3>1. \A q \in Runs : run'[q].op = run[q].op /\ run'[q].auto = run[q].auto /\ run'[q].st = run[q].st
        BY <2>2
    <3> QED BY <1>1, <3>1, StatesOK
  <2>6. Dated' /\ Ends
      BY <1>1, <2>2 DEF Dated, Ends, IInv
  <2>7. wk' \in [Workers -> Threads]
      BY <1>3, <1>5, <2>1 DEF m
  <2> QED BY <2>3, <2>4, <2>5, <2>6, <2>7 DEF IInv
<1> QED BY <1>2, <1>4, <1>5

-----------------------------------------------------------------------------
(* The specification.                                                      *)

\* Nothing is under way when the program is first started.
LEMMA InitOK ==
  Init => IInv
<1> SUFFICES ASSUME Init PROVE IInv
    OBVIOUS
<1>1. 0 \in 0 .. MaxRuns /\ 0 \in 0 .. MaxRev /\ 0 <= 0
    BY BoundsAssumption
<1>2. NoRun \in RunRecords /\ NoRun.st = "none" /\ NoRun.op # "disconnect" /\ NoRun.rev = 0
    BY <1>1 DEF NoRun, RunRecords, Ops, RunStates, Whys
<1>3. NoMutation \in Entries /\ NoMutation.st = "none" /\ ~NoMutation.proved
    BY DEF NoMutation, Entries
<1>4. Idle \in Threads /\ Idle.pc = "idle" /\ Idle.began = 0
    BY <1>1 DEF Idle, Threads, Pcs, Ops, Desires, Contents, Whys
<1>5. TypeOK /\ wk \in [Workers -> Threads]
  <2>1. content \in [Files -> Contents] /\ inst \in [desired : Desires, consent : 0 .. MaxRuns]
      BY <1>1 DEF Init, Contents, Desires
  <2>2. run \in [Runs -> RunRecords] /\ journal \in [Runs -> [Files -> Entries]] /\ wk \in [Workers -> Threads]
      BY <1>2, <1>3, <1>4 DEF Init
  <2>3. intent \in [ok : BOOLEAN, rev : 0 .. MaxRev]
        /\ writerFence \in [Files -> Workers \cup {"free", "stale"}]
        /\ executionFence \in [Runs -> Workers \cup {"free"}]
      BY <1>1 DEF Init
  <2> QED BY <2>1, <2>2, <2>3, TypesAre
<1>6. \A w \in Workers : Fits(w, wk[w])
    BY <1>1, <1>4 DEF Init, Fits
<1>7. Journalled /\ Dated
    BY <1>1, <1>2, <1>3 DEF Init, Journalled, Dated
<1>8. Exclusive
    BY <1>2 DEF Init, Exclusive, NonTerminal, InFlight
<1> QED BY <1>5, <1>6, <1>7, <1>8 DEF IInv

\* Every step keeps the invariant, and no verified run is taken up again.
LEMMA NextOK ==
  ASSUME IInv, [Next]_vars
  PROVE  IInv' /\ Ends
<1>1. ASSUME NEW w \in Workers, Step(w) PROVE IInv' /\ Ends
    BY <1>1, PrepareOK, OutsideOK, StartOK, NextMutationOK, RecoveryReadsOK, MutationOK, SaveOK, EndingOK
       DEF Step
<1>2. ASSUME NEW w \in Workers, Failure(w) PROVE IInv' /\ Ends
    BY <1>2, MutationOK, EndingOK DEF Failure
<1>3. ASSUME User \/ maintenanceActs \/ crash \/ \E f \in Files : leaseExpires(f) PROVE IInv' /\ Ends
    BY <1>3, OutsideOK
<1>4. ASSUME NEW r \in Runs, recoverRun(r) \/ recoveryRefused(r) PROVE IInv' /\ Ends
    BY <1>4, RecoverRunOK, RecoveryRefusedOK
<1>5. CASE UNCHANGED vars
  <2>1. /\ content \in [Files -> Contents] /\ writerFence \in [Files -> Workers \cup {"free", "stale"}]
        /\ executionFence \in [Runs -> Workers \cup {"free"}] /\ intent \in [ok : BOOLEAN, rev : 0 .. MaxRev]
        /\ inst \in [desired : Desires, consent : 0 .. MaxRuns] /\ wk \in [Workers -> Threads]
        /\ intent.rev \in Nat
      BY TypesAre DEF IInv
  <2> QED BY <1>5, <2>1, QuietOK DEF vars
<1> QED BY <1>1, <1>2, <1>3, <1>4, <1>5 DEF Next

\* The inductive invariant.
THEOREM Invariance == Spec => []IInv
<1>1. IInv /\ [Next]_vars => IInv'
    BY NextOK
<1> QED BY <1>1, InitOK, PTL DEF Spec

\* Every table keeps its types (coordinator-repository.ts, repository.ts).
THEOREM WellFormed == Spec => []TypeOK
<1>1. IInv => TypeOK
    BY DEF IInv
<1> QED BY <1>1, Invariance, PTL

\* What is presented as applied was journalled to the end (markApplied, however
\* often the run was interrupted and recovered).
THEOREM AppliedIsComplete == Spec => []AppliedIsJournalled
<1>1. IInv => AppliedIsJournalled
    BY DEF IInv, Journalled, AppliedIsJournalled
<1> QED BY <1>1, Invariance, PTL

\* At most one run has a file left to write (ensureManagedFence with the two
\* ways a run may be overtaken).
THEOREM FilesAreExclusive == Spec => []OneRunPerFile
<1>1. ASSUME IInv PROVE OneRunPerFile
  <2> SUFFICES ASSUME NEW f \in Files
               PROVE  Cardinality({r \in Runs : run[r].st \in NonTerminal /\ f \in Uncommitted(r)}) <= 1
      BY DEF OneRunPerFile
  <2> DEFINE S == {r \in Runs : run[r].st \in NonTerminal /\ f \in Uncommitted(r)}
  <2>1. CASE S = {}
    <3>1. Cardinality(S) = 0
        BY <2>1, FS_EmptySet
    <3> QED BY <3>1
  <2>2. CASE S # {}
    <3>1. PICK r \in S : TRUE
        BY <2>2
    <3>2. S = {r}
        BY <1>1, <3>1 DEF IInv, Exclusive
    <3>3. Cardinality({r}) = 1
        BY FS_Singleton
    <3>4. Cardinality(S) = 1
        BY <3>2, <3>3, Zenon
    <3> QED BY <3>4
  <2> QED BY <2>1, <2>2
<1> QED BY <1>1, Invariance, PTL

\* What a thread about to write relies on.
LEMMA WriterIs ==
  ASSUME IInv, NEW w \in Workers, wk[w].pc = "write"
  PROVE  run[wk[w].r].op # "disconnect" =>
           ~journal[wk[w].r][wk[w].f].proved /\ inst.desired \in {"managed", "disabled"}
BY DEF IInv, Fits, Works, Towards

\* A run never writes a file again that its journal holds as written
\* (recoverMutation with hasDurableEffectEvidence).
THEOREM InstalledOnce == Spec => NoSecondInstall
<1>1. ASSUME IInv, [Next]_vars
      PROVE  [\A w \in Workers : Writes(w) /\ run[wk[w].r].op # "disconnect"
                 => ~journal[wk[w].r][wk[w].f].proved]_vars
    BY <1>1, WriterIs DEF Writes
<1> QED BY <1>1, Invariance, PTL DEF Spec, NoSecondInstall

\* Once a disconnection is prepared no earlier run writes the fragment back
\* (ensureManagedFence and the checks at the boundary).
THEOREM DisconnectionSticks == Spec => DisconnectSticks
<1>1. ASSUME IInv, [Next]_vars
      PROVE  [\A w \in Workers : Writes(w) /\ inst.desired = "removed" => run[wk[w].r].op = "disconnect"]_vars
    BY <1>1, WriterIs DEF Writes
<1> QED BY <1>1, Invariance, PTL DEF Spec, DisconnectSticks

\* Only the last checks lead from the boundary to the write.
LEMMA BoundaryIs ==
  ASSUME IInv, Next, NEW w \in Workers, wk[w].pc = "boundary", wk'[w].pc = "write"
  PROVE  crossBoundary(w)
<1>1. wk \in [Workers -> Threads] /\ wk'[w] # wk[w]
    BY DEF IInv
<1>2. ASSUME NEW v \in Workers, Step(v) \/ Failure(v), ~crossBoundary(v)
      PROVE  FALSE
  <2>1. CASE v # w
    <3>1. CASE Failure(v) \/ prepareExecution(v) \/ prepareRefused(v) \/ start(v) \/ markApplying(v)
               \/ nextMutation(v)
        BY <1>1, <1>2, <2>1, <3>1 DEF Failure, prepareExecution, prepareRefused, start, markApplying,
             nextMutation, saveFails, loseLease, commitFails, sourceUnavailable, goto, failing, finish
    <3>2. CASE recoveryReads(v) \/ recoveryDecides(v) \/ saveMutation(v) \/ claimEffect(v)
               \/ checkPrecondition(v) \/ adapterApply(v) \/ readBack(v)
        BY <1>1, <1>2, <2>1, <3>2 DEF recoveryReads, recoveryDecides, saveMutation, claimEffect,
             checkPrecondition, adapterApply, readBack, goto
    <3>3. CASE markApplied(v) \/ isolateRecoveryFailure(v) \/ verify(v) \/ promote(v)
               \/ commitVerifiedRun(v) \/ blockVerified(v) \/ needsRecovery(v)
        BY <1>1, <1>2, <2>1, <3>3 DEF markApplied, isolateRecoveryFailure, verify, promote,
             commitVerifiedRun, blockVerified, needsRecovery, goto, failing, finish
    <3> QED BY <1>2, <3>1, <3>2, <3>3 DEF Step
  <2>2. CASE v = w
    <3>1. loseLease(w)
        BY <1>2, <2>2 DEF Step, Failure, prepareExecution, prepareRefused, start, markApplying, nextMutation,
             recoveryReads, recoveryDecides, saveMutation, claimEffect, checkPrecondition, adapterApply,
             readBack, markApplied, isolateRecoveryFailure, verify, promote, commitVerifiedRun,
             blockVerified, needsRecovery, saveFails, commitFails, sourceUnavailable, Saves
    <3> QED BY <1>1, <3>1 DEF loseLease, goto
  <2> QED BY <2>1, <2>2
<1>3. User => FALSE
    BY <1>1 DEF User, userConnects, userDisconnects, pause, resume, userEdits, request
<1>4. maintenanceActs => FALSE
    BY <1>1 DEF maintenanceActs, request
<1>5. crash => FALSE
    BY <1>1 DEF crash, Idle
<1>6. (\E f \in Files : leaseExpires(f)) => FALSE
    BY <1>1 DEF leaseExpires
<1>7. (\E r \in Runs : recoverRun(r) \/ recoveryRefused(r)) => FALSE
    BY <1>1 DEF recoverRun, recoveryRefused
<1>8. \E v \in Workers : (Step(v) \/ Failure(v)) /\ crossBoundary(v)
    BY <1>2, <1>3, <1>4, <1>5, <1>6, <1>7 DEF Next
<1> QED BY <1>1, <1>8 DEF crossBoundary, goto

\* An automatic attempt crosses to its effect only for the choice it began with
\* (isRunConnectionIntentCurrent, whoever refreshed the run meanwhile).
THEOREM OldWorkEnds == Spec => OldWorkStops
<1>1. ASSUME IInv, [Next]_vars
      PROVE  [\A w \in Workers : wk[w].pc = "boundary" /\ wk'[w].pc = "write" /\ run[wk[w].r].auto
                 => wk[w].began = intent.rev]_vars
  <2> SUFFICES ASSUME Next, NEW w \in Workers, wk[w].pc = "boundary", wk'[w].pc = "write", run[wk[w].r].auto
               PROVE  wk[w].began = intent.rev
      BY <1>1 DEF vars
  <2>1. crossBoundary(w)
      BY <1>1, BoundaryIs
  <2>2. /\ run[wk[w].r].rev \in Nat /\ wk[w].began \in Nat /\ intent.rev \in Nat
        /\ wk[w].r \in Runs /\ Works(w, wk[w]) /\ wk[w].began <= intent.rev
    <3>1. AtWork(w)
        BY DEF AtWork
    <3> QED BY <1>1, <3>1, AtWorkIs, TypesAre DEF IInv, RunRecords, Threads
  <2>3. IntentCurrent(wk[w].r)
    <3>1. goto(w, "needs_recovery") => wk'[w].pc = "needs_recovery"
        BY <1>1 DEF goto, IInv, Threads
    <3> QED BY <2>1, <3>1 DEF crossBoundary
  <2>4. run[wk[w].r].rev = intent.rev
      BY <1>1, <2>2, <2>3 DEF IntentCurrent, IInv, Journalled
  <2> QED BY <2>2, <2>4 DEF Works
<1> QED BY <1>1, Invariance, PTL DEF Spec, OldWorkStops

\* A verified run is a token for the finalizer: no thread takes it up again
\* (recoverNonTerminalRuns, and a late needsRecovery).
THEOREM TokensOnlyEnd == Spec => VerifiedOnlyEnds
<1>1. ASSUME IInv, [Next]_vars
      PROVE  [Ends]_vars
    BY <1>1, NextOK
<1>2. VerifiedOnlyEnds <=> [][Ends]_vars
    BY PTL DEF VerifiedOnlyEnds, Ends
<1> QED BY <1>1, <1>2, Invariance, PTL DEF Spec

-----------------------------------------------------------------------------
(* The refinement of FileTurns.                                            *)

\* Where a thread goes on only if it has seen its effect
Recorded == {"receipt_persisted", "verified", "committed"}

\* A run that is at its end, or was never planned, has nothing left to write
Settled == \A r \in Runs : run[r].st \in {"none", "cancelled"} => Uncommitted(r) = {}

\* No entry gets past its observation without one
Witnessed ==
  \A r \in Runs : \A f \in Files :
    journal[r][f].st \in {"effect_observed", "receipt_persisted", "verified", "committed"}
      \/ journal[r][f].receipt => journal[r][f].proved
Sure(w) == wk[w].pc \in Recorded => journal[wk[w].r][wk[w].f].proved

EInv == Settled /\ Witnessed /\ \A w \in Workers : Sure(w)

\* A step of a run, or of none
Turned == [Turns!Next]_(Turns!vars)

\* No thread but one that records its effect comes to be sure of it
Keeps == \A v \in Workers : wk'[v] = wk[v] \/ wk'[v].pc \notin Recorded

\* The disconnection is as far as it was
Stays == inst'.desired = "removed" <=> inst.desired = "removed"

\* The phases of a run's states.
LEMMA PhaseIs ==
  /\ PhaseOf("none") = "none"
  /\ PhaseOf("planned") = "open" /\ PhaseOf("preconditions_checked") = "open"
  /\ PhaseOf("applying") = "open" /\ PhaseOf("needs_recovery") = "open"
  /\ PhaseOf("applied_unverified") = "shown" /\ PhaseOf("verified") = "verified"
  /\ PhaseOf("committed") = "over" /\ PhaseOf("cancelled") = "over"
BY DEF PhaseOf, InFlight

\* What FileTurns sees, when the tables it sees do not change.
LEMMA TurnsSame ==
  /\ (\A r \in Runs : run'[r].op = run[r].op) =>
       [r \in Runs |-> KindOf(run[r].op)]' = [r \in Runs |-> KindOf(run[r].op)]
  /\ (\A r \in Runs : run'[r].st = run[r].st) =>
       [r \in Runs |-> PhaseOf(run[r].st)]' = [r \in Runs |-> PhaseOf(run[r].st)]
  /\ journal' = journal =>
       /\ [r \in Runs |-> Uncommitted(r)]' = [r \in Runs |-> Uncommitted(r)]
       /\ [r \in Runs |-> {f \in Files : journal[r][f].proved}]' =
            [r \in Runs |-> {f \in Files : journal[r][f].proved}]
  /\ Stays => (IF inst.desired = "removed" THEN "remove" ELSE "install")' =
                (IF inst.desired = "removed" THEN "remove" ELSE "install")
BY DEF Uncommitted, Mutated, Stays

\* What a run does to one file is a step of FileTurns.
LEMMA TurnOnFile ==
  ASSUME NEW r \in Runs, NEW f \in Files,
         Turns!Write(r, f) \/ Turns!See(r, f) \/ Turns!Leave(r, f)
  PROVE  Turns!Next
<1>1. f \in [q \in Runs |-> Uncommitted(q)][r]
    BY DEF Turns!Write, Turns!See, Turns!Leave
<1>2. \E g \in [q \in Runs |-> Uncommitted(q)][r] : Turns!Write(r, g) \/ Turns!See(r, g) \/ Turns!Leave(r, g)
    BY <1>1
<1> QED BY <1>2 DEF Turns!Next

\* The journal and the runs' states stay, and so do the facts about them.
LEMMA EInvKept ==
  ASSUME IInv, EInv, UNCHANGED journal, Keeps,
         \A r \in Runs : run'[r].st \in {"none", "cancelled"} =>
           run[r].st \in {"none", "cancelled"} \/ Uncommitted(r) = {}
  PROVE  EInv'
<1>1. \A r \in Runs : Uncommitted(r)' = Uncommitted(r)
    BY DEF Uncommitted, Mutated
<1>2. Settled'
    BY <1>1 DEF EInv, Settled
<1>3. Witnessed'
    BY DEF EInv, Witnessed
<1>4. \A w \in Workers : Sure(w)'
    BY DEF EInv, Sure, Keeps
<1> QED BY <1>2, <1>3, <1>4 DEF EInv

\* Nothing happens to the runs.
LEMMA QuietTurns ==
  ASSUME IInv, EInv, UNCHANGED <<content, journal, edits>>, Keeps, Stays,
         \A r \in Runs : run'[r].op = run[r].op /\ run'[r].st = run[r].st
  PROVE  EInv' /\ Turned
<1>1. UNCHANGED Turns!vars
    BY TurnsSame DEF Turns!vars
<1> QED BY <1>1, EInvKept DEF Turned

\* What one step makes of the state of one run
Order == {<<"open", "shown">>, <<"shown", "open">>, <<"shown", "verified">>, <<"verified", "over">>}
Turning(r) ==
  /\ \A q \in Runs \ {r} : run'[q] = run[q]
  /\ run'[r].op = run[r].op
  /\ \/ PhaseOf(run'[r].st) = PhaseOf(run[r].st)
     \/ <<PhaseOf(run[r].st), PhaseOf(run'[r].st)>> \in Order
  /\ PhaseOf(run'[r].st) = "shown" => PhaseOf(run[r].st) = "shown" \/ Uncommitted(r) = {}
  /\ run'[r].st \in {"none", "cancelled"} =>
       run[r].st \in {"none", "cancelled"} \/ Uncommitted(r) = {}

\* One run is presented, doubted, verified or ended.
LEMMA TurningTurns ==
  ASSUME IInv, EInv, UNCHANGED <<content, journal, edits>>, Keeps, Stays, NEW r \in Runs, Turning(r)
  PROVE  EInv' /\ Turned
<1>1. EInv'
    BY EInvKept DEF Turning
<1> DEFINE phases == [q \in Runs |-> PhaseOf(run[q].st)]
           p == PhaseOf(run'[r].st)
<1>2. phases' = [phases EXCEPT ![r] = p]
    BY DEF Turning
<1>3. \A q \in Runs : run'[q].op = run[q].op
    BY DEF Turning
<1>4. CASE p = PhaseOf(run[r].st)
  <2>1. phases' = phases
      BY <1>2, <1>4
  <2>2. UNCHANGED Turns!vars
      BY <1>3, <2>1, TurnsSame DEF Turns!vars
  <2> QED BY <1>1, <2>2 DEF Turned
<1>5. CASE p # PhaseOf(run[r].st)
  <2>1. <<phases[r], p>> \in Order /\ p \in Turns!Phase
      BY <1>5 DEF Turning, Order, Turns!Phase
  <2>2. p = "shown" => Uncommitted(r) = {}
      BY <1>5 DEF Turning
  <2>3. Turns!Turned(r, p)
    <3> HIDE DEF p
    <3> QED BY <1>2, <1>3, <2>1, <2>2, TurnsSame DEF Turns!Turned, Order
  <2> QED BY <1>1, <2>1, <2>3 DEF Turned, Turns!Next
<1> QED BY <1>4, <1>5

\* setRunState turns a run as FileTurns allows.
LEMMA SetTurning ==
  ASSUME IInv, NEW r \in Runs, NEW why,
         NEW st \in {"preconditions_checked", "applying", "applied_unverified", "verified",
                     "committed", "needs_recovery"},
         setRunState(r, st, why), st = "applied_unverified" => Uncommitted(r) = {}
  PROVE  Turning(r)
<1>1. run[r].st \in PreviousStates(st) /\ run' = [run EXCEPT ![r].st = st, ![r].why = why]
    BY DEF setRunState
<1>2. run \in [Runs -> RunRecords]
    BY TypesAre DEF IInv
<1>3. run' = [run EXCEPT ![r] = [run[r] EXCEPT !.st = st, !.why = why]]
    BY <1>1, <1>2
<1>4. run'[r].st = st /\ run'[r].op = run[r].op /\ \A q \in Runs \ {r} : run'[q] = run[q]
    BY <1>2, <1>3 DEF RunRecords
<1>5. \/ PhaseOf(st) = PhaseOf(run[r].st)
      \/ <<PhaseOf(run[r].st), PhaseOf(st)>> \in Order
    BY <1>1, PhaseIs DEF PreviousStates, InFlight, Order
<1>6. PhaseOf(st) = "shown" => Uncommitted(r) = {}
    BY PhaseIs
<1> QED BY <1>4, <1>5, <1>6 DEF Turning

\* A run that is cancelled or left for recovery turns as FileTurns allows, too.
LEMMA EndTurning ==
  ASSUME IInv, NEW r \in Runs,
         NEW st \in {"cancelled", "needs_recovery"},
         st = "cancelled" => run[r].st = "verified",
         st = "needs_recovery" => run[r].st \in InFlight \cup {"applied_unverified", "needs_recovery"},
         NEW why \in Whys, run' = [run EXCEPT ![r].st = st] \/ run' = [run EXCEPT ![r].st = st, ![r].why = why]
  PROVE  Turning(r)
<1>1. run \in [Runs -> RunRecords]
    BY TypesAre DEF IInv
<1>2. \/ run' = [run EXCEPT ![r] = [run[r] EXCEPT !.st = st]]
      \/ run' = [run EXCEPT ![r] = [run[r] EXCEPT !.st = st, !.why = why]]
    BY <1>1
<1>3. run'[r].st = st /\ run'[r].op = run[r].op /\ \A q \in Runs \ {r} : run'[q] = run[q]
    BY <1>1, <1>2 DEF RunRecords
<1>4. \/ PhaseOf(st) = PhaseOf(run[r].st)
      \/ <<PhaseOf(run[r].st), PhaseOf(st)>> \in Order
    BY PhaseIs DEF InFlight, Order
<1>5. st = "cancelled" => Uncommitted(r) = {}
    BY DEF IInv, Journalled
<1>6. PhaseOf(st) # "shown"
    BY PhaseIs
<1> QED BY <1>3, <1>4, <1>5, <1>6 DEF Turning

\* A run that does not change turns, too.
LEMMA SameTurning ==
  ASSUME NEW r \in Runs, UNCHANGED run
  PROVE  Turning(r)
BY DEF Turning

\* A thread that goes somewhere else does not come to be sure of an effect.
LEMMA GoesKeeps ==
  ASSUME IInv, NEW w \in Workers
  PROVE  /\ \A pc : pc \notin Recorded /\ goto(w, pc) => Keeps
         /\ \A why : failing(w, why) => Keeps
         /\ finish(w) => Keeps
<1>1. wk \in [Workers -> Threads]
    BY DEF IInv
<1>2. ASSUME NEW pc, pc \notin Recorded, goto(w, pc)
      PROVE  Keeps
  <2>1. \A v \in Workers : wk'[v] = wk[v] \/ wk'[v].pc = pc
      BY <1>1, <1>2 DEF goto, Threads
  <2> QED BY <1>2, <2>1 DEF Keeps
<1>3. ASSUME NEW why, failing(w, why)
      PROVE  Keeps
  <2>1. \A v \in Workers : wk'[v] = wk[v] \/ wk'[v].pc = "failed"
      BY <1>1, <1>3 DEF failing, Threads
  <2> QED BY <2>1 DEF Keeps, Recorded
<1>4. ASSUME finish(w)
      PROVE  Keeps
  <2>1. \A v \in Workers : wk'[v] = wk[v] \/ wk'[v].pc = "idle"
      BY <1>1, <1>4 DEF finish, Idle
  <2> QED BY <2>1 DEF Keeps, Recorded
<1> QED BY <1>2, <1>3, <1>4

\* The steps of a thread that set the state of its run.
LEMMA RunSteps ==
  ASSUME IInv, EInv, NEW w \in Workers,
         \/ start(w) \/ markApplying(w) \/ markApplied(w) \/ isolateRecoveryFailure(w) \/ promote(w)
         \/ commitVerifiedRun(w) \/ blockVerified(w) \/ commitFails(w) \/ needsRecovery(w)
  PROVE  EInv' /\ Turned
<1> DEFINE r == wk[w].r
<1>1. UNCHANGED <<content, journal, inst, edits>> /\ Stays
    BY DEF start, markApplying, markApplied, isolateRecoveryFailure, promote, commitVerifiedRun,
         blockVerified, commitFails, needsRecovery, Stays
<1>2. AtWork(w)
    BY DEF start, markApplying, markApplied, isolateRecoveryFailure, promote, commitVerifiedRun,
         blockVerified, commitFails, needsRecovery, AtWork
<1>3. r \in Runs /\ wk[w].why \in Whys
    BY <1>2, AtWorkIs DEF Threads
<1>4. Keeps
  <2>1. \A pc \in {"next", "mark", "verify", "commit"} : pc \notin Recorded
      BY DEF Recorded
  <2> QED BY <2>1, GoesKeeps DEF start, markApplying, markApplied, isolateRecoveryFailure, promote,
             commitVerifiedRun, blockVerified, commitFails, needsRecovery
<1>5. Turning(r)
  <2>1. CASE start(w) \/ markApplying(w)
      BY <1>3, <2>1, SetTurning, SameTurning DEF start, markApplying
  <2>2. CASE markApplied(w)
      BY <1>3, <2>2, SetTurning DEF markApplied
  <2>3. CASE isolateRecoveryFailure(w) \/ promote(w) \/ needsRecovery(w)
      BY <1>3, <2>3, SetTurning, SameTurning DEF isolateRecoveryFailure, promote, needsRecovery
  <2>4. CASE commitVerifiedRun(w) \/ blockVerified(w)
    <3>1. run[r].st = "verified"
        BY <2>4 DEF commitVerifiedRun, blockVerified
    <3>2. UNCHANGED run \/ setRunState(r, "committed", "other") \/ run' = [run EXCEPT ![r].st = "cancelled"]
        BY <2>4 DEF commitVerifiedRun, blockVerified
    <3>3. CASE run' = [run EXCEPT ![r].st = "cancelled"]
        BY <1>3, <3>1, <3>3, EndTurning
    <3> QED BY <1>3, <3>2, <3>3, SetTurning, SameTurning
  <2>5. CASE commitFails(w)
    <3>1. CASE run' = [run EXCEPT ![r].st = "needs_recovery"] /\ run[r].st \in PreviousStates("needs_recovery")
      <4>1. run[r].st \in InFlight \cup {"applied_unverified", "needs_recovery"}
          BY <3>1 DEF PreviousStates
      <4> QED BY <1>3, <3>1, <4>1, EndTurning
    <3> QED BY <1>3, <2>5, <3>1, SameTurning DEF commitFails
  <2> QED BY <2>1, <2>2, <2>3, <2>4, <2>5
<1> QED BY <1>1, <1>3, <1>4, <1>5, TurningTurns

\* A run whose recovery is refused.
LEMMA RefusedSteps ==
  ASSUME IInv, EInv, NEW r \in Runs, recoveryRefused(r)
  PROVE  EInv' /\ Turned
<1> DEFINE st == IF run[r].st = "verified" THEN "cancelled" ELSE "needs_recovery"
<1>1. run' = [run EXCEPT ![r].st = st, ![r].why = "other"] /\ run[r].st \in NonTerminal
    BY DEF recoveryRefused
<1>2. Turning(r)
  <2>1. st \in {"cancelled", "needs_recovery"} /\ (st = "cancelled" => run[r].st = "verified")
        /\ (st = "needs_recovery" => run[r].st \in InFlight \cup {"applied_unverified", "needs_recovery"})
      BY <1>1 DEF NonTerminal
  <2>2. "other" \in Whys
      BY DEF Whys
  <2> HIDE DEF st
  <2> QED BY <1>1, <2>1, <2>2, EndTurning
<1>3. UNCHANGED <<content, journal, inst, wk, edits>> /\ Keeps /\ Stays
    BY DEF recoveryRefused, Keeps, Stays
<1> QED BY <1>2, <1>3, TurningTurns

\* The steps that FileTurns does not see.
LEMMA QuietSteps ==
  ASSUME IInv, EInv,
         \/ \E w \in Workers : \/ prepareRefused(w) \/ nextMutation(w) \/ loseLease(w) \/ recoveryReads(w)
                               \/ saveFails(w) \/ claimEffect(w) \/ checkPrecondition(w)
                               \/ crossBoundary(w) \/ readBack(w) \/ verify(w)
                               \/ sourceUnavailable(w)
         \/ userConnects \/ userDisconnects \/ pause \/ resume \/ maintenanceActs \/ crash
         \/ \E f \in Files : leaseExpires(f)
  PROVE  EInv' /\ Turned
<1>1. wk \in [Workers -> Threads] /\ Workers = {"apply", "maintenance"}
    BY DEF IInv, Workers
<1>2. ASSUME NEW w \in Workers, prepareRefused(w) \/ nextMutation(w) \/ recoveryReads(w)
      PROVE  UNCHANGED <<content, journal, run, inst, edits>> /\ Keeps
  <2>1. UNCHANGED <<content, journal, run, inst, edits>>
      BY <1>2 DEF prepareRefused, nextMutation, recoveryReads
  <2>2. CASE prepareRefused(w)
      BY <1>1, <2>2 DEF prepareRefused, Keeps, Idle, Recorded
  <2>3. CASE nextMutation(w)
    <3>1. CASE failing(w, "other")
        BY <2>1, <3>1, GoesKeeps
    <3>2. CASE \E f \in Files : wk' = [wk EXCEPT ![w].f = f, ![w].pc = IF wk[w].rec THEN "recover" ELSE "effect_started"]
      <4>1. wk'[w].pc \in {"recover", "effect_started"} /\ \A v \in Workers \ {w} : wk'[v] = wk[v]
          BY <1>1, <3>2 DEF Threads
      <4> QED BY <2>1, <4>1 DEF Keeps, Recorded
    <3> QED BY <2>3, <3>1, <3>2 DEF nextMutation, Uncommitted, Mutated
  <2>4. CASE recoveryReads(w)
    <3>1. wk'[w].pc \in {"decide", "needs_recovery"} /\ \A v \in Workers \ {w} : wk'[v] = wk[v]
        BY <1>1, <2>4 DEF recoveryReads, Threads
    <3> QED BY <2>1, <3>1 DEF Keeps, Recorded
  <2> QED BY <1>2, <2>1, <2>2, <2>3, <2>4
<1>3. ASSUME NEW w \in Workers, loseLease(w) \/ saveFails(w) \/ claimEffect(w) \/ checkPrecondition(w)
                                \/ crossBoundary(w) \/ readBack(w) \/ verify(w) \/ sourceUnavailable(w)
      PROVE  UNCHANGED <<content, journal, run, inst, edits>> /\ Keeps
  <2>1. \A pc \in {"needs_recovery", "precondition", "boundary", "write", "effect_observed", "promote"} : pc \notin Recorded
      BY DEF Recorded
  <2> QED BY <1>3, <2>1, GoesKeeps DEF loseLease, saveFails, claimEffect, checkPrecondition,
             crossBoundary, readBack, verify, sourceUnavailable
<1>4. ASSUME userConnects \/ userDisconnects \/ maintenanceActs
      PROVE  UNCHANGED <<content, journal, run, inst, edits>> /\ Keeps
  <2>1. PICK w \in Workers, op \in Ops, began \in 0 .. MaxRev : request(w, op, began)
    <3>1. "connect" \in Ops /\ "repair" \in Ops /\ "disconnect" \in Ops /\ 0 \in 0 .. MaxRev
        BY BoundsAssumption DEF Ops
    <3>2. intent.rev \in 0 .. MaxRev
        BY TypesAre DEF IInv
    <3> QED BY <1>1, <1>4, <3>1, <3>2 DEF userConnects, userDisconnects, maintenanceActs
  <2>2. wk'[w].pc = "prepare" /\ \A v \in Workers \ {w} : wk'[v] = wk[v]
      BY <1>1, <2>1 DEF request, Idle
  <2> QED BY <1>4, <2>2 DEF userConnects, userDisconnects, maintenanceActs, Keeps, Recorded
<1>5. ASSUME pause \/ resume \/ crash \/ \E f \in Files : leaseExpires(f)
      PROVE  UNCHANGED <<content, journal, run, edits>> /\ Stays /\ Keeps
  <2>1. CASE pause \/ resume
    <3>1. inst \in [desired : Desires, consent : 0 .. MaxRuns]
        BY TypesAre DEF IInv
    <3> QED BY <2>1, <3>1 DEF pause, resume, Stays, Keeps
  <2>2. CASE crash
      BY <1>1, <2>2 DEF crash, Stays, Keeps, Idle, Recorded
  <2>3. CASE \E f \in Files : leaseExpires(f)
      BY <2>3 DEF leaseExpires, Stays, Keeps
  <2> QED BY <1>5, <2>1, <2>2, <2>3
<1>6. UNCHANGED <<content, journal, run, edits>> /\ Stays /\ Keeps
    BY <1>2, <1>3, <1>4, <1>5 DEF Stays
<1> QED BY <1>6, QuietTurns

\* A recovery may take over the choice made since, and nothing else of the run.
LEMMA RecoverSteps ==
  ASSUME IInv, EInv, NEW r \in Runs, recoverRun(r)
  PROVE  EInv' /\ Turned
<1>1. UNCHANGED <<content, journal, inst, edits>> /\ Stays
    BY DEF recoverRun, Stays
<1>2. \A q \in Runs : run'[q].op = run[q].op /\ run'[q].st = run[q].st
  <2>1. run' = refreshed(r) \/ run' = run
      BY DEF recoverRun
  <2>2. run \in [Runs -> RunRecords]
      BY TypesAre DEF IInv
  <2> QED BY <2>1, <2>2 DEF refreshed, RunRecords
<1>3. Keeps
  <2>1. wk \in [Workers -> Threads] /\ "maintenance" \in Workers
      BY DEF IInv, Workers
  <2>2. UNCHANGED wk \/ \E pc \in {"commit", "verify", "start"} :
          wk' = [wk EXCEPT !["maintenance"] =
                  [Idle EXCEPT !.pc = pc, !.op = run[r].op, !.r = r, !.rec = TRUE,
                               !.auth = Authorized(r), !.began = intent.rev, !.expect = run[r].st]]
      BY DEF recoverRun
  <2>3. UNCHANGED wk \/ (wk'["maintenance"].pc \notin Recorded
                         /\ \A v \in Workers \ {"maintenance"} : wk'[v] = wk[v])
      BY <2>1, <2>2 DEF Idle, Recorded
  <2> QED BY <2>3 DEF Keeps
<1> QED BY <1>1, <1>2, <1>3, QuietTurns

\* A recovery that goes on from what it reads is as sure as the entry it read.
LEMMA DecideSteps ==
  ASSUME IInv, EInv, NEW w \in Workers, recoveryDecides(w)
  PROVE  EInv' /\ Turned
<1> DEFINE r == wk[w].r
           f == wk[w].f
           j == journal[r][f]
<1>1. UNCHANGED <<content, run, journal, inst, edits>> /\ wk[w].pc = "decide" /\ AtWork(w)
    BY DEF recoveryDecides, AtWork
<1>2. r \in Runs /\ f \in Uncommitted(r) /\ f \in Files /\ wk \in [Workers -> Threads]
    BY <1>1, AtWorkIs, UncommittedIs DEF Works, Filed, IInv
<1>3. PICK pc : goto(w, pc) /\ (pc = ResumeAt(j) \/ pc \in {"effect_started", "needs_recovery"})
    BY DEF recoveryDecides
<1>4. j \in Entries /\ j.st \notin {"none", "committed"}
    BY <1>2, TypesAre, UncommittedIs DEF IInv
<1>5. pc \in Recorded => j.proved
  <2>1. j.st \in {"effect_observed", "receipt_persisted", "verified"} \/ j.receipt => j.proved
      BY <1>2 DEF EInv, Witnessed
  <2>2. CASE j.st \in {"prepared", "effect_started"}
      BY <1>3, <2>2 DEF ResumeAt, Recorded
  <2>3. CASE j.st = "needs_recovery"
      BY <1>3, <2>1, <2>3 DEF ResumeAt, Recorded
  <2> QED BY <1>4, <2>1, <2>2, <2>3 DEF Entries, Saves
<1>6. wk'[w].pc = pc /\ wk'[w].r = r /\ wk'[w].f = f /\ \A v \in Workers \ {w} : wk'[v] = wk[v]
    BY <1>2, <1>3 DEF goto, Threads
<1>7. EInv'
  <2>1. Settled' /\ Witnessed'
      BY <1>1 DEF EInv, Settled, Witnessed, Uncommitted, Mutated
  <2>2. \A v \in Workers : Sure(v)'
      BY <1>1, <1>5, <1>6 DEF EInv, Sure
  <2> QED BY <2>1, <2>2 DEF EInv
<1>8. UNCHANGED Turns!vars
    BY <1>1, TurnsSame DEF Turns!vars, Stays
<1> QED BY <1>7, <1>8 DEF Turned

\* The file is written, by the run whose turn it is or by the user.
LEMMA WriteSteps ==
  ASSUME IInv, EInv, (\E w \in Workers : adapterApply(w)) \/ (\E f \in Files : userEdits(f))
  PROVE  EInv' /\ Turned
<1>1. UNCHANGED <<run, journal, inst>> /\ Stays
    BY DEF adapterApply, userEdits, Stays
<1>2. Keeps
  <2>1. "readback" \notin Recorded /\ "needs_recovery" \notin Recorded
      BY DEF Recorded
  <2> QED BY <2>1, GoesKeeps DEF adapterApply, userEdits, Keeps
<1>3. EInv'
    BY <1>1, <1>2, EInvKept
<1>4. CASE \E f \in Files : userEdits(f)
  <2>1. PICK f \in Files : /\ edits' = edits + 1
                          /\ \E c \in {"none", "ours", "user"} : content' = [content EXCEPT ![f] = c]
      BY <1>4 DEF userEdits
  <2>2. Turns!Edit(f)
      BY <1>1, <2>1, TurnsSame DEF Turns!Edit
  <2> QED BY <1>3, <2>2 DEF Turned, Turns!Next
<1>5. ASSUME NEW w \in Workers, adapterApply(w)
      PROVE  Turned
  <2> DEFINE r == wk[w].r
             f == wk[w].f
  <2>0. UNCHANGED edits
      BY <1>5 DEF adapterApply
  <2>1. CASE UNCHANGED content
      BY <1>1, <2>0, <2>1, TurnsSame DEF Turned, Turns!vars
  <2>2. CASE /\ content[f] \in {Before(run[r].op), "partial"}
             /\ \E c \in {Desired(run[r].op), "partial"} : content' = [content EXCEPT ![f] = c]
    <3>1. wk[w].pc = "write" /\ AtWork(w)
        BY <1>5 DEF adapterApply, AtWork
    <3>2. /\ r \in Runs /\ f \in Uncommitted(r) /\ f \in Files /\ run[r].st = "applying"
          /\ run[r].op # "disconnect" => ~journal[r][f].proved /\ inst.desired # "removed"
        BY <3>1, AtWorkIs, UncommittedIs DEF Works, Filed, Towards
    <3>3. /\ Before(run[r].op) = Turns!Before(KindOf(run[r].op))
          /\ Desired(run[r].op) = Turns!After(KindOf(run[r].op))
          /\ KindOf(run[r].op) = "install" => run[r].op # "disconnect"
        BY DEF Before, Desired, Turns!Before, Turns!After, KindOf
    <3>4. /\ UNCHANGED <<run, journal, inst, edits>> /\ KindOf(run[r].op) \in {"install", "remove"}
          /\ KindOf(run[r].op) = "install" => f \notin {g \in Files : journal[r][g].proved}
          /\ KindOf(run[r].op) = "install" =>
               (IF inst.desired = "removed" THEN "remove" ELSE "install") = "install"
        BY <1>1, <2>0, <3>2, <3>3 DEF KindOf
    <3>5. /\ content[f] \in {Turns!Before(KindOf(run[r].op)), "partial"}
          /\ \E c \in {Turns!After(KindOf(run[r].op)), "partial"} : content' = [content EXCEPT ![f] = c]
        BY <2>2, <3>3
    <3>6. [q \in Runs |-> KindOf(run[q].op)][r] = KindOf(run[r].op)
          /\ [q \in Runs |-> PhaseOf(run[q].st)][r] = "open"
          /\ [q \in Runs |-> Uncommitted(q)][r] = Uncommitted(r)
          /\ [q \in Runs |-> {g \in Files : journal[q][g].proved}][r] = {g \in Files : journal[r][g].proved}
        BY <3>2, PhaseIs
    <3>7. /\ UNCHANGED <<[q \in Runs |-> KindOf(run[q].op)], [q \in Runs |-> PhaseOf(run[q].st)]>>
          /\ UNCHANGED <<[q \in Runs |-> Uncommitted(q)], [q \in Runs |-> {g \in Files : journal[q][g].proved}]>>
          /\ UNCHANGED (IF inst.desired = "removed" THEN "remove" ELSE "install")
        BY <1>1, <3>4, TurnsSame
    <3>8. Turns!Write(r, f)
      <4> HIDE DEF r, f
      <4> QED BY <3>2, <3>4, <3>5, <3>6, <3>7 DEF Turns!Write
    <3> QED BY <3>2, <3>8, TurnOnFile DEF Turned
  <2> QED BY <1>5, <2>1, <2>2 DEF adapterApply
<1> QED BY <1>3, <1>4, <1>5

\* An entry moves on: its effect is seen, or its turn ends.
LEMMA SaveSteps ==
  ASSUME IInv, IInv', EInv, NEW w \in Workers, saveMutation(w)
  PROVE  EInv' /\ Turned
<1> DEFINE s == wk[w]
           r == wk[w].r
           f == wk[w].f
           st == wk[w].pc
           j == journal[r][f]
           e == Saved(j, run[r].op, st)
<1>1. /\ AtWork(w) /\ st \in Saves /\ st \in Filed /\ UNCHANGED <<content, run, inst, edits>> /\ Stays
      /\ j.st \in Predecessors(st) /\ journal' = [journal EXCEPT ![r][f] = e]
    BY DEF saveMutation, AtWork, Saves, Filed, Stays
<1>2. /\ r \in Runs /\ f \in Uncommitted(r) /\ f \in Files
      /\ run[r].st \in RunStates /\ run[r].st # "none"
    BY <1>1, AtWorkIs, UncommittedIs DEF Works
<1>3. j \in Entries /\ journal \in [Runs -> [Files -> Entries]] /\ wk \in [Workers -> Threads]
    BY <1>2, TypesAre DEF IInv
<1>4. /\ e.st = st
      /\ e.proved <=> j.proved \/ st = "effect_observed"
      /\ e.receipt <=> j.receipt \/ st = "receipt_persisted"
  <2> DEFINE post == j.post \/ (st = "effect_observed" /\ run[r].op # "disconnect")
             receipt == j.receipt \/ st = "receipt_persisted"
             proved == j.proved \/ st = "effect_observed"
  <2>1. e = [j EXCEPT !.st = st, !.post = post, !.receipt = receipt, !.proved = proved]
      BY <1>3 DEF Saved, Entries
  <2>2. e.st = st /\ e.proved = proved /\ e.receipt = receipt
    <3> HIDE DEF post, receipt, proved, j, e, st
    <3> QED BY <1>3, <2>1 DEF Entries
  <2> QED BY <2>2
<1> HIDE DEF e
<1>5. /\ journal'[r][f] = e /\ \A g \in Files \ {f} : journal'[r][g] = journal[r][g]
      /\ \A q \in Runs \ {r} : journal'[q] = journal[q]
    BY <1>1, <1>2, <1>3
<1>6. PhaseOf(run[r].st) = "open"
  <2>1. run[r].st \notin {"applied_unverified", "verified", "committed", "none", "cancelled"}
      BY <1>2 DEF IInv, Journalled, EInv, Settled
  <2> QED BY <1>2, <2>1, PhaseIs DEF RunStates, NonTerminal, InFlight
<1>7. j.proved => e.proved
    BY <1>4
<1>8. st \in Recorded => j.proved
    BY <1>2 DEF EInv, Sure
<1>9. Witnessed'
  <2>1. e.st \in {"effect_observed", "receipt_persisted", "verified", "committed"} \/ e.receipt => e.proved
      BY <1>2, <1>4, <1>8 DEF EInv, Witnessed, Recorded
  <2> QED BY <1>5, <2>1 DEF EInv, Witnessed
<1>10. \A q \in Runs : Uncommitted(q)' =
         IF q = r /\ st = "committed" THEN Uncommitted(r) \ {f} ELSE Uncommitted(q)
  <2>1. \A q \in Runs : Uncommitted(q)' = {g \in Files : journal'[q][g].st # "none" /\ journal'[q][g].st # "committed"}
      BY DEF Uncommitted, Mutated
  <2>2. st # "none"
      BY <1>1 DEF Saves
  <2>3. \A q \in Runs \ {r} : Uncommitted(q)' = Uncommitted(q)
      BY <1>5, <2>1, UncommittedIs
  <2>4. ASSUME NEW q \in Runs, q = r
        PROVE  Uncommitted(q)' = IF st = "committed" THEN Uncommitted(q) \ {f} ELSE Uncommitted(q)
    <3>1. \A g \in Files \ {f} : journal'[q][g] = journal[q][g]
        BY <1>5, <2>4
    <3>2. journal'[q][f].st = st /\ f \in Uncommitted(q)
        BY <1>2, <1>4, <1>5, <2>4
    <3>3. \A g \in Files : g \in Uncommitted(q)' <=> g \in Uncommitted(q) /\ (g = f => st # "committed")
        BY <1>2, <2>1, <2>2, <3>1, <3>2, UncommittedIs
    <3>4. Uncommitted(q)' \subseteq Files /\ Uncommitted(q) \subseteq Files
        BY <2>1, UncommittedIs
    <3> HIDE DEF f, st
    <3> QED BY <3>3, <3>4
  <2> QED BY <2>3, <2>4
<1>11. Settled'
    BY <1>1, <1>10 DEF EInv, Settled
<1>12. \A v \in Workers : Sure(v)'
  <2> TAKE v \in Workers
  <2>1. CASE v = w
    <3>1. /\ wk'[w].pc = After(w, st) /\ wk'[w].r = r
          /\ st # "committed" => wk'[w].f = f
        BY <1>3 DEF saveMutation, Threads
    <3>2. After(w, st) \in Recorded => st \in {"effect_observed", "receipt_persisted", "verified"}
        BY <1>1 DEF After, Saves, Recorded
    <3>3. st \in {"effect_observed", "receipt_persisted", "verified"} => e.proved
        BY <1>4, <1>8 DEF Recorded
    <3> QED BY <1>5, <2>1, <3>1, <3>2, <3>3 DEF Sure
  <2>2. CASE v # w
    <3>1. wk'[v] = wk[v]
        BY <1>3, <2>2 DEF saveMutation
    <3>2. ASSUME wk[v].pc \in Recorded
          PROVE  wk[v].r \in Runs /\ wk[v].r # r
      <4>1. AtWork(v) /\ AtWork(w)
          BY <1>1, <3>2 DEF AtWork, Recorded
      <4> QED BY <2>2, <4>1, AtWorkIs DEF Works
    <3> QED BY <1>5, <3>1, <3>2 DEF EInv, Sure
  <2> QED BY <2>1, <2>2
<1>13. EInv'
    BY <1>9, <1>11, <1>12 DEF EInv
<1> DEFINE pendings == [q \in Runs |-> Uncommitted(q)]
           seens == [q \in Runs |-> {g \in Files : journal[q][g].proved}]
<1>14. seens' = IF st = "effect_observed" THEN [seens EXCEPT ![r] = @ \cup {f}] ELSE seens
  <2>1. \A q \in Runs \ {r} : {g \in Files : journal'[q][g].proved} = {g \in Files : journal[q][g].proved}
      BY <1>5
  <2>2. {g \in Files : journal'[r][g].proved} =
          IF st = "effect_observed" THEN {g \in Files : journal[r][g].proved} \cup {f}
          ELSE {g \in Files : journal[r][g].proved}
      BY <1>2, <1>4, <1>5
  <2> QED BY <1>2, <2>1, <2>2
<1>15. pendings' = IF st = "committed" THEN [pendings EXCEPT ![r] = @ \ {f}] ELSE pendings
  <2>1. pendings' = [q \in Runs |-> Uncommitted(q)']
      OBVIOUS
  <2> QED BY <1>2, <1>10, <2>1
<1>16. CASE st = "effect_observed"
  <2>1. ASSUME NEW q \in Runs, NEW g \in Files, q = r, g = f
        PROVE  Turns!Next
    <3>1. Turns!See(q, g)
        BY <1>1, <1>2, <1>6, <1>14, <1>15, <1>16, <2>1, TurnsSame DEF Turns!See
    <3> QED BY <3>1, TurnOnFile
  <2> QED BY <1>2, <1>13, <2>1 DEF Turned
<1>17. CASE st = "committed"
  <2>1. f \in {g \in Files : journal[r][g].proved}
      BY <1>2, <1>8, <1>17 DEF Recorded
  <2>2. Turns!Leave(r, f)
      BY <1>1, <1>2, <1>6, <1>14, <1>15, <1>17, <2>1, TurnsSame DEF Turns!Leave
  <2> QED BY <1>2, <1>13, <2>2, TurnOnFile DEF Turned
<1>18. CASE st \notin {"effect_observed", "committed"}
  <2>1. UNCHANGED Turns!vars
      BY <1>1, <1>14, <1>15, <1>18, TurnsSame DEF Turns!vars
  <2> QED BY <1>13, <2>1 DEF Turned
<1> QED BY <1>16, <1>17, <1>18

\* What is left of the earlier runs when a new one is planned, and of the new one.
LEMMA PlanIs ==
  ASSUME IInv, EInv, NEW w \in Workers, prepareExecution(w)
  PROVE  \E r \in Runs, op \in Ops :
           /\ run[r].st = "none" /\ run'[r].st = "planned" /\ run'[r].op = op
           /\ inst'.desired = Wanted(op)
           /\ \A f \in Files : content[f] # "user"
           /\ \A f \in Files : journal'[r][f] =
                IF content[f] = Before(op) THEN [NoMutation EXCEPT !.st = "prepared"] ELSE NoMutation
           /\ wk'[w].pc = "start" /\ \A v \in Workers \ {w} : wk'[v] = wk[v]
           /\ \A q \in Runs \ {r} :
                /\ Uncommitted(q) = {} /\ journal'[q] = journal[q] /\ run'[q].op = run[q].op
                /\ \/ run'[q].st = run[q].st
                   \/ run[q].st \in {"applied_unverified", "needs_recovery"} /\ run'[q].st = "cancelled"
                   \/ run[q].st = "applied_unverified" /\ run'[q].st = "needs_recovery"
<1> DEFINE op == wk[w].op
           files == {f \in Files : content[f] = Before(op)}
           waits(c, shared) ==
             {q \in Runs : \/ op = "repair" /\ Retirable(q, c)
                           \/ op = "connect" /\ files = {} /\ shared /\ Confirmable(q)}
           retired(c, shared) == waits(c, shared) \cup TakenOver(op, files)
           unproven(c, shared) ==
             {q \in Superseded(op) \ retired(c, shared) : run[q].st = "applied_unverified"}
           entries == [f \in Files |-> IF f \in files THEN [NoMutation EXCEPT !.st = "prepared"] ELSE NoMutation]
<1>1. PICK r \in Fresh, shared \in BOOLEAN :
        LET consent == IF op = "repair" THEN inst.consent ELSE r
            auto == Automatic(w, consent)
        IN  /\ \A q \in Runs \ retired(consent, shared) : ~Overlaps(q, op)
            /\ run' = [q \in Runs |->
                 IF q = r THEN [op |-> op, st |-> "planned", auto |-> auto, rev |-> wk[w].began,
                                consent |-> consent, why |-> "other"]
                 ELSE IF q \in retired(consent, shared) THEN [run[q] EXCEPT !.st = "cancelled"]
                 ELSE IF q \in unproven(consent, shared) THEN [run[q] EXCEPT !.st = "needs_recovery", !.why = "other"]
                 ELSE run[q]]
            /\ journal' = [journal EXCEPT ![r] = entries]
            /\ inst' = [desired |-> Wanted(op), consent |-> consent]
            /\ wk' = [wk EXCEPT ![w].pc = "start", ![w].r = r, ![w].began = intent.rev]
            /\ \A f \in Files : content[f] # "user"
    BY DEF prepareExecution
<1> DEFINE consent == IF op = "repair" THEN inst.consent ELSE r
           gone == retired(consent, shared)
           left == unproven(consent, shared)
<1>2. r \in Runs /\ run[r].st = "none"
    BY DEF Fresh
<1>3. run \in [Runs -> RunRecords] /\ journal \in [Runs -> [Files -> Entries]] /\ wk \in [Workers -> Threads]
      /\ op \in Ops
    BY TypesAre DEF IInv, Threads
<1>4. \A q \in gone : run[q].st \in {"applied_unverified", "needs_recovery"} /\ Uncommitted(q) = {}
    BY DEF Retirable, Confirmable, TakenOver, Superseded
<1>5. /\ \A q \in Runs \ gone : ~Overlaps(q, op)
      /\ run' = [q \in Runs |->
           IF q = r THEN [op |-> op, st |-> "planned", auto |-> Automatic(w, consent), rev |-> wk[w].began,
                          consent |-> consent, why |-> "other"]
           ELSE IF q \in gone THEN [run[q] EXCEPT !.st = "cancelled"]
           ELSE IF q \in left THEN [run[q] EXCEPT !.st = "needs_recovery", !.why = "other"]
           ELSE run[q]]
    BY <1>1
<1>6. \A q \in left : run[q].st = "applied_unverified"
    OBVIOUS
<1> HIDE DEF gone, left, consent
<1>7. ASSUME NEW q \in Runs \ {r}
      PROVE  /\ Uncommitted(q) = {} /\ run'[q].op = run[q].op
             /\ \/ run'[q].st = run[q].st
                \/ run[q].st \in {"applied_unverified", "needs_recovery"} /\ run'[q].st = "cancelled"
                \/ run[q].st = "applied_unverified" /\ run'[q].st = "needs_recovery"
  <2>1. run[q] \in RunRecords
      BY <1>3
  <2>2. Uncommitted(q) = {}
    <3>1. CASE q \in gone
        BY <1>4, <3>1
    <3>2. CASE q \notin gone /\ run[q].st \in NonTerminal
      <4>1. run[q].st = "applied_unverified"
          BY <1>5, <3>2 DEF Overlaps
      <4> QED BY <4>1 DEF IInv, Journalled
    <3>3. CASE run[q].st \notin NonTerminal
      <4>1. run[q].st \in {"none", "cancelled", "committed"}
          BY <2>1, <3>3 DEF RunRecords, RunStates
      <4> QED BY <4>1 DEF IInv, Journalled, EInv, Settled
    <3> QED BY <3>1, <3>2, <3>3
  <2>3. CASE q \in gone
    <3>1. run'[q] = [run[q] EXCEPT !.st = "cancelled"]
        BY <1>5, <2>3
    <3> QED BY <1>4, <2>1, <2>2, <2>3, <3>1 DEF RunRecords
  <2>4. CASE q \notin gone /\ q \in left
    <3>1. run'[q] = [run[q] EXCEPT !.st = "needs_recovery", !.why = "other"]
        BY <1>5, <2>4
    <3> QED BY <1>6, <2>1, <2>2, <2>4, <3>1 DEF RunRecords
  <2>5. CASE q \notin gone /\ q \notin left
      BY <1>5, <2>2, <2>5
  <2> QED BY <2>3, <2>4, <2>5
<1>8. run'[r].st = "planned" /\ run'[r].op = op
    BY <1>2, <1>5
<1>9. /\ journal'[r] = entries /\ \A q \in Runs \ {r} : journal'[q] = journal[q]
      /\ inst'.desired = Wanted(op) /\ \A f \in Files : content[f] # "user"
    BY <1>1, <1>2, <1>3
<1>10. wk'[w].pc = "start" /\ \A v \in Workers \ {w} : wk'[v] = wk[v]
    BY <1>1, <1>3 DEF Threads
<1>11. \A f \in Files : journal'[r][f] =
         IF content[f] = Before(op) THEN [NoMutation EXCEPT !.st = "prepared"] ELSE NoMutation
    BY <1>9
<1> HIDE DEF op, entries
<1> QED BY <1>2, <1>3, <1>7, <1>8, <1>9, <1>10, <1>11

\* A run is planned where no other run has its turn.
LEMMA PrepareSteps ==
  ASSUME IInv, IInv', EInv, NEW w \in Workers, prepareExecution(w)
  PROVE  EInv' /\ Turned
<1>1. PICK r \in Runs, op \in Ops :
           /\ run[r].st = "none" /\ run'[r].st = "planned" /\ run'[r].op = op
           /\ inst'.desired = Wanted(op)
           /\ \A f \in Files : content[f] # "user"
           /\ \A f \in Files : journal'[r][f] =
                IF content[f] = Before(op) THEN [NoMutation EXCEPT !.st = "prepared"] ELSE NoMutation
           /\ wk'[w].pc = "start" /\ \A v \in Workers \ {w} : wk'[v] = wk[v]
           /\ \A q \in Runs \ {r} :
                /\ Uncommitted(q) = {} /\ journal'[q] = journal[q] /\ run'[q].op = run[q].op
                /\ \/ run'[q].st = run[q].st
                   \/ run[q].st \in {"applied_unverified", "needs_recovery"} /\ run'[q].st = "cancelled"
                   \/ run[q].st = "applied_unverified" /\ run'[q].st = "needs_recovery"
    BY PlanIs
<1> DEFINE k == KindOf(op)
           files == {f \in Files : content[f] = Turns!Before(k)}
           kinds == [q \in Runs |-> KindOf(run[q].op)]
           phases == [q \in Runs |-> PhaseOf(run[q].st)]
           pendings == [q \in Runs |-> Uncommitted(q)]
           seens == [q \in Runs |-> {g \in Files : journal[q][g].proved}]
           last == IF inst.desired = "removed" THEN "remove" ELSE "install"
<1>2. UNCHANGED <<content, edits>>
    BY DEF prepareExecution
<1>3. \A f \in Files : /\ journal'[r][f].st = IF f \in files THEN "prepared" ELSE "none"
                       /\ ~journal'[r][f].proved /\ ~journal'[r][f].receipt
  <2>1. Before(op) = Turns!Before(k)
      BY DEF Before, Turns!Before, KindOf
  <2> QED BY <1>1, <2>1 DEF NoMutation
<1>4. \A q \in Runs : Uncommitted(q)' = {g \in Files : journal'[q][g].st # "none" /\ journal'[q][g].st # "committed"}
    BY DEF Uncommitted, Mutated
<1>5. \A q \in Runs \ {r} : Uncommitted(q)' = Uncommitted(q)
  <2>1. \A q \in Runs \ {r} : journal'[q] = journal[q]
      BY <1>1
  <2> QED BY <2>1 DEF Uncommitted, Mutated
<1>6. Uncommitted(r)' = files
    BY <1>3, <1>4
<1>7. EInv'
  <2>1. Settled'
      BY <1>1, <1>5 DEF EInv, Settled
  <2>2. Witnessed'
    <3>1. ASSUME NEW q \in Runs, NEW f \in Files,
                 journal'[q][f].st \in {"effect_observed", "receipt_persisted", "verified", "committed"}
                   \/ journal'[q][f].receipt
          PROVE  journal'[q][f].proved
      <4>1. CASE q = r
          BY <1>3, <3>1, <4>1
      <4>2. CASE q # r
          BY <1>1, <3>1, <4>2 DEF EInv, Witnessed
      <4> QED BY <4>1, <4>2
    <3> QED BY <3>1 DEF Witnessed
  <2>3. \A v \in Workers : Sure(v)'
    <3> TAKE v \in Workers
    <3>1. CASE v = w
        BY <1>1, <3>1 DEF Sure, Recorded
    <3>2. CASE v # w
      <4>1. wk'[v] = wk[v]
          BY <1>1, <3>2
      <4>2. wk[v].pc \in Recorded => wk[v].r \in Runs \ {r}
        <5>1. wk[v].pc \in Recorded => AtWork(v)
            BY DEF AtWork, Recorded
        <5> QED BY <1>1, <5>1, AtWorkIs DEF Works
      <4> QED BY <1>1, <4>1, <4>2 DEF EInv, Sure
    <3> QED BY <3>1, <3>2
  <2> QED BY <2>1, <2>2, <2>3 DEF EInv
<1>8. kinds' = [kinds EXCEPT ![r] = k]
    BY <1>1
<1>9. pendings' = [pendings EXCEPT ![r] = files]
  <2>1. pendings' = [q \in Runs |-> Uncommitted(q)']
      OBVIOUS
  <2> HIDE DEF files
  <2> QED BY <1>5, <1>6, <2>1
<1>10. seens' = [seens EXCEPT ![r] = {}]
  <2>1. {g \in Files : journal'[r][g].proved} = {}
      BY <1>3
  <2>2. \A q \in Runs \ {r} : {g \in Files : journal'[q][g].proved} = {g \in Files : journal[q][g].proved}
      BY <1>1
  <2> QED BY <2>1, <2>2
<1>11. last' = k
    BY <1>1 DEF Wanted, KindOf, Ops
<1>12. phases[r] = "none" /\ phases'[r] = "open" /\ phases' \in [Runs -> Turns!Phase]
  <2>1. \A q \in Runs : run'[q].st \in RunStates
      BY TypesNext DEF IInv, RunRecords
  <2>2. \A st \in RunStates : PhaseOf(st) \in Turns!Phase
      BY PhaseIs DEF RunStates, NonTerminal, InFlight, Turns!Phase
  <2> QED BY <1>1, <2>1, <2>2, PhaseIs
<1>13. \A q \in Runs \ {r} :
          /\ pendings[q] \cap files = {}
          /\ \/ phases'[q] = phases[q]
             \/ phases[q] \in {"open", "shown"} /\ pendings[q] = {} /\ phases'[q] = "over"
             \/ phases[q] = "shown" /\ phases'[q] = "open"
    BY <1>1, PhaseIs
<1>14. k \in Turns!Kind
    BY DEF KindOf, Turns!Kind
<1>15. Turns!Plan(r, k)
  <2> HIDE DEF k
  <2> QED BY <1>1, <1>2, <1>8, <1>9, <1>10, <1>11, <1>12, <1>13 DEF Turns!Plan, Turns!GivesWay
<1> QED BY <1>7, <1>14, <1>15 DEF Turned, Turns!Next

\* Every step is one of FileTurns, or it does not see it.
LEMMA StepTurns ==
  ASSUME IInv, IInv', EInv, [Next]_vars
  PROVE  EInv' /\ Turned
<1>1. ASSUME NEW w \in Workers, Step(w) \/ Failure(w) PROVE EInv' /\ Turned
    BY <1>1, PrepareSteps, QuietSteps, RunSteps, DecideSteps, SaveSteps, WriteSteps DEF Step, Failure
<1>2. CASE User \/ maintenanceActs \/ crash \/ \E f \in Files : leaseExpires(f)
    BY <1>2, QuietSteps, WriteSteps DEF User
<1>3. ASSUME NEW r \in Runs, recoverRun(r) \/ recoveryRefused(r) PROVE EInv' /\ Turned
    BY <1>3, RecoverSteps, RefusedSteps
<1>4. CASE UNCHANGED vars
    BY <1>4, QuietTurns DEF vars, Keeps, Stays
<1> QED BY <1>1, <1>2, <1>3, <1>4 DEF Next

\* FileTurns begins as AgentIntegration does.
LEMMA InitTurns == Init => EInv /\ Turns!Init
<1> SUFFICES ASSUME Init PROVE EInv /\ Turns!Init
    OBVIOUS
<1>1. \A r \in Runs : /\ run[r].st = "none" /\ run[r].op = "connect"
                      /\ \A f \in Files : /\ journal[r][f].st = "none"
                                          /\ ~journal[r][f].proved /\ ~journal[r][f].receipt
    BY DEF Init, NoRun, NoMutation
<1>2. \A r \in Runs : Uncommitted(r) = {} /\ {f \in Files : journal[r][f].proved} = {}
    BY <1>1, UncommittedIs
<1>3. EInv
    BY <1>1, <1>2 DEF Init, EInv, Settled, Witnessed, Sure, Recorded, Idle
<1>4. Turns!Init
    BY <1>1, <1>2, PhaseIs DEF Init, Turns!Init, KindOf
<1> QED BY <1>3, <1>4

\* What connections, repairs, disconnections and their recoveries do to the
\* files of another program is what FileTurns promises, whatever crashes,
\* lost leases and changes of mind come in between.
THEOREM FileTurnsImplemented == Spec => ImplementsFileTurns
<1>1. IInv /\ IInv' /\ EInv /\ [Next]_vars => EInv' /\ [Turns!Next]_(Turns!vars)
    BY StepTurns DEF Turned
<1> QED BY <1>1, InitTurns, Invariance, PTL DEF Spec, ImplementsFileTurns, Turns!Spec
=============================================================================
