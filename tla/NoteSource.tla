------------------------------ MODULE NoteSource ------------------------------
(***************************************************************************)
(* An Obsidian vault kept as memories: every note is cut into segments,    *)
(* each segment is digested into a node, and a sync state remembers which  *)
(* nodes stand for which text.  A full scan (at the start, by the poll     *)
(* timer, on demand) and the file watcher process notes in one thread that *)
(* gives way at every await; the user edits, deletes, archives the source  *)
(* and restores it meanwhile, and macOS evicts files to iCloud.            *)
(*                                                                         *)
(* Every write of the database is a transaction of its own: within one     *)
(* turn of the thread nothing else runs, but a write may fail and the      *)
(* process may die between two of them.                                    *)
(*                                                                         *)
(* Only the markdown pipeline is here.  A node is active or of no interest *)
(* (superseded, archived): recall filters both.  `stamp` is a note's       *)
(* mtime and size, unique to a write.                                      *)
(***************************************************************************)
EXTENDS Naturals, Sequences, FiniteSets, FiniteSetsExt, SequencesExt

CONSTANTS
    File,        \* notes of the vault
    Others,      \* whether the vault has notes that nobody touches
    Text,        \* what a note may say: sequences of numbered segments
    None,        \* no sync state, no timer, no node
    Watches,     \* bound: runs of the watcher on one note at once
    MaxNodes,    \* bound: nodes that are in use at once
    MaxRetries,  \* MAX_WATCHER_LOCK_RETRIES
    MaxEdits,    \* bound: the user's and iCloud's changes of the vault
    MaxFaults    \* bound: crashes, stops and failures

Id == 1 .. MaxNodes

\* What a sync state says of a note, and what a node stands for.
Version == [text : Seq(Nat), stamp : Nat, ids : Seq(Id)]
Segment == [file : File, what : Nat]

ASSUME SourceAssumption ==
    /\ Others \in BOOLEAN /\ Text \subseteq Seq(Nat \ {0})
    /\ None \notin Version \cup Segment
    /\ "scan" \notin Watches
    /\ MaxNodes \in Nat \ {0}
    /\ MaxRetries \in Nat /\ MaxEdits \in Nat /\ MaxFaults \in Nat

VARIABLES
    disk,     \* each note: here, away (dataless) or gone; its text and stamp
    state,    \* obsidian_sync: the text and stamp last digested, the nodes
    node,     \* the active nodes that a state or a run knows: whose segment each is
    worker,   \* processOneFile, for a scan and for the watcher
    scan,     \* SourceSyncLock: held by the first scan, a later one, or free
    queue,    \* filesToProcess: the notes the scan has yet to take
    stale,    \* staleFilePaths: the deleted notes whose state is yet to go
    orphans,  \* orphanNodeIds: the nodes yet to be archived for it
    stopped,  \* stoppedSources
    watching, \* watchers, pollTimers
    timer,    \* debounceTimers: attempts so far
    stray,    \* the other active nodes, left behind for ever
    spoiled,  \* notes whose versions were mixed in a known way (history)
    faults

sync == <<scan, queue, stale, orphans>>
source == <<stopped, watching, timer>>
vars == <<disk, state, node, worker, sync, source, stray, spoiled, faults>>

Job == File \X ({"scan"} \cup Watches)

Idle == [pc |-> "idle"]
Active(f) == {n \in Id : node[n] # None /\ node[n].file = f}
Free(f) ==
    /\ \A j \in Job : j[1] = f => worker[j] = Idle
    /\ orphans \cap Active(f) = {}

Resumes(j, pc) == worker[j] # Idle /\ worker[j].pc = pc

\* Within a turn that writes several times: nobody else in the thread runs.
MidTurn == stale # {} \/ orphans # {} \/ \E j \in Job : Resumes(j, "switch")

Init ==
    /\ disk \in [File -> [at : {"here"}, text : Text, stamp : {0}]]
    /\ state = [f \in File |-> None]
    /\ node = [n \in Id |-> None]
    /\ worker = [j \in Job |-> Idle]
    /\ scan = "none" /\ queue = {} /\ stale = {} /\ orphans = {}
    /\ stopped = TRUE /\ watching = FALSE
    /\ timer = [f \in File |-> None]
    /\ stray = {} /\ spoiled = {} /\ faults = 0

------------------------------------------------------------------------------
(* The vault.                                                              *)

Edits == FoldSet(LAMBDA f, sum : sum + disk[f].stamp, 0, File)

\* fs.watch reports a change, or misses it; an event restarts the timer.
Event(f) == timer' \in {timer} \cup (IF watching THEN {[timer EXCEPT ![f] = 0]} ELSE {})

\* The code reads the vault at the start of a turn: a change during the turn
\* is the same as one after it.
Change(f, at, text) ==
    /\ Edits < MaxEdits /\ ~MidTurn
    /\ disk' = [disk EXCEPT ![f] = [at |-> at, text |-> text, stamp |-> @.stamp + 1]]
    /\ Event(f)
    /\ UNCHANGED <<state, node, worker, sync, stopped, watching, stray, spoiled, faults>>

Edit(f) == \E t \in Text : disk[f].text # t /\ Change(f, "here", t)
\* A note deleted or renamed; one evicted to a .icloud stub, which the walk
\* skips without counting it, looks the same.
Delete(f) == disk[f].at # "gone" /\ Change(f, "gone", <<>>)

Evict(f) == disk[f].at = "here" /\ Change(f, "away", disk[f].text)
Download(f) == disk[f].at = "away" /\ Change(f, "here", disk[f].text)

\* isFileChanged: stamps first, then the text.
Changed(f) ==
    /\ disk[f].at = "here"
    /\ \/ state[f] = None
       \/ state[f].stamp # disk[f].stamp /\ state[f].text # disk[f].text

------------------------------------------------------------------------------
(* processOneFile.                                                         *)

Old(w) == IF w.was = None THEN <<>> ELSE w.was.ids
OldText(w) == IF w.was = None THEN <<>> ELSE w.was.text
Created(w) == Range(w.ids) \ Range(Old(w))

\* A segment whose hash is the one at its place keeps its node.
Reused(w, i) == i <= Len(OldText(w)) /\ i <= Len(Old(w)) /\ OldText(w)[i] = w.text[i]

\* The loop over the segments up to the next one that must be digested.
Onward(w) ==
    LET next == Min({i \in Len(w.ids) + 1 .. Len(w.text) + 1 :
                       i > Len(w.text) \/ ~Reused(w, i)})
    IN  [w EXCEPT !.pc = IF next > Len(w.text) THEN "switch" ELSE "stream",
                  !.ids = @ \o SubSeq(Old(w), Len(@) + 1, next - 1)]

\* Mutant: the old nodes beyond the new segments stay.
ReplacedInPairs(w) ==
    {Old(w)[i] : i \in {k \in DOMAIN Old(w) : k <= Len(w.ids) /\ Old(w)[k] # w.ids[k]}}

\* The old nodes that give way once all segments have a node.
Replaced(w) ==
    {Old(w)[i] : i \in {k \in DOMAIN Old(w) : k > Len(w.ids) \/ Old(w)[k] # w.ids[k]}}

Left(w) == {n \in Replaced(w) : node[n] # None}

\* The old version is no longer whole.
Torn(w) == w.pc \in {"switch", "tags"} /\ Left(w) # Replaced(w)

\* The note is read.  One that is blank or too short is skipped: preprocessFile
\* returns null, and neither its state nor its nodes are touched.
Begins(f) == Changed(f) /\ disk[f].text # <<>>
Begun(f) ==
    Onward([pc |-> "stream", was |-> state[f], text |-> disk[f].text,
            stamp |-> disk[f].stamp, ids |-> <<>>])

\* Mutant: the state takes the stamp the note has now.
WrittenRestat(f, w) == [text |-> w.text, stamp |-> disk[f].stamp, ids |-> w.ids]

\* updateSyncState: text and stamp are of the same reading.
Written(f, w) == [text |-> w.text, stamp |-> w.stamp, ids |-> w.ids]

Retire(ids) == [n \in Id |-> IF n \in ids THEN None ELSE node[n]]

\* The nodes that states and runs refer to.
Referred(states, workers) ==
    (UNION {Range(states[f].ids) : f \in {g \in File : states[g] # None}})
    \cup (UNION {Range(workers[j].ids) \cup Range(Old(workers[j])) :
                   j \in {k \in Job : workers[k] # Idle}})

\* Of these nodes, those nobody refers to any more stay active all the same.
LeaveBehind(ids) ==
    LET left == {n \in ids \ Referred(state', worker') : node[n] # None}
    IN  /\ stray' = stray \cup {node[n] : n \in left}
        /\ node' = Retire(left)

InUse == {n \in Id : node[n] # None} \cup Referred(state, worker)
Fresh == Min(Id \ InUse)

\* digest: the stream log is awaited, then the node is created.
CreateNode(j) ==
    LET f == j[1] w == worker[j]
    IN  /\ Resumes(j, "stream") /\ ~MidTurn
        /\ InUse # Id
        /\ node' = [node EXCEPT ![Fresh] = [file |-> f, what |-> w.text[Len(w.ids) + 1]]]
        /\ worker' = [worker EXCEPT ![j] = [w EXCEPT !.pc = "embed", !.ids = Append(@, Fresh)]]
        /\ UNCHANGED <<disk, state, sync, source, stray, spoiled, faults>>

\* The embedding is awaited; a stop noticed here leaves what was created.
Embedded(j) ==
    LET w == worker[j]
    IN  /\ Resumes(j, "embed") /\ ~MidTurn
        /\ IF stopped
           THEN /\ worker' = [worker EXCEPT ![j] = Idle]
                /\ UNCHANGED state /\ LeaveBehind(Created(w))
           ELSE /\ worker' = [worker EXCEPT ![j] = Onward(w)]
                /\ UNCHANGED <<state, node, stray>>
        /\ UNCHANGED <<disk, sync, source, spoiled, faults>>

\* supersedeNodeWithLinks, for one old node after the other in the same turn.
Supersede(j) ==
    /\ Resumes(j, "switch")
    /\ \E n \in Left(worker[j]) : node' = Retire({n})
    /\ UNCHANGED <<disk, state, worker, sync, source, stray, spoiled, faults>>

Superseded(j) ==
    /\ Resumes(j, "switch") /\ Left(worker[j]) = {}
    /\ worker' = [worker EXCEPT ![j].pc = "tags"]
    /\ UNCHANGED <<disk, state, node, sync, source, stray, spoiled, faults>>

\* Properties and folders became tags; the state is written last.
WriteState(j) ==
    LET f == j[1] w == worker[j]
    IN  /\ Resumes(j, "tags") /\ ~MidTurn
        /\ worker' = [worker EXCEPT ![j] = Idle]
        /\ IF stopped
           THEN /\ UNCHANGED state
                /\ LeaveBehind(Created(w))
                /\ spoiled' = IF Torn(w) THEN spoiled \cup {f} ELSE spoiled
           ELSE /\ state' = [state EXCEPT ![f] = Written(f, w)]
                /\ LeaveBehind(IF f \in spoiled THEN Active(f) ELSE {})
                /\ UNCHANGED spoiled
        /\ UNCHANGED <<disk, sync, source, faults>>

\* An await or a write throws: the nodes this run recorded are retired one by
\* one, until that fails as well.  The node whose digest failed is not recorded.
Fails(j) ==
    LET f == j[1] w == worker[j]
        recorded == IF w.pc = "embed" THEN Front(w.ids) ELSE w.ids
    IN  /\ faults < MaxFaults /\ w # Idle
        /\ MidTurn => w.pc = "switch"
        /\ faults' = faults + 1
        /\ worker' = [worker EXCEPT ![j] = Idle]
        /\ UNCHANGED state
        /\ \E k \in 0 .. Len(recorded) :
             LET gone == Range(SubSeq(recorded, 1, k)) \ Range(Old(w))
                 left == {n \in (Created(w) \ gone) \ Referred(state', worker') : node[n] # None}
             IN  /\ stray' = stray \cup {node[n] : n \in left}
                 /\ node' = Retire(gone \cup left)
        /\ spoiled' = IF Torn(w) THEN spoiled \cup {f} ELSE spoiled
        /\ UNCHANGED <<disk, sync, source>>

------------------------------------------------------------------------------
(* Scans and the watcher.                                                  *)

\* Mutant: an evicted note counts as deleted.
KnownHere == {f \in File : disk[f].at = "here"}

\* Every note the walk meets, evicted ones included.
Known == {f \in File : disk[f].at # "gone"}
EmptyVault == Known = {} /\ ~Others

\* Mutant: a scan that finds no changed note returns before it looks for stale ones.
StaleIfWork == {f \in File \ Known : state[f] # None /\ \E g \in File : Changed(g)}

\* planStaleSyncStateCleanup; an empty vault is taken for a wrong path.
Stale == IF EmptyVault THEN {} ELSE {f \in File \ Known : state[f] # None}

\* runSyncInner up to its first write: the changed notes and the deleted ones.
RunSync(kind) ==
    LET changed == {f \in File : Changed(f)}
        works == changed # {} \/ Stale # {}
    IN  /\ queue' = changed
        /\ stale' = Stale
        /\ scan' = IF works THEN kind ELSE "none"
        /\ watching' = (watching \/ (kind = "first" /\ ~works))
        /\ UNCHANGED <<disk, state, node, worker, orphans, timer, stray, spoiled, faults>>

\* startObsidianSource: a scan that still runs is not waited for.
Start ==
    /\ stopped /\ ~MidTurn
    /\ stopped' = FALSE
    /\ IF scan = "none" THEN RunSync("first")
       ELSE /\ watching' = TRUE
            /\ UNCHANGED <<disk, state, node, worker, sync, timer, stray, spoiled, faults>>

\* The poll timer, or the user's rescan.
Rescan ==
    /\ ~stopped /\ scan = "none" /\ ~MidTurn
    /\ RunSync("again")
    /\ UNCHANGED stopped

\* removeStaleFiles deletes the states one by one, ...
Forget(f) ==
    /\ f \in stale
    /\ stale' = stale \ {f}
    /\ orphans' = orphans \cup {n \in Range(state[f].ids) : node[n] # None}
    /\ state' = [state EXCEPT ![f] = None]
    /\ spoiled' = IF Free(f) THEN spoiled ELSE spoiled \cup {f}
    /\ UNCHANGED <<disk, node, worker, scan, queue, source, stray, faults>>

\* ... then archiveOrphanNodes their nodes.
Archive(n) ==
    /\ stale = {} /\ n \in orphans
    /\ orphans' = orphans \ {n}
    /\ node' = Retire({n})
    /\ UNCHANGED <<disk, state, worker, scan, queue, stale, source, stray, spoiled, faults>>

\* A scan takes a note; what the note is and whether the source stopped is
\* looked at again.
Takes(f) ==
    LET begins == Begins(f) /\ ~stopped
    IN  /\ f \in queue /\ ~MidTurn
        /\ queue' = queue \ {f}
        /\ worker' = IF begins THEN [worker EXCEPT ![<<f, "scan">>] = Begun(f)] ELSE worker
        /\ spoiled' = IF begins /\ ~Free(f) THEN spoiled \cup {f} ELSE spoiled
        /\ UNCHANGED <<disk, state, node, scan, stale, orphans, source, stray, faults>>

Released ==
    /\ scan' = "none" /\ queue' = {}
    /\ watching' = (watching \/ (scan = "first" /\ ~stopped))

ScanEnds ==
    /\ scan # "none" /\ ~MidTurn
    /\ queue = {} \/ stopped
    /\ \A f \in File : worker[<<f, "scan">>] = Idle
    /\ Released
    /\ UNCHANGED <<disk, state, node, worker, stale, orphans, stopped, timer, stray, spoiled, faults>>

\* A write of the removal fails: the scan is over, and the nodes whose states
\* are gone stay active.
RemovalFails ==
    /\ faults < MaxFaults
    /\ faults' = faults + 1
    /\ stale # {} \/ orphans # {}
    /\ stale' = {} /\ orphans' = {}
    /\ Released
    /\ UNCHANGED <<disk, state, worker, stopped, timer, spoiled>>
    /\ LeaveBehind(orphans)

\* decideWatcherChange.  Processing takes no lock.
WatcherFires(f) ==
    LET begins == scan = "none" /\ Begins(f)
        free == {k \in Watches : worker[<<f, k>>] = Idle}
        j == <<f, CHOOSE k \in free : TRUE>>
    IN  /\ timer[f] # None /\ ~MidTurn
        /\ begins => free # {}
        /\ timer' = [timer EXCEPT ![f] =
             IF disk[f].at # "gone" /\ scan # "none" /\ @ < MaxRetries THEN @ + 1 ELSE None]
        /\ worker' = IF begins THEN [worker EXCEPT ![j] = Begun(f)] ELSE worker
        /\ spoiled' = IF begins /\ ~Free(f) THEN spoiled \cup {f} ELSE spoiled
        /\ UNCHANGED <<disk, state, node, sync, stopped, watching, stray, faults>>

\* stopObsidianSource: what runs is not waited for.
Stop ==
    /\ ~stopped /\ ~MidTurn /\ faults < MaxFaults
    /\ faults' = faults + 1
    /\ stopped' = TRUE
    /\ watching' = FALSE
    /\ timer' = [f \in File |-> None]
    /\ UNCHANGED <<disk, state, node, worker, sync, stray, spoiled>>

Crash ==
    LET busy == {j \in Job : worker[j] # Idle}
    IN  /\ faults < MaxFaults
        /\ faults' = faults + 1
        /\ worker' = [j \in Job |-> Idle]
        /\ scan' = "none" /\ queue' = {} /\ stale' = {} /\ orphans' = {}
        /\ stopped' = TRUE /\ watching' = FALSE
        /\ timer' = [f \in File |-> None]
        /\ spoiled' = spoiled \cup {j[1] : j \in {k \in busy : Torn(worker[k])}}
        /\ UNCHANGED <<disk, state>>
        /\ LeaveBehind(orphans \cup UNION {Created(worker[j]) : j \in busy})

Runs(j) ==
    CreateNode(j) \/ Embedded(j) \/ Supersede(j) \/ Superseded(j) \/ WriteState(j)

Removes == (\E f \in File : Forget(f)) \/ (\E n \in Id : Archive(n))

Next ==
    \/ \E f \in File : Edit(f) \/ Delete(f) \/ Evict(f) \/ Download(f)
    \/ \E f \in File : Takes(f) \/ WatcherFires(f)
    \/ \E j \in Job : Runs(j) \/ Fails(j)
    \/ Removes \/ Start \/ Rescan \/ ScanEnds \/ RemovalFails \/ Stop \/ Crash

\* Awaits return, a turn goes on, and the poll timer fires as long as the
\* source runs.
Spec ==
    /\ Init /\ [][Next]_vars
    /\ WF_vars(\E j \in Job : Runs(j)) /\ WF_vars(Removes)
    /\ WF_vars(\E f \in File : Takes(f)) /\ WF_vars(ScanEnds) /\ WF_vars(Rescan)

------------------------------------------------------------------------------
\* A note nobody works on is remembered by exactly the nodes its state names,
\* segment by segment, but for nodes left behind in a known way.  A failed or
\* stopped run leaves the old version as it was.
StateNamesTheNodes ==
    \A f \in File \ spoiled : Free(f) =>
        IF state[f] = None THEN Active(f) = {}
        ELSE /\ Active(f) = Range(state[f].ids)
             /\ \A i \in DOMAIN state[f].text :
                  node[state[f].ids[i]] = [file |-> f, what |-> state[f].text[i]]

\* A note that is only evicted keeps its state and its memories.
EvictionSpares ==
    [][\A f \in File : disk[f].at = "away" /\ Free(f) =>
         state'[f] = state[f] /\ \A n \in Active(f) : node'[n] = node[n]]_vars

\* The text a note ends up with is digested while the source runs, whatever
\* was edited during the digest of an earlier version.  A blank text never is.
EditsArrive ==
    \A f \in File :
        disk[f].at = "here" ~>
            \/ disk[f].at # "here" \/ disk[f].text = <<>> \/ stopped
            \/ state[f] # None /\ state[f].text = disk[f].text

\* The memories of a deleted note are archived while another note is left, but
\* for those a removal or a run that was interrupted left behind.
DeletionsArrive ==
    \A f \in File :
        disk[f].at = "gone" ~>
            \/ disk[f].at # "gone" \/ stopped \/ EmptyVault
            \/ state[f] = None /\ Active(f) = {}

==============================================================================
