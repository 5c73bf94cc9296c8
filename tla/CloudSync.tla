------------------------------ MODULE CloudSync ------------------------------
(***************************************************************************)
(* The desktop application's cloud synchronisation of the node table:      *)
(* local writes marked by triggers in cloud_dirty, the uplink pump that    *)
(* claims and posts them, the pull behind a cursor, the seven-day          *)
(* reconcile over two manifests, and the downlink rule that judges every   *)
(* row that comes back.                                                    *)
(*                                                                         *)
(* One main thread (the desktop process) runs all of these; it is          *)
(* interrupted only where the code awaits.  Other local processes (stdio   *)
(* servers, the metabolism worker) write the same tables at any time, and  *)
(* so do the user's other devices on the server.                           *)
(*                                                                         *)
(* A row is what the two sides judge it by: edit_seq, updated, archived    *)
(* and is_superseded.  `updated` is unique to a write, so it also stands   *)
(* for the row's content.                                                  *)
(***************************************************************************)
EXTENDS Naturals, FiniteSets, FiniteSetsExt, Functions

CONSTANTS
    Node,       \* ids of the node table
    Client,     \* instances of CloudSyncClient; one is current, or none
    None,       \* no row, no client, no job
    PageSize,   \* PULL_LIMIT
    Tolerance,  \* TS_EQUAL_TOLERANCE_MS, in the time of the writes
    MaxWrites,  \* bound: writes by anybody
    MaxFaults   \* bound: crashes, quota refusals and rows that cannot be stored

Row == [seq : Nat, upd : Nat, arch : BOOLEAN, sup : BOOLEAN]

\* A block under the guard: what it applies, for whom, and where it is.
Jobs == [job : {"page", "fetched", "decay"}, by : Client \cup {None},
         at : {"rows", "down", "cursor"}]

ASSUME SyncAssumption ==
    /\ IsFiniteSet(Node) /\ None \notin Row \cup Client \cup Jobs
    /\ PageSize \in Nat \ {0} /\ Tolerance \in Nat \ {0}
    /\ MaxWrites \in Nat
    /\ MaxFaults \in Nat

VARIABLES
    local,      \* the nodes table here
    dirty,      \* cloud_dirty
    applying,   \* sync_apply_guard.applying
    cursor,     \* metadata: cloud_last_synced_version
    server,     \* the server's rows, each with its sync_version
    top,        \* the server's last sync_version
    current,    \* the client instance that is not stopped
    polling,    \* its polling and uplink timers are set
    sync,       \* each client's syncOnce: where it is, the page it holds
    pump,       \* pumpUplink: where it is, for whom, the rows it posts
    recon,      \* the Reconciler: where it is, the rows it holds, its plan
    main,       \* the guarded block the main thread is in
    lost,       \* rows whose mark was lost (history)
    dead,       \* cloud_sync_dead_letters
    overlaid,   \* rows the downlink replaced although the copy here is the later
                \* version (history)
    quiet,      \* nobody else wrote since the reconcile's manifest (history)
    now, faults \* writes and faults so far

vars == <<local, dirty, applying, cursor, server, top, current, polling, sync,
          pump, recon, main, lost, dead, overlaid, quiet, now, faults>>

tables == <<local, dirty, lost>>
downlinked == <<dead, overlaid>>
serverVars == <<server, top>>
counters == <<now, faults>>

NoRows == [n \in {} |-> None]

------------------------------------------------------------------------------
(* How two copies of a row are judged.                                     *)

\* Mutant: the later write wins, whatever was edited.
LaterWrite(cloud, mine) == cloud.upd >= mine.upd

\* `cloud` is not older than `mine`: edit_seq first, then updated.
ContentTakesCloud(cloud, mine) ==
    \/ cloud.seq > mine.seq
    \/ cloud.seq = mine.seq /\ cloud.upd >= mine.upd

\* Mutant: the row that wins replaces the other one, its retirement included.
AppliedWhole(cloud, mine) ==
    IF mine = None \/ cloud.arch \/ ContentTakesCloud(cloud, mine) THEN cloud ELSE mine

\* The row the downlink leaves: an archived row always wins; retirement is
\* never undone by either side.
Applied(cloud, mine) ==
    IF mine = None THEN cloud
    ELSE LET kept == IF cloud.arch \/ ContentTakesCloud(cloud, mine)
                     THEN cloud ELSE mine
         IN  [kept EXCEPT !.sup = cloud.sup \/ mine.sup]

\* The later of two versions.
VersionWinner(mine, cloud) ==
    IF mine.seq # cloud.seq
    THEN IF mine.seq > cloud.seq THEN "local" ELSE "server"
    ELSE IF mine.arch # cloud.arch
    THEN IF mine.arch THEN "local" ELSE "server"
    ELSE IF mine.upd = cloud.upd THEN "same"
    ELSE IF mine.upd > cloud.upd THEN "local" ELSE "server"

Winner(mine, cloud) ==
    CASE mine = None /\ cloud = None -> "same"
      [] mine # None /\ cloud = None -> "local"
      [] mine = None /\ cloud # None -> "server"
      [] OTHER -> VersionWinner(mine, cloud)

\* The side a manifest prefers: the later version, but writes of one edit are
\* the same to it if they are less than the tolerance apart.
SameTime(a, b) == a < b + Tolerance /\ b < a + Tolerance
ManifestWinner(mine, cloud) ==
    IF mine.seq = cloud.seq /\ mine.arch = cloud.arch /\ SameTime(mine.upd, cloud.upd)
    THEN "same" ELSE VersionWinner(mine, cloud)

\* The side a reconcile copies a row from.
Planned(mine, cloud) ==
    IF mine # None /\ cloud # None THEN ManifestWinner(mine, cloud) ELSE Winner(mine, cloud)

\* What the server makes of a row it is sent.
Judged(sent, held) ==
    IF held = None THEN sent
    ELSE LET kept == IF VersionWinner(sent, held) = "local" THEN sent ELSE held
         IN  [kept EXCEPT !.sup = sent.sup \/ held.sup]

\* The server stores `rows`, refusing those of `refused`; every row that
\* changes gets a sync_version of its own.
Store(rows, refused) ==
    LET result(n) == Judged(rows[n], server[n].row)
        changed == {n \in DOMAIN rows \ refused : result(n) # server[n].row}
    IN  /\ top' = top + Cardinality(changed)
        /\ \E ver \in [changed -> top + 1 .. top'] :
             /\ \A m, n \in changed : m # n => ver[m] # ver[n]
             /\ server' = [n \in Node |-> IF n \in changed
                             THEN [row |-> result(n), ver |-> ver[n]]
                             ELSE server[n]]

\* Rows that would be new to the server and meet a used-up quota.
Refusable(rows) ==
    IF faults < MaxFaults
    THEN SUBSET {n \in DOMAIN rows : server[n].row = None} ELSE {{}}

Count(bad) == faults' = IF bad THEN faults + 1 ELSE faults

------------------------------------------------------------------------------
NoSync == [pc |-> "idle", page |-> NoRows, more |-> FALSE]
NoPump == [pc |-> "idle", by |-> None, rows |-> NoRows]
NoRecon == [pc |-> "idle", rows |-> NoRows, down |-> {}]

\* A database that is new to the server or agrees with it on some rows.
Init ==
    /\ \E synced \in SUBSET Node :
         LET row == [seq |-> 1, upd |-> 0, arch |-> FALSE, sup |-> FALSE]
         IN  /\ local = [n \in Node |-> IF n \in synced THEN row ELSE None]
             /\ top = Cardinality(synced)
             /\ \E ver \in Bijection(synced, 1 .. top) :
                  server = [n \in Node |-> IF n \in synced
                              THEN [row |-> row, ver |-> ver[n]]
                              ELSE [row |-> None, ver |-> 0]]
    /\ cursor = top
    /\ dirty = {} /\ applying = FALSE
    /\ current = None /\ polling = FALSE
    /\ sync = [c \in Client |-> NoSync]
    /\ pump = NoPump /\ recon = NoRecon /\ main = None
    /\ lost = {} /\ dead = {} /\ overlaid = {} /\ quiet = FALSE
    /\ now = 0 /\ faults = 0

------------------------------------------------------------------------------
(* Local writes, with the triggers that mark them.                         *)

Versions(r) ==
    IF r = None THEN {[seq |-> 1, upd |-> now + 1, arch |-> FALSE, sup |-> FALSE]}
    ELSE LET touched == [r EXCEPT !.upd = now + 1]       \* metabolism
             edited == [touched EXCEPT !.seq = @ + 1]    \* the user
         IN  {touched, edited, [edited EXCEPT !.arch = ~@]}
             \cup (IF r.sup THEN {} ELSE {[edited EXCEPT !.sup = TRUE]})

\* trg_nodes_dirty_ins and _upd: marked unless the guard is up.
Mark(n) ==
    IF applying
    THEN /\ lost' = lost \cup {n}
         /\ UNCHANGED dirty
    ELSE /\ dirty' = dirty \cup {n}
         /\ lost' = lost \ {n}

\* `by` is the main thread, which must be free, or another process.
Write(by, n) ==
    /\ by = "main" => main = None
    /\ now < MaxWrites
    /\ \E r \in Versions(local[n]) : local' = [local EXCEPT ![n] = r]
    /\ Mark(n)
    /\ now' = now + 1
    /\ quiet' = FALSE
    /\ UNCHANGED <<applying, cursor, serverVars, current, polling, sync, pump, recon, main,
                   downlinked, faults>>

\* Another device's upload: it wrote on top of this or an earlier version.
OtherDevice(n) ==
    /\ now < MaxWrites
    /\ LET held == server[n].row
           copies == IF held = None THEN {None}
                     ELSE {[held EXCEPT !.seq = k] : k \in 1 .. held.seq}
       IN  \E copy \in copies : \E r \in Versions(copy) :
             Store([m \in {n} |-> r], {})
    /\ now' = now + 1
    /\ quiet' = FALSE
    /\ UNCHANGED <<tables, applying, cursor, current, polling, sync, pump, recon, main,
                   downlinked, faults>>

------------------------------------------------------------------------------
(* pumpUplink: claim the marks, post the rows, mark again what failed.     *)

PumpEnds(c) ==
    /\ pump' = NoPump
    /\ sync' = IF c \in Client THEN [sync EXCEPT ![c].pc = "pull"] ELSE sync

\* claimDirty takes and deletes the marks in one transaction; the rows are
\* read before anything is awaited.
Claim(by) ==
    /\ pump' = [pc |-> "post", by |-> by, rows |-> [n \in dirty |-> local[n]]]
    /\ dirty' = {}

PumpOnly ==
    UNCHANGED <<local, lost, applying, cursor, serverVars, current, polling, recon, main,
                downlinked, quiet, counters>>

\* The uplink timer fires.  Its token is awaited before anything is claimed:
\* without one the tick did nothing.
PumpTick ==
    /\ main = None /\ pump.pc = "idle" /\ polling
    /\ dirty # {}
    /\ Claim("timer")
    /\ UNCHANGED sync
    /\ PumpOnly

\* The answer of a post is there: the next rows, or the end.
PumpClaim ==
    /\ main = None /\ pump.pc = "claim"
    /\ IF dirty = {}
       THEN PumpEnds(pump.by) /\ UNCHANGED dirty
       ELSE Claim(pump.by) /\ UNCHANGED sync
    /\ PumpOnly

PumpPosted ==
    /\ main = None /\ pump.pc = "post"
    /\ \E refused \in Refusable(pump.rows) :
         /\ Store(pump.rows, refused)
         /\ lost' = lost \cup (refused \ dirty)
         /\ Count(refused # {})
    /\ pump' = [pump EXCEPT !.pc = "claim", !.rows = NoRows]
    /\ quiet' = FALSE
    /\ UNCHANGED <<local, dirty, applying, cursor, current, polling, sync, recon, main,
                   downlinked, now>>

\* Mutant: the marks of a failed post are not put back.
FailsWithoutRequeue ==
    /\ main = None /\ pump.pc = "post"
    /\ Store(pump.rows, {}) \/ UNCHANGED serverVars
    /\ PumpEnds(pump.by)
    /\ quiet' = FALSE
    /\ UNCHANGED <<tables, applying, cursor, current, polling, recon, main, downlinked, counters>>

\* Mutant: a failure leaves the pump's flag set.
FailsStillRunning ==
    /\ main = None /\ pump.pc = "post"
    /\ Store(pump.rows, {}) \/ UNCHANGED serverVars
    /\ dirty' = dirty \cup DOMAIN pump.rows
    /\ pump' = [NoPump EXCEPT !.pc = "failed"]
    /\ sync' = IF pump.by \in Client THEN [sync EXCEPT ![pump.by].pc = "pull"] ELSE sync
    /\ quiet' = FALSE
    /\ UNCHANGED <<local, lost, applying, cursor, current, polling, recon, main, downlinked,
                   counters>>

\* The request fails, before or after the server stored the rows.
PumpFails ==
    /\ main = None /\ pump.pc = "post"
    /\ Store(pump.rows, {}) \/ UNCHANGED serverVars
    /\ dirty' = dirty \cup DOMAIN pump.rows
    /\ PumpEnds(pump.by)
    /\ quiet' = FALSE
    /\ UNCHANGED <<local, lost, applying, cursor, current, polling, recon, main, downlinked,
                   counters>>

------------------------------------------------------------------------------
(* The client: start, stop, syncOnce.                                      *)

StartClient(c) ==
    /\ main = None /\ current # c /\ sync[c].pc = "idle"
    /\ current' = c /\ polling' = FALSE
    /\ UNCHANGED <<tables, applying, cursor, serverVars, sync, pump, recon, main,
                   downlinked, quiet, counters>>

StopClient ==
    /\ main = None /\ current # None
    /\ current' = None /\ polling' = FALSE
    /\ UNCHANGED <<tables, applying, cursor, serverVars, sync, pump, recon, main,
                   downlinked, quiet, counters>>

\* The timers run while the user is active and the cloud is available; a sync
\* that is asked for works without them.
PollingStarts ==
    /\ main = None /\ current # None /\ ~polling
    /\ polling' = TRUE
    /\ UNCHANGED <<tables, applying, cursor, serverVars, current, sync, pump, recon, main,
                   downlinked, quiet, counters>>

PollingStops ==
    /\ main = None /\ polling
    /\ polling' = FALSE
    /\ UNCHANGED <<tables, applying, cursor, serverVars, current, sync, pump, recon, main,
                   downlinked, quiet, counters>>

SyncMoves(c, pc) == sync' = [sync EXCEPT ![c] = [NoSync EXCEPT !.pc = pc]]
SyncOnly ==
    UNCHANGED <<tables, applying, cursor, serverVars, current, polling, pump, recon, main,
                downlinked, quiet, counters>>

\* syncOnce, called by a timer, a notice of the server or the user, one at a
\* time per client: once it has a token the uplink comes first, unless a pump
\* already runs (it is not waited for), nothing is marked, or the pump's own
\* token cannot be had.
SyncStart(c) ==
    /\ main = None /\ current = c /\ sync[c].pc = "idle"
    /\ \/ /\ pump.pc = "idle" /\ dirty # {}
          /\ Claim(c)
          /\ SyncMoves(c, "uplink")
       \/ /\ SyncMoves(c, "pull")
          /\ UNCHANGED <<pump, dirty>>
    /\ PumpOnly

\* A stop is noticed between two awaits; any request may fail.
SyncGivesUp(c) ==
    /\ main = None /\ sync[c].pc \in {"pull", "version"}
    /\ SyncMoves(c, "idle")
    /\ SyncOnly

\* The rows behind the cursor, oldest first.
Behind == {n \in Node : server[n].row # None /\ server[n].ver > cursor}
FirstPage ==
    {page \in SUBSET Behind :
        /\ Cardinality(page) = IF Cardinality(Behind) < PageSize
                               THEN Cardinality(Behind) ELSE PageSize
        /\ \A m \in page, n \in Behind \ page : server[m].ver < server[n].ver}

PullPage(c) ==
    /\ main = None /\ sync[c].pc = "pull" /\ current = c
    /\ \E page \in FirstPage : sync' = [sync EXCEPT ![c] =
         IF page = {} THEN [NoSync EXCEPT !.pc = "version"]
         ELSE [pc |-> "page", page |-> [n \in page |-> server[n]], more |-> page # Behind]]
    /\ SyncOnly

\* recomputeMetabolismGeneration: the local decay runs under the guard; it
\* touches neither edit_seq nor updated.
DecayBegins(c) ==
    /\ main = None /\ sync[c].pc = "version"
    /\ main' = [job |-> "decay", by |-> c, at |-> "down"]
    /\ applying' = TRUE
    /\ UNCHANGED <<tables, cursor, serverVars, current, polling, sync, pump, recon, downlinked,
                   quiet, counters>>

------------------------------------------------------------------------------
(* withApplyGuard around a transaction of downlinked rows: the guard goes  *)
(* up and down in statements of its own, so other processes see it.        *)

PageBegins(c) ==
    /\ main = None /\ sync[c].pc = "page"
    /\ main' = [job |-> "page", by |-> c, at |-> "rows"]
    /\ applying' = TRUE
    /\ UNCHANGED <<tables, cursor, serverVars, current, polling, sync, pump, recon, downlinked,
                   quiet, counters>>

FetchedBegins ==
    /\ main = None /\ recon.pc = "fetched"
    /\ main' = [job |-> "fetched", by |-> None, at |-> "rows"]
    /\ applying' = TRUE
    /\ UNCHANGED <<tables, cursor, serverVars, current, polling, sync, pump, recon, downlinked,
                   quiet, counters>>

\* applyCloudNodeRow for every row; `bad` rows go to cloud_sync_dead_letters.
Downlink(rows, bad) ==
    /\ local' = [n \in Node |-> IF n \in DOMAIN rows \ bad
                                THEN Applied(rows[n], local[n]) ELSE local[n]]
    /\ dead' = dead \cup bad
    /\ overlaid' = overlaid \cup {n \in DOMAIN rows \ bad :
         /\ Winner(local[n], rows[n]) = "local"
         /\ Applied(rows[n], local[n]).upd # local[n].upd}

PageRows ==
    /\ main # None /\ main.job = "page" /\ main.at = "rows"
    /\ LET page == sync[main.by].page
       IN  \E bad \in SUBSET (IF faults < MaxFaults THEN DOMAIN page ELSE {}) :
             /\ Downlink([n \in DOMAIN page |-> page[n].row], bad)
             /\ Count(bad # {})
    /\ main' = [main EXCEPT !.at = "down"]
    /\ quiet' = FALSE
    /\ UNCHANGED <<dirty, lost, applying, cursor, serverVars, current, polling, sync, pump,
                   recon, now>>

\* applyCloudRows of the reconcile: one bad row rolls all back.
FetchedRows ==
    /\ main # None /\ main.job = "fetched" /\ main.at = "rows"
    /\ Downlink(recon.rows, {})
    /\ main' = [main EXCEPT !.at = "down"]
    /\ UNCHANGED <<dirty, lost, applying, cursor, serverVars, current, polling, sync, pump,
                   recon, quiet, counters>>

\* The guard goes down, then the cursor moves past the page.
GuardDown ==
    /\ main # None /\ main.at = "down"
    /\ applying' = FALSE
    /\ main' = IF main.job = "page" THEN [main EXCEPT !.at = "cursor"] ELSE None
    /\ sync' = IF main.job = "decay" THEN [sync EXCEPT ![main.by] = NoSync] ELSE sync
    /\ recon' = IF main.job = "fetched" THEN [NoRecon EXCEPT !.pc = "done"] ELSE recon
    /\ UNCHANGED <<tables, cursor, serverVars, current, polling, pump, downlinked, quiet, counters>>

\* Mutant: the cursor moves to the server's last version.
CursorToTop ==
    /\ main # None /\ main.at = "cursor"
    /\ cursor' = top
    /\ SyncMoves(main.by, IF sync[main.by].more THEN "pull" ELSE "version")
    /\ main' = None
    /\ UNCHANGED <<tables, applying, serverVars, current, polling, pump, recon, downlinked, quiet,
                   counters>>

CursorMoves ==
    /\ main # None /\ main.at = "cursor"
    /\ LET held == sync[main.by]
       IN  /\ cursor' = Max({held.page[n].ver : n \in DOMAIN held.page})
           /\ SyncMoves(main.by, IF held.more THEN "pull" ELSE "version")
    /\ main' = None
    /\ UNCHANGED <<tables, applying, serverVars, current, polling, pump, recon, downlinked, quiet,
                   counters>>

------------------------------------------------------------------------------
(* Reconciler.runTable, one at a time; it does not exclude a syncOnce.     *)

ReconOnly ==
    UNCHANGED <<tables, applying, cursor, serverVars, current, polling, sync, pump, main,
                downlinked, counters>>

ReconManifest ==
    /\ main = None /\ recon.pc = "idle"
    /\ recon' = [NoRecon EXCEPT !.pc = "manifest",
                                !.rows = [n \in Node |-> server[n].row]]
    /\ quiet' = TRUE
    /\ ReconOnly

\* planReconcileActions over the server's manifest and the rows here now; the
\* rows to upload are loaded at once.
ReconPlan ==
    /\ main = None /\ recon.pc = "manifest"
    /\ LET wins(side) == {n \in Node : Planned(local[n], recon.rows[n]) = side}
       IN  recon' = [pc |-> IF wins("local") = {} THEN "download" ELSE "post",
                     rows |-> [n \in wins("local") |-> local[n]],
                     down |-> wins("server")]
    /\ UNCHANGED quiet
    /\ ReconOnly

ReconPosted ==
    /\ main = None /\ recon.pc = "post"
    /\ \E refused \in Refusable(recon.rows) :
         /\ Store(recon.rows, refused)
         /\ Count(refused # {})
         /\ quiet' = (quiet /\ refused = {})
    /\ recon' = [recon EXCEPT !.pc = "download", !.rows = NoRows]
    /\ UNCHANGED <<tables, applying, cursor, current, polling, sync, pump, main, downlinked, now>>

\* bulk-fetch of the planned rows, as they are on the server now.
ReconFetch ==
    /\ main = None /\ recon.pc = "download"
    /\ recon' = IF recon.down = {} THEN [NoRecon EXCEPT !.pc = "done"]
                ELSE [recon EXCEPT !.pc = "fetched",
                                   !.rows = [n \in recon.down |-> server[n].row]]
    /\ UNCHANGED quiet
    /\ ReconOnly

\* last_reconcile_at is written, or the run failed or was aborted.
ReconEnds ==
    /\ main = None
    /\ recon.pc \in {"manifest", "post", "download", "fetched", "done"}
    /\ recon' = NoRecon
    /\ quiet' = FALSE
    /\ ReconOnly

------------------------------------------------------------------------------
\* The process dies and is started again: the database stays as it is,
\* sync_apply_guard included.
Crash ==
    /\ faults < MaxFaults
    /\ faults' = faults + 1
    /\ lost' = lost \cup (DOMAIN pump.rows \ dirty)
    /\ current' = None /\ polling' = FALSE
    /\ sync' = [c \in Client |-> NoSync]
    /\ pump' = NoPump /\ recon' = NoRecon /\ main' = None
    /\ quiet' = FALSE
    /\ UNCHANGED <<local, dirty, applying, cursor, serverVars, downlinked, now>>

Next ==
    \/ \E n \in Node : \/ \E by \in {"main", "other"} : Write(by, n)
                       \/ OtherDevice(n)
    \/ PumpTick \/ PumpClaim \/ PumpPosted \/ PumpFails
    \/ \E c \in Client : \/ StartClient(c) \/ SyncStart(c) \/ SyncGivesUp(c)
                         \/ PullPage(c) \/ DecayBegins(c)
                         \/ PageBegins(c)
    \/ StopClient \/ PollingStarts \/ PollingStops
    \/ FetchedBegins \/ PageRows \/ FetchedRows \/ GuardDown \/ CursorMoves
    \/ ReconManifest \/ ReconPlan \/ ReconPosted \/ ReconFetch
    \/ ReconEnds
    \/ Crash

Spec == Init /\ [][Next]_vars

\* The timers of a client that runs fire again and again and so does the main
\* thread's work; a token and a request succeed now and then.
FairSpec ==
    /\ Spec
    /\ SF_vars(PumpTick) /\ SF_vars(PumpClaim) /\ SF_vars(PumpPosted)
    /\ WF_vars(PageRows \/ FetchedRows \/ GuardDown \/ CursorMoves)

------------------------------------------------------------------------------
RowsIn(rows) == DOMAIN rows \subseteq Node /\ \A n \in DOMAIN rows : rows[n] \in Row

TypeOK ==
    /\ local \in [Node -> Row \cup {None}]
    /\ server \in [Node -> [row : Row \cup {None}, ver : Nat]]
    /\ dirty \subseteq Node /\ lost \subseteq Node
    /\ dead \subseteq Node /\ overlaid \subseteq Node
    /\ applying \in BOOLEAN /\ quiet \in BOOLEAN
    /\ top \in Nat /\ now \in Nat /\ faults \in Nat
    /\ current \in Client \cup {None} /\ polling \in BOOLEAN
    /\ \A c \in Client :
         /\ sync[c].pc \in {"idle", "uplink", "pull", "page", "version"}
         /\ sync[c].more \in BOOLEAN
         /\ \A n \in DOMAIN sync[c].page :
              n \in Node /\ sync[c].page[n] \in [row : Row, ver : Nat]
    /\ pump.pc \in {"idle", "claim", "post"}
    /\ pump.by \in Client \cup {None, "timer"}
    /\ RowsIn(pump.rows)
    /\ recon.pc \in {"idle", "manifest", "post", "download", "fetched", "done"}
    /\ recon.pc # "manifest" => RowsIn(recon.rows)
    /\ recon.down \subseteq Node
    /\ main # None => main \in Jobs /\ (main.job # "fetched" => main.by \in Client)

\* A row newer here than on the server is marked, or in the pump's hands, or
\* its mark was lost in one of the known ways (written under the guard, a
\* crash of the pump, a refusal for quota).  No interleaving of edits with
\* the claim, the post and the failure loses it otherwise.
UnsentIsMarked ==
    \A n \in Node : Winner(local[n], server[n].row) = "local" =>
        n \in dirty \cup DOMAIN pump.rows \cup lost

\* Behind the cursor nothing is missing: a row whose version was passed is
\* not older here than on the server, unless it could not be stored, or the
\* downlink once took a copy that is the earlier version.
NothingSkipped ==
    \A n \in Node :
        server[n].ver \in 1 .. cursor /\ Winner(local[n], server[n].row) = "server"
            => n \in dead \cup overlaid

\* A reconcile that ends while nobody else writes leaves on both sides what
\* another manifest would call the same version, whatever happened before.
ReconcileConverges ==
    recon.pc = "done" /\ quiet =>
        \A n \in Node : Planned(local[n], server[n].row) = "same"

\* What the user made of a row here is only replaced by something the user
\* made later elsewhere, or by an archived copy; a retired row stays retired.
EditsSurvive ==
    [][\A n \in Node : local[n] # None =>
         /\ local'[n] # None
         /\ local[n].sup => local'[n].sup
         /\ local'[n].seq < local[n].seq => local'[n].arch]_vars

\* A marked row reaches the server, unless its mark is lost or the timers of the
\* client are stopped meanwhile.
MarkedEditsArrive ==
    \A n \in Node : n \in dirty ~>
        \/ n \in lost \/ ~polling
        \/ Winner(local[n], server[n].row) # "local"

==============================================================================
