--------------------------- MODULE CloudSyncProofs ---------------------------
(***************************************************************************)
(* Proofs about CloudSync for any finite table, any number of clients,     *)
(* writes and faults.                                                      *)
(*                                                                         *)
(* Everything rests on the order in which a manifest judges two copies     *)
(* (Beats).  The server never takes a worse copy, so what was read from it *)
(* stays no newer than what it holds (Held), and a row that is newer here  *)
(* than on the server is one somebody wrote after it was last claimed      *)
(* (Marks).                                                                *)
(***************************************************************************)
EXTENDS CloudSync, FiniteSetTheorems, TLAPS

Rows == UNION {[S -> Row] : S \in SUBSET Node}
Pages == UNION {[S -> [row : Row, ver : Nat]] : S \in SUBSET Node}
Syncs == [pc : {"idle", "uplink", "pull", "page", "version"}, page : Pages, more : BOOLEAN]
Pumps == [pc : {"idle", "claim", "post"}, by : Client \cup {None, "timer"}, rows : Rows]
Copies == [row : Row \cup {None}, ver : Nat]
Recons == [pc : {"idle", "manifest", "post", "download", "fetched", "done"},
           rows : Rows \cup [Node -> Row \cup {None}], down : SUBSET Node]

\* The types, with the tables of rows as functions
Types ==
  /\ local \in [Node -> Row \cup {None}]
  /\ server \in [Node -> Copies]
  /\ dirty \subseteq Node /\ lost \subseteq Node
  /\ top \in Nat /\ now \in Nat
  /\ sync \in [Client -> Syncs]
  /\ pump \in Pumps
  /\ recon \in Recons
  /\ recon.pc # "manifest" => recon.rows \in Rows
  /\ main # None => main \in Jobs /\ (main.job # "fetched" => main.by \in Client)

\* A manifest prefers the copy here
Beats(mine, cloud) == Winner(mine, cloud) = "local"

\* There is a copy and it is not beaten
NotNewer(row, cloud) == cloud # None /\ ~Beats(row, cloud)

\* What was read from the server and is still to be used
Held ==
  /\ \A c \in Client : \A n \in DOMAIN sync[c].page : NotNewer(sync[c].page[n].row, server[n].row)
  /\ recon.pc = "manifest" => /\ recon.rows \in [Node -> Row \cup {None}]
                              /\ \A n \in Node : recon.rows[n] # None => server[n].row # None
  /\ recon.pc \in {"post", "download"} => \A n \in recon.down : server[n].row # None
  /\ recon.pc = "fetched" => \A n \in DOMAIN recon.rows : NotNewer(recon.rows[n], server[n].row)
  /\ main # None /\ main.job = "fetched" => recon.pc = "fetched"

\* What the pump holds, and the rows that are newer here
Marks ==
  /\ \A n \in dirty \cup DOMAIN pump.rows : local[n] # None
  /\ pump.pc # "post" => DOMAIN pump.rows = {}
  /\ \A n \in DOMAIN pump.rows \ (dirty \cup lost) :
       ~Beats(local[n], pump.rows[n]) \/ ~Beats(local[n], server[n].row)
  /\ UnsentIsMarked

IInv == Types /\ Held /\ Marks

-----------------------------------------------------------------------------
(* The order of copies.                                                    *)

\* A copy beats another by edit_seq, by being archived, by the later write.
LEMMA BeatsIs ==
  ASSUME NEW x \in Row, NEW y \in Row
  PROVE  Beats(x, y) <=>
           \/ x.seq > y.seq
           \/ x.seq = y.seq /\ x.arch /\ ~y.arch
           \/ x.seq = y.seq /\ x.arch = y.arch /\ x.upd > y.upd
<1>1. x # None /\ y # None
    BY SyncAssumption
<1>2. Beats(x, y) <=> VersionWinner(x, y) = "local"
    BY <1>1 DEF Beats, Winner
<1>3. x.seq \in Nat /\ y.seq \in Nat /\ x.upd \in Nat /\ y.upd \in Nat
      /\ x.arch \in BOOLEAN /\ y.arch \in BOOLEAN
    BY DEF Row
<1> QED BY <1>2, <1>3 DEF VersionWinner

\* Any copy beats none, none beats no copy, and no copy beats itself.
LEMMA BeatsNone ==
  /\ \A x \in Row : Beats(x, None)
  /\ \A y : ~Beats(None, y)
  /\ \A x \in Row : ~Beats(x, x)
<1>1. \A x \in Row : x # None
    BY SyncAssumption
<1>2. \A x \in Row : Beats(x, None)
    BY <1>1 DEF Beats, Winner
<1>3. \A y : ~Beats(None, y)
    BY DEF Beats, Winner
<1>4. \A x \in Row : ~Beats(x, x)
  <2> TAKE x \in Row
  <2>1. x.seq \in Nat /\ x.upd \in Nat
      BY DEF Row
  <2> QED BY BeatsIs, <2>1
<1> QED BY <1>2, <1>3, <1>4

\* What the server makes of a copy is beaten by fewer copies than the one it
\* held and the one it was sent.
LEMMA JudgedImproves ==
  ASSUME NEW sent \in Row, NEW held \in Row \cup {None}
  PROVE  /\ Judged(sent, held) \in Row
         /\ \A x \in Row : Beats(x, Judged(sent, held)) => Beats(x, sent) /\ Beats(x, held)
<1>1. CASE held = None
    BY <1>1, BeatsNone DEF Judged
<1>2. CASE held # None
  <2> DEFINE sup == sent.sup \/ held.sup
             wins == Beats(sent, held)
             kept == IF wins THEN sent ELSE held
             j == [kept EXCEPT !.sup = sup]
  <2>1. held \in Row /\ sent # None
      BY <1>2, SyncAssumption
  <2>2. wins <=> VersionWinner(sent, held) = "local"
      BY <1>2, <2>1 DEF Beats, Winner
  <2>3. Judged(sent, held) = j
      BY <1>2, <2>2 DEF Judged
  <2>4. sup \in BOOLEAN
      BY <2>1, ZenonT(30) DEF Row
  <2>5. kept \in Row
      BY <2>1
  <2>6. j \in Row /\ j.seq = kept.seq /\ j.arch = kept.arch /\ j.upd = kept.upd
    <3> HIDE DEF sup, kept
    <3> QED BY <2>4, <2>5 DEF Row
  <2>7. ASSUME NEW x \in Row, Beats(x, j)
        PROVE  Beats(x, sent) /\ Beats(x, held)
    <3>1. Beats(x, kept)
      <4> HIDE DEF j, kept
      <4> QED BY <2>5, <2>6, <2>7, BeatsIs
    <3>2. /\ x.seq \in Nat /\ sent.seq \in Nat /\ held.seq \in Nat
          /\ x.upd \in Nat /\ sent.upd \in Nat /\ held.upd \in Nat
          /\ x.arch \in BOOLEAN /\ sent.arch \in BOOLEAN /\ held.arch \in BOOLEAN
        BY <2>1 DEF Row
    <3>3. CASE wins
        BY <3>1, <3>2, <3>3, <2>1, BeatsIs
    <3>4. CASE ~wins
        BY <3>1, <3>2, <3>4, <2>1, BeatsIs
    <3> QED BY <3>3, <3>4
  <2> QED BY <2>3, <2>6, <2>7
<1> QED BY <1>1, <1>2

\* What the downlink leaves is one of the two copies, with the retirement of
\* both; it keeps the copy here unless the other one is archived or was edited
\* as often.
LEMMA AppliedIs ==
  ASSUME NEW cloud \in Row, NEW mine \in Row \cup {None}
  PROVE  /\ Applied(cloud, mine) \in Row
         /\ \A y \in Row \cup {None} :
              Beats(Applied(cloud, mine), y) => Beats(cloud, y) \/ Beats(mine, y)
         /\ mine # None =>
              /\ mine.sup => Applied(cloud, mine).sup
              /\ Applied(cloud, mine).seq < mine.seq => Applied(cloud, mine).arch
<1>1. CASE mine = None
    BY <1>1 DEF Applied
<1>2. CASE mine # None
  <2> DEFINE sup == cloud.sup \/ mine.sup
             takes == cloud.arch \/ ContentTakesCloud(cloud, mine)
             kept == IF takes THEN cloud ELSE mine
             a == [kept EXCEPT !.sup = sup]
  <2>1. mine \in Row
      BY <1>2
  <2>2. Applied(cloud, mine) = a
      BY <1>2 DEF Applied
  <2>3. sup \in BOOLEAN
      BY <2>1, ZenonT(30) DEF Row
  <2>4. kept \in Row
      BY <2>1
  <2>5. a \in Row /\ a.seq = kept.seq /\ a.arch = kept.arch /\ a.upd = kept.upd /\ a.sup = sup
    <3> HIDE DEF sup, kept
    <3> QED BY <2>3, <2>4 DEF Row
  <2>6. ASSUME NEW y \in Row \cup {None}, Beats(a, y)
        PROVE  Beats(cloud, y) \/ Beats(mine, y)
    <3>1. Beats(kept, y)
      <4> HIDE DEF a, kept
      <4>1. CASE y = None
          BY <4>1, <2>4, BeatsNone
      <4>2. CASE y # None
          BY <4>2, <2>4, <2>5, <2>6, BeatsIs
      <4> QED BY <4>1, <4>2
    <3> QED BY <3>1
  <2>7. a.seq < mine.seq => a.arch
    <3>1. cloud.seq \in Nat /\ mine.seq \in Nat
        BY <2>1 DEF Row
    <3>2. CASE cloud.arch
        BY <2>5, <3>2
    <3>3. CASE ~cloud.arch /\ ContentTakesCloud(cloud, mine)
        BY <2>5, <3>1, <3>3 DEF ContentTakesCloud
    <3>4. CASE ~takes
        BY <2>5, <3>1, <3>4
    <3> QED BY <3>2, <3>3, <3>4
  <2>8. mine.sup => a.sup
      BY <2>5
  <2> QED BY <2>2, <2>5, <2>6, <2>7, <2>8
<1> QED BY <1>1, <1>2

\* A write keeps a row's retirement and does not lower its edit_seq.
LEMMA VersionsAre ==
  ASSUME now \in Nat, NEW r \in Row \cup {None}, NEW v \in Versions(r)
  PROVE  v \in Row /\ (r # None => v.seq >= r.seq /\ (r.sup => v.sup))
<1>1. CASE r = None
  <2> DEFINE later == now + 1
  <2>1. v = [seq |-> 1, upd |-> later, arch |-> FALSE, sup |-> FALSE]
      BY <1>1 DEF Versions
  <2>2. later \in Nat
      OBVIOUS
  <2> HIDE DEF later
  <2> QED BY <1>1, <2>1, <2>2 DEF Row
<1>2. CASE r # None
  <2> DEFINE touched == [r EXCEPT !.upd = now + 1]
             edited == [touched EXCEPT !.seq = @ + 1]
             turned == [edited EXCEPT !.arch = ~@]
             retired == [edited EXCEPT !.sup = TRUE]
  <2>1. r \in Row /\ now + 1 \in Nat /\ r.seq + 1 \in Nat /\ r.seq \in Nat
      BY <1>2 DEF Row
  <2>2. touched \in Row /\ touched.seq = r.seq /\ touched.sup = r.sup /\ touched.arch = r.arch
    <3> DEFINE later == now + 1
    <3> HIDE DEF later
    <3> QED BY <2>1 DEF Row, later
  <2>3. edited \in Row /\ edited.seq = r.seq + 1 /\ edited.sup = r.sup /\ edited.arch = r.arch
    <3> HIDE DEF touched
    <3> DEFINE more == r.seq + 1
    <3>1. edited = [touched EXCEPT !.seq = more]
        BY <2>2 DEF Row
    <3> HIDE DEF more
    <3>2. more \in Nat
        BY <2>1 DEF more
    <3>3. edited \in Row /\ edited.seq = more /\ edited.sup = touched.sup /\ edited.arch = touched.arch
        BY <3>1, <3>2, <2>2 DEF Row
    <3> QED BY <3>3, <2>2 DEF more
  <2>4. turned \in Row /\ turned.seq = r.seq + 1 /\ turned.sup = r.sup
    <3> HIDE DEF edited
    <3> DEFINE other == ~edited.arch
    <3>1. turned = [edited EXCEPT !.arch = other]
        BY <2>3 DEF Row
    <3>2. other \in BOOLEAN
        BY ZenonT(30)
    <3> HIDE DEF other
    <3> QED BY <3>1, <3>2, <2>3 DEF Row
  <2>5. retired \in Row /\ retired.seq = r.seq + 1 /\ retired.sup
    <3> HIDE DEF edited
    <3> QED BY <2>3 DEF Row
  <2>6. v \in {touched, edited, turned, retired}
    <3>1. Versions(r) = {touched, edited, turned} \cup (IF r.sup THEN {} ELSE {retired})
        BY <1>2 DEF Versions
    <3> HIDE DEF touched, edited, turned, retired
    <3> QED BY <3>1
  <2> HIDE DEF touched, edited, turned, retired
  <2>7. v \in Row /\ v.seq >= r.seq /\ (r.sup => v.sup)
      BY <2>1, <2>2, <2>3, <2>4, <2>5, <2>6
  <2> QED BY <1>2, <2>7
<1> QED BY <1>1, <1>2

\* Tables of rows are functions on sets of nodes.
LEMMA RowsAre ==
  /\ \A S \in SUBSET Node : \A f \in [S -> Row] : f \in Rows
  /\ \A f \in Rows : DOMAIN f \subseteq Node /\ \A n \in DOMAIN f : f[n] \in Row
  /\ \A S \in SUBSET Node : \A f \in [S -> [row : Row, ver : Nat]] : f \in Pages
  /\ \A f \in Pages : DOMAIN f \subseteq Node /\ \A n \in DOMAIN f : f[n].row \in Row
  /\ NoRows \in Rows /\ NoRows \in Pages /\ DOMAIN NoRows = {}
<1>1. /\ \A S \in SUBSET Node : \A f \in [S -> Row] : f \in Rows
      /\ \A S \in SUBSET Node : \A f \in [S -> [row : Row, ver : Nat]] : f \in Pages
    BY DEF Rows, Pages
<1>2. \A f \in Rows : DOMAIN f \subseteq Node /\ \A n \in DOMAIN f : f[n] \in Row
    BY DEF Rows
<1>3. \A f \in Pages : DOMAIN f \subseteq Node /\ \A n \in DOMAIN f : f[n].row \in Row
    BY DEF Pages
<1>4. NoRows \in [{} -> Row] /\ NoRows \in [{} -> [row : Row, ver : Nat]] /\ DOMAIN NoRows = {}
    BY DEF NoRows
<1> QED BY <1>1, <1>2, <1>3, <1>4

-----------------------------------------------------------------------------
(* What the server holds only gets better.                                 *)

\* No row is lost there and none becomes easier to beat.
Improves ==
  /\ server' \in [Node -> Copies]
  /\ top' \in Nat
  /\ \A n \in Node : /\ server[n].row # None => server'[n].row # None
                     /\ \A x \in Row : Beats(x, server'[n].row) => Beats(x, server[n].row)

\* A post improves the server, and what it stored beats nothing it was sent.
LEMMA StoreImproves ==
  ASSUME Types, NEW rows \in Rows, NEW refused, Store(rows, refused)
  PROVE  /\ Improves
         /\ \A n \in DOMAIN rows \ refused :
              server'[n].row # None /\ \A x \in Row : Beats(x, server'[n].row) => Beats(x, rows[n])
<1> DEFINE result(n) == Judged(rows[n], server[n].row)
           changed == {n \in DOMAIN rows \ refused : result(n) # server[n].row}
<1>1. PICK ver \in [changed -> top + 1 .. top'] :
        server' = [n \in Node |-> IF n \in changed THEN [row |-> result(n), ver |-> ver[n]]
                                  ELSE server[n]]
    BY DEF Store
<1>2. top' = top + Cardinality(changed)
    BY DEF Store
<1>3. DOMAIN rows \subseteq Node /\ \A n \in DOMAIN rows : rows[n] \in Row
    BY RowsAre
<1>4. top \in Nat /\ top' \in Nat
  <2>1. IsFiniteSet(changed)
      BY <1>3, SyncAssumption, FS_Subset
  <2>2. Cardinality(changed) \in Nat
      BY <2>1, FS_CardinalityType
  <2> HIDE DEF changed
  <2> QED BY <1>2, <2>2 DEF Types
<1>5. \A n \in changed : ver[n] \in Nat
  <2> HIDE DEF changed
  <2> QED BY <1>1, <1>4
<1>6. \A n \in Node : server[n] \in Copies /\ server[n].row \in Row \cup {None}
    BY DEF Types, Copies
<1>7. ASSUME NEW n \in DOMAIN rows \ refused
      PROVE  /\ result(n) \in Row
             /\ \A x \in Row : Beats(x, result(n)) => Beats(x, rows[n]) /\ Beats(x, server[n].row)
             /\ server'[n].row = result(n) /\ server'[n] \in Copies
  <2>1. n \in Node /\ rows[n] \in Row /\ server[n].row \in Row \cup {None}
      BY <1>3, <1>6
  <2>2. /\ result(n) \in Row
        /\ \A x \in Row : Beats(x, result(n)) => Beats(x, rows[n]) /\ Beats(x, server[n].row)
      BY <2>1, JudgedImproves
  <2> HIDE DEF result
  <2>3. CASE n \in changed
      BY <1>1, <1>5, <2>1, <2>2, <2>3 DEF Copies
  <2>4. CASE n \notin changed
      BY <1>1, <1>6, <2>1, <2>2, <2>4
  <2> QED BY <2>2, <2>3, <2>4
<1>8. \A n \in Node : n \notin DOMAIN rows \ refused => server'[n] = server[n]
    BY <1>1
<1>9. \A n \in DOMAIN rows \ refused : result(n) # None
    BY <1>7, SyncAssumption
<1>10. DOMAIN server' = Node /\ server' = [n \in Node |-> server'[n]]
    BY <1>1
<1> HIDE DEF result, changed
<1>11. \A n \in Node : server'[n] \in Copies
    BY <1>6, <1>7, <1>8
<1>12. server' \in [Node -> Copies]
    BY <1>10, <1>11
<1>13. \A n \in Node : /\ server[n].row # None => server'[n].row # None
                       /\ \A x \in Row : Beats(x, server'[n].row) => Beats(x, server[n].row)
    BY <1>7, <1>8, <1>9
<1> QED BY <1>4, <1>7, <1>9, <1>12, <1>13 DEF Improves

\* So does a step that leaves the server alone.
LEMMA StandsStill ==
  ASSUME Types, UNCHANGED <<server, top>>
  PROVE  Improves
BY DEF Types, Improves

\* Each client holds its page or none.
PagesKept ==
  /\ sync' \in [Client -> Syncs]
  /\ \A c \in Client : DOMAIN sync'[c].page = {} \/ sync'[c].page = sync[c].page

\* What was read stays no newer than what an improving server holds.
LEMMA PagesStay ==
  ASSUME Types, Held, Improves, PagesKept
  PROVE  \A c \in Client : \A n \in DOMAIN sync'[c].page : NotNewer(sync'[c].page[n].row, server'[n].row)
<1> TAKE c \in Client
<1> TAKE n \in DOMAIN sync'[c].page
<1>1. sync'[c].page = sync[c].page /\ sync[c].page \in Pages
    BY DEF PagesKept, Types, Syncs
<1>2. n \in Node /\ sync[c].page[n].row \in Row
    BY <1>1, RowsAre
<1>3. NotNewer(sync[c].page[n].row, server[n].row)
    BY <1>1 DEF Held
<1> QED BY <1>1, <1>2, <1>3 DEF NotNewer, Improves

\* A step that leaves the reconcile and the main thread alone keeps what is held.
LEMMA HeldKept ==
  ASSUME Types, Held, Improves, PagesKept, UNCHANGED <<recon, main>>
  PROVE  Held'
<1>1. \A c \in Client : \A n \in DOMAIN sync'[c].page : NotNewer(sync'[c].page[n].row, server'[n].row)
    BY PagesStay
<1>2. recon.pc = "manifest" =>
        /\ recon.rows \in [Node -> Row \cup {None}]
        /\ \A n \in Node : recon.rows[n] # None => server'[n].row # None
    BY DEF Held, Improves
<1>3. recon.pc \in {"post", "download"} => \A n \in recon.down : server'[n].row # None
    BY DEF Held, Improves, Types, Recons
<1>4. recon.pc = "fetched" => \A n \in DOMAIN recon.rows : NotNewer(recon.rows[n], server'[n].row)
  <2> SUFFICES ASSUME recon.pc = "fetched", NEW n \in DOMAIN recon.rows
               PROVE  NotNewer(recon.rows[n], server'[n].row)
      OBVIOUS
  <2>1. recon.rows \in Rows
      BY DEF Types
  <2>2. n \in Node /\ recon.rows[n] \in Row
      BY <2>1, RowsAre
  <2>3. NotNewer(recon.rows[n], server[n].row)
      BY DEF Held
  <2> QED BY <2>2, <2>3 DEF NotNewer, Improves
<1> QED BY <1>1, <1>2, <1>3, <1>4 DEF Held

\* A step that leaves the tables here and the pump alone keeps the marks.
LEMMA MarksKept ==
  ASSUME Types, Marks, Improves, UNCHANGED <<local, dirty, lost, pump>>
  PROVE  Marks'
<1>1. ASSUME NEW n \in Node, Beats(local[n], server'[n].row)
      PROVE  Beats(local[n], server[n].row)
  <2>1. local[n] \in Row
      BY <1>1, BeatsNone DEF Types
  <2> QED BY <1>1, <2>1 DEF Improves
<1>2. DOMAIN pump.rows \subseteq Node
    BY RowsAre DEF Types, Pumps
<1>3. \A n \in DOMAIN pump.rows \ (dirty \cup lost) :
        ~Beats(local[n], pump.rows[n]) \/ ~Beats(local[n], server'[n].row)
    BY <1>1, <1>2 DEF Marks
<1>4. UnsentIsMarked'
    BY <1>1 DEF Marks, UnsentIsMarked, Beats
<1> QED BY <1>3, <1>4 DEF Marks

-----------------------------------------------------------------------------
(* The steps of the writers and of the pump.                               *)

\* No edit is lost by a step (the body of EditsSurvive).
Survives ==
  \A n \in Node : local[n] # None =>
    /\ local'[n] # None
    /\ local[n].sup => local'[n].sup
    /\ local'[n].seq < local[n].seq => local'[n].arch

\* A step that leaves the rows here alone loses no edit.
LEMMA SurvivesIdle ==
  ASSUME Types, UNCHANGED local
  PROVE  Survives
<1> SUFFICES ASSUME NEW n \in Node, local[n] # None PROVE ~(local[n].seq < local[n].seq)
    BY DEF Survives
<1>1. local[n] \in Row
    BY DEF Types
<1> QED BY <1>1 DEF Row

\* A local write is marked, or noted as one whose mark is lost.
LEMMA WriteOK ==
  ASSUME IInv, NEW n \in Node, NEW by, Write(by, n)
  PROVE  IInv' /\ Survives
<1> USE DEF IInv
<1>1. now \in Nat /\ now' = now + 1 /\ now' \in Nat
    BY DEF Write, Types
<1>2. UNCHANGED <<server, top, sync, pump, recon, main>>
    BY DEF Write, serverVars
<1>3. Improves
    BY <1>2, StandsStill
<1>4. PICK r \in Versions(local[n]) : local' = [local EXCEPT ![n] = r]
    BY DEF Write
<1>5. local[n] \in Row \cup {None}
    BY DEF Types
<1>6. r \in Row /\ (local[n] # None => r.seq >= local[n].seq /\ (local[n].sup => r.sup))
    BY <1>1, <1>5, VersionsAre
<1>7. local' \in [Node -> Row \cup {None}] /\ local'[n] = r /\ r # None
      /\ \A o \in Node \ {n} : local'[o] = local[o]
    BY <1>4, <1>6, SyncAssumption DEF Types
<1>8. /\ dirty' \subseteq dirty \cup {n} /\ lost' \subseteq lost \cup {n}
      /\ n \in dirty' \cup lost' /\ \A o \in Node \ {n} : o \in dirty \cup lost => o \in dirty' \cup lost'
    BY DEF Write, Mark
<1>9. Types'
    BY <1>1, <1>2, <1>7, <1>8 DEF Types
<1>10. Held'
  <2>1. PagesKept
      BY <1>2 DEF PagesKept, Types
  <2> QED BY <1>2, <1>3, <2>1, HeldKept
<1>11. Marks'
  <2>1. DOMAIN pump.rows \subseteq Node /\ dirty \subseteq Node
      BY RowsAre DEF Types, Pumps
  <2>2. \A o \in dirty' \cup DOMAIN pump'.rows : local'[o] # None
      BY <1>2, <1>7, <1>8, <2>1 DEF Marks
  <2>3. \A o \in DOMAIN pump'.rows \ (dirty' \cup lost') :
          ~Beats(local'[o], pump'.rows[o]) \/ ~Beats(local'[o], server'[o].row)
      BY <1>2, <1>7, <1>8, <2>1 DEF Marks
  <2>4. UnsentIsMarked'
      BY <1>2, <1>7, <1>8 DEF Marks, UnsentIsMarked
  <2> QED BY <1>2, <2>2, <2>3, <2>4 DEF Marks
<1>12. Survives
  <2> SUFFICES ASSUME NEW o \in Node, local[o] # None
               PROVE  /\ local'[o] # None
                      /\ local[o].sup => local'[o].sup
                      /\ local'[o].seq < local[o].seq => local'[o].arch
      BY DEF Survives
  <2>1. local[o].seq \in Nat /\ local'[o].seq \in Nat
      BY <1>6, <1>7 DEF Types, Row
  <2> QED BY <1>6, <1>7, <2>1
<1> QED BY <1>9, <1>10, <1>11, <1>12

\* Another device's upload improves the server.
LEMMA OtherDeviceOK ==
  ASSUME IInv, NEW n \in Node, OtherDevice(n)
  PROVE  IInv'
<1> USE DEF IInv
<1>1. UNCHANGED <<local, dirty, lost, sync, pump, recon, main>> /\ now' = now + 1
    BY DEF OtherDevice, tables
<1>2. PICK copy, r : /\ copy \in Row \cup {None} /\ r \in Versions(copy)
                     /\ Store([m \in {n} |-> r], {})
  <2> DEFINE held == server[n].row
             copies == IF held = None THEN {None}
                       ELSE {[held EXCEPT !.seq = k] : k \in 1 .. held.seq}
  <2>1. PICK copy \in copies : \E r \in Versions(copy) : Store([m \in {n} |-> r], {})
      BY DEF OtherDevice
  <2>2. copy \in Row \cup {None}
    <3>1. held \in Row \cup {None}
        BY DEF Types, Copies
    <3> HIDE DEF held
    <3> QED BY <2>1, <3>1 DEF Row
  <2> QED BY <2>1, <2>2
<1>3. r \in Row
    BY <1>2, VersionsAre DEF Types
<1>4. [m \in {n} |-> r] \in Rows
    BY <1>3, RowsAre
<1>5. Improves
    BY <1>2, <1>4, StoreImproves
<1>6. Types'
  <2>1. now' \in Nat
      BY <1>1 DEF Types
  <2> QED BY <1>1, <1>5, <2>1 DEF Types, Improves
<1>7. Held'
  <2>1. PagesKept
      BY <1>1 DEF PagesKept, Types
  <2> QED BY <1>1, <1>5, <2>1, HeldKept
<1> QED BY <1>1, <1>5, <1>6, <1>7, MarksKept

\* A claim takes all marks and reads their rows at once; a client that pumps
\* waits for it without a page.
LEMMA ClaimOK ==
  ASSUME IInv, NEW by \in Client \cup {None, "timer"}, Claim(by), pump.pc # "post", PagesKept,
         UNCHANGED <<local, lost, server, top, now, recon, main>>
  PROVE  IInv'
<1> USE DEF IInv
<1>1. Improves
    BY StandsStill
<1>2. \A n \in dirty : n \in Node /\ local[n] \in Row
    BY DEF Marks, Types
<1>3. [n \in dirty |-> local[n]] \in [dirty -> Row]
    BY <1>2
<1>4. [n \in dirty |-> local[n]] \in Rows
    BY <1>3, RowsAre DEF Types
<1>5. pump' \in Pumps /\ pump'.rows = [n \in dirty |-> local[n]] /\ pump'.pc = "post"
    BY <1>4 DEF Claim, Pumps
<1>6. Types'
    BY <1>5 DEF Types, Claim, PagesKept
<1>7. Held'
    BY <1>1, HeldKept
<1>8. Marks'
  <2>1. DOMAIN pump.rows = {}
      BY DEF Marks
  <2>2. DOMAIN pump'.rows = dirty /\ dirty' = {}
      BY <1>5 DEF Claim
  <2>3. \A n \in dirty : ~Beats(local'[n], pump'.rows[n])
      BY <1>2, <1>5, BeatsNone
  <2>4. UnsentIsMarked'
      BY <2>1, <2>2 DEF Marks, UnsentIsMarked
  <2> QED BY <1>2, <1>5, <2>2, <2>3, <2>4 DEF Marks
<1> QED BY <1>6, <1>7, <1>8

\* The uplink timer's claim.
LEMMA PumpTickOK ==
  ASSUME IInv, PumpTick
  PROVE  IInv'
<1>1. PagesKept
    BY DEF PumpTick, PagesKept, IInv, Types
<1> QED BY <1>1, ClaimOK DEF PumpTick, PumpOnly, serverVars, counters

\* The end of a pump sends the client that waited for it on to its pull.
LEMMA PumpEndsOK ==
  ASSUME IInv, PumpEnds(pump.by)
  PROVE  pump' \in Pumps /\ DOMAIN pump'.rows = {} /\ pump'.pc = "idle" /\ PagesKept
<1>1. pump' \in Pumps /\ DOMAIN pump'.rows = {} /\ pump'.pc = "idle"
    BY RowsAre DEF PumpEnds, NoPump, Pumps
<1>2. PagesKept
  <2> DEFINE c == pump.by
  <2>1. CASE c \in Client
    <3>1. [sync[c] EXCEPT !.pc = "pull"] \in Syncs
          /\ [sync[c] EXCEPT !.pc = "pull"].page = sync[c].page
        BY <2>1 DEF IInv, Types, Syncs
    <3>2. sync' = [sync EXCEPT ![c] = [sync[c] EXCEPT !.pc = "pull"]]
        BY <2>1 DEF PumpEnds
    <3> QED BY <2>1, <3>1, <3>2 DEF PagesKept, IInv, Types
  <2>2. CASE c \notin Client
      BY <2>2 DEF PumpEnds, PagesKept, IInv, Types
  <2> QED BY <2>1, <2>2
<1> QED BY <1>1, <1>2

\* The next batch, or the end.
LEMMA PumpClaimOK ==
  ASSUME IInv, PumpClaim
  PROVE  IInv'
<1>1. UNCHANGED <<local, lost, server, top, now, recon, main>> /\ pump.pc = "claim"
    BY DEF PumpClaim, PumpOnly, serverVars, counters
<1>2. CASE dirty = {}
  <2>1. PumpEnds(pump.by) /\ UNCHANGED dirty
      BY <1>2 DEF PumpClaim
  <2>2. pump' \in Pumps /\ DOMAIN pump'.rows = {} /\ pump'.pc = "idle" /\ PagesKept
      BY <2>1, PumpEndsOK
  <2>3. Improves
      BY <1>1, StandsStill DEF IInv
  <2>4. Held'
      BY <1>1, <2>2, <2>3, HeldKept DEF IInv
  <2>5. Types'
      BY <1>1, <2>1, <2>2 DEF Types, PagesKept, IInv
  <2>6. Marks'
    <3>1. DOMAIN pump.rows = {}
        BY <1>1 DEF IInv, Marks
    <3>2. UnsentIsMarked'
        BY <1>1, <2>1, <2>2, <3>1 DEF IInv, Marks, UnsentIsMarked
    <3> QED BY <1>1, <2>1, <2>2, <3>2 DEF IInv, Marks
  <2> QED BY <2>4, <2>5, <2>6 DEF IInv
<1>3. CASE dirty # {}
  <2>1. Claim(pump.by) /\ UNCHANGED sync
      BY <1>3 DEF PumpClaim
  <2>2. PagesKept
      BY <2>1 DEF PagesKept, IInv, Types
  <2>3. pump.by \in Client \cup {None, "timer"}
      BY DEF IInv, Types, Pumps
  <2> QED BY <1>1, <2>1, <2>2, <2>3, ClaimOK
<1> QED BY <1>2, <1>3

\* After an answer only a row that was refused, or written meanwhile, can be
\* newer here.
LEMMA PumpPostedOK ==
  ASSUME IInv, PumpPosted
  PROVE  IInv'
<1> USE DEF IInv
<1>1. UNCHANGED <<local, dirty, now, sync, recon, main>> /\ pump.pc = "post"
    BY DEF PumpPosted
<1>2. PICK refused \in Refusable(pump.rows) :
        Store(pump.rows, refused) /\ lost' = lost \cup (refused \ dirty)
    BY DEF PumpPosted
<1>3. pump.rows \in Rows /\ DOMAIN pump.rows \subseteq Node /\ \A n \in DOMAIN pump.rows : pump.rows[n] \in Row
    BY RowsAre DEF Types, Pumps
<1>4. refused \subseteq DOMAIN pump.rows
    BY <1>2 DEF Refusable
<1>5. /\ Improves
      /\ \A n \in DOMAIN pump.rows \ refused :
           server'[n].row # None /\ \A x \in Row : Beats(x, server'[n].row) => Beats(x, pump.rows[n])
    BY <1>2, <1>3, StoreImproves
<1>6. pump' \in Pumps /\ DOMAIN pump'.rows = {}
  <2>1. pump' = [pump EXCEPT !.pc = "claim", !.rows = NoRows]
      BY DEF PumpPosted
  <2> QED BY <2>1, RowsAre DEF Types, Pumps
<1>7. Types'
    BY <1>1, <1>2, <1>3, <1>4, <1>5, <1>6 DEF Types, Improves
<1>8. Held'
  <2>1. PagesKept
      BY <1>1 DEF PagesKept, Types
  <2> QED BY <1>1, <1>5, <2>1, HeldKept
<1>9. UnsentIsMarked'
  <2> SUFFICES ASSUME NEW n \in Node, Beats(local[n], server'[n].row)
               PROVE  n \in dirty \cup lost'
      BY <1>1, <1>6 DEF UnsentIsMarked, Beats
  <2>1. local[n] \in Row
      BY BeatsNone DEF Types
  <2>2. Beats(local[n], server[n].row)
      BY <1>5, <2>1 DEF Improves
  <2>3. n \in dirty \cup DOMAIN pump.rows \cup lost
      BY <2>2 DEF Marks, UnsentIsMarked, Beats
  <2>4. CASE n \in DOMAIN pump.rows \ (dirty \cup lost) /\ n \notin refused
      BY <1>5, <2>1, <2>2, <2>4 DEF Marks
  <2> QED BY <1>2, <2>3, <2>4
<1>10. Marks'
    BY <1>1, <1>6, <1>9 DEF Marks
<1> QED BY <1>7, <1>8, <1>10

\* A failure marks the rows again, stored or not.
LEMMA PumpFailsOK ==
  ASSUME IInv, PumpFails
  PROVE  IInv'
<1> USE DEF IInv
<1>1. UNCHANGED <<local, lost, now, recon, main>> /\ dirty' = dirty \cup DOMAIN pump.rows
    BY DEF PumpFails, counters
<1>2. pump.rows \in Rows /\ DOMAIN pump.rows \subseteq Node
    BY RowsAre DEF Types, Pumps
<1>3. Improves
  <2>1. CASE Store(pump.rows, {})
      BY <1>2, <2>1, StoreImproves
  <2>2. CASE UNCHANGED serverVars
      BY <2>2, StandsStill DEF serverVars
  <2> QED BY <2>1, <2>2 DEF PumpFails
<1>4. pump' \in Pumps /\ DOMAIN pump'.rows = {} /\ PagesKept
    BY PumpEndsOK DEF PumpFails
<1>5. Types'
    BY <1>1, <1>2, <1>3, <1>4 DEF Types, Improves, PagesKept
<1>6. Held'
    BY <1>1, <1>3, <1>4, HeldKept
<1>7. UnsentIsMarked'
  <2> SUFFICES ASSUME NEW n \in Node, Beats(local[n], server'[n].row)
               PROVE  n \in dirty' \cup lost
      BY <1>1, <1>4 DEF UnsentIsMarked, Beats
  <2>1. local[n] \in Row
      BY BeatsNone DEF Types
  <2> QED BY <1>1, <1>3, <2>1 DEF Improves, Marks, UnsentIsMarked, Beats
<1>8. Marks'
    BY <1>1, <1>4, <1>7 DEF Marks
<1> QED BY <1>5, <1>6, <1>8

-----------------------------------------------------------------------------
(* The steps of the clients and of the main thread.                        *)

\* What every step of a client, the guard or the reconcile's plan leaves alone.
Idle == UNCHANGED <<local, dirty, lost, pump, server, top, now>>

\* Such a step keeps the invariant if the client's page and the reconcile do.
LEMMA IdleOK ==
  ASSUME IInv, Idle, PagesKept, UNCHANGED recon,
         main' # None => /\ main' \in Jobs
                         /\ main'.job # "fetched" => main'.by \in Client
                         /\ main'.job = "fetched" => recon.pc = "fetched"
  PROVE  IInv'
<1> USE DEF IInv, Idle
<1>1. Improves
    BY StandsStill
<1>2. Types'
    BY DEF Types, PagesKept
<1>3. Held'
  <2>1. \A c \in Client : \A n \in DOMAIN sync'[c].page : NotNewer(sync'[c].page[n].row, server'[n].row)
      BY <1>1, PagesStay
  <2> QED BY <2>1 DEF Held
<1>4. Marks'
    BY <1>1, MarksKept
<1> QED BY <1>2, <1>3, <1>4

\* A client that moves on has given up its page.
LEMMA SyncMovesOK ==
  ASSUME Types, NEW c \in Client, NEW pc \in {"idle", "uplink", "pull", "page", "version"},
         SyncMoves(c, pc)
  PROVE  PagesKept
<1>1. [NoSync EXCEPT !.pc = pc] \in Syncs /\ DOMAIN [NoSync EXCEPT !.pc = pc].page = {}
    BY RowsAre DEF NoSync, Syncs
<1> QED BY <1>1 DEF SyncMoves, PagesKept, Types

\* Each client's own steps.
LEMMA ClientOK ==
  ASSUME IInv, NEW c \in Client,
         StartClient(c) \/ SyncStart(c) \/ SyncGivesUp(c) \/ DecayBegins(c) \/ PageBegins(c)
         \/ StopClient \/ PollingStarts \/ PollingStops
  PROVE  IInv'
<1> USE DEF IInv
<1>1. CASE StartClient(c) \/ StopClient \/ PollingStarts \/ PollingStops
  <2>1. Idle /\ UNCHANGED <<sync, recon, main>>
      BY <1>1 DEF StartClient, StopClient, PollingStarts, PollingStops, tables, serverVars,
             counters, Idle
  <2>2. PagesKept
      BY <2>1 DEF PagesKept, Types
  <2> QED BY <2>1, <2>2, IdleOK DEF Types, Held
<1>2. CASE SyncStart(c)
  <2>0. UNCHANGED <<local, lost, server, top, now, recon, main>>
      BY <1>2 DEF SyncStart, PumpOnly, serverVars, counters
  <2>1. CASE pump.pc = "idle" /\ Claim(c) /\ SyncMoves(c, "uplink")
      BY <2>0, <2>1, SyncMovesOK, ClaimOK
  <2>2. CASE SyncMoves(c, "pull") /\ UNCHANGED <<pump, dirty>>
    <3>1. Idle
        BY <2>0, <2>2 DEF Idle
    <3> QED BY <2>0, <2>2, <3>1, SyncMovesOK, IdleOK DEF Types, Held
  <2> QED BY <1>2, <2>1, <2>2 DEF SyncStart
<1>3. CASE SyncGivesUp(c)
  <2>1. Idle /\ UNCHANGED <<recon, main>> /\ SyncMoves(c, "idle")
      BY <1>3 DEF SyncGivesUp, SyncOnly, tables, serverVars, counters, Idle
  <2> QED BY <2>1, SyncMovesOK, IdleOK DEF Types, Held
<1>4. CASE DecayBegins(c) \/ PageBegins(c)
  <2>1. Idle /\ UNCHANGED <<sync, recon>>
      BY <1>4 DEF DecayBegins, PageBegins, tables, serverVars, counters, Idle
  <2>2. main' \in Jobs /\ main'.job # "fetched" /\ main'.by \in Client
      BY <1>4 DEF DecayBegins, PageBegins, Jobs
  <2>3. PagesKept
      BY <2>1 DEF PagesKept, Types
  <2> QED BY <2>1, <2>2, <2>3, IdleOK
<1> QED BY <1>1, <1>2, <1>3, <1>4

\* A page is what the server holds now.
LEMMA PullPageOK ==
  ASSUME IInv, NEW c \in Client, PullPage(c)
  PROVE  IInv'
<1> USE DEF IInv
<1>1. Idle /\ UNCHANGED <<recon, main>>
    BY DEF PullPage, SyncOnly, tables, serverVars, counters, Idle
<1>2. PICK page \in FirstPage : sync' = [sync EXCEPT ![c] =
         IF page = {} THEN [NoSync EXCEPT !.pc = "version"]
         ELSE [pc |-> "page", page |-> [n \in page |-> server[n]], more |-> page # Behind]]
    BY DEF PullPage
<1>3. CASE page = {}
  <2>1. SyncMoves(c, "version")
      BY <1>2, <1>3 DEF SyncMoves
  <2> QED BY <1>1, <2>1, SyncMovesOK, IdleOK DEF Types, Held
<1>4. CASE page # {}
  <2> DEFINE rows == [n \in page |-> server[n]]
             more == page # Behind
  <2>1. page \subseteq Behind
      BY <1>2 DEF FirstPage
  <2>2. \A n \in page : n \in Node /\ server[n].row # None /\ server[n] \in Copies
      BY <2>1 DEF Behind, Types
  <2>3. \A n \in page : server[n].row \in Row /\ server[n] \in [row : Row, ver : Nat]
      BY <2>2 DEF Copies
  <2>4. rows \in [page -> [row : Row, ver : Nat]]
      BY <2>3
  <2>5. page \in SUBSET Node
      BY <2>2
  <2>6. rows \in Pages
      BY <2>4, <2>5, RowsAre
  <2>7. more \in BOOLEAN
      BY ZenonT(30)
  <2>8. \A n \in DOMAIN rows : NotNewer(rows[n].row, server[n].row)
      BY <2>2, <2>3, BeatsNone DEF NotNewer
  <2>9. sync' = [sync EXCEPT ![c] = [pc |-> "page", page |-> rows, more |-> more]]
      BY <1>2, <1>4
  <2> HIDE DEF rows, more
  <2>10. sync' \in [Client -> Syncs] /\ sync'[c].page = rows
         /\ \A d \in Client \ {c} : sync'[d] = sync[d]
      BY <2>6, <2>7, <2>9 DEF Types, Syncs
  <2>11. Types'
      BY <1>1, <2>10 DEF Types, Idle
  <2>12. Held'
    <3>1. \A d \in Client : \A n \in DOMAIN sync'[d].page : NotNewer(sync'[d].page[n].row, server[n].row)
        BY <2>8, <2>10 DEF Held
    <3> QED BY <1>1, <3>1 DEF Held, Idle
  <2>13. Marks'
      BY <1>1, StandsStill, MarksKept DEF Idle
  <2> QED BY <2>11, <2>12, <2>13
<1> QED BY <1>3, <1>4

\* The guard goes up for what was fetched, goes down, and the cursor moves.
LEMMA GuardOK ==
  ASSUME IInv, FetchedBegins \/ GuardDown \/ CursorMoves
  PROVE  IInv'
<1> USE DEF IInv
<1>1. Idle
    BY DEF FetchedBegins, GuardDown, CursorMoves, tables, serverVars, counters, Idle
<1>2. CASE FetchedBegins
  <2>1. PagesKept /\ UNCHANGED recon
      BY <1>2 DEF FetchedBegins, PagesKept, Types
  <2>2. main' \in Jobs /\ main'.job = "fetched" /\ recon.pc = "fetched"
      BY <1>2 DEF FetchedBegins, Jobs
  <2> QED BY <1>1, <2>1, <2>2, IdleOK
<1>3. CASE CursorMoves
  <2>1. main' = None /\ UNCHANGED recon /\ main # None
      BY <1>3 DEF CursorMoves
  <2>2. CASE main.job = "fetched"
    <3> USE <2>2
    <3> SUFFICES PagesKept
        BY <1>1, <2>1, IdleOK
    <3> DEFINE pc == IF sync[main.by].more THEN "pull" ELSE "version"
               move == [NoSync EXCEPT !.pc = pc]
    <3>1. sync' = [sync EXCEPT ![main.by] = move]
        BY <1>3 DEF CursorMoves, SyncMoves
    <3>2. move \in Syncs /\ DOMAIN move.page = {}
        BY RowsAre DEF NoSync, Syncs
    <3> HIDE DEF move
    <3> QED BY <3>1, <3>2 DEF PagesKept, Types
  <2>3. CASE main.job # "fetched"
    <3>1. main.by \in Client
        BY <2>1, <2>3 DEF Types
    <3>2. SyncMoves(main.by, "pull") \/ SyncMoves(main.by, "version")
        BY <1>3 DEF CursorMoves
    <3> QED BY <1>1, <2>1, <3>1, <3>2, SyncMovesOK, IdleOK
  <2> QED BY <2>2, <2>3
<1>4. CASE GuardDown
  <2>1. main # None
      BY <1>4 DEF GuardDown
  <2>2. PagesKept
    <3>1. CASE main.job = "decay"
      <4>1. sync' = [sync EXCEPT ![main.by] = NoSync] /\ main.by \in Client
          BY <1>4, <2>1, <3>1 DEF GuardDown, Types
      <4>2. NoSync \in Syncs /\ DOMAIN NoSync.page = {}
          BY RowsAre DEF NoSync, Syncs
      <4> QED BY <4>1, <4>2 DEF PagesKept, Types
    <3>2. CASE main.job # "decay"
        BY <1>4, <3>2 DEF GuardDown, PagesKept, Types
    <3> QED BY <3>1, <3>2
  <2>3. CASE main.job = "page"
    <3>1. main' = [main EXCEPT !.at = "cursor"] /\ UNCHANGED recon
        BY <1>4, <2>3 DEF GuardDown
    <3>2. main' \in Jobs /\ main'.job = "page" /\ main'.by \in Client
        BY <2>1, <2>3, <3>1 DEF Types, Jobs
    <3> QED BY <1>1, <2>2, <3>2, <3>1, IdleOK
  <2>4. CASE main.job = "decay"
      BY <1>1, <1>4, <2>2, <2>4, IdleOK DEF GuardDown
  <2>5. CASE main.job = "fetched"
    <3>1. main' = None /\ recon' = [NoRecon EXCEPT !.pc = "done"]
        BY <1>4, <2>5 DEF GuardDown
    <3>2. recon' \in Recons /\ recon'.pc = "done" /\ recon'.rows \in Rows
        BY <3>1, RowsAre DEF NoRecon, Recons
    <3>3. Types'
        BY <1>1, <2>2, <3>1, <3>2 DEF Types, Idle, PagesKept
    <3>4. Improves
        BY <1>1, StandsStill DEF Idle
    <3>5. Held'
      <4>1. \A c \in Client : \A n \in DOMAIN sync'[c].page : NotNewer(sync'[c].page[n].row, server'[n].row)
          BY <2>2, <3>4, PagesStay
      <4> QED BY <3>1, <3>2, <4>1 DEF Held
    <3>6. Marks'
        BY <1>1, <3>4, MarksKept DEF Idle
    <3> QED BY <3>3, <3>5, <3>6
  <2> QED BY <2>1, <2>3, <2>4, <2>5 DEF Types, Jobs
<1> QED BY <1>2, <1>3, <1>4

-----------------------------------------------------------------------------
(* The downlink: rows that are no newer than the server's.                 *)

\* Applying such rows makes no row newer here than on the server.
LEMMA DownlinkOK ==
  ASSUME IInv, NEW rows \in Rows, NEW bad, Downlink(rows, bad),
         \A n \in DOMAIN rows : NotNewer(rows[n], server[n].row),
         UNCHANGED <<dirty, lost, pump, server, top, now, sync, recon>>,
         main' \in Jobs /\ main'.job = main.job /\ main'.by = main.by, main # None
  PROVE  IInv' /\ Survives
<1> USE DEF IInv
<1>1. DOMAIN rows \subseteq Node /\ \A n \in DOMAIN rows : rows[n] \in Row
    BY RowsAre
<1>2. local' = [n \in Node |-> IF n \in DOMAIN rows \ bad
                                THEN Applied(rows[n], local[n]) ELSE local[n]]
    BY DEF Downlink
<1>3. \A n \in Node : local[n] \in Row \cup {None} /\ server[n].row \in Row \cup {None}
    BY DEF Types, Copies
<1>4. ASSUME NEW n \in Node
      PROVE  /\ local'[n] \in Row \cup {None}
             /\ local[n] # None => /\ local'[n] # None
                                   /\ local[n].sup => local'[n].sup
                                   /\ local'[n].seq < local[n].seq => local'[n].arch
             /\ Beats(local'[n], server[n].row) => Beats(local[n], server[n].row)
             /\ \A y \in Row : Beats(local'[n], y) /\ Beats(local'[n], server[n].row)
                                 => Beats(local[n], y)
  <2>1. CASE n \notin DOMAIN rows \ bad
    <3>1. local'[n] = local[n]
        BY <1>2, <2>1
    <3>2. local[n] # None => local[n].seq \in Nat
        BY <1>3 DEF Row
    <3> QED BY <1>3, <3>1, <3>2
  <2>2. CASE n \in DOMAIN rows \ bad
    <3> DEFINE a == Applied(rows[n], local[n])
    <3>1. local'[n] = a
        BY <1>2, <2>2
    <3>2. /\ a \in Row
          /\ \A y \in Row \cup {None} : Beats(a, y) => Beats(rows[n], y) \/ Beats(local[n], y)
          /\ local[n] # None => (local[n].sup => a.sup) /\ (a.seq < local[n].seq => a.arch)
        BY <1>1, <1>3, <2>2, AppliedIs
    <3>3. ~Beats(rows[n], server[n].row)
        BY <2>2 DEF NotNewer
    <3>4. a # None
        BY <3>2, SyncAssumption
    <3>5. Beats(a, server[n].row) => a = [local[n] EXCEPT !.sup = rows[n].sup \/ local[n].sup]
                                     /\ local[n] \in Row
      <4>1. CASE local[n] = None
        <5>1. a = rows[n]
            BY <4>1 DEF Applied
        <5> QED BY <5>1, <3>3
      <4>2. CASE local[n] # None /\ (rows[n].arch \/ ContentTakesCloud(rows[n], local[n]))
        <5> DEFINE sup == rows[n].sup \/ local[n].sup
        <5>1. a = [rows[n] EXCEPT !.sup = sup]
            BY <4>2 DEF Applied
        <5>2. a.seq = rows[n].seq /\ a.arch = rows[n].arch /\ a.upd = rows[n].upd /\ rows[n] \in Row
            BY <5>1, <1>1, <2>2 DEF Row
        <5>3. server[n].row \in Row
            BY <1>3, <2>2 DEF NotNewer
        <5> HIDE DEF a
        <5>4. ~Beats(a, server[n].row)
            BY <3>2, <3>3, <5>2, <5>3, BeatsIs
        <5> QED BY <5>4
      <4>3. CASE local[n] # None /\ ~(rows[n].arch \/ ContentTakesCloud(rows[n], local[n]))
          BY <1>3, <4>3 DEF Applied
      <4> QED BY <4>1, <4>2, <4>3
    <3>6. ASSUME NEW y \in Row, Beats(a, y), Beats(a, server[n].row)
          PROVE  Beats(local[n], y)
      <4>1. a = [local[n] EXCEPT !.sup = rows[n].sup \/ local[n].sup] /\ local[n] \in Row
          BY <3>5, <3>6
      <4>2. a.seq = local[n].seq /\ a.arch = local[n].arch /\ a.upd = local[n].upd
        <5> DEFINE sup == rows[n].sup \/ local[n].sup
        <5>1. a = [local[n] EXCEPT !.sup = sup]
            BY <4>1
        <5> HIDE DEF a, sup
        <5> QED BY <4>1, <5>1 DEF Row
      <4> HIDE DEF a
      <4> QED BY <3>2, <3>6, <4>1, <4>2, BeatsIs
    <3> HIDE DEF a
    <3> QED BY <1>3, <3>1, <3>2, <3>3, <3>4, <3>6
  <2> QED BY <2>1, <2>2
<1>5. local' \in [Node -> Row \cup {None}]
    BY <1>2, <1>4
<1>6. Types'
    BY <1>5 DEF Types
<1>7. Improves /\ PagesKept
    BY StandsStill DEF PagesKept, Types
<1>8. Held'
  <2>1. \A c \in Client : \A n \in DOMAIN sync'[c].page : NotNewer(sync'[c].page[n].row, server'[n].row)
      BY <1>7, PagesStay
  <2> QED BY <2>1 DEF Held
<1>9. Marks'
  <2>1. pump.rows \in Rows
      BY DEF Types, Pumps
  <2>2. /\ DOMAIN pump.rows \subseteq Node /\ dirty \subseteq Node
        /\ \A n \in DOMAIN pump.rows : pump.rows[n] \in Row
      BY <2>1, RowsAre DEF Types
  <2>3. \A n \in dirty' \cup DOMAIN pump'.rows : local'[n] # None
      BY <1>4, <2>2 DEF Marks
  <2>4. \A n \in DOMAIN pump.rows \ (dirty \cup lost) :
          ~Beats(local'[n], pump.rows[n]) \/ ~Beats(local'[n], server[n].row)
      BY <1>4, <2>2 DEF Marks
  <2>5. UnsentIsMarked'
      BY <1>4 DEF Marks, UnsentIsMarked, Beats
  <2> QED BY <2>3, <2>4, <2>5 DEF Marks
<1> QED BY <1>4, <1>6, <1>8, <1>9 DEF Survives

\* A page of the pull.
LEMMA PageRowsOK ==
  ASSUME IInv, PageRows
  PROVE  IInv' /\ Survives
<1> DEFINE page == sync[main.by].page
           rows == [n \in DOMAIN page |-> page[n].row]
<1>1. main # None /\ main \in Jobs /\ main.job = "page" /\ main.by \in Client
      /\ main' = [main EXCEPT !.at = "down"]
    BY DEF PageRows, IInv, Types
<1>2. main' \in Jobs /\ main'.job = main.job /\ main'.by = main.by
    BY <1>1 DEF Jobs
<1>3. page \in Pages
    BY <1>1 DEF IInv, Types, Syncs
<1>4. DOMAIN page \subseteq Node /\ \A n \in DOMAIN page : page[n].row \in Row
    BY <1>3, RowsAre
<1>5. rows \in Rows /\ DOMAIN rows = DOMAIN page
  <2> HIDE DEF page
  <2>1. rows \in [DOMAIN page -> Row]
      BY <1>4
  <2> QED BY <1>4, <2>1, RowsAre
<1>6. \A n \in DOMAIN rows : NotNewer(rows[n], server[n].row)
    BY <1>1 DEF IInv, Held
<1>7. \E bad : Downlink(rows, bad)
    BY DEF PageRows
<1>8. UNCHANGED <<dirty, lost, pump, server, top, now, sync, recon>>
    BY DEF PageRows, serverVars
<1> HIDE DEF rows
<1> QED BY <1>1, <1>2, <1>5, <1>6, <1>7, <1>8, DownlinkOK

\* The rows a reconcile fetched.
LEMMA FetchedRowsOK ==
  ASSUME IInv, FetchedRows
  PROVE  IInv' /\ Survives
<1>1. main # None /\ main \in Jobs /\ main.job = "fetched" /\ main' = [main EXCEPT !.at = "down"]
    BY DEF FetchedRows, IInv, Types
<1>2. main' \in Jobs /\ main'.job = main.job /\ main'.by = main.by
    BY <1>1 DEF Jobs
<1>3. recon.pc = "fetched" /\ recon.rows \in Rows
    BY <1>1 DEF IInv, Held, Types
<1>4. \A n \in DOMAIN recon.rows : NotNewer(recon.rows[n], server[n].row)
    BY <1>3 DEF IInv, Held
<1>5. Downlink(recon.rows, {}) /\ UNCHANGED <<dirty, lost, pump, server, top, now, sync, recon>>
    BY DEF FetchedRows, serverVars, counters
<1> QED BY <1>1, <1>2, <1>3, <1>4, <1>5, DownlinkOK

-----------------------------------------------------------------------------
(* The reconcile.                                                          *)

\* What the reconcile may hold next.
HoldsNext ==
  /\ recon' \in Recons
  /\ recon'.pc # "manifest" => recon'.rows \in Rows
  /\ recon'.pc = "manifest" => /\ recon'.rows \in [Node -> Row \cup {None}]
                               /\ \A n \in Node : recon'.rows[n] # None => server'[n].row # None
  /\ recon'.pc \in {"post", "download"} => \A n \in recon'.down : server'[n].row # None
  /\ recon'.pc = "fetched" => \A n \in DOMAIN recon'.rows : NotNewer(recon'.rows[n], server'[n].row)

\* What a reconcile copies is the later version.
LEMMA PlannedMoves ==
  ASSUME NEW x, NEW y
  PROVE  /\ Planned(x, y) = "local" => Winner(x, y) = "local"
         /\ Planned(x, y) = "server" => Winner(x, y) = "server"
  BY DEF Planned, ManifestWinner, Winner

\* The manifest, the plan, the fetch and the end read both sides and write
\* neither.
LEMMA ReconReads ==
  ASSUME IInv, ReconManifest \/ ReconPlan \/ ReconFetch \/ ReconEnds
  PROVE  IInv'
<1> USE DEF IInv
<1>1. Idle /\ UNCHANGED <<sync, main>> /\ main = None
    BY DEF ReconManifest, ReconPlan, ReconFetch, ReconEnds, ReconOnly, tables, serverVars,
           counters, Idle
<1>2. Improves /\ PagesKept
    BY <1>1, StandsStill DEF Idle, PagesKept, Types
<1>3. Marks'
    BY <1>1, <1>2, MarksKept DEF Idle
<1>4. \A c \in Client : \A n \in DOMAIN sync'[c].page : NotNewer(sync'[c].page[n].row, server'[n].row)
    BY <1>2, PagesStay
<1>5. \A n \in Node : server'[n].row = server[n].row /\ server[n].row \in Row \cup {None}
    BY <1>1 DEF Types, Copies, Idle
<1> SUFFICES HoldsNext
  <2> SUFFICES ASSUME HoldsNext PROVE Types' /\ Held'
      BY <1>3
  <2>1. Types'
      BY <1>1 DEF HoldsNext, Types, Idle
  <2>2. Held'
      BY <1>1, <1>4 DEF HoldsNext, Held
  <2> QED BY <2>1, <2>2
<1>6. CASE ReconEnds
  <2>1. recon' \in Recons /\ recon'.pc = "idle" /\ recon'.rows \in Rows
      BY <1>6, RowsAre DEF ReconEnds, NoRecon, Recons
  <2> QED BY <2>1 DEF HoldsNext
<1>7. CASE ReconManifest
  <2> DEFINE rows == [n \in Node |-> server[n].row]
  <2>1. recon'.pc = "manifest" /\ recon'.down = {} /\ recon'.rows = rows
        /\ recon' = [pc |-> "manifest", rows |-> rows, down |-> {}]
      BY <1>7 DEF ReconManifest, NoRecon
  <2>2. rows \in [Node -> Row \cup {None}] /\ \A n \in Node : rows[n] # None => server'[n].row # None
      BY <1>5
  <2> HIDE DEF rows
  <2>3. recon' \in Recons
      BY <2>1, <2>2 DEF Recons
  <2> QED BY <2>1, <2>2, <2>3 DEF HoldsNext
<1>8. CASE ReconPlan
  <2> DEFINE mine == {n \in Node : Planned(local[n], recon.rows[n]) = "local"}
             theirs == {n \in Node : Planned(local[n], recon.rows[n]) = "server"}
             rows == [n \in mine |-> local[n]]
  <2>1. recon.pc = "manifest" /\ recon' = [pc |-> IF mine = {} THEN "download" ELSE "post",
                                           rows |-> rows, down |-> theirs]
      BY <1>8 DEF ReconPlan
  <2>2. \A n \in mine : local[n] \in Row
      BY PlannedMoves, BeatsNone DEF Types, Beats
  <2>3. rows \in Rows
    <3>1. rows \in [mine -> Row]
        BY <2>2
    <3> QED BY <3>1, RowsAre
  <2>4. \A n \in theirs : server[n].row # None
      BY <2>1, PlannedMoves DEF Held, Winner
  <2>5. theirs \subseteq Node
      OBVIOUS
  <2> HIDE DEF rows, mine, theirs
  <2>6. recon'.pc \in {"post", "download"} /\ recon'.rows \in Rows /\ recon'.down = theirs
        /\ recon' \in Recons
      BY <2>1, <2>3, <2>5 DEF Recons
  <2> QED BY <1>5, <2>4, <2>5, <2>6 DEF HoldsNext
<1>9. CASE ReconFetch
  <2> DEFINE rows == [n \in recon.down |-> server[n].row]
  <2>1. recon.pc = "download" /\ recon.down \subseteq Node /\ \A n \in recon.down : server[n].row # None
      BY <1>9 DEF ReconFetch, Held, Types, Recons
  <2>2. CASE recon.down = {}
    <3>1. recon' \in Recons /\ recon'.pc = "done" /\ recon'.rows \in Rows
        BY <1>9, <2>2, RowsAre DEF ReconFetch, NoRecon, Recons
    <3> QED BY <3>1 DEF HoldsNext
  <2>3. CASE recon.down # {}
    <3>0. recon' = [recon EXCEPT !.pc = "fetched", !.rows = rows]
        BY <1>9, <2>3 DEF ReconFetch
    <3>1. rows \in [recon.down -> Row]
        BY <1>5, <2>1
    <3>2. rows \in Rows /\ \A n \in DOMAIN rows : NotNewer(rows[n], server[n].row)
        BY <1>5, <2>1, <3>1, RowsAre, BeatsNone DEF NotNewer
    <3> HIDE DEF rows
    <3>3. recon' \in Recons /\ recon'.pc = "fetched" /\ recon'.rows = rows
        BY <3>0, <3>2 DEF Types, Recons
    <3>4. \A n \in DOMAIN rows : NotNewer(rows[n], server'[n].row)
        BY <1>5, <2>1, <3>1, <3>2
    <3> QED BY <3>2, <3>3, <3>4 DEF HoldsNext
  <2> QED BY <2>2, <2>3
<1> QED BY <1>6, <1>7, <1>8, <1>9

\* The upload improves the server.
LEMMA ReconPostedOK ==
  ASSUME IInv, ReconPosted
  PROVE  IInv'
<1> USE DEF IInv
<1>1. recon.pc = "post" /\ recon' = [recon EXCEPT !.pc = "download", !.rows = NoRows]
      /\ UNCHANGED <<local, dirty, lost, pump, now, sync, main>> /\ main = None
    BY DEF ReconPosted, tables
<1>2. recon.rows \in Rows
    BY <1>1 DEF Types
<1>3. Improves
  <2>1. \E refused : Store(recon.rows, refused)
      BY DEF ReconPosted
  <2> QED BY <1>2, <2>1, StoreImproves
<1>4. recon'.pc = "download" /\ recon'.down = recon.down /\ recon'.rows = NoRows
      /\ recon' \in Recons
    BY <1>1, RowsAre DEF Types, Recons
<1>5. PagesKept
    BY <1>1 DEF PagesKept, Types
<1>6. Types'
    BY <1>1, <1>3, <1>4, RowsAre DEF Types, Improves
<1>7. Held'
  <2>1. \A c \in Client : \A n \in DOMAIN sync'[c].page : NotNewer(sync'[c].page[n].row, server'[n].row)
      BY <1>3, <1>5, PagesStay
  <2>2. \A n \in recon.down : server'[n].row # None
      BY <1>1, <1>3 DEF Held, Types, Improves, Recons
  <2> QED BY <1>1, <1>4, <2>1, <2>2 DEF Held
<1>8. Marks'
    BY <1>1, <1>3, MarksKept
<1> QED BY <1>6, <1>7, <1>8

-----------------------------------------------------------------------------
(* The start, a crash, and the theorems.                                   *)

\* What the pump held is lost with the process unless it is marked again.
LEMMA CrashOK ==
  ASSUME IInv, Crash
  PROVE  IInv'
<1> USE DEF IInv
<1>1. UNCHANGED <<local, dirty, server, top, now>> /\ lost' = lost \cup (DOMAIN pump.rows \ dirty)
      /\ sync' = [c \in Client |-> NoSync] /\ pump' = NoPump /\ recon' = NoRecon /\ main' = None
    BY DEF Crash, serverVars
<1>2. DOMAIN pump.rows \subseteq Node
    BY RowsAre DEF Types, Pumps
<1>3. sync' \in [Client -> Syncs] /\ \A c \in Client : DOMAIN sync'[c].page = {}
  <2>1. NoSync \in Syncs /\ DOMAIN NoSync.page = {}
      BY RowsAre DEF NoSync, Syncs
  <2> QED BY <1>1, <2>1
<1>4. pump' \in Pumps /\ DOMAIN pump'.rows = {}
    BY <1>1, RowsAre DEF NoPump, Pumps
<1>5. recon' \in Recons /\ recon'.pc = "idle" /\ recon'.down = {} /\ recon'.rows \in Rows
    BY <1>1, RowsAre DEF NoRecon, Recons
<1>6. Types'
    BY <1>1, <1>2, <1>3, <1>4, <1>5 DEF Types
<1>7. Held'
    BY <1>1, <1>3, <1>5 DEF Held
<1>8. Marks'
    BY <1>1, <1>4 DEF Marks, UnsentIsMarked
<1> QED BY <1>6, <1>7, <1>8

\* The two sides agree at the start.
LEMMA InitOK == Init => IInv
<1> SUFFICES ASSUME Init PROVE IInv
    OBVIOUS
<1> DEFINE row == [seq |-> 1, upd |-> 0, arch |-> FALSE, sup |-> FALSE]
<1>1. PICK synced \in SUBSET Node :
        /\ local = [n \in Node |-> IF n \in synced THEN row ELSE None]
        /\ top = Cardinality(synced)
        /\ \E ver \in Bijection(synced, 1 .. top) :
             server = [n \in Node |-> IF n \in synced THEN [row |-> row, ver |-> ver[n]]
                                      ELSE [row |-> None, ver |-> 0]]
    BY DEF Init
<1>2. PICK ver \in Bijection(synced, 1 .. top) :
        server = [n \in Node |-> IF n \in synced THEN [row |-> row, ver |-> ver[n]]
                                 ELSE [row |-> None, ver |-> 0]]
    BY <1>1
<1>3. row \in Row
    BY DEF Row
<1>4. top \in Nat
  <2>1. IsFiniteSet(synced)
      BY SyncAssumption, FS_Subset
  <2> QED BY <1>1, <2>1, FS_CardinalityType
<1>5. \A n \in synced : ver[n] \in Nat
    BY <1>4 DEF Bijection, Injection, Surjection
<1> HIDE DEF row
<1>6. server \in [Node -> Copies]
    BY <1>2, <1>3, <1>5 DEF Copies
<1>7. local \in [Node -> Row \cup {None}]
    BY <1>1, <1>3
<1>8. /\ NoSync \in Syncs /\ DOMAIN NoSync.page = {}
      /\ NoPump \in Pumps /\ DOMAIN NoPump.rows = {} /\ NoPump.pc = "idle"
      /\ NoRecon \in Recons /\ NoRecon.pc = "idle" /\ NoRecon.down = {} /\ NoRecon.rows \in Rows
    BY RowsAre DEF NoSync, Syncs, NoPump, Pumps, NoRecon, Recons
<1>9. Types
    BY <1>4, <1>6, <1>7, <1>8 DEF Init, Types
<1>10. Held
    BY <1>8 DEF Init, Held
<1>11. Marks
  <2>1. \A n \in Node : ~Beats(local[n], server[n].row)
      BY <1>1, <1>2, <1>3, BeatsNone
  <2> QED BY <1>8, <2>1 DEF Init, Marks, UnsentIsMarked, Beats
<1> QED BY <1>9, <1>10, <1>11 DEF IInv

\* Every step keeps the invariant and every edit.
LEMMA NextOK ==
  ASSUME IInv, [Next]_vars
  PROVE  IInv' /\ Survives
<1>1. CASE UNCHANGED vars
  <2>1. Idle /\ UNCHANGED <<sync, recon, main>>
      BY <1>1 DEF vars, Idle
  <2>2. PagesKept
      BY <2>1 DEF PagesKept, IInv, Types
  <2>3. IInv'
      BY <2>1, <2>2, IdleOK DEF IInv, Types, Held
  <2> QED BY <2>1, <2>3, SurvivesIdle DEF Idle, IInv
<1>2. CASE \E n \in Node, by \in {"main", "other"} : Write(by, n)
    BY <1>2, WriteOK
<1>3. CASE PageRows \/ FetchedRows
    BY <1>3, PageRowsOK, FetchedRowsOK
<1>4. CASE \E n \in Node : OtherDevice(n)
    BY <1>4, OtherDeviceOK, SurvivesIdle DEF OtherDevice, tables, IInv
<1>5. CASE PumpTick \/ PumpClaim \/ PumpPosted \/ PumpFails
  <2>1. IInv'
      BY <1>5, PumpTickOK, PumpClaimOK, PumpPostedOK, PumpFailsOK
  <2>2. UNCHANGED local
      BY <1>5 DEF PumpTick, PumpClaim, PumpPosted, PumpFails, PumpOnly
  <2> QED BY <2>1, <2>2, SurvivesIdle DEF IInv
<1>6. CASE \/ StopClient \/ PollingStarts \/ PollingStops
          \/ \E c \in Client : \/ StartClient(c) \/ SyncStart(c) \/ SyncGivesUp(c)
                               \/ DecayBegins(c) \/ PageBegins(c)
  <2>1. IInv'
    <3>1. CASE StopClient \/ PollingStarts \/ PollingStops
      <4>1. Idle /\ UNCHANGED <<sync, recon, main>>
          BY <3>1 DEF StopClient, PollingStarts, PollingStops, tables, serverVars,
                      counters, Idle
      <4>2. PagesKept
          BY <4>1 DEF PagesKept, IInv, Types
      <4> QED BY <4>1, <4>2, IdleOK DEF IInv, Types, Held
    <3> QED BY <1>6, <3>1, ClientOK
  <2>2. UNCHANGED local
      BY <1>6 DEF StopClient, PollingStarts, PollingStops, StartClient, SyncStart, SyncGivesUp,
                  DecayBegins, PageBegins, PumpOnly, SyncOnly, tables
  <2> QED BY <2>1, <2>2, SurvivesIdle DEF IInv
<1>7. CASE \E c \in Client : PullPage(c)
  <2>1. IInv'
      BY <1>7, PullPageOK
  <2>2. UNCHANGED local
      BY <1>7 DEF PullPage, SyncOnly, tables
  <2> QED BY <2>1, <2>2, SurvivesIdle DEF IInv
<1>8. CASE FetchedBegins \/ GuardDown \/ CursorMoves
  <2>1. UNCHANGED local
      BY <1>8 DEF FetchedBegins, GuardDown, CursorMoves, tables
  <2> QED BY <1>8, <2>1, GuardOK, SurvivesIdle DEF IInv
<1>9. CASE ReconManifest \/ ReconPlan \/ ReconPosted \/ ReconFetch \/ ReconEnds
  <2>1. UNCHANGED local
      BY <1>9 DEF ReconManifest, ReconPlan, ReconPosted, ReconFetch, ReconEnds, ReconOnly, tables
  <2> QED BY <1>9, <2>1, ReconReads, ReconPostedOK, SurvivesIdle DEF IInv
<1>10. CASE Crash
  <2>1. UNCHANGED local
      BY <1>10 DEF Crash
  <2> QED BY <1>10, <2>1, CrashOK, SurvivesIdle DEF IInv
<1> QED BY <1>1, <1>2, <1>3, <1>4, <1>5, <1>6, <1>7, <1>8, <1>9, <1>10 DEF Next

\* The flags, the histories and the counters that the argument does not need.
Rest ==
  /\ applying \in BOOLEAN /\ quiet \in BOOLEAN /\ faults \in Nat
  /\ current \in Client \cup {None} /\ polling \in BOOLEAN
  /\ dead \subseteq Node /\ overlaid \subseteq Node

\* They keep their types.
LEMMA RestOK ==
  ASSUME IInv, Rest, [Next]_vars
  PROVE  Rest'
<1> USE DEF Rest
<1>1. CASE UNCHANGED vars
    BY <1>1 DEF vars
<1>2. CASE \E n \in Node : (\E by \in {"main", "other"} : Write(by, n)) \/ OtherDevice(n)
    BY <1>2 DEF Write, OtherDevice, downlinked
<1>3. CASE PumpTick \/ PumpClaim \/ PumpFails
    BY <1>3 DEF PumpTick, PumpClaim, PumpFails, PumpOnly, downlinked, counters
<1>4. CASE PumpPosted
  <2>1. PICK refused : Count(refused # {})
      BY <1>4 DEF PumpPosted
  <2>2. faults' \in Nat
      BY <2>1 DEF Count
  <2> QED BY <1>4, <2>2 DEF PumpPosted, downlinked
<1>5. CASE \/ StopClient \/ PollingStarts \/ PollingStops
          \/ \E c \in Client : \/ StartClient(c) \/ SyncStart(c) \/ SyncGivesUp(c)
                               \/ PullPage(c) \/ DecayBegins(c) \/ PageBegins(c)
    BY <1>5 DEF StopClient, PollingStarts, PollingStops, StartClient, SyncStart, SyncGivesUp,
                PullPage, DecayBegins, PageBegins, PumpOnly, SyncOnly, downlinked, counters
<1>6. CASE FetchedBegins \/ GuardDown \/ CursorMoves
    BY <1>6 DEF FetchedBegins, GuardDown, CursorMoves, downlinked, counters
<1>7. CASE PageRows
  <2> DEFINE page == sync[main.by].page
             rows == [n \in DOMAIN page |-> page[n].row]
  <2>1. main.by \in Client
      BY <1>7 DEF PageRows, IInv, Types
  <2>2. page \in Pages
      BY <2>1 DEF IInv, Types, Syncs
  <2>3. DOMAIN page \subseteq Node
      BY <2>2, RowsAre
  <2>4. PICK bad \in SUBSET DOMAIN page : Downlink(rows, bad) /\ Count(bad # {})
      BY <1>7 DEF PageRows
  <2> HIDE DEF page
  <2>5. dead' \subseteq Node /\ overlaid' \subseteq Node /\ faults' \in Nat
      BY <2>3, <2>4 DEF Downlink, Count
  <2> QED BY <1>7, <2>5 DEF PageRows
<1>8. CASE FetchedRows
  <2>1. recon.rows \in Rows
      BY <1>8 DEF FetchedRows, IInv, Held, Types
  <2>2. DOMAIN recon.rows \subseteq Node
      BY <2>1, RowsAre
  <2>3. dead' \subseteq Node /\ overlaid' \subseteq Node
      BY <1>8, <2>2 DEF FetchedRows, Downlink
  <2> QED BY <1>8, <2>3 DEF FetchedRows, counters
<1>9. CASE ReconManifest \/ ReconPlan \/ ReconFetch \/ ReconEnds
    BY <1>9 DEF ReconManifest, ReconPlan, ReconFetch, ReconEnds, ReconOnly, downlinked, counters
<1>10. CASE ReconPosted
  <2>1. PICK refused : Count(refused # {}) /\ quiet' = (quiet /\ refused = {})
      BY <1>10 DEF ReconPosted
  <2>2. quiet' \in BOOLEAN
      BY <2>1, ZenonT(30)
  <2>3. faults' \in Nat
      BY <2>1 DEF Count
  <2> QED BY <1>10, <2>2, <2>3 DEF ReconPosted, downlinked
<1>11. CASE Crash
  <2>1. UNCHANGED <<dead, overlaid, applying>> /\ quiet' = FALSE /\ polling' = FALSE /\ current' = None
        /\ faults' = faults + 1
      BY <1>11 DEF Crash, downlinked
  <2>2. faults' \in Nat
      BY <2>1
  <2>3. applying' \in BOOLEAN /\ quiet' \in BOOLEAN /\ polling' \in BOOLEAN
      BY <2>1, Zenon
  <2>4. current' \in Client \cup {None} /\ dead' \subseteq Node /\ overlaid' \subseteq Node
      BY <2>1
  <2> QED BY <2>2, <2>3, <2>4
<1> QED BY <1>1, <1>2, <1>3, <1>4, <1>5, <1>6, <1>7, <1>8, <1>9, <1>10, <1>11 DEF Next

\* The invariant holds in every reachable state.
THEOREM Invariance == Spec => []IInv
<1>1. IInv /\ [Next]_vars => IInv'
    BY NextOK
<1> QED BY InitOK, <1>1, PTL DEF Spec

\* However edits interleave with the claim, the post and its failure, a row
\* that is newer here than on the server is marked, in the pump's hands, or
\* lost its mark in one of the known ways.
THEOREM NoEditForgotten == Spec => []UnsentIsMarked
<1>1. IInv => UnsentIsMarked
    BY DEF IInv, Marks
<1> QED BY Invariance, <1>1, PTL

\* No step undoes an edit of this device or a retirement, except by a later
\* edit or an archived copy of another.
THEOREM EditsSurviveCorrect == Spec => EditsSurvive
<1>1. IInv /\ [Next]_vars => Survives
    BY NextOK
<1>2. Survives => [Survives]_vars
    OBVIOUS
<1> QED BY Invariance, <1>1, PTL DEF Spec, EditsSurvive, Survives

\* The state is well formed in every reachable state.
THEOREM WellFormed == Spec => []TypeOK
<1>1. Init => Rest
  <2> SUFFICES ASSUME Init PROVE Rest
      OBVIOUS
  <2>1. /\ applying = FALSE /\ quiet = FALSE /\ polling = FALSE /\ faults = 0 /\ current = None
        /\ dead = {} /\ overlaid = {}
      BY DEF Init
  <2> QED BY <2>1 DEF Rest
<1>2. IInv /\ Rest /\ [Next]_vars => Rest'
    BY RestOK
<1>3. IInv /\ Rest => TypeOK
  <2> SUFFICES ASSUME IInv, Rest PROVE TypeOK
      OBVIOUS
  <2>1. ASSUME NEW c \in Client
        PROVE  /\ sync[c].pc \in {"idle", "uplink", "pull", "page", "version"}
               /\ sync[c].more \in BOOLEAN
               /\ \A n \in DOMAIN sync[c].page :
                    n \in Node /\ sync[c].page[n] \in [row : Row, ver : Nat]
    <3>1. sync[c] \in Syncs
        BY DEF IInv, Types
    <3>2. \A f \in Pages : \A n \in DOMAIN f : n \in Node /\ f[n] \in [row : Row, ver : Nat]
        BY DEF Pages
    <3> QED BY <3>1, <3>2 DEF Syncs
  <2>2. \A f \in Rows : RowsIn(f)
      BY RowsAre DEF RowsIn
  <2>3. /\ pump.pc \in {"idle", "claim", "post"} /\ pump.by \in Client \cup {None, "timer"}
        /\ RowsIn(pump.rows)
      BY <2>2 DEF IInv, Types, Pumps
  <2>4. /\ recon.pc \in {"idle", "manifest", "post", "download", "fetched", "done"}
        /\ recon.pc # "manifest" => RowsIn(recon.rows)
        /\ recon.down \subseteq Node
      BY <2>2 DEF IInv, Types, Recons
  <2>5. local \in [Node -> Row \cup {None}] /\ server \in [Node -> [row : Row \cup {None}, ver : Nat]]
        /\ dirty \subseteq Node /\ lost \subseteq Node /\ top \in Nat /\ now \in Nat
        /\ (main # None => main \in Jobs /\ (main.job # "fetched" => main.by \in Client))
      BY DEF IInv, Types, Copies
  <2> QED BY <2>1, <2>3, <2>4, <2>5 DEF TypeOK, Rest, Jobs
<1> QED BY Invariance, <1>1, <1>2, <1>3, PTL DEF Spec
=============================================================================
