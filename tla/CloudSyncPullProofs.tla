-------------------------- MODULE CloudSyncPullProofs --------------------------
(***************************************************************************)
(* More proofs about CloudSync: nothing is skipped behind the cursor, and  *)
(* a reconcile that nobody disturbs leaves the same version on both sides. *)
(*                                                                         *)
(* The first rests on the versions the server gives (a row that changes is *)
(* ahead of everything read so far: Onward) and on the writes being told   *)
(* apart by `updated` (WritesApart): only then is a copy the downlink puts *)
(* in place of a newer one noticed.  The second follows the stages of the  *)
(* reconcile (Converging).                                                 *)
(***************************************************************************)
EXTENDS CloudSyncProofs, WellFoundedInduction

\* What a manifest knows of a copy; retirement is merged, never judged
Key(x) == [seq |-> x.seq, arch |-> x.arch, upd |-> x.upd]

\* The copies of a node, wherever they are held, and what tells them apart
CopiesOf(n) ==
  {local[n], server[n].row}
  \cup {pump.rows[i] : i \in {n} \cap DOMAIN pump.rows}
  \cup {recon.rows[i] : i \in {n} \cap DOMAIN recon.rows}
  \cup {sync[c].page[n].row : c \in {d \in Client : n \in DOMAIN sync[d].page}}
Keys(n) == {Key(x) : x \in CopiesOf(n) \ {None}}

\* `updated` is the time of a write: two copies that have it in common are the
\* same write
WritesApart == \A n \in Node : \A k, l \in Keys(n) : k.upd <= now /\ (k.upd = l.upd => k = l)

\* A row is older here than on the server, and not for a reason that is known
Missing(n) == Beats(server[n].row, local[n]) /\ n \notin dead \cup overlaid

\* Versions are given in order, and read only after they were given
Numbered ==
  /\ cursor \in Nat /\ cursor <= top
  /\ \A n \in Node : server[n].ver <= top
  /\ \A c \in Client : \A n \in DOMAIN sync[c].page : sync[c].page[n].ver <= top

\* Behind the cursor nothing is missing, behind a page only its own rows, and
\* behind a page that was applied nothing either
Passed ==
  /\ \A n \in Node : server[n].ver \in 1 .. cursor => ~Missing(n)
  /\ \A c \in Client : \A i \in DOMAIN sync[c].page, n \in Node :
       server[n].ver \in 1 .. sync[c].page[i].ver /\ Missing(n)
         => n \in DOMAIN sync[c].page /\ server[n] = sync[c].page[n]
  /\ main # None /\ main.job = "page" /\ main.at # "rows" =>
       \A i \in DOMAIN sync[main.by].page, n \in Node :
         server[n].ver \in 1 .. sync[main.by].page[i].ver => ~Missing(n)

\* A page that is being applied has rows
Paged ==
  /\ \A c \in Client : sync[c].pc = "page" => DOMAIN sync[c].page # {}
  /\ main # None /\ main.at = "cursor" => main.job = "page"
  /\ main # None /\ main.job = "page" => DOMAIN sync[main.by].page # {}

PInv == WritesApart /\ Numbered /\ Passed /\ Paged

\* The nodes a manifest would move, and the stages of a reconcile nobody disturbs
Newer(side) == {n \in Node : Planned(local[n], server[n].row) = side}
Agreed == Newer("local") = {} /\ Newer("server") = {}
Converging ==
  quiet =>
    /\ recon.pc # "idle"
    /\ recon.pc = "manifest" => \A n \in Node : recon.rows[n] = server[n].row
    /\ recon.pc = "post" => /\ DOMAIN recon.rows = Newer("local") /\ recon.down = Newer("server")
                            /\ \A n \in DOMAIN recon.rows : recon.rows[n] = local[n]
    /\ recon.pc = "download" => Newer("local") = {} /\ recon.down = Newer("server")
    /\ recon.pc = "fetched" =>
         IF main # None /\ main.job = "fetched" /\ main.at # "rows" THEN Agreed
         ELSE /\ Newer("local") = {} /\ DOMAIN recon.rows = Newer("server")
              /\ \A n \in DOMAIN recon.rows : recon.rows[n] = server[n].row
    /\ recon.pc = "done" => Agreed

-----------------------------------------------------------------------------
(* The order of copies, once more.                                         *)

\* The side a manifest prefers is the copy that beats the other one.
LEMMA WinnerIs ==
  ASSUME NEW x \in Row \cup {None}, NEW y \in Row \cup {None}
  PROVE  /\ Winner(x, y) \in {"same", "local", "server"}
         /\ Winner(x, y) = "local" <=> Beats(x, y)
         /\ Winner(x, y) = "server" <=> Beats(y, x)
<1>1. CASE x = None \/ y = None
    BY <1>1 DEF Winner, Beats
<1>2. CASE x # None /\ y # None
  <2>1. x \in Row /\ y \in Row
      BY <1>2
  <2>2. x.seq \in Nat /\ y.seq \in Nat /\ x.upd \in Nat /\ y.upd \in Nat
        /\ x.arch \in BOOLEAN /\ y.arch \in BOOLEAN
      BY <2>1 DEF Row
  <2>3. Winner(x, y) = VersionWinner(x, y) /\ Winner(y, x) = VersionWinner(y, x)
      BY <1>2 DEF Winner
  <2> QED BY <2>2, <2>3 DEF VersionWinner, Beats
<1> QED BY <1>1, <1>2

\* Only the key is judged.
LEMMA BeatsKey ==
  ASSUME NEW x \in Row, NEW y \in Row, Key(x) = Key(y), NEW z \in Row \cup {None}
  PROVE  (Beats(x, z) <=> Beats(y, z)) /\ (Beats(z, x) <=> Beats(z, y))
<1>1. x.seq = y.seq /\ x.arch = y.arch /\ x.upd = y.upd
    BY DEF Key
<1>2. CASE z = None
    BY <1>2, BeatsNone
<1>3. CASE z # None
  <2>1. z \in Row
      BY <1>3
  <2> QED BY <1>1, <2>1, BeatsIs
<1> QED BY <1>2, <1>3

\* Two copies have the same key or one beats the other, and never both.
LEMMA BeatsTotal ==
  ASSUME NEW x \in Row, NEW y \in Row
  PROVE  /\ Beats(x, y) \/ Beats(y, x) \/ Key(x) = Key(y)
         /\ ~(Beats(x, y) /\ Beats(y, x))
<1>1. x.seq \in Nat /\ y.seq \in Nat /\ x.upd \in Nat /\ y.upd \in Nat
      /\ x.arch \in BOOLEAN /\ y.arch \in BOOLEAN
    BY DEF Row
<1> QED BY <1>1, BeatsIs DEF Key

\* What beats a copy beats any copy that does not beat it.
LEMMA BeatsOver ==
  ASSUME NEW x \in Row \cup {None}, NEW y \in Row \cup {None}, NEW z \in Row \cup {None},
         Beats(x, y), ~Beats(z, y)
  PROVE  Beats(x, z)
<1>1. x \in Row
    BY BeatsNone
<1>2. CASE z = None
    BY <1>1, <1>2, BeatsNone
<1>3. CASE z # None
  <2>1. y # None
      BY <1>3, BeatsNone
  <2>2. y \in Row /\ z \in Row
      BY <1>3, <2>1
  <2>3. x.seq \in Nat /\ y.seq \in Nat /\ z.seq \in Nat /\ x.upd \in Nat /\ y.upd \in Nat /\ z.upd \in Nat
        /\ x.arch \in BOOLEAN /\ y.arch \in BOOLEAN /\ z.arch \in BOOLEAN
      BY <1>1, <2>2 DEF Row
  <2> QED BY <1>1, <2>2, <2>3, BeatsIs
<1> QED BY <1>2, <1>3

\* The server keeps one of the two copies, and the better one.
LEMMA JudgedKeeps ==
  ASSUME NEW sent \in Row, NEW held \in Row \cup {None}
  PROVE  /\ Judged(sent, held) \in Row
         /\ \/ Key(Judged(sent, held)) = Key(sent)
            \/ held # None /\ Key(Judged(sent, held)) = Key(held)
         /\ Beats(sent, held) => Key(Judged(sent, held)) = Key(sent)
<1>1. CASE held = None
    BY <1>1 DEF Judged
<1>2. CASE held # None
  <2> DEFINE sup == sent.sup \/ held.sup
             kept == IF Beats(sent, held) THEN sent ELSE held
             j == [kept EXCEPT !.sup = sup]
  <2>1. held \in Row /\ sent # None
      BY <1>2, SyncAssumption
  <2>2. Judged(sent, held) = j
      BY <1>2, <2>1 DEF Judged, Beats, Winner
  <2>3. sup \in BOOLEAN
      BY <2>1, ZenonT(30) DEF Row
  <2>4. kept \in {sent, held} /\ kept \in Row /\ (Beats(sent, held) => kept = sent)
      BY <2>1
  <2>5. j \in Row /\ j.seq = kept.seq /\ j.arch = kept.arch /\ j.upd = kept.upd
    <3> HIDE DEF sup, kept
    <3> QED BY <2>3, <2>4 DEF Row
  <2>6. Key(j) = Key(kept)
      BY <2>5 DEF Key
  <2> HIDE DEF j, kept
  <2> QED BY <1>2, <2>2, <2>4, <2>5, <2>6
<1> QED BY <1>1, <1>2

\* The downlink keeps one of the two copies too, the server's if it is the
\* better one, and none the server's copy still beats.
LEMMA AppliedKeeps ==
  ASSUME NEW cloud \in Row, NEW mine \in Row \cup {None}
  PROVE  /\ Applied(cloud, mine) \in Row
         /\ \/ Key(Applied(cloud, mine)) = Key(cloud)
            \/ mine # None /\ Key(Applied(cloud, mine)) = Key(mine)
         /\ Beats(cloud, mine) => Key(Applied(cloud, mine)) = Key(cloud)
         /\ ~Beats(cloud, Applied(cloud, mine))
<1>1. CASE mine = None
    BY <1>1, BeatsNone DEF Applied
<1>2. CASE mine # None
  <2> DEFINE sup == cloud.sup \/ mine.sup
             takes == cloud.arch \/ ContentTakesCloud(cloud, mine)
             kept == IF takes THEN cloud ELSE mine
             a == [kept EXCEPT !.sup = sup]
  <2>1. mine \in Row
      BY <1>2
  <2>2. Applied(cloud, mine) = a
      BY <1>2 DEF Applied
  <2>3. sup \in BOOLEAN
      BY <2>1, ZenonT(30) DEF Row
  <2>4. kept \in Row
      BY <2>1
  <2>5. a \in Row /\ a.seq = kept.seq /\ a.arch = kept.arch /\ a.upd = kept.upd
    <3> HIDE DEF sup, kept
    <3> QED BY <2>3, <2>4 DEF Row
  <2>6. Key(a) = Key(kept)
      BY <2>5 DEF Key
  <2>7. /\ cloud.seq \in Nat /\ mine.seq \in Nat /\ cloud.upd \in Nat /\ mine.upd \in Nat
        /\ cloud.arch \in BOOLEAN /\ mine.arch \in BOOLEAN
      BY <2>1 DEF Row
  <2>8. Beats(cloud, mine) => takes
      BY <2>1, <2>7, BeatsIs DEF ContentTakesCloud
  <2>9. ~Beats(cloud, kept)
    <3>1. CASE takes
        BY <3>1, BeatsNone
    <3>2. CASE ~takes
        BY <3>2, <2>8
    <3> QED BY <3>1, <3>2
  <2>10. ~Beats(cloud, a)
    <3> HIDE DEF a, kept
    <3> QED BY <2>4, <2>5, <2>6, <2>9, BeatsKey
  <2>11. kept = cloud \/ kept = mine
      OBVIOUS
  <2>12. takes => kept = cloud
      OBVIOUS
  <2> HIDE DEF a, kept, takes
  <2> QED BY <1>2, <2>2, <2>5, <2>6, <2>8, <2>10, <2>11, <2>12
<1> QED BY <1>1, <1>2

\* A write is a new one, and no better copy than before is worse than it.
LEMMA VersionsKey ==
  ASSUME now \in Nat, NEW r \in Row \cup {None}, NEW v \in Versions(r)
  PROVE  /\ v \in Row /\ v.upd = now + 1
         /\ r # None => \/ v.seq > r.seq
                        \/ v.seq = r.seq /\ v.arch = r.arch
<1>0. v \in Row
    BY VersionsAre
<1>1. CASE r = None
    BY <1>0, <1>1 DEF Versions
<1>2. CASE r # None
  <2> DEFINE touched == [r EXCEPT !.upd = now + 1]
             edited == [touched EXCEPT !.seq = @ + 1]
             turned == [edited EXCEPT !.arch = ~@]
             retired == [edited EXCEPT !.sup = TRUE]
  <2>1. r \in Row /\ r.seq \in Nat
      BY <1>2 DEF Row
  <2>2. touched.upd = now + 1 /\ touched.seq = r.seq /\ touched.arch = r.arch
        /\ DOMAIN touched = {"seq", "upd", "arch", "sup"}
      BY <2>1 DEF Row
  <2>3. edited.upd = now + 1 /\ edited.seq = r.seq + 1 /\ DOMAIN edited = {"seq", "upd", "arch", "sup"}
    <3> HIDE DEF touched
    <3> QED BY <2>2
  <2>4. /\ turned.upd = now + 1 /\ turned.seq = r.seq + 1
        /\ retired.upd = now + 1 /\ retired.seq = r.seq + 1
    <3> HIDE DEF edited
    <3> QED BY <2>3
  <2>5. v \in {touched, edited, turned, retired}
    <3>1. Versions(r) = {touched, edited, turned} \cup (IF r.sup THEN {} ELSE {retired})
        BY <1>2 DEF Versions
    <3> HIDE DEF touched, edited, turned, retired
    <3> QED BY <3>1
  <2> HIDE DEF touched, edited, turned, retired
  <2> QED BY <1>0, <2>1, <2>2, <2>3, <2>4, <2>5
<1> QED BY <1>1, <1>2

\* What the two sides hold are copies or none.
LEMMA CopiesAre ==
  ASSUME Types, NEW n \in Node
  PROVE  local[n] \in Row \cup {None} /\ server[n].row \in Row \cup {None} /\ server[n].ver \in Nat
BY DEF Types, Copies

-----------------------------------------------------------------------------
(* Writes are told apart by `updated`.                                     *)

\* There is no copy, or its key is known or one of W
FromHere(n, x, W) == x # None => Key(x) \in Keys(n) \cup W

\* Every copy held somewhere has its key among the keys.
LEMMA KeysHere ==
  ASSUME NEW n \in Node, NEW W
  PROVE  /\ FromHere(n, local[n], W) /\ FromHere(n, server[n].row, W)
         /\ n \in DOMAIN pump.rows => FromHere(n, pump.rows[n], W)
         /\ n \in DOMAIN recon.rows => FromHere(n, recon.rows[n], W)
         /\ \A c \in Client : n \in DOMAIN sync[c].page => FromHere(n, sync[c].page[n].row, W)
<1>1. \A x \in CopiesOf(n) : FromHere(n, x, W)
    BY DEF FromHere, Keys
<1>2. {local[n], server[n].row} \subseteq CopiesOf(n)
    BY DEF CopiesOf
<1>3. n \in DOMAIN pump.rows => pump.rows[n] \in CopiesOf(n)
    BY DEF CopiesOf
<1>4. n \in DOMAIN recon.rows => recon.rows[n] \in CopiesOf(n)
    BY DEF CopiesOf
<1>5. \A c \in Client : n \in DOMAIN sync[c].page => sync[c].page[n].row \in CopiesOf(n)
    BY DEF CopiesOf
<1> QED BY <1>1, <1>2, <1>3, <1>4, <1>5

\* Keys are those of rows.
LEMMA KeysAre ==
  ASSUME Types, NEW n \in Node, NEW k \in Keys(n)
  PROVE  k.upd \in Nat
<1>1. PICK x \in CopiesOf(n) \ {None} : k = Key(x)
    BY DEF Keys
<1>2. \A c \in Client : \A i \in DOMAIN sync[c].page : sync[c].page[i].row \in Row
    BY RowsAre DEF Types, Syncs
<1>3. \A i \in DOMAIN pump.rows : pump.rows[i] \in Row
    BY RowsAre DEF Types, Pumps
<1>4. \A i \in {n} \cap DOMAIN recon.rows : recon.rows[i] \in Row \cup {None}
    BY RowsAre DEF Types, Recons
<1>5. x \in Row
    BY <1>1, <1>2, <1>3, <1>4, CopiesAre DEF CopiesOf
<1>6. x.upd \in Nat
    BY <1>5 DEF Row
<1> QED BY <1>1, <1>6 DEF Key

\* A step that copies what is there, or one write of its own, adds only that.
LEMMA KeysFrom ==
  ASSUME NEW n \in Node, NEW W,
         FromHere(n, local'[n], W), FromHere(n, server'[n].row, W),
         n \in DOMAIN pump'.rows => FromHere(n, pump'.rows[n], W),
         n \in DOMAIN recon'.rows => FromHere(n, recon'.rows[n], W),
         \A c \in Client : n \in DOMAIN sync'[c].page => FromHere(n, sync'[c].page[n].row, W)
  PROVE  Keys(n)' \subseteq Keys(n) \cup W
<1> SUFFICES ASSUME NEW x \in CopiesOf(n)', x # None
             PROVE  Key(x) \in Keys(n) \cup W
    BY DEF Keys, Key
<1>1. \/ x = local'[n] \/ x = server'[n].row
      \/ n \in DOMAIN pump'.rows /\ x = pump'.rows[n]
      \/ n \in DOMAIN recon'.rows /\ x = recon'.rows[n]
      \/ \E c \in Client : n \in DOMAIN sync'[c].page /\ x = sync'[c].page[n].row
    BY DEF CopiesOf
<1> QED BY <1>1 DEF FromHere

\* No new write.
LEMMA WritesStay ==
  ASSUME WritesApart, now' = now, \A n \in Node : Keys(n)' \subseteq Keys(n) \cup {}
  PROVE  WritesApart'
BY DEF WritesApart

\* One new write.
LEMMA WritesGrow ==
  ASSUME Types, WritesApart, now' = now + 1, NEW w, w.upd = now + 1,
         \A n \in Node : Keys(n)' \subseteq Keys(n) \cup {w}
  PROVE  WritesApart'
<1> SUFFICES ASSUME NEW n \in Node, NEW k \in Keys(n) \cup {w}, NEW l \in Keys(n) \cup {w}
             PROVE  k.upd <= now + 1 /\ (k.upd = l.upd => k = l)
    BY DEF WritesApart
<1>1. now \in Nat
    BY DEF Types
<1>2. \A j \in Keys(n) : j.upd \in Nat /\ j.upd <= now
    BY KeysAre DEF WritesApart
<1>3. CASE k \in Keys(n) /\ l \in Keys(n)
    BY <1>1, <1>2, <1>3 DEF WritesApart
<1>4. CASE k = w /\ l \in Keys(n)
    BY <1>1, <1>2, <1>4
<1>5. CASE k \in Keys(n) /\ l = w
    BY <1>1, <1>2, <1>5
<1>6. CASE k = w /\ l = w
    BY <1>1, <1>6
<1> QED BY <1>3, <1>4, <1>5, <1>6

\* The pump, the reconcile and the clients hold what they held, or nothing.
PumpSame == pump'.rows = pump.rows \/ DOMAIN pump'.rows = {}
ReconSame == recon'.rows = recon.rows \/ DOMAIN recon'.rows = {}
PagesSame == \A c \in Client : sync'[c].page = sync[c].page \/ DOMAIN sync'[c].page = {}

\* Then only the two tables can hold something new.
LEMMA KeysTables ==
  ASSUME PumpSame, ReconSame, PagesSame, NEW n \in Node, NEW W,
         FromHere(n, local'[n], W), FromHere(n, server'[n].row, W)
  PROVE  Keys(n)' \subseteq Keys(n) \cup W
<1>1. n \in DOMAIN pump'.rows => FromHere(n, pump'.rows[n], W)
    BY KeysHere DEF PumpSame
<1>2. n \in DOMAIN recon'.rows => FromHere(n, recon'.rows[n], W)
    BY KeysHere DEF ReconSame
<1>3. \A c \in Client : n \in DOMAIN sync'[c].page => FromHere(n, sync'[c].page[n].row, W)
    BY KeysHere DEF PagesSame
<1> QED BY <1>1, <1>2, <1>3, KeysFrom

-----------------------------------------------------------------------------
(* The server gives versions in order.                                     *)

\* What a store makes of the rows.
LEMMA StoreIs ==
  ASSUME Types, Numbered, NEW rows \in Rows, NEW refused, Store(rows, refused)
  PROVE  /\ top' \in Nat /\ top <= top'
         /\ \A n \in Node : \/ server'[n] = server[n]
                            \/ server'[n].ver \in Nat /\ server'[n].ver > top /\ server'[n].ver <= top'
         /\ \A n \in Node : n \notin DOMAIN rows \ refused => server'[n] = server[n]
         /\ \A n \in DOMAIN rows \ refused : server'[n].row = Judged(rows[n], server[n].row)
<1> DEFINE result(n) == Judged(rows[n], server[n].row)
           changed == {n \in DOMAIN rows \ refused : result(n) # server[n].row}
<1>1. PICK ver \in [changed -> top + 1 .. top'] :
        server' = [n \in Node |-> IF n \in changed THEN [row |-> result(n), ver |-> ver[n]]
                                  ELSE server[n]]
    BY DEF Store
<1>2. top' = top + Cardinality(changed)
    BY DEF Store
<1>3. DOMAIN rows \subseteq Node
    BY RowsAre
<1>4. top \in Nat /\ top' \in Nat /\ top <= top'
  <2>1. IsFiniteSet(changed)
      BY <1>3, SyncAssumption, FS_Subset
  <2>2. Cardinality(changed) \in Nat
      BY <2>1, FS_CardinalityType
  <2> HIDE DEF changed
  <2> QED BY <1>2, <2>2 DEF Types
<1>5. \A n \in changed : ver[n] \in top + 1 .. top'
  <2> HIDE DEF changed
  <2> QED BY <1>1
<1>6. \A n \in Node : n \notin changed => server'[n] = server[n]
    BY <1>1
<1>7. \A n \in changed : server'[n].ver = ver[n] /\ server'[n].row = result(n)
    BY <1>1, <1>3
<1>8. \A n \in DOMAIN rows \ refused : server'[n].row = result(n)
    BY <1>3, <1>6, <1>7
<1>9. \A n \in Node : n \notin DOMAIN rows \ refused => server'[n] = server[n]
    BY <1>6
<1> HIDE DEF changed, result
<1>10. \A n \in Node : \/ server'[n] = server[n]
                       \/ server'[n].ver \in Nat /\ server'[n].ver > top /\ server'[n].ver <= top'
    BY <1>4, <1>5, <1>6, <1>7
<1> QED BY <1>4, <1>8, <1>9, <1>10 DEF result

\* A store keeps the keys that are there or were sent.
LEMMA StoreKeys ==
  ASSUME Types, Numbered, NEW rows \in Rows, NEW refused, Store(rows, refused), NEW n \in Node, NEW W,
         n \in DOMAIN rows => FromHere(n, rows[n], W)
  PROVE  FromHere(n, server'[n].row, W)
<1>1. CASE n \notin DOMAIN rows \ refused
    BY <1>1, StoreIs, KeysHere
<1>2. CASE n \in DOMAIN rows \ refused
  <2>1. server'[n].row = Judged(rows[n], server[n].row)
      BY <1>2, StoreIs
  <2>2. rows[n] \in Row /\ rows[n] # None
      BY <1>2, RowsAre, SyncAssumption
  <2>3. \/ Key(server'[n].row) = Key(rows[n])
        \/ server[n].row # None /\ Key(server'[n].row) = Key(server[n].row)
      BY <2>1, <2>2, CopiesAre, JudgedKeeps
  <2>4. FromHere(n, rows[n], W) /\ FromHere(n, server[n].row, W)
      BY <1>2, KeysHere
  <2> QED BY <2>2, <2>3, <2>4 DEF FromHere
<1> QED BY <1>1, <1>2

-----------------------------------------------------------------------------
(* Nothing is skipped.                                                     *)

\* What changes on the server is ahead of all that was read; of what does not
\* change nothing goes missing here.
Onward ==
  /\ top' \in Nat /\ top <= top'
  /\ \A n \in Node : \/ server'[n] = server[n]
                     \/ server'[n].ver \in Nat /\ server'[n].ver > top /\ server'[n].ver <= top'
  /\ \A n \in Node : server'[n] = server[n] /\ Missing(n)' => Missing(n)

\* A page whose rows are in is still the same page
PageStays ==
  main' # None /\ main'.job = "page" /\ main'.at # "rows" =>
    /\ main # None /\ main.job = "page" /\ main.at # "rows"
    /\ sync'[main'.by].page = sync[main.by].page

\* A step that leaves the cursor, and does not end the rows of a page, passes
\* nothing.
LEMMA PassedKept ==
  ASSUME Types, Types', Numbered, Passed, Onward, PagesSame, PageStays, UNCHANGED cursor
  PROVE  Numbered' /\ Passed'
<1>1. top \in Nat /\ top' \in Nat /\ top <= top' /\ cursor \in Nat /\ cursor <= top
    BY DEF Onward, Numbered, Types
<1>2. \A n \in Node : server[n].ver \in Nat /\ server'[n].ver \in Nat
    BY DEF Types, Copies
<1>3. ASSUME NEW c \in Client, NEW i \in DOMAIN sync'[c].page
      PROVE  /\ i \in DOMAIN sync[c].page /\ sync'[c].page = sync[c].page
             /\ sync[c].page[i].ver \in Nat /\ sync[c].page[i].ver <= top
  <2>1. sync'[c].page = sync[c].page
      BY <1>3 DEF PagesSame
  <2>2. i \in DOMAIN sync[c].page
      BY <2>1, <1>3
  <2>3. sync[c].page \in Pages
      BY DEF Types, Syncs
  <2>4. sync[c].page[i].ver \in Nat
      BY <2>2, <2>3 DEF Pages
  <2> QED BY <2>1, <2>2, <2>4 DEF Numbered
<1>4. \A n \in Node : server'[n].ver <= top' /\ (server'[n].ver <= top => server'[n] = server[n])
    BY <1>1, <1>2 DEF Onward, Numbered
<1>5. Numbered'
  <2>1. \A c \in Client : \A i \in DOMAIN sync'[c].page : sync'[c].page[i].ver <= top'
      BY <1>1, <1>3
  <2> QED BY <1>1, <1>4, <2>1 DEF Numbered
<1>6. \A n \in Node : server'[n] = server[n] /\ Missing(n)' => Missing(n)
    BY DEF Onward
<1>7. \A n \in Node : server'[n].ver \in 1 .. cursor' => ~Missing(n)'
  <2> SUFFICES ASSUME NEW n \in Node, server'[n].ver \in 1 .. cursor, Missing(n)' PROVE FALSE
      OBVIOUS
  <2>1. server'[n] = server[n]
      BY <1>1, <1>2, <1>4
  <2> QED BY <2>1, <1>6 DEF Passed
<1>8. ASSUME NEW c \in Client, NEW i \in DOMAIN sync'[c].page, NEW n \in Node,
             server'[n].ver \in 1 .. sync'[c].page[i].ver, Missing(n)'
      PROVE  n \in DOMAIN sync'[c].page /\ server'[n] = sync'[c].page[n]
  <2>1. server'[n] = server[n] /\ Missing(n)
      BY <1>1, <1>2, <1>3, <1>4, <1>6, <1>8
  <2> QED BY <1>3, <1>8, <2>1 DEF Passed
<1>9. ASSUME main' # None, main'.job = "page", main'.at # "rows",
             NEW i \in DOMAIN sync'[main'.by].page, NEW n \in Node,
             server'[n].ver \in 1 .. sync'[main'.by].page[i].ver
      PROVE  ~Missing(n)'
  <2>1. main'.by \in Client
      BY <1>9 DEF Types
  <2>2. /\ main # None /\ main.job = "page" /\ main.at # "rows"
        /\ sync'[main'.by].page = sync[main.by].page
      BY <1>9 DEF PageStays
  <2>3. server'[n] = server[n]
      BY <1>1, <1>2, <1>3, <1>4, <1>9, <2>1
  <2>4. ~Missing(n)
      BY <1>9, <2>2, <2>3 DEF Passed
  <2> QED BY <1>6, <2>3, <2>4
<1> QED BY <1>5, <1>7, <1>8, <1>9 DEF Passed

\* The server and the rows here do not move.
LEMMA OnwardIdle ==
  ASSUME Types, Numbered, UNCHANGED <<local, server, top, dead, overlaid>>
  PROVE  Onward
BY DEF Onward, Types, Missing

\* Only the server moves.
LEMMA OnwardStore ==
  ASSUME Types, Numbered, NEW rows \in Rows, NEW refused, Store(rows, refused),
         UNCHANGED <<local, dead, overlaid>>
  PROVE  Onward
<1>1. \A n \in Node : server'[n] = server[n] /\ Missing(n)' => Missing(n)
    BY DEF Missing
<1> QED BY <1>1, StoreIs DEF Onward

\* A write leaves no row older than it was.
LEMMA OnwardWrite ==
  ASSUME Types, Numbered, WritesApart, NEW n \in Node, NEW by, Write(by, n)
  PROVE  Onward
<1>1. now \in Nat /\ UNCHANGED <<server, top, dead, overlaid>>
    BY DEF Write, serverVars, downlinked, Types
<1>2. PICK r \in Versions(local[n]) : local' = [local EXCEPT ![n] = r]
    BY DEF Write
<1>3. ASSUME NEW o \in Node, Missing(o)'
      PROVE  Missing(o)
  <2>1. CASE o # n
    <3>1. local'[o] = local[o]
        BY <1>2, <2>1
    <3> QED BY <1>1, <1>3, <3>1 DEF Missing
  <2>2. CASE o = n
    <3> DEFINE x == local[n]
               y == server[n].row
    <3>1. x \in Row \cup {None} /\ y \in Row \cup {None}
        BY CopiesAre
    <3>2. r \in Row /\ r.upd = now + 1 /\ (x # None => r.seq > x.seq \/ (r.seq = x.seq /\ r.arch = x.arch))
        BY <1>1, <3>1, VersionsKey
    <3>3. Beats(y, r) /\ n \notin dead \cup overlaid
        BY <1>1, <1>2, <1>3, <2>2 DEF Missing, Types
    <3>4. y \in Row
        BY <3>1, <3>3, BeatsNone
    <3>5. y.upd \in Nat /\ y.upd <= now
      <4>1. Key(y) \in Keys(n)
          BY <3>4, SyncAssumption, KeysHere DEF FromHere
      <4>2. Key(y).upd <= now
          BY <4>1 DEF WritesApart
      <4> QED BY <3>4, <4>2 DEF Key, Row
    <3> HIDE DEF x, y
    <3>6. CASE x = None
        BY <3>3, <3>4, <3>6, <2>2, BeatsNone DEF Missing, x, y
    <3>7. CASE x # None
      <4>1. x \in Row
          BY <3>1, <3>7
      <4>2. /\ x.seq \in Nat /\ r.seq \in Nat /\ y.seq \in Nat /\ x.upd \in Nat
            /\ x.arch \in BOOLEAN /\ r.arch \in BOOLEAN /\ y.arch \in BOOLEAN
          BY <3>2, <3>4, <4>1 DEF Row
      <4>3. Beats(y, x)
          BY <1>1, <3>2, <3>3, <3>4, <3>5, <3>7, <4>1, <4>2, BeatsIs
      <4> QED BY <3>3, <4>3, <2>2 DEF Missing, x, y
    <3> QED BY <3>6, <3>7
  <2> QED BY <2>1, <2>2
<1> QED BY <1>1, <1>3 DEF Onward, Types

\* The downlink leaves no row older than it was, or says so.
LEMMA OnwardDownlink ==
  ASSUME Types, Numbered, WritesApart, NEW rows \in Rows, NEW bad, Downlink(rows, bad),
         \A n \in DOMAIN rows : FromHere(n, rows[n], {}),
         UNCHANGED <<server, top>>
  PROVE  /\ Onward
         /\ \A n \in DOMAIN rows \ bad : local'[n] = Applied(rows[n], local[n])
         /\ bad \subseteq dead'
<1>1. DOMAIN rows \subseteq Node /\ \A n \in DOMAIN rows : rows[n] \in Row
    BY RowsAre
<1>2. /\ \A n \in DOMAIN rows \ bad : local'[n] = Applied(rows[n], local[n])
      /\ \A n \in Node : n \notin DOMAIN rows \ bad => local'[n] = local[n]
      /\ dead \subseteq dead' /\ overlaid \subseteq overlaid' /\ bad \subseteq dead'
      /\ \A n \in DOMAIN rows \ bad :
           Beats(local[n], rows[n]) /\ local'[n].upd # local[n].upd => n \in overlaid'
    BY <1>1 DEF Downlink, Beats
<1>3. ASSUME NEW n \in Node, Missing(n)'
      PROVE  Missing(n)
  <2>1. n \notin dead \cup overlaid \cup overlaid' /\ Beats(server[n].row, local'[n])
      BY <1>2, <1>3 DEF Missing
  <2>2. CASE n \notin DOMAIN rows \ bad
      BY <1>2, <2>1, <2>2 DEF Missing
  <2>3. CASE n \in DOMAIN rows \ bad
    <3> DEFINE x == local[n]
               y == server[n].row
               z == rows[n]
               a == Applied(z, x)
    <3> SUFFICES ASSUME ~Beats(y, x) PROVE FALSE
        BY <2>1 DEF Missing
    <3>1. x \in Row \cup {None} /\ y \in Row \cup {None} /\ z \in Row
        BY <1>1, <2>3, CopiesAre
    <3>2. Beats(y, a) /\ local'[n] = a
        BY <1>2, <2>1, <2>3
    <3>3. a \in Row /\ (Key(a) = Key(z) \/ (x # None /\ Key(a) = Key(x)))
        BY <3>1, AppliedKeeps
    <3> HIDE DEF x, y, z, a
    <3>4. x \in Row
        BY <3>1, <3>2, BeatsNone
    <3>5. Key(a) = Key(z)
        BY <3>1, <3>2, <3>3, <3>4, BeatsKey
    <3>6. Beats(y, z)
        BY <3>1, <3>2, <3>3, <3>5, BeatsKey
    <3>7. Beats(x, z)
        BY <3>1, <3>6, BeatsOver
    <3>8. a.upd = x.upd
        BY <1>2, <2>1, <2>3, <3>2, <3>7 DEF x, z
    <3>9. Key(x) \in Keys(n) /\ Key(z) \in Keys(n)
        BY <2>3, <3>1, <3>4, SyncAssumption, KeysHere DEF FromHere, x, z
    <3>10. Key(x) = Key(z)
      <4>1. Key(x).upd = Key(z).upd
          BY <3>5, <3>8 DEF Key
      <4> QED BY <3>9, <4>1 DEF WritesApart
    <3>11. Beats(z, z)
        BY <3>1, <3>4, <3>7, <3>10, BeatsKey
    <3> QED BY <3>1, <3>11, BeatsNone
  <2> QED BY <2>2, <2>3
<1> QED BY <1>2, <1>3 DEF Onward, Types

\* Nothing new is held anywhere but in the tables, and nothing there either.
LEMMA CopiesOnly ==
  ASSUME WritesApart, now' = now, PumpSame, ReconSame, PagesSame,
         \A n \in Node : FromHere(n, local'[n], {}) /\ FromHere(n, server'[n].row, {})
  PROVE  WritesApart'
<1>1. \A n \in Node : Keys(n)' \subseteq Keys(n) \cup {}
    BY KeysTables
<1> QED BY <1>1, WritesStay

\* The invariant of such a step.
LEMMA SettledStep ==
  ASSUME IInv, IInv', PInv, PumpSame, ReconSame, PagesSame, PageStays, Onward, Paged',
         UNCHANGED <<cursor, now>>,
         \A n \in Node : FromHere(n, local'[n], {}) /\ FromHere(n, server'[n].row, {})
  PROVE  PInv'
BY CopiesOnly, PassedKept DEF PInv, IInv

\* A local write.
LEMMA WriteP ==
  ASSUME IInv, IInv', PInv, NEW n \in Node, NEW by, Write(by, n)
  PROVE  PInv'
<1>1. UNCHANGED <<cursor, server, sync, pump, recon, main>> /\ now' = now + 1
    BY DEF Write, serverVars
<1>2. PICK r \in Versions(local[n]) : local' = [local EXCEPT ![n] = r]
    BY DEF Write
<1>3. r.upd = now + 1
    BY <1>2, CopiesAre, VersionsKey DEF IInv, Types
<1>4. ASSUME NEW o \in Node
      PROVE  Keys(o)' \subseteq Keys(o) \cup {Key(r)}
  <2>1. FromHere(o, local'[o], {Key(r)})
    <3>1. local'[o] = local[o] \/ local'[o] = r
        BY <1>2 DEF IInv, Types
    <3> QED BY <3>1, KeysHere DEF FromHere
  <2>2. FromHere(o, server'[o].row, {Key(r)})
      BY <1>1, KeysHere
  <2> QED BY <1>1, <2>1, <2>2, KeysTables DEF PumpSame, ReconSame, PagesSame
<1>5. Key(r).upd = now + 1
    BY <1>3 DEF Key
<1>6. WritesApart'
    BY <1>1, <1>4, <1>5, WritesGrow DEF PInv, IInv
<1>7. Onward
    BY OnwardWrite DEF IInv, PInv
<1>8. Numbered' /\ Passed'
    BY <1>1, <1>7, PassedKept DEF IInv, PInv, PagesSame, PageStays
<1>9. Paged'
    BY <1>1 DEF PInv, Paged
<1> QED BY <1>6, <1>8, <1>9 DEF PInv

\* Another device's write.
LEMMA OtherDeviceP ==
  ASSUME IInv, IInv', PInv, NEW n \in Node, OtherDevice(n)
  PROVE  PInv'
<1>1. UNCHANGED <<cursor, local, sync, pump, recon, main, dead, overlaid>> /\ now' = now + 1
    BY DEF OtherDevice, tables, downlinked
<1>2. PICK copy, r : /\ copy \in Row \cup {None} /\ r \in Versions(copy)
                     /\ Store([m \in {n} |-> r], {})
  <2> DEFINE held == server[n].row
             copies == IF held = None THEN {None}
                       ELSE {[held EXCEPT !.seq = k] : k \in 1 .. held.seq}
  <2>1. PICK copy \in copies : \E r \in Versions(copy) : Store([m \in {n} |-> r], {})
      BY DEF OtherDevice
  <2>2. copy \in Row \cup {None}
    <3>1. held \in Row \cup {None}
        BY CopiesAre DEF IInv
    <3> HIDE DEF held
    <3> QED BY <2>1, <3>1 DEF Row
  <2> QED BY <2>1, <2>2
<1>3. r \in Row /\ r.upd = now + 1
    BY <1>2, VersionsKey DEF IInv, Types
<1>4. [m \in {n} |-> r] \in Rows
    BY <1>3, RowsAre
<1>5. ASSUME NEW o \in Node
      PROVE  Keys(o)' \subseteq Keys(o) \cup {Key(r)}
  <2>1. FromHere(o, local'[o], {Key(r)})
      BY <1>1, KeysHere
  <2>2. o \in DOMAIN [m \in {n} |-> r] => FromHere(o, [m \in {n} |-> r][o], {Key(r)})
      BY DEF FromHere
  <2>3. FromHere(o, server'[o].row, {Key(r)})
      BY <1>2, <1>4, <2>2, StoreKeys DEF IInv, PInv
  <2> QED BY <1>1, <2>1, <2>3, KeysTables DEF PumpSame, ReconSame, PagesSame
<1>6. Key(r).upd = now + 1
    BY <1>3 DEF Key
<1>7. WritesApart'
    BY <1>1, <1>5, <1>6, WritesGrow DEF PInv, IInv
<1>8. Onward
    BY <1>1, <1>2, <1>4, OnwardStore DEF IInv, PInv
<1>9. Numbered' /\ Passed'
    BY <1>1, <1>8, PassedKept DEF IInv, PInv, PagesSame, PageStays
<1>10. Paged'
    BY <1>1 DEF PInv, Paged
<1> QED BY <1>7, <1>9, <1>10 DEF PInv

\* What the steps of the pump's claim, the clients and the reconcile's plan
\* leave alone.
Still == UNCHANGED <<local, server, top, now, cursor, dead, overlaid>>

\* The server gets rows that are held here.
LEMMA PostP ==
  ASSUME IInv, IInv', PInv, NEW rows \in Rows, NEW refused, Store(rows, refused),
         \A n \in DOMAIN rows : FromHere(n, rows[n], {}),
         PumpSame, ReconSame, PagesSame, Paged', PageStays,
         UNCHANGED <<local, now, cursor, dead, overlaid>>
  PROVE  PInv'
<1>1. \A n \in Node : FromHere(n, local'[n], {}) /\ FromHere(n, server'[n].row, {})
    BY KeysHere, StoreKeys DEF IInv, PInv
<1>2. Onward
    BY OnwardStore DEF IInv, PInv
<1> QED BY <1>1, <1>2, SettledStep

\* A step that moves no table, cursor or counter, and takes up no rows.
LEMMA StillP ==
  ASSUME IInv, IInv', PInv, Still, PumpSame, ReconSame, PagesSame, Paged', PageStays
  PROVE  PInv'
<1>1. \A n \in Node : FromHere(n, local'[n], {}) /\ FromHere(n, server'[n].row, {})
    BY KeysHere DEF Still
<1>2. Onward
    BY OnwardIdle DEF IInv, PInv, Still
<1> QED BY <1>1, <1>2, SettledStep DEF Still

\* A claim takes up the rows here.
LEMMA ClaimP ==
  ASSUME IInv, IInv', PInv, Still, NEW by, Claim(by), ReconSame, PagesSame, Paged', PageStays
  PROVE  PInv'
<1>1. \A n \in Node : FromHere(n, local'[n], {}) /\ FromHere(n, server'[n].row, {})
    BY KeysHere DEF Still
<1>2. Onward
    BY OnwardIdle DEF IInv, PInv, Still
<1>3. pump'.rows = [n \in dirty |-> local[n]]
    BY DEF Claim
<1>4. ASSUME NEW n \in Node
      PROVE  Keys(n)' \subseteq Keys(n) \cup {}
  <2>1. n \in DOMAIN pump'.rows => FromHere(n, pump'.rows[n], {})
      BY <1>3, KeysHere
  <2>2. n \in DOMAIN recon'.rows => FromHere(n, recon'.rows[n], {})
      BY KeysHere DEF ReconSame
  <2>3. \A c \in Client : n \in DOMAIN sync'[c].page => FromHere(n, sync'[c].page[n].row, {})
      BY KeysHere DEF PagesSame
  <2> QED BY <1>1, <2>1, <2>2, <2>3, KeysFrom
<1>5. WritesApart'
    BY <1>4, WritesStay DEF PInv, Still
<1>6. Numbered' /\ Passed'
    BY <1>2, PassedKept DEF IInv, PInv, Still
<1> QED BY <1>5, <1>6 DEF PInv

\* A client that moves on has no page; the others keep theirs.
LEMMA SyncMovesP ==
  ASSUME IInv, PInv, NEW c \in Client, NEW pc \in {"idle", "uplink", "pull", "version"},
         SyncMoves(c, pc), main' = None
  PROVE  PagesSame /\ Paged'
<1>1. /\ sync' = [sync EXCEPT ![c] = [NoSync EXCEPT !.pc = pc]]
      /\ [NoSync EXCEPT !.pc = pc].pc = pc /\ DOMAIN [NoSync EXCEPT !.pc = pc].page = {}
    BY RowsAre DEF SyncMoves, NoSync
<1>2. \A d \in Client : \/ sync'[d] = sync[d]
                        \/ sync'[d].pc # "page" /\ DOMAIN sync'[d].page = {}
  <2> DEFINE moved == [NoSync EXCEPT !.pc = pc]
  <2> HIDE DEF moved
  <2>1. sync' = [sync EXCEPT ![c] = moved] /\ moved.pc = pc /\ DOMAIN moved.page = {}
      BY <1>1 DEF moved
  <2>2. sync \in [Client -> Syncs]
      BY DEF IInv, Types
  <2> QED BY <2>1, <2>2
<1> QED BY <1>2 DEF PagesSame, PInv, Paged

\* The end of a pump moves a client without a page.
LEMMA PumpEndsP ==
  ASSUME IInv, PInv, PumpEnds(pump.by), main' = None
  PROVE  PumpSame /\ PagesSame /\ Paged'
<1>1. DOMAIN pump'.rows = {}
    BY PumpEndsOK
<1>2. PagesSame
    BY PumpEndsOK DEF PagesKept, PagesSame
<1>3. \A d \in Client : sync'[d] = sync[d] \/ sync'[d].pc = "pull"
  <2> DEFINE c == pump.by
             moved == [sync[c] EXCEPT !.pc = "pull"]
  <2>1. sync \in [Client -> Syncs]
      BY DEF IInv, Types
  <2>2. CASE c \in Client
    <3>1. moved.pc = "pull"
        BY <2>1, <2>2 DEF Syncs
    <3>2. sync' = [sync EXCEPT ![c] = moved]
        BY <2>2 DEF PumpEnds
    <3> HIDE DEF moved
    <3> QED BY <2>1, <3>1, <3>2
  <2>3. CASE c \notin Client
      BY <2>3 DEF PumpEnds
  <2> QED BY <2>2, <2>3
<1>4. Paged'
    BY <1>2, <1>3 DEF PInv, Paged, PagesSame
<1> QED BY <1>1, <1>2, <1>4 DEF PumpSame

\* What the pump and the reconcile hold is of here.
LEMMA HeldHere ==
  ASSUME IInv
  PROVE  /\ \A n \in DOMAIN pump.rows : FromHere(n, pump.rows[n], {})
         /\ recon.pc # "manifest" => \A n \in DOMAIN recon.rows : FromHere(n, recon.rows[n], {})
         /\ \A c \in Client : \A n \in DOMAIN sync[c].page : FromHere(n, sync[c].page[n].row, {})
<1>1. DOMAIN pump.rows \subseteq Node /\ (recon.pc # "manifest" => DOMAIN recon.rows \subseteq Node)
    BY RowsAre DEF IInv, Types, Pumps
<1>2. \A c \in Client : DOMAIN sync[c].page \subseteq Node
    BY RowsAre DEF IInv, Types, Syncs
<1> QED BY <1>1, <1>2, KeysHere

\* The pump.
LEMMA PumpP ==
  ASSUME IInv, IInv', PInv, PumpTick \/ PumpClaim \/ PumpPosted \/ PumpFails
  PROVE  PInv'
<1>1. UNCHANGED <<local, now, cursor, dead, overlaid, recon, main>> /\ main = None
    BY DEF PumpTick, PumpClaim, PumpPosted, PumpFails, PumpOnly, downlinked, counters
<1>2. ReconSame /\ PageStays
    BY <1>1 DEF ReconSame, PageStays
<1>3. UNCHANGED sync => PagesSame /\ Paged'
    BY <1>1 DEF PagesSame, PInv, Paged
<1>4. pump.rows \in Rows
    BY DEF IInv, Types, Pumps
<1>5. CASE PumpTick
    BY <1>1, <1>2, <1>3, <1>5, ClaimP DEF PumpTick, PumpOnly, serverVars, Still
<1>6. CASE PumpClaim
  <2>1. Still
      BY <1>1, <1>6 DEF PumpClaim, PumpOnly, serverVars, Still
  <2>2. CASE dirty = {}
    <3>1. PumpSame /\ PagesSame /\ Paged'
        BY <1>1, <1>6, <2>2, PumpEndsP DEF PumpClaim
    <3> QED BY <1>2, <2>1, <3>1, StillP
  <2>3. CASE dirty # {}
      BY <1>2, <1>3, <1>6, <2>1, <2>3, ClaimP DEF PumpClaim
  <2> QED BY <2>2, <2>3
<1>7. CASE PumpPosted
  <2>1. PICK refused : Store(pump.rows, refused)
      BY <1>7 DEF PumpPosted
  <2>2. DOMAIN pump'.rows = {}
    <3>1. pump' = [pump EXCEPT !.pc = "claim", !.rows = NoRows]
        BY <1>7 DEF PumpPosted
    <3> QED BY <3>1, RowsAre DEF IInv, Types, Pumps
  <2>3. UNCHANGED sync
      BY <1>7 DEF PumpPosted
  <2> QED BY <1>1, <1>2, <1>3, <1>4, <2>1, <2>2, <2>3, HeldHere, PostP DEF PumpSame
<1>8. CASE PumpFails
  <2>1. PumpSame /\ PagesSame /\ Paged'
      BY <1>1, <1>8, PumpEndsP DEF PumpFails
  <2>2. CASE Store(pump.rows, {})
      BY <1>1, <1>2, <1>4, <2>1, <2>2, HeldHere, PostP
  <2>3. CASE UNCHANGED serverVars
      BY <1>1, <1>2, <2>1, <2>3, StillP DEF Still, serverVars
  <2> QED BY <1>8, <2>2, <2>3 DEF PumpFails
<1> QED BY <1>5, <1>6, <1>7, <1>8

\* The clients.
LEMMA ClientP ==
  ASSUME IInv, IInv', PInv, NEW c \in Client,
         StartClient(c) \/ StopClient \/ PollingStarts \/ PollingStops \/ SyncStart(c) \/ SyncGivesUp(c)
  PROVE  PInv'
<1>1. Still /\ main = None /\ UNCHANGED <<recon, main>>
    BY DEF StartClient, StopClient, PollingStarts, PollingStops, SyncStart, SyncGivesUp, PumpOnly,
           SyncOnly, tables, serverVars,
           downlinked, counters, Still
<1>2. ReconSame /\ PageStays
    BY <1>1 DEF ReconSame, PageStays
<1>3. CASE StartClient(c) \/ StopClient \/ PollingStarts \/ PollingStops
  <2>1. UNCHANGED <<sync, pump>>
      BY <1>3 DEF StartClient, StopClient, PollingStarts, PollingStops
  <2> QED BY <1>1, <1>2, <2>1, StillP DEF PumpSame, PagesSame, PInv, Paged
<1>4. CASE SyncStart(c)
  <2>1. CASE Claim(c) /\ SyncMoves(c, "uplink")
      BY <1>1, <1>2, <2>1, SyncMovesP, ClaimP
  <2>2. CASE SyncMoves(c, "pull") /\ UNCHANGED <<pump, dirty>>
      BY <1>1, <1>2, <2>2, SyncMovesP, StillP DEF PumpSame
  <2> QED BY <1>4, <2>1, <2>2 DEF SyncStart
<1>5. CASE SyncGivesUp(c)
  <2>1. SyncMoves(c, "idle") /\ UNCHANGED pump
      BY <1>5 DEF SyncGivesUp, SyncOnly
  <2> QED BY <1>1, <1>2, <2>1, SyncMovesP, StillP DEF PumpSame
<1> QED BY <1>3, <1>4, <1>5

\* The guard goes up, and down again.
LEMMA GuardP ==
  ASSUME IInv, IInv', PInv,
         FetchedBegins \/ GuardDown \/ \E c \in Client : DecayBegins(c) \/ PageBegins(c)
  PROVE  PInv'
<1>1. Still /\ UNCHANGED pump
    BY DEF FetchedBegins, GuardDown, DecayBegins, PageBegins, tables, serverVars, downlinked,
           counters, Still
<1>2. PumpSame
    BY <1>1 DEF PumpSame
<1>3. CASE FetchedBegins \/ \E c \in Client : DecayBegins(c) \/ PageBegins(c)
  <2>1. UNCHANGED <<sync, recon>>
        /\ \/ main'.job # "page" /\ main'.at # "cursor"
           \/ main'.at = "rows" /\ \E c \in Client : main'.by = c /\ sync[c].pc = "page"
    BY <1>3 DEF FetchedBegins, DecayBegins, PageBegins
  <2>2. Paged'
      BY <2>1 DEF PInv, Paged
  <2>3. PageStays
      BY <2>1 DEF PageStays
  <2> QED BY <1>1, <1>2, <2>1, <2>2, <2>3, StillP DEF ReconSame, PagesSame
<1>4. CASE GuardDown
  <2>1. main # None /\ main.at = "down" /\ main \in Jobs
      BY <1>4 DEF GuardDown, IInv, Types
  <2>2. CASE main.job = "page"
    <3>1. main' = [main EXCEPT !.at = "cursor"] /\ UNCHANGED <<sync, recon>>
        BY <1>4, <2>2 DEF GuardDown
    <3>2. main'.job = "page" /\ main'.at = "cursor" /\ main'.by = main.by
        BY <2>1, <2>2, <3>1 DEF Jobs
    <3>3. Paged'
        BY <2>1, <2>2, <3>1, <3>2 DEF PInv, Paged
    <3>4. PageStays
        BY <2>1, <2>2, <3>1, <3>2 DEF PageStays
    <3> QED BY <1>1, <1>2, <3>1, <3>3, <3>4, StillP DEF ReconSame, PagesSame
  <2>3. CASE main.job = "decay"
    <3>1. sync' = [sync EXCEPT ![main.by] = NoSync] /\ main.by \in Client /\ main' = None
          /\ UNCHANGED recon
        BY <1>4, <2>1, <2>3 DEF GuardDown, IInv, Types
    <3>2. NoSync = [NoSync EXCEPT !.pc = "idle"]
      <4>1. NoSync \in Syncs /\ NoSync.pc = "idle"
          BY RowsAre DEF NoSync, Syncs
      <4>2. \A s \in Syncs : s.pc = "idle" => s = [s EXCEPT !.pc = "idle"]
          BY DEF Syncs
      <4> QED BY <4>1, <4>2
    <3>3. SyncMoves(main.by, "idle")
        BY <3>1, <3>2 DEF SyncMoves
    <3>4. PagesSame /\ Paged'
        BY <3>1, <3>3, SyncMovesP
    <3> QED BY <1>1, <1>2, <3>1, <3>4, StillP DEF ReconSame, PageStays
  <2>4. CASE main.job = "fetched"
    <3>1. main' = None /\ UNCHANGED sync /\ recon' = [NoRecon EXCEPT !.pc = "done"]
        BY <1>4, <2>4 DEF GuardDown
    <3>2. DOMAIN recon'.rows = {}
        BY <3>1, RowsAre DEF NoRecon
    <3>3. Paged'
        BY <3>1 DEF PInv, Paged
    <3> QED BY <1>1, <1>2, <3>1, <3>2, <3>3, StillP DEF ReconSame, PagesSame, PageStays
  <2> QED BY <2>1, <2>2, <2>3, <2>4 DEF Jobs
<1> QED BY <1>3, <1>4

\* A set of naturals with a bound has a largest element.
LEMMA MaxIs ==
  ASSUME NEW S, S # {}, S \subseteq Nat, NEW b \in Nat, \A x \in S : x <= b
  PROVE  Max(S) \in S /\ \A x \in S : x <= Max(S)
<1> DEFINE R == OpToRel(<, Nat)
           T == {b - x : x \in S}
<1>1. \A x, y \in Nat : <<x, y>> \in R <=> x < y
    BY DEF OpToRel
<1>2. T \subseteq Nat /\ T # {}
  <2>1. \A x \in S : x \in Nat /\ x <= b
      OBVIOUS
  <2>2. \A x \in S : b - x \in Nat
      BY <2>1
  <2>3. T \subseteq Nat
      BY <2>2
  <2>4. T # {}
      OBVIOUS
  <2> QED BY <2>3, <2>4
<1>3. IsWellFoundedOn(R, Nat)
    BY NatLessThanWellFounded
<1> HIDE DEF R, T
<1>4. PICK z \in T : \A y \in T : ~(<<y, z>> \in R)
    BY <1>2, <1>3, WFMin, Zenon
<1>5. PICK m \in S : z = b - m
    BY <1>4 DEF T
<1>6. ASSUME NEW x \in S
      PROVE  x <= m
  <2>1. b - x \in T
      BY DEF T
  <2>2. ~(b - x < z) /\ b - x \in Nat /\ z \in Nat
      BY <1>1, <1>2, <1>4, <2>1
  <2> QED BY <1>5, <2>2
<1>7. \A x \in S : m >= x
    BY <1>6
<1>8. \A y \in S : Max(S) >= y
    BY <1>7 DEF Max
<1>9. Max(S) \in S
    BY <1>7 DEF Max
<1> QED BY <1>8, <1>9
\* The downlink leaves keys that are there or were sent.
LEMMA DownlinkKeys ==
  ASSUME Types, NEW rows \in Rows, NEW bad, Downlink(rows, bad),
         \A n \in DOMAIN rows : FromHere(n, rows[n], {}), NEW n \in Node
  PROVE  FromHere(n, local'[n], {})
<1>1. CASE n \in DOMAIN rows \ bad
  <2>1. local'[n] = Applied(rows[n], local[n])
      BY <1>1 DEF Downlink
  <2>2. rows[n] \in Row /\ rows[n] # None
      BY <1>1, RowsAre, SyncAssumption
  <2>3. \/ Key(local'[n]) = Key(rows[n])
        \/ local[n] # None /\ Key(local'[n]) = Key(local[n])
      BY <2>1, <2>2, CopiesAre, AppliedKeeps
  <2>4. FromHere(n, rows[n], {}) /\ FromHere(n, local[n], {})
      BY <1>1, KeysHere
  <2> QED BY <2>2, <2>3, <2>4 DEF FromHere
<1>2. CASE n \notin DOMAIN rows \ bad
  <2>1. local'[n] = local[n]
      BY <1>2 DEF Downlink
  <2> QED BY <2>1, KeysHere
<1> QED BY <1>1, <1>2

\* A page is the rows behind the cursor, none left out before its last one.
LEMMA PullPageP ==
  ASSUME IInv, IInv', PInv, NEW c \in Client, PullPage(c)
  PROVE  PInv'
<1>1. Still /\ UNCHANGED <<pump, recon, main>> /\ main = None
    BY DEF PullPage, SyncOnly, tables, serverVars, downlinked, counters, Still
<1>2. PICK page \in FirstPage : sync' = [sync EXCEPT ![c] =
         IF page = {} THEN [NoSync EXCEPT !.pc = "version"]
         ELSE [pc |-> "page", page |-> [n \in page |-> server[n]], more |-> page # Behind]]
    BY DEF PullPage
<1>3. CASE page = {}
  <2>1. SyncMoves(c, "version")
      BY <1>2, <1>3 DEF SyncMoves
  <2> QED BY <1>1, <2>1, SyncMovesP, StillP DEF PumpSame, ReconSame, PageStays
<1>4. CASE page # {}
  <2> DEFINE rows == [n \in page |-> server[n]]
             more == page # Behind
  <2>1. page \subseteq Behind /\ \A m \in page, n \in Behind \ page : server[m].ver < server[n].ver
      BY <1>2 DEF FirstPage
  <2>2. Behind \subseteq Node
      BY DEF Behind
  <2>3. DOMAIN rows = page /\ \A n \in page : rows[n] = server[n]
      OBVIOUS
  <2>4. sync' = [sync EXCEPT ![c] = [pc |-> "page", page |-> rows, more |-> more]]
      BY <1>2, <1>4
  <2> HIDE DEF rows, more
  <2>5. sync'[c].page = rows /\ \A d \in Client \ {c} : sync'[d] = sync[d]
      BY <2>4 DEF IInv, Types
  <2>6. ASSUME NEW n \in Node
        PROVE  Keys(n)' \subseteq Keys(n) \cup {}
    <3>1. FromHere(n, local'[n], {}) /\ FromHere(n, server'[n].row, {})
        BY <1>1, KeysHere DEF Still
    <3>2. n \in DOMAIN pump'.rows => FromHere(n, pump'.rows[n], {})
        BY <1>1, KeysHere
    <3>3. n \in DOMAIN recon'.rows => FromHere(n, recon'.rows[n], {})
        BY <1>1, KeysHere
    <3>4. ASSUME NEW d \in Client, n \in DOMAIN sync'[d].page
          PROVE  FromHere(n, sync'[d].page[n].row, {})
      <4>1. CASE d = c
          BY <2>3, <2>5, <3>4, <4>1, KeysHere
      <4>2. CASE d # c
          BY <2>5, <3>4, <4>2, KeysHere
      <4> QED BY <4>1, <4>2
    <3> QED BY <3>1, <3>2, <3>3, <3>4, KeysFrom
  <2>7. WritesApart'
      BY <1>1, <2>6, WritesStay DEF PInv, Still
  <2>8. /\ cursor \in Nat /\ cursor <= top
        /\ \A n \in Node : server[n].ver \in Nat /\ server[n].ver <= top
      BY CopiesAre DEF PInv, Numbered, IInv
  <2>9. Numbered'
    <3>1. \A d \in Client : \A n \in DOMAIN sync'[d].page : sync'[d].page[n].ver <= top
      <4> SUFFICES ASSUME NEW d \in Client, NEW n \in DOMAIN sync'[d].page
                   PROVE  sync'[d].page[n].ver <= top
          OBVIOUS
      <4>1. CASE d = c
          BY <2>1, <2>2, <2>3, <2>5, <2>8, <4>1
      <4>2. CASE d # c
          BY <2>5, <4>2 DEF PInv, Numbered
      <4> QED BY <4>1, <4>2
    <3> QED BY <1>1, <3>1 DEF PInv, Numbered, Still
  <2>10. ASSUME NEW n \in Node
         PROVE  Missing(n)' <=> Missing(n)
      BY <1>1 DEF Missing, Still
  <2>11. ASSUME NEW d \in Client, NEW i \in DOMAIN sync'[d].page, NEW n \in Node,
                server[n].ver \in 1 .. sync'[d].page[i].ver, Missing(n)
         PROVE  n \in DOMAIN sync'[d].page /\ server[n] = sync'[d].page[n]
    <3>1. CASE d = c
      <4>1. server[n].row # None
          BY <2>11, BeatsNone DEF Missing
      <4>2. server[n].ver > cursor
          BY <2>8, <2>11 DEF PInv, Passed
      <4>3. n \in Behind
          BY <4>1, <4>2 DEF Behind
      <4>4. n \in page
          BY <2>1, <2>2, <2>3, <2>5, <2>8, <2>11, <3>1, <4>3
      <4> QED BY <2>3, <2>5, <3>1, <4>4
    <3>2. CASE d # c
        BY <2>5, <2>11, <3>2 DEF PInv, Passed
    <3> QED BY <3>1, <3>2
  <2>12. Passed'
      BY <1>1, <2>10, <2>11 DEF PInv, Passed, Still
  <2>13. Paged'
    <3>1. \A d \in Client : sync'[d].pc = "page" => DOMAIN sync'[d].page # {}
        BY <1>4, <2>3, <2>5 DEF PInv, Paged
    <3> QED BY <1>1, <3>1 DEF Paged
  <2> QED BY <2>7, <2>9, <2>12, <2>13 DEF PInv
<1> QED BY <1>3, <1>4

\* A page is applied: nothing of it is missing any more, and nothing before it.
LEMMA PageRowsP ==
  ASSUME IInv, IInv', PInv, PageRows
  PROVE  PInv'
<1> DEFINE page == sync[main.by].page
           rows == [n \in DOMAIN page |-> page[n].row]
<1>1. /\ main # None /\ main \in Jobs /\ main.job = "page" /\ main.by \in Client
      /\ main' = [main EXCEPT !.at = "down"]
    BY DEF PageRows, IInv, Types
<1>2. main'.job = main.job /\ main'.by = main.by /\ main'.at = "down"
    BY <1>1 DEF Jobs
<1>3. page \in Pages
    BY <1>1 DEF IInv, Types, Syncs
<1>4. DOMAIN page \subseteq Node /\ \A n \in DOMAIN page : page[n].row \in Row
    BY <1>3, RowsAre
<1>5. rows \in Rows /\ DOMAIN rows = DOMAIN page /\ \A n \in DOMAIN page : rows[n] = page[n].row
  <2> HIDE DEF page
  <2>1. rows \in [DOMAIN page -> Row]
      BY <1>4
  <2> QED BY <1>4, <2>1, RowsAre
<1>6. UNCHANGED <<server, top, sync, pump, recon, cursor, now>>
    BY DEF PageRows, serverVars
<1>7. PICK bad \in SUBSET DOMAIN page : Downlink(rows, bad)
    BY DEF PageRows
<1> HIDE DEF rows
<1>8. \A n \in DOMAIN rows : FromHere(n, rows[n], {})
    BY <1>1, <1>5, HeldHere
<1>9. /\ Onward
      /\ \A n \in DOMAIN rows \ bad : local'[n] = Applied(rows[n], local[n])
      /\ bad \subseteq dead'
    BY <1>5, <1>6, <1>7, <1>8, OnwardDownlink DEF IInv, PInv
<1>10. \A n \in Node : FromHere(n, local'[n], {})
    BY <1>5, <1>7, <1>8, DownlinkKeys DEF IInv
<1>11. WritesApart'
    BY <1>6, <1>10, KeysHere, CopiesOnly DEF PInv, PumpSame, ReconSame, PagesSame
<1>12. \A n \in Node : server'[n] = server[n] /\ (Missing(n)' => Missing(n))
    BY <1>6, <1>9 DEF Onward
<1>13. Numbered'
    BY <1>6 DEF PInv, Numbered
<1>14. ASSUME NEW i \in DOMAIN page, NEW n \in Node, server[n].ver \in 1 .. page[i].ver, Missing(n)'
       PROVE  FALSE
  <2>1. n \in DOMAIN page /\ server[n] = page[n]
      BY <1>1, <1>12, <1>14 DEF PInv, Passed
  <2>2. n \notin bad
      BY <1>9, <1>14 DEF Missing
  <2>3. local'[n] = Applied(rows[n], local[n]) /\ rows[n] = server[n].row /\ rows[n] \in Row
      BY <1>4, <1>5, <1>9, <2>1, <2>2
  <2>4. ~Beats(server[n].row, local'[n])
      BY <2>3, CopiesAre, AppliedKeeps DEF IInv
  <2> QED BY <1>6, <1>14, <2>4 DEF Missing
<1>15. Passed'
  <2>1. \A n \in Node : server'[n].ver \in 1 .. cursor' => ~Missing(n)'
      BY <1>6, <1>12 DEF PInv, Passed
  <2>2. \A c \in Client : \A i \in DOMAIN sync'[c].page, n \in Node :
          server'[n].ver \in 1 .. sync'[c].page[i].ver /\ Missing(n)'
            => n \in DOMAIN sync'[c].page /\ server'[n] = sync'[c].page[n]
      BY <1>6, <1>12 DEF PInv, Passed
  <2>3. \A i \in DOMAIN sync'[main'.by].page, n \in Node :
          server'[n].ver \in 1 .. sync'[main'.by].page[i].ver => ~Missing(n)'
      BY <1>2, <1>6, <1>14
  <2> QED BY <2>1, <2>2, <2>3 DEF Passed
<1>16. Paged'
    BY <1>1, <1>2, <1>6 DEF PInv, Paged
<1> QED BY <1>11, <1>13, <1>15, <1>16 DEF PInv

\* What the reconcile fetched is applied.
LEMMA FetchedRowsP ==
  ASSUME IInv, IInv', PInv, FetchedRows
  PROVE  PInv'
<1>1. main # None /\ main \in Jobs /\ main.job = "fetched" /\ main' = [main EXCEPT !.at = "down"]
    BY DEF FetchedRows, IInv, Types
<1>2. main'.job = "fetched" /\ main'.at = "down"
    BY <1>1 DEF Jobs
<1>3. recon.pc = "fetched" /\ recon.rows \in Rows
    BY <1>1 DEF IInv, Held, Types
<1>4. Downlink(recon.rows, {}) /\ UNCHANGED <<server, top, sync, pump, recon, cursor, now>>
    BY DEF FetchedRows, serverVars, counters
<1>5. \A n \in DOMAIN recon.rows : FromHere(n, recon.rows[n], {})
    BY <1>3, HeldHere
<1>6. Onward
    BY <1>3, <1>4, <1>5, OnwardDownlink DEF IInv, PInv
<1>7. \A n \in Node : FromHere(n, local'[n], {})
    BY <1>3, <1>4, <1>5, DownlinkKeys DEF IInv
<1>8. \A n \in Node : FromHere(n, server'[n].row, {})
    BY <1>4, KeysHere
<1>9. Paged'
    BY <1>2, <1>4 DEF PInv, Paged
<1>10. PageStays
    BY <1>2 DEF PageStays
<1> QED BY <1>4, <1>6, <1>7, <1>8, <1>9, <1>10, SettledStep DEF PumpSame, ReconSame, PagesSame

\* The cursor moves to the last version of the page, behind which nothing is
\* missing now.
LEMMA CursorMovesP ==
  ASSUME IInv, IInv', PInv, CursorMoves
  PROVE  PInv'
<1> DEFINE page == sync[main.by].page
           vers == {page[n].ver : n \in DOMAIN page}
<1>1. main # None /\ main.at = "cursor" /\ main.job = "page" /\ main.by \in Client /\ DOMAIN page # {}
    BY DEF CursorMoves, PInv, Paged, IInv, Types
<1>2. Idle /\ UNCHANGED <<pump, recon, dead, overlaid>> /\ main' = None
    BY DEF CursorMoves, tables, serverVars, counters, downlinked, Idle
<1>3. cursor' = Max(vers)
    BY DEF CursorMoves
<1>4. SyncMoves(main.by, "pull") \/ SyncMoves(main.by, "version")
    BY DEF CursorMoves
<1>5. PagesSame /\ Paged'
    BY <1>1, <1>2, <1>4, SyncMovesP
<1>6. \A n \in DOMAIN page : page[n].ver \in Nat /\ page[n].ver <= top
  <2>1. page \in Pages
      BY <1>1 DEF IInv, Types, Syncs
  <2>2. \A n \in DOMAIN page : page[n].ver \in Nat
    <3> HIDE DEF page
    <3> QED BY <2>1 DEF Pages
  <2> QED BY <1>1, <2>2 DEF PInv, Numbered
<1>7. top \in Nat
    BY DEF IInv, Types
<1>8. PICK i \in DOMAIN page : cursor' = page[i].ver
  <2> HIDE DEF page
  <2>1. vers # {} /\ vers \subseteq Nat /\ \A x \in vers : x <= top
      BY <1>1, <1>6
  <2>2. Max(vers) \in vers
    <3> HIDE DEF vers
    <3> QED BY <1>7, <2>1, MaxIs
  <2> QED BY <1>3, <2>2
<1>9. \A n \in Node : server'[n] = server[n] /\ (Missing(n)' <=> Missing(n))
    BY <1>2 DEF Missing, Idle
<1>10. \A n \in Node : server'[n].ver \in 1 .. cursor' => ~Missing(n)'
    BY <1>1, <1>8, <1>9 DEF PInv, Passed
<1>11. \A c \in Client : \A j \in DOMAIN sync'[c].page, n \in Node :
          server'[n].ver \in 1 .. sync'[c].page[j].ver /\ Missing(n)'
            => n \in DOMAIN sync'[c].page /\ server'[n] = sync'[c].page[n]
    BY <1>5, <1>9 DEF PagesSame, PInv, Passed
<1>12. Passed'
    BY <1>2, <1>10, <1>11 DEF Passed
<1>13. Numbered'
  <2>1. cursor' \in Nat /\ cursor' <= top
      BY <1>6, <1>8
  <2>2. \A c \in Client : \A n \in DOMAIN sync'[c].page : sync'[c].page[n].ver <= top
      BY <1>5 DEF PagesSame, PInv, Numbered
  <2> QED BY <1>2, <2>1, <2>2 DEF PInv, Numbered, Idle
<1>14. WritesApart'
    BY <1>2, <1>5, KeysHere, CopiesOnly DEF PInv, PumpSame, ReconSame, Idle
<1> QED BY <1>5, <1>12, <1>13, <1>14 DEF PInv

\* The reconcile reads both sides, uploads what is newer here, and ends.
LEMMA ReconP ==
  ASSUME IInv, IInv', PInv, ReconManifest \/ ReconPlan \/ ReconPosted \/ ReconFetch \/ ReconEnds
  PROVE  PInv'
<1>1. UNCHANGED <<local, cursor, sync, pump, main, dead, overlaid, now>> /\ main = None
    BY DEF ReconManifest, ReconPlan, ReconPosted, ReconFetch, ReconEnds, ReconOnly, tables,
           downlinked, counters
<1>2. PumpSame /\ PagesSame /\ PageStays /\ Paged'
    BY <1>1 DEF PumpSame, PagesSame, PageStays, PInv, Paged
<1>3. CASE ReconPosted
  <2>1. recon.pc = "post" /\ recon.rows \in Rows
      BY <1>3 DEF ReconPosted, IInv, Types
  <2>2. PICK refused : Store(recon.rows, refused)
      BY <1>3 DEF ReconPosted
  <2>3. DOMAIN recon'.rows = {}
    <3>1. recon' = [recon EXCEPT !.pc = "download", !.rows = NoRows]
        BY <1>3 DEF ReconPosted
    <3> QED BY <3>1, RowsAre DEF IInv, Types, Recons
  <2> QED BY <1>1, <1>2, <2>1, <2>2, <2>3, HeldHere, PostP DEF ReconSame
<1>4. CASE ReconManifest \/ ReconPlan \/ ReconFetch \/ ReconEnds
  <2>1. Still
      BY <1>1, <1>4 DEF ReconManifest, ReconPlan, ReconFetch, ReconEnds, ReconOnly, serverVars, Still
  <2>2. ASSUME NEW n \in Node, n \in DOMAIN recon'.rows
        PROVE  recon'.rows[n] = local[n] \/ recon'.rows[n] = server[n].row
    <3>1. CASE ReconManifest
      <4> DEFINE rows == [m \in Node |-> server[m].row]
      <4>1. recon'.rows = rows
          BY <3>1 DEF ReconManifest, NoRecon
      <4> QED BY <4>1
    <3>2. CASE ReconPlan
      <4>1. PICK S : recon'.rows = [m \in S |-> local[m]]
          BY <3>2 DEF ReconPlan
      <4> QED BY <2>2, <4>1
    <3>3. CASE ReconFetch
      <4> DEFINE rows == [m \in recon.down |-> server[m].row]
      <4>1. CASE recon.down = {}
          BY <2>2, <3>3, <4>1, RowsAre DEF ReconFetch, NoRecon
      <4>2. CASE recon.down # {}
        <5>1. recon' = [recon EXCEPT !.pc = "fetched", !.rows = rows]
            BY <3>3, <4>2 DEF ReconFetch
        <5>2. recon'.rows = rows
          <6> HIDE DEF rows
          <6> QED BY <5>1 DEF IInv, Types, Recons
        <5> QED BY <2>2, <5>2
      <4> QED BY <4>1, <4>2
    <3>4. CASE ReconEnds
        BY <2>2, <3>4, RowsAre DEF ReconEnds, NoRecon
    <3> QED BY <1>4, <3>1, <3>2, <3>3, <3>4
  <2>3. ASSUME NEW n \in Node
        PROVE  Keys(n)' \subseteq Keys(n) \cup {}
    <3>1. FromHere(n, local'[n], {}) /\ FromHere(n, server'[n].row, {})
        BY <2>1, KeysHere DEF Still
    <3>2. n \in DOMAIN recon'.rows => FromHere(n, recon'.rows[n], {})
        BY <2>2, KeysHere
    <3>3. n \in DOMAIN pump'.rows => FromHere(n, pump'.rows[n], {})
        BY <1>2, KeysHere DEF PumpSame
    <3>4. \A d \in Client : n \in DOMAIN sync'[d].page => FromHere(n, sync'[d].page[n].row, {})
        BY <1>1, KeysHere
    <3> QED BY <3>1, <3>2, <3>3, <3>4, KeysFrom
  <2>4. WritesApart'
      BY <2>1, <2>3, WritesStay DEF PInv, Still
  <2>5. Onward
      BY <2>1, OnwardIdle DEF IInv, PInv, Still
  <2>6. Numbered' /\ Passed'
      BY <1>1, <1>2, <2>5, PassedKept DEF IInv, PInv
  <2> QED BY <1>2, <2>4, <2>6 DEF PInv
<1> QED BY <1>3, <1>4

\* A crash forgets the pages.
LEMMA CrashP ==
  ASSUME IInv, IInv', PInv, Crash
  PROVE  PInv'
<1>1. Still /\ main' = None /\ sync' = [c \in Client |-> NoSync] /\ pump' = NoPump /\ recon' = NoRecon
    BY DEF Crash, serverVars, downlinked, Still
<1>2. /\ NoSync.pc = "idle" /\ DOMAIN NoSync.page = {} /\ DOMAIN NoPump.rows = {}
      /\ DOMAIN NoRecon.rows = {}
    BY RowsAre DEF NoSync, NoPump, NoRecon
<1>3. PumpSame /\ ReconSame /\ PagesSame /\ PageStays /\ Paged'
    BY <1>1, <1>2 DEF PumpSame, ReconSame, PagesSame, PageStays, Paged
<1> QED BY <1>1, <1>3, StillP

\* At the start the two sides agree and the cursor is at the last version.
LEMMA InitP == Init => PInv
<1> SUFFICES ASSUME Init PROVE PInv
    OBVIOUS
<1> DEFINE row == [seq |-> 1, upd |-> 0, arch |-> FALSE, sup |-> FALSE]
<1>1. PICK synced \in SUBSET Node :
        /\ local = [n \in Node |-> IF n \in synced THEN row ELSE None]
        /\ top = Cardinality(synced)
        /\ \E ver \in Bijection(synced, 1 .. top) :
             server = [n \in Node |-> IF n \in synced THEN [row |-> row, ver |-> ver[n]]
                                      ELSE [row |-> None, ver |-> 0]]
    BY DEF Init
<1>2. PICK ver \in Bijection(synced, 1 .. top) :
        server = [n \in Node |-> IF n \in synced THEN [row |-> row, ver |-> ver[n]]
                                 ELSE [row |-> None, ver |-> 0]]
    BY <1>1
<1>3. row \in Row /\ Key(row).upd = 0
    BY DEF Row, Key
<1>4. top \in Nat
    BY InitOK DEF IInv, Types
<1>5. \A n \in synced : ver[n] \in 1 .. top
    BY DEF Bijection, Injection, Surjection
<1> HIDE DEF row
<1>6. \A n \in Node : /\ server[n].row = local[n] /\ local[n] \in {row, None}
                      /\ server[n].ver <= top
    BY <1>1, <1>2, <1>4, <1>5
<1>7. /\ DOMAIN pump.rows = {} /\ DOMAIN recon.rows = {} /\ main = None /\ cursor = top /\ now = 0
      /\ \A c \in Client : sync[c].pc = "idle" /\ DOMAIN sync[c].page = {}
    BY RowsAre DEF Init, NoSync, NoPump, NoRecon
<1>8. \A n \in Node : CopiesOf(n) \subseteq {row, None}
    BY <1>6, <1>7 DEF CopiesOf
<1>9. \A n \in Node : Keys(n) \subseteq {Key(row)}
    BY <1>8 DEF Keys
<1>10. WritesApart
    BY <1>3, <1>7, <1>9 DEF WritesApart
<1>11. \A n \in Node : ~Missing(n)
    BY <1>3, <1>6, BeatsNone DEF Missing
<1>12. Numbered
    BY <1>4, <1>6, <1>7 DEF Numbered
<1>13. Passed
    BY <1>7, <1>11 DEF Passed
<1>14. Paged
    BY <1>7 DEF Paged
<1> QED BY <1>10, <1>12, <1>13, <1>14 DEF PInv

\* Every step keeps the invariant.
LEMMA NextP ==
  ASSUME IInv, PInv, [Next]_vars
  PROVE  PInv'
<1>1. IInv'
    BY NextOK
<1>2. CASE UNCHANGED vars
  <2>1. Still /\ UNCHANGED <<pump, recon, sync, main>>
      BY <1>2 DEF vars, Still
  <2> QED BY <1>1, <2>1, StillP DEF PumpSame, ReconSame, PagesSame, PageStays, PInv, Paged
<1>3. CASE \E n \in Node : (\E by \in {"main", "other"} : Write(by, n)) \/ OtherDevice(n)
    BY <1>1, <1>3, WriteP, OtherDeviceP
<1>4. CASE PumpTick \/ PumpClaim \/ PumpPosted \/ PumpFails
    BY <1>1, <1>4, PumpP
<1>5. CASE \E c \in Client : StartClient(c) \/ SyncStart(c) \/ SyncGivesUp(c)
    BY <1>1, <1>5, ClientP
<1>6. CASE StopClient \/ PollingStarts \/ PollingStops
  <2>1. Still /\ UNCHANGED <<pump, recon, sync, main>>
      BY <1>6 DEF StopClient, PollingStarts, PollingStops, tables, serverVars, downlinked, counters, Still
  <2> QED BY <1>1, <2>1, StillP DEF PumpSame, ReconSame, PagesSame, PageStays, PInv, Paged
<1>7. CASE \E c \in Client : PullPage(c)
    BY <1>1, <1>7, PullPageP
<1>8. CASE FetchedBegins \/ GuardDown \/ \E c \in Client : DecayBegins(c) \/ PageBegins(c)
    BY <1>1, <1>8, GuardP
<1>9. CASE PageRows \/ FetchedRows \/ CursorMoves
    BY <1>1, <1>9, PageRowsP, FetchedRowsP, CursorMovesP
<1>10. CASE ReconManifest \/ ReconPlan \/ ReconPosted \/ ReconFetch \/ ReconEnds
    BY <1>1, <1>10, ReconP
<1>11. CASE Crash
    BY <1>1, <1>11, CrashP
<1> QED BY <1>2, <1>3, <1>4, <1>5, <1>6, <1>7, <1>8, <1>9, <1>10, <1>11 DEF Next

\* Both invariants hold in every reachable state.
THEOREM PassedInvariance == Spec => [](IInv /\ PInv)
<1>1. Init => IInv /\ PInv
    BY InitOK, InitP
<1>2. IInv /\ PInv /\ [Next]_vars => IInv' /\ PInv'
    BY NextOK, NextP
<1> QED BY <1>1, <1>2, PTL DEF Spec

\* However the pages of the clients, their crashes and the writes of others
\* interleave, no row behind the cursor is older here than on the server,
\* except the known ones.
THEOREM NothingIsSkipped == Spec => []NothingSkipped
<1>1. IInv /\ PInv => NothingSkipped
  <2> SUFFICES ASSUME IInv, PInv, NEW n \in Node, server[n].ver \in 1 .. cursor,
                      Winner(local[n], server[n].row) = "server"
               PROVE  n \in dead \cup overlaid
      BY DEF NothingSkipped
  <2>1. Beats(server[n].row, local[n])
      BY CopiesAre, WinnerIs DEF IInv
  <2> QED BY <2>1 DEF PInv, Passed, Missing
<1> QED BY PassedInvariance, <1>1, PTL

-----------------------------------------------------------------------------
(* The stages of the reconcile.                                            *)

\* What a reconcile moves is beaten by the other copy.
LEMMA NewerIs ==
  ASSUME Types, NEW n \in Node
  PROVE  /\ n \in Newer("local") => Beats(local[n], server[n].row)
         /\ n \in Newer("server") => Beats(server[n].row, local[n])
<1>1. local[n] \in Row \cup {None} /\ server[n].row \in Row \cup {None}
    BY DEF Types, Copies
<1> QED BY <1>1, PlannedMoves, WinnerIs DEF Newer

\* Two copies with one key stay where they are.
LEMMA SameStay ==
  ASSUME NEW x \in Row, NEW y \in Row, Key(x) = Key(y)
  PROVE  Planned(x, y) = "same"
<1>1. x.seq = y.seq /\ x.arch = y.arch /\ x.upd = y.upd
    BY DEF Key
<1>2. x.upd \in Nat /\ y.upd \in Nat
    BY DEF Row
<1>3. SameTime(x.upd, y.upd)
    BY <1>1, <1>2, SyncAssumption DEF SameTime
<1> QED BY <1>1, <1>3, SyncAssumption DEF Planned, ManifestWinner

\* A step that moves neither side nor the reconcile, and does not end the rows
\* it fetched, leaves it at its stage.
LEMMA ConvergingKept ==
  ASSUME Converging, UNCHANGED <<local, server, recon, quiet>>,
         main # None /\ main.job = "fetched" /\ main.at # "rows" <=>
           main' # None /\ main'.job = "fetched" /\ main'.at # "rows"
  PROVE  Converging'
<1>1. Newer("local")' = Newer("local") /\ Newer("server")' = Newer("server") /\ (Agreed' <=> Agreed)
    BY DEF Newer, Agreed
<1> QED BY <1>1 DEF Converging

\* The manifest, the plan and the fetch.
LEMMA ConvergingReads ==
  ASSUME IInv, IInv', Converging, ReconManifest \/ ReconPlan \/ ReconFetch
  PROVE  Converging'
<1>1. UNCHANGED <<local, server>> /\ main = None /\ main' = None
    BY DEF ReconManifest, ReconPlan, ReconFetch, ReconOnly, tables, serverVars
<1>2. Newer("local")' = Newer("local") /\ Newer("server")' = Newer("server") /\ (Agreed' <=> Agreed)
    BY <1>1 DEF Newer, Agreed
<1>3. CASE ReconManifest
  <2> DEFINE rows == [n \in Node |-> server[n].row]
  <2>1. recon'.pc = "manifest" /\ recon'.rows = rows
      BY <1>3 DEF ReconManifest, NoRecon
  <2>2. \A n \in Node : recon'.rows[n] = server'[n].row
      BY <1>1, <2>1
  <2> QED BY <2>1, <2>2 DEF Converging
<1>4. CASE ReconPlan
  <2> SUFFICES ASSUME quiet' PROVE Converging'
      BY DEF Converging
  <2>1. recon.pc = "manifest" /\ quiet
      BY <1>4 DEF ReconPlan
  <2>2. \A n \in Node : recon.rows[n] = server[n].row
      BY <2>1 DEF Converging
  <2>3. \A side : {n \in Node : Planned(local[n], recon.rows[n]) = side} = Newer(side)
      BY <2>2 DEF Newer
  <2>4. recon' = [pc |-> IF Newer("local") = {} THEN "download" ELSE "post",
                  rows |-> [n \in Newer("local") |-> local[n]], down |-> Newer("server")]
      BY <1>4, <2>3 DEF ReconPlan
  <2> HIDE <1>4
  <2>5. CASE Newer("local") = {}
    <3>1. recon'.pc = "download" /\ recon'.down = Newer("server")
        BY <2>4, <2>5
    <3> QED BY <1>2, <2>5, <3>1 DEF Converging
  <2>6. CASE Newer("local") # {}
    <3>1. recon'.pc = "post" /\ recon'.down = Newer("server")
          /\ recon'.rows = [n \in Newer("local") |-> local[n]]
        BY <2>4, <2>6
    <3>2. DOMAIN recon'.rows = Newer("local") /\ \A n \in DOMAIN recon'.rows : recon'.rows[n] = local'[n]
        BY <1>1, <3>1
    <3> QED BY <1>2, <3>1, <3>2 DEF Converging
  <2> QED BY <2>5, <2>6
<1>5. CASE ReconFetch
  <2> SUFFICES ASSUME quiet' PROVE Converging'
      BY DEF Converging
  <2>1. recon.pc = "download" /\ quiet
      BY <1>5 DEF ReconFetch
  <2>2. Newer("local") = {} /\ recon.down = Newer("server")
      BY <2>1 DEF Converging
  <2>3. CASE recon.down = {}
    <3>1. recon'.pc = "done"
        BY <1>5, <2>3 DEF ReconFetch, NoRecon
    <3> QED BY <1>2, <2>2, <2>3, <3>1 DEF Converging, Agreed
  <2>4. CASE recon.down # {}
    <3> DEFINE rows == [n \in recon.down |-> server[n].row]
    <3>1. recon' = [recon EXCEPT !.pc = "fetched", !.rows = rows]
        BY <1>5, <2>4 DEF ReconFetch
    <3>2. DOMAIN rows = recon.down /\ \A n \in DOMAIN rows : rows[n] = server'[n].row
        BY <1>1
    <3>3. recon'.pc = "fetched" /\ recon'.rows = rows
      <4> HIDE DEF rows
      <4> QED BY <3>1 DEF IInv, Types, Recons
    <3> HIDE DEF rows
    <3> QED BY <1>1, <1>2, <2>2, <3>2, <3>3 DEF Converging
  <2> QED BY <2>3, <2>4
<1> QED BY <1>3, <1>4, <1>5

\* What was newer here is on the server now.
LEMMA ConvergingPosted ==
  ASSUME IInv, IInv', PInv, Converging, ReconPosted
  PROVE  Converging'
<1> SUFFICES ASSUME quiet' PROVE Converging'
    BY DEF Converging
<1>1. recon.pc = "post" /\ UNCHANGED <<local, main>> /\ main = None
      /\ recon' = [recon EXCEPT !.pc = "download", !.rows = NoRows]
    BY DEF ReconPosted, tables
<1>2. quiet /\ Store(recon.rows, {})
  <2>1. PICK refused : Store(recon.rows, refused) /\ quiet' = (quiet /\ refused = {})
      BY DEF ReconPosted
  <2>2. quiet /\ refused = {}
      BY <2>1, Zenon
  <2> QED BY <2>1, <2>2
<1>3. /\ DOMAIN recon.rows = Newer("local") /\ recon.down = Newer("server")
      /\ \A n \in DOMAIN recon.rows : recon.rows[n] = local[n]
    BY <1>1, <1>2 DEF Converging
<1>4. recon.rows \in Rows
    BY <1>1 DEF IInv, Types
<1>5. /\ \A n \in Node : n \notin Newer("local") => server'[n] = server[n]
      /\ \A n \in Newer("local") : server'[n].row = Judged(local[n], server[n].row)
  <2>1. DOMAIN recon.rows \ {} = Newer("local")
      BY <1>3
  <2> QED BY <1>2, <1>3, <1>4, <2>1, StoreIs DEF IInv, PInv
<1>6. ASSUME NEW n \in Node
      PROVE  n \notin Newer("local")' /\ (n \in Newer("server")' <=> n \in Newer("server"))
  <2>1. CASE n \in Newer("local")
    <3>1. Beats(local[n], server[n].row)
        BY <2>1, NewerIs DEF IInv
    <3>2. local[n] \in Row /\ server[n].row \in Row \cup {None}
        BY <3>1, CopiesAre, BeatsNone DEF IInv
    <3>3. server'[n].row \in Row /\ Key(server'[n].row) = Key(local[n])
        BY <1>5, <2>1, <3>1, <3>2, JudgedKeeps
    <3>4. Planned(local'[n], server'[n].row) = "same"
        BY <1>1, <3>2, <3>3, SameStay
    <3>5. n \notin Newer("server")
        BY <2>1 DEF Newer
    <3> QED BY <3>4, <3>5 DEF Newer
  <2>2. CASE n \notin Newer("local")
      BY <1>1, <1>5, <2>2 DEF Newer
  <2> QED BY <2>1, <2>2
<1>7. Newer("local") \subseteq Node /\ Newer("local")' \subseteq Node
      /\ Newer("server") \subseteq Node /\ Newer("server")' \subseteq Node
    BY DEF Newer
<1>8. Newer("local")' = {} /\ Newer("server")' = Newer("server")
    BY <1>6, <1>7
<1>9. recon'.pc = "download" /\ recon'.down = recon.down
    BY <1>1 DEF IInv, Types, Recons
<1> QED BY <1>3, <1>8, <1>9 DEF Converging

\* What was newer there is here now.
LEMMA ConvergingFetched ==
  ASSUME IInv, IInv', Converging, FetchedRows
  PROVE  Converging'
<1> SUFFICES ASSUME quiet' PROVE Converging'
    BY DEF Converging
<1>1. main # None /\ main \in Jobs /\ main.job = "fetched" /\ main.at = "rows"
      /\ main' = [main EXCEPT !.at = "down"] /\ UNCHANGED <<server, recon>> /\ quiet
    BY DEF FetchedRows, serverVars, IInv, Types
<1>2. main' # None /\ main'.job = "fetched" /\ main'.at = "down"
  <2>1. main' \in Jobs
      BY <1>1 DEF Jobs
  <2> QED BY <1>1, <2>1, SyncAssumption DEF Jobs
<1>3. recon.pc = "fetched" /\ recon.rows \in Rows
    BY <1>1 DEF IInv, Held, Types
<1>4. /\ Newer("local") = {} /\ DOMAIN recon.rows = Newer("server")
      /\ \A n \in DOMAIN recon.rows : recon.rows[n] = server[n].row
    BY <1>1, <1>3 DEF Converging
<1>5. \A n \in Node : local'[n] = IF n \in Newer("server") THEN Applied(server[n].row, local[n])
                                  ELSE local[n]
    BY <1>4 DEF FetchedRows, Downlink
<1>6. ASSUME NEW n \in Node
      PROVE  n \notin Newer("local")' /\ n \notin Newer("server")'
  <2>1. CASE n \in Newer("server")
    <3>1. Beats(server[n].row, local[n])
        BY <2>1, NewerIs DEF IInv
    <3>2. server[n].row \in Row /\ local[n] \in Row \cup {None}
        BY <3>1, CopiesAre, BeatsNone DEF IInv
    <3>3. local'[n] \in Row /\ Key(local'[n]) = Key(server[n].row)
        BY <1>5, <2>1, <3>1, <3>2, AppliedKeeps
    <3>4. Planned(local'[n], server'[n].row) = "same"
        BY <1>1, <3>2, <3>3, SameStay
    <3> QED BY <3>4 DEF Newer
  <2>2. CASE n \notin Newer("server")
      BY <1>1, <1>4, <1>5, <2>2 DEF Newer
  <2> QED BY <2>1, <2>2
<1>7. Newer("local")' \subseteq Node /\ Newer("server")' \subseteq Node
    BY DEF Newer
<1>8. Agreed'
    BY <1>6, <1>7 DEF Agreed
<1> QED BY <1>1, <1>2, <1>3, <1>8 DEF Converging

\* Each step keeps the stage, or says that somebody wrote.
LEMMA NextConverges ==
  ASSUME IInv, PInv, Converging, [Next]_vars
  PROVE  Converging'
<1>1. IInv'
    BY NextOK
<1>2. CASE \/ \E n \in Node : (\E by \in {"main", "other"} : Write(by, n)) \/ OtherDevice(n)
           \/ PumpPosted \/ PumpFails \/ PageRows \/ ReconEnds \/ Crash
  <2>1. quiet' = FALSE
      BY <1>2 DEF Write, OtherDevice, PumpPosted, PumpFails, PageRows, ReconEnds, Crash
  <2> QED BY <2>1 DEF Converging
<1>3. CASE \/ UNCHANGED vars \/ PumpTick \/ PumpClaim
           \/ StopClient \/ PollingStarts \/ PollingStops
           \/ \E c \in Client : StartClient(c) \/ SyncStart(c) \/ SyncGivesUp(c) \/ PullPage(c)
  <2>1. UNCHANGED <<local, server, recon, quiet, main>>
      BY <1>3 DEF vars, PumpTick, PumpClaim, StopClient, PollingStarts, PollingStops, StartClient,
                  SyncStart, SyncGivesUp,
                  PullPage, PumpOnly, SyncOnly, tables, serverVars
  <2> QED BY <2>1, ConvergingKept
<1>4. CASE FetchedBegins \/ \E c \in Client : DecayBegins(c) \/ PageBegins(c)
  <2>1. UNCHANGED <<local, server, recon, quiet>> /\ main = None
        /\ (main'.job # "fetched" \/ main'.at = "rows")
      BY <1>4 DEF FetchedBegins, DecayBegins, PageBegins, tables, serverVars
  <2> QED BY <2>1, ConvergingKept
<1>5. CASE CursorMoves
  <2>1. UNCHANGED <<local, server, recon, quiet>> /\ main' = None /\ main.job = "page"
      BY <1>5 DEF CursorMoves, tables, serverVars, PInv, Paged
  <2> QED BY <2>1, ConvergingKept
<1>6. CASE GuardDown
  <2>1. UNCHANGED <<local, server, quiet>> /\ main # None /\ main.at = "down"
      BY <1>6 DEF GuardDown, tables, serverVars
  <2>2. CASE main.job = "fetched"
    <3>1. recon'.pc = "done" /\ recon.pc = "fetched"
        BY <1>6, <2>1, <2>2 DEF GuardDown, NoRecon, IInv, Held
    <3>2. Agreed' <=> Agreed
        BY <2>1 DEF Agreed, Newer
    <3> QED BY <2>1, <2>2, <3>1, <3>2 DEF Converging
  <2>3. CASE main.job # "fetched"
    <3>1. UNCHANGED recon /\ (main' = None \/ main' = [main EXCEPT !.at = "cursor"])
        BY <1>6, <2>3 DEF GuardDown
    <3>2. main' = None \/ main'.job # "fetched"
        BY <2>1, <2>3, <3>1 DEF IInv, Types, Jobs
    <3> QED BY <2>1, <2>3, <3>1, <3>2, ConvergingKept
  <2> QED BY <2>2, <2>3
<1>7. CASE ReconManifest \/ ReconPlan \/ ReconFetch
    BY <1>1, <1>7, ConvergingReads
<1>8. CASE ReconPosted
    BY <1>1, <1>8, ConvergingPosted
<1>9. CASE FetchedRows
    BY <1>1, <1>9, ConvergingFetched
<1> QED BY <1>2, <1>3, <1>4, <1>5, <1>6, <1>7, <1>8, <1>9 DEF Next

\* A reconcile that ends while nobody else writes leaves on both sides what
\* another manifest would call the same version, whatever happened before it
\* began and whatever the tolerance.
THEOREM ReconcileIsRight == Spec => []ReconcileConverges
<1>1. Init => Converging
    BY DEF Init, Converging
<1>2. IInv /\ PInv /\ Converging /\ [Next]_vars => Converging'
    BY NextConverges
<1>3. IInv /\ Converging => ReconcileConverges
  <2> SUFFICES ASSUME IInv, Converging, recon.pc = "done", quiet, NEW n \in Node
               PROVE  Planned(local[n], server[n].row) = "same"
      BY DEF ReconcileConverges
  <2>1. n \notin Newer("local") /\ n \notin Newer("server")
      BY DEF Converging, Agreed
  <2>2. local[n] \in Row \cup {None} /\ server[n].row \in Row \cup {None}
      BY DEF IInv, Types, Copies
  <2>3. Planned(local[n], server[n].row) \in {"same", "local", "server"}
      BY <2>2, WinnerIs DEF Planned, ManifestWinner, Winner
  <2> QED BY <2>1, <2>3 DEF Newer
<1> QED BY PassedInvariance, <1>1, <1>2, <1>3, PTL DEF Spec
=============================================================================
