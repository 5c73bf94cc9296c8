--------------------------- MODULE NoteSourceProofs ---------------------------
(***************************************************************************)
(* Proofs about NoteSource for any vault, texts, numbers of nodes, edits   *)
(* and faults.                                                             *)
(*                                                                         *)
(* The nodes that a note's state, its runs and the graph hold for it are   *)
(* its own (Apart), so whatever a run retires or leaves behind is not      *)
(* another note's.  A note whose versions were not mixed is at rest and    *)
(* remembered by its state (Remembered), or deleted with its nodes about   *)
(* to be archived, or in the hands of one run that knows its state         *)
(* (InHand).                                                               *)
(***************************************************************************)
EXTENDS NoteSource, SequenceTheorems, WellFoundedInduction, TLAPS

Works == [pc : {"stream", "embed", "switch", "tags"}, was : Version \cup {None},
          text : Seq(Nat), stamp : Nat, ids : Seq(Id)]

\* How far a run can be
Sized(w) ==
  /\ w.pc = "stream" => Len(w.ids) < Len(w.text)
  /\ w.pc = "embed" => Len(w.ids) > 0 /\ Len(w.ids) <= Len(w.text)
  /\ w.pc \in {"switch", "tags"} => Len(w.ids) = Len(w.text)

Types ==
  /\ disk \in [File -> [at : {"here", "away", "gone"}, text : Seq(Nat), stamp : Nat]]
  /\ state \in [File -> Version \cup {None}]
  /\ node \in [Id -> Segment \cup {None}]
  /\ worker \in [Job -> Works \cup {Idle}]
  /\ \A j \in Job : worker[j] # Idle => Sized(worker[j])

\* The nodes a version names, those a run knows, and all that are a note's
IdsOf(v) == IF v = None THEN {} ELSE Range(v.ids)
Handled(w) == IF w = Idle THEN {} ELSE Range(w.ids) \cup Range(Old(w))
Named(f) == IdsOf(state[f]) \cup UNION {Handled(worker[j]) : j \in {k \in Job : k[1] = f}}
Refs(f) == Active(f) \cup Named(f)

\* No node is of two notes
Apart == \A f, g \in File : f # g => Refs(f) \cap Refs(g) = {}

\* Every node stands for one segment, and each segment has its node
Distinct(s) == \A i, k \in DOMAIN s : s[i] = s[k] => i = k
Tells(f, text, ids) ==
  \A i \in DOMAIN text : i \in DOMAIN ids /\ node[ids[i]] = [file |-> f, what |-> text[i]]
Whole(f) == state[f] # None => Distinct(state[f].ids) /\ Tells(f, state[f].text, state[f].ids)

\* A note at rest
Remembered(f) == Whole(f) /\ Active(f) = IdsOf(state[f])

\* A note in the hands of a run: first all nodes of the old version are there,
\* in the end all of the new one and no other
InHand(f, w) ==
  /\ w.was = state[f]
  /\ Distinct(w.ids) /\ Distinct(Old(w))
  /\ \A i \in DOMAIN w.ids : w.ids[i] \in Range(Old(w)) => i \in DOMAIN Old(w) /\ w.ids[i] = Old(w)[i]
  /\ \A i \in DOMAIN w.ids : node[w.ids[i]] = [file |-> f, what |-> w.text[i]]
  /\ w.pc \in {"stream", "embed"} => Active(f) = IdsOf(state[f]) \cup Range(w.ids)
  /\ w.pc \in {"switch", "tags"} => Active(f) \subseteq Range(w.ids) \cup Replaced(w)
  /\ w.pc = "tags" => Active(f) \cap Replaced(w) = {}
  /\ (w.pc \in {"switch", "tags"} => Replaced(w) \subseteq Active(f)) => Whole(f)

\* The runs of a note
NoRun(f) == \A j \in Job : j[1] = f => worker[j] = Idle
Alone(f, j) == j[1] = f /\ worker[j] # Idle /\ \A k \in Job : k[1] = f /\ k # j => worker[k] = Idle

\* A note whose state is gone, and whose nodes are about to go
Orphaned(f) == NoRun(f) /\ state[f] = None /\ Active(f) \subseteq orphans

\* Every note whose versions were not mixed
FileOK(f) ==
  f \notin spoiled =>
    \/ Orphaned(f)
    \/ /\ orphans \cap Active(f) = {}
       /\ \/ NoRun(f) /\ Remembered(f)
          \/ \E j \in Job : Alone(f, j) /\ InHand(f, worker[j])

\* While a scan removes notes they are gone
StaleOK == \A f \in stale : state[f] # None /\ disk[f].at = "gone"

Core == Types /\ Apart /\ \A f \in File : FileOK(f)
IInv == Core /\ StaleOK

-----------------------------------------------------------------------------
(* The operators.                                                          *)

\* A set of naturals has a least element.
LEMMA MinIs ==
  ASSUME NEW S, S # {}, S \subseteq Nat
  PROVE  Min(S) \in S /\ \A x \in S : Min(S) <= x
<1> DEFINE R == OpToRel(<, Nat)
<1>1. \A x, y \in Nat : <<x, y>> \in R <=> x < y
    BY DEF OpToRel
<1>2. IsWellFoundedOn(R, Nat)
    BY NatLessThanWellFounded
<1> HIDE DEF R
<1>3. PICK m \in S : \A y \in S : ~(<<y, m>> \in R)
    BY <1>2, WFMin, Zenon
<1>4. ASSUME NEW y \in S
      PROVE  m =< y
  <2>1. m \in Nat /\ y \in Nat /\ ~(y < m)
      BY <1>1, <1>3
  <2> QED BY <2>1
<1>5. \A y \in S : Min(S) =< y
    BY <1>4 DEF Min
<1>6. Min(S) \in S
    BY <1>4 DEF Min
<1> QED BY <1>5, <1>6

\* A sequence holds exactly the elements at its places.
LEMMA RangeIs ==
  ASSUME NEW S, NEW s \in Seq(S)
  PROVE  /\ DOMAIN s = 1 .. Len(s) /\ Len(s) \in Nat
         /\ \A i \in DOMAIN s : s[i] \in S /\ s[i] \in Range(s)
         /\ \A x \in Range(s) : x \in S /\ \E i \in DOMAIN s : x = s[i]
BY DEF Range

\* Whatever is in a sequence has a place.
LEMMA PlaceIs ==
  ASSUME NEW s
  PROVE  \A x : x \in Range(s) <=> \E i \in DOMAIN s : x = s[i]
BY DEF Range

\* The part of a sequence behind its first a places, up to b.
LEMMA PartIs ==
  ASSUME NEW s, NEW a \in Nat, NEW b \in Int, b >= a + 1, 
         \A i \in a + 1 .. b - 1 : s[i] \in Id
  PROVE  /\ SubSeq(s, a + 1, b - 1) \in Seq(Id)
         /\ Len(SubSeq(s, a + 1, b - 1)) = b - 1 - a
         /\ \A i \in 1 .. b - 1 - a : SubSeq(s, a + 1, b - 1)[i] = s[a + i]
<1> DEFINE m == a + 1
           n == b - 1
<1>1. m \in Int /\ n \in Int
    OBVIOUS
<1>2. \A i \in m .. n : s[i] \in Id
    OBVIOUS
<1> HIDE DEF m, n
<1>3. /\ SubSeq(s, m, n) \in Seq(Id)
      /\ Len(SubSeq(s, m, n)) = IF m <= n THEN n - m + 1 ELSE 0
      /\ \A i \in 1 .. n - m + 1 : SubSeq(s, m, n)[i] = s[m + i - 1]
    BY <1>1, <1>2, SubSeqProperties
<1>4. n - m + 1 = b - 1 - a /\ (~(m <= n) => b - 1 - a = 0) /\ b - 1 - a \in Nat
    BY DEF m, n
<1>5. \A i \in 1 .. b - 1 - a : m + i - 1 = a + i
    BY DEF m
<1>6. \A i \in 1 .. b - 1 - a : SubSeq(s, m, n)[i] = s[a + i]
    BY <1>3, <1>4, <1>5
<1>7. Len(SubSeq(s, m, n)) = b - 1 - a
    BY <1>3, <1>4
<1> QED BY <1>3, <1>6, <1>7 DEF m, n

\* A run is no idle one, and a version is not none.
LEMMA Kinds ==
  /\ Idle \notin Works
  /\ \A v \in Version : v # None
  /\ \A s \in Segment : s # None
<1>1. Idle \notin Works
  <2>1. Idle.pc = "idle"
      BY DEF Idle
  <2> QED BY <2>1 DEF Works
<1> QED BY <1>1, SourceAssumption

\* What a run finds of the version before it.
LEMMA OldIs ==
  ASSUME NEW w \in Works
  PROVE  /\ Old(w) \in Seq(Id) /\ OldText(w) \in Seq(Nat)
         /\ Range(Old(w)) = IdsOf(w.was)
         /\ w.was = None => Old(w) = <<>> /\ OldText(w) = <<>>
         /\ w.was # None => w.was \in Version /\ Old(w) = w.was.ids /\ OldText(w) = w.was.text
<1>1. w.was \in Version \cup {None}
    BY DEF Works
<1>2. CASE w.was = None
  <2>1. Old(w) = <<>> /\ OldText(w) = <<>> /\ IdsOf(w.was) = {}
      BY <1>2 DEF Old, OldText, IdsOf
  <2>2. Range(<<>>) = {}
      BY DEF Range
  <2> QED BY <1>2, <2>1, <2>2
<1>3. CASE w.was # None
  <2>1. w.was \in Version
      BY <1>1, <1>3
  <2>2. w.was.ids \in Seq(Id) /\ w.was.text \in Seq(Nat)
      BY <2>1 DEF Version
  <2> QED BY <1>3, <2>1, <2>2 DEF Old, OldText, IdsOf
<1> QED BY <1>2, <1>3

\* The loop goes on over segments that keep their old nodes.
LEMMA OnwardIs ==
  ASSUME NEW w \in Works, Len(w.ids) <= Len(w.text)
  PROVE  LET o == Onward(w) IN
         /\ o \in Works /\ Sized(o)
         /\ o.was = w.was /\ o.text = w.text /\ o.stamp = w.stamp /\ o.pc \in {"stream", "switch"}
         /\ Len(w.ids) <= Len(o.ids)
         /\ \A i \in 1 .. Len(w.ids) : o.ids[i] = w.ids[i]
         /\ \A i \in Len(w.ids) + 1 .. Len(o.ids) : Reused(w, i) /\ o.ids[i] = Old(w)[i]
<1> DEFINE l == Len(w.ids)
           t == Len(w.text)
           S == {i \in l + 1 .. t + 1 : i > t \/ ~Reused(w, i)}
           next == Min(S)
           old == Old(w)
           more == SubSeq(old, l + 1, next - 1)
           all == w.ids \o more
           pc == IF next > t THEN "switch" ELSE "stream"
           o == [w EXCEPT !.pc = pc, !.ids = all]
<1>1. w.text \in Seq(Nat) /\ w.ids \in Seq(Id) /\ l \in Nat /\ t \in Nat /\ l <= t
    BY DEF Works
<1>2. old \in Seq(Id) /\ Len(old) \in Nat
    BY OldIs
<1>3. Onward(w) = o
    BY DEF Onward
<1>4. next \in S /\ \A i \in S : next <= i
  <2>1. t + 1 \in S
      BY <1>1
  <2>2. S \subseteq Nat
      BY <1>1
  <2> HIDE DEF S
  <2> QED BY <2>1, <2>2, MinIs
<1>5. next \in l + 1 .. t + 1 /\ \A i \in l + 1 .. next - 1 : i <= t /\ Reused(w, i)
  <2>1. next \in l + 1 .. t + 1
      BY <1>4
  <2> HIDE DEF next
  <2>2. ASSUME NEW i \in l + 1 .. next - 1
        PROVE  i <= t /\ Reused(w, i)
    <3>1. i \in l + 1 .. t + 1 /\ ~(next <= i)
        BY <1>1, <2>1, <2>2
    <3>2. i \notin S
        BY <1>4, <3>1
    <3> QED BY <3>1, <3>2, <1>1
  <2> QED BY <2>1, <2>2
<1>6. \A i \in l + 1 .. next - 1 : i \in 1 .. Len(old) /\ old[i] \in Id
  <2> HIDE DEF next, old
  <2>1. \A i \in l + 1 .. next - 1 : i <= Len(old) /\ i \in 1 .. Len(old)
      BY <1>1, <1>2, <1>5 DEF Reused, old
  <2> QED BY <1>2, <2>1
<1>7. /\ more \in Seq(Id) /\ Len(more) = next - 1 - l
      /\ \A i \in 1 .. next - 1 - l : more[i] = old[l + i]
  <2> HIDE DEF next, old
  <2> HIDE DEF l, t
  <2> QED BY <1>1, <1>2, <1>5, <1>6, PartIs
<1>8. /\ all \in Seq(Id) /\ Len(all) = next - 1
      /\ \A i \in 1 .. l : all[i] = w.ids[i]
      /\ \A i \in l + 1 .. next - 1 : all[i] = old[i]
  <2> HIDE DEF next, more, old
  <2>1. /\ all \in Seq(Id) /\ Len(all) = l + Len(more)
        /\ \A i \in 1 .. l + Len(more) : all[i] = IF i <= l THEN w.ids[i] ELSE more[i - l]
      BY <1>1, <1>7, ConcatProperties, Zenon
  <2> HIDE DEF all
  <2>2. Len(all) = next - 1
      BY <1>1, <1>5, <1>7, <2>1
  <2>3. \A i \in 1 .. l : all[i] = w.ids[i]
      BY <1>1, <1>5, <1>7, <2>1
  <2>4. ASSUME NEW i \in l + 1 .. next - 1
        PROVE  all[i] = old[i]
    <3>1. i \in 1 .. l + Len(more) /\ ~(i <= l) /\ i - l \in 1 .. next - 1 - l /\ l + (i - l) = i
        BY <1>1, <1>5, <1>7
    <3> QED BY <1>7, <2>1, <3>1
  <2> QED BY <2>1, <2>2, <2>3, <2>4
<1> HIDE DEF all, next
<1>9. pc \in {"stream", "switch"}
    OBVIOUS
<1> HIDE DEF pc
<1>10. /\ o \in Works /\ o.was = w.was /\ o.text = w.text /\ o.stamp = w.stamp /\ o.pc = pc
       /\ o.ids = all
    BY <1>8, <1>9 DEF Works
<1>11. Sized(o)
    BY <1>1, <1>5, <1>8, <1>10 DEF Sized, pc
<1> HIDE DEF o
<1>12. Len(w.ids) <= Len(o.ids)
    BY <1>1, <1>5, <1>8, <1>10
<1>13. \A i \in Len(w.ids) + 1 .. Len(o.ids) : Reused(w, i) /\ o.ids[i] = Old(w)[i]
    BY <1>5, <1>8, <1>10
<1>14. \A i \in 1 .. Len(w.ids) : o.ids[i] = w.ids[i]
    BY <1>8, <1>10
<1> QED BY <1>3, <1>9, <1>10, <1>11, <1>12, <1>13, <1>14

-----------------------------------------------------------------------------
(* A note's nodes.                                                         *)

\* What happens to the nodes of a note, and to the whole of it
Shrinks(f) == Active(f)' \subseteq Active(f) /\ \A n \in Active(f)' : node'[n] = node[n]
Same(f) ==
  /\ state'[f] = state[f]
  /\ \A j \in Job : j[1] = f => worker'[j] = worker[j]
  /\ Active(f)' = Active(f)
  /\ \A n \in Active(f) : node'[n] = node[n]
  /\ orphans' \cap Active(f) = orphans \cap Active(f)
Spares ==
  \A f \in File : disk[f].at = "away" /\ Free(f) =>
    state'[f] = state[f] /\ \A n \in Active(f) : node'[n] = node[n]

\* What is a note's is its own.
LEMMA RefsAre ==
  ASSUME NEW f
  PROVE  /\ IdsOf(state[f]) \subseteq Named(f)
         /\ \A j \in Job : j[1] = f => Handled(worker[j]) \subseteq Named(f)
         /\ Active(f) \subseteq Refs(f) /\ Named(f) \subseteq Refs(f)
BY DEF Named, Refs

\* The ids of versions and runs are ids.
LEMMA NamedIs ==
  ASSUME Types, NEW f \in File
  PROVE  Named(f) \subseteq Id /\ Refs(f) \subseteq Id
<1>1. IdsOf(state[f]) \subseteq Id
  <2>1. CASE state[f] = None
      BY <2>1 DEF IdsOf
  <2>2. CASE state[f] # None
    <3>1. state[f].ids \in Seq(Id)
        BY <2>2 DEF Types, Version
    <3> QED BY <2>2, <3>1, RangeIs DEF IdsOf
  <2> QED BY <2>1, <2>2
<1>2. ASSUME NEW j \in Job
      PROVE  Handled(worker[j]) \subseteq Id
  <2>1. CASE worker[j] = Idle
      BY <2>1 DEF Handled
  <2>2. CASE worker[j] # Idle
    <3>1. worker[j] \in Works
        BY <2>2 DEF Types
    <3>2. worker[j].ids \in Seq(Id) /\ Old(worker[j]) \in Seq(Id)
        BY <3>1, OldIs DEF Works
    <3> QED BY <2>2, <3>2, RangeIs DEF Handled
  <2> QED BY <2>1, <2>2
<1> QED BY <1>1, <1>2 DEF Named, Refs, Active

\* Nodes are retired, and nothing else happens to any node.
LEMMA RetireIs ==
  ASSUME Types, NEW R, node' = Retire(R)
  PROVE  /\ node' \in [Id -> Segment \cup {None}]
         /\ \A f : Shrinks(f) /\ Active(f)' = Active(f) \ R
<1>1. node' = [n \in Id |-> IF n \in R THEN None ELSE node[n]]
    BY DEF Retire
<1>2. node' \in [Id -> Segment \cup {None}]
    BY <1>1 DEF Types
<1>3. \A n \in Id : n \notin R => node'[n] = node[n]
    BY <1>1
<1>4. \A n \in Id : n \in R => node'[n] = None
    BY <1>1
<1>5. ASSUME NEW f
      PROVE  Shrinks(f) /\ Active(f)' = Active(f) \ R
  <2>1. Active(f)' = Active(f) \ R
      BY <1>3, <1>4 DEF Active
  <2>2. \A n \in Active(f)' : n \in Id /\ n \notin R
      BY <1>4 DEF Active
  <2> QED BY <1>3, <2>1, <2>2 DEF Shrinks
<1> QED BY <1>2, <1>5

\* What a state or a run refers to is what a note names.
LEMMA ReferredIs ==
  ASSUME NEW n
  PROVE  n \in Referred(state', worker') <=> \E f \in File : n \in Named(f)'
<1> DEFINE states == \E f \in File : state'[f] # None /\ n \in Range(state'[f].ids)
           runs == \E j \in Job : worker'[j] # Idle
                                  /\ n \in Range(worker'[j].ids) \cup Range(Old(worker'[j]))
<1>0. n \in Referred(state', worker') <=> states \/ runs
  <2>1. \A s, v : n \in Referred(s, v) <=>
          \/ \E f \in File : s[f] # None /\ n \in Range(s[f].ids)
          \/ \E j \in Job : v[j] # Idle /\ n \in Range(v[j].ids) \cup Range(Old(v[j]))
    <3> TAKE s, v
    <3> DEFINE a(f) == Range(s[f].ids)
               b(j) == Range(v[j].ids) \cup Range(Old(v[j]))
               A == {g \in File : s[g] # None}
               B == {k \in Job : v[k] # Idle}
               UA == UNION {a(f) : f \in A}
               UB == UNION {b(j) : j \in B}
    <3>1. Referred(s, v) = UA \cup UB
        BY DEF Referred
    <3>2. \A f : f \in A <=> f \in File /\ s[f] # None
        OBVIOUS
    <3>3. \A j : j \in B <=> j \in Job /\ v[j] # Idle
        OBVIOUS
    <3> HIDE DEF a, b, A, B
    <3>4. n \in UA <=> \E f \in A : n \in a(f)
        OBVIOUS
    <3>5. n \in UB <=> \E j \in B : n \in b(j)
        OBVIOUS
    <3> HIDE DEF UA, UB
    <3>6. n \in Referred(s, v) <=> (\E f \in A : n \in a(f)) \/ (\E j \in B : n \in b(j))
        BY <3>1, <3>4, <3>5
    <3> QED BY <3>2, <3>3, <3>6 DEF a, b
  <2> QED BY <2>1
<1>1. ASSUME n \in Referred(state', worker')
      PROVE  \E f \in File : n \in Named(f)'
  <2>1. CASE states
    <3>1. PICK f \in File : state'[f] # None /\ n \in Range(state'[f].ids)
        BY <2>1
    <3> QED BY <3>1 DEF Named, IdsOf
  <2>2. CASE runs
    <3>1. PICK j \in Job : worker'[j] # Idle /\ n \in Range(worker'[j].ids) \cup Range(Old(worker'[j]))
        BY <2>2
    <3>2. n \in Handled(worker[j])' /\ j[1] \in File
        BY <3>1 DEF Handled, Job
    <3> QED BY <3>2 DEF Named
  <2> QED BY <1>0, <1>1, <2>1, <2>2
<1>2. ASSUME NEW f \in File, n \in Named(f)'
      PROVE  n \in Referred(state', worker')
  <2>1. CASE n \in IdsOf(state[f])'
    <3>1. state'[f] # None /\ n \in Range(state'[f].ids)
        BY <2>1 DEF IdsOf
    <3> QED BY <3>1, <1>0
  <2>2. CASE \E j \in Job : n \in Handled(worker[j])'
    <3>1. PICK j \in Job : n \in Handled(worker[j])'
        BY <2>2
    <3>2. worker'[j] # Idle /\ n \in Range(worker'[j].ids) \cup Range(Old(worker'[j]))
        BY <3>1 DEF Handled
    <3> QED BY <3>2, <1>0
  <2> QED BY <1>2, <2>1, <2>2 DEF Named
<1> QED BY <1>1, <1>2

\* Of the nodes left behind, a note loses those that it no longer names.
LEMMA LeaveIs ==
  ASSUME Types, Apart, NEW S, LeaveBehind(S), \A g \in File : Named(g)' \subseteq Refs(g)
  PROVE  /\ node' \in [Id -> Segment \cup {None}]
         /\ \A f \in File : Shrinks(f) /\ Active(f)' = Active(f) \ (S \ Named(f)')
<1> DEFINE left == {n \in S \ Referred(state', worker') : node[n] # None}
<1>1. node' = Retire(left)
    BY DEF LeaveBehind
<1>2. \A n : n \in left <=> n \in S /\ n \notin Referred(state', worker') /\ node[n] # None
    OBVIOUS
<1> HIDE DEF left
<1>3. /\ node' \in [Id -> Segment \cup {None}]
      /\ \A f : Shrinks(f) /\ Active(f)' = Active(f) \ left
    BY <1>1, RetireIs
<1>4. ASSUME NEW f \in File, NEW n \in Active(f)
      PROVE  n \in left <=> n \in S \ Named(f)'
  <2>1. n \in Refs(f) /\ node[n] # None
      BY RefsAre DEF Active
  <2>2. n \in Referred(state', worker') <=> n \in Named(f)'
    <3>1. \A g \in File : n \in Named(g)' => g = f
        BY <2>1 DEF Apart
    <3> QED BY <3>1, ReferredIs
  <2> QED BY <1>2, <2>1, <2>2
<1> QED BY <1>3, <1>4

\* Nodes do not change hands while each note only loses nodes and what it
\* names was its own.
LEMMA ApartKept ==
  ASSUME Apart, \A f \in File : Shrinks(f) /\ Named(f)' \subseteq Refs(f)
  PROVE  Apart'
<1>1. \A f \in File : Refs(f)' \subseteq Refs(f)
    BY RefsAre DEF Shrinks, Refs
<1> QED BY <1>1 DEF Apart

\* A version that is whole stays so while its nodes stay.
LEMMA WholeKept ==
  ASSUME Types, NEW f \in File, Whole(f), state'[f] = state[f],
         \A n \in Active(f) \cap IdsOf(state[f]) : node'[n] = node[n]
  PROVE  Whole(f)' /\ (state[f] # None => \A i \in DOMAIN state[f].text : state[f].ids[i] \in Active(f))
<1> SUFFICES ASSUME state[f] # None
             PROVE  /\ Distinct(state'[f].ids) /\ Tells(f, state[f].text, state[f].ids)'
                    /\ \A i \in DOMAIN state[f].text : state[f].ids[i] \in Active(f)
    BY DEF Whole, Tells
<1> DEFINE v == state[f]
<1>1. v.ids \in Seq(Id) /\ v.text \in Seq(Nat)
    BY DEF Types, Version
<1>2. Distinct(v.ids) /\ Tells(f, v.text, v.ids)
    BY DEF Whole
<1>3. ASSUME NEW i \in DOMAIN v.text
      PROVE  i \in DOMAIN v.ids /\ v.ids[i] \in Active(f) /\ node'[v.ids[i]] = [file |-> f, what |-> v.text[i]]
  <2>1. i \in DOMAIN v.ids /\ node[v.ids[i]] = [file |-> f, what |-> v.text[i]]
      BY <1>2, <1>3 DEF Tells
  <2>2. v.ids[i] \in Id /\ v.ids[i] \in Range(v.ids) /\ v.text[i] \in Nat
      BY <1>1, <1>3, <2>1, RangeIs
  <2>3. [file |-> f, what |-> v.text[i]] # None /\ [file |-> f, what |-> v.text[i]].file = f
      BY <2>2, Kinds DEF Segment
  <2>4. v.ids[i] \in Active(f)
      BY <2>1, <2>2, <2>3 DEF Active
  <2>5. v.ids[i] \in IdsOf(v)
      BY <2>2 DEF IdsOf
  <2> QED BY <2>1, <2>4, <2>5
<1> QED BY <1>2, <1>3 DEF Tells

\* The nodes a run has are its note's.
LEMMA HandIs ==
  ASSUME NEW f \in File, NEW w \in Works, Sized(w), InHand(f, w)
  PROVE  Range(w.ids) \subseteq Active(f)
<1>1. ASSUME NEW i \in DOMAIN w.ids
      PROVE  w.ids[i] \in Active(f)
  <2>1. /\ w.ids \in Seq(Id) /\ w.text \in Seq(Nat) /\ Len(w.ids) <= Len(w.text)
        /\ w.ids[i] \in Id
      BY RangeIs DEF Works, Sized
  <2>2. w.text[i] \in Nat
      BY <1>1, <2>1
  <2>3. [file |-> f, what |-> w.text[i]] # None /\ [file |-> f, what |-> w.text[i]].file = f
      BY <2>2, Kinds DEF Segment
  <2>4. node[w.ids[i]] = [file |-> f, what |-> w.text[i]]
      BY DEF InHand
  <2> QED BY <2>1, <2>3, <2>4 DEF Active
<1> QED BY <1>1, PlaceIs

\* A note stays in hand while its nodes stay.
LEMMA HandKept ==
  ASSUME NEW f \in File, NEW w \in Works, Sized(w), InHand(f, w), state'[f] = state[f],
         Active(f)' = Active(f), \A n \in Active(f) : node'[n] = node[n], Whole(f) => Whole(f)'
  PROVE  InHand(f, w)'
<1>1. \A i \in DOMAIN w.ids : node'[w.ids[i]] = node[w.ids[i]]
    BY HandIs, PlaceIs
<1>2. Replaced(w)' = Replaced(w) /\ Old(w)' = Old(w) /\ IdsOf(state[f])' = IdsOf(state[f])
    BY DEF Replaced, Old, IdsOf
<1> QED BY <1>1, <1>2 DEF InHand

\* A note that a step leaves alone.
LEMMA SameIs ==
  ASSUME Types, NEW f \in File, Same(f), spoiled \subseteq spoiled', FileOK(f)
  PROVE  FileOK(f)' /\ Named(f)' = Named(f) /\ Shrinks(f)
<1>1. /\ state'[f] = state[f] /\ \A j \in Job : j[1] = f => worker'[j] = worker[j]
      /\ Active(f)' = Active(f) /\ \A n \in Active(f) : node'[n] = node[n]
      /\ orphans' \cap Active(f) = orphans \cap Active(f)
    BY DEF Same
<1>2. Named(f)' = Named(f)
    BY <1>1 DEF Named, Handled, IdsOf
<1>3. Shrinks(f)
    BY <1>1 DEF Shrinks
<1>4. Whole(f) => Whole(f)'
    BY <1>1, WholeKept
<1>5. FileOK(f)'
  <2> SUFFICES ASSUME f \notin spoiled'
               PROVE  \/ Orphaned(f)'
                      \/ /\ (orphans \cap Active(f) = {})'
                         /\ \/ (NoRun(f) /\ Remembered(f))'
                            \/ \E j \in Job : Alone(f, j)' /\ InHand(f, worker[j])'
      BY DEF FileOK
  <2>0. NoRun(f) => NoRun(f)'
      BY <1>1 DEF NoRun
  <2>1. CASE Orphaned(f)
      BY <1>1, <2>0, <2>1 DEF Orphaned
  <2>2. CASE orphans \cap Active(f) = {} /\ NoRun(f) /\ Remembered(f)
      BY <1>1, <1>4, <2>0, <2>2 DEF Remembered, IdsOf
  <2>3. CASE orphans \cap Active(f) = {} /\ \E j \in Job : Alone(f, j) /\ InHand(f, worker[j])
    <3>1. PICK j \in Job : Alone(f, j) /\ InHand(f, worker[j])
        BY <2>3
    <3>2. PICK w : w = worker[j]
        OBVIOUS
    <3>3. Alone(f, j)' /\ worker'[j] = w
        BY <1>1, <3>1, <3>2 DEF Alone
    <3>4. w \in Works /\ Sized(w)
        BY <3>1, <3>2 DEF Types, Alone
    <3>5. InHand(f, w)'
        BY <1>1, <1>4, <3>1, <3>2, <3>4, HandKept
    <3>6. InHand(f, worker[j])'
        BY <3>3, <3>5 DEF InHand
    <3> QED BY <1>1, <2>3, <3>3, <3>6
  <2> QED BY <2>1, <2>2, <2>3 DEF FileOK
<1> QED BY <1>2, <1>3, <1>5

\* A note that a run has let go of, with the version it had.
LEMMA RestsIs ==
  ASSUME Types, NEW f \in File, Whole(f), state'[f] = state[f], NoRun(f)', Shrinks(f),
         Active(f)' = IdsOf(state[f]), orphans' \cap Active(f)' = {}
  PROVE  FileOK(f)'
<1>1. \A n \in Active(f) \cap IdsOf(state[f]) : node'[n] = node[n]
    BY DEF Shrinks
<1>2. Whole(f)'
    BY <1>1, WholeKept
<1>3. Active(f)' = IdsOf(state[f])'
    BY DEF IdsOf
<1> QED BY <1>2, <1>3 DEF FileOK, Remembered

\* A step on one note.
LEMMA OneNote ==
  ASSUME IInv, Types', NEW f \in File, spoiled \subseteq spoiled',
         \A g \in File : g # f => Same(g),
         Shrinks(f), Named(f)' \subseteq Refs(f), FileOK(f)',
         disk[f].at = "away" => ~Free(f)
  PROVE  Core' /\ Spares
<1>1. \A g \in File : g # f => FileOK(g)' /\ Named(g)' \subseteq Refs(g) /\ Shrinks(g)
    BY SameIs, RefsAre DEF IInv, Core
<1>2. Apart'
    BY <1>1, ApartKept DEF IInv, Core
<1>3. Spares
    BY DEF Spares, Same
<1> QED BY <1>1, <1>2, <1>3 DEF IInv, Core

-----------------------------------------------------------------------------
(* The steps of a run.                                                     *)

\* Jobs end, or a run is as far as it can be.
LEMMA JobTypes ==
  ASSUME Types, disk' = disk, state' \in [File -> Version \cup {None}],
         node' \in [Id -> Segment \cup {None}], worker' \in [Job -> Works \cup {Idle}],
         \A k \in Job : worker'[k] = worker[k] \/ worker'[k] = Idle \/ Sized(worker'[k])
  PROVE  Types'
<1>1. \A k \in Job : worker'[k] # Idle => Sized(worker'[k])
    BY DEF Types
<1> QED BY <1>1 DEF Types

\* Of the one run of a note that is not spoiled.
LEMMA OneRun ==
  ASSUME IInv, NEW j \in Job, worker[j] # Idle, j[1] \notin spoiled
  PROVE  /\ Alone(j[1], j) /\ InHand(j[1], worker[j]) /\ orphans \cap Active(j[1]) = {}
<1>1. j[1] \in File
    BY DEF Job
<1> QED BY <1>1 DEF IInv, Core, FileOK, Orphaned, NoRun, Alone

\* Of a note at rest that is not spoiled.
LEMMA FreeIs ==
  ASSUME IInv, NEW f \in File, Free(f), f \notin spoiled
  PROVE  Remembered(f)
<1>1. orphans \cap Active(f) = {} /\ \A j \in Job : j[1] = f => worker[j] = Idle
    BY DEF Free
<1>2. CASE Orphaned(f)
  <2>1. state[f] = None /\ Active(f) = {}
      BY <1>1, <1>2 DEF Orphaned
  <2> QED BY <2>1 DEF Remembered, Whole, IdsOf
<1> QED BY <1>1, <1>2 DEF IInv, Core, FileOK, Alone

\* A step that changes one note only takes nodes from this note.
LEMMA LosesIs ==
  ASSUME Types, Apart, NEW f \in File, NEW S, S \subseteq Refs(f), Named(f)' \subseteq Refs(f),
         \A g \in File : g # f => state'[g] = state[g],
         \A k \in Job : k[1] # f => worker'[k] = worker[k], orphans' = orphans,
         LeaveBehind(S) \/ node' = Retire(S)
  PROVE  /\ node' \in [Id -> Segment \cup {None}]
         /\ \A g \in File : g # f => Same(g)
         /\ Shrinks(f)
         /\ LeaveBehind(S) => Active(f)' = Active(f) \ (S \ Named(f)')
         /\ node' = Retire(S) => Active(f)' = Active(f) \ S
<1>1. \A g \in File : g # f => Named(g)' = Named(g)
    BY DEF Named, Handled, IdsOf
<1>2. \A g \in File : Named(g)' \subseteq Refs(g)
    BY <1>1, RefsAre
<1>3. ASSUME NEW g \in File, g # f, Shrinks(g), Active(g) \ S \subseteq Active(g)'
      PROVE  Same(g)
  <2>1. Active(g) \cap S = {}
      BY <1>3, RefsAre DEF Apart
  <2>2. Active(g)' = Active(g)
      BY <1>3, <2>1 DEF Shrinks
  <2> QED BY <1>3, <2>2 DEF Same, Shrinks
<1>4. CASE LeaveBehind(S)
  <2>1. /\ node' \in [Id -> Segment \cup {None}]
        /\ \A g \in File : Shrinks(g) /\ Active(g)' = Active(g) \ (S \ Named(g)')
      BY <1>2, <1>4, LeaveIs
  <2>2. \A g \in File : g # f => Same(g)
      BY <1>3, <2>1
  <2>3. node' = Retire(S) => Active(f)' = Active(f) \ S
      BY RetireIs
  <2> QED BY <2>1, <2>2, <2>3
<1>5. CASE node' = Retire(S)
  <2>1. /\ node' \in [Id -> Segment \cup {None}]
        /\ \A g \in File : Shrinks(g) /\ Active(g)' = Active(g) \ S
      BY <1>5, RetireIs
  <2>2. \A g \in File : g # f => Same(g)
      BY <1>3, <2>1
  <2>3. LeaveBehind(S) => Active(f)' = Active(f) \ (S \ Named(f)')
      BY <1>2, LeaveIs
  <2> QED BY <2>1, <2>2, <2>3
<1> QED BY <1>4, <1>5

\* What a run refers to is its note's.
LEMMA HandledIs ==
  ASSUME Types, NEW j \in Job, worker[j] # Idle
  PROVE  /\ worker[j] \in Works /\ Sized(worker[j]) /\ j[1] \in File
         /\ Range(worker[j].ids) \subseteq Refs(j[1])
         /\ Range(Old(worker[j])) \subseteq Refs(j[1])
         /\ Created(worker[j]) \subseteq Refs(j[1])
         /\ ~Free(j[1])
<1>1. Handled(worker[j]) \subseteq Refs(j[1])
    BY RefsAre
<1> QED BY <1>1 DEF Types, Handled, Created, Job, Free

\* A run ends, and what its note names is still the note's.
LEMMA EndsIs ==
  ASSUME Types, NEW j \in Job, worker[j] # Idle, worker' = [worker EXCEPT ![j] = Idle],
         IdsOf(state'[j[1]]) \subseteq Refs(j[1])
  PROVE  /\ \A k \in Job : k[1] # j[1] => worker'[k] = worker[k]
         /\ Named(j[1])' \subseteq Refs(j[1])
         /\ Alone(j[1], j) => NoRun(j[1])' /\ Named(j[1])' = IdsOf(state'[j[1]])
<1>1. \A k \in Job : worker'[k] = IF k = j THEN Idle ELSE worker[k]
    BY DEF Types
<1>2. Named(j[1])' \subseteq Refs(j[1])
  <2>1. \A k \in Job : Handled(worker'[k]) = {} \/ worker'[k] = worker[k]
      BY <1>1 DEF Handled
  <2>2. Named(j[1])' = IdsOf(state'[j[1]]) \cup UNION {Handled(worker'[k]) : k \in {i \in Job : i[1] = j[1]}}
      BY DEF Named, Handled, IdsOf
  <2>3. \A k \in Job : k[1] = j[1] => Handled(worker'[k]) \subseteq Refs(j[1])
      BY <2>1, RefsAre
  <2> QED BY <2>2, <2>3
<1>3. ASSUME Alone(j[1], j)
      PROVE  NoRun(j[1])' /\ Named(j[1])' = IdsOf(state'[j[1]])
  <2>1. \A k \in Job : k[1] = j[1] => worker'[k] = Idle
      BY <1>1, <1>3 DEF Alone
  <2>2. NoRun(j[1])'
      BY <2>1 DEF NoRun
  <2>3. \A k \in Job : k[1] = j[1] => Handled(worker'[k]) = {}
      BY <2>1 DEF Handled
  <2>4. Named(j[1])' = IdsOf(state'[j[1]]) \cup UNION {Handled(worker'[k]) : k \in {i \in Job : i[1] = j[1]}}
      BY DEF Named, Handled, IdsOf
  <2> QED BY <2>2, <2>3, <2>4
<1> QED BY <1>1, <1>2, <1>3

\* What a run writes is a version.
LEMMA WrittenIs ==
  ASSUME NEW w \in Works, NEW f
  PROVE  /\ Written(f, w) \in Version /\ Written(f, w) # None
         /\ Written(f, w).ids = w.ids /\ Written(f, w).text = w.text
         /\ IdsOf(Written(f, w)) = Range(w.ids)
<1>1. Written(f, w) \in Version
    BY DEF Written, Works, Version
<1>2. Written(f, w) # None
    BY <1>1, Kinds
<1> QED BY <1>1, <1>2 DEF Written, IdsOf

\* What a run created, nobody refers to once it is over.
LEMMA NotReferred ==
  ASSUME IInv, NEW j \in Job, worker[j] # Idle, j[1] \notin spoiled,
         worker' = [worker EXCEPT ![j] = Idle], state' = state
  PROVE  \A n \in Created(worker[j]) : n \notin Referred(state', worker')
<1> SUFFICES ASSUME NEW n \in Created(worker[j]), n \in Referred(state', worker')
             PROVE  FALSE
    OBVIOUS
<1> DEFINE f == j[1]
           w == worker[j]
<1>1. /\ Types /\ Apart /\ w \in Works /\ f \in File /\ Created(w) \subseteq Refs(f)
    BY HandledIs DEF IInv, Core
<1>2. PICK g \in File : n \in Named(g)'
    BY ReferredIs
<1>3. \A k \in Job : worker'[k] = IF k = j THEN Idle ELSE worker[k]
    BY <1>1 DEF Types
<1>4. Named(g)' \subseteq Refs(g)
  <2>1. \A k \in Job : Handled(worker'[k]) = {} \/ worker'[k] = worker[k]
      BY <1>3 DEF Handled
  <2>2. Named(g)' = IdsOf(state[g]) \cup UNION {Handled(worker'[k]) : k \in {i \in Job : i[1] = g}}
      BY DEF Named, Handled, IdsOf
  <2>3. \A k \in Job : k[1] = g => Handled(worker'[k]) \subseteq Refs(g)
      BY <2>1, RefsAre
  <2> QED BY <2>2, <2>3, RefsAre
<1>5. g = f
    BY <1>1, <1>2, <1>4 DEF Apart
<1>6. Alone(f, j) /\ w.was = state[f]
    BY OneRun DEF InHand
<1>7. Named(f)' = IdsOf(state[f])
  <2>1. IdsOf(state'[f]) \subseteq Refs(f)
      BY RefsAre
  <2> QED BY <1>1, <1>6, <2>1, EndsIs
<1>8. n \in Range(Old(w))
    BY <1>1, <1>2, <1>5, <1>6, <1>7, OldIs
<1> QED BY <1>8 DEF Created

\* While a run has not torn the old version, that is whole beside the new nodes.
LEMMA NotTorn ==
  ASSUME Types, Apart, NEW f \in File, NEW w \in Works, Sized(w), InHand(f, w), ~Torn(w),
         Range(Old(w)) \subseteq Refs(f), Range(Old(w)) = IdsOf(state[f])
  PROVE  Whole(f) /\ Active(f) \ Created(w) = IdsOf(state[f])
<1>1. w.ids \in Seq(Id) /\ Old(w) \in Seq(Id) /\ Range(w.ids) \subseteq Active(f)
    BY OldIs, HandIs DEF Works
<1>2. \A n : n \in Replaced(w) <=>
        \E k \in DOMAIN Old(w) : n = Old(w)[k] /\ (k > Len(w.ids) \/ Old(w)[k] # w.ids[k])
    BY DEF Replaced
<1>3. Replaced(w) \subseteq Range(Old(w))
    BY <1>2, PlaceIs
<1>4. CASE w.pc \in {"stream", "embed"}
  <2>1. Whole(f) /\ Active(f) = IdsOf(state[f]) \cup Range(w.ids)
      BY <1>4 DEF InHand
  <2> QED BY <2>1 DEF Created
<1>5. CASE w.pc \in {"switch", "tags"}
  <2>1. Replaced(w) \subseteq Active(f)
    <3>1. ASSUME NEW n \in Replaced(w)
          PROVE  n \in Active(f)
      <4>1. n \in Refs(f) /\ n \in Id /\ node[n] # None
          BY <1>3, <1>5, <3>1, NamedIs DEF Torn, Left
      <4>2. node[n] \in Segment
          BY <4>1 DEF Types
      <4>3. PICK g \in File : g = node[n].file
          BY <4>2 DEF Segment
      <4>4. n \in Refs(g)
          BY <4>1, <4>3, RefsAre DEF Active
      <4>5. g = f
          BY <4>1, <4>4 DEF Apart
      <4> QED BY <4>1, <4>3, <4>5 DEF Active
    <3> QED BY <3>1
  <2>2. Whole(f) /\ Active(f) \subseteq Range(w.ids) \cup Replaced(w)
      BY <1>5, <2>1 DEF InHand
  <2>3. ASSUME NEW n \in Range(Old(w))
        PROVE  n \in Active(f)
    <3>1. PICK k \in DOMAIN Old(w) : n = Old(w)[k]
        BY <2>3, PlaceIs
    <3>2. CASE k > Len(w.ids) \/ Old(w)[k] # w.ids[k]
        BY <1>2, <2>1, <3>1, <3>2
    <3>3. CASE k <= Len(w.ids) /\ Old(w)[k] = w.ids[k]
      <4>1. k \in DOMAIN w.ids
          BY <1>1, <3>3
      <4> QED BY <1>1, <3>1, <3>3, <4>1, PlaceIs
    <3>4. k \in Nat /\ Len(w.ids) \in Nat
        BY <1>1, <3>1
    <3> QED BY <3>2, <3>3, <3>4
  <2> QED BY <1>3, <2>2, <2>3 DEF Created
<1> QED BY <1>4, <1>5 DEF Works

\* A run ends without a new version: its nodes go, the old version's stay.
LEMMA RunEnds ==
  ASSUME IInv, NEW j \in Job, worker[j] # Idle, worker' = [worker EXCEPT ![j] = Idle],
         disk' = disk, state' = state, orphans' = orphans, spoiled \subseteq spoiled',
         NEW R, R \subseteq Created(worker[j]), node' = Retire(R),
         j[1] \notin spoiled => \A n \in Created(worker[j]) : n \in R \/ node[n] = None,
         j[1] \notin spoiled' => ~Torn(worker[j])
  PROVE  Core' /\ Spares
<1> DEFINE f == j[1]
           w == worker[j]
<1>1. /\ Types /\ Apart /\ w \in Works /\ Sized(w) /\ f \in File
      /\ Created(w) \subseteq Refs(f) /\ Range(Old(w)) \subseteq Refs(f) /\ ~Free(f)
    BY HandledIs DEF IInv, Core
<1>2. /\ \A k \in Job : k[1] # f => worker'[k] = worker[k]
      /\ Named(f)' \subseteq Refs(f)
      /\ Alone(f, j) => NoRun(f)' /\ Named(f)' = IdsOf(state[f])
  <2>1. IdsOf(state'[f]) \subseteq Refs(f)
      BY <1>1, RefsAre
  <2> QED BY <1>1, <2>1, EndsIs
<1>3. /\ node' \in [Id -> Segment \cup {None}]
      /\ \A g \in File : g # f => Same(g)
      /\ Shrinks(f)
      /\ Active(f)' = Active(f) \ R
  <2>1. R \subseteq Refs(f)
      BY <1>1
  <2> HIDE DEF f
  <2> QED BY <1>1, <1>2, <2>1, LosesIs
<1>4. Types'
  <2>1. state' \in [File -> Version \cup {None}]
      BY <1>1 DEF Types
  <2>2. /\ worker' \in [Job -> Works \cup {Idle}]
        /\ \A k \in Job : worker'[k] = worker[k] \/ worker'[k] = Idle
      BY <1>1 DEF Types
  <2> QED BY <1>1, <1>3, <2>1, <2>2, JobTypes
<1>5. FileOK(f)'
  <2> SUFFICES ASSUME f \notin spoiled'
               PROVE  FileOK(f)'
      BY DEF FileOK
  <2>1. Alone(f, j) /\ InHand(f, w) /\ orphans \cap Active(f) = {} /\ ~Torn(w) /\ f \notin spoiled
      BY OneRun
  <2>2. w.was = state[f] /\ Range(Old(w)) = IdsOf(state[f])
      BY <1>1, <2>1, OldIs DEF InHand
  <2>3. Active(f) \ R = Active(f) \ Created(w)
      BY <2>1 DEF Active
  <2>4. /\ Whole(f)
        /\ Active(f) \ Created(w) = IdsOf(state[f])
      BY <1>1, <2>1, <2>2, NotTorn
  <2>5. Active(f)' = IdsOf(state[f])
      BY <1>3, <2>3, <2>4
  <2>6. NoRun(f)' /\ state'[f] = state[f] /\ orphans' \cap Active(f)' = {}
      BY <1>2, <1>3, <2>1
  <2> HIDE DEF f
  <2> QED BY <1>1, <1>3, <2>4, <2>5, <2>6, RestsIs
<1> HIDE DEF f
<1> QED BY <1>1, <1>2, <1>3, <1>4, <1>5, OneNote

\* A run ends with the new version.
LEMMA RunWrites ==
  ASSUME IInv, NEW j \in Job, worker[j] # Idle, worker' = [worker EXCEPT ![j] = Idle],
         disk' = disk, spoiled' = spoiled, orphans' = orphans,
         state' = [state EXCEPT ![j[1]] = Written(j[1], worker[j])],
         NEW S, S \subseteq Refs(j[1]), LeaveBehind(S), worker[j].pc = "tags",
         j[1] \notin spoiled => /\ Active(j[1]) \ S \subseteq Range(worker[j].ids)
                                /\ Range(worker[j].ids) \subseteq Active(j[1])
  PROVE  Core' /\ Spares
<1> DEFINE f == j[1]
<1>0. PICK w : w = worker[j]
    OBVIOUS
<1>1. /\ Types /\ Apart /\ w \in Works /\ Sized(w) /\ f \in File
      /\ Range(w.ids) \subseteq Refs(f) /\ Range(Old(w)) \subseteq Refs(f) /\ ~Free(f)
    BY <1>0, HandledIs DEF IInv, Core
<1>v. PICK v : v = Written(f, w)
    OBVIOUS
<1>2. v \in Version /\ v # None /\ v.ids = w.ids /\ v.text = w.text /\ IdsOf(v) = Range(w.ids)
    BY <1>1, <1>v, WrittenIs
<1>3. state' \in [File -> Version \cup {None}] /\ state'[f] = v /\ \A g \in File : g # f => state'[g] = state[g]
    BY <1>0, <1>1, <1>2, <1>v DEF Types
<1>4. /\ \A k \in Job : k[1] # f => worker'[k] = worker[k]
      /\ Named(f)' \subseteq Refs(f)
      /\ Alone(f, j) => NoRun(f)' /\ Named(f)' = IdsOf(v)
  <2>1. IdsOf(state'[f]) \subseteq Refs(f)
      BY <1>1, <1>2, <1>3
  <2> QED BY <1>0, <1>1, <1>3, <2>1, EndsIs
<1>5. /\ node' \in [Id -> Segment \cup {None}]
      /\ \A g \in File : g # f => Same(g)
      /\ Shrinks(f)
      /\ Active(f)' = Active(f) \ (S \ Named(f)')
  <2>1. S \subseteq Refs(f) /\ LeaveBehind(S)
      OBVIOUS
  <2> HIDE DEF f
  <2> QED BY <1>1, <1>3, <1>4, <2>1, LosesIs
<1>6. Types'
  <2>1. /\ worker' \in [Job -> Works \cup {Idle}]
        /\ \A k \in Job : worker'[k] = worker[k] \/ worker'[k] = Idle
      BY <1>1 DEF Types
  <2> QED BY <1>1, <1>3, <1>5, <2>1, JobTypes
<1>7. FileOK(f)'
  <2> SUFFICES ASSUME f \notin spoiled
               PROVE  FileOK(f)'
      BY DEF FileOK
  <2>1. Alone(f, j) /\ InHand(f, w) /\ orphans \cap Active(f) = {}
      BY <1>0, OneRun
  <2>2. Active(f)' = IdsOf(v)
    <3>1. Active(f) \ S \subseteq Range(w.ids) /\ Range(w.ids) \subseteq Active(f)
        BY <1>0
    <3>2. Active(f)' = Active(f) \ (S \ IdsOf(v))
        BY <1>4, <1>5, <2>1
    <3> HIDE DEF f
    <3> QED BY <1>2, <3>1, <3>2
  <2>3. Distinct(v.ids) /\ Tells(f, v.text, v.ids)'
    <3>1. Distinct(v.ids)
        BY <1>2, <2>1 DEF InHand
    <3>2. ASSUME NEW i \in DOMAIN v.text
          PROVE  i \in DOMAIN v.ids /\ node'[v.ids[i]] = [file |-> f, what |-> v.text[i]]
      <4>1. w.pc = "tags"
          BY <1>0
      <4>2. i \in DOMAIN w.ids
          BY <1>1, <1>2, <3>2, <4>1 DEF Sized, Works
      <4>3. node[w.ids[i]] = [file |-> f, what |-> w.text[i]]
          BY <2>1, <4>2 DEF InHand
      <4>4. w.ids[i] \in Range(w.ids)
          BY <1>1, <4>2, RangeIs DEF Works
      <4>5. w.ids[i] \in Active(f)'
          BY <1>2, <2>2, <4>4
      <4> QED BY <1>2, <1>5, <4>2, <4>3, <4>5 DEF Shrinks
    <3> HIDE DEF f
    <3> QED BY <3>1, <3>2 DEF Tells
  <2>4. Whole(f)'
      BY <1>3, <2>3 DEF Whole, Tells
  <2>5. Remembered(f)'
      BY <1>3, <2>2, <2>4 DEF Remembered, IdsOf
  <2>6. (orphans \cap Active(f) = {})'
      BY <1>5, <2>1
  <2> QED BY <1>4, <2>1, <2>5, <2>6 DEF FileOK
<1> HIDE DEF f
<1> QED BY <1>1, <1>4, <1>5, <1>6, <1>7, OneNote

\* A run that notices the stop leaves behind what it created.
LEMMA StopsIs ==
  ASSUME IInv, NEW j \in Job, worker[j] # Idle, worker' = [worker EXCEPT ![j] = Idle],
         disk' = disk, state' = state, orphans' = orphans, spoiled \subseteq spoiled',
         LeaveBehind(Created(worker[j])), j[1] \notin spoiled' => ~Torn(worker[j])
  PROVE  Core' /\ Spares
<1>1. PICK R : R = {n \in Created(worker[j]) \ Referred(state', worker') : node[n] # None}
    OBVIOUS
<1>2. node' = Retire(R) /\ R \subseteq Created(worker[j])
    BY <1>1 DEF LeaveBehind
<1>3. j[1] \notin spoiled => \A n \in Created(worker[j]) : n \in R \/ node[n] = None
    BY <1>1, NotReferred
<1> QED BY <1>2, <1>3, RunEnds

\* The last step of a run: the state is written, or the stop is noticed.
LEMMA WriteStateOK ==
  ASSUME IInv, NEW j \in Job, WriteState(j)
  PROVE  Core' /\ Spares
<1> DEFINE f == j[1]
<1>0. PICK w : w = worker[j]
    OBVIOUS
<1>1. /\ worker[j] # Idle /\ w.pc = "tags"
      /\ worker' = [worker EXCEPT ![j] = Idle]
      /\ disk' = disk /\ orphans' = orphans
    BY <1>0 DEF WriteState, Resumes, sync
<1>2. \/ /\ state' = state /\ LeaveBehind(Created(w))
         /\ spoiled' = IF Torn(w) THEN spoiled \cup {f} ELSE spoiled
      \/ /\ state' = [state EXCEPT ![f] = Written(f, w)]
         /\ LeaveBehind(IF f \in spoiled THEN Active(f) ELSE {})
         /\ spoiled' = spoiled
    BY <1>0 DEF WriteState
<1>3. CASE /\ state' = state /\ LeaveBehind(Created(w))
           /\ spoiled' = IF Torn(w) THEN spoiled \cup {f} ELSE spoiled
  <2>1. spoiled \subseteq spoiled' /\ (f \notin spoiled' => ~Torn(worker[j]))
      BY <1>0, <1>3
  <2> HIDE DEF f
  <2> QED BY <1>0, <1>1, <1>3, <2>1, StopsIs DEF f
<1>4. CASE /\ state' = [state EXCEPT ![f] = Written(f, w)]
           /\ LeaveBehind(IF f \in spoiled THEN Active(f) ELSE {})
           /\ spoiled' = spoiled
  <2>1. PICK S : S = IF f \in spoiled THEN Active(f) ELSE {}
      OBVIOUS
  <2>2. state' = [state EXCEPT ![j[1]] = Written(j[1], worker[j])] /\ LeaveBehind(S) /\ spoiled' = spoiled
      BY <1>0, <1>4, <2>1
  <2>3. S \subseteq Refs(f)
      BY <2>1, RefsAre
  <2>4. f \notin spoiled => /\ Active(f) \ S \subseteq Range(worker[j].ids)
                           /\ Range(worker[j].ids) \subseteq Active(f)
    <3> SUFFICES ASSUME f \notin spoiled
                 PROVE  Active(f) \ S \subseteq Range(w.ids) /\ Range(w.ids) \subseteq Active(f)
        BY <1>0
    <3>1. InHand(f, w) /\ w \in Works /\ Sized(w) /\ f \in File
        BY <1>0, <1>1, OneRun, HandledIs DEF IInv, Core
    <3>2. /\ Active(f) \subseteq Range(w.ids) \cup Replaced(w)
          /\ Active(f) \cap Replaced(w) = {}
        BY <1>1, <3>1 DEF InHand
    <3>3. Range(w.ids) \subseteq Active(f)
        BY <3>1, HandIs
    <3> QED BY <3>2, <3>3
  <2>5. worker[j].pc = "tags"
      BY <1>0, <1>1
  <2> QED BY <1>1, <2>2, <2>3, <2>4, <2>5, RunWrites
<1> QED BY <1>2, <1>3, <1>4

\* A run fails: what it recorded is retired, as far as that does not fail as
\* well, and the rest is left behind.
LEMMA FailsOK ==
  ASSUME IInv, NEW j \in Job, Fails(j)
  PROVE  Core' /\ Spares
<1> DEFINE f == j[1]
           w == worker[j]
           recorded == IF w.pc = "embed" THEN Front(w.ids) ELSE w.ids
           gone(k) == Range(SubSeq(recorded, 1, k)) \ Range(Old(w))
           left(k) == {n \in (Created(w) \ gone(k)) \ Referred(state', worker') : node[n] # None}
<1>1. /\ worker[j] # Idle
      /\ worker' = [worker EXCEPT ![j] = Idle]
      /\ disk' = disk /\ state' = state /\ orphans' = orphans
      /\ spoiled' = IF Torn(w) THEN spoiled \cup {f} ELSE spoiled
    BY DEF Fails, sync
<1>2. PICK k \in 0 .. Len(recorded) : node' = Retire(gone(k) \cup left(k))
    BY DEF Fails
<1>3. w \in Works /\ Sized(w)
    BY <1>1, HandledIs DEF IInv, Core
<1>4. Range(SubSeq(recorded, 1, k)) \subseteq Range(w.ids)
  <2>1. w.ids \in Seq(Id) /\ (w.pc = "embed" => Len(w.ids) > 0)
      BY <1>3 DEF Works, Sized
  <2>2. /\ recorded \in Seq(Id) /\ Len(recorded) <= Len(w.ids)
        /\ \A i \in 1 .. Len(recorded) : recorded[i] = w.ids[i]
    <3>1. CASE w.pc = "embed"
      <4>1. Len(w.ids) - 1 \in Nat /\ Front(w.ids) = SubSeq(w.ids, 1, Len(w.ids) - 1)
          BY <2>1, <3>1 DEF Front
      <4>2. \A i \in 0 + 1 .. Len(w.ids) - 1 : w.ids[i] \in Id
          BY <2>1
      <4>3. /\ SubSeq(w.ids, 0 + 1, Len(w.ids) - 1) \in Seq(Id)
            /\ Len(SubSeq(w.ids, 0 + 1, Len(w.ids) - 1)) = Len(w.ids) - 1 - 0
            /\ \A i \in 1 .. Len(w.ids) - 1 - 0 : SubSeq(w.ids, 0 + 1, Len(w.ids) - 1)[i] = w.ids[0 + i]
          BY <2>1, <4>1, <4>2, PartIs
      <4> QED BY <2>1, <3>1, <4>1, <4>3
    <3>2. CASE w.pc # "embed"
        BY <2>1, <3>2
    <3> QED BY <3>1, <3>2
  <2> HIDE DEF recorded, w
  <2>3. k \in Nat /\ k <= Len(recorded)
      BY <2>2
  <2>4. /\ SubSeq(recorded, 0 + 1, k + 1 - 1) \in Seq(Id)
        /\ Len(SubSeq(recorded, 0 + 1, k + 1 - 1)) = k + 1 - 1 - 0
        /\ \A i \in 1 .. k + 1 - 1 - 0 : SubSeq(recorded, 0 + 1, k + 1 - 1)[i] = recorded[0 + i]
    <3>1. \A i \in 0 + 1 .. k + 1 - 1 : recorded[i] \in Id
        BY <2>2, <2>3
    <3> QED BY <2>3, <3>1, PartIs
  <2>5. PICK p : p = SubSeq(recorded, 1, k)
      OBVIOUS
  <2>6. p \in Seq(Id) /\ Len(p) = k /\ \A i \in 1 .. k : p[i] = recorded[i]
      BY <2>3, <2>4, <2>5
  <2>7. ASSUME NEW i \in DOMAIN p
        PROVE  p[i] \in Range(w.ids)
    <3>1. i \in DOMAIN w.ids /\ p[i] = w.ids[i]
        BY <2>1, <2>2, <2>3, <2>6
    <3> QED BY <3>1, PlaceIs
  <2>8. Range(p) \subseteq Range(w.ids)
      BY <2>7, PlaceIs
  <2> QED BY <2>5, <2>8
<1>5. gone(k) \subseteq Created(w)
    BY <1>4 DEF Created
<1>6. PICK R : R = gone(k) \cup left(k)
    OBVIOUS
<1>7. R \subseteq Created(w) /\ node' = Retire(R)
    BY <1>2, <1>5, <1>6
<1>8. f \notin spoiled => \A n \in Created(w) : n \in R \/ node[n] = None
  <2> SUFFICES ASSUME f \notin spoiled, NEW n \in Created(w), node[n] # None, n \notin gone(k)
               PROVE  n \in left(k)
      BY <1>6
  <2>1. n \notin Referred(state', worker')
      BY <1>1, NotReferred
  <2> QED BY <2>1
<1>9. spoiled \subseteq spoiled' /\ (f \notin spoiled' => ~Torn(w))
    BY <1>1
<1> HIDE DEF recorded, gone, left
<1> QED BY <1>1, <1>7, <1>8, <1>9, RunEnds

\* What gives way is of the old version.
LEMMA ReplacedIs ==
  ASSUME NEW w
  PROVE  /\ Replaced(w) \subseteq Range(Old(w))
         /\ \A n : n \in Replaced(w) <=>
              \E k \in DOMAIN Old(w) : n = Old(w)[k] /\ (k > Len(w.ids) \/ Old(w)[k] # w.ids[k])
<1>1. \A n : n \in Replaced(w) <=>
        \E k \in DOMAIN Old(w) : n = Old(w)[k] /\ (k > Len(w.ids) \/ Old(w)[k] # w.ids[k])
    BY DEF Replaced
<1> QED BY <1>1, PlaceIs

\* What the loop adds to a run it takes from the old version.
LEMMA OnwardTakes ==
  ASSUME NEW w \in Works, Len(w.ids) <= Len(w.text), NEW o, o = Onward(w)
  PROVE  /\ o \in Works /\ Old(o) = Old(w)
         /\ Range(o.ids) \subseteq Range(w.ids) \cup Range(Old(w))
         /\ Range(w.ids) \subseteq Range(o.ids)
<1>1. /\ o \in Works /\ o.was = w.was
      /\ Len(w.ids) <= Len(o.ids)
      /\ \A i \in 1 .. Len(w.ids) : o.ids[i] = w.ids[i]
      /\ \A i \in Len(w.ids) + 1 .. Len(o.ids) : Reused(w, i) /\ o.ids[i] = Old(w)[i]
    BY OnwardIs
<1>2. /\ w.ids \in Seq(Id) /\ o.ids \in Seq(Id) /\ Old(w) \in Seq(Id)
      /\ DOMAIN w.ids = 1 .. Len(w.ids) /\ DOMAIN o.ids = 1 .. Len(o.ids)
      /\ DOMAIN Old(w) = 1 .. Len(Old(w))
      /\ Len(w.ids) \in Nat /\ Len(o.ids) \in Nat /\ Len(Old(w)) \in Nat
    BY <1>1, OldIs DEF Works
<1>3. Old(o) = Old(w)
    BY <1>1 DEF Old
<1>4. Range(o.ids) \subseteq Range(w.ids) \cup Range(Old(w))
  <2>1. ASSUME NEW i \in DOMAIN o.ids
        PROVE  o.ids[i] \in Range(w.ids) \cup Range(Old(w))
    <3>1. CASE i <= Len(w.ids)
      <4>1. i \in DOMAIN w.ids /\ o.ids[i] = w.ids[i]
          BY <1>1, <1>2, <2>1, <3>1
      <4> QED BY <1>2, <4>1, RangeIs
    <3>2. CASE ~(i <= Len(w.ids))
      <4>1. Reused(w, i) /\ o.ids[i] = Old(w)[i]
          BY <1>1, <1>2, <2>1, <3>2
      <4>2. i \in DOMAIN Old(w)
          BY <1>2, <2>1, <4>1 DEF Reused
      <4> QED BY <1>2, <4>1, <4>2, RangeIs
    <3> QED BY <3>1, <3>2
  <2> QED BY <2>1, PlaceIs
<1>5. Range(w.ids) \subseteq Range(o.ids)
  <2>1. ASSUME NEW i \in DOMAIN w.ids
        PROVE  w.ids[i] \in Range(o.ids)
    <3>1. i \in DOMAIN o.ids /\ o.ids[i] = w.ids[i]
        BY <1>1, <1>2, <2>1
    <3> QED BY <1>2, <3>1, RangeIs
  <2> QED BY <2>1, PlaceIs
<1> QED BY <1>1, <1>3, <1>4, <1>5

\* A run that goes on has its note in hand.
LEMMA Proceeds ==
  ASSUME Types, NEW f \in File, NEW w \in Works, Len(w.ids) <= Len(w.text),
         InHand(f, w), w.pc \in {"stream", "embed"}, NEW o, o = Onward(w)
  PROVE  InHand(f, o)
<1> DEFINE old == Old(w)
           l == Len(w.ids)
<1>1. /\ o.was = w.was /\ o.text = w.text /\ o \in Works /\ Sized(o) /\ o.pc \in {"stream", "switch"}
      /\ l <= Len(o.ids)
      /\ \A i \in 1 .. l : o.ids[i] = w.ids[i]
      /\ \A i \in l + 1 .. Len(o.ids) : Reused(w, i) /\ o.ids[i] = old[i]
    BY OnwardIs
<1>2. /\ Old(o) = old
      /\ Range(o.ids) \subseteq Range(w.ids) \cup Range(old)
      /\ Range(w.ids) \subseteq Range(o.ids)
      /\ \A n : n \in Replaced(o) <=>
           \E k \in DOMAIN old : n = old[k] /\ (k > Len(o.ids) \/ old[k] # o.ids[k])
    BY OnwardTakes, ReplacedIs
<1>3. /\ w.was = state[f] /\ Distinct(w.ids) /\ Distinct(old)
      /\ \A i \in DOMAIN w.ids : w.ids[i] \in Range(old) => i \in DOMAIN old /\ w.ids[i] = old[i]
      /\ \A i \in DOMAIN w.ids : node[w.ids[i]] = [file |-> f, what |-> w.text[i]]
      /\ Whole(f) /\ Active(f) = IdsOf(state[f]) \cup Range(w.ids)
    BY DEF InHand
<1>4. /\ w.ids \in Seq(Id) /\ o.ids \in Seq(Id) /\ old \in Seq(Id) /\ Range(old) = IdsOf(state[f])
      /\ DOMAIN w.ids = 1 .. l /\ DOMAIN o.ids = 1 .. Len(o.ids)
      /\ DOMAIN old = 1 .. Len(old)
      /\ l \in Nat /\ Len(o.ids) \in Nat /\ Len(old) \in Nat
    BY <1>1, <1>3, OldIs DEF Works
<1>5. \A i \in l + 1 .. Len(o.ids) :
        /\ i \in DOMAIN old /\ o.ids[i] = old[i] /\ o.ids[i] \in Range(old)
        /\ node[old[i]] = [file |-> f, what |-> w.text[i]] /\ w.was # None
  <2> TAKE i \in l + 1 .. Len(o.ids)
  <2>1. Reused(w, i) /\ o.ids[i] = old[i]
      BY <1>1
  <2>2. i \in DOMAIN old /\ i <= Len(OldText(w)) /\ OldText(w)[i] = w.text[i] /\ i \in Nat /\ i > 0
      BY <1>4, <2>1 DEF Reused
  <2>3. w.was # None
    <3>1. DOMAIN <<>> = {}
        OBVIOUS
    <3> QED BY <2>2, <3>1, OldIs
  <2>4. Tells(f, state[f].text, state[f].ids) /\ OldText(w) = state[f].text /\ old = state[f].ids
      BY <1>3, <2>3, OldIs DEF Whole
  <2>5. i \in DOMAIN state[f].text
    <3>1. OldText(w) \in Seq(Nat)
        BY OldIs
    <3> QED BY <2>2, <2>4, <3>1
  <2>6. node[old[i]] = [file |-> f, what |-> w.text[i]]
      BY <2>2, <2>4, <2>5 DEF Tells
  <2> QED BY <1>4, <2>1, <2>2, <2>3, <2>6, RangeIs
<1>6. \A i, k \in DOMAIN old : old[i] = old[k] => i = k
    BY <1>3 DEF Distinct
<1> HIDE DEF old
<1>7. \A i \in DOMAIN o.ids : o.ids[i] \in Range(old) => i \in DOMAIN old /\ o.ids[i] = old[i]
  <2> TAKE i \in DOMAIN o.ids
  <2>1. CASE i <= l
      BY <1>1, <1>3, <1>4, <2>1
  <2>2. CASE ~(i <= l)
    <3>1. i \in l + 1 .. Len(o.ids)
        BY <1>4, <2>2
    <3> QED BY <1>5, <3>1
  <2> QED BY <2>1, <2>2
<1>8. Distinct(o.ids)
  <2> SUFFICES ASSUME NEW i \in DOMAIN o.ids, NEW k \in DOMAIN o.ids, o.ids[i] = o.ids[k], i <= k
               PROVE  i = k
      BY <1>4 DEF Distinct
  <2>1. CASE k <= l
    <3>1. i \in DOMAIN w.ids /\ k \in DOMAIN w.ids /\ w.ids[i] = w.ids[k]
        BY <1>1, <1>4, <2>1
    <3> QED BY <1>3, <3>1 DEF Distinct
  <2>2. CASE ~(k <= l)
    <3>1. k \in DOMAIN old /\ o.ids[k] = old[k] /\ o.ids[i] \in Range(old)
      <4>1. k \in l + 1 .. Len(o.ids)
          BY <1>4, <2>2
      <4> QED BY <1>5, <4>1
    <3>2. i \in DOMAIN old /\ o.ids[i] = old[i]
        BY <1>7, <3>1
    <3> QED BY <1>6, <3>1, <3>2
  <2> QED BY <2>1, <2>2
<1>9. \A i \in DOMAIN o.ids :
        o.ids[i] \in Active(f) /\ node[o.ids[i]] = [file |-> f, what |-> w.text[i]]
  <2> TAKE i \in DOMAIN o.ids
  <2>1. o.ids[i] \in Active(f)
      BY <1>2, <1>3, <1>4, RangeIs
  <2>2. CASE i <= l
      BY <1>1, <1>3, <1>4, <2>1, <2>2
  <2>3. CASE ~(i <= l)
      BY <1>4, <1>5, <2>1, <2>3
  <2> QED BY <2>2, <2>3
<1>10. o.pc \in {"stream", "embed"} => Active(f) = IdsOf(state[f]) \cup Range(o.ids)
    BY <1>2, <1>3, <1>4
<1>11. Active(f) \subseteq Range(o.ids) \cup Replaced(o)
  <2> SUFFICES ASSUME NEW n \in Active(f), n \notin Range(w.ids), n \notin Replaced(o)
               PROVE  n \in Range(o.ids)
      BY <1>2
  <2>1. PICK k \in DOMAIN old : n = old[k]
      BY <1>3, <1>4, PlaceIs
  <2>2. k <= Len(o.ids) /\ old[k] = o.ids[k] /\ k \in DOMAIN o.ids
      BY <1>2, <1>4, <2>1
  <2> QED BY <2>1, <2>2, PlaceIs
<1> QED BY <1>1, <1>2, <1>3, <1>7, <1>8, <1>9, <1>10, <1>11 DEF InHand, old

\* A run goes on, and what it refers to is its note's.
LEMMA GoesOn ==
  ASSUME Types, NEW j \in Job, NEW x \in Works, NEW X,
         \A k \in Job : worker'[k] = IF k = j THEN x ELSE worker[k],
         state' = state, Range(x.ids) \cup Range(Old(x)) \subseteq Refs(j[1]) \cup X
  PROVE  /\ \A k \in Job : k[1] # j[1] => worker'[k] = worker[k]
         /\ Named(j[1])' \subseteq Refs(j[1]) \cup X
         /\ (\A k \in Job : k[1] = j[1] /\ k # j => worker[k] = Idle) => Alone(j[1], j)'
<1>1. worker'[j] = x /\ x # Idle
    BY Kinds
<1>2. Handled(x) \subseteq Refs(j[1]) \cup X
    BY <1>1 DEF Handled
<1>3. \A k \in Job : k[1] = j[1] => Handled(worker'[k]) \subseteq Refs(j[1]) \cup X
    BY <1>2, RefsAre
<1>4. Named(j[1])' = IdsOf(state[j[1]]) \cup UNION {Handled(worker'[k]) : k \in {i \in Job : i[1] = j[1]}}
    BY DEF Named, Handled, IdsOf
<1>5. Named(j[1])' \subseteq Refs(j[1]) \cup X
    BY <1>3, <1>4, RefsAre
<1> QED BY <1>1, <1>5 DEF Alone

\* A run that goes on, and no node does anything.
LEMMA MovesIs ==
  ASSUME IInv, NEW j \in Job, worker[j] # Idle, NEW o \in Works, Sized(o),
         \A k \in Job : worker'[k] = IF k = j THEN o ELSE worker[k],
         worker' = [worker EXCEPT ![j] = o], node' = node,
         disk' = disk, state' = state, spoiled' = spoiled, orphans' = orphans,
         Range(o.ids) \cup Range(Old(o)) \subseteq Refs(j[1]),
         j[1] \notin spoiled => InHand(j[1], o)
  PROVE  Core' /\ Spares
<1> DEFINE f == j[1]
<1>1. Types /\ Apart /\ f \in File /\ ~Free(f)
    BY HandledIs DEF IInv, Core
<1>2. /\ \A k \in Job : k[1] # f => worker'[k] = worker[k]
      /\ Named(f)' \subseteq Refs(f)
      /\ Alone(f, j) => Alone(f, j)'
  <2>1. PICK X : X = {}
      OBVIOUS
  <2>2. Range(o.ids) \cup Range(Old(o)) \subseteq Refs(j[1]) \cup X
      OBVIOUS
  <2>3. /\ \A k \in Job : k[1] # j[1] => worker'[k] = worker[k]
        /\ Named(j[1])' \subseteq Refs(j[1]) \cup X
        /\ (\A k \in Job : k[1] = j[1] /\ k # j => worker[k] = Idle) => Alone(j[1], j)'
      BY <1>1, <2>2, GoesOn
  <2> QED BY <2>1, <2>3 DEF Alone
<1>3. \A g : Active(g)' = Active(g)
    BY DEF Active
<1>4. Shrinks(f) /\ \A g \in File : g # f => Same(g)
    BY <1>2, <1>3 DEF Same, Shrinks
<1>5. Types'
  <2>1. state' \in [File -> Version \cup {None}] /\ node' \in [Id -> Segment \cup {None}]
        /\ worker' \in [Job -> Works \cup {Idle}]
      BY <1>1 DEF Types
  <2> QED BY <1>1, <2>1, JobTypes
<1>6. FileOK(f)'
  <2> SUFFICES ASSUME f \notin spoiled
               PROVE  FileOK(f)'
      BY DEF FileOK
  <2>1. Alone(f, j) /\ InHand(f, o) /\ orphans \cap Active(f) = {}
      BY OneRun
  <2>2. Whole(f) => Whole(f)'
      BY <1>1, WholeKept
  <2>3. InHand(f, o)'
    <3> HIDE DEF f
    <3> QED BY <1>1, <1>3, <2>1, <2>2, HandKept
  <2>4. InHand(f, worker[j])' /\ Alone(f, j)' /\ (orphans \cap Active(f) = {})'
      BY <1>2, <1>3, <2>1, <2>3 DEF InHand
  <2> QED BY <2>4 DEF FileOK
<1> HIDE DEF f
<1> QED BY <1>1, <1>2, <1>4, <1>5, <1>6, OneNote

\* The segment's embedding is there: the loop goes on, or the stop is noticed.
LEMMA EmbeddedOK ==
  ASSUME IInv, NEW j \in Job, Embedded(j)
  PROVE  Core' /\ Spares
<1> DEFINE f == j[1]
<1>0. PICK w : w = worker[j]
    OBVIOUS
<1>1. /\ worker[j] # Idle /\ w.pc = "embed"
      /\ disk' = disk /\ state' = state /\ spoiled' = spoiled /\ orphans' = orphans
    BY <1>0 DEF Embedded, Resumes, sync
<1>2. \/ /\ worker' = [worker EXCEPT ![j] = Idle]
         /\ LeaveBehind(Created(w))
      \/ /\ worker' = [worker EXCEPT ![j] = Onward(w)]
         /\ node' = node
    BY <1>0 DEF Embedded
<1>3. /\ Types /\ Apart /\ w \in Works /\ Sized(w) /\ f \in File /\ ~Free(f)
      /\ Range(w.ids) \subseteq Refs(f) /\ Range(Old(w)) \subseteq Refs(f)
    BY <1>0, <1>1, HandledIs DEF IInv, Core
<1>4. CASE worker' = [worker EXCEPT ![j] = Idle] /\ LeaveBehind(Created(w))
  <2>1. ~Torn(w)
      BY <1>1 DEF Torn
  <2> QED BY <1>0, <1>1, <1>4, <2>1, StopsIs
<1>5. CASE worker' = [worker EXCEPT ![j] = Onward(w)] /\ node' = node
  <2>1. PICK o : o = Onward(w)
      OBVIOUS
  <2>2. \A k \in Job : worker'[k] = IF k = j THEN o ELSE worker[k]
      BY <1>3, <1>5, <2>1 DEF Types
  <2>3. Len(w.ids) <= Len(w.text)
      BY <1>1, <1>3 DEF Sized
  <2>4. /\ o \in Works /\ Sized(o) /\ Old(o) = Old(w)
        /\ Range(o.ids) \subseteq Range(w.ids) \cup Range(Old(w))
      BY <1>3, <2>1, <2>3, OnwardIs, OnwardTakes
  <2>5. f \notin spoiled => InHand(f, o)
    <3>1. f \notin spoiled => InHand(f, w)
        BY <1>0, <1>1, OneRun
    <3> HIDE DEF f
    <3> QED BY <1>1, <1>3, <2>1, <2>3, <3>1, Proceeds
  <2>6. Range(o.ids) \cup Range(Old(o)) \subseteq Refs(f)
      BY <1>3, <2>4
  <2> QED BY <1>1, <1>5, <2>2, <2>4, <2>5, <2>6, MovesIs
<1> QED BY <1>2, <1>4, <1>5

\* One of the old nodes gives way to the new version.
LEMMA SupersedeOK ==
  ASSUME IInv, NEW j \in Job, Supersede(j)
  PROVE  Core' /\ Spares
<1> DEFINE f == j[1]
<1>0. PICK w : w = worker[j]
    OBVIOUS
<1>1. /\ worker[j] # Idle /\ w.pc = "switch" /\ worker' = worker
      /\ disk' = disk /\ state' = state /\ spoiled' = spoiled /\ orphans' = orphans
    BY <1>0 DEF Supersede, Resumes, sync
<1>2. PICK n \in Replaced(w) : node' = Retire({n})
    BY <1>0 DEF Supersede, Left
<1>3. /\ Types /\ Apart /\ w \in Works /\ Sized(w) /\ f \in File /\ ~Free(f)
      /\ Range(Old(w)) \subseteq Refs(f)
    BY <1>0, <1>1, HandledIs DEF IInv, Core
<1>4. PICK k \in DOMAIN Old(w) : n = Old(w)[k] /\ (k > Len(w.ids) \/ Old(w)[k] # w.ids[k])
    BY ReplacedIs
<1>5. Named(f)' = Named(f) /\ {n} \subseteq Refs(f)
    BY <1>1, <1>3, <1>4, PlaceIs DEF Named, Handled, IdsOf
<1>6. PICK S : S = {n}
    OBVIOUS
<1>7. /\ node' \in [Id -> Segment \cup {None}]
      /\ \A g \in File : g # f => Same(g)
      /\ Shrinks(f)
      /\ Active(f)' = Active(f) \ S
  <2>1. node' = Retire(S) /\ S \subseteq Refs(f) /\ Named(f)' \subseteq Refs(f)
      BY <1>2, <1>5, <1>6, RefsAre
  <2> HIDE DEF f
  <2> QED BY <1>1, <1>3, <2>1, LosesIs
<1>8. Types'
    BY <1>1, <1>3, <1>7, JobTypes DEF Types
<1>9. FileOK(f)'
  <2> SUFFICES ASSUME f \notin spoiled
               PROVE  FileOK(f)'
      BY <1>1 DEF FileOK
  <2>1. Alone(f, j) /\ InHand(f, w) /\ orphans \cap Active(f) = {}
      BY <1>0, <1>1, OneRun
  <2>2. /\ Distinct(Old(w))
        /\ \A i \in DOMAIN w.ids : w.ids[i] \in Range(Old(w)) => i \in DOMAIN Old(w) /\ w.ids[i] = Old(w)[i]
        /\ Active(f) \subseteq Range(w.ids) \cup Replaced(w)
        /\ \A i \in DOMAIN w.ids : node[w.ids[i]] = [file |-> f, what |-> w.text[i]]
      BY <1>1, <2>1 DEF InHand
  <2>3. ASSUME NEW i \in DOMAIN w.ids
        PROVE  w.ids[i] \in Active(f)'
    <3>1. w.ids[i] # n
      <4> SUFFICES ASSUME w.ids[i] = n
                   PROVE  FALSE
          OBVIOUS
      <4>1. i \in DOMAIN Old(w) /\ Old(w)[i] = Old(w)[k]
          BY <1>4, <2>2, PlaceIs
      <4>2. i = k
          BY <2>2, <4>1 DEF Distinct
      <4>3. ~(i > Len(w.ids))
          BY <1>3 DEF Works
      <4> QED BY <1>4, <4>2, <4>3
    <3>2. w.ids[i] \in Active(f)
        BY <1>3, <2>1, HandIs, PlaceIs
    <3> QED BY <1>6, <1>7, <3>1, <3>2
  <2>4. \A i \in DOMAIN w.ids : node'[w.ids[i]] = [file |-> f, what |-> w.text[i]]
      BY <1>7, <2>2, <2>3 DEF Shrinks
  <2>5. Active(f)' \subseteq Range(w.ids) \cup Replaced(w) /\ n \notin Active(f)'
      BY <1>6, <1>7, <2>2
  <2>6. InHand(f, w)'
      BY <1>1, <2>1, <2>4, <2>5 DEF InHand
  <2>7. InHand(f, worker[j])' /\ Alone(f, j)' /\ (orphans \cap Active(f) = {})'
      BY <1>0, <1>1, <1>7, <2>1, <2>6 DEF InHand, Alone
  <2> QED BY <2>7 DEF FileOK
<1>10. Named(f)' \subseteq Refs(f)
    BY <1>5, RefsAre
<1> HIDE DEF f
<1> QED BY <1>1, <1>3, <1>7, <1>8, <1>9, <1>10, OneNote

\* All of them gave way.
LEMMA SupersededOK ==
  ASSUME IInv, NEW j \in Job, Superseded(j)
  PROVE  Core' /\ Spares
<1> DEFINE f == j[1]
<1>0. PICK w : w = worker[j]
    OBVIOUS
<1>x. PICK x : x = [w EXCEPT !.pc = "tags"]
    OBVIOUS
<1>1. /\ worker[j] # Idle /\ w.pc = "switch" /\ Left(w) = {} /\ node' = node
      /\ worker' = [worker EXCEPT ![j] = x]
      /\ disk' = disk /\ state' = state /\ spoiled' = spoiled /\ orphans' = orphans
    BY <1>0, <1>x DEF Superseded, Resumes, sync
<1>3. /\ Types /\ Apart /\ w \in Works /\ Sized(w) /\ f \in File
      /\ Range(w.ids) \subseteq Refs(f) /\ Range(Old(w)) \subseteq Refs(f)
    BY <1>0, <1>1, HandledIs DEF IInv, Core
<1>4. /\ x \in Works /\ x.was = w.was /\ x.text = w.text /\ x.ids = w.ids /\ x.pc = "tags"
    BY <1>3, <1>x DEF Works
<1>5. Sized(x) /\ Old(x) = Old(w) /\ Replaced(x) = Replaced(w)
    BY <1>1, <1>3, <1>4 DEF Sized, Old, Replaced
<1>6. \A k \in Job : worker'[k] = IF k = j THEN x ELSE worker[k]
    BY <1>1, <1>3 DEF Types
<1>7. f \notin spoiled => InHand(f, x)
  <2> SUFFICES ASSUME f \notin spoiled
               PROVE  InHand(f, x)
      OBVIOUS
  <2>1. InHand(f, w)
      BY <1>0, <1>1, OneRun
  <2>2. Active(f) \cap Replaced(w) = {}
      BY <1>1 DEF Left, Active
  <2> QED BY <1>1, <1>4, <1>5, <2>1, <2>2 DEF InHand
<1>8. Range(x.ids) \cup Range(Old(x)) \subseteq Refs(f)
    BY <1>3, <1>4, <1>5
<1> QED BY <1>1, <1>4, <1>5, <1>6, <1>7, <1>8, MovesIs

\* A new node is no one's.
LEMMA FreshIs ==
  ASSUME Types, InUse # Id
  PROVE  Fresh \in Id /\ node[Fresh] = None /\ \A g \in File : Fresh \notin Refs(g)
<1>1. InUse \subseteq Id
  <2>1. \A n \in Referred(state, worker) : n \in Id
    <3>1. \A f \in File : state[f] # None => Range(state[f].ids) \subseteq Id
        BY NamedIs, RefsAre DEF IdsOf
    <3>2. \A j \in Job : worker[j] # Idle => Range(worker[j].ids) \cup Range(Old(worker[j])) \subseteq Id
        BY HandledIs, NamedIs
    <3> QED BY <3>1, <3>2 DEF Referred
  <2> QED BY <2>1 DEF InUse
<1>2. Fresh \in Id \ InUse
  <2>0. Id \subseteq Nat
      BY DEF Id
  <2>1. Id \ InUse # {} /\ Id \ InUse \subseteq Nat
      BY <1>1, <2>0
  <2> QED BY <2>1, MinIs DEF Fresh
<1>3. ASSUME NEW g \in File, Fresh \in Refs(g)
      PROVE  FALSE
  <2>1. Fresh \notin Active(g)
      BY <1>2 DEF InUse, Active
  <2>2. Fresh \notin Referred(state, worker)
      BY <1>2 DEF InUse
  <2>3. Fresh \notin IdsOf(state[g])
      BY <2>2 DEF Referred, IdsOf
  <2>4. \A j \in Job : Fresh \notin Handled(worker[j])
      BY <2>2 DEF Referred, Handled
  <2> QED BY <1>3, <2>1, <2>3, <2>4 DEF Refs, Named
<1> QED BY <1>2, <1>3 DEF InUse

\* The digest creates a node for the next segment.
LEMMA CreateNodeOK ==
  ASSUME IInv, NEW j \in Job, CreateNode(j)
  PROVE  Core' /\ Spares
<1> DEFINE f == j[1]
<1>0. PICK w : w = worker[j]
    OBVIOUS
<1>m. PICK m : m = Fresh
    OBVIOUS
<1>t. PICK t : t = w.text[Len(w.ids) + 1]
    OBVIOUS
<1>x. PICK x : x = [w EXCEPT !.pc = "embed", !.ids = Append(@, m)]
    OBVIOUS
<1>1. /\ worker[j] # Idle /\ w.pc = "stream" /\ InUse # Id
      /\ node' = [node EXCEPT ![m] = [file |-> f, what |-> t]]
      /\ worker' = [worker EXCEPT ![j] = x]
      /\ disk' = disk /\ state' = state /\ spoiled' = spoiled /\ orphans' = orphans /\ orphans = {}
    BY <1>0, <1>m, <1>t, <1>x DEF CreateNode, Resumes, MidTurn, sync
<1>2. /\ Types /\ Apart /\ w \in Works /\ Sized(w) /\ f \in File /\ ~Free(f)
      /\ Range(w.ids) \subseteq Refs(f) /\ Range(Old(w)) \subseteq Refs(f)
    BY <1>0, <1>1, HandledIs DEF IInv, Core
<1>3. m \in Id /\ node[m] = None /\ \A g \in File : m \notin Refs(g)
    BY <1>1, <1>2, <1>m, FreshIs
<1>4. /\ w.ids \in Seq(Id) /\ w.text \in Seq(Nat) /\ Len(w.ids) \in Nat /\ Len(w.text) \in Nat
      /\ DOMAIN w.ids = 1 .. Len(w.ids) /\ DOMAIN w.text = 1 .. Len(w.text)
    BY <1>2 DEF Works
<1>5. t \in Nat /\ [file |-> f, what |-> t] \in Segment
  <2>1. t \in Nat
    <3>1. Len(w.ids) + 1 \in DOMAIN w.text
        BY <1>1, <1>2, <1>4 DEF Sized
    <3> QED BY <1>4, <1>t, <3>1
  <2> QED BY <1>2, <2>1 DEF Segment
<1>6. /\ x \in Works /\ x.was = w.was /\ x.text = w.text /\ x.pc = "embed"
      /\ x.ids \in Seq(Id) /\ Len(x.ids) = Len(w.ids) + 1 /\ DOMAIN x.ids = 1 .. Len(w.ids) + 1
      /\ x.ids[Len(w.ids) + 1] = m /\ \A i \in DOMAIN w.ids : x.ids[i] = w.ids[i]
  <2>1. PICK a : a = Append(w.ids, m)
      OBVIOUS
  <2>2. /\ a \in Seq(Id) /\ Len(a) = Len(w.ids) + 1 /\ DOMAIN a = 1 .. Len(w.ids) + 1
        /\ a[Len(w.ids) + 1] = m /\ \A i \in DOMAIN w.ids : a[i] = w.ids[i]
      BY <1>3, <1>4, <2>1
  <2>3. x = [w EXCEPT !.pc = "embed", !.ids = a]
      BY <1>2, <1>x, <2>1 DEF Works
  <2>4. x \in Works /\ x.was = w.was /\ x.text = w.text /\ x.pc = "embed" /\ x.ids = a
      BY <1>2, <2>2, <2>3 DEF Works
  <2> QED BY <2>2, <2>4
<1>7. Range(x.ids) = Range(w.ids) \cup {m} /\ Old(x) = Old(w)
  <2>1. Range(x.ids) = Range(w.ids) \cup {m}
    <3>1. ASSUME NEW i \in DOMAIN x.ids
          PROVE  x.ids[i] \in Range(w.ids) \cup {m}
      <4>1. CASE i = Len(w.ids) + 1
          BY <1>6, <4>1
      <4>2. CASE i # Len(w.ids) + 1
        <5>1. i \in DOMAIN w.ids
            BY <1>4, <1>6, <3>1, <4>2
        <5> QED BY <1>6, <5>1, PlaceIs
      <4> QED BY <4>1, <4>2
    <3>2. ASSUME NEW i \in DOMAIN w.ids
          PROVE  w.ids[i] \in Range(x.ids)
      <4>1. i \in DOMAIN x.ids
          BY <1>4, <1>6, <3>2
      <4> QED BY <1>6, <4>1, PlaceIs
    <3>3. m \in Range(x.ids)
      <4>1. Len(w.ids) + 1 \in DOMAIN x.ids
          BY <1>4, <1>6
      <4> QED BY <1>6, <4>1, PlaceIs
    <3> QED BY <3>1, <3>2, <3>3, PlaceIs
  <2>2. Old(x) = Old(w)
      BY <1>6 DEF Old
  <2> QED BY <2>1, <2>2
<1>8. \A k \in Job : worker'[k] = IF k = j THEN x ELSE worker[k]
    BY <1>1, <1>2 DEF Types
<1>9. /\ \A k \in Job : k[1] # f => worker'[k] = worker[k]
      /\ Named(f)' \subseteq Refs(f) \cup {m}
      /\ Alone(f, j) => Alone(f, j)'
  <2>1. PICK X : X = {m}
      OBVIOUS
  <2>2. Range(x.ids) \cup Range(Old(x)) \subseteq Refs(j[1]) \cup X
      BY <1>2, <1>7, <2>1
  <2>3. /\ \A k \in Job : k[1] # j[1] => worker'[k] = worker[k]
        /\ Named(j[1])' \subseteq Refs(j[1]) \cup X
        /\ (\A k \in Job : k[1] = j[1] /\ k # j => worker[k] = Idle) => Alone(j[1], j)'
      BY <1>1, <1>2, <1>6, <1>8, <2>2, GoesOn
  <2> QED BY <2>1, <2>3 DEF Alone
<1>10. /\ \A n \in Id : node'[n] = IF n = m THEN [file |-> f, what |-> t] ELSE node[n]
       /\ node' \in [Id -> Segment \cup {None}]
    BY <1>1, <1>2, <1>3, <1>5 DEF Types
<1>11. /\ Active(f)' = Active(f) \cup {m}
       /\ \A g \in File : g # f => Active(g)' = Active(g)
       /\ \A g \in File : \A n \in Active(g) : node'[n] = node[n]
  <2>1. [file |-> f, what |-> t] # None
      BY <1>5, Kinds
  <2>2. \A g \in File : \A n \in Active(g) : n # m
      BY <1>3 DEF Active
  <2> QED BY <1>3, <1>10, <2>1, <2>2 DEF Active
<1>12. Types'
  <2>1. state' \in [File -> Version \cup {None}]
      BY <1>1, <1>2 DEF Types
  <2>2. Sized(x)
      BY <1>1, <1>2, <1>4, <1>6 DEF Sized
  <2>3. worker' \in [Job -> Works \cup {Idle}]
      BY <1>1, <1>2, <1>6 DEF Types
  <2>4. \A k \in Job : worker'[k] = worker[k] \/ Sized(worker'[k])
      BY <1>8, <2>2
  <2> QED BY <1>1, <1>2, <1>10, <2>1, <2>3, <2>4, JobTypes
<1>13. \A g \in File : g # f => Same(g) /\ FileOK(g)' /\ Named(g)' = Named(g)
  <2>1. \A g \in File : g # f => Same(g)
      BY <1>1, <1>9, <1>11 DEF Same
  <2> QED BY <1>1, <1>2, <2>1, SameIs DEF IInv, Core
<1>14. Apart'
  <2>1. Refs(f)' \subseteq Refs(f) \cup {m}
      BY <1>9, <1>11, RefsAre DEF Refs
  <2>2. \A g \in File : g # f => Refs(g)' = Refs(g)
      BY <1>11, <1>13 DEF Refs
  <2> QED BY <1>2, <1>3, <2>1, <2>2 DEF Apart
<1>15. FileOK(f)'
  <2> SUFFICES ASSUME f \notin spoiled
               PROVE  FileOK(f)'
      BY <1>1 DEF FileOK
  <2>1. Alone(f, j) /\ InHand(f, w)
      BY <1>0, <1>1, OneRun
  <2>2. /\ w.was = state[f] /\ Distinct(w.ids) /\ Distinct(Old(w))
        /\ \A i \in DOMAIN w.ids : w.ids[i] \in Range(Old(w)) => i \in DOMAIN Old(w) /\ w.ids[i] = Old(w)[i]
        /\ \A i \in DOMAIN w.ids : node[w.ids[i]] = [file |-> f, what |-> w.text[i]]
        /\ Whole(f) /\ Active(f) = IdsOf(state[f]) \cup Range(w.ids)
      BY <1>1, <2>1 DEF InHand
  <2>3. ASSUME NEW i \in DOMAIN x.ids
        PROVE  (i \in DOMAIN w.ids /\ w.ids[i] # m) \/ (i = Len(w.ids) + 1)
    <3>1. i \in DOMAIN w.ids \/ i = Len(w.ids) + 1
        BY <1>4, <1>6, <2>3
    <3>2. i \in DOMAIN w.ids => w.ids[i] # m
        BY <1>2, <1>3, PlaceIs
    <3> QED BY <3>1, <3>2
  <2>4. Distinct(x.ids)
      BY <1>6, <2>2, <2>3 DEF Distinct
  <2>5. \A i \in DOMAIN x.ids : x.ids[i] \in Range(Old(w)) => i \in DOMAIN Old(w) /\ x.ids[i] = Old(w)[i]
      BY <1>2, <1>3, <1>6, <2>2, <2>3
  <2>6. \A i \in DOMAIN x.ids : node'[x.ids[i]] = [file |-> f, what |-> w.text[i]]
    <3> SUFFICES ASSUME NEW i \in DOMAIN x.ids
                 PROVE  node'[x.ids[i]] = [file |-> f, what |-> w.text[i]]
        OBVIOUS
    <3>1. CASE i = Len(w.ids) + 1
      <4>1. x.ids[i] = m /\ t = w.text[i]
          BY <1>t, <1>6, <3>1
      <4> QED BY <1>3, <1>10, <4>1
    <3>2. CASE i \in DOMAIN w.ids /\ w.ids[i] # m
      <4>1. w.ids[i] \in Id /\ x.ids[i] = w.ids[i]
          BY <1>4, <1>6, <3>2
      <4> QED BY <1>10, <2>2, <3>2, <4>1
    <3> QED BY <2>3, <3>1, <3>2
  <2>7. Whole(f)'
    <3> HIDE DEF f
    <3> QED BY <1>1, <1>2, <1>11, <2>2, WholeKept
  <2>8. Active(f)' = IdsOf(state[f]) \cup Range(x.ids)
      BY <1>7, <1>11, <2>2
  <2>9. worker'[j] = x
      BY <1>8
  <2>10. InHand(f, x)'
    <3>1. Distinct(Old(x))
        BY <1>7, <2>2
    <3> HIDE DEF f
    <3> QED BY <1>1, <1>6, <1>7, <2>2, <2>4, <2>5, <2>6, <2>7, <2>8, <3>1 DEF InHand
  <2>11. InHand(f, worker[j])' /\ (orphans \cap Active(f) = {})'
      BY <1>1, <2>9, <2>10 DEF InHand
  <2> QED BY <1>9, <2>1, <2>11 DEF FileOK
<1>16. Spares
    BY <1>2, <1>13 DEF Spares, Same
<1> QED BY <1>12, <1>13, <1>14, <1>15, <1>16 DEF IInv, Core

-----------------------------------------------------------------------------
(* Scans, the watcher and crashes.                                         *)

\* A step that leaves all notes alone.
LEMMA AllSame ==
  ASSUME IInv, Types', \A f \in File : Same(f), spoiled \subseteq spoiled'
  PROVE  Core' /\ Spares
<1>1. \A f \in File : FileOK(f)' /\ Named(f)' \subseteq Refs(f) /\ Shrinks(f)
    BY SameIs, RefsAre DEF IInv, Core
<1>2. Apart'
    BY <1>1, ApartKept DEF IInv, Core
<1> QED BY <1>1, <1>2 DEF IInv, Core, Spares, Same

\* A run that begins knows the version there is.
LEMMA BegunIs ==
  ASSUME Types, NEW f \in File, NEW w, w = Begun(f)
  PROVE  /\ w \in Works /\ Sized(w)
         /\ Range(w.ids) \cup Range(Old(w)) \subseteq IdsOf(state[f])
         /\ Remembered(f) => InHand(f, w)
<1>v. PICK v : v = [pc |-> "stream", was |-> state[f], text |-> disk[f].text,
                    stamp |-> disk[f].stamp, ids |-> <<>>]
    OBVIOUS
<1>1. /\ v \in Works /\ v.was = state[f] /\ v.pc = "stream" /\ v.ids = <<>>
      /\ Len(v.ids) <= Len(v.text) /\ DOMAIN v.ids = {}
      /\ Range(v.ids) = {} /\ Range(Old(v)) = IdsOf(state[f])
  <2>1. disk[f].text \in Seq(Nat) /\ disk[f].stamp \in Nat /\ state[f] \in Version \cup {None}
      BY DEF Types
  <2>2. <<>> \in Seq(Id)
      OBVIOUS
  <2>3. v \in Works
      BY <1>v, <2>1, <2>2 DEF Works
  <2>4. v.was = state[f] /\ v.pc = "stream" /\ v.ids = <<>> /\ v.text = disk[f].text
      BY <1>v
  <2>5. DOMAIN v.ids = {} /\ Len(v.ids) = 0 /\ Len(v.text) \in Nat
      BY <2>1, <2>4
  <2> QED BY <2>1, <2>3, <2>4, <2>5, OldIs, PlaceIs
<1>2. w = Onward(v)
    BY <1>v DEF Begun
<1>3. Remembered(f) => InHand(f, v)
  <2> SUFFICES ASSUME Remembered(f)
               PROVE  InHand(f, v)
      OBVIOUS
  <2>1. Distinct(v.ids) /\ \A i \in DOMAIN v.ids : FALSE
      BY <1>1 DEF Distinct
  <2>2. Distinct(Old(v))
    <3>1. CASE v.was = None
      <4>1. Old(v) = <<>>
          BY <1>1, <3>1, OldIs
      <4> QED BY <4>1 DEF Distinct
    <3>2. CASE v.was # None
      <4>1. Old(v) = state[f].ids
          BY <1>1, <3>2, OldIs
      <4> QED BY <1>1, <3>2, <4>1 DEF Remembered, Whole
    <3> QED BY <3>1, <3>2
  <2> QED BY <1>1, <2>1, <2>2 DEF InHand, Remembered
<1>4. /\ w \in Works /\ Sized(w) /\ Old(w) = Old(v)
      /\ Range(w.ids) \subseteq Range(v.ids) \cup Range(Old(v))
    BY <1>1, <1>2, OnwardIs, OnwardTakes
<1>5. Remembered(f) => InHand(f, w)
    BY <1>1, <1>2, <1>3, Proceeds
<1> QED BY <1>1, <1>4, <1>5

\* A run begins, possibly beside another one.
LEMMA BeginsOK ==
  ASSUME IInv, NEW f \in File, NEW i \in Job, i[1] = f, Begins(f),
         worker' = [worker EXCEPT ![i] = Begun(f)],
         disk' = disk, state' = state, node' = node, orphans' = orphans,
         spoiled' = IF ~Free(f) THEN spoiled \cup {f} ELSE spoiled
  PROVE  Core' /\ Spares
<1>1. Types /\ Apart /\ disk[f].at = "here"
    BY DEF IInv, Core, Begins, Changed
<1>2. PICK w : w = Begun(f)
    OBVIOUS
<1>3. /\ w \in Works /\ Sized(w)
      /\ Range(w.ids) \cup Range(Old(w)) \subseteq IdsOf(state[f])
      /\ Remembered(f) => InHand(f, w)
    BY <1>1, <1>2, BegunIs
<1>4. \A k \in Job : worker'[k] = IF k = i THEN w ELSE worker[k]
    BY <1>1, <1>2 DEF Types
<1>5. /\ \A k \in Job : k[1] # f => worker'[k] = worker[k]
      /\ Named(f)' \subseteq Refs(f)
      /\ Free(f) => Alone(f, i)'
  <2>1. PICK X : X = {}
      OBVIOUS
  <2>2. Range(w.ids) \cup Range(Old(w)) \subseteq Refs(i[1]) \cup X
      BY <1>3, RefsAre
  <2>3. /\ \A k \in Job : k[1] # i[1] => worker'[k] = worker[k]
        /\ Named(i[1])' \subseteq Refs(i[1]) \cup X
        /\ (\A k \in Job : k[1] = i[1] /\ k # i => worker[k] = Idle) => Alone(i[1], i)'
      BY <1>1, <1>3, <1>4, <2>2, GoesOn
  <2> QED BY <2>1, <2>3 DEF Free
<1>6. \A g : Active(g)' = Active(g)
    BY DEF Active
<1>7. Shrinks(f) /\ \A g \in File : g # f => Same(g)
    BY <1>5, <1>6 DEF Same, Shrinks
<1>8. Types'
  <2>1. state' \in [File -> Version \cup {None}] /\ node' \in [Id -> Segment \cup {None}]
        /\ worker' \in [Job -> Works \cup {Idle}]
      BY <1>1, <1>2, <1>3 DEF Types
  <2>2. \A k \in Job : worker'[k] = worker[k] \/ Sized(worker'[k])
      BY <1>3, <1>4
  <2> QED BY <1>1, <2>1, <2>2, JobTypes
<1>9. FileOK(f)'
  <2> SUFFICES ASSUME f \notin spoiled'
               PROVE  FileOK(f)'
      BY DEF FileOK
  <2>1. Free(f) /\ f \notin spoiled
      OBVIOUS
  <2>2. Remembered(f) /\ orphans \cap Active(f) = {}
      BY <2>1, FreeIs DEF Free
  <2>3. Whole(f)'
      BY <1>1, <2>2, WholeKept DEF Remembered
  <2>4. InHand(f, w)'
      BY <1>3, <1>6, <2>2, <2>3, HandKept
  <2>5. InHand(f, worker[i])' /\ (orphans \cap Active(f) = {})'
      BY <1>4, <1>6, <2>2, <2>4 DEF InHand
  <2> QED BY <1>5, <2>1, <2>5 DEF FileOK
<1> QED BY <1>1, <1>5, <1>7, <1>8, <1>9, OneNote

\* A step that only moves what no note depends on.
LEMMA StillOK ==
  ASSUME IInv, worker' = worker, node' = node, state' = state, spoiled' = spoiled, orphans' = orphans,
         disk' \in [File -> [at : {"here", "away", "gone"}, text : Seq(Nat), stamp : Nat]]
  PROVE  Core' /\ Spares
<1>1. Types'
    BY DEF IInv, Core, Types
<1>2. \A f \in File : Same(f)
    BY DEF Same, Active
<1> QED BY <1>1, <1>2, AllSame

\* The watcher begins a note, puts it off, or drops it.
LEMMA WatcherFiresOK ==
  ASSUME IInv, NEW f \in File, WatcherFires(f)
  PROVE  Core' /\ Spares
<1> DEFINE begins == scan = "none" /\ Begins(f)
           free == {k \in Watches : worker[<<f, k>>] = Idle}
<1>1. PICK c : c = CHOOSE k \in free : TRUE
    OBVIOUS
<1>2. PICK j : j = <<f, c>>
    OBVIOUS
<1>3. /\ begins => free # {}
      /\ worker' = IF begins THEN [worker EXCEPT ![j] = Begun(f)] ELSE worker
      /\ spoiled' = IF begins /\ ~Free(f) THEN spoiled \cup {f} ELSE spoiled
      /\ disk' = disk /\ state' = state /\ node' = node /\ orphans' = orphans
    BY <1>1, <1>2 DEF WatcherFires, sync
<1>4. CASE ~begins
    BY <1>3, <1>4, StillOK DEF IInv, Core, Types
<1>5. CASE begins
  <2>1. c \in Watches
      BY <1>1, <1>3, <1>5
  <2>2. j \in Job /\ j[1] = f
      BY <1>2, <2>1 DEF Job
  <2> HIDE DEF free
  <2> QED BY <1>3, <1>5, <2>2, BeginsOK
<1> QED BY <1>4, <1>5

\* A scan begins a note, or finds that nothing is to be done.
LEMMA TakesOK ==
  ASSUME IInv, NEW f \in File, Takes(f)
  PROVE  Core' /\ Spares
<1> DEFINE begins == Begins(f) /\ ~stopped
<1>1. PICK j : j = <<f, "scan">>
    OBVIOUS
<1>2. /\ worker' = IF begins THEN [worker EXCEPT ![j] = Begun(f)] ELSE worker
      /\ spoiled' = IF begins /\ ~Free(f) THEN spoiled \cup {f} ELSE spoiled
      /\ disk' = disk /\ state' = state /\ node' = node /\ orphans' = orphans
    BY <1>1 DEF Takes, sync
<1>3. j \in Job /\ j[1] = f
    BY <1>1 DEF Job
<1>4. CASE ~begins
    BY <1>2, <1>4, StillOK DEF IInv, Core, Types
<1>5. CASE begins
    BY <1>2, <1>3, <1>5, BeginsOK
<1> QED BY <1>4, <1>5

\* The state of a deleted note goes, and its nodes are about to go.
LEMMA ForgetOK ==
  ASSUME IInv, NEW f \in File, Forget(f)
  PROVE  Core' /\ Spares
<1>1. /\ f \in stale /\ disk[f].at = "gone"
      /\ orphans' = orphans \cup {n \in Range(state[f].ids) : node[n] # None}
      /\ state' = [state EXCEPT ![f] = None]
      /\ spoiled' = IF Free(f) THEN spoiled ELSE spoiled \cup {f}
      /\ disk' = disk /\ node' = node /\ worker' = worker
    BY DEF Forget, IInv, StaleOK
<1>2. Types /\ Apart /\ state[f] # None
    BY <1>1 DEF IInv, Core, StaleOK
<1>3. \A g : Active(g)' = Active(g)
    BY <1>1 DEF Active
<1>4. state'[f] = None /\ \A g \in File : g # f => state'[g] = state[g]
    BY <1>1, <1>2 DEF Types
<1>5. IdsOf(state[f]) = Range(state[f].ids)
    BY <1>2 DEF IdsOf
<1>6. ASSUME NEW g \in File, g # f
      PROVE  Same(g)
  <2>1. IdsOf(state[f]) \cap Active(g) = {}
      BY <1>2, <1>6, RefsAre DEF Apart
  <2>2. orphans' \cap Active(g) = orphans \cap Active(g)
      BY <1>1, <1>5, <2>1
  <2> QED BY <1>1, <1>3, <1>4, <1>6, <2>2 DEF Same
<1>7. Types'
  <2>1. state' \in [File -> Version \cup {None}]
      BY <1>1, <1>2 DEF Types
  <2> QED BY <1>1, <1>2, <2>1, JobTypes DEF Types
<1>8. Named(f)' \subseteq Refs(f)
  <2>1. Named(f)' = IdsOf(state'[f]) \cup UNION {Handled(worker[k]) : k \in {i \in Job : i[1] = f}}
      BY <1>1 DEF Named, Handled, IdsOf
  <2>2. IdsOf(state'[f]) = {}
      BY <1>4 DEF IdsOf
  <2> QED BY <2>1, <2>2, RefsAre
<1>9. FileOK(f)'
  <2> SUFFICES ASSUME f \notin spoiled'
               PROVE  FileOK(f)'
      BY DEF FileOK
  <2>1. Free(f) /\ f \notin spoiled
      BY <1>1
  <2>2. Active(f) = IdsOf(state[f])
      BY <2>1, FreeIs DEF Remembered
  <2>3. Active(f)' \subseteq orphans'
      BY <1>1, <1>3, <1>5, <2>2 DEF Active
  <2>4. NoRun(f)'
      BY <1>1, <2>1 DEF Free, NoRun
  <2> QED BY <1>4, <2>3, <2>4 DEF FileOK, Orphaned
<1>10. Shrinks(f)
    BY <1>1, <1>3 DEF Shrinks
<1> QED BY <1>1, <1>6, <1>7, <1>8, <1>9, <1>10, OneNote

\* One of the nodes whose states are gone is archived.
LEMMA ArchiveOK ==
  ASSUME IInv, NEW n \in Id, Archive(n)
  PROVE  Core' /\ Spares
<1>1. /\ n \in orphans /\ orphans' = orphans \ {n} /\ node' = Retire({n})
      /\ disk' = disk /\ state' = state /\ worker' = worker /\ spoiled' = spoiled
    BY DEF Archive
<1>2. Types /\ Apart
    BY DEF IInv, Core
<1>3. PICK S : S = {n}
    OBVIOUS
<1>4. /\ node' \in [Id -> Segment \cup {None}]
      /\ \A g : Shrinks(g) /\ Active(g)' = Active(g) \ S
    BY <1>1, <1>2, <1>3, RetireIs
<1>5. Types'
    BY <1>1, <1>2, <1>4, JobTypes DEF Types
<1>6. \A g \in File : Named(g)' = Named(g)
    BY <1>1 DEF Named, Handled, IdsOf
<1>7. ASSUME NEW g \in File, n \notin Active(g)
      PROVE  Same(g)
  <2>1. Active(g)' = Active(g) /\ orphans' \cap Active(g) = orphans \cap Active(g)
      BY <1>1, <1>3, <1>4, <1>7
  <2> QED BY <1>1, <1>4, <2>1 DEF Same, Shrinks
<1>8. CASE \A g \in File : n \notin Active(g)
    BY <1>1, <1>5, <1>7, <1>8, AllSame
<1>9. CASE \E g \in File : n \in Active(g)
  <2>1. PICK f \in File : n \in Active(f)
      BY <1>9
  <2>2. \A g \in File : g # f => Same(g)
    <3>1. \A g \in File : g # f => n \notin Active(g)
        BY <1>2, <2>1, RefsAre DEF Apart
    <3> QED BY <1>7, <3>1
  <2>3. ~Free(f)
      BY <1>1, <2>1 DEF Free
  <2>4. FileOK(f)'
    <3> SUFFICES ASSUME f \notin spoiled
                 PROVE  FileOK(f)'
        BY <1>1 DEF FileOK
    <3>1. Orphaned(f)
        BY <1>1, <2>1 DEF IInv, Core, FileOK
    <3>2. Orphaned(f)'
        BY <1>1, <1>3, <1>4, <3>1 DEF Orphaned, NoRun
    <3> QED BY <3>2 DEF FileOK
  <2>5. Named(f)' \subseteq Refs(f)
      BY <1>6, RefsAre
  <2> QED BY <1>1, <1>4, <1>5, <2>2, <2>3, <2>4, <2>5, OneNote
<1> QED BY <1>8, <1>9

\* Of the nodes left behind with orphans among them: a note that no run has
\* in hand keeps exactly what its state names.
LEMMA OrphansLeft ==
  ASSUME IInv, NEW f \in File, f \notin spoiled, NoRun(f), NEW S,
         S \cap Active(f) \subseteq orphans, orphans \subseteq S,
         Active(f)' = Active(f) \ (S \ IdsOf(state[f]))
  PROVE  Whole(f) /\ Active(f)' = IdsOf(state[f])
<1>1. CASE Orphaned(f)
  <2>1. IdsOf(state[f]) = {} /\ Whole(f)
      BY <1>1 DEF Orphaned, IdsOf, Whole
  <2> QED BY <1>1, <2>1 DEF Orphaned
<1>2. CASE orphans \cap Active(f) = {} /\ Remembered(f)
    BY <1>2 DEF Remembered
<1> QED BY <1>1, <1>2 DEF IInv, Core, FileOK, NoRun, Alone

\* The removal is interrupted: nobody will archive the nodes.
LEMMA RemovalFailsOK ==
  ASSUME IInv, RemovalFails
  PROVE  Core' /\ Spares
<1>1. /\ orphans' = {} /\ LeaveBehind(orphans)
      /\ disk' = disk /\ state' = state /\ worker' = worker /\ spoiled' = spoiled
    BY DEF RemovalFails
<1>2. Types /\ Apart
    BY DEF IInv, Core
<1>3. \A g \in File : Named(g)' = Named(g)
    BY <1>1 DEF Named, Handled, IdsOf
<1>4. \A g \in File : Named(g)' \subseteq Refs(g)
    BY <1>3, RefsAre
<1>5. PICK S : S = orphans
    OBVIOUS
<1>6. /\ node' \in [Id -> Segment \cup {None}]
      /\ \A g \in File : Shrinks(g) /\ Active(g)' = Active(g) \ (S \ Named(g)')
    BY <1>1, <1>2, <1>4, <1>5, LeaveIs
<1>7. Types'
    BY <1>1, <1>2, <1>6, JobTypes DEF Types
<1>8. ASSUME NEW g \in File, orphans \cap Active(g) = {}
      PROVE  Same(g)
  <2>1. Active(g)' = Active(g)
      BY <1>5, <1>6, <1>8
  <2> QED BY <1>1, <1>6, <1>8, <2>1 DEF Same, Shrinks
<1>9. ASSUME NEW g \in File
      PROVE  FileOK(g)'
  <2> SUFFICES ASSUME g \notin spoiled, orphans \cap Active(g) # {}
               PROVE  FileOK(g)'
    <3>1. Same(g) => FileOK(g)'
        BY <1>1, <1>2, <1>9, SameIs DEF IInv, Core
    <3> QED BY <1>1, <1>8, <1>9, <3>1 DEF FileOK
  <2>1. Orphaned(g)
      BY <1>9 DEF IInv, Core, FileOK
  <2>2. NoRun(g) /\ NoRun(g)' /\ Named(g)' = IdsOf(state[g])
    <3>1. NoRun(g)
        BY <2>1 DEF Orphaned
    <3>2. \A k \in Job : k[1] = g => Handled(worker[k]) = {}
        BY <3>1 DEF NoRun, Handled
    <3>3. Named(g) = IdsOf(state[g])
        BY <3>2 DEF Named
    <3> QED BY <1>1, <1>3, <1>9, <3>1, <3>3 DEF NoRun
  <2>3. Whole(g) /\ Active(g)' = IdsOf(state[g])
    <3>1. Active(g)' = Active(g) \ (S \ IdsOf(state[g]))
        BY <1>6, <1>9, <2>2
    <3> QED BY <1>5, <1>9, <2>2, <3>1, OrphansLeft
  <2> QED BY <1>1, <1>2, <1>6, <1>9, <2>2, <2>3, RestsIs
<1>10. Apart'
    BY <1>2, <1>4, <1>6, ApartKept
<1>11. Spares
    BY <1>1, <1>8 DEF Spares, Same, Free
<1> QED BY <1>7, <1>9, <1>10, <1>11 DEF IInv, Core

\* A crash: no run is left, and what the runs created is no one's.
LEMMA CrashOK ==
  ASSUME IInv, Crash
  PROVE  Core' /\ Spares
<1> DEFINE busy == {j \in Job : worker[j] # Idle}
           c(j) == Created(worker[j])
           U == UNION {c(j) : j \in busy}
           t == {j[1] : j \in {k \in busy : Torn(worker[k])}}
<1>1. /\ worker' = [j \in Job |-> Idle]
      /\ disk' = disk /\ state' = state /\ orphans' = {}
      /\ LeaveBehind(orphans \cup U) /\ spoiled' = spoiled \cup t
    BY DEF Crash
<1>2. Types /\ Apart
    BY DEF IInv, Core
<1>3. \A j : j \in busy <=> j \in Job /\ worker[j] # Idle
    OBVIOUS
<1>4. \A j \in busy : Torn(worker[j]) => j[1] \in t
    OBVIOUS
<1> HIDE DEF busy, c, t
<1>5. \A n : n \in U <=> \E j \in busy : n \in c(j)
    OBVIOUS
<1> HIDE DEF U
<1>6. PICK S : S = orphans \cup U
    OBVIOUS
<1>7. ASSUME NEW f \in File
      PROVE  Named(f)' = IdsOf(state[f]) /\ NoRun(f)'
  <2>1. \A k \in Job : worker'[k] = Idle
      BY <1>1
  <2>2. Named(f)' = IdsOf(state'[f]) \cup UNION {Handled(worker'[k]) : k \in {i \in Job : i[1] = f}}
      BY DEF Named, Handled, IdsOf
  <2>3. \A k \in Job : Handled(worker'[k]) = {}
      BY <2>1 DEF Handled
  <2> QED BY <1>1, <2>1, <2>2, <2>3 DEF NoRun
<1>8. /\ node' \in [Id -> Segment \cup {None}]
      /\ \A f \in File : Shrinks(f) /\ Active(f)' = Active(f) \ (S \ IdsOf(state[f]))
  <2>1. \A f \in File : Named(f)' \subseteq Refs(f)
      BY <1>7, RefsAre
  <2>2. LeaveBehind(S)
      BY <1>1, <1>6
  <2> QED BY <1>2, <1>7, <2>1, <2>2, LeaveIs
<1>9. ASSUME NEW f \in File, NEW n \in Active(f)
      PROVE  n \in S <=> \/ n \in orphans
                         \/ \E j \in Job : j[1] = f /\ worker[j] # Idle /\ n \in Created(worker[j])
  <2>1. ASSUME NEW j \in Job, worker[j] # Idle, n \in Created(worker[j])
        PROVE  j[1] = f
    <3>1. n \in Refs(j[1]) /\ j[1] \in File /\ n \in Refs(f)
        BY <1>2, <1>9, <2>1, HandledIs, RefsAre
    <3> QED BY <1>2, <3>1 DEF Apart
  <2> QED BY <1>3, <1>5, <1>6, <2>1 DEF c
<1>10. Types'
  <2>1. state' \in [File -> Version \cup {None}] /\ worker' \in [Job -> Works \cup {Idle}]
      BY <1>1, <1>2 DEF Types
  <2>2. \A k \in Job : worker'[k] = Idle
      BY <1>1
  <2> QED BY <1>1, <1>2, <1>8, <2>1, <2>2, JobTypes
<1>11. ASSUME NEW f \in File
       PROVE  FileOK(f)'
  <2> SUFFICES ASSUME f \notin spoiled'
               PROVE  FileOK(f)'
      BY DEF FileOK
  <2>1. FileOK(f) /\ f \notin spoiled
      BY <1>1 DEF IInv, Core
  <2>2. Whole(f) /\ Active(f)' = IdsOf(state[f])
    <3>1. CASE NoRun(f)
      <4>1. S \cap Active(f) \subseteq orphans /\ orphans \subseteq S
          BY <1>6, <1>9, <1>11, <3>1 DEF NoRun
      <4> QED BY <1>8, <1>11, <2>1, <3>1, <4>1, OrphansLeft
    <3>2. CASE orphans \cap Active(f) = {} /\ \E j \in Job : Alone(f, j) /\ InHand(f, worker[j])
      <4>1. PICK j \in Job : Alone(f, j) /\ InHand(f, worker[j])
          BY <3>2
      <4>2. worker[j] # Idle /\ j[1] = f /\ ~Torn(worker[j])
          BY <1>1, <1>3, <1>4, <4>1 DEF Alone
      <4>3. /\ worker[j] \in Works /\ Sized(worker[j]) /\ worker[j].was = state[f]
            /\ Range(Old(worker[j])) \subseteq Refs(f)
          BY <1>2, <4>1, <4>2, HandledIs DEF InHand
      <4>4. Range(Old(worker[j])) = IdsOf(state[f])
          BY <4>3, OldIs
      <4>5. \A n \in Active(f) : n \in S <=> n \in Created(worker[j])
          BY <1>9, <1>11, <3>2, <4>1, <4>2 DEF Alone
      <4>6. Whole(f) /\ Active(f) \ Created(worker[j]) = IdsOf(state[f])
        <5>1. PICK w : w = worker[j]
            OBVIOUS
        <5> QED BY <1>2, <1>11, <4>1, <4>2, <4>3, <4>4, <5>1, NotTorn
      <4>7. IdsOf(state[f]) \cap Created(worker[j]) = {}
          BY <4>4 DEF Created
      <4> QED BY <1>8, <1>11, <4>5, <4>6, <4>7
    <3> QED BY <2>1, <3>1, <3>2 DEF FileOK, Orphaned
  <2> QED BY <1>1, <1>2, <1>7, <1>8, <1>11, <2>2, RestsIs
<1>12. Apart'
  <2>1. \A f \in File : Named(f)' \subseteq Refs(f)
      BY <1>7, RefsAre
  <2> QED BY <1>2, <1>8, <2>1, ApartKept
<1>13. ASSUME NEW f \in File, Free(f)
       PROVE  \A n \in Active(f) : node'[n] = node[n]
  <2>1. \A n \in Active(f) : n \notin S
      BY <1>9, <1>13 DEF Free
  <2> QED BY <1>8, <1>13, <2>1 DEF Shrinks
<1>14. Spares
    BY <1>1, <1>13 DEF Spares
<1> QED BY <1>10, <1>11, <1>12, <1>14 DEF IInv, Core

-----------------------------------------------------------------------------
(* The specification.                                                      *)

\* What a note may say is a sequence of numbers.
LEMMA TextIs ==
  /\ Text \subseteq Seq(Nat) /\ <<>> \in Seq(Nat)
<1>1. ASSUME NEW t \in Text
      PROVE  t \in Seq(Nat)
  <2>1. t \in Seq(Nat \ {0})
      BY SourceAssumption
  <2> QED BY <2>1
<1> QED BY <1>1

\* While states are removed, nobody else changes them or the vault.
LEMMA StaleStep ==
  ASSUME IInv, [Next]_vars
  PROVE  StaleOK'
<1> USE DEF IInv, StaleOK
<1>1. ASSUME stale' = stale, state' = state, disk' = disk
      PROVE  StaleOK'
    BY <1>1
<1>2. ASSUME NEW kind, RunSync(kind)
      PROVE  StaleOK'
  <2>1. stale' = Stale /\ state' = state /\ disk' = disk
      BY <1>2 DEF RunSync
  <2>2. \A f \in Stale : f \in File \ Known /\ state[f] # None
      BY DEF Stale
  <2>3. ASSUME NEW f \in Stale
        PROVE  state[f] # None /\ disk[f].at = "gone"
      BY <2>2 DEF Known
  <2> QED BY <2>1, <2>3
<1>3. ASSUME stale' = stale, ~MidTurn
      PROVE  StaleOK'
    BY <1>3 DEF MidTurn
<1>4. CASE \E f \in File : Edit(f) \/ Delete(f) \/ Evict(f) \/ Download(f)
    BY <1>3, <1>4 DEF Edit, Delete, Evict, Download, Change, sync
<1>5. CASE \E f \in File : Takes(f) \/ WatcherFires(f)
    BY <1>1, <1>5 DEF Takes, WatcherFires, sync
<1>6. CASE \E j \in Job : CreateNode(j)
    BY <1>1, <1>6 DEF CreateNode, sync
<1>7. CASE \E j \in Job : Embedded(j)
    BY <1>3, <1>7 DEF Embedded, sync
<1>8. CASE \E j \in Job : Supersede(j) \/ Superseded(j)
    BY <1>1, <1>8 DEF Supersede, Superseded, sync
<1>9. CASE \E j \in Job : WriteState(j)
    BY <1>3, <1>9 DEF WriteState, sync
<1>10. CASE \E j \in Job : Fails(j)
    BY <1>1, <1>10 DEF Fails, sync
<1>11. CASE \E f \in File : Forget(f)
  <2>1. PICK f \in File : Forget(f)
      BY <1>11
  <2>2. stale' = stale \ {f} /\ disk' = disk /\ state' = [state EXCEPT ![f] = None]
      BY <2>1 DEF Forget
  <2> QED BY <2>2 DEF Core, Types
<1>12. CASE \E n \in Id : Archive(n)
    BY <1>1, <1>12 DEF Archive
<1>13. CASE Start
  <2>1. CASE scan = "none"
      BY <1>2, <1>13, <2>1 DEF Start
  <2>2. CASE scan # "none"
      BY <1>1, <1>13, <2>2 DEF Start, sync
  <2> QED BY <2>1, <2>2
<1>14. CASE Rescan
    BY <1>2, <1>14 DEF Rescan
<1>15. CASE ScanEnds \/ Stop
    BY <1>1, <1>15 DEF ScanEnds, Stop, sync
<1>16. CASE RemovalFails \/ Crash
    BY <1>16 DEF RemovalFails, Crash
<1>17. CASE UNCHANGED vars
    BY <1>1, <1>17 DEF vars, sync
<1> QED BY <1>4, <1>5, <1>6, <1>7, <1>8, <1>9, <1>10, <1>11, <1>12, <1>13, <1>14, <1>15, <1>16, <1>17
        DEF Next, Runs, Removes

\* Every action.
LEMMA NextOK ==
  ASSUME IInv, Next
  PROVE  Core' /\ Spares
<1>1. disk \in [File -> [at : {"here", "away", "gone"}, text : Seq(Nat), stamp : Nat]]
    BY DEF IInv, Core, Types
<1>2. ASSUME NEW f \in File, Edit(f) \/ Delete(f) \/ Evict(f) \/ Download(f)
      PROVE  Core' /\ Spares
  <2>1. PICK at \in {"here", "away", "gone"}, text \in Seq(Nat) : Change(f, at, text)
    <3>1. disk[f].text \in Seq(Nat)
        BY <1>1
    <3> QED BY <1>2, <3>1, TextIs DEF Edit, Delete, Evict, Download
  <2>2. disk' = [disk EXCEPT ![f] = [at |-> at, text |-> text, stamp |-> disk[f].stamp + 1]]
      BY <2>1, <1>1 DEF Change
  <2>3. PICK s : s = disk[f].stamp + 1
      OBVIOUS
  <2>4. s \in Nat
      BY <1>1, <2>3
  <2>5. disk' \in [File -> [at : {"here", "away", "gone"}, text : Seq(Nat), stamp : Nat]]
      BY <1>1, <2>2, <2>3, <2>4
  <2>6. UNCHANGED <<state, node, worker, orphans, spoiled>>
      BY <2>1 DEF Change, sync
  <2> QED BY <2>5, <2>6, StillOK
<1>3. CASE \E f \in File : WatcherFires(f)
    BY <1>3, WatcherFiresOK
<1>4. CASE \E f \in File : Takes(f)
    BY <1>4, TakesOK
<1>5. CASE \E j \in Job : CreateNode(j)
    BY <1>5, CreateNodeOK
<1>6. CASE \E j \in Job : Embedded(j)
    BY <1>6, EmbeddedOK
<1>7. CASE \E j \in Job : Supersede(j)
    BY <1>7, SupersedeOK
<1>8. CASE \E j \in Job : Superseded(j)
    BY <1>8, SupersededOK
<1>9. CASE \E j \in Job : WriteState(j)
    BY <1>9, WriteStateOK
<1>10. CASE \E j \in Job : Fails(j)
    BY <1>10, FailsOK
<1>11. CASE \E f \in File : Forget(f)
    BY <1>11, ForgetOK
<1>12. CASE \E n \in Id : Archive(n)
    BY <1>12, ArchiveOK
<1>13. CASE Start \/ Rescan \/ ScanEnds \/ Stop
  <2>1. UNCHANGED <<disk, state, node, worker, orphans, spoiled>>
      BY <1>13 DEF Start, Rescan, RunSync, ScanEnds, Stop, sync
  <2> QED BY <1>1, <2>1, StillOK
<1>14. CASE RemovalFails
    BY <1>14, RemovalFailsOK
<1>15. CASE Crash
    BY <1>15, CrashOK
<1> QED BY <1>2, <1>3, <1>4, <1>5, <1>6, <1>7, <1>8, <1>9, <1>10, <1>11, <1>12, <1>13, <1>14, <1>15
        DEF Next, Runs, Removes

\* Every step of the specification.
LEMMA StepOK ==
  ASSUME IInv, [Next]_vars
  PROVE  IInv' /\ (Next => Spares)
<1>1. StaleOK'
    BY StaleStep
<1>2. CASE Next
    BY <1>1, <1>2, NextOK DEF IInv
<1>3. CASE UNCHANGED vars
  <2>1. UNCHANGED <<disk, state, node, worker, orphans, spoiled>>
      BY <1>3 DEF vars, sync
  <2>2. Core' /\ Spares
      BY <2>1, StillOK DEF IInv, Core, Types
  <2> QED BY <1>1, <2>2 DEF IInv
<1> QED BY <1>2, <1>3

\* A source that was never scanned.
LEMMA InitOK == Init => IInv
<1> SUFFICES ASSUME Init
             PROVE  IInv
    OBVIOUS
<1>1. disk \in [File -> [at : {"here", "away", "gone"}, text : Seq(Nat), stamp : Nat]]
    BY TextIs DEF Init
<1>2. /\ \A f \in File : state[f] = None
      /\ \A n \in Id : node[n] = None
      /\ \A j \in Job : worker[j] = Idle
      /\ orphans = {} /\ stale = {}
    BY DEF Init
<1>3. Types
    BY <1>1, <1>2 DEF Init, Types
<1>4. ASSUME NEW f \in File
      PROVE  Active(f) = {} /\ Named(f) = {} /\ NoRun(f)
  <2>1. IdsOf(state[f]) = {} /\ \A j \in Job : Handled(worker[j]) = {}
      BY <1>2 DEF IdsOf, Handled
  <2> QED BY <1>2, <2>1 DEF Active, Named, NoRun
<1>5. Apart
    BY <1>4 DEF Apart, Refs
<1>6. \A f \in File : FileOK(f)
    BY <1>2, <1>4 DEF FileOK, Remembered, Whole, IdsOf
<1> QED BY <1>2, <1>3, <1>5, <1>6 DEF IInv, Core, StaleOK

\* The notes' nodes stay apart, and each note that was not spoiled is at rest,
\* about to be removed, or in the hands of one run, whatever the user, iCloud
\* and faults do.
THEOREM Invariance == Spec => []IInv
<1>1. IInv /\ [Next]_vars => IInv'
    BY StepOK
<1> QED BY InitOK, <1>1, PTL DEF Spec

\* Recall finds a note's nodes exactly as its sync state lists them, in any
\* vault and after any edits, evictions, stops, interrupted removals and
\* failures.
THEOREM MemoriesMatch == Spec => []StateNamesTheNodes
<1>1. IInv => StateNamesTheNodes
  <2> SUFFICES ASSUME IInv, NEW f \in File, f \notin spoiled, Free(f)
               PROVE  IF state[f] = None THEN Active(f) = {}
                      ELSE /\ Active(f) = Range(state[f].ids)
                           /\ \A i \in DOMAIN state[f].text :
                                node[state[f].ids[i]] = [file |-> f, what |-> state[f].text[i]]
      BY DEF StateNamesTheNodes
  <2>1. Remembered(f)
      BY FreeIs
  <2> QED BY <2>1 DEF Remembered, Whole, Tells, IdsOf
<1> QED BY Invariance, <1>1, PTL

\* No step of the program takes the state or a memory of a note that is only
\* evicted and that nobody works on.
THEOREM EvictionIsSafe == Spec => EvictionSpares
<1>1. IInv /\ [Next]_vars =>
        [\A f \in File : disk[f].at = "away" /\ Free(f) =>
           state'[f] = state[f] /\ \A n \in Active(f) : node'[n] = node[n]]_vars
    BY StepOK DEF Spares
<1> QED BY Invariance, <1>1, PTL DEF Spec, EvictionSpares

===============================================================================
