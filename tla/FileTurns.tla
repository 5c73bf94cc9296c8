------------------------------ MODULE FileTurns ------------------------------
(***************************************************************************)
(* What the agent integration promises the owner of the files it changes:  *)
(* runs take turns on a file, and a run has its turn until it has seen its *)
(* effect there.  A run is shown as applied when it has no turn left, and  *)
(* only then may another one take its place.  What a run has installed it  *)
(* does not install again, and none installs while a removal is the last   *)
(* plan.                                                                   *)
(* AgentIntegration implements this with a journal, fences and recoveries. *)
(***************************************************************************)
EXTENDS Naturals

CONSTANTS Files, Runs

VARIABLES
    content,  \* what each file holds: nothing of ours, part of an effect, ours, the user's own
    last,     \* the kind of the last run planned
    kind,     \* of each run: install or remove
    phase,    \* of each run: none, open, shown as applied, verified, or over
    pending,  \* the files on which each run has its turn
    seen,     \* the files in which each run has seen its effect
    edits     \* how often the user has edited a file

vars == <<content, last, kind, phase, pending, seen, edits>>

Kind == {"install", "remove"}
Phase == {"none", "open", "shown", "verified", "over"}
Before(k) == IF k = "remove" THEN "ours" ELSE "none"
After(k) == IF k = "remove" THEN "none" ELSE "ours"

Init ==
    /\ \E c \in {"none", "ours"} : content = [f \in Files |-> c]
    /\ last = "install"
    /\ kind = [r \in Runs |-> "install"]
    /\ phase = [r \in Runs |-> "none"]
    /\ pending = [r \in Runs |-> {}]
    /\ seen = [r \in Runs |-> {}]
    /\ edits = 0

\* A run gives way to a new one when it has no turn left, or it is in doubt again.
GivesWay(q) ==
    \/ phase'[q] = phase[q]
    \/ phase[q] \in {"open", "shown"} /\ pending[q] = {} /\ phase'[q] = "over"
    \/ phase[q] = "shown" /\ phase'[q] = "open"

\* A new run gets its turn on all files that it has something to do in, none
\* of which is another run's.
Plan(r, k) ==
    LET files == {f \in Files : content[f] = Before(k)}
    IN  /\ phase[r] = "none" /\ phase'[r] = "open" /\ phase' \in [Runs -> Phase]
        /\ \A q \in Runs \ {r} : pending[q] \cap files = {} /\ GivesWay(q)
        /\ \A f \in Files : content[f] # "user"
        /\ last' = k
        /\ kind' = [kind EXCEPT ![r] = k]
        /\ pending' = [pending EXCEPT ![r] = files]
        /\ seen' = [seen EXCEPT ![r] = {}]
        /\ UNCHANGED <<content, edits>>

\* The run whose turn it is replaces what it was planned to replace, or goes on
\* where its effect stopped.  It may stop again.
Write(r, f) ==
    /\ phase[r] = "open" /\ f \in pending[r]
    /\ content[f] \in {Before(kind[r]), "partial"}
    /\ kind[r] = "install" => f \notin seen[r] /\ last = "install"
    /\ \E c \in {After(kind[r]), "partial"} : content' = [content EXCEPT ![f] = c]
    /\ UNCHANGED <<last, kind, phase, pending, seen, edits>>

See(r, f) ==
    /\ phase[r] = "open" /\ f \in pending[r]
    /\ seen' = [seen EXCEPT ![r] = @ \cup {f}]
    /\ UNCHANGED <<content, last, kind, phase, pending, edits>>

\* The turn ends, for good.
Leave(r, f) ==
    /\ phase[r] = "open" /\ f \in pending[r] \cap seen[r]
    /\ pending' = [pending EXCEPT ![r] = @ \ {f}]
    /\ UNCHANGED <<content, last, kind, phase, seen, edits>>

\* A run is presented, doubted, verified, ended.
Turned(r, p) ==
    /\ <<phase[r], p>> \in {<<"open", "shown">>, <<"shown", "open">>,
                            <<"shown", "verified">>, <<"verified", "over">>}
    /\ p = "shown" => pending[r] = {}
    /\ phase' = [phase EXCEPT ![r] = p]
    /\ UNCHANGED <<content, last, kind, pending, seen, edits>>

\* The user edits a file: the only change of a file outside a run's turn.
Edit(f) ==
    /\ edits' = edits + 1
    /\ \E c \in {"none", "ours", "user"} : content' = [content EXCEPT ![f] = c]
    /\ UNCHANGED <<last, kind, phase, pending, seen>>

Next ==
    \/ \E f \in Files : Edit(f)
    \/ \E r \in Runs : \/ \E k \in Kind : Plan(r, k)
                       \/ \E f \in pending[r] : Write(r, f) \/ See(r, f) \/ Leave(r, f)
                       \/ \E p \in Phase : Turned(r, p)

Spec == Init /\ [][Next]_vars
=============================================================================
