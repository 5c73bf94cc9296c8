----------------------------- MODULE AccountTurn -----------------------------
(***************************************************************************)
(* What the CLI runtime promises about the calls of one subscription       *)
(* account: they take turns, and every call is judged at most once, never  *)
(* behind the back of the caller whose turn it is.  CliRuntime implements  *)
(* this with leases, process checks and reconciliation.                    *)
(***************************************************************************)
CONSTANTS Attempt, Account, None

VARIABLES
    turn,      \* account -> the call that has the account, or None
    verdict    \* call -> "open" until its outcome is recorded

Verdict == {"open", "success", "failed", "unknown"}

Init ==
    /\ turn = [a \in Account |-> None]
    /\ verdict = [i \in Attempt |-> "open"]

(* An open call takes a free account.                                      *)
Take(a, i) ==
    /\ turn[a] = None /\ verdict[i] = "open"
    /\ turn' = [turn EXCEPT ![a] = i]
    /\ UNCHANGED verdict

(* Callers finish, fail or die; several die together with their process.   *)
Leave(S) == turn' = [a \in Account |-> IF a \in S THEN None ELSE turn[a]]

(* Some open calls are judged, none of them while it has a turn.           *)
Judge ==
    /\ verdict' \in [Attempt -> Verdict]
    /\ \A i \in Attempt : verdict[i] # "open" => verdict'[i] = verdict[i]
    /\ \A a \in Account : turn'[a] # None => verdict'[turn'[a]] = "open"

Next ==
    \/ \E a \in Account, i \in Attempt : Take(a, i)
    \/ \E S \in SUBSET Account : Leave(S) /\ Judge

Spec == Init /\ [][Next]_<<turn, verdict>>
=============================================================================
