---------------------------- MODULE MCCliRuntime ----------------------------
(* Small instances of CliRuntime for TLC.                                  *)
EXTENDS CliRuntime, TLC

Symmetry == Permutations(Attempt) \cup Permutations(Proc)

(* Constraints that split the system into the parts a run looks at.        *)
NoSettings ==
    /\ \A c \in Conn : op[c].type = "none" /\ conn[c] # "unfit"
    /\ archived = {}

OnlyDigestWork ==
    /\ NoSettings
    /\ \A i \in Attempt : pc[i] # "idle" => call[i].kind \in {"async", "retry"}

(* The desktop application locks out a second instance; other processes    *)
(* are servers, whose digests another run has.                             *)
OneDesktop == \A p, q \in Proc : Desktop(p) /\ Desktop(q) => p = q

NoWorkerDies == \A p \in Proc : proc[p] # "degraded"

(* One of the calls is a background call.                                  *)
SomeBackground ==
    \E i \in Attempt : pc[i] = "idle" \/ call[i].kind # "test"

(* Archiving meets one call, with checks and resumes but no tests.         *)
ArchivedWithOne ==
    archived # {} =>
        /\ \A i, j \in Attempt : pc[i] # "idle" /\ pc[j] # "idle" => i = j
        /\ \A c \in Conn : op[c].type \notin {"prepare", "test"}

(* A connection that is found unfit meets one call.                        *)
UnfitWithOne ==
    (\E c \in Conn : conn[c] = "unfit" \/ op[c].prev = "unfit") =>
        \A i, j \in Attempt : pc[i] # "idle" /\ pc[j] # "idle" => i = j

(* A lease that its owner failed to release ...                            *)
NoneRetained ==
    \A a \in Account :
        lease[a].inv # None =>
            pc[lease[a].inv] \notin {"released", "reporting", "completing", "refusing", "done"}

(* ... meets calls that work on a digest for the first time.               *)
FewRetained ==
    \/ NoneRetained
    \/ \A i \in Attempt : pc[i] # "idle" => call[i].kind = "async"
    \/ \E i \in Attempt : pc[i] = "idle"
=============================================================================
