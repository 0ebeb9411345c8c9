------------------------- MODULE GovernedExecution -------------------------
(***************************************************************************)
(* What the control plane and its wrappers promise together: a call gets   *)
(* one verdict, which is final, and its tool runs at most once, only if    *)
(* the verdict allows it or if it asks for a review that was granted.      *)
(***************************************************************************)
CONSTANTS Calls, None

VARIABLES
    verdict,   \* the decision about each call, None before there is one
    granted,   \* calls with a reviewer's approval on record
    executed   \* calls whose tool has run

vars == <<verdict, granted, executed>>

Verdicts == {"allow", "deny", "require_human_review", "not_applicable"}

Init ==
    /\ verdict = [c \in Calls |-> None]
    /\ granted = {}
    /\ executed = {}

Decide(c) ==
    /\ verdict[c] = None
    /\ \E d \in Verdicts : verdict' = [verdict EXCEPT ![c] = d]
    /\ UNCHANGED <<granted, executed>>

Grant(c) ==
    /\ verdict[c] # None
    /\ granted' = granted \cup {c}
    /\ UNCHANGED <<verdict, executed>>

Permitted(c) ==
    \/ verdict[c] = "allow"
    \/ verdict[c] = "require_human_review" /\ c \in granted

Execute(c) ==
    /\ c \notin executed /\ Permitted(c)
    /\ executed' = executed \cup {c}
    /\ UNCHANGED <<verdict, granted>>

Next == \E c \in Calls : Decide(c) \/ Grant(c) \/ Execute(c)

Spec == Init /\ [][Next]_vars
=============================================================================
