-------------------------- MODULE VersionLifecycle --------------------------
(***************************************************************************)
(* The lifecycle of policy versions as an API client is told it: every     *)
(* endpoint is one atomic step that finds the status it requires.          *)
(***************************************************************************)
CONSTANTS Policies, VersionIds, Contents, None

VARIABLES
    status,     \* per version; "absent" before it is created
    policy,     \* per version, the policy it belongs to
    content,    \* per version, its snapshot
    open,       \* versions with a pending review request
    passed      \* versions with an approved review request

vars == <<status, policy, content, open, passed>>

Init ==
    /\ status = [v \in VersionIds |-> "absent"]
    /\ policy = [v \in VersionIds |-> None]
    /\ content = [v \in VersionIds |-> None]
    /\ open = {} /\ passed = {}

Draft(v, p, c) ==
    /\ status[v] = "absent"
    /\ status' = [status EXCEPT ![v] = "draft"]
    /\ policy' = [policy EXCEPT ![v] = p]
    /\ content' = [content EXCEPT ![v] = c]
    /\ UNCHANGED <<open, passed>>

Edit(v, c) ==
    /\ status[v] = "draft" /\ v \notin open
    /\ content' = [content EXCEPT ![v] = c]
    /\ UNCHANGED <<status, policy, open, passed>>

Move(v, from, to) ==
    /\ status[v] \in from
    /\ status' = [status EXCEPT ![v] = to]
    /\ UNCHANGED <<policy, content, open, passed>>

Active(p) == {v \in VersionIds : status[v] = "active" /\ policy[v] = p}

Activate(v) ==
    /\ Active(policy[v]) = {}
    /\ Move(v, IF v \in passed THEN {"draft", "approved"} ELSE {"approved"}, "active")

Replace(u, v) ==
    /\ v \in passed /\ status[v] \in {"draft", "approved"}
    /\ Active(policy[v]) = {u}
    /\ status' = [status EXCEPT ![u] = "superseded", ![v] = "active"]
    /\ UNCHANGED <<policy, content, open, passed>>

RequestReview(v) ==
    /\ status[v] = "draft" /\ v \notin open
    /\ open' = open \cup {v}
    /\ UNCHANGED <<status, policy, content, passed>>

DecideReview(v) ==
    /\ v \in open
    /\ open' = open \ {v}
    /\ passed' \in {passed, passed \cup {v}}
    /\ UNCHANGED <<status, policy, content>>

Next ==
    \/ \E v \in VersionIds, p \in Policies, c \in Contents : Draft(v, p, c)
    \/ \E v \in VersionIds, c \in Contents : Edit(v, c)
    \/ \E v \in VersionIds :
         \/ Move(v, {"draft"}, "under_review")
         \/ Move(v, {"under_review"}, "approved")
         \/ Move(v, {"under_review"}, "rejected")
         \/ Move(v, {"draft", "approved", "rejected", "active", "superseded"}, "archived")
         \/ Activate(v)
         \/ RequestReview(v) \/ DecideReview(v)
    \/ \E u, v \in VersionIds : Replace(u, v)

Spec == Init /\ [][Next]_vars
=============================================================================
