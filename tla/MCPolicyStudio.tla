---------------------------- MODULE MCPolicyStudio ----------------------------
EXTENDS PolicyStudio, TLC

CONSTANTS p1, p2, p3, p4, p5

MCPolicyOrder == <<p1, p2, p3, p4, p5>>

\* A policy with a draft, one under review, one about to be activated, one that has
\* only live rules, and one that is not there yet.
MCFirstPolicies == {p1, p2, p3, p4}
MCFirstVersion ==
    1 :> [ policy |-> p1, st |-> "draft", text |-> "stored", checks |-> TRUE ] @@
    2 :> [ policy |-> p2, st |-> "pending", text |-> "live", checks |-> FALSE ] @@
    3 :> [ policy |-> p3, st |-> "approved", text |-> "live", checks |-> FALSE ] @@
    [ v \in 4..MaxVersions |-> NoVersion ]
=============================================================================
