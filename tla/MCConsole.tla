------------------------------ MODULE MCConsole ------------------------------
(* Small inventories for the parts of Console.                              *)
EXTENDS Console, TLC

CONSTANTS k1, k2, g1, g2, p1, f1, f2, a1, a2, r1, r2

MCGrantOrder  == <<g1, g2>>
MCFirstStatus == g1 :> "active" @@ g2 :> "pending_review"
MCPolicies    == {p1}
MCFolders     == {f1, f2}
MCExisting    == {f1}
MCCheckIds    == {k1, k2}
MCAgentOrder  == <<a1, a2>>
MCReviews     == {r1, r2}
MCOwn         == {r2}
MCReplacing   == {r1, r2}
=============================================================================
