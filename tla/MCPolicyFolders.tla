--------------------------- MODULE MCPolicyFolders ---------------------------
EXTENDS PolicyFolders, TLC

CONSTANTS p1, f1, f2

MCPolicies == {p1}
MCFolders  == {f1, f2}
MCExisting == {f1}
=============================================================================
