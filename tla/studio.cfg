SPECIFICATION FairSpec
CONSTANTS
    p1 = p1  p2 = p2  p3 = p3  p4 = p4  p5 = p5
    PolicyOrder <- MCPolicyOrder
    FirstPolicies <- MCFirstPolicies
    FirstVersion <- MCFirstVersion
    Movable = {p1}
    Retired = {p3}
    Typed = {"typed"}
    MaxVersions = 4
    MaxClicks = 3
    MaxCalls = 2
    MaxTroubles = 1
    None = None
INVARIANTS TypeOK WritesStayInPolicy SavedWasStored 
PROPERTIES LateLoadKeepsTyping SavingEnds
CHECK_DEADLOCK FALSE
