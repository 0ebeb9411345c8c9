SPECIFICATION FairSpec
CONSTANTS
    Watched = {"access", "lists", "form", "folders", "records", "editor",
               "grant table", "source review", "approvals", "reviews"}
    g1 = g1  g2 = g2
    GrantOrder <- MCGrantOrder
    FirstStatus <- MCFirstStatus
    Filters = {"all", "suspended"}
    Sources = {s1, s2}
    Profiled = {s1}
    Targets = {t1, t2}
    Declared = {t1}
    p1 = p1  f1 = f1  f2 = f2
    Policies <- MCPolicies
    Folders <- MCFolders
    Existing <- MCExisting
    k1 = k1  k2 = k2
    CheckIds <- MCCheckIds
    a1 = a1  a2 = a2
    AgentOrder <- MCAgentOrder
    Approvals = {h1, h2}
    StatusFilters = {"all", "pending", "approved"}
    r1 = r1  r2 = r2
    Reviews <- MCReviews
    Own <- MCOwn
    Replacing <- MCReplacing
    MaxLoads = 2
    MaxCalls = 2
    MaxSubmits = 2
    MaxClicks = 3
    MaxNavs = 3
    MaxLookups = 2
    MaxVisits = 2
    MaxSwitches = 2
    MaxPosts = 2
    MaxEdits = 4
    MaxLines = 6
    MaxTroubles = 1
    None = None
INVARIANTS GrantActionsStayTogether NothingIsStoredTwice PageShowsWhatWasRead 
PROPERTIES RefusedOnlyIfStale SubmissionIsFaithful  WhatIsStartedEnds
CHECK_DEADLOCK FALSE
