SPECIFICATION FairSpec
CONSTANTS
    r1 = r1  h1 = h1  ann = ann  bob = bob  dev = dev
    Requests = {r1}
    Approvals = {h1}
    Me = ann
    Colleagues = {bob}
    Admins = {}
    Requester <- MCRequester
    MaxLoads = 3
    MaxTroubles = 1
    Earlier = Earlier
    None = None
INVARIANTS TypeOK SuccessIsRecorded OwnDecisionIsShown MineIsWhatICanDecide
PROPERTIES OneCallAtATime LoadShowsLatestSeen LoadingEnds
CHECK_DEADLOCK FALSE
