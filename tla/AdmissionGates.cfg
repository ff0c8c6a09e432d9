SPECIFICATION FairSpec
CONSTANTS
    MaxAgents = 2
    Message = {1, 2}
    Mentions = {1}
    Commands = {{}, {1}}
    Policies = {"request_approval", "public"}
    Modes = {"mention", "sticky"}
    ConnectMode = "mention"
    MaxReplays = 2
    MaxCrashes = 1
INVARIANTS  TriggersAreAdmitted
PROPERTIES ApprovedIsDelivered
CHECK_DEADLOCK FALSE
