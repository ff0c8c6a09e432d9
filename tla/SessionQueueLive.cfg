\* a chat message and a task with a script, which may become a follow-up; turns that
\* answer in the end
SPECIFICATION FairSpec
CONSTANTS
    Msg = {1, 2}
    Commands = {}
    Tasks = {2}
    Limit = 2
    MaxTries = 1
    ClearOutcomes = {TRUE}
    StopOutcomes = {TRUE}
PROPERTIES
    KeepsInbox
    EveryMessageSettles
