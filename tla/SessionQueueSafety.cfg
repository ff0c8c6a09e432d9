\* three messages for a prompt window of two: chat, a task with a script, a command;
\* the host can always clear claims; a stop may fail, which leaves the container polling
SPECIFICATION Spec
CONSTANTS
    Msg = {1, 2, 3}
    Commands = {3}
    Tasks = {2}
    Limit = 2
    MaxTries = 1
    ClearOutcomes = {TRUE}
    StopOutcomes = {TRUE, FALSE}
CONSTRAINT
    LeftBound
INVARIANTS
    NoSecondContainer
    NoDoubleHandling
    TriesAreEarned
PROPERTIES
    ClaimsClearedAlone
