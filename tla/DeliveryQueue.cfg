\* a chat message, a command, a row without effect and a line of a task's log; once all is done nothing moves
SPECIFICATION FairSpec
CONSTANTS
    Msg = {1, 2, 3, 4}
    Mute = {3}
    Commands = {2}
    Logs = {4}
    MaxAttempts = 2
    MaxLives = 2
INVARIANTS
    EffectsAreBounded
    
PROPERTIES
    NoEffectAfterRecord
    EveryRowIsRecorded
CHECK_DEADLOCK FALSE
