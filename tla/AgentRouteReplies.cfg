SPECIFICATION FairSpec
CONSTANTS
    Owner <- OwnerSmall
    TaskSession = {3}
    Starts = {{1, 2, 3}, {1, 3}}
    MaxWrites = 1
    Watched <- WatchedSmall
    MaxEdits = 1
    MaxCrashes = 1
INVARIANTS  RepliesReturn
PROPERTIES CrossingsAreAllowed ArrivesWithAnAsker SendsSettle
CHECK_DEADLOCK FALSE
