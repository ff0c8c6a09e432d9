SPECIFICATION CredentialsFairSpec
CONSTANTS
    Request = {r1, r2}
    MaxClicks = 2
    MaxDeaths = 1
INVARIANTS  WaitingIsAnswerable
PROPERTIES RequestsAreAnswered RowsGo
CHECK_DEADLOCK FALSE
