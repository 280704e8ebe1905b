SPECIFICATION FairSpec
CONSTANTS
    good = good
    bad = bad
    refused = refused
    Nothing = Nothing
    Mails = {good, bad, refused}
    Malformed = {bad}
    Refused = {refused}
    MaxFaults = 3
INVARIANTS
    TypeOK
    OneDeliveryEach
    AcknowledgedWasSent
    DuplicatesAreExplained
PROPERTIES
    EveryMailSettles
CHECK_DEADLOCK FALSE
