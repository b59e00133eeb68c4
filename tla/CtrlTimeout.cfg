SPECIFICATION FairSpec
CONSTANTS
 NrIo = 1
 Grants = {1}
 Req = {r1}
 MaxReconnects = 1
 MaxErrors = 1
 MaxResets = 1
 MaxHung = 1
 Icdoff = {FALSE}

PROPERTIES TimedOutIsHandled
CHECK_DEADLOCK FALSE
