SPECIFICATION ParitySpec
CONSTANTS
    Token = {t1, t2}
    MaxUpdates = 2
INVARIANTS ParityTypeOK CaughtUp RustAllSubscribed
PROPERTIES EveryTokenSubscribed RustEveryTokenSubscribed
