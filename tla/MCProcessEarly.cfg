CONSTANTS
    Threads = {main}
    Main = main
    Creator = creator
    Nobody = Nobody
    Spawners = {}
    EarlyExit = TRUE
    MayFail = FALSE
    MayTerminate = FALSE
SPECIFICATION ProcessSpec
INVARIANT HandleIsValid
CHECK_DEADLOCK FALSE
