\* Three items of one or two blocks, the first with a path outside the media
\* root, and the engine; a sweeper that may fail, or beside it an evict-now command,
\* or two handlers that evict two of the items in any state.
CONSTANTS
    sweeper = sweeper  command = command  handler = handler  again = again
    Ids = {1, 2, 3}
    Sizes = {1, 2}
    Outside = {1}
    Sweepers = {sweeper}
    Commands = {command}
    Handlers = {handler, again}
    Policies <- Caps
    EnvPolicy <- EnvCaps
    Settings <- Company
    MaxClock = 1
SPECIFICATION BoundedSpec
INVARIANTS TypeOK FileGoesWithRow
PROPERTIES OldestFirst StopsAtTarget CapEnforced
\* With everything downloaded, or no cap, the system has nothing left to do.
CHECK_DEADLOCK FALSE
