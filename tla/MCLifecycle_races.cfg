SPECIFICATION Spec
CONSTANTS
    h1 = h1
    h2 = h2
    Handlers = {h1, h2}
    x = x
    y = y
    z = z
    Names = {x, y, z}
    Lower <- CaseFolded
    MaxRestarts = 1
    MaxIds = 3
    MaxSpawns = 2
    MaxEdits = 1
    MaxBoots = 1
SYMMETRY Folding
CONSTRAINT SomeUnexcused
INVARIANTS NameIndexSound RowsMatchRegistry RestartLimitHolds CronFollowsRestart
CHECK_DEADLOCK FALSE
