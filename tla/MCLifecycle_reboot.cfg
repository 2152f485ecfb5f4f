SPECIFICATION Spec
CONSTANTS
    h1 = h1
    h2 = h2
    Handlers = {h1, h2}
    x = x
    y = y
    z = z
    Names = {x, y}
    Lower <- Distinct
    MaxRestarts = 1
    MaxIds = 2
    MaxSpawns = 1
    MaxEdits = 1
    MaxBoots = 1
SYMMETRY Symmetry

INVARIANT CronOwnerLives
CHECK_DEADLOCK FALSE
