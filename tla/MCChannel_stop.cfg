SPECIFICATION ChatSpec
CONSTANTS
    QueueSize = 1
    MaxUpdates = 2
    MaxStarts = 1
PROPERTIES ChatReachesTurn
CHECK_DEADLOCK FALSE
