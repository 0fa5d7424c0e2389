SPECIFICATION RSpec
CONSTANTS
    Nodes = {1, 2, 3}
    Paths = {"p"}
    Hashes = {"x"}
    MaxRevision = 3
    MaxPublishes = 3
    MaxLists = 3
INVARIANT DeletionHolds
CHECK_DEADLOCK FALSE
