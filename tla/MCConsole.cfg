CONSTANTS
    VGA_WIDTH = 4
    VGA_HEIGHT = 4
    Letters = {"a", "b"}
    MaxLine = 5
    ArgumentSize = 2
    MaxKeys = 6
    MaxOutput = 1
SPECIFICATION Spec
INVARIANTS
    TypeOK
    LineOnScreen
    CommandIsTyped
    StaleOnlyAfterTrouble
CHECK_DEADLOCK FALSE
