SPECIFICATION Spec
CONSTANTS
    MIN_STDIN_BUFFER_SIZE = 2
    MAX_STDIN_BUFFER_SIZE = 8
    STDIN_SETBACK = 2
    MaxTyped = 7
    MaxRead = 3
INVARIANT InputInOrder
CHECK_DEADLOCK FALSE
