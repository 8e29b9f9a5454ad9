SPECIFICATION Spec
CONSTANTS
    PROCESSES_MAX = 3
    Frame = {f1, f2, f3, f4, l1}
    Library = {l1}
    NoFrame = NoFrame
    TABLES = 3
    TABLE = 2
    FRAME_SIZE = 2
    Program <- MCProgram
    Length = {1, 3}
    Mapper = {1}
SYMMETRY MCSymmetry
CONSTRAINT MCBound
INVARIANTS WritableIsPrivate NoDoubleFree OnlyInheritedTextIsFreed WritableNeverLost
PROPERTIES FreedUnderneathOnlySo
