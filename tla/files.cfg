SPECIFICATION Spec
CONSTANTS
    Process = {p1, p2}
    FileName = {f}
    MAX_FILE_DESCRIPTORS = 2
    FIRST_FD = 1
    FRAME_4KB = 2
    Zero = Zero
    Junk = Junk
    Written = {x, y}
    MaxSize = 3
    OpenFlags = {{"O_RDONLY"}, {"O_WRONLY", "O_CREAT"}, {"O_WRONLY", "O_TRUNC", "O_CREAT"},
                 {"O_RDONLY", "O_DIRECTORY"}, {"O_WRONLY", "O_DIRECTORY"}, {"O_RDONLY", "O_TRUNC"}}
    Initrd = {f}
    InitrdSize = 1
INVARIANTS ContentInFrames
PROPERTIES ImplementsFiles
SYMMETRY Symmetry
