SPECIFICATION Spec
CONSTANTS
    Name <- Names
    NameLen <- Characters
    MAX_DIRECTORIES = 4
    MAX_FILES = 2
    MAX_NAME_LENGTH = 2
    MAX_FULL_PATH_LENGTH = 7
    MAX_USERS = 3
    MAX_GROUPS = 3
    MAX_USER_GROUPS = 2
    MAX_GROUP_MEMBERS = 2
    MAX_ENVIROMENT_VARIABLES = 2
    MAX_VARIABLE_VALUE_LENGTH = 3
    PasswordLen = 1
    InitialProgram <- FirstProgram
    Archive <- Archives
    Programs = 2
    Path <- Paths
    DirPath <- DirPaths
    FilePath <- FilePaths
    Mode <- SomeModes
    Setting <- Settings
    Bufsize = {2, 20}
    MaxDirectories = 18
    MaxFiles = 3
    BootDirectories = 12
INVARIANTS TreeSound FullpathLeadsBack OneValuePerVariable
PROPERTIES FailureLeavesTree
