SPECIFICATION Spec
CONSTANTS
    Listers = {a, b}
    Slash = "/"
    MAX_OPEN_FILES = 5
    MAX_MOUNT_POINTS = 2
    ENTRY_COUNT = 5
    Entries <- MCEntries
    Paths <- MCPaths
    MountPaths <- MCMountPaths
    Directories <- MCMountPaths
    FsTypes = {"FS_INITRAMFS", "FS_FAT32"}
    ReadSizes = {1, 3}
INVARIANTS
    TypeOK
    OpenFilesServed
    ListingAdvances
SYMMETRY Symmetry
PROPERTIES
    ImplementsDescriptors
CHECK_DEADLOCK TRUE
