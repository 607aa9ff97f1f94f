SPECIFICATION Spec
CONSTANTS
    PageCells = 2
    Pages = 6
    ArenaCells = 3
    BootPages = 2
    ImageSize <- Sizes
    Packages <- DocPackages
    Boards <- DocBoards
PROPERTIES
    BaseMismatchInvalidatesBank
