SPECIFICATION Spec
CONSTANTS
    PageCells = 2
    Pages = 6
    ArenaCells = 3
    BootPages = 2
    ImageSize <- Sizes
    Packages <- AllPackages
    Boards <- AllBoards
INVARIANTS
    TypeOK
    StartsWholeImage
    DecoderReadsItsWrites
    GoodPackageInstalls
    BootloaderWhole
PROPERTIES
    PackageUntouched
    GivesUpAppForGoodPackage
    OneAttempt
