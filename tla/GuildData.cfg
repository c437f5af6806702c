\* One default pool, a seed file and imports that interleave with edits.
CONSTANTS
    w1 = w1
    extra = extra
    Extra = Extra
    s1 = s1
    s2 = s2
    Blank = Blank
    Overlong = Overlong
    Slug <- MCSlug
    Name <- MCName
    CleanSlug <- MCCleanSlug
    DefaultPools <- MCDefaultPools
    Text <- MCText
    SeedFile <- MCSeedFile
    ImportFile <- MCImportFile
    Import = {i1, i2}
    Exporter = exporter
    MaxPools = 2
    MaxEntriesPerPool = 3
    MaxPoolId = 3
    MaxCommands = 2
    MaxEdits = 1
    MaxCrashes = 1
SYMMETRY ImportsAreAlike
SPECIFICATION Spec
INVARIANTS
    TypeOK
    SeedNeverRepeats
    SeededPoolsAreWhole
    QuotasHold
    DeletedPoolsStayDeleted
    ImportsAreComplete
    ExportsRestore
CHECK_DEADLOCK FALSE
