SPECIFICATION SetupSpec
CONSTANTS
    Command = {c1, c2}
    Home = {h1, h2}
    None = None
    Broken = Broken
    Edited = Edited
SYMMETRY Symmetry
INVARIANTS
    ServiceAsInstalled
    FilesSettle
PROPERTIES
    SettingsKept
