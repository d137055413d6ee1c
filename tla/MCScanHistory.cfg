SPECIFICATION Spec
CONSTANTS
    j1 = j1
    j2 = j2
    i1 = i1
    i2 = i2
    Jobs = {j1, j2}
    Assessing = {j1, j2}
    Imports = {i1, i2}
    FileOf <- SameFile
    TypesOf <- WebResults
    Types = {"web"}
    NoScan = NoScan
    SetFacets = {"mx"}
    ValueFacets = {"issuer"}
    Values = {"v1", "v2"}
    Blank = Blank
    Nothing = Nothing
    Scenes <- AllScenes
    MaxUpsets = 1
INVARIANTS
    OneBaseline
    ImportAnswersAreTrue
    LostDriftHasCause
    DriftReproducible
PROPERTIES
    StandardsNeverGoBack
SYMMETRY Alike
CHECK_DEADLOCK FALSE
