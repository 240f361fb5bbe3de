SPECIFICATION Spec
CONSTANTS
    Drivers = {"tasks", "instances"}
    MaxKey = 2
    Values = {"ours"}
    Theirs = "theirs"
    Handles = {1, 2, 3}
INVARIANTS
    TypeOK
    HandleOfCall
    ReturnsWithTable
PROPERTIES
    KeepsStore
