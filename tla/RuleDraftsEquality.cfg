\* A draft whose only change is the value 1 made true.
CONSTANTS
    one = one
    true1 = true1
    other = other
    Owners = {o1}
    Rules = {x1}
    Requests = {r1, r2}
    Contents <- MCContents
    TitleOf <- MCTitleOf
    PythonValue <- MCPythonValue
    NoOwner = NoOwner
    NoRule = NoRule
    NoContent = NoContent
    NoTitle = "none"
    PageSize = 2
    MaxVersion = 3
SPECIFICATION Spec
PROPERTIES OnlyUnchangedIsRefused
