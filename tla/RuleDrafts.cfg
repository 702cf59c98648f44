\* Two requests on one rule, the owner's or another user's.
CONSTANTS
    one = one
    true1 = true1
    other = other
    Owners = {o1, o2}
    Rules = {x1}
    Requests = {r1, r2}
    Contents <- MCTitles
    TitleOf <- MCTitleOf
    PythonValue <- MCPythonValue
    NoOwner = NoOwner
    NoRule = NoRule
    NoContent = NoContent
    NoTitle = "none"
    PageSize = 2
    MaxVersion = 4
SPECIFICATION Spec
SYMMETRY Interchangeable
INVARIANTS TypeOK RowMatchesVersions ReadsAreConsistent ListsAreComplete MarksAreCurrent
PROPERTIES RevisionsExtendTheirBase DamageIsNotLaundered ImplementsRuleLog
