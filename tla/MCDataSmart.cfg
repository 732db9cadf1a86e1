SPECIFICATION Spec
CONSTANTS
    Absent = Absent
    NoOverride = NoOverride
    None = None
    Unset = Unset
    Var <- Names
    Plain = {"A_bar"}
    OverrideOf <- Suffix
    BaseOf <- Prefix
    MaxStores = 2
    MaxCalls = 5
    OverridesSet <- Orders
    SetVarInputs <- Values
    KeywordInputs <- Pending
    DefaultInputs <- Defaults
    DelVarInputs = {"A", "A_foo"}
    RenameInputs <- Renames
    GetVarInputs = {"A"}
INVARIANTS
    TypeOK
    RegisteredRight
    CacheFresh
    FinalRight
PROPERTIES
    Isolation
