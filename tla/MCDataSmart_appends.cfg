SPECIFICATION Spec
CONSTANTS
    Absent = Absent
    NoOverride = NoOverride
    None = None
    Unset = Unset
    Var <- Names
    Plain = {"A_bar"}
    OverrideOf <- Suffix
    BaseOf <- Prefix
    MaxStores = 1
    MaxCalls = 3
    OverridesSet <- ManualOrders
    SetVarInputs <- Values
    KeywordInputs <- ManualPending
    DefaultInputs <- Defaults
    DelVarInputs = {"A", "A_foo"}
    RenameInputs <- Renames
    GetVarInputs = {"A"}
INVARIANT OverrideAppended
