SPECIFICATION Spec
CONSTANTS
    BdCount = 2
    None = None
INVARIANT
    NothingForgotten
