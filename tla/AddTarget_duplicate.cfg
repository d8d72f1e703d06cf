\* A user asks twice for the same target.
CONSTANTS
    code = code  spaced = spaced  other = other  spaces = spaces
    Users = {u1, u2}
    Groups = {g1}
    Unknown = Unknown
    Texts = {code, spaced, other, spaces}
    Blank = Blank
    Normal <- NormalForm
    Calls = {k1, k2}
    Nothing = Nothing
SPECIFICATION Spec
SYMMETRY Interchangeable
CHECK_DEADLOCK FALSE
INVARIANTS DuplicateIsConflict
