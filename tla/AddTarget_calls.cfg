\* Two overlapping calls of two users, timeouts, failures and restarts of the bot.
CONSTANTS
    code = code  spaced = spaced  other = other  spaces = spaces
    Users = {u1, u2}
    Groups = {g1}
    Unknown = Unknown
    Texts = {code, spaced, other, spaces}
    Blank = Blank
    Normal <- NormalForm
    Calls = {k1, k2}
    Nothing = Nothing
SPECIFICATION FairSpec
CHECK_DEADLOCK FALSE
INVARIANTS TypeOK UsersTrackSomething EachRowOnce RepliesHonest
PROPERTIES RequestsEnd
