SPECIFICATION AccessSpec
CONSTANTS
    Users = {u, boot}
    Boot = boot
    Models = {m}
    Keys = {k1, k2}
    Requests = {r1, r2}
    MaxTokens = 3
    MaxStarts = 2
    None = None
    Logins = {l1, l2}
    Idps = {"a", "b"}
    Subjects = {"x"}
    MaxChanges = 2
    Sources = {a1}
    NoHeader = NoHeader
    MaxAttempts = 2
    Window = 3
    Horizon = 6
INVARIANTS OneMetaToken PinKept InternalTokenCurrent AutoAdminsRaced RateBound
SYMMETRY Symmetry
CHECK_DEADLOCK FALSE
