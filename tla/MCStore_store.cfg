SPECIFICATION Spec
CONSTANTS
    SettingKeys = {k1, k2}
    Handlers = {h1, h2}
    Unknown = Unknown
    Good = {v1}
    Bad = Bad
    NotScalar = NotScalar
    NoRow = NoRow
    Default = Default
    SecretRows = {r1, r2}
    EncryptionKeys = {e1, e2}
    Empty = Empty
    NoKey = NoKey
    MaxBoots = 4
    Models = {m1, m2}
    Starts = {s1, s2}
    Stops = {d1}
    Supervisor = Supervisor
    Uids = {u1, u2}
    NoModel = NoModel
    NoBox = NoBox
    MaxFaults = 1
    Categories = {c1, c2}
    Repos = {q1}
    Names = {n1, n2}
    None = None
    Off = Off
SYMMETRY Symmetry
INVARIANTS CacheFollowsRows SecretsReadBack UidsApart LeftoversExplained RightModel
CHECK_DEADLOCK FALSE
