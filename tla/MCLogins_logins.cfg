SPECIFICATION Spec
CONSTANTS
    Logins = {l1, l2}
    Idps = {"a", "b"}
    Subjects = {"x"}
    MaxChanges = 2
PROPERTY DisabledIdpDrains
