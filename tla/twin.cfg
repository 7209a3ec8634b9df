SPECIFICATION Spec
CONSTANTS
    Kinds = {"do_twin"}
    MaxRetries = 1
    MaxChecks = 2
    None = None
    ByName = ByName
    Env = {}
CHECK_DEADLOCK FALSE
INVARIANT KeptIsThere
