SPECIFICATION FairSpec
CONSTANTS
    Commands = {c1, c2, h1}
    Hooks = {h1}
    HookKinds = {"read", "write"}
    Nobody = Nobody
INVARIANTS
    WritersWorkAlone
PROPERTIES
    CommandsProceed
