SPECIFICATION Spec
CONSTANTS
    Commands = {c1, c2}
    Hooks = {}
    HookKinds = {}
    Nobody = Nobody
INVARIANTS
    DestroyersWorkAlone
