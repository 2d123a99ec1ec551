SPECIFICATION Spec
CONSTANTS
    Key = {k1, k2, k3}
    NoKey = NoKey
    Api = {a1}
    Secret = {x, y}
    Blank = Blank
    Saver = {w1}
    FollowsReadme = TRUE
INVARIANT EverySecretReadable
SYMMETRY Symmetry
