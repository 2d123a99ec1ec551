SPECIFICATION Spec
CONSTANTS
    Key = {k1, k2, k3, k4}
    NoKey = NoKey
    Api = {a1}
    Secret = {x, y}
    Blank = Blank
    Saver = {w1, w2}
    FollowsReadme = TRUE
INVARIANT TypeOK
INVARIANT ConfigReadable
INVARIANT DatabaseAloneSaysNothing
PROPERTY DatabaseKeyGoesLast
SYMMETRY Symmetry
