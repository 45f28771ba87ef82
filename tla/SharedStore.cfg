\* Two imports of one cassette, a recorder and two processes that open the store.
CONSTANTS
    Importers = {i1, i2}
    Recorders = {r1}
    Openers = {o1, o2}
    Digests = {d1, d2}
    Cassettes = {c1}
SPECIFICATION Spec
SYMMETRY Symmetry
CHECK_DEADLOCK FALSE
INVARIANTS
    ImportsKeepBlobs
    ImportedOnce
    StagesAreRecovered
