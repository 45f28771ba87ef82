\* A recorder reuses a blob of an import that fails or dies, while the store is opened.
CONSTANTS
    Importers = {i1}
    Recorders = {r1}
    Openers = {o1}
    Digests = {d1}
    Cassettes = {c1}
SPECIFICATION Spec
CHECK_DEADLOCK FALSE
INVARIANTS
    ReferencedBlobsExist
