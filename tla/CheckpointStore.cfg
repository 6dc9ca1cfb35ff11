\* Two replicas or one development process, and restarts.
SPECIFICATION Spec
CONSTANTS
    Threads = {t1}
    Pods = {p1, p2}
    Runs = {r1, r2}
    Skew = 1
    MaxTime = 6
SYMMETRY Symmetry
INVARIANTS
    TypeOK
    ResumableAnywhere
    NothingForgotten
PROPERTY
    MemorySpec
