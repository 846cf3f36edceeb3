SPECIFICATION Spec
CONSTANTS
    Records = {b1, b2, b3}
    Chunks = 3
    Erased = Erased
    Garbage = Garbage
    NoCache = NoCache
    Truncated = Truncated
INVARIANTS TypeOK NoGarbage CalibrationBelongs
PROPERTIES WriteEndsValid ValidKept
