SPECIFICATION Spec
CONSTANTS
    Attempts = {a1, a2, a3}
    Deliveries = {v1, v2, v3, v4, v5}
    Malformed = {v1}
    Installations = {v2}
    Pushes = {v3, v4}
    Tracked = {v3}
    Faults = {"redis", "db", "enqueue", "crash", "expiry"}
    None = None
SYMMETRY AttemptSymmetry
INVARIANTS IntakeTypeOK OneBuildPerDelivery BuiltIsRecorded DuplicatesHaveAnOriginal
