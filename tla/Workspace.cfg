SPECIFICATION FairSpec
CONSTANTS
    Runs = {r1, r2}
    Faults = {"crash", "stall", "docker", "kill", "remove", "storage", "db"}
INVARIANTS WorkspaceTypeOK PublishedIsWhole LeftoversHaveACause
PROPERTIES RunsEnd OrphansArePruned
