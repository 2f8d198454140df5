CONSTANTS
    Clients = {p1, p2}
    Bases = {"a", "b"}
    Bodies = {"v1", "v2", "w", "x"}
    Broken = {"x"}
    DetectorOf <- MCDetectorOf
    NoManifest = "no manifest"
    Absent = Absent
    Initial <- MCInitial
    Sources <- MCSources
    Edits <- MCEdits
    MaxCalls = 4
    MaxChanges = 1
    MaxCrashes = 1
SPECIFICATION Spec
SYMMETRY ClientSymmetry
CHECK_DEADLOCK FALSE
INVARIANTS
    OpenedMeansMigrated
    EditsAreNoticed
PROPERTIES
    LockedPluginsLoad
