SPECIFICATION Spec
CONSTANTS
    Tabs = {t1, t2}
    NoTab = NoTab
    Files = {f1, f2}
    Parts = 2
    Joiners = {g1, g2}
    Faults = {"save", "queue", "storage"}
CONSTRAINT Explored
CHECK_DEADLOCK FALSE
SYMMETRY Symmetric
INVARIANTS TypeOK UploadingIsOpen FileBehindRow NothingLeftBehind
 
