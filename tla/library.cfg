SPECIFICATION Spec
CONSTANTS
    Streams <- Three
    Mine = {1, 3}
    IsAdmin = FALSE
    Kinds = {"own", "undetected", "public"}
    Sorts = {"created_at"}
    Limits = {0, 1}
    DefaultLimit = 2
    Batches <- AskedFor
    MaxBatch = 2
    MaxChanges = 2
CHECK_DEADLOCK FALSE
INVARIANTS TypeOK WalkMissesNothing PagesAddUp BatchAnswersEach
