SPECIFICATION Spec
CONSTANTS
    Conns = {c1, c2, c3, c4}
    Messages = {m1, m2}
    NoConn = NoConn
CHECK_DEADLOCK FALSE
SYMMETRY Symmetric
INVARIANTS TypeOK SliceIsOpenConns NeverNil
