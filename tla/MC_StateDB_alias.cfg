\* Nine DBs: eight copies are the fewest that give two copies of one DB
\* (slices of length 6 in one backing array of capacity 8) a copy each.
\* No writes, no error and no SetEVM, whose new slices only remove sharing.
CONSTANTS
    MaxDBs = 9
    MaxWrites = 0
    MaxErrDBs = 0
    MaxEVMDBs = 0
SPECIFICATION Spec
INVARIANT SnapshotsFollowParents
CHECK_DEADLOCK FALSE
