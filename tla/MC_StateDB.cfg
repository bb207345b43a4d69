\* Four DBs: the one NewDBImpl makes and three copies, so Finalize walks
\* snapshot slices of up to four contexts, and copies of copies share
\* backing arrays that are full.  Two writes, one DB given an error and
\* one given an EVM, at any point of the copy tree.  Four DBs are too few
\* for two copies of one DB to share a backing array with room (that takes
\* nine, MC_StateDB_alias.cfg), so here the snapshot slices must follow the
\* parents whatever Copy and SetEVM do.
CONSTANTS
    MaxDBs = 4
    MaxWrites = 2
    MaxErrDBs = 1
    MaxEVMDBs = 1
SPECIFICATION Spec
 
PROPERTY FinalizeCommitsItsView
\* A transaction ends once each of its DBs is finalized or failed.
CHECK_DEADLOCK FALSE
