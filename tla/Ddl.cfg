CONSTANTS
    Schemas <- MCSchemas
    Word <- MCWord
    Limit = 4
    MaxSalt = 8
    Hash <- MCHash
    Fold <- MCFold
SPECIFICATION Spec
INVARIANTS TypeOK NothingMissing IndexNamesDistinct SeeksAreServed
\* Emit returns, and Postgres stops at the end of the file or at a statement it refuses.
CHECK_DEADLOCK FALSE
