CONSTANTS
    Absent = Absent
    Docs <- MCDocs
    Identifier <- MCIdentifier
    Rank <- MCRank
    GoName <- MCGoName
    FKColumn <- MCFKColumn
    DefaultTable <- MCDefaultTable
SPECIFICATION Spec
INVARIANT CollisionsAreReal
\* The pipeline stops when it has given its verdict.
CHECK_DEADLOCK FALSE
