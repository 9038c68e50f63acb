CONSTANTS
    Absent = Absent
    Docs <- MCGenDocs
    Identifier <- MCIdentifier
    Rank <- MCRank
    GoName <- MCGoName
    FKColumn <- MCFKColumn
    DefaultTable <- MCDefaultTable
    DigitFirst <- MCDigitFirst
SPECIFICATION GenSpec
INVARIANT GeneratedCodeCompiles
\* The generator stops when it has returned.
CHECK_DEADLOCK FALSE
