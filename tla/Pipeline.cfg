CONSTANTS
    Absent = Absent
    Docs <- MCGenDocs
    Identifier <- MCIdentifier
    Rank <- MCRank
    GoName <- MCGoName
    FKColumn <- MCFKColumn
    DefaultTable <- MCDefaultTable
    DigitFirst <- MCDigitFirst
SPECIFICATION GenSpec
INVARIANTS TypeOK FreezeNeverFails ForeignKeysMatch KeysetSafe NotNullHolds MovesAreWarned NamesDistinct
INVARIANTS GenTypeOK ImportsExact DeclaredAsPredicted FailsOnlyFor CompilesUnless InputsHonourFlags
\* The generator stops when it has returned.
CHECK_DEADLOCK FALSE
