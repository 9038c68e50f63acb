CONSTANTS
    model = model
    migration1 = migration1
    d1 = d1
    d2 = d2
    v1 = v1
    v2 = v2
    None = None
    Junk = Junk
    Garbled = Garbled
    Generated <- MCGenerated
    Migration = migration1
    Sums <- MCSums
    Version <- MCVersion
    Spaced <- MCSpaced
    InOrder <- MCInOrder
    UserTexts <- MCUserTexts
    MaxCrash = 2
    MaxEdit = 3
SPECIFICATION Spec
INVARIANTS TypeOK SavedIsReadable
PROPERTIES LinesSurvive VerdictFromHistory
