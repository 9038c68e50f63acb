CONSTANTS
    a = a
    b = b
    odd = odd
    space = space
    Tab = Tab
    LF = LF
    CR = CR
    BOM = BOM
    Blank = Blank
    Placeholder = Placeholder
    None = None
    Runes <- MCRunes
    Words <- MCWords
    Letters <- MCLetters
    Odd <- MCOdd
    Orders <- MCOrders
    Texts <- MCTexts
    Distance <- MCDistance
    Less <- MCLess
    Threshold = 2
    Messages = {1, 2}
    MaxTabs = 2
    MaxBlame = 2
SPECIFICATION ReportSpec
CHECK_DEADLOCK FALSE
INVARIANTS ReportTypeOK TabsUnderlined KeysUnderlined OrderForgotten DistanceIsLeast ClosestNamed
