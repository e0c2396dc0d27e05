\* Nine methods, nine clients, any table of four rows, two writes; five more tables with
\* names, subclasses and types that are hard to map, three or four writes.
CONSTANTS
    None = None
    NaN = NaN
    Repeated = Repeated
    Null = Null
    Kinds <- MCKinds
    Like <- MCLike
    Walks <- MCWalks
    Camels <- MCCamels
    Snakes <- MCSnakes
    Letters <- MCLetters
    Digits <- MCDigits
    Texts <- MCTexts
    Numerals <- MCNumerals
    Beyond <- MCBeyond
    Scalars <- MCScalars
    Ann = Ann
    Hash = Hash
    Password = Password
    Json = Json
    JsonText = JsonText
    BadText = BadText
    Five = Five
    FiveText = FiveText
    Huge = Huge
SPECIFICATION Spec
CHECK_DEADLOCK FALSE
INVARIANTS
    ListTypeOK
    PagesAreFiltered
    TotalAgrees
    WalkIsComplete
    SavedIsRead
    AuditNamesTheUser
