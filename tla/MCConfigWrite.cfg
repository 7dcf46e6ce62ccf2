CONSTANTS
    Puts = {p1, p2}
    Models = {m1, m2}
    Ceiling <- MCCeiling
    Human = Human
    Unread = Unread
    MaxHand <- MCMaxHand
SPECIFICATION ConfigSpec
INVARIANTS
    ConfigTypeOK
    AckedIsPushed
    NoSilentDivergence
    CommitsOwnEdit
    BudgetKept
    RegistryFollowsFile
PROPERTIES
    RollsBack
CHECK_DEADLOCK FALSE
SYMMETRY Symmetric
