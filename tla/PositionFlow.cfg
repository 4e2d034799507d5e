\* One create-position page and one rebalance card, two accounts.
SPECIFICATION Spec
CONSTANTS
    Account = {a1, a2}
    Page = {p}
    Card = {c}
    None = None
    Token <- MCToken
    Need <- MCNeed
    Yield <- MCYield
    MaxSent <- MCMaxSent
    MaxMoves = 3
    MaxLate = 1
    MaxNfts = 3
INVARIANTS
    TypeOK
    RecordsAreBacked
    ShortMintsAreRaces
    ApprovalsAreExact
SYMMETRY AccountSymmetry
CHECK_DEADLOCK FALSE
