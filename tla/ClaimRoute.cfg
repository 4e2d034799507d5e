\* Three requests with any of the bodies; any of them may die at any await.
SPECIFICATION Spec
CONSTANTS
    mine = mine
    second = second
    worthless = worthless
    elsewhere = elsewhere
    foreign = foreign
    key = key
    NoItem = NoItem
    NoKey = NoKey
    Nobody = Nobody
    Elsewhere = {elsewhere}
    Item <- MCItem
    Mine <- MCMine
    Worthless <- MCWorthless
    Key = {key}
    Request = {r1, r2, r3}
    Body <- AllBodies
    MayDie = TRUE
INVARIANTS
    TypeOK
    PaidIsBacked
    AnswerMatchesItem
    KeyMatchesItem
    OneStandingPayment
    OnlyDeathStrandsAnItem
PROPERTY ImplementsLedger
SYMMETRY RequestSymmetry
CHECK_DEADLOCK FALSE
