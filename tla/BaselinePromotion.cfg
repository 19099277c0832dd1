SPECIFICATION Spec
CONSTANTS
    p1 = p1
    p2 = p2
    p3 = p3
    NoOne = NoOne
    Promoters <- ThreePromoters
SYMMETRY Interchangeable
INVARIANTS
    NothingLeftBehind
    ReceiptIsOfTarget
    RaceHasWinner
