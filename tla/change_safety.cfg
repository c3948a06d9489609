SPECIFICATION Spec
CONSTANTS
    ann = ann
    bob = bob
    Subject = {ann, bob}
    Handler = {h1, h2, h3}
    Request <- AllRequests
    Comment <- TwoComments
    Operation <- AllOperations
    InitRoles <- TwoPeople
    None = None
SYMMETRY HandlerSymmetry
CONSTRAINT OneStory
INVARIANTS
    NoLostUpdate
    KeyUsedOnce
    TruthfulReplies
PROPERTIES
    LedgerSpec
