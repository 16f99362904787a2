SPECIFICATION Spec
CONSTANTS
    p1 = p1
    p2 = p2
    p3 = p3
    r1 = r1
    Nobody = Nobody
    NoReference = NoReference
    Procs <- TwoProcs
    References <- OneReference
    Amounts <- OneOrTwo
    MoveWallets <- BothWallets
    FeeBps = 5000
    MaxRequests = 4
INVARIANT TypeOK
INVARIANT NoOverdraft
INVARIANT CollectionConsistent
INVARIANT TransferHoldsSource
PROPERTY RequestsEnd
