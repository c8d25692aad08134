SPECIFICATION FairSpec

CONSTANTS
    n1 = n1
    n2 = n2
    n3 = n3
    o1 = o1
    p1 = p1
    p2 = p2
    None = None
    Renewals = {n1, n2, n3}
    Others = {o1}
    Payers = {p1, p2}
    PayerOf <- MCPayerOf
    Floor = 2
    Reserve = 1
    Supply = 5
    MaxEvents = 1

INVARIANTS TypeOK BooksMatchChain
PROPERTY HealthyIsRedeemed
