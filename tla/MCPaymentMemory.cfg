CONSTANTS
    alice = alice
    bob = bob
    n1 = n1
    n2 = n2
    n3 = n3
    s1 = s1
    s2 = s2
    NoOne = NoOne
    NoToken = NoToken
    Agents <- MCAgents
    Nonces <- MCNonces
    Slots <- MCSlots
    Backend = "memory"
    BasePrice = 20
    Quotes <- MCQuotes
    Offers <- MCOffers
    ScorePerPayment = 50
    Deposits <- MCDeposits
    MaxDeposited = 80
SPECIFICATION Spec
SYMMETRY Symmetry
CHECK_DEADLOCK FALSE
INVARIANTS
    
    HintBlameDeserved
