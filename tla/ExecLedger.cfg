SPECIFICATION Spec
CONSTANTS
    b1 = b1  b2 = b2  x1 = x1  x2 = x2
    btc = btc  eth = eth
    w1 = w1  w2 = w2  id1 = id1  id2 = id2
    Signals = {b1, b2, x1, x2}
    Symbols = {btc}
    Workers = {w1}
    Identities = {id1}
    Environment = "TESTNET"
    MaxQuantity = 1
    MaxAggregate = 1
    MaxReserved = 2
    MaxPositions = 1
    MaxSubmissions = 1
    UnknownFeeSymbols = {}
    MaxGeneration = 1
    MaxRestarts = 0
    MaxDay = 2
    VenueResets = FALSE
    Intent <- MCIntent
    Symbol <- OneSymbol
INVARIANTS
    ExitsWithinLedger
    ExposureWithinEnvelope
    EntriesWithinDailyBudget
