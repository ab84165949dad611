CONSTANTS
    Prices <- MCPrices
    ResultKinds <- MCResultKinds
    MinSpreadNum = 1
    MinSpreadDen = 2
    MaxSignals = 3
    MaxResults = 53
    Missing = Missing
SPECIFICATION Spec
INVARIANTS
    TypeOK
    ExecutionTimesAreLatest
    PairTradeIdsConsecutive
    SignalsBuyLow
