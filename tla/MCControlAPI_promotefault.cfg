\* One promote_canary followed by a retry, with one Redis command failing.
CONSTANTS
    Agents = {a1}
    Reqs = {r1, r2}
    NoReg = NoReg
    NoState = NoState
    NoReq = NoReq
    NoView = NoView
    NoCall = NoCall
    NoDraft = NoDraft
    Ops <- MCOpsPromoteOnly
    Patches <- MCPatches
    InitConfigs <- MCInitConfigs
    InitStates <- MCStatesPromote
    MaxFaults = 1
SYMMETRY MCSymmetry
SPECIFICATION Spec
INVARIANT PromotionReachesAgent
