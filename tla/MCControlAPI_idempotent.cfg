CONSTANTS
    Agents = {a1}
    Reqs = {r1, r2, r3}
    NoReg = NoReg
    NoState = NoState
    NoReq = NoReq
    NoView = NoView
    NoCall = NoCall
    NoDraft = NoDraft
    Ops <- MCOpsPromote
    Patches <- MCPatches
    InitConfigs <- MCInitConfigs
    InitStates <- MCStatesPromote
    MaxFaults = 0
SYMMETRY MCSymmetry
SPECIFICATION Spec
INVARIANT PromoteIdempotent
