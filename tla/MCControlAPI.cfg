CONSTANTS
    Agents = {a1}
    Reqs = {r1, r2}
    NoReg = NoReg
    NoState = NoState
    NoReq = NoReq
    NoView = NoView
    NoCall = NoCall
    NoDraft = NoDraft
    Ops <- MCOps
    Patches <- MCPatches
    InitConfigs <- MCInitConfigs
    InitStates <- MCInitStates
    MaxFaults = 1
SYMMETRY MCSymmetry
SPECIFICATION Spec
INVARIANT TypeOK
 
INVARIANT NotFoundHasNoEffect
INVARIANT PromotionLostOnlyToStaleInject
