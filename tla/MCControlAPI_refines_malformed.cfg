\* inject_config with a patch that makes executionConfig a scalar, and
\* promote_canary, on one agent; no failures.
CONSTANTS
    Agents = {a1}
    Reqs = {r1, r2}
    NoReg = NoReg
    NoState = NoState
    NoReq = NoReq
    NoView = NoView
    NoCall = NoCall
    NoDraft = NoDraft
    Ops <- MCOpsPromote
    Patches <- MCPatches
    InitConfigs <- MCInitConfigs
    InitStates <- MCStatesPromote
    MaxFaults = 0
SPECIFICATION Spec
PROPERTY ImplementsAbstract
