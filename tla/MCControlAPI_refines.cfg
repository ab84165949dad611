\* Two concurrent calls of any endpoint on one agent, with one Redis command
\* or broadcast failing, every interleaving; the patches keep executionConfig
\* a document (api_refines_malformed is about the other case).
CONSTANTS
    Agents = {a1}
    Reqs = {r1, r2}
    NoReg = NoReg
    NoState = NoState
    NoReq = NoReq
    NoView = NoView
    NoCall = NoCall
    NoDraft = NoDraft
    Ops <- MCOps
    Patches <- MCPatchesDocs
    InitConfigs <- MCInitConfigs
    InitStates <- MCInitStates
    MaxFaults = 1
SPECIFICATION Spec
PROPERTY ImplementsAbstract
