---------------------------- MODULE MCControlAPI ----------------------------
(***************************************************************************)
(* Model values and small inputs for checking ControlAPI with TLC.         *)
(***************************************************************************)
EXTENDS ControlAPI, TLC

\* JSON strings of the configs; booleans as the strings "true"/"false".
S(x) == Scalar(x)
ExecDoc(f) == Doc(f)

\* Registrations as agents write them.
CfgNoExec   == "risk" :> S("1")
CfgCanary   == "executionConfig" :> ExecDoc("mode" :> S("canary"))
CfgFlagged  == "executionConfig" :> ExecDoc(("mode" :> S("live")) @@ ("canaryMode" :> S("true")))
CfgLive     == "executionConfig" :> ExecDoc(("mode" :> S("live")) @@ ("canaryMode" :> S("false")))

\* Patches an operator may inject: none of them sets canary mode.
PatchRisk       == "risk" :> S("2")
PatchExecNested == "executionConfig" :> ExecDoc("maxSlippage" :> S("1"))
PatchExecScalar == "executionConfig" :> S("off")

MCInitConfigs == {CfgNoExec, CfgCanary, CfgFlagged, CfgLive}
MCPatches     == {PatchRisk, PatchExecNested, PatchExecScalar}
MCInitStates  == {"running", "paused"}
MCOps         == AllOps
MCOpsPromote  == {"promote", "inject"}
\* promote and inject never read the state document.
MCStatesPromote == {"running"}
MCOpsPromoteOnly == {"promote"}
MCOpsStatus   == {"pause", "resume"}

\* Patches that keep executionConfig a document.
MCPatchesDocs == {PatchRisk, PatchExecNested}

MCSymmetry == Permutations(Reqs)
=============================================================================
