---------------------------- MODULE MCCaseEvidence ----------------------------
(* A case with two tracks, one with a mandatory child, two executables.    *)
EXTENDS CaseEvidence, TLC

MCParent == "child" :> "plain"
MCTracksOf == "plain" :> {"runtime"} @@ "reviewed" :> {"runtime", "document_review"}
MCKey(c, t) == <<c, t>>
MCPlan(plain, child, review) ==
  MCKey("plain", "runtime") :> plain @@ MCKey("child", "runtime") :> child
    @@ MCKey("reviewed", "runtime") :> "complete" @@ MCKey("reviewed", "document_review") :> review
MCPlans == {MCPlan("complete", "complete", "complete"), MCPlan("complete", "none", "partial"),
            MCPlan("partial", "complete", "none"), MCPlan("none", "none", "complete")}
=============================================================================
