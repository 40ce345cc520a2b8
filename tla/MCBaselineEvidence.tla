-------------------------- MODULE MCBaselineEvidence --------------------------
(* A case with a subcondition, and one with a child that cannot be tested locally. *)
EXTENDS BaselineEvidence, TLC

MCParent == "main" :> "c" @@ "child" :> "d" @@ "sub" :> "c" @@ "host" :> "d"
MCAlone == "main" :> "c"
=============================================================================
