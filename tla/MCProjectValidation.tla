------------------------- MODULE MCProjectValidation -------------------------
(* A small instance of ProjectValidation for TLC: two projects with the same *)
(* dependencies; what is wrong with them covers every verdict.               *)
EXTENDS ProjectValidation, TLC

CONSTANTS v1, v2, f1

MCFingerprintOf == [v \in Validations |-> f1]
MCFlawSets == {v1 :> "none" @@ v2 :> "types", v1 :> "styling" @@ v2 :> "css",
               v1 :> "dependency" @@ v2 :> "dependency"}
=============================================================================
