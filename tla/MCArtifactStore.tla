---------------------------- MODULE MCArtifactStore ----------------------------
(* Small instances of ArtifactStore for TLC. *)
EXTENDS ArtifactStore, TLC

CONSTANTS w1, w2, cand, leased

\* Two attempts of one run store its candidate, or the source of one sandbox,
\* or one of them stores the candidate and the other the source.
MCKeySets == {w1 :> cand @@ w2 :> cand, w1 :> leased @@ w2 :> leased,
              w1 :> cand @@ w2 :> leased}
MCKindOf == cand :> "candidate" @@ leased :> "lease"
SameContent == [w \in Writers |-> 1]
=============================================================================
