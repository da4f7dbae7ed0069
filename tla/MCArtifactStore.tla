-------------------------- MODULE MCArtifactStore --------------------------
(* ArtifactStore.tla with a harmless and a risky artifact that share their id. *)
EXTENDS ArtifactStore, TLC

MCId == [c \in Contents |-> "art"]
MCScan == [c \in Contents |-> IF c = "plain" THEN {} ELSE {"network_at_runtime"}]
Symmetry == Permutations(Writers)
=============================================================================
