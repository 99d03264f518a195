----------------------------- MODULE MCSdkClient -----------------------------
(* SdkClient on few threads and objects. *)
EXTENDS SdkClient, TLC

(* One request that is in order, for the runs about interleavings ... *)
PlainRequest == {[bulk |-> FALSE, typed |-> TRUE, xml |-> FALSE, valid |-> TRUE]}
(* ... and every request, for the run about what is refused. *)
AnyRequest == [bulk : BOOLEAN, typed : BOOLEAN, xml : BOOLEAN, valid : BOOLEAN]

OneConfig == {{"apiKey"}}
AnyConfig == SUBSET {"apiKey", "requestOrigin"}

Symmetry == Permutations(Threads) \cup Permutations(Handles) \cup Permutations(Objects)
=============================================================================
