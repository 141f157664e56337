------------------------- MODULE MCGenerationStream -------------------------
(* The instance of GenerationStream that TLC checks. *)
EXTENDS GenerationStream, TLC

\* One client: prompts shorter than a block, of its size, longer; too long for the
\* batch; empty.
EveryRequest ==
    {[prompt |-> 1, size |-> 4, batches |-> 3],
     [prompt |-> 3, size |-> 3, batches |-> 3],
     [prompt |-> 1, size |-> 1, batches |-> 1],
     [prompt |-> 0, size |-> 3, batches |-> 1],
     [prompt |-> 2, size |-> 2, batches |-> 0]}

\* Two clients of one server: a stream of two batches, and one that overruns.
TwoRequests ==
    {[prompt |-> 1, size |-> 3, batches |-> 2],
     [prompt |-> 3, size |-> 2, batches |-> 1]}

Symmetry == Permutations(Clients)
=============================================================================
