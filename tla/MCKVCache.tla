----------------------------- MODULE MCKVCache ------------------------------
(* Two requests over prompts that share a prefix of one block, in a pool   *)
(* with fewer blocks than the two need.  The requests are interchangeable. *)
EXTENDS KVCache

MCToken   == {0, 1}
MCPrompts == {<<0, 0>>, <<0, 0, 1>>}

Symmetry  == Permutations(Requests)
=============================================================================
