---------------------------- MODULE MCRunCached ----------------------------
(* Callers of one command line, for checking RunCached. *)
EXTENDS RunCached

CONSTANTS a, b, c
MCCallers == {a, b, c}
MCHanging == {a}
MCMaxChunks == [p \in MCCallers |->
    CASE p = a -> [out |-> 0, err |-> 1]
      [] p = b -> [out |-> 2, err |-> 1]
      [] p = c -> [out |-> 2, err |-> 0]]
=============================================================================
