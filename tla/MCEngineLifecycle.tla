------------------------- MODULE MCEngineLifecycle -------------------------
(* Three attempts of one target: a leftover of the first can meet both a    *)
(* second attempt that cleans up and a third that measures.                 *)
EXTENDS EngineLifecycle

MCMaxAttempts == 3
=============================================================================
