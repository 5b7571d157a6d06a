-------------------------------- MODULE MCIngest --------------------------------
(* Two requests at once, one photograph, one link, one picture. *)
EXTENDS Ingest

MCAlike == Permutations(Handlers) \cup Permutations(Snaps)
=============================================================================
