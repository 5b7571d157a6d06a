-------------------------------- MODULE MCPages --------------------------------
(* Readers do not affect one another, so one reader beside the writers is   *)
(* enough; two recipes make the library's reads interleave with imports.    *)
EXTENDS Pages

=============================================================================
