------------------------------ MODULE MCSafeFetch ------------------------------
(* A small instance of SafeFetch: a public address, a refused one, a name   *)
(* that may resolve to either or to both, a loopback name, another scheme.  *)
EXTENDS SafeFetch, TLC

CONSTANTS public, inner, name, localhost, page, elsewhere, literal, local, other

MCHostOf == page :> name @@ elsewhere :> public @@ literal :> inner @@ local :> localhost @@ other :> name
MCSchemeOf == page :> "https" @@ elsewhere :> "http" @@ literal :> "http" @@ local :> "http" @@ other :> "ftp"
MCRangeOf == public :> "unicast" @@ inner :> "private"
MCAnswers == {<<>>, <<public>>, <<inner>>, <<public, inner>>}
MCFetchesAlike == Permutations(Fetches)
=============================================================================
