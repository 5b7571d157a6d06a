---------------------------- MODULE MCPostgresStore ----------------------------
(* Small instances of PostgresStore: the requests each run's callers make. *)
EXTENDS PostgresStore, TLC

CONSTANTS s1, r1, r2, d1, b1, b2, p1, p2, g1

\* b1 carries a title and two ingredient lines; b2 is a card with neither.
MCTitleOf == b1 :> "soup" @@ b2 :> Nil
MCLinesOf == b1 :> <<"onions", "salt">> @@ b2 :> <<>>

\* One line is enough for rebuilds to hold a row each and wait for the other's.
MCOneLine == b1 :> <<"onions">> @@ b2 :> <<>>

MCAppend(b) == [op |-> "append", recipe |-> r1, body |-> b]

\* Writers only: the interleavings of appends, rebuilds and failures.
MCWrites == {MCAppend(b1), MCAppend(b2)}

\* Every operation of the contract: a plan without a version, which the store
\* must refuse, and two recipes that want one digest among them.
MCEverything ==
    { MCAppend(b1),
      MCAppend(Malformed),
      [op |-> "storeSnapshot", snapshot |-> s1, doc |-> d1],
      [op |-> "loadSnapshot", snapshot |-> s1],
      [op |-> "loadLatest", recipe |-> r1],
      [op |-> "listLibrary"],
      [op |-> "readTwoRuns", recipe |-> r1, a |-> 1, b |-> 2],
      [op |-> "storePlan", recipe |-> r1, version |-> 1, plan |-> p1],
      [op |-> "storePlan", recipe |-> r1, version |-> Nil, plan |-> p1],
      [op |-> "loadPlan", recipe |-> r1, version |-> 1],
      [op |-> "storeGrant", digest |-> g1, recipe |-> r1],
      [op |-> "storeGrant", digest |-> g1, recipe |-> r2],
      [op |-> "resolveGrant", digest |-> g1],
      [op |-> "revokeGrant", digest |-> g1] }

MCClientsAlike == Permutations(Clients)
=============================================================================
