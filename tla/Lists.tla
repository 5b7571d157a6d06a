---------------------------------- MODULE Lists ----------------------------------
(* Lists and optional fields as the document modules write them: an optional *)
(* field is a list of no or one value.                                       *)
EXTENDS Integers, Sequences, SequencesExt

Each(seq, Of(_)) == [i \in DOMAIN seq |-> Of(seq[i])]
Every(seq, Is(_)) == \A i \in DOMAIN seq : Is(seq[i])
IsList(seq) == seq \in Seq(ToSet(seq))
ListOf(seq, Is(_)) == IsList(seq) /\ Every(seq, Is)

Given(field) == field # <<>>
OneOf(field, otherwise) == IF Given(field) THEN field[1] ELSE otherwise
FirstOf(seq) == IF seq = <<>> THEN <<>> ELSE <<seq[1]>>

\* The elements at the given places, in order; those Keep holds of, in order.
Picked(seq, places) == FlattenSeq([i \in DOMAIN seq |-> IF i \in places THEN <<seq[i]>> ELSE <<>>])
Filtered(seq, Keep(_)) == Picked(seq, {i \in DOMAIN seq : Keep(seq[i])})

\* The first places of the values Key takes, in order.
Groups(seq, Key(_)) ==
    Filtered([i \in DOMAIN seq |-> i], LAMBDA i : \A j \in 1..i - 1 : Key(j) # Key(i))
===============================================================================
