-------------------------------- MODULE SchemaOrg --------------------------------
(***************************************************************************)
(* shopping/schema-org-mapping.ts: the Schema.org recipe a saved recipe is *)
(* published as.  What the source did not state exactly is left out, and   *)
(* each thing left out is recorded.  Values are in tenths.                 *)
(***************************************************************************)
EXTENDS CanonicalRecipe

SecondsPerUnit ==
    LET second == {"s", "sec", "secs", "second", "seconds", "sek", "sekunde", "sekunden"}
        minute == {"m", "min", "mins", "minute", "minutes", "minuten"}
        hour == {"h", "hr", "hrs", "hour", "hours", "std", "stunde", "stunden"}
        day == {"d", "day", "days", "tag", "tage"}
    IN  [u \in second \cup minute \cup hour \cup day |->
            CASE u \in second -> 1 [] u \in minute -> 60 [] u \in hour -> 3600 [] u \in day -> 86400]

TimeFieldByType ==
    [prep |-> "prepTime", cook |-> "cookTime", bake |-> "cookTime", total |-> "totalTime"]

Omit(reason) == [omit |-> reason]

\* Mutant: a part of a second is cut off.
Truncated(d) ==
    IF d.kind # "exact" \/ ~Given(d.value) THEN Omit("non_exact_value")
    ELSE IF OneOf(d.unit, "") \notin DOMAIN SecondsPerUnit THEN Omit("missing_unit")
    ELSE LET seconds == (d.value[1] * SecondsPerUnit[d.unit[1]]) \div 10
         IN  [hours |-> seconds \div 3600, minutes |-> (seconds % 3600) \div 60, seconds |-> seconds % 60]

(* A duration of a whole number of seconds, above none, in hours, minutes  *)
(* and seconds; or why there is none to publish.                           *)
ToIsoDuration(d) ==
    IF d.kind # "exact" \/ ~Given(d.value) THEN Omit("non_exact_value")
    ELSE IF OneOf(d.unit, "") = "" THEN Omit("missing_unit")
    ELSE IF d.unit[1] \notin DOMAIN SecondsPerUnit THEN Omit("unrecognized_unit")
    ELSE LET tenths == d.value[1] * SecondsPerUnit[d.unit[1]]
             seconds == tenths \div 10
         IN  IF tenths % 10 # 0 \/ seconds <= 0 THEN Omit("not_representable")
             ELSE [hours |-> seconds \div 3600, minutes |-> (seconds % 3600) \div 60,
                   seconds |-> seconds % 60]

Omission(field, reason, sourceText) ==
    [field |-> field, reason |-> reason, sourceText |-> sourceText]

(* What is published in order, what is left out in order.                  *)
Split(seq, Keep(_), Show(_), Record(_)) ==
    [shown |-> Each(Filtered(seq, Keep), Show),
     omitted |-> Each(Filtered(seq, LAMBDA e : ~Keep(e)), Record)]

IsExactYield(y) == y.valueExpression.kind = "exact" /\ Given(y.valueExpression.value)

MapYield(y) ==
    IF IsExactYield(y)
    THEN [name |-> y.sourceText, unitText |-> y.unit, value |-> y.valueExpression.value]
    ELSE [name |-> y.sourceText]

(* The first time of a field claims it, whether or not it converts.        *)
IsMapped(t) == t.type \in DOMAIN TimeFieldByType
Claims(times, i) ==
    /\ IsMapped(times[i])
    /\ \A j \in 1..i - 1 :
           IsMapped(times[j]) => TimeFieldByType[times[j].type] # TimeFieldByType[times[i].type]

MapTime(times, i) ==
    LET d == times[i].durationExpression
    IN  IF ~IsMapped(times[i]) THEN Omission(times[i].type, "unmapped_time_type", d.sourceText)
        ELSE LET field == TimeFieldByType[times[i].type]
                 iso == ToIsoDuration(d)
             IN  IF ~Claims(times, i) THEN Omission(field, "duplicate_time_type", d.sourceText)
                 ELSE IF "omit" \in DOMAIN iso THEN Omission(field, iso.omit, d.sourceText)
                 ELSE [field |-> field, iso |-> iso]

MapCanonicalToSchemaOrg(recipe) ==
    LET named == recipe.title.state = "from_source"
        authors == Filtered(recipe.authors, LAMBDA a : a # "")
        ingredients == Split(Ingredients(recipe), LAMBDA i : i.sourceText # "", Wording,
                             LAMBDA i : Omission("recipeIngredient", "blank_source_text", i.name))
        steps == Split(Steps(recipe), LAMBDA s : s.sourceText # "", Wording,
                       LAMBDA s : Omission("recipeInstructions", "blank_source_text",
                                           s.normalizedActionText))
        inexact == Filtered(recipe.yields, LAMBDA y : ~IsExactYield(y))
        times == [i \in DOMAIN recipe.times |-> MapTime(recipe.times, i)]
        shownTimes == Filtered(times, LAMBDA t : "iso" \in DOMAIN t)
    IN  [recipe |-> [name |-> IF named THEN <<recipe.title.sourceText>> ELSE <<>>,
                     description |-> recipe.description, author |-> authors,
                     recipeIngredient |-> ingredients.shown, recipeInstructions |-> steps.shown,
                     recipeYield |-> Each(recipe.yields, MapYield), times |-> shownTimes],
         titleState |-> IF named THEN "present" ELSE "absent",
         authorState |-> IF authors # <<>> THEN "present" ELSE "absent",
         omissions |->
            (IF named THEN <<>> ELSE <<Omission("name", "not_in_source", "")>>)
            \o ingredients.omitted \o steps.omitted
            \o Each(inexact, LAMBDA y : Omission("recipeYield", "non_exact_value", y.sourceText))
            \o Filtered(times, LAMBDA t : "reason" \in DOMAIN t)]
===============================================================================
