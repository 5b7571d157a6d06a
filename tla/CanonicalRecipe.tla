----------------------------- MODULE CanonicalRecipe -----------------------------
(***************************************************************************)
(* schema/common.ts and schema/canonical-recipe.ts: what the contract asks *)
(* of a recipe, and what it does not: no two ids need differ, and no       *)
(* reference need lead anywhere.  Fields nothing in src/ reads (contexts,  *)
(* vocabularies, scaling, bounds of a range) are left out.                 *)
(*                                                                         *)
(* An optional field is a sequence of no or one value.  A number is held   *)
(* in tenths, and a text is "" when it is blank.                           *)
(***************************************************************************)
EXTENDS Lists

IsText(t) == t \in STRING
Filled(t) == IsText(t) /\ t # ""
Optional(field, Is(_)) == Len(field) <= 1 /\ ListOf(field, Is)

\* A reference names a block, a place in the payload, or both.
IsSourceRef(r) ==
    /\ DOMAIN r = {"blockId", "payloadPointer"}
    /\ Optional(r.blockId, Filled) /\ Optional(r.payloadPointer, Filled)
    /\ Given(r.blockId) \/ Given(r.payloadPointer)
AreRefs(refs) == ListOf(refs, IsSourceRef)

ValueExpressionKind ==
    {"exact", "range", "approximate", "minimum", "maximum", "qualitative", "none"}

IsValueExpression(e) ==
    /\ DOMAIN e = {"sourceText", "kind", "value"}
    /\ IsText(e.sourceText) /\ e.kind \in ValueExpressionKind
    /\ Optional(e.value, LAMBDA n : n \in Int)

IsDurationExpression(d) ==
    /\ DOMAIN d = {"sourceText", "kind", "value", "unit"}
    /\ IsText(d.sourceText) /\ d.kind \in ValueExpressionKind
    /\ Optional(d.value, LAMBDA n : n \in Int) /\ Optional(d.unit, IsText)

IsCue(c) == DOMAIN c = {"sourceText", "sourceRefs"} /\ IsText(c.sourceText) /\ AreRefs(c.sourceRefs)

-------------------------------------------------------------------------------
(* A name is declared: the source's wording with its evidence, or that the *)
(* source has none.                                                        *)
IsRecipeTitle(t) ==
    \/ /\ t.state = "from_source" /\ DOMAIN t = {"state", "sourceText", "sourceRefs"}
       /\ Filled(t.sourceText) /\ AreRefs(t.sourceRefs) /\ t.sourceRefs # <<>>
    \/ t = [state |-> "not_in_source"]

IsRecipeYield(y) ==
    /\ Filled(y.id) /\ IsText(y.sourceText) /\ IsValueExpression(y.valueExpression)
    /\ Optional(y.unit, IsText) /\ AreRefs(y.sourceRefs)

IsSourceClassification(c) == IsText(c.sourceText) /\ AreRefs(c.sourceRefs)

TimeType ==
    {"prep", "cook", "bake", "rest", "marinate", "chill", "total", "active", "passive", "other"}

IsRecipeTime(t) ==
    /\ t.type \in TimeType /\ Optional(t.sourceLabel, IsText)
    /\ IsDurationExpression(t.durationExpression) /\ AreRefs(t.sourceRefs)

IsEquipment(e) ==
    /\ Filled(e.id) /\ IsText(e.name)
    /\ Optional(e.quantityExpression, IsValueExpression)
    /\ ListOf(e.qualifiers, IsText) /\ AreRefs(e.sourceRefs)

IsIngredient(i) ==
    /\ Filled(i.id) /\ IsText(i.sourceText) /\ IsText(i.name)
    /\ Optional(i.quantityExpression, IsValueExpression) /\ Optional(i.unit, IsText)
    /\ ListOf(i.qualifiers, IsText) /\ i.optional \in BOOLEAN /\ AreRefs(i.sourceRefs)

IsIngredientGroup(g) ==
    /\ Filled(g.id) /\ Optional(g.title, IsText) /\ AreRefs(g.sourceRefs)
    /\ ListOf(g.ingredients, IsIngredient)

IsPreparedComponent(c) ==
    Filled(c.id) /\ IsText(c.label) /\ Filled(c.createdByStepId) /\ AreRefs(c.sourceRefs)

UsageKind ==
    {"use_now", "reserve_for_later", "use_remaining", "use_partial_unspecified", "use_all"}

(* An ingredient's use and a component's: they differ in what they name. *)
IsUse(u) ==
    /\ Filled(u.of) /\ u.usage \in UsageKind
    /\ Optional(u.quantityExpression, IsValueExpression) /\ Optional(u.unit, IsText)
    /\ AreRefs(u.sourceRefs)

IsTemperature(t) ==
    IsText(t.sourceText) /\ IsValueExpression(t.valueExpression) /\ AreRefs(t.sourceRefs)

IsStepDuration(d) == IsDurationExpression(d.durationExpression) /\ AreRefs(d.sourceRefs)

IsInstructionStep(s) ==
    /\ Filled(s.id) /\ IsText(s.sourceText) /\ IsText(s.normalizedActionText)
    /\ AreRefs(s.sourceRefs)
    /\ ListOf(s.ingredientUses, IsUse) /\ ListOf(s.componentUses, IsUse)
    /\ ListOf(s.producesComponents, Filled)
    /\ ListOf(s.durations, IsStepDuration) /\ ListOf(s.temperatures, IsTemperature)
    /\ ListOf(s.donenessCues, IsCue) /\ ListOf(s.prerequisiteCues, IsCue) /\ ListOf(s.waitCues, IsCue)

IsInstructionSection(s) ==
    /\ Filled(s.id) /\ Optional(s.title, IsText) /\ AreRefs(s.sourceRefs)
    /\ ListOf(s.steps, IsInstructionStep)

NutritionBasisKind ==
    {"whole_recipe", "per_yield", "per_serving", "per_quantity", "other", "unknown"}

IsNutritionFact(f) ==
    /\ IsText(f.nutrient) /\ Optional(f.sourceLabel, IsText)
    /\ IsValueExpression(f.valueExpression) /\ Optional(f.unit, IsText) /\ AreRefs(f.sourceRefs)

IsNutritionStatement(n) ==
    /\ Filled(n.id) /\ n.basis.kind \in NutritionBasisKind /\ Optional(n.basis.sourceText, IsText)
    /\ ListOf(n.facts, IsNutritionFact) /\ AreRefs(n.sourceRefs)

IsRecipeMedia(m) ==
    Optional(m.heroImage, LAMBDA h :
        Filled(h.storageIdentity) /\ h.origin \in {"source_url", "user_added", "other"}
        /\ Optional(h.attribution, IsText))

IsCanonicalRecipe(r) ==
    /\ Filled(r.id) /\ IsRecipeTitle(r.title) /\ Optional(r.description, IsText)
    /\ ListOf(r.authors, IsText) /\ Optional(r.sourcePublisher, IsText) /\ Optional(r.sourceName, IsText)
    /\ ListOf(r.sourceClassifications, IsSourceClassification)
    /\ ListOf(r.yields, IsRecipeYield) /\ ListOf(r.times, IsRecipeTime)
    /\ ListOf(r.equipment, IsEquipment)
    /\ ListOf(r.ingredientGroups, IsIngredientGroup)
    /\ ListOf(r.preparedComponents, IsPreparedComponent)
    /\ ListOf(r.instructionSections, IsInstructionSection)
    /\ ListOf(r.nutritionStatements, IsNutritionStatement)
    /\ IsRecipeMedia(r.media)

-------------------------------------------------------------------------------
(* Reading a recipe: its ingredients and its steps in the source's order.  *)
Ingredients(r) == FlattenSeq(Each(r.ingredientGroups, LAMBDA g : g.ingredients))
Steps(r) == FlattenSeq(Each(r.instructionSections, LAMBDA s : s.steps))

(* render/source-wording.ts: a quantity is only ever shown as it was said. *)
Wording(e) == e.sourceText
WordingWithUnit(e, unit) == IF OneOf(unit, "") = "" THEN <<Wording(e)>> ELSE <<Wording(e), unit[1]>>
===============================================================================
