------------------------------ MODULE CookingPlan ------------------------------
(***************************************************************************)
(* cooking/derive.ts: the Cooking Plan of a Canonical Recipe, and          *)
(* schema/cooking-plan.ts: what a plan may be.  The derivation reads the   *)
(* recipe and nothing else, and gives up when a step uses something the    *)
(* recipe does not name.                                                   *)
(*                                                                         *)
(* A text is a sequence of the source's own wordings, <<>> where it is     *)
(* empty.  Which words of a cue a step's sentence carries is data:         *)
(* LongWords gives the words of a text that are longer than two letters,   *)
(* Carries the words found anywhere in a sentence, both in lower case.     *)
(***************************************************************************)
EXTENDS CanonicalRecipe

CONSTANTS LongWords, Carries

Untraceable == [units |-> "UntraceablePlanFactError"]

Origin(element, id, sourceRefs) ==
    [element |-> element, id |-> id, index |-> <<>>, sourceRefs |-> sourceRefs]
OriginInStep(element, step, index, sourceRefs) ==
    [element |-> element, id |-> step.id, index |-> <<index>>, sourceRefs |-> sourceRefs]

-------------------------------------------------------------------------------
(* Amounts: a use of an ingredient or a prepared component (the target).   *)
IngredientTarget(i) ==
    [element |-> "ingredient", id |-> i.id, name |-> i.name,
     quantityExpression |-> i.quantityExpression, unit |-> i.unit, sourceRefs |-> i.sourceRefs]
ComponentTarget(c) ==
    [element |-> "preparedComponent", id |-> c.id, name |-> c.label,
     quantityExpression |-> <<>>, unit |-> <<>>, sourceRefs |-> c.sourceRefs]

IsMeasurable(expression) ==
    Given(expression) /\ expression[1].kind \notin {"qualitative", "none"}

AmountText(expression, unit) ==
    IF Given(expression) THEN WordingWithUnit(expression[1], unit) ELSE <<>>

WholeOf(target) == AmountText(target.quantityExpression, target.unit)

\* Mutant: a portion takes the whole's amount over.
AlwaysInherits(use, target, inheritWhole) ==
    LET teller == IF Given(use.quantityExpression) THEN use ELSE target
    IN  [text |-> AmountText(teller.quantityExpression, teller.unit), itemText |-> target.name,
         measurable |-> IsMeasurable(teller.quantityExpression),
         origin |-> Origin(target.element, target.id, target.sourceRefs)]

(* The use's own quantity when it states one, else, for a use of the whole, *)
(* the target's.                                                           *)
PlanAmount(use, target, inheritWhole) ==
    LET teller == CASE Given(use.quantityExpression) -> <<use>>
                    [] ~Given(use.quantityExpression) /\ inheritWhole -> <<target>>
                    [] OTHER -> <<>>
        expression == IF Given(teller) THEN teller[1].quantityExpression ELSE <<>>
    IN  [text |-> IF Given(teller) THEN AmountText(expression, teller[1].unit) ELSE <<>>,
         itemText |-> target.name,
         measurable |-> IsMeasurable(expression),
         origin |-> Origin(target.element, target.id,
                           IF use.sourceRefs # <<>> THEN use.sourceRefs ELSE target.sourceRefs)]

(* new Map(...): of two elements with one id, the later.                   *)
LastWithId(elements, id) == elements[CHOOSE i \in DOMAIN elements :
    elements[i].id = id /\ \A j \in DOMAIN elements : elements[j].id = id => j <= i]
IsNamed(elements, id) == \E i \in DOMAIN elements : elements[i].id = id

(* A step's uses with their targets: its ingredients, then its components. *)
Targets(recipe, step) ==
    Each(step.ingredientUses, LAMBDA u :
            [use |-> u, target |-> IngredientTarget(LastWithId(Ingredients(recipe), u.of))])
    \o Each(step.componentUses, LAMBDA u :
            [use |-> u, target |-> ComponentTarget(LastWithId(recipe.preparedComponents, u.of))])

Splits == {"use_partial_unspecified", "use_remaining"}

Amounts(targets) ==
    Each(Filtered(targets, LAMBDA t : t.use.usage \notin Splits \cup {"reserve_for_later"}),
         LAMBDA t : PlanAmount(t.use, t.target, TRUE))

SplitAmounts(targets) ==
    Each(Filtered(targets, LAMBDA t : t.use.usage \in Splits),
         LAMBDA t : [amount |-> PlanAmount(t.use, t.target, FALSE),
                     portion |-> IF t.use.usage = "use_remaining" THEN "remaining" ELSE "part_of",
                     wholeText |-> WholeOf(t.target)])

Reserved(targets) ==
    Each(Filtered(targets, LAMBDA t : t.use.usage = "reserve_for_later"),
         LAMBDA t : [amount |-> PlanAmount(t.use, t.target, FALSE), neededAtUnit |-> <<>>])

-------------------------------------------------------------------------------
(* What matters while a unit runs, and what must hold before it begins.    *)
CriticalOf(step) ==
    LET Read(seq, kind, element, Text(_)) ==
            [i \in DOMAIN seq |->
                [text |-> Text(seq[i]), kind |-> kind,
                 origin |-> OriginInStep(element, step, i, seq[i].sourceRefs)]]
    IN  Read(step.durations, "duration", "stepDuration", LAMBDA d : Wording(d.durationExpression))
        \o Read(step.temperatures, "temperature", "stepTemperature", Wording)
        \o Read(step.donenessCues, "doneness", "stepDoneness", Wording)
        \o Read(step.waitCues, "wait", "stepWait", Wording)

ProducedByItsOwnStep(step, cue) ==
    /\ LongWords[cue.sourceText] # {}
    /\ LongWords[cue.sourceText] \subseteq Carries[step.normalizedActionText]

StartNowOf(steps) ==
    LET Cues(n) == [c \in DOMAIN steps[n].prerequisiteCues |-> c]
        Admitted(n) == Filtered(Cues(n), LAMBDA c :
            n >= 2 /\ ~ProducedByItsOwnStep(steps[n], steps[n].prerequisiteCues[c]))
        Item(n, c) ==
            LET cue == steps[n].prerequisiteCues[c]
            IN  [text |-> cue.sourceText, neededAtUnit |-> n,
                 origin |-> OriginInStep("stepPrerequisiteCue", steps[n], c, cue.sourceRefs)]
    IN  FlattenSeq([n \in DOMAIN steps |-> Each(Admitted(n), LAMBDA c : Item(n, c))])

-------------------------------------------------------------------------------
(* Before you start, and the whole plan.                                   *)
IsAtHandBasic(ingredient) == ~Given(ingredient.quantityExpression)

FetchItem(i) ==
    LET origin == Origin("ingredient", i.id, i.sourceRefs)
    IN  [text |-> i.name, origin |-> origin,
         amount |-> [text |-> AmountText(i.quantityExpression, i.unit), itemText |-> i.name,
                     measurable |-> IsMeasurable(i.quantityExpression), origin |-> origin]]

TitleOf(recipe) ==
    IF recipe.title.state = "from_source"
    THEN [state |-> "from_source", text |-> recipe.title.sourceText,
          origin |-> Origin("title", recipe.id, recipe.title.sourceRefs)]
    ELSE [state |-> "not_in_source"]

StepsWithSections(recipe) ==
    FlattenSeq(Each(recipe.instructionSections, LAMBDA section :
        Each(section.steps, LAMBDA step : [step |-> step, sectionTitle |-> section.title])))

LabelOf(components, id) == IF IsNamed(components, id) THEN LastWithId(components, id).label ELSE id

UnitOf(recipe, n, step, sectionTitle) ==
    LET targets == Targets(recipe, step)
    IN  [n |-> n, actionText |-> step.normalizedActionText, sectionTitle |-> sectionTitle,
         amounts |-> Amounts(targets), splits |-> SplitAmounts(targets),
         reserved |-> Reserved(targets), critical |-> CriticalOf(step),
         produces |-> Each(step.producesComponents,
                           LAMBDA id : LabelOf(recipe.preparedComponents, id)),
         origin |-> Origin("step", step.id, step.sourceRefs)]

UsesAreNamed(recipe, step) ==
    /\ Every(step.ingredientUses, LAMBDA u : IsNamed(Ingredients(recipe), u.of))
    /\ Every(step.componentUses, LAMBDA u : IsNamed(recipe.preparedComponents, u.of))

DeriveCookingPlan(recipe, suppress) ==
    LET ordered == StepsWithSections(recipe)
    IN  IF ~Every(Steps(recipe), LAMBDA s : UsesAreNamed(recipe, s)) THEN Untraceable
        ELSE [recipeId |-> recipe.id, title |-> TitleOf(recipe),
              setUp |-> Each(recipe.equipment, LAMBDA e :
                  [text |-> e.name, origin |-> Origin("equipment", e.id, e.sourceRefs)]),
              startNow |-> StartNowOf(Steps(recipe)),
              fetchPrepare |-> Each(Filtered(Ingredients(recipe),
                  LAMBDA i : ~(suppress /\ IsAtHandBasic(i))), FetchItem),
              units |-> [n \in DOMAIN ordered |->
                  UnitOf(recipe, n, ordered[n].step, ordered[n].sectionTitle)],
              derivation |-> [quantityPlacement |-> "separate_block", assumedAtHandSuppressed |-> suppress]]

\* Mutant: a unit whose only amounts are portions loses its block.
OnlyAmountsNeedIt(unit) ==
    unit.amounts # <<>>
    /\ (unit.critical # <<>> \/ \E i \in DOMAIN unit.amounts : unit.amounts[i].measurable)

(* A split or a reserved amount always keeps the block of a unit's amounts. *)
UnitNeedsItsAmountBlock(unit) ==
    \/ unit.splits # <<>> \/ unit.reserved # <<>>
    \/ unit.amounts # <<>> /\ (unit.critical # <<>> \/ \E i \in DOMAIN unit.amounts : unit.amounts[i].measurable)

-------------------------------------------------------------------------------
(* schema/cooking-plan.ts: a plan holds texts and origins, no number but   *)
(* the units'.  A text here is a sequence of wordings.                     *)
CanonicalElementKind ==
    {"title", "step", "ingredient", "equipment", "preparedComponent", "stepPrerequisiteCue",
     "stepDoneness", "stepWait", "stepDuration", "stepTemperature"}

IsWorded(text) == ListOf(text, IsText)

IsOrigin(o) ==
    /\ DOMAIN o = {"element", "id", "index", "sourceRefs"}
    /\ o.element \in CanonicalElementKind /\ Filled(o.id)
    /\ Optional(o.index, LAMBDA i : i \in Nat) /\ AreRefs(o.sourceRefs)

IsPlanAmount(a) ==
    /\ DOMAIN a = {"text", "itemText", "measurable", "origin"}
    /\ IsWorded(a.text) /\ IsText(a.itemText) /\ a.measurable \in BOOLEAN /\ IsOrigin(a.origin)

IsSplitAmount(s) ==
    /\ DOMAIN s = {"amount", "portion", "wholeText"}
    /\ IsPlanAmount(s.amount) /\ s.portion \in {"part_of", "remaining"} /\ IsWorded(s.wholeText)

IsReservedAmount(r) ==
    /\ DOMAIN r = {"amount", "neededAtUnit"}
    /\ IsPlanAmount(r.amount) /\ Optional(r.neededAtUnit, LAMBDA n : n \in Nat \ {0})

IsPrerequisiteItem(p) == IsText(p.text) /\ p.neededAtUnit >= 2 /\ IsOrigin(p.origin)
IsSetUpItem(s) == IsText(s.text) /\ IsOrigin(s.origin)
IsFetchItem(f) == IsText(f.text) /\ IsPlanAmount(f.amount) /\ IsOrigin(f.origin)

IsCriticalParameter(c) ==
    IsText(c.text) /\ c.kind \in {"duration", "temperature", "doneness", "wait"} /\ IsOrigin(c.origin)

IsCookingUnit(u) ==
    /\ u.n \in Nat \ {0} /\ IsText(u.actionText) /\ Optional(u.sectionTitle, IsText)
    /\ ListOf(u.amounts, IsPlanAmount) /\ ListOf(u.splits, IsSplitAmount)
    /\ ListOf(u.reserved, IsReservedAmount) /\ ListOf(u.critical, IsCriticalParameter)
    /\ ListOf(u.produces, IsText) /\ IsOrigin(u.origin)

IsPlanTitle(t) ==
    \/ t.state = "from_source" /\ Filled(t.text) /\ IsOrigin(t.origin)
    \/ t = [state |-> "not_in_source"]

IsPlanDerivation(d) ==
    d.quantityPlacement \in {"separate_block", "inline"} /\ d.assumedAtHandSuppressed \in BOOLEAN

IsCookingPlan(plan) ==
    /\ Filled(plan.recipeId) /\ IsPlanTitle(plan.title)
    /\ ListOf(plan.setUp, IsSetUpItem) /\ ListOf(plan.startNow, IsPrerequisiteItem)
    /\ ListOf(plan.fetchPrepare, IsFetchItem) /\ ListOf(plan.units, IsCookingUnit)
    /\ IsPlanDerivation(plan.derivation)
===============================================================================
