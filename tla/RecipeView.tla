------------------------------- MODULE RecipeView -------------------------------
(***************************************************************************)
(* render/: the three surfaces a recipe is read from.  The recipe page and *)
(* the library card show a view of the recipe (view-model.ts), the cooking *)
(* view its plan alone.  A surface is the rows a reader sees; markup,      *)
(* separators and escaping are left out, and a fixed sentence is its name. *)
(***************************************************************************)
EXTENDS CookingPlan

PictureSource == {"photographed_page", "not_photographed", "unread"}
NoTitleInSource == "No title in the source"

TitleView(recipe) ==
    IF recipe.title.state = "from_source"
    THEN [state |-> "from_source", text |-> recipe.title.sourceText]
    ELSE [state |-> "not_in_source"]

\* The gap is said, never filled.
TitleLine(title) == IF title.state = "from_source" THEN title.text ELSE NoTitleInSource

AttributionOf(recipe) ==
    IF Given(recipe.sourcePublisher) THEN recipe.sourcePublisher ELSE recipe.sourceName

(* The picture is shown where the recipe keeps one and it can be served;   *)
(* otherwise its absence has a reason.                                     *)
HeroImageOf(recipe, served) == IF served THEN recipe.media.heroImage ELSE <<>>

PictureOf(recipe, served, pictureSource) ==
    IF Given(HeroImageOf(recipe, served))
    THEN [state |-> "shown", attribution |-> recipe.media.heroImage[1].attribution]
    ELSE [state |-> "absent",
          reason |-> IF Given(recipe.media.heroImage) THEN "not_served"
                     ELSE CASE pictureSource = "photographed_page" -> "photographed_page"
                            [] pictureSource = "not_photographed" -> "none_kept"
                            [] pictureSource = "unread" -> "source_unread"]

-------------------------------------------------------------------------------
(* The views.  An amount is a wording, or <<>> where there is none.        *)
IngredientView(i) ==
    [name |-> i.name, amount |-> AmountText(i.quantityExpression, i.unit),
     qualifiers |-> i.qualifiers, optional |-> i.optional]

EquipmentView(e) ==
    [name |-> e.name, amount |-> AmountText(e.quantityExpression, <<>>), qualifiers |-> e.qualifiers]

StepView(components, s) ==
    [text |-> s.normalizedActionText,
     durations |-> Each(s.durations, LAMBDA d : Wording(d.durationExpression)),
     temperatures |-> Each(s.temperatures, Wording),
     donenessCues |-> Each(s.donenessCues, Wording),
     prerequisiteCues |-> Each(s.prerequisiteCues, Wording),
     waitCues |-> Each(s.waitCues, Wording),
     produces |-> Each(s.producesComponents, LAMBDA id : LabelOf(components, id))]

NutritionView(n) ==
    [basis |-> OneOf(n.basis.sourceText, n.basis.kind),
     facts |-> Each(n.facts, LAMBDA f :
        [label |-> OneOf(f.sourceLabel, f.nutrient),
         text |-> WordingWithUnit(f.valueExpression, f.unit)])]

ToRecipeView(recipe, served, pictureSource) ==
    [title |-> TitleView(recipe), description |-> recipe.description, authors |-> recipe.authors,
     attribution |-> AttributionOf(recipe),
     classifications |-> Each(recipe.sourceClassifications, Wording),
     yields |-> Each(recipe.yields, Wording),
     times |-> Each(recipe.times, LAMBDA t :
        [label |-> OneOf(t.sourceLabel, t.type), text |-> Wording(t.durationExpression)]),
     equipment |-> Each(recipe.equipment, EquipmentView),
     ingredientGroups |-> Each(recipe.ingredientGroups, LAMBDA g :
        [title |-> g.title, ingredients |-> Each(g.ingredients, IngredientView)]),
     sections |-> Each(recipe.instructionSections, LAMBDA s :
        [title |-> s.title,
         steps |-> Each(s.steps, LAMBDA step : StepView(recipe.preparedComponents, step))]),
     nutrition |-> Each(recipe.nutritionStatements, NutritionView),
     picture |-> PictureOf(recipe, served, pictureSource)]

\* The total time only as the source states it, never summed; the first yield.
ToLibraryCardView(recipe, served) ==
    LET totals == Filtered(recipe.times, LAMBDA t : t.type = "total")
    IN  [title |-> TitleView(recipe), description |-> recipe.description,
         authors |-> recipe.authors, attribution |-> AttributionOf(recipe),
         classifications |-> Each(recipe.sourceClassifications, Wording),
         totalTime |-> FirstOf(Each(totals, LAMBDA t : Wording(t.durationExpression))),
         primaryYield |-> FirstOf(Each(recipe.yields, Wording)),
         heroImage |-> HeroImageOf(recipe, served)]

-------------------------------------------------------------------------------
(* The recipe page.  A line of a step has a label, and no line is empty.   *)
Annotated(rows) == Filtered(rows, LAMBDA r : r.values # <<>>)
Annotation(label, values) == [label |-> label, values |-> values]

\* Each absence has its own sentence; an amount that is not given leaves no place.
NoPictureOfTheDish ==
    [photographed_page |-> "kept as the source", none_kept |-> "none was kept",
     source_unread |-> "source could not be read", not_served |-> "cannot be shown"]

PictureBlock(picture) ==
    IF picture.state = "absent" THEN [state |-> "absent", sentence |-> NoPictureOfTheDish[picture.reason]]
    ELSE picture

IngredientItem(i) ==
    [amount |-> i.amount, item |-> i.name, suffix |-> i.qualifiers, optional |-> i.optional]
IngredientGroup(g) == [title |-> g.title, ingredients |-> Each(g.ingredients, IngredientItem)]
EquipmentItem(e) == [amount |-> e.amount, item |-> e.name, suffix |-> e.qualifiers]

StepItem(step) ==
    [text |-> step.text,
     annotations |-> Annotated(
        <<Annotation("Prerequisite", step.prerequisiteCues), Annotation("Time", step.durations),
          Annotation("Temperature", step.temperatures), Annotation("Wait", step.waitCues),
          Annotation("Done when", step.donenessCues), Annotation("Produces", step.produces)>>)]

Signals(view) ==
    Each(view.yields, LAMBDA y : [label |-> "", text |-> y]) \o view.times
    \o Each(view.classifications, LAMBDA c : [label |-> "tag", text |-> c])

AttributionLine(view) == view.authors \o view.attribution

RecipeBody(view) ==
    [heading |-> view.title, attribution |-> AttributionLine(view), picture |-> PictureBlock(view.picture),
     description |-> view.description, signals |-> Signals(view), 
     equipment |-> Each(view.equipment, EquipmentItem),
     ingredientGroups |-> Each(view.ingredientGroups, IngredientGroup),
     sections |-> Each(view.sections, LAMBDA s : [title |-> s.title, steps |-> Each(s.steps, StepItem)]),
     nutrition |-> view.nutrition]

RecipePage(recipe, served, pictureSource) ==
    LET view == ToRecipeView(recipe, served, pictureSource)
    IN  [documentTitle |-> TitleLine(view.title), body |-> RecipeBody(view)]

-------------------------------------------------------------------------------
(* The library's card.                                                     *)
LibraryCard(recipe, served) ==
    LET card == ToLibraryCardView(recipe, served)
    IN  [title |-> TitleLine(card.title), picture |-> Given(card.heroImage),
         attribution |-> AttributionLine(card),
         signals |-> card.primaryYield \o card.totalTime \o card.classifications,
         description |-> card.description]

-------------------------------------------------------------------------------
(* The cooking view.  An amount that is not measurable keeps no quantity   *)
(* position; a split names its whole and describes its part.               *)
PlanTitleLine(title) == IF title.state = "from_source" THEN title.text ELSE NoTitleInSource

ShownAmount(a) == IF a.measurable THEN a.text ELSE <<>>
AmountRow(a) == [row |-> "amount", amount |-> ShownAmount(a), item |-> a.itemText]
SplitRow(s) == [row |-> s.portion, amount |-> s.wholeText, item |-> s.amount.itemText]
ReservedRow(r) ==
    [row |-> "reserved", amount |-> ShownAmount(r.amount), item |-> r.amount.itemText]

CriticalLabel ==
    [duration |-> "Time", temperature |-> "Temperature", doneness |-> "Done when", wait |-> "Wait"]

UnitItem(unit) ==
    [nowYouNeed |-> IF ~UnitNeedsItsAmountBlock(unit) THEN <<>>
                    ELSE Each(unit.amounts, AmountRow) \o Each(unit.splits, SplitRow)
                         \o Each(unit.reserved, ReservedRow),
     action |-> unit.actionText,
     annotations |-> Each(unit.critical, LAMBDA c : [label |-> CriticalLabel[c.kind], text |-> c.text]),
     makes |-> unit.produces]

\* START NOW is never left out: an empty one says that it is empty.
StartNowBlock(plan) ==
    IF plan.startNow = <<>> THEN <<[text |-> "nothing to start", forStep |-> 0]>>
    ELSE Each(plan.startNow, LAMBDA p : [text |-> p.text, forStep |-> p.neededAtUnit])

CookingPage(plan) ==
    [documentTitle |-> PlanTitleLine(plan.title), heading |-> PlanTitleLine(plan.title),
     setUp |-> Each(plan.setUp, LAMBDA e : e.text), startNow |-> StartNowBlock(plan),
     fetchPrepare |-> Each(plan.fetchPrepare, LAMBDA f : AmountRow(f.amount)),
     units |-> Each(plan.units, UnitItem)]
===============================================================================
