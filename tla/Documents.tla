-------------------------------- MODULE Documents --------------------------------
(***************************************************************************)
(* What becomes of a document.  A source (a page, a text, a photograph) is *)
(* captured and normalized into a recipe that is kept or refused; a kept   *)
(* recipe is made a Cooking Plan and shown.  All of it is pure but for the *)
(* model, whose replies are any of Replies and Drafts; where the result is *)
(* stored, and what fails on the way, is Ingest's.                         *)
(*                                                                         *)
(* A source is [is |-> "source", provenance, page, draws] with the page's  *)
(* scripts and html (html is the text itself where it is no page); a kept  *)
(* recipe is [is |-> "recipe", recipe, suppress, served, pictureSource].   *)
(***************************************************************************)
EXTENDS Grounding, RecipeView, SchemaOrg

CONSTANTS
    Subjects,               \* the sources and the recipes to start from
    Replies(_),             \* what a model may answer to a capture of a source
    Drafts(_),              \* what it may answer to a normalization of a snapshot
    MaxAttempts             \* how often a stage asks for a reply it can read

VARIABLES
    subject,                \* what this is about
    stage,                  \* how far it is
    attempt,                \* the attempts the stage has had
    snapshot,               \* what was captured
    result                  \* what it came to: a recipe kept, a refusal, what is shown

vars == <<subject, stage, attempt, snapshot, result>>

None == [is |-> "none"]

\* What is read off a page is text and JSON, whatever they say.
IsPage(page) ==
    IsList(page.html) /\ ListOf(page.scripts, LAMBDA script : ListOf(script, IsValue))

ASSUME SubjectsAssumption ==
    \A s \in Subjects :
        \/ s.is = "source" /\ IsPage(s.page)
        \/ s.is = "recipe" /\ IsCanonicalRecipe(s.recipe)
           /\ s.suppress \in BOOLEAN /\ s.served \in BOOLEAN /\ s.pictureSource \in PictureSource

Init ==
    /\ subject \in Subjects
    /\ stage = IF subject.is = "source" THEN "source" ELSE "recipe"
    /\ attempt = 0 /\ snapshot = None /\ result = None

Settle(at, outcome) ==
    /\ stage' = at /\ result' = outcome
    /\ UNCHANGED <<subject, attempt, snapshot>>

-------------------------------------------------------------------------------
\* What a model reads: the page's text, or the text itself.
Input(source) ==
    IF source.provenance = "url" THEN HtmlToText(source.page.html) ELSE source.page.html

\* A model is asked about a fenced text; a photograph is not text.
AskAbout(texts, at) ==
    IF subject.provenance # "photo" /\ IsRefused(SealSourceText(texts, subject.draws))
    THEN Settle("refused", Refused("no marker"))
    ELSE stage' = at /\ attempt' = 0 /\ UNCHANGED <<subject, snapshot, result>>

Captured(read) ==
    IF IsRefused(read) THEN Settle("refused", read)
    ELSE /\ stage' = "captured" /\ snapshot' = read
         /\ UNCHANGED <<subject, attempt, result>>

(* A page is read by its JSON-LD; a model reads its text where that        *)
(* declares too little, and never where it declares too much.              *)
ReadDeclared(declared) ==
    IF IsRefused(declared) /\ declared.refused = "InsufficientRecipeJsonLdError"
    THEN AskAbout({Input(subject)}, "reading")
    ELSE Captured(CaptureSnapshot(declared))
ReadSource ==
    /\ stage = "source"
    /\ IF subject.provenance = "url" THEN ReadDeclared(CaptureJsonLd(subject.page))
       ELSE AskAbout({Input(subject)}, "reading")

\* A reply that cannot be read is asked for again; any other refusal is final.
AsksAgain(outcome) ==
    IsRefused(outcome) /\ outcome.refused = "ModelReplyError" /\ attempt + 1 < MaxAttempts

\* What was rejected is quoted to the model behind a fence of its own.
AskAgain(rejected) ==
    IF IsRefused(SealSourceText(rejected, subject.draws))
    THEN Settle("refused", Refused("no marker"))
    ELSE attempt' = attempt + 1 /\ UNCHANGED <<subject, stage, snapshot, result>>

TextsIn(blocks) == {blocks[i].text : i \in DOMAIN blocks}
Wordings(facts) == {facts[i].sourceText : i \in DOMAIN facts}
\* The whole snapshot is what a normalization reads.
SnapshotTexts ==
    TextsIn(snapshot.blocks)
    \cup UNION {PayloadLeaves(snapshot.payload[i]) : i \in DOMAIN snapshot.payload}

ModelReads ==
    /\ stage = "reading"
    /\ \E reply \in Replies(subject) :
       LET read == CaptureSnapshot(CaptureByModel(subject.provenance, Input(subject), reply))
       IN  IF AsksAgain(read) THEN AskAgain(TextsIn(reply.blocks)) ELSE Captured(read)

BeginNormalization ==
    /\ stage = "captured"
    /\ AskAbout(SnapshotTexts, "normalizing")

ModelNormalizes ==
    /\ stage = "normalizing"
    /\ \E draft \in Drafts(snapshot) :
       LET kept == Normalize(snapshot, draft)
       IN  IF AsksAgain(kept) THEN AskAgain(Wordings(draft.title \o draft.facts))
           ELSE Settle(IF IsRefused(kept) THEN "refused" ELSE "kept", kept)

-------------------------------------------------------------------------------
Derive ==
    /\ stage = "recipe"
    /\ Settle("planned", DeriveCookingPlan(subject.recipe, subject.suppress))

Show ==
    /\ stage = "planned"
    /\ Settle("shown",
        [plan |-> result,
         cooking |-> IF result = Untraceable THEN None ELSE CookingPage(result),
         page |-> RecipePage(subject.recipe, subject.served, subject.pictureSource),
         card |-> LibraryCard(subject.recipe, subject.served),
         published |-> MapCanonicalToSchemaOrg(subject.recipe)])

Next ==
    \/ ReadSource
    \/ ModelReads
    \/ BeginNormalization
    \/ ModelNormalizes
    \/ Derive
    \/ Show

Spec == Init /\ [][Next]_vars

-------------------------------------------------------------------------------
(* What a page declares (url-jsonld-adapter.ts).                           *)
RecipeNodes(page) == Filtered(LoadLdObjects(page), IsRecipe)
DifferById(a, b) == IdOf(a) # <<>> /\ IdOf(b) # <<>> /\ IdOf(a) # IdOf(b)
SameRecipe(a, b) ==
    /\ NameOf(a) = NameOf(b) /\ ~DifferById(a, b)
    /\ NameOf(a) # <<>> \/ (IdOf(a) # <<>> /\ IdOf(a) = IdOf(b))

\* What an instruction says of its own: a text, or an object's text or name.
Says(e) ==
    CASE Kind(e) = "text" -> AsDisplayString(e)
      [] IsObject(e) /\ ~IsHowToSection(e) -> FirstOf(Displayed(<<Field(e, "text"), Field(e, "name")>>))
      [] OTHER -> <<>>

\* Where instructions say something: in lists and sections, however deep.
OnTheWay(path) == \A k \in DOMAIN path : IsItem(path[k]) \/ path[k] = Key("itemListElement")
StatedSteps(v) ==
    {v[i].at : i \in {j \in DOMAIN v : OnTheWay(v[j].at) /\ Says(Part(v, v[j].at)) # <<>>}}
\* Lists where the schema has them: after each section, and no two in a row.
WellListed(path) ==
    \A k \in DOMAIN path : IsItem(path[k]) <=> ~(k < Len(path) /\ IsItem(path[k + 1]))

(* The texts are what instructions of a value say, each of another one, in *)
(* the order a reader meets them, and of every well-listed one.            *)
StepsInOrder(v, texts) ==
    \E from \in [DOMAIN texts -> StatedSteps(v)] :
        /\ \A i \in DOMAIN texts : Says(Part(v, from[i])) = <<texts[i]>>
        /\ \A i, j \in DOMAIN texts : i < j => ReadBefore(from[i], from[j])
        /\ \A path \in StatedSteps(v) :
               WellListed(path) => \E i \in DOMAIN texts : from[i] = path

TextsOf(blocks, type) ==
    Each(Filtered(blocks, LAMBDA b : b.type = type), LAMBDA b : b.text)

(* A page is imported for what it declares (distinctRecipes and the doc    *)
(* comment above it, recipeToRawBlocks): every recipe node is one of the   *)
(* recipes counted and none is counted twice, in whatever order the nodes  *)
(* come; what is captured without a model is the page's only recipe, the   *)
(* fullest node of it, its title, every ingredient in order, and a block   *)
(* for each step, in order.  The steps excepted are those not listed where *)
(* the schema lists them: a section's only step that stands in no list,    *)
(* and a list within a list.  Those the adapter leaves out, and the page   *)
(* counts as read all the same.                                            *)
PagesAreReadForWhatTheyDeclare ==
    (subject.is = "source" /\ subject.provenance = "url" /\ stage \in {"reading", "captured", "refused"}) =>
    LET page == subject.page
        nodes == RecipeNodes(page)
        recipes == DistinctRecipes(LoadLdObjects(page))
        Instructions(r) == Field(r, "recipeInstructions")
    IN  /\ \A i \in DOMAIN nodes : \E j \in DOMAIN recipes :
               recipes[j] = nodes[i] \/ SameRecipe(nodes[i], recipes[j])
        /\ \A j, k \in DOMAIN recipes : j # k => ~SameRecipe(recipes[j], recipes[k])
        /\ LET reversed == Extracted(DistinctRecipes(Reverse(LoadLdObjects(page))))
               extracted == ExtractRecipeJsonLd(page)
           IN  /\ reversed.kind = extracted.kind
               /\ extracted.kind = "multiple" => reversed.inventory.count = extracted.inventory.count
        /\ Len(recipes) > 1 => stage = "refused" /\ result.inventory.count = Len(recipes)
        /\ stage = "captured" /\ Given(snapshot.payload) =>
               LET r == snapshot.payload[1]
                   texts == TextsOf(snapshot.blocks, "instruction")
               IN  /\ recipes = <<r>> /\ r \in ToSet(nodes)
                   /\ Every(nodes, LAMBDA n : RequiredSatisfiedCount(n) <= RequiredSatisfiedCount(r))
                   /\ TextsOf(snapshot.blocks, "title") = AsDisplayString(Field(r, "name"))
                   /\ TextsOf(snapshot.blocks, "ingredient") =
                          Displayed(Items(Field(r, "recipeIngredient")))
                   /\ Kind(Instructions(r)) # "text" => StepsInOrder(Instructions(r), texts)
                   /\ Kind(Instructions(r)) = "text" =>
                          FlattenSeq(texts) = FlattenSeq(Lines(Instructions(r)[1].text))

(* Block ids say what a block is, not where it stands                      *)
(* (block-id-policy.ts): no two blocks of a snapshot share one, the same   *)
(* blocks in another order get the same ids, and a block that goes takes   *)
(* no id away from a block of other content.                               *)
BlockIdsAreContents ==
    stage = "captured" =>
    LET blocks == snapshot.blocks
        ids == {blocks[i].id : i \in DOMAIN blocks}
        IdsOf(seq) == {AssignIds(seq)[i].id : i \in DOMAIN seq}
    IN  /\ Cardinality(ids) = Len(blocks)
        /\ IdsOf(Reverse(blocks)) = ids
        /\ \A i \in DOMAIN blocks :
               /\ IdsOf(RemoveAt(blocks, i)) \subseteq ids
               /\ Cardinality(IdsOf(RemoveAt(blocks, i))) = Len(blocks) - 1

-------------------------------------------------------------------------------
(* The readable texts of a source: the one text, or each leaf of the       *)
(* recipe node, bare of the blanks around it, and its lines.               *)
ReadableTexts(source, captured) ==
    IF captured.payload = <<>> THEN {Input(source)}
    ELSE UNION {{leaf, Trim(leaf)} \cup ToSet(Lines(leaf)) : leaf \in PayloadLeaves(captured.payload[1])}

(* What a kept recipe says is in its source (claim-support.ts, validate.ts *)
(* and title-grounding.ts together, whatever the two model replies were):  *)
(* each of its wordings is one unbroken run of the text a reader of the    *)
(* source sees, over the ends of lines too, as ADR-0019 accepts, but never *)
(* welded from the evidence of two places; its title is what a block       *)
(* captured as a title says, a photograph's too; and every block it names  *)
(* was captured.                                                           *)
KeptRecipesAreQuoted ==
    stage = "kept" =>
    LET sources == {NormalizeForSupport(text) : text \in ReadableTexts(subject, snapshot)}
        Quoted(wording) == \E text \in sources : Includes(text, NormalizeForSupport(wording))
        titles == {snapshot.blocks[i].text :
                      i \in {j \in DOMAIN snapshot.blocks : snapshot.blocks[j].type = "title"}}
        refs == CollectSourceRefs(result)
    IN  /\ subject.provenance # "photo" =>
               \A wording \in Wordings(result.title \o result.facts) :
                   Trim(wording) # <<>> => Quoted(wording)
        /\ Given(result.title) => SupportedBy(titles, result.title[1].sourceText)
        /\ \A i \in DOMAIN refs : Given(refs[i].blockId) =>
               \E j \in DOMAIN snapshot.blocks : snapshot.blocks[j].id = refs[i].blockId[1]

-------------------------------------------------------------------------------
IdsIn(elements) == {elements[i].id : i \in DOMAIN elements}

\* What a unit needs, of any kind, with the usages that kind stands for.
Needs(unit) ==
    Each(unit.amounts, LAMBDA a : [amount |-> a, usages |-> {"use_now", "use_all"}])
    \o Each(unit.splits, LAMBDA s : [amount |-> s.amount, usages |->
            IF s.portion = "remaining" THEN {"use_remaining"} ELSE {"use_partial_unspecified"}])
    \o Each(unit.reserved, LAMBDA r : [amount |-> r.amount, usages |-> {"reserve_for_later"}])

CountOf(seq, Is(_)) == Cardinality({i \in DOMAIN seq : Is(seq[i])})

(* A unit needs what its step uses, each use once and in its own kind, and *)
(* an amount is the use's wording, or the whole's for a use of the whole.  *)
UnitFollowsStep(recipe, unit, step) ==
    LET uses == step.ingredientUses \o step.componentUses
        needs == Needs(unit)
        wholes == Ingredients(recipe)
        Tells(use, text) ==
            \/ text = AmountText(use.quantityExpression, use.unit)
            \/ /\ ~Given(use.quantityExpression) /\ use.usage \in {"use_now", "use_all"}
               /\ \E i \in DOMAIN wholes : wholes[i].id = use.of
                      /\ text = AmountText(wholes[i].quantityExpression, wholes[i].unit)
    IN  /\ unit.origin.id = step.id /\ unit.actionText = step.normalizedActionText
        /\ Len(needs) = Len(uses)
        /\ \A i \in DOMAIN uses : LET u == uses[i]
               IN  CountOf(needs, LAMBDA n : n.amount.origin.id = u.of /\ u.usage \in n.usages)
                       = CountOf(uses, LAMBDA v : v.of = u.of /\ (v.usage = u.usage
                             \/ {v.usage, u.usage} = {"use_now", "use_all"}))
        /\ \A k \in DOMAIN needs : \E i \in DOMAIN uses :
               /\ uses[i].of = needs[k].amount.origin.id /\ uses[i].usage \in needs[k].usages
               /\ Tells(uses[i], needs[k].amount.text)

\* A cue is either started now, once, or what its own step's sentence says to do.
CueIsPlaced(plan, steps, n, c) ==
    LET cue == steps[n].prerequisiteCues[c]
        started == CountOf(plan.startNow, LAMBDA p :
            p.neededAtUnit = n /\ p.origin.index = <<c>> /\ p.text = cue.sourceText)
        words == LongWords[cue.sourceText]
        said == words # {} /\ words \subseteq Carries[steps[n].normalizedActionText]
    IN  started = IF n = 1 \/ said THEN 0 ELSE 1

(* A Cooking Plan is the recipe again (derive.ts, schema/cooking-plan.ts): *)
(* a unit for each step in order, every use told once, no portion with an  *)
(* amount nobody stated for it, every cue placed, the pantry complete but  *)
(* for what has no quantity where that is asked for, every origin a thing  *)
(* of the recipe; and there is no plan exactly where a use leads nowhere.  *)
PlanIsTheRecipe ==
    stage = "planned" =>
    LET recipe == subject.recipe
        plan == result
        steps == Steps(recipe)
        pantry == Ingredients(recipe)
        Dangles(step) ==
            \/ \E i \in DOMAIN step.ingredientUses : step.ingredientUses[i].of \notin IdsIn(pantry)
            \/ \E i \in DOMAIN step.componentUses :
                   step.componentUses[i].of \notin IdsIn(recipe.preparedComponents)
    IN  /\ (plan = Untraceable) <=> \E n \in DOMAIN steps : Dangles(steps[n])
        /\ plan # Untraceable =>
           /\ IsCookingPlan(plan)
           /\ Len(plan.units) = Len(steps)
           /\ \A n \in DOMAIN steps :
                  plan.units[n].n = n /\ UnitFollowsStep(recipe, plan.units[n], steps[n])
           /\ \A n \in DOMAIN steps : \A c \in DOMAIN steps[n].prerequisiteCues :
                  CueIsPlaced(plan, steps, n, c)
           /\ \A k \in 1..Len(plan.startNow) - 1 :
                  plan.startNow[k].neededAtUnit <= plan.startNow[k + 1].neededAtUnit
           /\ Each(plan.fetchPrepare, LAMBDA f : f.origin.id) =
                  Each(Filtered(pantry, LAMBDA i : Given(i.quantityExpression) \/ ~subject.suppress),
                       LAMBDA i : i.id)
           /\ \A k \in DOMAIN plan.fetchPrepare : \E i \in DOMAIN pantry :
                  /\ pantry[i].name = plan.fetchPrepare[k].text
                  /\ AmountText(pantry[i].quantityExpression, pantry[i].unit) =
                         plan.fetchPrepare[k].amount.text

-------------------------------------------------------------------------------
\* A published time, in tenths of a second.
TenthsOf(iso) == 10 * (iso.hours * 3600 + iso.minutes * 60 + iso.seconds)

(* What is published is what the source stated (schema-org-mapping.ts):    *)
(* a number only where it was exact and none rounded, a field's time the   *)
(* first the recipe gives it, nothing blank and nothing out of order; and  *)
(* whatever is not published is recorded as left out.                      *)
PublishedAsStated ==
    stage = "shown" =>
    LET recipe == subject.recipe
        out == result.published
        times == recipe.times
        FieldOf(t) == TimeFieldByType[t.type]
        Shown(i) == {k \in DOMAIN out.recipe.times : IsMapped(times[i])
                        /\ out.recipe.times[k].field = FieldOf(times[i])}
        LeftOut(field) == CountOf(out.omissions, LAMBDA o : o.field = field)
        Complete(field, shown, stated) == Len(shown) + LeftOut(field) = Len(stated)
    IN  /\ \A k \in DOMAIN out.recipe.times :
               LET shown == out.recipe.times[k]
                   ofField == Filtered(times, LAMBDA t : IsMapped(t) /\ FieldOf(t) = shown.field)
                   d == ofField[1].durationExpression
               IN  /\ d.kind = "exact" /\ d.value[1] > 0
                   /\ TenthsOf(shown.iso) = d.value[1] * SecondsPerUnit[d.unit[1]]
                   /\ shown.iso.minutes < 60 /\ shown.iso.seconds < 60
        /\ \A i \in DOMAIN times : Cardinality(Shown(i)) <= 1
        /\ Len(out.recipe.times)
               + CountOf(out.omissions, LAMBDA o : o.field \notin
                     {"name", "recipeIngredient", "recipeInstructions", "recipeYield"})
               = Len(times)
        /\ Complete("recipeIngredient", out.recipe.recipeIngredient, Ingredients(recipe))
        /\ Complete("recipeInstructions", out.recipe.recipeInstructions, Steps(recipe))
        /\ Every(out.recipe.recipeIngredient \o out.recipe.recipeInstructions \o out.recipe.author,
                 Filled)
        /\ Len(out.recipe.recipeYield) = Len(recipe.yields)
        /\ \A i \in DOMAIN recipe.yields :
               /\ out.recipe.recipeYield[i].name = recipe.yields[i].sourceText
               /\ "value" \in DOMAIN out.recipe.recipeYield[i] =>
                      recipe.yields[i].valueExpression.kind = "exact"
        /\ LeftOut("recipeYield") =
               CountOf(out.recipe.recipeYield, LAMBDA y : "value" \notin DOMAIN y)
        /\ Len(out.recipe.name) + LeftOut("name") = 1

(* The three surfaces and the published recipe tell one story (render/):   *)
(* one title or the same gap; the cooking view's steps, times, cues and    *)
(* products are the page's, under the same labels; a portion is always     *)
(* seen, and as a portion; an amount fetched is the page's amount; a cue   *)
(* the page shows is not lost at the stove; the card says nothing the page *)
(* does not; and a missing picture is missing for its own reason.          *)
SurfacesAgree ==
    stage = "shown" =>
    LET recipe == subject.recipe
        page == result.page.body
        title == result.page.documentTitle
        card == result.card
        cooking == result.cooking
        pageSteps == FlattenSeq(Each(page.sections, LAMBDA s : s.steps))
        pageItems == FlattenSeq(Each(page.ingredientGroups, LAMBDA g : g.ingredients))
        steps == Steps(recipe)
        OnPage(n, label) ==
            FlattenSeq(Each(Filtered(pageSteps[n].annotations, LAMBDA a : a.label = label),
                            LAMBDA a : a.values))
        OnUnit(n, label) ==
            Each(Filtered(cooking.units[n].annotations, LAMBDA a : a.label = label), LAMBDA a : a.text)
        Rows(n, row) == CountOf(cooking.units[n].nowYouNeed, LAMBDA r : r.row = row)
        Uses(n, usage) ==
            CountOf(steps[n].ingredientUses \o steps[n].componentUses, LAMBDA u : u.usage = usage)
    IN  /\ card.title = title /\ title = TitleLine(page.heading)
        /\ result.published.recipe.name = IF page.heading.state = "from_source" THEN <<title>> ELSE <<>>
        /\ ToSet(card.signals) \subseteq {page.signals[i].text : i \in DOMAIN page.signals}
        /\ card.attribution = page.attribution
        /\ card.picture <=> page.picture.state = "shown"
        /\ page.picture.state = "absent" =>
               /\ page.picture.sentence = NoPictureOfTheDish.not_served <=> Given(recipe.media.heroImage)
               /\ page.picture.sentence = NoPictureOfTheDish.photographed_page =>
                      subject.pictureSource = "photographed_page"
        /\ cooking # None =>
           /\ cooking.heading = title /\ cooking.documentTitle = title
           /\ Len(cooking.units) = Len(pageSteps)
           /\ \A n \in DOMAIN pageSteps :
                  /\ cooking.units[n].action = pageSteps[n].text
                  /\ \A label \in Range(CriticalLabel) : OnUnit(n, label) = OnPage(n, label)
                  /\ cooking.units[n].makes = OnPage(n, "Produces")
                  /\ Rows(n, "part_of") = Uses(n, "use_partial_unspecified")
                  /\ Rows(n, "remaining") = Uses(n, "use_remaining")
                  /\ Rows(n, "reserved") = Uses(n, "reserve_for_later")
           /\ \A k \in DOMAIN cooking.fetchPrepare : \E i \in DOMAIN pageItems :
                  /\ pageItems[i].item = cooking.fetchPrepare[k].item
                  /\ cooking.fetchPrepare[k].amount \in {<<>>, pageItems[i].amount}
           /\ cooking.startNow # <<>>
           /\ \A n \in 2..Len(pageSteps) : \A c \in DOMAIN OnPage(n, "Prerequisite") :
                  LET cue == OnPage(n, "Prerequisite")[c]
                  IN  \/ \E k \in DOMAIN cooking.startNow :
                             cooking.startNow[k] = [text |-> cue, forStep |-> n]
                      \/ LongWords[cue] \subseteq Carries[cooking.units[n].action]
===============================================================================
