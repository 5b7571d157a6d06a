---------------------------------- MODULE JsonLd ----------------------------------
(***************************************************************************)
(* pipeline/url-jsonld-adapter.ts: which recipe a page's JSON-LD declares, *)
(* and the blocks it is captured as.                                       *)
(*                                                                         *)
(* A JSON value is the list of its nodes in the order they are written,    *)
(* its own node first.  A node is a "text" or a "number" with its text, a  *)
(* "list", an "object" or "nothing", at the path of steps that leads to it *)
(* from the value: the keys of objects and the places in lists.            *)
(* A page's scripts are the values they parse to, with the comment marks   *)
(* some sites wrap them in taken off, or <<>> where one does not parse.    *)
(***************************************************************************)
EXTENDS Texts

Key(name) == <<name, 0>>
Item(place) == <<"", place>>
IsItem(step) == step[2] > 0

\* At the first list where two paths part, the first takes an earlier place.
ReadBefore(p, q) ==
    \E d \in DOMAIN p \cap DOMAIN q :
        /\ \A e \in 1..d - 1 : p[e] = q[e]
        /\ IsItem(p[d]) /\ IsItem(q[d]) /\ p[d][2] < q[d][2]

(* What JSON.parse can give: each path once, and before a node, one for    *)
(* every beginning of its path, an object where a key follows and a list   *)
(* where a place does; the places of a list in order.                      *)
IsStep(step) == step = <<step[1], step[2]>> /\ step[2] \in Nat /\ (step[2] > 0 => step[1] = "")
IsTree(v) ==
    /\ \A i, j \in DOMAIN v : v[i].at = v[j].at => i = j
    /\ \A i \in DOMAIN v : \A d \in 0..Len(v[i].at) - 1 : \E j \in 1..i - 1 :
           /\ v[j].at = SubSeq(v[i].at, 1, d)
           /\ v[j].is = IF IsItem(v[i].at[d + 1]) THEN "list" ELSE "object"
    /\ \A i \in DOMAIN v : \A d \in DOMAIN v[i].at : IsStep(v[i].at[d])
    /\ \A i, j \in DOMAIN v : ReadBefore(v[i].at, v[j].at) => i < j
IsValue(v) == ListOf(v, LAMBDA n : IsList(n.at) /\ IsList(n.text)) /\ IsTree(v)

Node(is, text) == [at |-> <<>>, is |-> is, text |-> text]
Text(symbols) == <<Node("text", symbols)>>
Nothing == <<>>         \* what is not there
Kind(v) == IF v = Nothing THEN "nothing" ELSE v[1].is
IsObject(v) == Kind(v) = "object"

\* What a path leads to, as a value of its own.
Part(v, path) ==
    Each(Filtered(v, LAMBDA n : IsPrefix(path, n.at)),
         LAMBDA n : [at |-> SubSeq(n.at, Len(path) + 1, Len(n.at)), is |-> n.is, text |-> n.text])
Field(obj, name) == Part(obj, <<Key(name)>>)
Items(v) ==
    IF Kind(v) = "list" THEN Each(Filtered(v, LAMBDA n : Len(n.at) = 1), LAMBDA n : Part(v, n.at))
    ELSE <<v>>

(* The path goes through lists, and where it goes through an object, by    *)
(* one of these fields and the list in it.                                 *)
ThroughLists(path, fields) ==
    \A k \in DOMAIN path :
        \/ IsItem(path[k])
        \/ path[k] \in {Key(f) : f \in fields} /\ k < Len(path) /\ IsItem(path[k + 1])

Required == <<"name", "recipeIngredient", "recipeInstructions", "recipeYield">>

(* A value as a display string, where it has one.                          *)
AsDisplayString(v) ==
    IF Kind(v) \in {"text", "number"} /\ Trim(v[1].text) # <<>> THEN <<Trim(v[1].text)>> ELSE <<>>
Displayed(values) == FlattenSeq(Each(values, AsDisplayString))

NonEmpty(v) ==
    CASE Kind(v) = "nothing" -> FALSE
      [] Kind(v) = "text" -> Trim(v[1].text) # <<>>
      [] Kind(v) \in {"list", "object"} -> Len(v) > 1
      [] OTHER -> TRUE

-------------------------------------------------------------------------------
(* Every object of a page, lists and @graph flattened, in the page's order. *)
IterNodes(v) ==
    Each(Filtered(v, LAMBDA n : n.is = "object" /\ ThroughLists(n.at, {"@graph"})),
         LAMBDA n : Part(v, n.at))

LoadLdObjects(page) ==
    FlattenSeq(Each(page.scripts, LAMBDA s : IF s = <<>> THEN <<>> ELSE IterNodes(s[1])))

IsOfType(obj, type) == Text(type) \in ToSet(Items(Field(obj, "@type")))
IsRecipe(obj) == IsOfType(obj, <<"recipe">>)

MissingRequired(recipe) == Filtered(Required, LAMBDA f : ~NonEmpty(Field(recipe, f)))
RequiredSatisfiedCount(recipe) == Len(Required) - Len(MissingRequired(recipe))

\* The first of the richest.
Richest(nodes) ==
    LET best == Max({RequiredSatisfiedCount(nodes[i]) : i \in DOMAIN nodes})
    IN  Filtered(nodes, LAMBDA n : RequiredSatisfiedCount(n) = best)[1]

NameOf(node) == Each(AsDisplayString(Field(node, "name")), Collapsed)
IdOf(node) == AsDisplayString(Field(node, "@id"))

\* What a node is told by: its name, its id, or nothing but where it is.
KeyAt(nodes, i) ==
    IF NameOf(nodes[i]) # <<>> THEN <<"name", NameOf(nodes[i])>>
    ELSE IF IdOf(nodes[i]) # <<>> THEN <<"id", IdOf(nodes[i])>> ELSE <<"#", i>>
Members(nodes, g) == Picked(nodes, {i \in DOMAIN nodes : KeyAt(nodes, i) = KeyAt(nodes, g)})

\* Nodes that say who they are, and those of one id.
Known(members) == Filtered(members, LAMBDA n : IdOf(n) # <<>>)
OfId(known, k) == Filtered(known, LAMBDA n : IdOf(n) = IdOf(known[k]))
ById(members) ==
    Each(Groups(Known(members), LAMBDA k : IdOf(Known(members)[k])), LAMBDA k : OfId(Known(members), k))

\* Mutant: an id counts only where there is no name.
CollapsedByName(objects) ==
    LET nodes == Filtered(objects, IsRecipe)
    IN  Each(Groups(nodes, LAMBDA i : KeyAt(nodes, i)), LAMBDA g : Richest(Members(nodes, g)))

(* A page's recipes: nodes of one name are one recipe, unless two of them  *)
(* carry ids that differ; a node with neither name nor id is its own.      *)
RecipesOf(members) ==
    IF Len(ById(members)) > 1 THEN Each(ById(members), Richest) ELSE <<Richest(members)>>
DistinctRecipes(objects) ==
    LET nodes == Filtered(objects, IsRecipe)
    IN  FlattenSeq(Each(Groups(nodes, LAMBDA i : KeyAt(nodes, i)), LAMBDA g : RecipesOf(Members(nodes, g))))

InventoryOf(recipes) ==
    [count |-> Len(recipes), titles |-> Each(recipes, LAMBDA r : AsDisplayString(Field(r, "name")))]

Extraction(recipes, missing) ==
    CASE Len(recipes) > 1 -> [kind |-> "multiple", inventory |-> InventoryOf(recipes)]
      [] Len(recipes) <= 1 /\ missing # <<>> ->
            [kind |-> "insufficient", recipePresent |-> recipes # <<>>, missingRequired |-> missing]
      [] OTHER -> [kind |-> "sufficient", recipe |-> recipes[1]]
Extracted(recipes) ==
    Extraction(recipes, IF recipes = <<>> THEN Required ELSE MissingRequired(recipes[1]))
ExtractRecipeJsonLd(page) == Extracted(DistinctRecipes(LoadLdObjects(page)))

-------------------------------------------------------------------------------
(* A recipe's blocks.                                                      *)
AuthorDisplay(v) ==
    LET Name(author) == AsDisplayString(IF IsObject(author) THEN Field(author, "name") ELSE author)
    IN  FirstOf(FlattenSeq(Each(Filtered(v, LAMBDA n : n.is # "list" /\ ThroughLists(n.at, {})),
                                LAMBDA n : Name(Part(v, n.at)))))

DisplayYield(v) == FirstOf(Displayed(Items(v)))
IngredientLines(v) == Displayed(Items(v))

IsHowToSection(e) ==
    IsOfType(e, <<"howtosection">>) \/ Kind(Field(e, "itemListElement")) = "list"

\* An element is listed at the top or in a section; a list in a list is none.
IsElement(path) ==
    /\ ThroughLists(path, {"itemListElement"})
    /\ \A k \in 2..Len(path) : ~(IsItem(path[k - 1]) /\ IsItem(path[k]))

\* The nearest section around that has a name.
HeadingOf(v, path) ==
    LET NameAt(depth) == AsDisplayString(Field(Part(v, SubSeq(path, 1, depth)), "name"))
        named == {depth \in 0..Len(path) - 1 : NameAt(depth) # <<>>}
    IN  IF named = {} THEN <<>> ELSE NameAt(Max(named))

\* A section has no text of its own, whatever is or is not in it.
StepsFromElement(v, path) ==
    LET e == Part(v, path)
        texts == CASE Kind(e) = "text" -> AsDisplayString(e)
                   [] IsObject(e) /\ ~IsHowToSection(e) ->
                         FirstOf(Displayed(<<Field(e, "text"), Field(e, "name")>>))
                   [] OTHER -> <<>>
    IN  Each(texts, LAMBDA t : [heading |-> HeadingOf(v, path), text |-> t])

InstructionSteps(v) ==
    IF Kind(v) = "text" THEN Each(Lines(v[1].text), LAMBDA l : [heading |-> <<>>, text |-> l])
    ELSE FlattenSeq(Each(Filtered(v, LAMBDA n : IsElement(n.at)), LAMBDA n : StepsFromElement(v, n.at)))

RecipeToRawBlocks(recipe) ==
    LET Block(type, heading, texts) ==
            Each(texts, LAMBDA t : [type |-> type, heading |-> heading, text |-> t])
        Metadata(field) == Block("metadata", << <<field>> >>, AsDisplayString(Field(recipe, field)))
    IN  Block("title", <<>>, AsDisplayString(Field(recipe, "name")))
        \o Block("author", <<>>, AuthorDisplay(Field(recipe, "author")))
        \o Block("metadata", << <<"recipeYield">> >>, DisplayYield(Field(recipe, "recipeYield")))
        \o Metadata("prepTime") \o Metadata("cookTime") \o Metadata("totalTime")
        \o Metadata("description")
        \o Block("ingredient", <<>>, IngredientLines(Field(recipe, "recipeIngredient")))
        \o Each(InstructionSteps(Field(recipe, "recipeInstructions")),
                LAMBDA s : [type |-> "instruction", heading |-> s.heading, text |-> s.text])

(* The deterministic capture: a page that declares several recipes is      *)
(* refused with what it holds, one that declares too little is declined.   *)
CaptureExtracted(extraction) ==
    CASE extraction.kind = "multiple" ->
            [refused |-> "MultipleRecipesError", inventory |-> extraction.inventory]
      [] extraction.kind = "insufficient" -> [refused |-> "InsufficientRecipeJsonLdError"]
      [] extraction.kind = "sufficient" ->
            [sourceType |-> "url", blocks |-> RecipeToRawBlocks(extraction.recipe),
             payload |-> <<extraction.recipe>>]
CaptureJsonLd(page) == CaptureExtracted(ExtractRecipeJsonLd(page))
===============================================================================
