------------------------------ MODULE MCDocuments ------------------------------
(* Pages of up to three recipe nodes in every relation of name and id, a   *)
(* few pages, texts and photographs a model reads, and recipes that use    *)
(* what they name in every way the contract has.                           *)
EXTENDS Documents

MCLetters ==
    {"teig", "mehl", "eier", "zucker", "semmel", "br", "mischen", "backen", "anna", "invented"}

-------------------------------------------------------------------------------
(* Pages. *)
Under(step, v) == Each(v, LAMBDA n : [n EXCEPT !.at = <<step>> \o @])
List(items) ==
    <<Node("list", <<>>)>> \o FlattenSeq([i \in DOMAIN items |-> Under(Item(i), items[i])])
Object(fields) ==
    <<Node("object", <<>>)>>
    \o FlattenSeq(Each(fields, LAMBDA f : Under(Key(f.key), f.value)))
As(key, value) == <<[key |-> key, value |-> value]>>
With(key, value) == IF value = Nothing THEN <<>> ELSE As(key, value)
Null == <<Node("nothing", <<>>)>>
Number(symbols) == <<Node("number", symbols)>>

A == Text(<<"teig">>)
ABlank == Text(<<"_", "teig", "/">>)
B == Text(<<"zucker">>)
X == Text(<<"#x">>)
Y == Text(<<"#y">>)

Flour == <<"250", "_", "mehl">>
Eggs == <<"2", "_", "eier">>
Crumbs == <<"semmel", "-", "/", "br">>

RecipeNode(name, id, full, place) ==
    Object(As("@type", List(<<Text(<<"Thing">>), Text(<<"recipe">>)>>))
           \o With("name", name) \o With("@id", id)
           \o As("description", Text(<<place>>))
           \o As("recipeIngredient", List(<<Text(Flour), Text(Eggs)>>))
           \o (IF full THEN As("recipeInstructions", Text(<<"mischen", "/", "backen">>))
                            \o As("recipeYield", Number(<<"4">>))
                       ELSE <<>>))

Nodes(names, place) ==
    {RecipeNode(n, i, f, place) : n \in names, i \in {Nothing, X, Y}, f \in BOOLEAN}

Site == Object(As("@type", Text(<<"WebSite">>)))
Graph(items) == Object(As("@graph", List(items)))

Draws == [i \in 1..9 |-> IF i < 3 THEN "key1" ELSE "key2"]
Page(scripts) ==
    [is |-> "source", provenance |-> "url", page |-> [scripts |-> scripts, html |-> <<>>],
     draws |-> Draws]

PagesOfTwo ==
    UNION {{Page(<< <<List(<<p, q>>)>> >>), Page(<< <<Graph(<<Site, p>>)>>, <<>>, <<q>> >>)} :
              p \in Nodes({Nothing, A, ABlank, B}, "1"), q \in Nodes({Nothing, A, B}, "2")}
PagesOfThree ==
    {Page(<< <<Graph(<<p, q>>)>>, <<r>> >>) :
        p \in Nodes({Nothing, A, B}, "1"), q \in Nodes({Nothing, A}, "2"), r \in Nodes({Nothing, A, B}, "3")}

(* A recipe node with another in a graph of its own.                       *)
PagesNested ==
    {Page(<< <<Object(As("@type", Text(<<"recipe">>)) \o With("name", n) \o As("@graph", List(<<q>>)))>> >>) :
        n \in {Nothing, A}, q \in Nodes({Nothing, A}, "2")}

Step(key, text) == Object(As(key, Text(text)))
Section(fields) == Object(As("@type", Text(<<"howtosection">>)) \o fields)
SomeInstructions ==
    LET Listed(elements) == As("itemListElement", List(elements))
    IN  {Text(<<"mischen", "/", "_", "/", "backen">>),
         List(<<Text(<<"mischen">>), Step("text", <<"backen">>), Number(<<"3">>), List(<<Text(<<"teig">>)>>)>>),
         List(<<Section(As("name", A)
                        \o Listed(<<Step("text", <<"mischen">>), Section(Listed(<<Step("name", <<"backen">>)>>))>>)),
                Object(Listed(<<Text(<<"teig">>)>>))>>),
         Section(As("itemListElement", Step("text", <<"backen">>)))}
SomeAuthors ==
    {Nothing, List(<<Object(As("name", Text(<<"_">>))), Object(As("name", Text(<<"anna">>)))>>)}
SomeYields == {List(<<Text(<<"_">>), Text(<<"4", "_", "teig">>)>>), Number(<<"4">>)}

DeclaredRecipe(instructions, author, yield) ==
    Object(As("@type", Text(<<"recipe">>)) \o As("name", ABlank) \o With("author", author)
           \o As("recipeYield", yield) \o As("recipeInstructions", instructions)
           \o As("totalTime", Text(<<"pt30m">>))
           \o As("recipeIngredient", List(<<Text(Flour), Null, Text(Eggs), Text(Flour)>>)))
PagesOfOne ==
    {Page(<< <<Site>>, <<DeclaredRecipe(i, a, y)>> >>) :
        i \in SomeInstructions, a \in SomeAuthors, y \in SomeYields}

-------------------------------------------------------------------------------
(* What a model reads: a page that declares nothing, a text, a photograph. *)
Html ==
    <<"<!>", "<p>", "teig", "<p>">> \o <<"250", "&nbsp;", "mehl", "<p>">>
    \o <<"2", "_", "ei", "<b>", "er", "<p>", "semmel", "-", "<p>", "br", "key1">>
PlainText == <<"teig", "/">> \o Flour \o <<"/">> \o Eggs \o <<"/">> \o Crumbs

ModelSources ==
    {[is |-> "source", provenance |-> p.by, page |-> [scripts |-> <<>>, html |-> p.text], draws |-> Draws] :
        p \in {[by |-> "url", text |-> Html], [by |-> "text", text |-> PlainText],
               [by |-> "text", text |-> PlainText \o <<"key1", "key2">>],
               [by |-> "photo", text |-> <<>>]}}

Block(type, text) == [type |-> type, heading |-> <<>>, text |-> text]
CapturedTexts ==
    {Flour, <<"2", "_", "ei", "er">>, Eggs, <<"mehl", "_", "2">>, <<"250", "_", "eier">>,
     <<"semmel", "br">>, <<"_">>}
Reply(blocks, count, titles) ==
    [blocks |-> blocks, recipeCount |-> count, recipeTitles |-> titles]

MCReplies(source) ==
    LET Blocks(title, one, two) ==
            <<Block(title, <<"teig">>), Block("ingredient", one), Block("instruction", two)>>
    IN  IF source.page.html = <<>> /\ source.provenance = "url"
        THEN {Reply(<<>>, 1, <<"none">>)}
        ELSE {Reply(Blocks("title", one, two), 1, <<"teig">>) :
                 one \in CapturedTexts, two \in {Eggs, <<"250", "_", "eier">>, <<"semmel", "br">>}}
             \cup {Reply(Blocks(type, one, Eggs), 1, <<"teig">>) :
                      type \in {"note", "equipment"}, one \in {Flour, <<"_">>}}
             \cup {Reply(Blocks("title", Flour, Eggs), count, titles) :
                      count \in {0, 1, 2}, titles \in {<<>>, <<"a", "b">>}}
             \cup {Reply(Blocks("equipment", <<"key1">>, <<"key2">>), 1, <<"teig">>)}

-------------------------------------------------------------------------------
(* What a model makes of a snapshot. *)
Fact(refs, wording, around) == [sourceRefs |-> refs, sourceText |-> wording, around |-> around]
ToBlock(id) == [blockId |-> <<id>>, payloadPointer |-> <<>>]
ToPayload(pointer) == [blockId |-> <<>>, payloadPointer |-> <<pointer>>]
Dangling == ToBlock(<<"dangling">>)

MCDrafts(captured) ==
    LET blocks == captured.blocks
        Id(i) == ToBlock(blocks[i].id)
        n == Len(blocks)
        refs == {<<>>, <<Id(n)>>, <<Id(n - 1), Id(n)>>, <<Id(1), Id(n - 1)>>, <<Dangling, Id(n)>>,
                 <<ToPayload(<<Key("recipeIngredient"), Item(1)>>)>>, <<ToPayload(<<>>)>>,
                 <<ToPayload(<<Key("recipeIngredient"), Item(9)>>)>>}
        wordings == {blocks[n].text, blocks[n - 1].text, blocks[n - 1].text \o <<"_">> \o blocks[n].text,
                     Flour, <<"250", "_", "eier">>, <<"invented">>, <<"_">>}
        titles == {<<>>, <<Fact(<<Id(1)>>, blocks[1].text, 0)>>, <<Fact(<<Id(n)>>, blocks[n].text, 0)>>,
                   <<Fact(<<Id(1), Id(n)>>, blocks[n].text, 0)>>,
                   <<Fact(<<Id(1)>>, <<"invented">>, 0)>>, <<Fact(<<Id(1)>>, <<"_">>, 0)>>,
                   <<Fact(<<>>, blocks[1].text, 0)>>}
        honest == Fact(<<Id(n)>>, blocks[n].text, 0)
        Draft(title, facts) == [title |-> title, facts |-> facts]
    IN  IF n < 3 THEN {Draft(<<>>, <<>>)}
        ELSE IF Given(captured.payload) /\ \A i \in 1..n : blocks[i].type # "author"
        THEN {Draft(<<Fact(<<Id(1)>>, blocks[1].text, 0)>>, <<honest>>)}
        ELSE {Draft(t, <<honest>>) : t \in titles}
             \cup {Draft(<<>>, <<Fact(r, w, 0), Fact(s, v, 1)>>) :
                      r \in refs, w \in wordings, s \in {<<>>, <<Id(n - 1)>>},
                      v \in {<<>>, blocks[n - 1].text, <<"250", "_", "eier">>}}

-------------------------------------------------------------------------------
(* Recipes. *)
Ref == <<[blockId |-> <<"b-1">>, payloadPointer |-> <<>>]>>
OtherRef == <<[blockId |-> <<"b-2">>, payloadPointer |-> <<"/recipeIngredient">>]>>
Value(kind, text, value) == [sourceText |-> text, kind |-> kind, value |-> value]
Quantity == Value("exact", "250", <<2500>>)
Pinch == Value("qualitative", "etwas", <<>>)
Spoons == Value("range", "2-3", <<>>)
Duration(kind, text, value, unit) ==
    [sourceText |-> text, kind |-> kind, value |-> value, unit |-> unit]

Ingredient(id, text, name, quantity, unit) ==
    [id |-> id, sourceText |-> text, name |-> name, quantityExpression |-> quantity, unit |-> unit,
     qualifiers |-> <<>>, optional |-> FALSE, sourceRefs |-> Ref]
Use(of, usage, quantity, unit) ==
    [of |-> of, usage |-> usage, quantityExpression |-> quantity, unit |-> unit, sourceRefs |-> OtherRef]
Cue(text) == [sourceText |-> text, sourceRefs |-> Ref]
AStep(id, text, action, uses, components, produces, cues) ==
    [id |-> id, sourceText |-> text, normalizedActionText |-> action, sourceRefs |-> Ref,
     ingredientUses |-> uses, componentUses |-> components, producesComponents |-> produces,
     durations |-> <<[durationExpression |-> Duration("exact", "30 Minuten", <<300>>, <<"minuten">>),
                      sourceRefs |-> Ref]>>,
     temperatures |-> <<>>, donenessCues |-> <<Cue("bis goldbraun")>>, prerequisiteCues |-> cues,
     waitCues |-> <<>>]
ASection(id, title, steps) == [id |-> id, title |-> title, steps |-> steps, sourceRefs |-> Ref]

HeatOven == "Ofen heiss"
Short == "an"
MCLongWords == [t \in {HeatOven, Short} |-> IF t = HeatOven THEN {"ofen", "heiss"} ELSE {}]
MCCarries ==
    [t \in {"Mischen", "Ofen heiss machen", "Backen"} |->
        IF t = "Ofen heiss machen" THEN {"ofen", "heiss", "machen"} ELSE {"backen"}]
SomeCues == {<<>>, <<Cue(HeatOven)>>, <<Cue(Short), Cue(HeatOven)>>}

NoMedia == [heroImage |-> <<>>]
Titled == [state |-> "from_source", sourceText |-> "Teig", sourceRefs |-> Ref]
Untitled == [state |-> "not_in_source"]

Base ==
    [id |-> "r", title |-> Titled, description |-> <<>>, authors |-> <<"Anna">>,
     sourcePublisher |-> <<>>, sourceName |-> <<"Buch">>, sourceClassifications |-> <<Cue("Kuchen")>>,
     yields |-> <<>>, times |-> <<>>,
     equipment |-> <<[id |-> "e", name |-> "Sieb", quantityExpression |-> <<>>, qualifiers |-> <<>>,
                      sourceRefs |-> Ref]>>,
     ingredientGroups |-> <<>>,
     preparedComponents |-> <<[id |-> "dough", label |-> "Teigkugel", createdByStepId |-> "s1",
                               sourceRefs |-> Ref]>>,
     instructionSections |-> <<>>,
     nutritionStatements |-> <<[id |-> "n", basis |-> [kind |-> "per_serving", sourceText |-> <<>>],
        facts |-> <<[nutrient |-> "energy", sourceLabel |-> <<"Brennwert">>, unit |-> <<"kcal">>,
                     valueExpression |-> Value("exact", "200", <<2000>>), sourceRefs |-> Ref]>>,
        sourceRefs |-> Ref]>>,
     media |-> NoMedia]

GroupsOf(salt) ==
    <<[id |-> "g", title |-> <<"Teig">>, sourceRefs |-> Ref,
       ingredients |-> <<Ingredient("flour", "250 g Mehl", "Mehl", <<Quantity>>, <<"g">>),
                         Ingredient("salt", "Salz", "Salz", salt, <<>>)>>]>>

CookedBy(salt, uses, components, action, cues) ==
    [Base EXCEPT !.ingredientGroups = GroupsOf(salt),
        !.instructionSections =
            <<ASection("a", <<>>, <<AStep("s1", "Mischen.", "Mischen", uses, <<>>, <<"dough">>,
                                          <<Cue(HeatOven)>>)>>),
              ASection("b", <<"Backen">>,
                  <<AStep("s2", "Backen.", action, <<Use("salt", "use_now", <<>>, <<>>)>>,
                          components, <<"crust">>, cues)>>)>>]

Shown(recipe, suppress, served, pictureSource) ==
    [is |-> "recipe", recipe |-> recipe, suppress |-> suppress, served |-> served,
     pictureSource |-> pictureSource]

SomeUses ==
    {<<Use("flour", k, q, u)>> : k \in UsageKind, q \in {<<>>, <<Spoons>>}, u \in {<<"el">>}}
    \cup {<<Use("flour", "use_now", <<>>, <<>>), Use("flour", "use_remaining", <<>>, <<>>)>>}
SomeComponents == {<<>>} \cup {<<Use("dough", k, <<>>, <<>>)>> : k \in UsageKind}

CookedRecipes ==
    {Shown(CookedBy(salt, uses, components, action, cues), suppress, FALSE, "unread") :
        salt \in {<<>>, <<Pinch>>, <<Quantity>>}, uses \in SomeUses, components \in SomeComponents,
        action \in {"Ofen heiss machen", "Backen"}, cues \in SomeCues, suppress \in BOOLEAN}

Plain == CookedBy(<<>>, <<Use("flour", "use_all", <<>>, <<>>)>>, <<Use("dough", "use_all", <<>>, <<>>)>>,
                  "Backen", <<>>)
OddRecipes ==
    {Shown(r, FALSE, FALSE, "unread") : r \in
        {CookedBy(<<>>, <<Use("sugar", k, <<>>, <<>>)>>, <<>>, "Backen", <<>>) : k \in UsageKind}
        \cup {CookedBy(<<>>, <<>>, <<Use("flour", k, <<>>, <<>>)>>, "Backen", <<>>) : k \in UsageKind}
        \cup {[Plain EXCEPT !.instructionSections = <<>>],
              [Plain EXCEPT !.ingredientGroups = @ \o GroupsOf(<<Pinch>>)]}}

Portrait(attribution) == [heroImage |-> <<[storageIdentity |-> "media/1", origin |-> "source_url",
                                           attribution |-> attribution]>>]
PicturedRecipes ==
    {Shown([Plain EXCEPT !.title = title, !.media = media, !.sourcePublisher = publisher], FALSE, served, p) :
        title \in {Titled, Untitled}, media \in {NoMedia, Portrait(<<>>), Portrait(<<"Foto: Anna">>)},
        publisher \in {<<>>, <<"Verlag">>}, served \in BOOLEAN, p \in PictureSource}

ATime(type, duration) ==
    [type |-> type, sourceLabel |-> <<>>, durationExpression |-> duration, sourceRefs |-> Ref]
SomeDurations ==
    {Duration("exact", "x", v, u) : v \in {<<>>, <<0>>, <<5>>, <<15>>, <<901>>},
                                    u \in {<<>>, <<"s">>, <<"min">>, <<"h">>, <<"prise">>}}
    \cup {Duration("range", "1-2 h", <<10>>, <<"h">>)}
SomeTimes ==
    {<<ATime(s, d)>> : s \in {"prep", "total", "rest"}, d \in SomeDurations}
    \cup {<<ATime(s, d), ATime(t, e)>> : s \in {"cook", "rest"}, t \in {"bake", "cook", "total"},
             d \in {Duration("range", "1-2 h", <<10>>, <<"h">>), Duration("exact", "1.5 h", <<15>>, <<"h">>)},
             e \in SomeDurations}
AYield(value, unit) ==
    [id |-> "y", sourceText |-> "4", valueExpression |-> value, unit |-> unit, sourceRefs |-> Ref]
PublishedRecipes ==
    {Shown([Plain EXCEPT !.times = times], FALSE, FALSE, "unread") : times \in SomeTimes}
    \cup {Shown([Plain EXCEPT !.yields = yields, !.authors = authors, !.title = title,
                    !.ingredientGroups[1].ingredients[2].sourceText = salt,
                    !.instructionSections[2].steps[1].sourceText = step], FALSE, FALSE, "unread") :
            yields \in {<<>>, <<AYield(Quantity, <<"stueck">>), AYield(Pinch, <<>>)>>},
            authors \in {<<>>, <<"">>, <<"", "Anna">>}, title \in {Titled, Untitled},
            salt \in {"", "Salz"}, step \in {"", "Backen."}}

MCSubjects ==
    PagesOfOne \cup PagesOfTwo \cup PagesOfThree \cup PagesNested \cup ModelSources
    \cup CookedRecipes \cup OddRecipes \cup PicturedRecipes \cup PublishedRecipes
===============================================================================
