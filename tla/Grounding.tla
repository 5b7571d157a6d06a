-------------------------------- MODULE Grounding --------------------------------
(***************************************************************************)
(* From a source to a recipe it supports: url-capture.ts and               *)
(* model-providers.ts (what a model's reply is taken for), capture.ts and  *)
(* block-id-policy.ts (the snapshot), claim-support.ts, title-grounding.ts *)
(* and persistence/validate.ts (what a recipe may say of it).              *)
(*                                                                         *)
(* What a model answers is data: a capture reply has blocks, a count of    *)
(* recipes and their titles, a normalization reply has a title and facts.  *)
(* A fact has its own references, its verbatim wording (<<>> where it      *)
(* quotes nothing) and the place of the fact around it, 0 at the top: the  *)
(* list of them is the recipe's tree as it is walked.  A fence's random    *)
(* part is a symbol, drawn again while the text carries it.                *)
(***************************************************************************)
EXTENDS JsonLd

Refused(error) == [refused |-> error]
IsRefused(result) == "refused" \in DOMAIN result

VerifiedTypes == {"url", "text"}
SourceTypeOf(provenance) ==
    CASE provenance = "photo" -> "image" [] provenance = "url" -> "url" [] OTHER -> "text"

(* schema/source-snapshot.ts. *)
SourceType == {"image", "url", "text", "other"}
BlockType ==
    {"title", "metadata", "ingredient_group", "ingredient", "instruction_group", "instruction",
     "note", "author", "other"}

IsSnapshotBlock(b) ==
    /\ DOMAIN b = {"id", "type", "heading", "text"}
    /\ b.type \in BlockType /\ Len(b.heading) <= 1 /\ IsList(b.text)
IsSourceSnapshot(s) ==
    /\ DOMAIN s = {"sourceType", "blocks", "payload"} /\ s.sourceType \in SourceType
    /\ ListOf(s.blocks, IsSnapshotBlock) /\ Len(s.payload) <= 1

-------------------------------------------------------------------------------
(* untrusted-source-text.ts: the fence around what is sealed, here the     *)
(* texts in it, is a marker none of them contains; draws are the markers   *)
(* its nine tries would draw.                                              *)
SealSourceText(texts, draws) ==
    LET free == Filtered(draws, LAMBDA marker : \A text \in texts : ~Includes(text, <<marker>>))
    IN  IF free = <<>> THEN Refused("no marker") ELSE [marker |-> free[1], texts |-> texts]

(* A block's id and its place are never the model's.                       *)
ReadBlocks(blocks) == Each(blocks, LAMBDA b : [type |-> b.type, heading |-> b.heading, text |-> b.text])
BlocksReadable(blocks) == Every(blocks, LAMBDA b : b.type \in BlockType)

VerifyCaptureSupport(sourceType, input, blocks) ==
    sourceType \in VerifiedTypes =>
        Every(blocks, LAMBDA b : Includes(NormalizeForSupport(input), NormalizeForSupport(b.text)))

(* An unknown count of recipes is refused as one that is too high is.      *)
CountIsKnown(reply) == reply.recipeCount >= 1 /\ Len(reply.recipeTitles) = reply.recipeCount

(* A model's capture: what is read is checked against the input.           *)
CaptureByModel(provenance, input, reply) ==
    LET sourceType == SourceTypeOf(provenance)
    IN  CASE ~BlocksReadable(reply.blocks) -> Refused("ModelReplyError")
          [] ~VerifyCaptureSupport(sourceType, input, reply.blocks) ->
                Refused("UnsupportedCaptureError")
          [] ~CountIsKnown(reply) -> Refused("UnknownRecipeCountError")
          [] reply.recipeCount > 1 -> Refused("MultipleRecipesError")
          [] OTHER -> [sourceType |-> sourceType, blocks |-> ReadBlocks(reply.blocks), payload |-> <<>>]

-------------------------------------------------------------------------------
(* The snapshot: a block's id is its content, and the number of earlier    *)
(* blocks of that content.                                                 *)
Content(b) == <<b.type, Each(b.heading, Collapsed), Collapsed(b.text)>>

\* Mutant: a block's place is part of its id.
PlacedIds(blocks) ==
    [i \in DOMAIN blocks |-> [id |-> <<Content(blocks[i]), i>>, type |-> blocks[i].type,
                              heading |-> blocks[i].heading, text |-> blocks[i].text]]

AssignIds(blocks) ==
    [i \in DOMAIN blocks |->
        [id |-> <<Content(blocks[i]), Cardinality({j \in 1..i - 1 : Content(blocks[j]) = Content(blocks[i])})>>,
         type |-> blocks[i].type, heading |-> blocks[i].heading, text |-> blocks[i].text]]

CaptureSnapshot(result) ==
    IF IsRefused(result) THEN result
    ELSE LET snapshot == [sourceType |-> result.sourceType, blocks |-> AssignIds(result.blocks),
                          payload |-> result.payload]
         IN  IF IsSourceSnapshot(snapshot) THEN snapshot ELSE Refused("ZodError")

Cited(snapshot, refs) ==
    Filtered(snapshot.blocks, LAMBDA b : \E i \in DOMAIN refs : refs[i].blockId = <<b.id>>)

-------------------------------------------------------------------------------
(* What a recipe may say.  A claim inherits the references of the nearest  *)
(* node around it that has any.  A title is a claim like any other.        *)
CollectClaims(recipe) ==
    LET facts == recipe.facts
        scope[place \in 0..Len(facts)] ==
            IF place = 0 THEN <<>>
            ELSE IF facts[place].sourceRefs # <<>> THEN facts[place].sourceRefs
            ELSE scope[facts[place].around]
        claims == Each(recipe.title, LAMBDA t : [text |-> t.sourceText, refs |-> t.sourceRefs])
                  \o [i \in DOMAIN facts |-> [text |-> facts[i].sourceText, refs |-> scope[i]]]
    IN  Filtered(claims, LAMBDA c : Trim(c.text) # <<>>)

CollectSourceRefs(recipe) ==
    FlattenSeq(Each(recipe.title \o recipe.facts, LAMBDA node : node.sourceRefs))

(* A pointer is a path; leaves are never joined.                           *)
ResolvePointer(payload, pointer) == Part(payload, pointer)
PayloadLeaves(v) == {v[i].text : i \in {j \in DOMAIN v : v[j].is \in {"text", "number"}}}

\* Mutant: a claim is held against what it cites joined together.
JoinedEvidence(snapshot, refs) ==
    LET blocks == Cited(snapshot, refs)
    IN  {FlattenSeq(Each(blocks, LAMBDA b : b.text \o <<"_">>))}

\* What a claim is held against: each cited block and each cited leaf by itself.
EvidenceOf(snapshot, refs) ==
    LET blocks == Cited(snapshot, refs)
        pointed == {refs[i].payloadPointer[1] : i \in {j \in DOMAIN refs : Given(refs[j].payloadPointer)}}
    IN  {blocks[i].text : i \in DOMAIN blocks}
        \cup IF Given(snapshot.payload)
             THEN UNION {PayloadLeaves(ResolvePointer(snapshot.payload[1], p)) : p \in pointed} ELSE {}

SupportedBy(evidence, wording) ==
    \E text \in evidence : Includes(NormalizeForSupport(text), NormalizeForSupport(wording))

VerifyClaimSupport(snapshot, recipe) ==
    snapshot.sourceType \in VerifiedTypes =>
        Every(CollectClaims(recipe),
              LAMBDA claim : SupportedBy(EvidenceOf(snapshot, claim.refs), claim.text))

(* A reference to a block must name one; a pointer must have a payload.    *)
ResolveSourceRefs(snapshot, recipe) ==
    Every(CollectSourceRefs(recipe), LAMBDA r :
        IF Given(r.blockId) THEN \E i \in DOMAIN snapshot.blocks : snapshot.blocks[i].id = r.blockId[1]
        ELSE Given(snapshot.payload))

(* A title is what a title block it cites says, whatever the source is.    *)
VerifyTitleGrounding(snapshot, recipe) ==
    Given(recipe.title) =>
        LET blocks == Cited(snapshot, recipe.title[1].sourceRefs)
            titles == {blocks[i].text : i \in {j \in DOMAIN blocks : blocks[j].type = "title"}}
        IN  NormalizeForSupport(recipe.title[1].sourceText) # <<>>
            /\ SupportedBy(titles, recipe.title[1].sourceText)

(* Of a recipe validateCanonical asks that its facts are a list, each in   *)
(* one before it, and of a title that it says and cites something.         *)
IsFact(fact) ==
    /\ DOMAIN fact = {"sourceRefs", "sourceText", "around"}
    /\ IsList(fact.sourceRefs) /\ IsList(fact.sourceText)
IsContractual(recipe) ==
    /\ ListOf(recipe.facts, IsFact)
    /\ \A i \in DOMAIN recipe.facts : recipe.facts[i].around \in 0..i - 1
    /\ ListOf(recipe.title, IsFact) /\ Len(recipe.title) <= 1
    /\ Given(recipe.title) => recipe.title[1].sourceText # <<>> /\ recipe.title[1].sourceRefs # <<>>

(* A model's normalization and what reprocess asks of it before it is kept. *)
Normalize(snapshot, recipe) ==
    CASE ~IsContractual(recipe) -> Refused("ModelReplyError")
      [] ~VerifyClaimSupport(snapshot, recipe) -> Refused("UnsupportedClaimError")
      [] ~ResolveSourceRefs(snapshot, recipe) -> Refused("UnresolvedSourceRefError")
      [] ~VerifyTitleGrounding(snapshot, recipe) -> Refused("UngroundedTitleError")
      [] OTHER -> recipe
===============================================================================
