---------------------------------- MODULE Texts ----------------------------------
(***************************************************************************)
(* The texts a source is read as.  A text is a sequence of symbols: runs   *)
(* of letters or figures, punctuation, "_" for a blank and "/" for a line  *)
(* break.  Case, Unicode forms and typographic punctuation are folded      *)
(* before a text gets here.  A page's markup is three more symbols: "<p>"  *)
(* for any tag that breaks a line, "<b>" for any other tag, and "<!>" for  *)
(* a whole script, style, head or comment; "&nbsp;" is an entity.          *)
(***************************************************************************)
EXTENDS Lists

CONSTANT Letters        \* the symbols that are runs of letters

Blanks == {"_", "/"}

Trim(text) ==
    LET inked == {i \in DOMAIN text : text[i] \notin Blanks}
    IN  IF inked = {} THEN <<>> ELSE SubSeq(text, Min(inked), Max(inked))

\* Runs of blanks of any kind become one.
Collapsed(text) ==
    LET t == Trim(text)
    IN  Each(Picked(t, {i \in DOMAIN t : t[i] \notin Blanks \/ t[i - 1] \notin Blanks}),
             LAMBDA s : IF s \in Blanks THEN "_" ELSE s)

\* A line begins behind a break, or at the start, and ends before the next.
Lines(text) ==
    LET cuts == {0, Len(text) + 1} \cup {i \in DOMAIN text : text[i] = "/"}
        lines == [i \in 1..Len(text) + 1 |->
                    Trim(SubSeq(text, i, Min({cut \in cuts : cut >= i}) - 1))]
    IN  Filtered(Picked(lines, {i \in DOMAIN lines : i - 1 \in cuts}), LAMBDA line : line # <<>>)

(* A word broken at a line's end is one word; "180-200" stays two figures. *)
BreaksWord(text, i) ==
    /\ text[i] = "-" /\ i > 1 /\ text[i - 1] \in Letters
    /\ \E j \in i + 1..Len(text) :
           text[j] \in Letters /\ \A k \in i + 1..j - 1 : text[k] \in Blanks
Unbroken(text) ==
    Picked(text, {i \in DOMAIN text :
        ~\E h \in 1..i : BreaksWord(text, h) /\ \A k \in h + 1..i : text[k] \in Blanks})

NormalizeForSupport(text) == Collapsed(Unbroken(text))

\* includes(): the wording is one contiguous run of the source's symbols.
Includes(source, wording) ==
    \E i \in 0..Len(source) - Len(wording) :
        SubSeq(source, i + 1, i + Len(wording)) = wording

(* html-to-text.ts: what is not content goes first, then a line-breaking   *)
(* tag is a line break and any other tag nothing, then entities are what   *)
(* they stand for, and every line that holds anything stands on its own.   *)
Untagged(html) ==
    Each(Filtered(html, LAMBDA s : s # "<b>"),
         LAMBDA s : CASE s = "<!>" -> "_" [] s = "<p>" -> "/" [] OTHER -> s)
DecodeEntities(text) == Each(text, LAMBDA s : IF s = "&nbsp;" THEN "_" ELSE s)
HtmlToText(html) ==
    LET lines == Each(Lines(DecodeEntities(Untagged(html))), Collapsed)
    IN  FlattenSeq([k \in DOMAIN lines |-> (IF k = 1 THEN <<>> ELSE <<"/">>) \o lines[k]])
===============================================================================
