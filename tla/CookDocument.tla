----------------------------- MODULE CookDocument -----------------------------
(***************************************************************************)
(* The `.cook` file of a recipe (recitopia_hx.rs): how write_recipe lays a *)
(* recipe out, and how recipe_from_cook_document reads one back from what  *)
(* the user made of the text.  The file holds the recipe twice: as text to *)
(* edit and, at its end, as the JSON it was written from.  What is read is *)
(* that JSON, the base, overridden by the front matter and by the lines    *)
(* under the headings Ingredients and Method.                              *)
(*                                                                         *)
(* A line is a record of its kind and of what the parser takes from it.    *)
(* Words are atoms, and a step's text is the sequence of its lines.        *)
(***************************************************************************)
EXTENDS Naturals, Sequences, SequencesExt

CONSTANTS
    None,   \* nothing in an optional place
    Other,  \* front matter of another schema, or none
    Broken  \* front matter that is no JSON, or has no end

Section(s)      == [kind |-> "section", to |-> s]
Directive(o, i) == [kind |-> "directive", of |-> o, id |-> i]
Item(w, opt)    == [kind |-> "item", says |-> w, optional |-> opt]
Words(w)        == [kind |-> "words", says |-> w]
Comment         == [kind |-> "comment"]
Blank           == [kind |-> "blank"]
\* Its lines are no heading, directive, comment or blank.
Block(r)        == [kind |-> "block", says |-> <<"json">>, holds |-> r]

IsList(s) == s \in Seq(ToSet(s))

Speaks(l) == l.kind \in {"words", "item", "block"} => IsList(l.says)

\* hidden: what no line shows (section, source, review, cost).
IsIngredient(x) ==
    /\ x = [id |-> x.id, position |-> x.position, says |-> x.says,
            optional |-> x.optional, display |-> x.display, hidden |-> x.hidden]
    /\ IsList(x.says)

IsStep(s) ==
    /\ s = [id |-> s.id, position |-> s.position, text |-> s.text, hidden |-> s.hidden]
    /\ IsList(s.text)
    /\ \A n \in DOMAIN s.text : Speaks(s.text[n]) /\ s.text[n].kind # "block"

IsRecipe(r) ==
    /\ r = [id |-> r.id, title |-> r.title, category |-> r.category, pages |-> r.pages,
            ingredients |-> r.ingredients, steps |-> r.steps, notes |-> r.notes,
            made |-> r.made]
    /\ IsList(r.ingredients)
    /\ \A n \in DOMAIN r.ingredients : IsIngredient(r.ingredients[n])
    /\ IsList(r.steps)
    /\ \A n \in DOMAIN r.steps : IsStep(r.steps[n])
    /\ IsList(r.notes)

\* A block that holds no recipe counts as none.
IsLine(l) == Speaks(l) /\ (l.kind = "block" => IsRecipe(l.holds))

IsText(d) ==
    /\ d = [meta |-> d.meta, body |-> d.body]
    /\ IsList(d.body)
    /\ \A n \in DOMAIN d.body : IsLine(d.body[n])

-----------------------------------------------------------------------------
(* Writing                                                                 *)

\* recipe_source_pages, as its first and last page: one end alone, or the
\* start of a reversed range, stands for both.
ShownPages(p) ==
    CASE p[1] = None /\ p[2] = None -> <<None, None>>
      [] p[1] = None /\ p[2] # None -> <<p[2], p[2]>>
      [] p[1] # None /\ p[2] = None -> <<p[1], p[1]>>
      [] p[1] # None /\ p[2] # None -> IF p[1] <= p[2] THEN p ELSE <<p[1], p[1]>>

\* cook_frontmatter; title stands for the keys that are always written,
\* category for the optional ones.
FrontMatter(r) ==
    [id |-> r.id, title |-> r.title, category |-> r.category,
     pages |-> ShownPages(r.pages)]

IngredientLines(x) == <<Directive("ingredient", x.id), Item(x.says, x.optional)>>

StepLines(s) == <<Directive("step", s.id)>> \o s.text \o <<Blank>>

NoteLines(notes) ==
    IF notes = <<>> THEN <<>> ELSE <<Section("other"), Words(notes), Blank>>

RecipeLines(r) ==
    <<Section("ingredients"), Blank>>
    \o FlattenSeq([n \in DOMAIN r.ingredients |-> IngredientLines(r.ingredients[n])])
    \o <<Blank, Section("method"), Blank>>
    \o FlattenSeq([n \in DOMAIN r.steps |-> StepLines(r.steps[n])])
    \o NoteLines(r.notes)

\* Variant: the JSON comes first.
BodyBlockFirst(r) == <<Block(r)>> \o RecipeLines(r)

Body(r) == RecipeLines(r) \o <<Block(r)>>

Write(r) == [meta |-> FrontMatter(r), body |-> Body(r)]

-----------------------------------------------------------------------------
(* Reading                                                                 *)

\* find_recitopia_json_comment: the first one counts.
BlockAt(d) == SelectInSeq(d.body, LAMBDA l : l.kind = "block")

IsCook(d) == d.meta \notin {Other, Broken}
HasBase(d) == IsCook(d) /\ BlockAt(d) # 0
BaseOf(d) == d.body[BlockAt(d)].holds

\* Variant: the line's place decides, whatever its directive says.
OriginByPlace(base, id, n, default) ==
    IF n <= Len(base) THEN base[n] ELSE default

\* Where the n-th thing read comes from: what its directive names, else what
\* is n-th in the base, else a new one.
Origin(base, id, n, default) ==
    LET named == SelectInSeq(base, LAMBDA x : x.id = id)
    IN  CASE named # 0 -> base[named]
          [] named = 0 /\ n <= Len(base) -> base[n]
          [] OTHER -> default

DefaultIngredient(n) ==
    [id |-> <<"ingredient", n>>, position |-> n, says |-> <<>>,
     optional |-> FALSE, display |-> <<>>, hidden |-> None]

DefaultStep(n) ==
    [id |-> <<"step", n>>, position |-> n, text |-> <<>>, hidden |-> None]

IdOr(pending, origin) == IF pending = None THEN origin.id ELSE pending

\* A line that is as it was written keeps all of its ingredient; another
\* replaces what it shows, and can add "optional" but not take it away.
ReadItem(line, x, id, n) ==
    IF line = Item(x.says, x.optional)
    THEN [x EXCEPT !.id = id, !.position = n]
    ELSE [x EXCEPT !.id = id, !.position = n, !.says = line.says,
                   !.display = line.says, !.optional = line.optional \/ @]

\* parse_cook_ingredients, one line.  An @ without a name (nothing is said)
\* uses up the directive before it and is dropped, unless it is what the
\* ingredient shows.
TakeIngredientLine(base, read, line) ==
    LET n == Len(read.list) + 1
        x == Origin(base, read.pending, n, DefaultIngredient(n))
    IN  CASE line.kind = "section" -> [read EXCEPT !.section = line.to]
          [] line.kind = "directive" /\ read.section = "ingredients"
               /\ line.of = "ingredient" -> [read EXCEPT !.pending = line.id]
          [] line.kind = "item" /\ read.section = "ingredients" ->
               [read EXCEPT
                   !.pending = None,
                   !.list = IF line.says = <<>> /\ line # Item(x.says, x.optional)
                            THEN @
                            ELSE Append(@, ReadItem(line, x, IdOr(read.pending, x), n))]
          [] OTHER -> read

IngredientsAfter(base, lines) ==
    LET after[n \in 0 .. Len(lines)] ==
            IF n = 0
            THEN [section |-> "other", pending |-> None, list |-> <<>>]
            ELSE TakeIngredientLine(base, after[n - 1], lines[n])
    IN  after[Len(lines)]

ReadIngredients(d, base) == IngredientsAfter(base, d.body).list

\* flush_cook_step: the lines of a paragraph become one.
Flush(base, read) ==
    LET n == Len(read.list) + 1
        s == Origin(base, read.pending, n, DefaultStep(n))
    IN  IF read.paragraph = <<>>
        THEN read
        ELSE [read EXCEPT
                 !.pending = None,
                 !.paragraph = <<>>,
                 !.list = Append(@, [s EXCEPT !.id = IdOr(read.pending, s),
                                              !.position = n,
                                              !.text = <<Words(read.paragraph)>>])]

\* An @ line under Method is words like any other.
Spoken(line) == IF line.kind = "item" THEN <<"@">> \o line.says ELSE line.says

\* parse_cook_steps, one line.
TakeStepLine(base, read, line) ==
    LET inside == read.section = "method"
    IN  CASE line.kind = "section" -> [Flush(base, read) EXCEPT !.section = line.to]
          [] line.kind = "directive" /\ inside /\ line.of = "step" ->
               [Flush(base, read) EXCEPT !.pending = line.id]
          [] line.kind = "blank" /\ inside -> Flush(base, read)
          [] line.kind \in {"words", "item", "block"} /\ inside ->
               [read EXCEPT !.paragraph = @ \o Spoken(line)]
          [] OTHER -> read

StepsAfter(base, lines) ==
    LET after[n \in 0 .. Len(lines)] ==
            IF n = 0
            THEN [section |-> "other", pending |-> None, paragraph |-> <<>>, list |-> <<>>]
            ELSE TakeStepLine(base, after[n - 1], lines[n])
    IN  after[Len(lines)]

ReadSteps(d, base) == Flush(base, StepsAfter(base, d.body)).list

\* A list nothing was read of stays.
ReadOrBase(read, base) == IF read = <<>> THEN base ELSE read

\* apply_cook_frontmatter: a key that is gone keeps the base's value, but for
\* the optional ones it clears it.
Derived(d) ==
    LET base == BaseOf(d)
    IN  [id          |-> IF d.meta.id = None THEN base.id ELSE d.meta.id,
         title       |-> IF d.meta.title = None THEN base.title ELSE d.meta.title,
         category    |-> d.meta.category,
         pages       |-> IF d.meta.pages = None THEN base.pages ELSE d.meta.pages,
         ingredients |-> ReadOrBase(ReadIngredients(d, base.ingredients), base.ingredients),
         steps       |-> ReadOrBase(ReadSteps(d, base.steps), base.steps),
         notes       |-> base.notes,
         made        |-> base.made]

=============================================================================
