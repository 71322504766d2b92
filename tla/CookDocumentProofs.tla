-------------------------- MODULE CookDocumentProofs --------------------------
(***************************************************************************)
(* What writing a recipe to a file, and reading a file, do: any recipe,    *)
(* any text, any number of lines.  Two results carry Workspace's           *)
(* properties.  A recipe its text can show comes back as it was            *)
(* (RoundTrip), and lines under their directives are the ingredients the   *)
(* directives name (TextIdentifies).  Both are by induction over lines.    *)
(* Together with what is read of any text they show that a save settles:   *)
(* the file of what was saved reads as what was saved (SaveSettles).       *)
(***************************************************************************)
EXTENDS Workspace, FiniteSetTheorems, WellFoundedInduction, SequenceTheorems, TLAPS

-----------------------------------------------------------------------------
(* Induction                                                               *)

\* A set of numbers has a least one.
LEMMA LeastNumber ==
    ASSUME NEW T, T \subseteq Nat, T # {}
    PROVE  \E n \in T : \A m \in T : n <= m
<1>1. PICK n \in T : \A m \in T : ~ (<<m, n>> \in OpToRel(<, Nat))
    BY NatLessThanWellFounded, WFMin
<1>2. ASSUME NEW m \in T PROVE n <= m
  <2>1. <<m, n>> \in Nat \X Nat
    OBVIOUS
  <2>2. ~ (m < n)
    BY <1>1, <2>1 DEF OpToRel
  <2> QED
    BY <2>2
<1> QED
    BY <1>2

\* Induction: what holds of 0 and passes from n to n + 1 holds of every number.
LEMMA Induct ==
    ASSUME NEW T, 0 \in T, \A n \in Nat : n \in T => n + 1 \in T
    PROVE  Nat \subseteq T
<1>1. SUFFICES ASSUME Nat \ T # {} PROVE FALSE
    OBVIOUS
<1>2. PICK n \in Nat \ T : \A m \in Nat \ T : n <= m
    BY <1>1, LeastNumber
<1>3. n # 0
    OBVIOUS
<1>4. n - 1 \in Nat /\ n - 1 \in T
    BY <1>2, <1>3
<1> QED
    BY <1>4, <1>2

-----------------------------------------------------------------------------
(* Reading, line by line                                                   *)

\* What the parser has read after each line.
IngredientStart == [section |-> "other", pending |-> None, list |-> <<>>]

IngredientStates(base, lines, k, after) ==
    after = [n \in 0 .. k |-> IF n = 0 THEN IngredientStart
                              ELSE TakeIngredientLine(base, after[n - 1], lines[n])]

\* However many lines there are, they can be read one after the other.
LEMMA IngredientStatesExist ==
    ASSUME NEW base, NEW lines, NEW k \in Nat
    PROVE  \E after : IngredientStates(base, lines, k, after)
<1> DEFINE T == {n \in Nat : \E after : IngredientStates(base, lines, n, after)}
<1>1. 0 \in T
  <2> DEFINE g == [n \in 0 .. 0 |-> IngredientStart]
  <2>1. g = [n \in 0 .. 0 |-> IF n = 0 THEN IngredientStart
                              ELSE TakeIngredientLine(base, g[n - 1], lines[n])]
    OBVIOUS
  <2> HIDE DEF g
  <2>2. IngredientStates(base, lines, 0, g)
    BY <2>1 DEF IngredientStates
  <2> QED
    BY <2>2
<1>2. ASSUME NEW n \in Nat, n \in T PROVE n + 1 \in T
  <2>1. PICK g : IngredientStates(base, lines, n, g)
    BY <1>2
  <2> DEFINE h == [i \in 0 .. n + 1 |-> IF i <= n THEN g[i]
                                        ELSE TakeIngredientLine(base, g[n], lines[i])]
  <2>2. ASSUME NEW i \in 0 .. n + 1
        PROVE  h[i] = IF i = 0 THEN IngredientStart
                      ELSE TakeIngredientLine(base, h[i - 1], lines[i])
    <3>1. CASE i <= n
      BY <2>1, <3>1 DEF IngredientStates
    <3>2. CASE i = n + 1
      BY <3>2
    <3> QED
      BY <3>1, <3>2
  <2>3. h = [i \in 0 .. n + 1 |-> h[i]]
    OBVIOUS
  <2> HIDE DEF h
  <2>4. h = [i \in 0 .. n + 1 |-> IF i = 0 THEN IngredientStart
                                  ELSE TakeIngredientLine(base, h[i - 1], lines[i])]
    BY <2>2, <2>3
  <2>5. IngredientStates(base, lines, n + 1, h)
    BY <2>4 DEF IngredientStates
  <2> QED
    BY <2>5
<1> QED
    BY <1>1, <1>2, Induct

\* What IngredientsAfter reads, line by line.
LEMMA IngredientsAfterIs ==
    ASSUME NEW base, NEW lines, Len(lines) \in Nat
    PROVE  \E after : /\ IngredientStates(base, lines, Len(lines), after)
                      /\ IngredientsAfter(base, lines) = after[Len(lines)]
<1> DEFINE f == CHOOSE after : IngredientStates(base, lines, Len(lines), after)
<1>1. IngredientStates(base, lines, Len(lines), f)
    BY IngredientStatesExist
<1>2. IngredientsAfter(base, lines) = f[Len(lines)]
    BY DEF IngredientsAfter, IngredientStates, IngredientStart
<1> QED
    BY <1>1, <1>2

\* A further line is read from the state after the others.
LEMMA IngredientsRead ==
    ASSUME NEW base, NEW S, NEW lines \in Seq(S), NEW l \in S
    PROVE  /\ IngredientsAfter(base, <<>>) = IngredientStart
           /\ IngredientsAfter(base, Append(lines, l))
                = TakeIngredientLine(base, IngredientsAfter(base, lines), l)
<1> DEFINE n == Len(lines)
           more == Append(lines, l)
<1>1. /\ n \in Nat
      /\ Len(more) = n + 1
      /\ more[n + 1] = l
      /\ \A i \in 1 .. n : more[i] = lines[i]
    BY AppendProperties
<1> HIDE DEF n, more
<1>2. PICK g : /\ IngredientStates(base, lines, n, g)
               /\ IngredientsAfter(base, lines) = g[n]
    BY <1>1, IngredientsAfterIs DEF n
<1>3. PICK h : /\ IngredientStates(base, more, n + 1, h)
               /\ IngredientsAfter(base, more) = h[n + 1]
  <2>1. Len(more) \in Nat
    BY <1>1
  <2> QED
    BY <1>1, <2>1, IngredientsAfterIs
<1>4. PICK e : /\ IngredientStates(base, <<>>, 0, e)
               /\ IngredientsAfter(base, <<>>) = e[0]
  <2>1. Len(<<>>) = 0
    OBVIOUS
  <2> QED
    BY <2>1, IngredientsAfterIs
<1> DEFINE T == {i \in Nat : i <= n => h[i] = g[i]}
<1>5. 0 \in T
    BY <1>1, <1>2, <1>3 DEF IngredientStates
<1>6. ASSUME NEW i \in Nat, i \in T PROVE i + 1 \in T
  <2>1. SUFFICES ASSUME i + 1 <= n PROVE h[i + 1] = g[i + 1]
    OBVIOUS
  <2>2. h[i] = g[i] /\ more[i + 1] = lines[i + 1]
    BY <1>1, <1>6, <2>1
  <2>3. h[i + 1] = TakeIngredientLine(base, h[i], more[i + 1])
    BY <1>1, <1>3, <2>1 DEF IngredientStates
  <2>4. g[i + 1] = TakeIngredientLine(base, g[i], lines[i + 1])
    BY <1>1, <1>2, <2>1 DEF IngredientStates
  <2> QED
    BY <2>2, <2>3, <2>4
<1>7. h[n] = g[n]
  <2> HIDE DEF T
  <2>1. n \in T
    BY <1>1, <1>5, <1>6, Induct
  <2> QED
    BY <2>1, <1>1 DEF T
<1>8. h[n + 1] = TakeIngredientLine(base, h[n], l)
    BY <1>1, <1>3 DEF IngredientStates
<1>9. e[0] = IngredientStart
    BY <1>4 DEF IngredientStates
<1> QED
    BY <1>2, <1>3, <1>4, <1>7, <1>8, <1>9 DEF more

\* The same of the steps.
StepStart == [section |-> "other", pending |-> None, paragraph |-> <<>>, list |-> <<>>]

StepStates(base, lines, k, after) ==
    after = [n \in 0 .. k |-> IF n = 0 THEN StepStart
                              ELSE TakeStepLine(base, after[n - 1], lines[n])]

LEMMA StepStatesExist ==
    ASSUME NEW base, NEW lines, NEW k \in Nat
    PROVE  \E after : StepStates(base, lines, k, after)
<1> DEFINE T == {n \in Nat : \E after : StepStates(base, lines, n, after)}
<1>1. 0 \in T
  <2> DEFINE g == [n \in 0 .. 0 |-> StepStart]
  <2>1. g = [n \in 0 .. 0 |-> IF n = 0 THEN StepStart
                              ELSE TakeStepLine(base, g[n - 1], lines[n])]
    OBVIOUS
  <2> HIDE DEF g
  <2>2. StepStates(base, lines, 0, g)
    BY <2>1 DEF StepStates
  <2> QED
    BY <2>2
<1>2. ASSUME NEW n \in Nat, n \in T PROVE n + 1 \in T
  <2>1. PICK g : StepStates(base, lines, n, g)
    BY <1>2
  <2> DEFINE h == [i \in 0 .. n + 1 |-> IF i <= n THEN g[i]
                                        ELSE TakeStepLine(base, g[n], lines[i])]
  <2>2. ASSUME NEW i \in 0 .. n + 1
        PROVE  h[i] = IF i = 0 THEN StepStart
                      ELSE TakeStepLine(base, h[i - 1], lines[i])
    <3>1. CASE i <= n
      BY <2>1, <3>1 DEF StepStates
    <3>2. CASE i = n + 1
      BY <3>2
    <3> QED
      BY <3>1, <3>2
  <2>3. h = [i \in 0 .. n + 1 |-> h[i]]
    OBVIOUS
  <2> HIDE DEF h
  <2>4. h = [i \in 0 .. n + 1 |-> IF i = 0 THEN StepStart
                                  ELSE TakeStepLine(base, h[i - 1], lines[i])]
    BY <2>2, <2>3
  <2>5. StepStates(base, lines, n + 1, h)
    BY <2>4 DEF StepStates
  <2> QED
    BY <2>5
<1> QED
    BY <1>1, <1>2, Induct

LEMMA StepsAfterIs ==
    ASSUME NEW base, NEW lines, Len(lines) \in Nat
    PROVE  \E after : /\ StepStates(base, lines, Len(lines), after)
                      /\ StepsAfter(base, lines) = after[Len(lines)]
<1> DEFINE f == CHOOSE after : StepStates(base, lines, Len(lines), after)
<1>1. StepStates(base, lines, Len(lines), f)
    BY StepStatesExist
<1>2. StepsAfter(base, lines) = f[Len(lines)]
    BY DEF StepsAfter, StepStates, StepStart
<1> QED
    BY <1>1, <1>2

\* A further line is read from the state after the others.
LEMMA StepsRead ==
    ASSUME NEW base, NEW S, NEW lines \in Seq(S), NEW l \in S
    PROVE  /\ StepsAfter(base, <<>>) = StepStart
           /\ StepsAfter(base, Append(lines, l))
                = TakeStepLine(base, StepsAfter(base, lines), l)
<1> DEFINE n == Len(lines)
           more == Append(lines, l)
<1>1. /\ n \in Nat
      /\ Len(more) = n + 1
      /\ more[n + 1] = l
      /\ \A i \in 1 .. n : more[i] = lines[i]
    BY AppendProperties
<1> HIDE DEF n, more
<1>2. PICK g : /\ StepStates(base, lines, n, g)
               /\ StepsAfter(base, lines) = g[n]
    BY <1>1, StepsAfterIs DEF n
<1>3. PICK h : /\ StepStates(base, more, n + 1, h)
               /\ StepsAfter(base, more) = h[n + 1]
  <2>1. Len(more) \in Nat
    BY <1>1
  <2> QED
    BY <1>1, <2>1, StepsAfterIs
<1>4. PICK e : /\ StepStates(base, <<>>, 0, e)
               /\ StepsAfter(base, <<>>) = e[0]
  <2>1. Len(<<>>) = 0
    OBVIOUS
  <2> QED
    BY <2>1, StepsAfterIs
<1> DEFINE T == {i \in Nat : i <= n => h[i] = g[i]}
<1>5. 0 \in T
    BY <1>1, <1>2, <1>3 DEF StepStates
<1>6. ASSUME NEW i \in Nat, i \in T PROVE i + 1 \in T
  <2>1. SUFFICES ASSUME i + 1 <= n PROVE h[i + 1] = g[i + 1]
    OBVIOUS
  <2>2. h[i] = g[i] /\ more[i + 1] = lines[i + 1]
    BY <1>1, <1>6, <2>1
  <2>3. h[i + 1] = TakeStepLine(base, h[i], more[i + 1])
    BY <1>1, <1>3, <2>1 DEF StepStates
  <2>4. g[i + 1] = TakeStepLine(base, g[i], lines[i + 1])
    BY <1>1, <1>2, <2>1 DEF StepStates
  <2> QED
    BY <2>2, <2>3, <2>4
<1>7. h[n] = g[n]
  <2> HIDE DEF T
  <2>1. n \in T
    BY <1>1, <1>5, <1>6, Induct
  <2> QED
    BY <2>1, <1>1 DEF T
<1>8. h[n + 1] = TakeStepLine(base, h[n], l)
    BY <1>1, <1>3 DEF StepStates
<1>9. e[0] = StepStart
    BY <1>4 DEF StepStates
<1> QED
    BY <1>2, <1>3, <1>4, <1>7, <1>8, <1>9 DEF more

-----------------------------------------------------------------------------
(* Lists, and what is first in them                                        *)

\* Lists stay lists.
LEMMA ListOf == ASSUME NEW S, NEW s \in Seq(S) PROVE IsList(s)
<1>1. \A i \in 1 .. Len(s) : s[i] \in ToSet(s)
    BY DEF ToSet
<1>2. s = [i \in 1 .. Len(s) |-> s[i]] /\ Len(s) \in Nat
    OBVIOUS
<1> QED
    BY <1>1, <1>2 DEF IsList

LEMMA ListAppend == ASSUME NEW s, IsList(s), NEW e PROVE IsList(Append(s, e))
<1>1. s \in Seq(ToSet(s) \cup {e})
    BY DEF IsList
<1>2. Append(s, e) \in Seq(ToSet(s) \cup {e})
    BY <1>1
<1> QED
    BY <1>2, ListOf

\* BlockAt is the first block, or 0.
LEMMA FirstBlock ==
    ASSUME NEW d, IsList(d.body)
    PROVE  \/ BlockAt(d) = 0 /\ \A n \in DOMAIN d.body : d.body[n].kind # "block"
           \/ /\ BlockAt(d) \in DOMAIN d.body
              /\ d.body[BlockAt(d)].kind = "block"
              /\ \A n \in DOMAIN d.body : d.body[n].kind = "block" => BlockAt(d) <= n
<1> DEFINE I == {n \in 1 .. Len(d.body) : d.body[n].kind = "block"}
<1>1. BlockAt(d) = IF I # {} THEN Min(I) ELSE 0
    BY DEF BlockAt, SelectInSeq
<1>2. DOMAIN d.body = 1 .. Len(d.body) /\ Len(d.body) \in Nat
    BY DEF IsList
<1>3. I # {} => \E n \in I : \A m \in I : n <= m
  <2>1. I \subseteq Nat
    OBVIOUS
  <2> HIDE DEF I
  <2> QED
    BY <2>1, LeastNumber
<1>4. I # {} => Min(I) \in I /\ \A m \in I : Min(I) <= m
    BY <1>3 DEF Min
<1> QED
    BY <1>1, <1>2, <1>4

\* Origin is what has the id, or, if nothing has it, what has the place.
LEMMA Named ==
    ASSUME NEW base, IsList(base), NEW id, NEW n, NEW default
    PROVE  \/ /\ \A k \in DOMAIN base : base[k].id # id
              /\ n <= Len(base) => Origin(base, id, n, default) = base[n]
              /\ ~ (n <= Len(base)) => Origin(base, id, n, default) = default
           \/ \E k \in DOMAIN base :
                base[k].id = id /\ Origin(base, id, n, default) = base[k]
<1> DEFINE I == {k \in 1 .. Len(base) : base[k].id = id}
           named == SelectInSeq(base, LAMBDA x : x.id = id)
<1>1. named = IF I # {} THEN Min(I) ELSE 0
    BY DEF SelectInSeq
<1>2. DOMAIN base = 1 .. Len(base) /\ Len(base) \in Nat
    BY DEF IsList
<1>3. I # {} => \E k \in I : \A m \in I : k <= m
  <2>1. I \subseteq Nat
    OBVIOUS
  <2> HIDE DEF I
  <2> QED
    BY <2>1, LeastNumber
<1>4. I # {} => Min(I) \in I
    BY <1>3 DEF Min
<1>5. Origin(base, id, n, default) =
        CASE named # 0 -> base[named]
          [] named = 0 /\ n <= Len(base) -> base[n]
          [] OTHER -> default
    BY DEF Origin
<1> HIDE DEF named
<1>6. CASE I = {}
  <2>1. named = 0 /\ \A k \in DOMAIN base : base[k].id # id
    BY <1>1, <1>2, <1>6
  <2> QED
    BY <1>5, <2>1
<1>7. CASE I # {}
  <2>1. named \in DOMAIN base /\ named # 0 /\ base[named].id = id
    BY <1>1, <1>2, <1>4, <1>7
  <2>2. Origin(base, id, n, default) = base[named]
    BY <1>5, <2>1
  <2> QED
    BY <2>1, <2>2
<1> QED
    BY <1>6, <1>7

-----------------------------------------------------------------------------
(* Ingredient lines                                                        *)

\* One more line raises the count by one or by none.
LEMMA UptoNext ==
    ASSUME NEW M, \A m \in M : m \in Nat \ {0}, NEW n \in Nat
    PROVE  /\ Cardinality(Upto(M, 0)) = 0
           /\ Cardinality(Upto(M, n)) \in Nat
           /\ n + 1 \notin M => Upto(M, n + 1) = Upto(M, n)
           /\ n + 1 \in M => Cardinality(Upto(M, n + 1)) = Cardinality(Upto(M, n)) + 1
<1>1. Upto(M, 0) = {}
  <2>1. ASSUME NEW m \in Upto(M, 0) PROVE FALSE
    <3>1. m \in M /\ m <= 0
      BY DEF Upto
    <3> QED
      BY <3>1
  <2> QED
    BY <2>1
<1>2. IsFiniteSet(Upto(M, n))
  <2>1. Upto(M, n) \subseteq 1 .. n
    BY DEF Upto
  <2>2. IsFiniteSet(1 .. n)
    BY FS_Interval
  <2> QED
    BY <2>1, <2>2, FS_Subset
<1>3. n + 1 \notin M => Upto(M, n + 1) = Upto(M, n)
    BY DEF Upto
<1>4. ASSUME n + 1 \in M
      PROVE  Upto(M, n + 1) = Upto(M, n) \cup {n + 1} /\ n + 1 \notin Upto(M, n)
    BY <1>4 DEF Upto
<1>5. Cardinality(Upto(M, n)) \in Nat
    BY <1>2, FS_CardinalityType
<1>6. Cardinality(Upto(M, 0)) = 0
    BY <1>1, FS_EmptySet
<1>7. n + 1 \in M => Cardinality(Upto(M, n + 1)) = Cardinality(Upto(M, n)) + 1
    BY <1>2, <1>4, FS_AddElement
<1> QED
    BY <1>3, <1>5, <1>6, <1>7

IsReading(read) ==
    /\ read = [section |-> read.section, pending |-> read.pending, list |-> read.list]
    /\ IsList(read.list)

\* A line that is no ingredient line adds nothing to the list.
LEMMA LineTaken ==
    ASSUME NEW base, NEW read, IsReading(read), NEW line
    PROVE  LET next == TakeIngredientLine(base, read, line)
           IN  /\ IsReading(next)
               /\ next.section = IF line.kind = "section" THEN line.to ELSE read.section
               /\ (line.kind = "directive" /\ read.section = "ingredients"
                     /\ line.of = "ingredient") => next.pending = line.id
               /\ ~ (line.kind = "item" /\ read.section = "ingredients")
                    => next.list = read.list
<1> DEFINE next == TakeIngredientLine(base, read, line)
           n == Len(read.list) + 1
           x == Origin(base, read.pending, n, DefaultIngredient(n))
           list == IF line.says = <<>> /\ line # Item(x.says, x.optional)
                   THEN read.list
                   ELSE Append(read.list, ReadItem(line, x, IdOr(read.pending, x), n))
<1>1. CASE line.kind = "section"
  <2>1. next = [read EXCEPT !.section = line.to]
    BY <1>1 DEF TakeIngredientLine
  <2> QED
    BY <1>1, <2>1 DEF IsReading
<1>2. CASE line.kind = "directive" /\ read.section = "ingredients" /\ line.of = "ingredient"
  <2>1. next = [read EXCEPT !.pending = line.id]
    BY <1>2 DEF TakeIngredientLine
  <2> QED
    BY <1>2, <2>1 DEF IsReading
<1>3. CASE line.kind = "item" /\ read.section = "ingredients"
  <2>1. next = [read EXCEPT !.pending = None, !.list = list]
    BY <1>3 DEF TakeIngredientLine
  <2>2. IsList(list)
    <3> DEFINE e == ReadItem(line, x, IdOr(read.pending, x), n)
    <3>1. IsList(read.list) /\ IsList(Append(read.list, e))
      BY ListAppend DEF IsReading
    <3> HIDE DEF e
    <3>2. list = read.list \/ list = Append(read.list, e)
      BY DEF e
    <3> HIDE DEF list
    <3> QED
      BY <3>1, <3>2
  <2> HIDE DEF list
  <2> QED
    BY <1>3, <2>1, <2>2 DEF IsReading
<1>4. CASE ~ (\/ line.kind = "section"
              \/ line.kind = "directive" /\ read.section = "ingredients" /\ line.of = "ingredient"
              \/ line.kind = "item" /\ read.section = "ingredients")
  <2>1. next = read
    BY <1>4 DEF TakeIngredientLine
  <2> QED
    BY <1>4, <2>1 DEF IsReading
<1> QED
    BY <1>1, <1>2, <1>3, <1>4

\* An ingredient line, under the directive that names the base's k-th ingredient.
LEMMA ItemTaken ==
    ASSUME NEW base, IsList(base), NEW k \in DOMAIN base, IsIngredient(base[k]),
           \A j \in DOMAIN base : base[j].id = base[k].id => j = k,
           NEW read, IsReading(read), NEW line,
           line.kind = "item", read.section = "ingredients", read.pending = base[k].id
    PROVE  LET next == TakeIngredientLine(base, read, line)
               n    == Len(read.list) + 1
           IN  IF line.says = <<>> /\ line # Item(base[k].says, base[k].optional)
               THEN next.list = read.list
               ELSE \E x : /\ next.list = Append(read.list, x)
                           /\ x.id = base[k].id
                           /\ x.hidden = base[k].hidden
                           /\ x.says = line.says
<1> DEFINE n == Len(read.list) + 1
           e == ReadItem(line, base[k], IdOr(read.pending, base[k]), n)
<1>1. Origin(base, read.pending, n, DefaultIngredient(n)) = base[k]
    BY Named
<1>2. TakeIngredientLine(base, read, line) =
        [read EXCEPT
            !.pending = None,
            !.list = IF line.says = <<>> /\ line # Item(base[k].says, base[k].optional)
                     THEN @ ELSE Append(@, e)]
    BY <1>1 DEF TakeIngredientLine
<1>3. e.id = base[k].id /\ e.hidden = base[k].hidden /\ e.says = line.says
  <2>1. IdOr(read.pending, base[k]) = base[k].id
    BY DEF IdOr
  <2>2. CASE line = Item(base[k].says, base[k].optional)
    <3>1. e = [base[k] EXCEPT !.id = base[k].id, !.position = n]
      BY <2>1, <2>2 DEF ReadItem
    <3>2. line.says = base[k].says
      BY <2>2 DEF Item
    <3> HIDE DEF e
    <3> QED
      BY <3>1, <3>2 DEF IsIngredient
  <2>3. CASE line # Item(base[k].says, base[k].optional)
    <3>1. e = [base[k] EXCEPT !.id = base[k].id, !.position = n, !.says = line.says,
                              !.display = line.says, !.optional = line.optional \/ @]
      BY <2>1, <2>3 DEF ReadItem
    <3> HIDE DEF e
    <3> QED
      BY <3>1 DEF IsIngredient
  <2> QED
    BY <2>2, <2>3
<1> HIDE DEF e
<1> QED
    BY <1>2, <1>3 DEF IsReading

-----------------------------------------------------------------------------
(* Ingredient lines that have their directives                             *)

\* What the parser has made of the first n lines.
ReadUpto(d, base, n) == IngredientsAfter(base, SubSeq(d.body, 1, n))

LEMMA LinesTaken ==
    ASSUME NEW d, IsList(d.body), NEW base
    PROVE  /\ ReadUpto(d, base, 0) = IngredientStart
           /\ ReadIngredients(d, base) = ReadUpto(d, base, Len(d.body)).list
           /\ \A n \in Nat : n + 1 <= Len(d.body) =>
                ReadUpto(d, base, n + 1)
                    = TakeIngredientLine(base, ReadUpto(d, base, n), d.body[n + 1])
<1> DEFINE S == ToSet(d.body)
<1>1. d.body \in Seq(S) /\ Len(d.body) \in Nat
    BY DEF IsList
<1> HIDE DEF S
<1>2. SubSeq(d.body, 1, 0) = <<>> /\ SubSeq(d.body, 1, Len(d.body)) = d.body
    BY <1>1
<1>3. ReadUpto(d, base, 0) = IngredientStart
  <2>1. CASE S = {}
    <3>1. <<>> \in Seq({0}) /\ 0 \in {0}
      OBVIOUS
    <3> QED
      BY <1>2, <3>1, IngredientsRead DEF ReadUpto
  <2>2. CASE S # {}
    BY <1>1, <1>2, <2>2, IngredientsRead DEF ReadUpto
  <2> QED
    BY <2>1, <2>2
<1>4. ASSUME NEW n \in Nat, n + 1 <= Len(d.body)
      PROVE  ReadUpto(d, base, n + 1)
                = TakeIngredientLine(base, ReadUpto(d, base, n), d.body[n + 1])
  <2> DEFINE before == SubSeq(d.body, 1, n)
             line   == d.body[n + 1]
  <2>1. before \in Seq(S) /\ line \in S
    BY <1>1, <1>4
  <2>2. SubSeq(d.body, 1, n + 1) = Append(before, line)
    BY <1>1, <1>4
  <2> HIDE DEF before, line
  <2>3. IngredientsAfter(base, Append(before, line))
            = TakeIngredientLine(base, IngredientsAfter(base, before), line)
    BY <2>1, IngredientsRead
  <2> QED
    BY <2>2, <2>3 DEF ReadUpto, before, line
<1> QED
    BY <1>2, <1>3, <1>4 DEF ReadIngredients, ReadUpto

\* Where a heading leaves the lines after it.
LEMMA SectionNext ==
    ASSUME NEW d, NEW n \in Nat, n >= 1, NEW s
    PROVE  InSection(d, n + 1, s) <=>
             IF d.body[n].kind = "section" THEN d.body[n].to = s ELSE InSection(d, n, s)
<1>1. CASE d.body[n].kind = "section"
  <2>1. ASSUME InSection(d, n + 1, s) PROVE d.body[n].to = s
    <3>1. PICK m \in 1 .. n : /\ d.body[m].kind = "section" /\ d.body[m].to = s
                              /\ \A k \in m + 1 .. n : d.body[k].kind # "section"
      BY <2>1 DEF InSection
    <3>2. m = n
      BY <1>1, <3>1
    <3> QED
      BY <3>1, <3>2
  <2>2. ASSUME d.body[n].to = s PROVE InSection(d, n + 1, s)
    <3>1. n \in 1 .. (n + 1) - 1 /\ \A k \in n + 1 .. (n + 1) - 1 : FALSE
      OBVIOUS
    <3> QED
      BY <1>1, <2>2, <3>1 DEF InSection
  <2> QED
    BY <1>1, <2>1, <2>2
<1>2. CASE d.body[n].kind # "section"
  <2>1. ASSUME InSection(d, n + 1, s) PROVE InSection(d, n, s)
    <3>1. PICK m \in 1 .. n : /\ d.body[m].kind = "section" /\ d.body[m].to = s
                              /\ \A k \in m + 1 .. n : d.body[k].kind # "section"
      BY <2>1 DEF InSection
    <3>2. m \in 1 .. n - 1 /\ \A k \in m + 1 .. n - 1 : d.body[k].kind # "section"
      BY <1>2, <3>1
    <3> QED
      BY <3>1, <3>2 DEF InSection
  <2>2. ASSUME InSection(d, n, s) PROVE InSection(d, n + 1, s)
    <3>1. PICK m \in 1 .. n - 1 : /\ d.body[m].kind = "section" /\ d.body[m].to = s
                                  /\ \A k \in m + 1 .. n - 1 : d.body[k].kind # "section"
      BY <2>2 DEF InSection
    <3>2. m \in 1 .. (n + 1) - 1 /\ \A k \in m + 1 .. (n + 1) - 1 : d.body[k].kind # "section"
      BY <1>2, <3>1
    <3> QED
      BY <3>1, <3>2 DEF InSection
  <2> QED
    BY <1>2, <2>1, <2>2
<1> QED
    BY <1>1, <1>2

\* The n-th line's entry: the ingredient its directive names, as the line shows it.
EntryOf(d, base, list, n) ==
    \A k \in DOMAIN base :
        LET x == list[Cardinality(Upto(LinesRead(d, base), n))]
        IN  Names(d, base, n, k) =>
              /\ x.id = base[k].id
              /\ x.hidden = base[k].hidden
              /\ x.says = d.body[n].says

\* How far the parser is after n lines of a text whose ingredient lines have
\* their directives.
ReadSoFar(d, base, n) ==
    LET read == ReadUpto(d, base, n)
    IN  /\ IsReading(read)
        /\ read.section = "ingredients" <=> InSection(d, n + 1, "ingredients")
        /\ (n > 0 /\ read.section = "ingredients" /\ d.body[n].kind = "directive"
              /\ d.body[n].of = "ingredient") => read.pending = d.body[n].id
        /\ Len(read.list) = Cardinality(Upto(LinesRead(d, base), n))
        /\ \A m \in Upto(LinesRead(d, base), n) : EntryOf(d, base, read.list, m)

LEMMA LinesReadSet ==
    ASSUME NEW d, IsList(d.body), NEW base
    PROVE  \A m \in LinesRead(d, base) : m \in Nat \ {0}
    BY DEF LinesRead, ItemLines, IsList

LEMMA ReadStart ==
    ASSUME NEW d, IsList(d.body), NEW base
    PROVE  ReadSoFar(d, base, 0)
<1>1. ReadUpto(d, base, 0) = IngredientStart
    BY LinesTaken
<1>2. ~ InSection(d, 0 + 1, "ingredients")
    BY DEF InSection
<1>3. Cardinality(Upto(LinesRead(d, base), 0)) = 0 /\ Upto(LinesRead(d, base), 0) = {}
  <2>1. \A m \in LinesRead(d, base) : m \in Nat \ {0}
    BY LinesReadSet
  <2>2. \A m \in LinesRead(d, base) : ~ (m <= 0)
    BY <2>1
  <2>3. Upto(LinesRead(d, base), 0) = {}
    BY <2>2 DEF Upto
  <2> QED
    BY <2>1, <2>3, UptoNext
<1>4. IsReading(IngredientStart) /\ IngredientStart.section = "other" /\ Len(IngredientStart.list) = 0
  <2>1. <<>> \in Seq({})
    OBVIOUS
  <2>2. IsList(<<>>)
    BY <2>1, ListOf
  <2> QED
    BY <2>2 DEF IsReading, IngredientStart
<1> HIDE DEF IngredientStart
<1> QED
    BY <1>1, <1>2, <1>3, <1>4 DEF ReadSoFar

LEMMA UptoWithin ==
    ASSUME NEW M, \A m \in M : m \in Nat \ {0}, NEW n \in Nat, NEW m \in Upto(M, n)
    PROVE  Cardinality(Upto(M, m)) \in 1 .. Cardinality(Upto(M, n))
<1>1. m \in M /\ m \in Nat /\ m <= n
    BY DEF Upto
<1>2. Cardinality(Upto(M, m)) \in Nat /\ Cardinality(Upto(M, n)) \in Nat
    BY <1>1, UptoNext
<1>3. IsFiniteSet(Upto(M, n))
  <2>1. Upto(M, n) \subseteq 1 .. n
    BY DEF Upto
  <2>2. IsFiniteSet(1 .. n)
    BY FS_Interval
  <2> QED
    BY <2>1, <2>2, FS_Subset
<1>4. Upto(M, m) \subseteq Upto(M, n)
  <2>1. \A k \in M : k <= m => k <= n
    BY <1>1
  <2> QED
    BY <2>1 DEF Upto
<1>5. IsFiniteSet(Upto(M, m)) /\ Cardinality(Upto(M, m)) <= Cardinality(Upto(M, n))
    BY <1>3, <1>4, FS_Subset
<1>6. m \in Upto(M, m)
    BY <1>1 DEF Upto
<1>7. Cardinality(Upto(M, m)) # 0
    BY <1>5, <1>6, FS_EmptySet
<1> QED
    BY <1>2, <1>5, <1>7

\* An entry stays where it is when others are added.
LEMMA EntryStays ==
    ASSUME NEW d, IsList(d.body), NEW base, NEW list, IsList(list), NEW n \in Nat,
           Len(list) = Cardinality(Upto(LinesRead(d, base), n)),
           NEW m \in Upto(LinesRead(d, base), n), EntryOf(d, base, list, m), NEW x
    PROVE  EntryOf(d, base, Append(list, x), m)
<1> DEFINE c == Cardinality(Upto(LinesRead(d, base), m))
<1>1. c \in 1 .. Len(list)
    BY LinesReadSet, UptoWithin
<1>2. Append(list, x)[c] = list[c]
  <2>1. list \in Seq(ToSet(list) \cup {x})
    BY DEF IsList
  <2> HIDE DEF c
  <2> QED
    BY <1>1, <2>1, AppendProperties
<1> HIDE DEF c
<1> QED
    BY <1>2 DEF EntryOf, c

LEMMA ReadNext ==
    ASSUME NEW d, IsList(d.body), NEW base, IsList(base),
           \A k \in DOMAIN base : IsIngredient(base[k]), EachHasItsDirective(d, base),
           NEW n \in Nat, n + 1 <= Len(d.body), ReadSoFar(d, base, n)
    PROVE  ReadSoFar(d, base, n + 1)
<1> DEFINE read  == ReadUpto(d, base, n)
           next  == ReadUpto(d, base, n + 1)
           line  == d.body[n + 1]
           lines == LinesRead(d, base)
<1>1. next = TakeIngredientLine(base, read, line)
    BY LinesTaken
<1>2. /\ IsReading(read)
      /\ read.section = "ingredients" <=> InSection(d, n + 1, "ingredients")
      /\ Len(read.list) = Cardinality(Upto(lines, n))
      /\ \A m \in Upto(lines, n) : EntryOf(d, base, read.list, m)
    BY DEF ReadSoFar
<1>3. (n > 0 /\ read.section = "ingredients" /\ d.body[n].kind = "directive"
         /\ d.body[n].of = "ingredient") => read.pending = d.body[n].id
    BY DEF ReadSoFar
<1>4. n + 1 \in DOMAIN d.body /\ \A m \in lines : m \in Nat \ {0}
    BY LinesReadSet DEF IsList
<1> HIDE DEF read, next, line, lines
<1>5. /\ IsReading(next)
      /\ next.section = IF line.kind = "section" THEN line.to ELSE read.section
      /\ (line.kind = "directive" /\ read.section = "ingredients"
            /\ line.of = "ingredient") => next.pending = line.id
      /\ ~ (line.kind = "item" /\ read.section = "ingredients") => next.list = read.list
    BY <1>1, <1>2, LineTaken
<1>6. next.section = "ingredients" <=> InSection(d, (n + 1) + 1, "ingredients")
  <2>1. InSection(d, (n + 1) + 1, "ingredients") <=>
          IF line.kind = "section" THEN line.to = "ingredients"
          ELSE InSection(d, n + 1, "ingredients")
    BY SectionNext DEF line
  <2> QED
    BY <1>2, <1>5, <2>1
<1>7. (next.section = "ingredients" /\ line.kind = "directive" /\ line.of = "ingredient")
        => next.pending = line.id
    BY <1>5
<1>8. ASSUME next.list = read.list, n + 1 \notin lines
      PROVE  /\ Len(next.list) = Cardinality(Upto(lines, n + 1))
             /\ \A m \in Upto(lines, n + 1) : EntryOf(d, base, next.list, m)
  <2>1. Upto(lines, n + 1) = Upto(lines, n)
    BY <1>4, <1>8, UptoNext
  <2> QED
    BY <1>2, <1>8, <2>1
<1>9. CASE line.kind = "item" /\ read.section = "ingredients"
  <2>1. n + 1 \in ItemLines(d)
    BY <1>2, <1>4, <1>9 DEF ItemLines, line
  <2>2. PICK k \in DOMAIN base :
          /\ Names(d, base, n + 1, k)
          /\ \A j \in DOMAIN base : base[j].id = base[k].id => j = k
    BY <2>1 DEF EachHasItsDirective
  <2>3. n > 0 /\ d.body[n] = Directive("ingredient", base[k].id)
    BY <2>2 DEF Names
  <2>4. read.pending = base[k].id
    BY <1>3, <1>9, <2>3 DEF Directive
  <2>5. \A j \in DOMAIN base : Names(d, base, n + 1, j) => j = k
    BY <2>2, <2>3 DEF Names, Directive
  <2>6. n + 1 \in lines <=> line.says # <<>> \/ line = Item(base[k].says, base[k].optional)
    BY <2>1, <2>2, <2>5 DEF lines, LinesRead, line
  <2>7. IF line.says = <<>> /\ line # Item(base[k].says, base[k].optional)
        THEN next.list = read.list
        ELSE \E x : /\ next.list = Append(read.list, x)
                    /\ x.id = base[k].id
                    /\ x.hidden = base[k].hidden
                    /\ x.says = line.says
    BY <1>1, <1>2, <1>9, <2>2, <2>4, ItemTaken
  <2>8. CASE n + 1 \notin lines
    BY <1>5, <1>6, <1>7, <1>8, <2>6, <2>7, <2>8 DEF ReadSoFar, next, lines, line
  <2>9. CASE n + 1 \in lines
    <3>1. PICK x : /\ next.list = Append(read.list, x)
                   /\ x.id = base[k].id
                   /\ x.hidden = base[k].hidden
                   /\ x.says = line.says
      BY <2>6, <2>7, <2>9
    <3>2. Cardinality(Upto(lines, n + 1)) = Cardinality(Upto(lines, n)) + 1
      BY <1>4, <2>9, UptoNext
    <3>3. IsList(read.list) /\ read.list \in Seq(ToSet(read.list) \cup {x})
      BY <1>2 DEF IsReading, IsList
    <3>4. /\ Len(next.list) = Len(read.list) + 1
          /\ next.list[Len(read.list) + 1] = x
      BY <3>1, <3>3, AppendProperties
    <3>5. EntryOf(d, base, next.list, n + 1)
      <4>1. next.list[Cardinality(Upto(lines, n + 1))] = x
        BY <1>2, <3>2, <3>4
      <4> QED
        BY <2>5, <3>1, <4>1 DEF EntryOf, lines, line
    <3>6. ASSUME NEW m \in Upto(lines, n + 1) PROVE EntryOf(d, base, next.list, m)
      <4>1. CASE m = n + 1
        BY <3>5, <4>1
      <4>2. CASE m # n + 1
        <5>1. m \in Upto(lines, n)
          BY <1>4, <4>2 DEF Upto
        <5> QED
          BY <1>2, <3>1, <3>3, <5>1, EntryStays DEF lines
      <4> QED
        BY <4>1, <4>2
    <3>7. Len(next.list) = Cardinality(Upto(lines, n + 1))
      BY <1>2, <3>2, <3>4
    <3> QED
      BY <1>5, <1>6, <1>7, <3>6, <3>7 DEF ReadSoFar, next, lines, line
  <2> QED
    BY <2>8, <2>9
<1>10. CASE ~ (line.kind = "item" /\ read.section = "ingredients")
  <2>1. n + 1 \notin lines
    BY <1>2, <1>10 DEF lines, LinesRead, ItemLines, line
  <2> QED
    BY <1>5, <1>6, <1>7, <1>8, <1>10, <2>1 DEF ReadSoFar, next, lines, line
<1> QED
    BY <1>9, <1>10

\* Whatever a text is, as long as its ingredient lines have their directives.
THEOREM TextIdentifies ==
    ASSUME NEW d, IsList(d.body), NEW base, IsList(base),
           \A k \in DOMAIN base : IsIngredient(base[k]), EachHasItsDirective(d, base)
    PROVE  /\ Len(ReadIngredients(d, base)) = Cardinality(LinesRead(d, base))
           /\ \A n \in LinesRead(d, base) : EntryOf(d, base, ReadIngredients(d, base), n)
<1> DEFINE T == {n \in Nat : n <= Len(d.body) => ReadSoFar(d, base, n)}
<1>1. 0 \in T
    BY ReadStart
<1>2. ASSUME NEW n \in Nat, n \in T PROVE n + 1 \in T
  <2>1. SUFFICES ASSUME n + 1 <= Len(d.body) PROVE ReadSoFar(d, base, n + 1)
    OBVIOUS
  <2>2. Len(d.body) \in Nat
    BY DEF IsList
  <2>3. ReadSoFar(d, base, n)
    BY <1>2, <2>1, <2>2
  <2> QED
    BY <2>1, <2>3, ReadNext
<1>3. ReadSoFar(d, base, Len(d.body))
  <2>1. Len(d.body) \in Nat
    BY DEF IsList
  <2> HIDE DEF T
  <2>2. Len(d.body) \in T
    BY <1>1, <1>2, <2>1, Induct
  <2> QED
    BY <2>1, <2>2 DEF T
<1>4. Upto(LinesRead(d, base), Len(d.body)) = LinesRead(d, base)
  <2>1. \A m \in LinesRead(d, base) : m <= Len(d.body)
    BY DEF LinesRead, ItemLines, IsList
  <2> QED
    BY <2>1 DEF Upto
<1>5. ReadIngredients(d, base) = ReadUpto(d, base, Len(d.body)).list
    BY LinesTaken
<1> QED
    BY <1>3, <1>4, <1>5 DEF ReadSoFar

-----------------------------------------------------------------------------
(* The lines of a recipe                                                   *)

\* FlattenSeq puts the pieces one after the other.
FlatStates(s, k, flat) ==
    flat = [i \in 1 .. k |-> IF i = 1 THEN s[i] ELSE flat[i - 1] \o s[i]]

LEMMA FlatStatesExist ==
    ASSUME NEW s, NEW k \in Nat
    PROVE  \E flat : FlatStates(s, k, flat)
<1> DEFINE T == {n \in Nat : \E flat : FlatStates(s, n, flat)}
<1>1. 0 \in T
  <2> DEFINE g == [i \in 1 .. 0 |-> s[i]]
  <2>1. g = [i \in 1 .. 0 |-> IF i = 1 THEN s[i] ELSE g[i - 1] \o s[i]]
    OBVIOUS
  <2> HIDE DEF g
  <2>2. FlatStates(s, 0, g)
    BY <2>1 DEF FlatStates
  <2> QED
    BY <2>2
<1>2. ASSUME NEW n \in Nat, n \in T PROVE n + 1 \in T
  <2>1. PICK g : FlatStates(s, n, g)
    BY <1>2
  <2> DEFINE h == [i \in 1 .. n + 1 |-> IF i <= n THEN g[i]
                                        ELSE IF i = 1 THEN s[i] ELSE g[n] \o s[i]]
  <2>2. ASSUME NEW i \in 1 .. n + 1
        PROVE  h[i] = IF i = 1 THEN s[i] ELSE h[i - 1] \o s[i]
    <3>1. CASE i <= n
      <4>1. h[i] = g[i]
        BY <3>1
      <4>3. i \in 1 .. n
        BY <3>1
      <4>2. i # 1 => h[i - 1] = g[i - 1]
        BY <3>1
      <4> HIDE DEF h
      <4>4. g[i] = IF i = 1 THEN s[i] ELSE g[i - 1] \o s[i]
        BY <2>1, <4>3 DEF FlatStates
      <4> QED
        BY <4>1, <4>2, <4>4
    <3>2. CASE i = n + 1
      BY <3>2
    <3> QED
      BY <3>1, <3>2
  <2>3. h = [i \in 1 .. n + 1 |-> h[i]]
    OBVIOUS
  <2> HIDE DEF h
  <2>4. h = [i \in 1 .. n + 1 |-> IF i = 1 THEN s[i] ELSE h[i - 1] \o s[i]]
    BY <2>2, <2>3
  <2>5. FlatStates(s, n + 1, h)
    BY <2>4 DEF FlatStates
  <2> QED
    BY <2>5
<1> QED
    BY <1>1, <1>2, Induct

LEMMA Flattened ==
    ASSUME NEW S, NEW s \in Seq(Seq(S)), Len(s) > 0
    PROVE  \E flat \in [1 .. Len(s) -> Seq(S)] :
             /\ flat[1] = s[1]
             /\ \A i \in 1 .. Len(s) - 1 : flat[i + 1] = flat[i] \o s[i + 1]
             /\ FlattenSeq(s) = flat[Len(s)]
<1> DEFINE f == CHOOSE flat : FlatStates(s, Len(s), flat)
<1>0. Len(s) \in Nat /\ \A i \in 1 .. Len(s) : s[i] \in Seq(S)
    OBVIOUS
<1>1. FlatStates(s, Len(s), f)
    BY <1>0, FlatStatesExist
<1>2. FlattenSeq(s) = f[Len(s)]
  <2>1. Len(s) # 0
    OBVIOUS
  <2> QED
    BY <2>1 DEF FlattenSeq, FlatStates
<1> HIDE DEF f
<1>3. /\ \A i \in 1 .. Len(s) : f[i] = IF i = 1 THEN s[i] ELSE f[i - 1] \o s[i]
      /\ f = [i \in 1 .. Len(s) |-> f[i]]
    BY <1>1 DEF FlatStates
<1> DEFINE T == {n \in Nat : n + 1 <= Len(s) => f[n + 1] \in Seq(S)}
<1>4. 0 \in T
  <2>1. 1 \in 1 .. Len(s)
    BY <1>0
  <2>2. f[1] = s[1]
    BY <1>3, <2>1
  <2>3. s[1] \in Seq(S)
    BY <1>0, <2>1
  <2>4. f[0 + 1] \in Seq(S)
    BY <2>2, <2>3
  <2> QED
    BY <2>4
<1>5. ASSUME NEW n \in Nat, n \in T PROVE n + 1 \in T
  <2>1. SUFFICES ASSUME n + 2 <= Len(s) PROVE f[n + 2] \in Seq(S)
    OBVIOUS
  <2>2. f[n + 2] = f[n + 1] \o s[n + 2] /\ s[n + 2] \in Seq(S)
    <3>1. n + 2 \in 1 .. Len(s) /\ n + 2 # 1 /\ (n + 2) - 1 = n + 1
      BY <1>0, <2>1
    <3> QED
      BY <1>0, <1>3, <3>1
  <2>3. f[n + 1] \in Seq(S)
    BY <1>0, <1>5, <2>1
  <2> QED
    BY <2>2, <2>3
<1>6. \A i \in 1 .. Len(s) : f[i] \in Seq(S)
  <2> HIDE DEF T
  <2>1. SUFFICES ASSUME NEW i \in 1 .. Len(s) PROVE f[i] \in Seq(S)
    OBVIOUS
  <2>2. i - 1 \in T
    <3>1. i - 1 \in Nat
      OBVIOUS
    <3> QED
      BY <3>1, <1>4, <1>5, Induct
  <2> QED
    BY <2>2 DEF T
<1>7. f \in [1 .. Len(s) -> Seq(S)]
    BY <1>3, <1>6
<1>8. f[1] = s[1] /\ \A i \in 1 .. Len(s) - 1 : f[i + 1] = f[i] \o s[i + 1]
  <2>1. ASSUME NEW i \in 1 .. Len(s) - 1 PROVE f[i + 1] = f[i] \o s[i + 1]
    <3>1. i + 1 \in 1 .. Len(s) /\ i + 1 # 1 /\ (i + 1) - 1 = i
      BY <1>0
    <3> QED
      BY <1>3, <3>1
  <2>2. 1 \in 1 .. Len(s)
    BY <1>0
  <2> QED
    BY <1>3, <2>1, <2>2
<1> QED
    BY <1>2, <1>7, <1>8

\* What holds of a start, and passes over each piece, holds of the whole.  G is
\* what holds, of how many pieces and of the lines so far.
LEMMA AlongPieces ==
    ASSUME NEW S, NEW s \in Seq(Seq(S)), Len(s) > 0, NEW b \in Seq(S), NEW G,
           <<0, b>> \in G,
           \A i \in Nat, t \in Seq(S) :
               (i + 1 <= Len(s) /\ <<i, t>> \in G) => <<i + 1, t \o s[i + 1]>> \in G
    PROVE  FlattenSeq(s) \in Seq(S) /\ <<Len(s), b \o FlattenSeq(s)>> \in G
<1>1. PICK flat \in [1 .. Len(s) -> Seq(S)] :
        /\ flat[1] = s[1]
        /\ \A i \in 1 .. Len(s) - 1 : flat[i + 1] = flat[i] \o s[i + 1]
        /\ FlattenSeq(s) = flat[Len(s)]
    BY Flattened
<1>2. Len(s) \in Nat /\ \A i \in 1 .. Len(s) : s[i] \in Seq(S)
    OBVIOUS
<1> DEFINE T == {n \in Nat : n + 1 <= Len(s) => <<n + 1, b \o flat[n + 1]>> \in G}
<1>3. 0 \in T
  <2> DEFINE z == 0
  <2>1. z \in Nat /\ z + 1 <= Len(s) /\ <<z, b>> \in G
    BY <1>2
  <2> HIDE DEF z
  <2>2. <<z + 1, b \o s[z + 1]>> \in G
    BY <2>1
  <2>3. z + 1 = 1
    BY DEF z
  <2>4. <<z + 1, b \o flat[z + 1]>> \in G
    BY <1>1, <2>2, <2>3
  <2> QED
    BY <2>4 DEF z
<1>4. ASSUME NEW n \in Nat, n \in T PROVE n + 1 \in T
  <2>1. SUFFICES ASSUME (n + 1) + 1 <= Len(s)
                 PROVE  <<(n + 1) + 1, b \o flat[(n + 1) + 1]>> \in G
    OBVIOUS
  <2>2. <<n + 1, b \o flat[n + 1]>> \in G
    BY <1>2, <1>4, <2>1
  <2> DEFINE m == n + 1
  <2>3. /\ m \in Nat /\ m + 1 <= Len(s)
        /\ m \in 1 .. Len(s) - 1 /\ m \in 1 .. Len(s) /\ m + 1 \in 1 .. Len(s)
        /\ <<m, b \o flat[m]>> \in G
    BY <1>2, <2>1, <2>2
  <2> HIDE DEF m
  <2>4. flat[m] \in Seq(S) /\ s[m + 1] \in Seq(S) /\ flat[m + 1] = flat[m] \o s[m + 1]
    BY <1>1, <1>2, <2>3
  <2>5. b \o flat[m] \in Seq(S)
    BY <2>4
  <2>6. <<m + 1, (b \o flat[m]) \o s[m + 1]>> \in G
    BY <2>3, <2>5
  <2>7. (b \o flat[m]) \o s[m + 1] = b \o flat[m + 1]
    <3> DEFINE p == flat[m]
               q == s[m + 1]
    <3> HIDE DEF p, q
    <3>1. (b \o p) \o q = b \o (p \o q)
      <4>1. p \in Seq(S) /\ q \in Seq(S)
        BY <2>4 DEF p, q
      <4> QED
        BY <4>1, ConcatAssociative
    <3> QED
      BY <2>4, <3>1 DEF p, q
  <2> QED
    BY <2>6, <2>7 DEF m
<1>5. <<Len(s), b \o flat[Len(s)]>> \in G
  <2> HIDE DEF T
  <2>1. Len(s) - 1 \in Nat
    BY <1>2
  <2>2. Len(s) - 1 \in T
    BY <1>3, <1>4, <2>1, Induct
  <2>3. (Len(s) - 1) + 1 = Len(s)
    BY <1>2
  <2> QED
    BY <2>2, <2>3 DEF T
<1> QED
    BY <1>1, <1>2, <1>5

\* The lines a recipe's text is made of, but for its JSON.
LinesOf(r) ==
    {Section("ingredients"), Section("method"), Section("other"), Blank, Words(r.notes)}
    \cup {Directive("ingredient", r.ingredients[n].id) : n \in DOMAIN r.ingredients}
    \cup {Item(r.ingredients[n].says, r.ingredients[n].optional) : n \in DOMAIN r.ingredients}
    \cup {Directive("step", r.steps[n].id) : n \in DOMAIN r.steps}
    \cup UNION {ToSet(r.steps[n].text) : n \in DOMAIN r.steps}

IngredientPieces(r) == [n \in DOMAIN r.ingredients |-> IngredientLines(r.ingredients[n])]
StepPieces(r) == [n \in DOMAIN r.steps |-> StepLines(r.steps[n])]

LEMMA NoBlocks ==
    ASSUME NEW r, IsRecipe(r)
    PROVE  \A l \in LinesOf(r) : l.kind # "block"
<1>1. \A n \in DOMAIN r.steps : \A l \in ToSet(r.steps[n].text) : l.kind # "block"
    BY DEF IsRecipe, IsStep, ToSet
<1> QED
    BY <1>1 DEF LinesOf, Section, Blank, Words, Directive, Item

LEMMA PiecesAreLines ==
    ASSUME NEW r, IsRecipe(r), Accepts(r)
    PROVE  /\ IngredientPieces(r) \in Seq(Seq(LinesOf(r)))
           /\ Len(IngredientPieces(r)) = Len(r.ingredients) /\ Len(r.ingredients) > 0
           /\ StepPieces(r) \in Seq(Seq(LinesOf(r)))
           /\ Len(StepPieces(r)) = Len(r.steps) /\ Len(r.steps) > 0
<1>1. /\ DOMAIN r.ingredients = 1 .. Len(r.ingredients)
      /\ Len(r.ingredients) \in Nat
      /\ Len(r.ingredients) > 0
    BY DEF IsRecipe, IsList, Accepts
<1>2. /\ DOMAIN r.steps = 1 .. Len(r.steps)
      /\ Len(r.steps) \in Nat
      /\ Len(r.steps) > 0
    BY DEF IsRecipe, IsList, Accepts
<1>3. ASSUME NEW n \in DOMAIN r.ingredients
      PROVE  IngredientLines(r.ingredients[n]) \in Seq(LinesOf(r))
  <2>1. /\ Directive("ingredient", r.ingredients[n].id) \in LinesOf(r)
        /\ Item(r.ingredients[n].says, r.ingredients[n].optional) \in LinesOf(r)
    BY DEF LinesOf
  <2> QED
    BY <2>1 DEF IngredientLines
<1>4. ASSUME NEW n \in DOMAIN r.steps
      PROVE  StepLines(r.steps[n]) \in Seq(LinesOf(r))
  <2>1. Directive("step", r.steps[n].id) \in LinesOf(r) /\ Blank \in LinesOf(r)
    BY DEF LinesOf
  <2>2. ToSet(r.steps[n].text) \subseteq LinesOf(r)
    BY DEF LinesOf
  <2>3. r.steps[n].text \in Seq(LinesOf(r))
    <3>1. r.steps[n].text \in Seq(ToSet(r.steps[n].text))
      BY DEF IsRecipe, IsStep, IsList
    <3> QED
      BY <2>2, <3>1, SeqMonotonic
  <2> QED
    BY <2>1, <2>3 DEF StepLines
<1>5. IngredientPieces(r) \in Seq(Seq(LinesOf(r))) /\ Len(IngredientPieces(r)) = Len(r.ingredients)
  <2> DEFINE s == IngredientPieces(r)
  <2>1. s = [n \in 1 .. Len(r.ingredients) |-> IngredientLines(r.ingredients[n])]
    BY <1>1 DEF IngredientPieces
  <2>2. \A n \in 1 .. Len(r.ingredients) : IngredientLines(r.ingredients[n]) \in Seq(LinesOf(r))
    BY <1>1, <1>3
  <2> HIDE DEF s
  <2>3. s \in [1 .. Len(r.ingredients) -> Seq(LinesOf(r))]
    BY <2>1, <2>2
  <2>4. s \in Seq(Seq(LinesOf(r))) /\ Len(s) = Len(r.ingredients)
    BY <1>1, <2>3
  <2> QED
    BY <2>4 DEF s
<1>6. StepPieces(r) \in Seq(Seq(LinesOf(r))) /\ Len(StepPieces(r)) = Len(r.steps)
  <2> DEFINE s == StepPieces(r)
  <2>1. s = [n \in 1 .. Len(r.steps) |-> StepLines(r.steps[n])]
    BY <1>2 DEF StepPieces
  <2>2. \A n \in 1 .. Len(r.steps) : StepLines(r.steps[n]) \in Seq(LinesOf(r))
    BY <1>2, <1>4
  <2> HIDE DEF s
  <2>3. s \in [1 .. Len(r.steps) -> Seq(LinesOf(r))]
    BY <2>1, <2>2
  <2>4. s \in Seq(Seq(LinesOf(r))) /\ Len(s) = Len(r.steps)
    BY <1>2, <2>3
  <2> QED
    BY <2>4 DEF s
<1> QED
    BY <1>1, <1>2, <1>5, <1>6

\* Pieces put together are lines of the recipe.
LEMMA FlatLines ==
    ASSUME NEW S, NEW s \in Seq(Seq(S)), Len(s) > 0
    PROVE  FlattenSeq(s) \in Seq(S)
<1>1. PICK flat \in [1 .. Len(s) -> Seq(S)] : FlattenSeq(s) = flat[Len(s)]
    BY Flattened
<1>2. Len(s) \in 1 .. Len(s)
    OBVIOUS
<1> QED
    BY <1>1, <1>2

Opening == <<Section("ingredients"), Blank>>
Between == <<Blank, Section("method"), Blank>>

LEMMA LinesInOrder ==
    ASSUME NEW r, IsRecipe(r), Accepts(r)
    PROVE  /\ Opening \in Seq(LinesOf(r)) /\ Between \in Seq(LinesOf(r))
           /\ FlattenSeq(IngredientPieces(r)) \in Seq(LinesOf(r))
           /\ FlattenSeq(StepPieces(r)) \in Seq(LinesOf(r))
           /\ NoteLines(r.notes) \in Seq(LinesOf(r))
           /\ RecipeLines(r) =
                (((Opening \o FlattenSeq(IngredientPieces(r))) \o Between)
                    \o FlattenSeq(StepPieces(r))) \o NoteLines(r.notes)
           /\ RecipeLines(r) \in Seq(LinesOf(r))
<1>1. /\ Section("ingredients") \in LinesOf(r) /\ Section("method") \in LinesOf(r)
      /\ Section("other") \in LinesOf(r) /\ Blank \in LinesOf(r) /\ Words(r.notes) \in LinesOf(r)
    BY DEF LinesOf
<1>2. Opening \in Seq(LinesOf(r)) /\ Between \in Seq(LinesOf(r))
    BY <1>1 DEF Opening, Between
<1>3. NoteLines(r.notes) \in Seq(LinesOf(r))
  <2>1. <<Section("other"), Words(r.notes), Blank>> \in Seq(LinesOf(r))
    BY <1>1
  <2> QED
    BY <2>1 DEF NoteLines
<1>4. FlattenSeq(IngredientPieces(r)) \in Seq(LinesOf(r))
    BY PiecesAreLines, FlatLines
<1>5. FlattenSeq(StepPieces(r)) \in Seq(LinesOf(r))
    BY PiecesAreLines, FlatLines
<1>6. RecipeLines(r) =
        (((Opening \o FlattenSeq(IngredientPieces(r))) \o Between)
            \o FlattenSeq(StepPieces(r))) \o NoteLines(r.notes)
    BY DEF RecipeLines, Opening, Between, IngredientPieces, StepPieces
<1> QED
    BY <1>2, <1>3, <1>4, <1>5, <1>6

\* The JSON is the last line, and no other line is like it.
LEMMA BlockLast ==
    ASSUME NEW r, IsRecipe(r), Accepts(r)
    PROVE  LET body == Body(r)
               n    == Len(RecipeLines(r))
           IN  /\ n \in Nat
               /\ Len(body) = n + 1
               /\ body \in Seq(LinesOf(r) \cup {Block(r)})
               /\ body = Append(RecipeLines(r), Block(r))
               /\ body[n + 1] = Block(r)
               /\ \A i \in 1 .. n : body[i] \in LinesOf(r) /\ body[i].kind # "block"
<1> DEFINE text == RecipeLines(r)
           json == Block(r)
<1>1. text \in Seq(LinesOf(r)) /\ Body(r) = text \o <<json>>
    BY LinesInOrder DEF Body
<1>2. \A l \in LinesOf(r) : l.kind # "block"
    BY NoBlocks
<1> HIDE DEF text, json
<1>3. text \in Seq(LinesOf(r) \cup {json})
    BY <1>1
<1>4. text \o <<json>> = Append(text, json)
    BY <1>3
<1>5. /\ Len(text) \in Nat
      /\ Append(text, json) \in Seq(LinesOf(r) \cup {json})
      /\ Len(Append(text, json)) = Len(text) + 1
      /\ Append(text, json)[Len(text) + 1] = json
      /\ \A i \in 1 .. Len(text) : Append(text, json)[i] = text[i]
    BY <1>3, AppendProperties
<1>6. \A i \in 1 .. Len(text) : text[i] \in LinesOf(r)
    BY <1>1
<1> QED
    BY <1>1, <1>2, <1>4, <1>5, <1>6 DEF text, json

LEMMA LinesAreLines ==
    ASSUME NEW r, IsRecipe(r), NEW l \in LinesOf(r) \cup {Block(r)}
    PROVE  IsLine(l)
<1>1. CASE l = Block(r)
  <2>1. <<"json">> \in Seq({"json"})
    OBVIOUS
  <2>2. IsList(<<"json">>)
    BY <2>1, ListOf
  <2> QED
    BY <1>1, <2>2 DEF IsLine, Speaks, Block
<1>2. ASSUME NEW n \in DOMAIN r.steps, l \in ToSet(r.steps[n].text)
      PROVE  IsLine(l)
    BY <1>2 DEF IsRecipe, IsStep, IsLine, Speaks, ToSet
<1>3. ASSUME NEW n \in DOMAIN r.ingredients,
             l = Item(r.ingredients[n].says, r.ingredients[n].optional)
      PROVE  IsLine(l)
    BY <1>3 DEF IsRecipe, IsIngredient, IsLine, Speaks, Item
<1>4. CASE l = Words(r.notes)
    BY <1>4 DEF IsRecipe, IsLine, Speaks, Words
<1>5. ASSUME l.kind \in {"section", "directive", "blank"}
      PROVE  IsLine(l)
    BY <1>5 DEF IsLine, Speaks
<1> QED
    BY <1>1, <1>2, <1>3, <1>4, <1>5 DEF LinesOf, Section, Directive, Blank

\* A file that was written whole is a text, and its JSON is the recipe.
LEMMA WrittenBase ==
    ASSUME NEW r, IsRecipe(r), Accepts(r)
    PROVE  IsText(Write(r)) /\ BaseOf(Write(r)) = r
<1> DEFINE d == Write(r)
           n == Len(RecipeLines(r))
<1>1. d.body = Body(r) /\ d = [meta |-> d.meta, body |-> d.body]
    BY DEF Write
<1> HIDE DEF d
<1>2. /\ n \in Nat
      /\ Len(d.body) = n + 1
      /\ d.body \in Seq(LinesOf(r) \cup {Block(r)})
      /\ d.body[n + 1] = Block(r)
      /\ \A i \in 1 .. n : d.body[i].kind # "block"
    BY <1>1, BlockLast
<1> HIDE DEF n
<1>3. IsList(d.body)
    BY <1>2, ListOf
<1>4. Block(r).kind = "block" /\ Block(r).holds = r
    BY DEF Block
<1>5. DOMAIN d.body = 1 .. n + 1
    BY <1>2
<1>6. IsText(d)
  <2>1. \A i \in DOMAIN d.body : d.body[i] \in LinesOf(r) \cup {Block(r)}
    BY <1>2, <1>5
  <2> QED
    BY <1>1, <1>3, <2>1, LinesAreLines DEF IsText
<1>7. BlockAt(d) = n + 1
    BY <1>2, <1>3, <1>4, <1>5, FirstBlock
<1> QED
    BY <1>2, <1>4, <1>6, <1>7 DEF BaseOf, d

\* A file that was cut short is a text, but one without the JSON.
LEMMA TornHoldsNone ==
    ASSUME NEW r, IsRecipe(r), Accepts(r), NEW t \in Torn(Write(r))
    PROVE  IsText(t) /\ ~ HasBase(t)
<1> DEFINE n == Len(RecipeLines(r))
<1>1. CASE t \in {[meta |-> Other, body |-> <<>>], [meta |-> Broken, body |-> <<>>]}
  <2>1. /\ t.body = <<>>
        /\ ~ IsCook(t)
        /\ t = [meta |-> t.meta, body |-> t.body]
    BY <1>1 DEF IsCook
  <2>2. IsList(<<>>)
    <3>1. <<>> \in Seq({})
      OBVIOUS
    <3> QED
      BY <3>1, ListOf
  <2> QED
    BY <2>1, <2>2 DEF IsText, HasBase
<1>2. ASSUME NEW k \in 0 .. Len(Write(r).body) - 1,
             t = [Write(r) EXCEPT !.body = SubSeq(@, 1, k)]
      PROVE  IsText(t) /\ ~ HasBase(t)
  <2>1. /\ t.body = SubSeq(Body(r), 1, k)
        /\ Write(r).body = Body(r)
        /\ t = [meta |-> t.meta, body |-> t.body]
    BY <1>2 DEF Write
  <2>2. /\ n \in Nat
        /\ Len(Body(r)) = n + 1
        /\ Body(r) \in Seq(LinesOf(r) \cup {Block(r)})
        /\ \A i \in 1 .. n : Body(r)[i].kind # "block"
    BY BlockLast
  <2> HIDE DEF n
  <2>3. k \in 0 .. n
    BY <1>2, <2>1, <2>2
  <2>4. /\ t.body \in Seq(LinesOf(r) \cup {Block(r)})
        /\ \A i \in 1 .. k : t.body[i] = Body(r)[i]
        /\ DOMAIN t.body = 1 .. k
    BY <2>1, <2>2, <2>3
  <2>5. IsList(t.body) /\ \A i \in DOMAIN t.body : t.body[i].kind # "block"
    BY <2>2, <2>3, <2>4, ListOf
  <2>6. BlockAt(t) = 0
    BY <2>5, FirstBlock
  <2>7. \A i \in DOMAIN t.body : t.body[i] \in LinesOf(r) \cup {Block(r)}
    BY <2>4
  <2> QED
    BY <2>1, <2>5, <2>6, <2>7, LinesAreLines DEF IsText, HasBase
<1> QED
    BY <1>1, <1>2 DEF Torn

-----------------------------------------------------------------------------
(* The ingredients, read back                                              *)

\* An ingredient of the base read back from the lines it is written as.
ReadAlready(base, i) ==
    [section |-> "ingredients", pending |-> None, list |-> SubSeq(base, 1, i)]

\* Ingredients that are in their places, each under an id of its own.
Placed(base) ==
    /\ IsList(base)
    /\ \A k \in DOMAIN base : IsIngredient(base[k]) /\ base[k].position = k
    /\ \A j, k \in DOMAIN base : base[j].id = base[k].id => j = k

LEMMA IngredientReadBack ==
    ASSUME NEW base, Placed(base), NEW S, NEW t \in Seq(S), NEW i \in Nat,
           i + 1 <= Len(base), IngredientsAfter(base, t) = ReadAlready(base, i),
           Directive("ingredient", base[i + 1].id) \in S,
           Item(base[i + 1].says, base[i + 1].optional) \in S
    PROVE  IngredientsAfter(base, t \o IngredientLines(base[i + 1])) = ReadAlready(base, i + 1)
<1> DEFINE x   == base[i + 1]
           top == Directive("ingredient", x.id)
           own == Item(x.says, x.optional)
           now == [section |-> "ingredients", pending |-> x.id, list |-> SubSeq(base, 1, i)]
<1>1. /\ base \in Seq(ToSet(base)) /\ Len(base) \in Nat
      /\ i + 1 \in DOMAIN base
    BY DEF Placed, IsList
<1>2. /\ IsIngredient(x) /\ x.position = i + 1
      /\ \A j \in DOMAIN base : base[j].id = x.id => j = i + 1
    BY <1>1 DEF Placed
<1>3. SubSeq(base, 1, i) \in Seq(ToSet(base)) /\ Len(SubSeq(base, 1, i)) = i
    BY <1>1
<1>4. SubSeq(base, 1, i + 1) = Append(SubSeq(base, 1, i), x)
    BY <1>1
<1> HIDE DEF x
<1>5. /\ top.kind = "directive" /\ top.of = "ingredient" /\ top.id = x.id
      /\ own.kind = "item"
    BY DEF Directive, Item
<1>6. TakeIngredientLine(base, ReadAlready(base, i), top) = now
    BY <1>5 DEF TakeIngredientLine, ReadAlready
<1>7. ReadItem(own, x, x.id, i + 1) = x
  <2>1. ReadItem(own, x, x.id, i + 1) = [x EXCEPT !.id = x.id, !.position = i + 1]
    BY DEF ReadItem
  <2> QED
    BY <1>2, <2>1 DEF IsIngredient
<1>8. TakeIngredientLine(base, now, own) = ReadAlready(base, i + 1)
  <2>1. Len(now.list) + 1 = i + 1 /\ now.pending = x.id /\ now.section = "ingredients"
    BY <1>3
  <2>2. Origin(base, x.id, i + 1, DefaultIngredient(i + 1)) = x
    <3>1. PICK k \in DOMAIN base :
            base[k].id = x.id /\ Origin(base, x.id, i + 1, DefaultIngredient(i + 1)) = base[k]
      BY <1>1, Named DEF Placed, x
    <3> QED
      BY <1>2, <3>1 DEF x
  <2>3. IdOr(x.id, x) = x.id
    BY DEF IdOr
  <2>4. TakeIngredientLine(base, now, own) =
          [now EXCEPT !.pending = None, !.list = Append(@, x)]
    BY <1>5, <1>7, <2>1, <2>2, <2>3 DEF TakeIngredientLine
  <2> QED
    BY <1>4, <2>4 DEF ReadAlready
<1>9. t \o IngredientLines(x) = Append(Append(t, top), own)
  <2>1. top \in S /\ own \in S
    BY DEF x
  <2> HIDE DEF top, own
  <2>2. t \o <<top, own>> = Append(Append(t, top), own)
    BY <2>1
  <2> QED
    BY <2>2 DEF IngredientLines, top, own
<1>10. /\ IngredientsAfter(base, Append(t, top)) = now
       /\ Append(t, top) \in Seq(S)
  <2>1. top \in S
    BY DEF x
  <2> HIDE DEF top, now
  <2> QED
    BY <1>6, <2>1, IngredientsRead
<1>11. IngredientsAfter(base, Append(Append(t, top), own)) = ReadAlready(base, i + 1)
  <2>1. own \in S
    BY DEF x
  <2> HIDE DEF top, own, now
  <2> DEFINE u == Append(t, top)
  <2>2. u \in Seq(S) /\ IngredientsAfter(base, u) = now
    BY <1>10
  <2> HIDE DEF u
  <2>3. IngredientsAfter(base, Append(u, own)) = ReadAlready(base, i + 1)
    BY <1>8, <2>1, <2>2, IngredientsRead
  <2> QED
    BY <2>3 DEF u
<1> QED
    BY <1>9, <1>11 DEF x

\* Lines under other headings leave the list as it is.
Left(base, t, list) ==
    LET read == IngredientsAfter(base, t)
    IN  IsReading(read) /\ read.section # "ingredients" /\ read.list = list

LEMMA LeftAlone ==
    ASSUME NEW base, NEW list, NEW S, NEW t \in Seq(S), Left(base, t, list), NEW l \in S,
           l.kind = "section" => l.to # "ingredients"
    PROVE  Left(base, Append(t, l), list)
<1>1. IngredientsAfter(base, Append(t, l))
        = TakeIngredientLine(base, IngredientsAfter(base, t), l)
    BY IngredientsRead
<1> QED
    BY <1>1, LineTaken DEF Left

\* Short sequences as they grow.
LEMMA PairOf == ASSUME NEW a, NEW b PROVE Append(<<a>>, b) = <<a, b>>
<1> DEFINE S == {a, b}
           u == Append(<<a>>, b)
<1>1. <<a>> \in Seq(S) /\ b \in S /\ <<a, b>> \in Seq(S) /\ Len(<<a>>) = 1 /\ Len(<<a, b>>) = 2
    OBVIOUS
<1>2. u \in Seq(S) /\ Len(u) = 2 /\ u[2] = b /\ u[1] = a
    BY <1>1, AppendProperties
<1> HIDE DEF u, S
<1>3. \A i \in 1 .. 2 : u[i] = <<a, b>>[i]
    BY <1>2
<1> QED
    BY <1>1, <1>2, <1>3, SeqEqual DEF u

LEMMA TripleOf == ASSUME NEW a, NEW b, NEW c PROVE Append(<<a, b>>, c) = <<a, b, c>>
<1> DEFINE S == {a, b, c}
           u == Append(<<a, b>>, c)
<1>1. <<a, b>> \in Seq(S) /\ c \in S /\ <<a, b, c>> \in Seq(S)
      /\ Len(<<a, b>>) = 2 /\ Len(<<a, b, c>>) = 3
    OBVIOUS
<1>2. u \in Seq(S) /\ Len(u) = 3 /\ u[3] = c /\ u[1] = a /\ u[2] = b
    BY <1>1, AppendProperties
<1> HIDE DEF u, S
<1>3. \A i \in 1 .. 3 : u[i] = <<a, b, c>>[i]
    BY <1>2
<1> QED
    BY <1>1, <1>2, <1>3, SeqEqual DEF u

LEMMA ThreeMore ==
    ASSUME NEW S, NEW t \in Seq(S), NEW a \in S, NEW b \in S, NEW c \in S
    PROVE  /\ t \o <<a, b, c>> = Append(Append(Append(t, a), b), c)
           /\ Append(t, a) \in Seq(S)
           /\ Append(Append(t, a), b) \in Seq(S)
           /\ t \o <<a, b, c>> \in Seq(S)
    OBVIOUS

LEMMA LeftThree ==
    ASSUME NEW base, NEW list, NEW S, NEW t \in Seq(S), Left(base, t, list),
           NEW a \in S, NEW b \in S, NEW c \in S,
           \A l \in {a, b, c} : l.kind = "section" => l.to # "ingredients"
    PROVE  Left(base, t \o <<a, b, c>>, list)
<1> DEFINE u == Append(t, a)
           v == Append(u, b)
<1>1. u \in Seq(S) /\ v \in Seq(S) /\ t \o <<a, b, c>> = Append(v, c)
    BY ThreeMore
<1>2. Left(base, u, list)
    BY LeftAlone
<1> HIDE DEF u
<1>3. Left(base, v, list)
    BY <1>1, <1>2, LeftAlone
<1> HIDE DEF v
<1>4. Left(base, Append(v, c), list)
    BY <1>1, <1>3, LeftAlone
<1> QED
    BY <1>1, <1>4

\* A paragraph's lines.
LEMMA ParagraphLines ==
    ASSUME NEW s, IsParagraph(s)
    PROVE  LET w == s.text[1].says
           IN  /\ StepLines(s) = <<Directive("step", s.id), Words(w), Blank>>
               /\ s.text = <<Words(w)>>
               /\ IsList(w)
               /\ w # <<>>
<1> DEFINE w == s.text[1].says
<1>1. s.text = <<Words(w)>> /\ IsList(w) /\ w # <<>>
    BY DEF IsParagraph
<1> HIDE DEF w
<1>2. StepLines(s) = <<Directive("step", s.id)>> \o <<Words(w)>> \o <<Blank>>
    BY <1>1 DEF StepLines
<1>3. <<Directive("step", s.id)>> \o <<Words(w)>> \o <<Blank>>
        = <<Directive("step", s.id), Words(w), Blank>>
  <2> DEFINE a == Directive("step", s.id)
             b == Words(w)
  <2> HIDE DEF a, b
  <2>1. <<a>> \o <<b>> \o <<Blank>> = <<a, b, Blank>>
    <3> DEFINE c == Blank
    <3> HIDE DEF c
    <3>1. <<a>> \o <<b>> \o <<c>> = <<a, b, c>>
      <4>1. <<a>> \in Seq({a, b, c}) /\ <<b>> \in Seq({a, b, c}) /\ <<c>> \in Seq({a, b, c})
        OBVIOUS
      <4>2. <<a>> \o <<b>> = Append(<<a>>, b) /\ <<a, b>> \in Seq({a, b, c})
        BY <4>1, AppendIsConcat
      <4>3. Append(<<a>>, b) = <<a, b>> /\ Append(<<a, b>>, c) = <<a, b, c>>
        BY PairOf, TripleOf
      <4>4. <<a, b>> \o <<c>> = Append(<<a, b>>, c)
        BY <4>2, AppendIsConcat
      <4> QED
        BY <4>2, <4>3, <4>4
    <3> QED
      BY <3>1 DEF c
  <2> QED
    BY <2>1 DEF a, b
<1> QED
    BY <1>1, <1>2, <1>3 DEF w

\* The lists of a recipe the store accepted, that its text can show.
LEMMA PlainPlaced ==
    ASSUME NEW r, IsRecipe(r), Accepts(r), Plain(r)
    PROVE  Placed(r.ingredients)
<1>1. \A j, k \in DOMAIN r.ingredients :
        r.ingredients[j].id = r.ingredients[k].id => j = k
  <2> DEFINE f == [n \in DOMAIN r.ingredients |-> r.ingredients[n].id]
  <2>1. \A j, k \in DOMAIN f : f[j] = f[k] => j = k
    BY DEF Accepts, IsInjective
  <2> QED
    BY <2>1
<1> QED
    BY <1>1 DEF Placed, IsRecipe, Plain

\* Everything under Ingredients, and the lines up to the steps.
LEMMA IngredientsReadBack ==
    ASSUME NEW r, IsRecipe(r), Accepts(r), Plain(r)
    PROVE  Left(r.ingredients,
                (Opening \o FlattenSeq(IngredientPieces(r))) \o Between, r.ingredients)
<1> DEFINE base == r.ingredients
           S    == LinesOf(r)
           s    == IngredientPieces(r)
           G    == {p \in Nat \X Seq(S) :
                      p[1] <= Len(base) /\ IngredientsAfter(base, p[2]) = ReadAlready(base, p[1])}
<1>1. Placed(base)
    BY PlainPlaced
<1>2. /\ base \in Seq(ToSet(base)) /\ Len(base) \in Nat /\ DOMAIN base = 1 .. Len(base)
      /\ SubSeq(base, 1, 0) = <<>> /\ SubSeq(base, 1, Len(base)) = base
  <2>1. base \in Seq(ToSet(base))
    BY <1>1 DEF Placed, IsList
  <2> HIDE DEF base
  <2> QED
    BY <2>1
<1>3. s \in Seq(Seq(S)) /\ Len(s) = Len(base) /\ Len(s) > 0
    BY PiecesAreLines
<1>4. Opening \in Seq(S) /\ Between \in Seq(S)
    BY LinesInOrder
<1>5. \A i \in 1 .. Len(base) : s[i] = IngredientLines(base[i])
    BY <1>2 DEF IngredientPieces
<1>6. \A i \in 1 .. Len(base) : /\ Directive("ingredient", base[i].id) \in S
                                /\ Item(base[i].says, base[i].optional) \in S
    BY <1>2 DEF LinesOf
<1>7. Blank \in S /\ Section("ingredients") \in S /\ Section("method") \in S
    BY DEF LinesOf
<1> HIDE DEF base, S, s
<1>8. IngredientsAfter(base, Opening) = ReadAlready(base, 0)
  <2> DEFINE u == Append(<<>>, Section("ingredients"))
  <2>0. <<>> \in Seq(S)
    OBVIOUS
  <2>1. IngredientsAfter(base, <<>>) = IngredientStart /\ <<>> \in Seq(S)
    BY <1>7, <2>0, IngredientsRead
  <2>2. IngredientsAfter(base, u) = TakeIngredientLine(base, IngredientStart, Section("ingredients"))
    BY <1>7, <2>1, IngredientsRead
  <2>3. u \in Seq(S)
    BY <1>7, <2>1
  <2>4. TakeIngredientLine(base, IngredientStart, Section("ingredients")) = ReadAlready(base, 0)
    BY <1>2 DEF TakeIngredientLine, IngredientStart, Section, ReadAlready
  <2>5. Opening = Append(u, Blank)
    BY DEF Opening
  <2> HIDE DEF u
  <2>6. IngredientsAfter(base, Append(u, Blank))
            = TakeIngredientLine(base, IngredientsAfter(base, u), Blank)
    BY <1>7, <2>3, IngredientsRead
  <2>7. TakeIngredientLine(base, ReadAlready(base, 0), Blank) = ReadAlready(base, 0)
    BY DEF TakeIngredientLine, Blank
  <2> QED
    BY <2>2, <2>4, <2>5, <2>6, <2>7
<1>9. <<0, Opening>> \in G
    BY <1>2, <1>4, <1>8
<1>10. ASSUME NEW i \in Nat, NEW t \in Seq(S), i + 1 <= Len(s), <<i, t>> \in G
       PROVE  <<i + 1, t \o s[i + 1]>> \in G
  <2>1. IngredientsAfter(base, t) = ReadAlready(base, i)
    BY <1>10
  <2>2. i + 1 \in 1 .. Len(base)
    BY <1>2, <1>3, <1>10
  <2>3. IngredientsAfter(base, t \o IngredientLines(base[i + 1])) = ReadAlready(base, i + 1)
    BY <1>1, <1>6, <2>1, <2>2, IngredientReadBack
  <2>4. s[i + 1] = IngredientLines(base[i + 1]) /\ t \o s[i + 1] \in Seq(S)
    BY <1>3, <1>5, <2>2
  <2> DEFINE q == t \o s[i + 1]
             k == i + 1
  <2>5. k \in Nat /\ k <= Len(base) /\ q \in Seq(S)
        /\ IngredientsAfter(base, q) = ReadAlready(base, k)
    BY <1>2, <2>2, <2>3, <2>4
  <2> HIDE DEF q, k
  <2>6. <<k, q>> \in G
    BY <2>5
  <2> QED
    BY <2>6 DEF k, q
<1> DEFINE t == Opening \o FlattenSeq(s)
<1>11. <<Len(s), t>> \in G /\ FlattenSeq(s) \in Seq(S)
  <2> HIDE DEF G
  <2> QED
    BY <1>3, <1>4, <1>9, <1>10, AlongPieces
<1>12. IngredientsAfter(base, t) = ReadAlready(base, Len(base)) /\ t \in Seq(S)
    BY <1>3, <1>11
<1> HIDE DEF t
<1> DEFINE u == Append(t, Blank)
           v == Append(u, Section("method"))
<1>13. u \in Seq(S) /\ v \in Seq(S) /\ t \o Between = Append(v, Blank)
    BY <1>7, <1>12, ThreeMore DEF Between
<1>14. IngredientsAfter(base, u) = ReadAlready(base, Len(base))
  <2>1. IngredientsAfter(base, u) = TakeIngredientLine(base, IngredientsAfter(base, t), Blank)
    BY <1>7, <1>12, IngredientsRead
  <2>2. TakeIngredientLine(base, ReadAlready(base, Len(base)), Blank) = ReadAlready(base, Len(base))
    BY DEF TakeIngredientLine, Blank
  <2> QED
    BY <1>12, <2>1, <2>2
<1> HIDE DEF u
<1>15. Left(base, v, base)
  <2>1. IngredientsAfter(base, v) = TakeIngredientLine(base, ReadAlready(base, Len(base)), Section("method"))
    BY <1>7, <1>13, <1>14, IngredientsRead
  <2>2. TakeIngredientLine(base, ReadAlready(base, Len(base)), Section("method"))
            = [section |-> "method", pending |-> None, list |-> base]
    BY <1>2 DEF TakeIngredientLine, Section, ReadAlready
  <2>3. IsList(base)
    BY <1>1 DEF Placed
  <2> QED
    BY <2>1, <2>2, <2>3 DEF Left, IsReading
<1> HIDE DEF v
<1>16. Left(base, Append(v, Blank), base)
    BY <1>7, <1>13, <1>15, LeftAlone DEF Blank
<1> QED
    BY <1>13, <1>16 DEF base, s, t

\* All lines of a recipe's text.
AllLinesOf(r) == LinesOf(r) \cup {Block(r)}

LEMMA CommonLines ==
    ASSUME NEW r
    PROVE  {Section("ingredients"), Section("method"), Section("other"), Words(r.notes),
            Blank, Block(r)} \subseteq AllLinesOf(r)
    BY DEF LinesOf, AllLinesOf

\* The pieces of the ingredients are two lines each, those of paragraphs three.
LEMMA IngredientPieceLines ==
    ASSUME NEW r, IsRecipe(r), Accepts(r)
    PROVE  /\ IngredientPieces(r) \in Seq(Seq(AllLinesOf(r)))
           /\ Len(IngredientPieces(r)) = Len(r.ingredients) /\ Len(IngredientPieces(r)) > 0
           /\ \A i \in 1 .. Len(r.ingredients) :
                /\ IngredientPieces(r)[i] = IngredientLines(r.ingredients[i])
                /\ Directive("ingredient", r.ingredients[i].id) \in AllLinesOf(r)
                /\ Item(r.ingredients[i].says, r.ingredients[i].optional) \in AllLinesOf(r)
<1>1. /\ IngredientPieces(r) \in Seq(Seq(LinesOf(r)))
      /\ Len(IngredientPieces(r)) = Len(r.ingredients) /\ Len(r.ingredients) > 0
    BY PiecesAreLines
<1>2. DOMAIN r.ingredients = 1 .. Len(r.ingredients)
    BY DEF IsRecipe, IsList
<1>3. \A i \in 1 .. Len(r.ingredients) :
        /\ IngredientPieces(r)[i] = IngredientLines(r.ingredients[i])
        /\ Directive("ingredient", r.ingredients[i].id) \in AllLinesOf(r)
        /\ Item(r.ingredients[i].says, r.ingredients[i].optional) \in AllLinesOf(r)
    BY <1>2 DEF IngredientPieces, LinesOf, AllLinesOf
<1>4. IngredientPieces(r) \in Seq(Seq(AllLinesOf(r)))
  <2>1. Seq(LinesOf(r)) \subseteq Seq(AllLinesOf(r))
    BY SeqMonotonic DEF AllLinesOf
  <2> QED
    BY <1>1, <2>1, SeqMonotonic
<1> QED
    BY <1>1, <1>3, <1>4

LEMMA StepPieceLines ==
    ASSUME NEW r, IsRecipe(r), Accepts(r), Plain(r)
    PROVE  /\ StepPieces(r) \in Seq(Seq(AllLinesOf(r)))
           /\ Len(StepPieces(r)) = Len(r.steps) /\ Len(StepPieces(r)) > 0
           /\ \A i \in 1 .. Len(r.steps) :
                LET s == r.steps[i]
                    w == s.text[1].says
                IN  /\ StepPieces(r)[i] = StepLines(s)
                    /\ StepLines(s) = <<Directive("step", s.id), Words(w), Blank>>
                    /\ Directive("step", s.id) \in AllLinesOf(r)
                    /\ Words(w) \in AllLinesOf(r)
<1>1. /\ StepPieces(r) \in Seq(Seq(LinesOf(r)))
      /\ Len(StepPieces(r)) = Len(r.steps) /\ Len(r.steps) > 0
    BY PiecesAreLines
<1>2. DOMAIN r.steps = 1 .. Len(r.steps)
    BY DEF IsRecipe, IsList
<1>3. StepPieces(r) \in Seq(Seq(AllLinesOf(r)))
  <2>1. Seq(LinesOf(r)) \subseteq Seq(AllLinesOf(r))
    BY SeqMonotonic DEF AllLinesOf
  <2> QED
    BY <1>1, <2>1, SeqMonotonic
<1>4. ASSUME NEW i \in 1 .. Len(r.steps)
      PROVE  /\ StepPieces(r)[i] = StepLines(r.steps[i])
             /\ StepLines(r.steps[i]) = <<Directive("step", r.steps[i].id),
                                          Words(r.steps[i].text[1].says), Blank>>
             /\ Directive("step", r.steps[i].id) \in AllLinesOf(r)
             /\ Words(r.steps[i].text[1].says) \in AllLinesOf(r)
  <2>1. i \in DOMAIN r.steps
    BY <1>2
  <2>2. IsParagraph(r.steps[i])
    BY <2>1 DEF Plain
  <2>3. /\ StepLines(r.steps[i]) = <<Directive("step", r.steps[i].id),
                                     Words(r.steps[i].text[1].says), Blank>>
        /\ r.steps[i].text = <<Words(r.steps[i].text[1].says)>>
    BY <2>2, ParagraphLines
  <2>4. Words(r.steps[i].text[1].says) \in ToSet(r.steps[i].text)
    <3> DEFINE x == Words(r.steps[i].text[1].says)
    <3> HIDE DEF x
    <3>1. x \in ToSet(<<x>>)
      BY DEF ToSet
    <3> QED
      BY <2>3, <3>1 DEF x
  <2>5. ToSet(r.steps[i].text) \subseteq AllLinesOf(r)
    BY <2>1 DEF LinesOf, AllLinesOf
  <2>6. Directive("step", r.steps[i].id) \in AllLinesOf(r)
    BY <2>1 DEF LinesOf, AllLinesOf
  <2>7. StepPieces(r)[i] = StepLines(r.steps[i])
    BY <2>1 DEF StepPieces
  <2> QED
    BY <2>3, <2>4, <2>5, <2>6, <2>7
<1> QED
    BY <1>1, <1>3, <1>4

\* A text is its headings, its pieces and its JSON.
LEMMA BodyInOrder ==
    ASSUME NEW r, IsRecipe(r), Accepts(r), Plain(r)
    PROVE  /\ Body(r) =
                (((((Opening \o FlattenSeq(IngredientPieces(r))) \o Between)
                    \o FlattenSeq(StepPieces(r)))
                    \o <<Section("other"), Words(r.notes), Blank>>) \o <<Block(r)>>)
           /\ Opening \in Seq(AllLinesOf(r))
           /\ Opening \o FlattenSeq(IngredientPieces(r)) \in Seq(AllLinesOf(r))
           /\ (Opening \o FlattenSeq(IngredientPieces(r))) \o Between \in Seq(AllLinesOf(r))
<1>1. Seq(LinesOf(r)) \subseteq Seq(AllLinesOf(r))
    BY SeqMonotonic DEF AllLinesOf
<1> DEFINE f == FlattenSeq(IngredientPieces(r))
<1>2. Opening \in Seq(LinesOf(r)) /\ Between \in Seq(LinesOf(r)) /\ f \in Seq(LinesOf(r))
    BY LinesInOrder
<1>3. Body(r) =
        (((((Opening \o f) \o Between) \o FlattenSeq(StepPieces(r)))
            \o <<Section("other"), Words(r.notes), Blank>>) \o <<Block(r)>>)
    BY LinesInOrder DEF Body, NoteLines, Plain
<1> HIDE DEF f
<1>4. /\ Opening \o f \in Seq(LinesOf(r))
      /\ (Opening \o f) \o Between \in Seq(LinesOf(r))
    BY <1>2
<1> QED
    BY <1>1, <1>2, <1>3, <1>4 DEF f

\* The ingredients of an untouched text are those it was written of.
LEMMA IngredientsSame ==
    ASSUME NEW r, IsRecipe(r), Accepts(r), Plain(r)
    PROVE  ReadIngredients(Write(r), r.ingredients) = r.ingredients
<1> DEFINE base == r.ingredients
           S    == AllLinesOf(r)
           s    == StepPieces(r)
           b    == (Opening \o FlattenSeq(IngredientPieces(r))) \o Between
           G    == {p \in Nat \X Seq(S) : Left(base, p[2], base)}
<1>1. /\ Section("other") \in S /\ Words(r.notes) \in S /\ Blank \in S /\ Block(r) \in S
    BY CommonLines
<1>2. /\ s \in Seq(Seq(S)) /\ Len(s) > 0
      /\ \A i \in 1 .. Len(s) :
           LET x == r.steps[i]
               w == x.text[1].says
           IN  /\ s[i] = <<Directive("step", x.id), Words(w), Blank>>
               /\ Directive("step", x.id) \in S
               /\ Words(w) \in S
    BY StepPieceLines
<1>3. /\ b \in Seq(S)
      /\ Body(r) = ((b \o FlattenSeq(s)) \o <<Section("other"), Words(r.notes), Blank>>) \o <<Block(r)>>
    BY BodyInOrder
<1>4. Left(base, b, base)
    BY IngredientsReadBack
<1> HIDE DEF base, S, s, b
<1>7. <<0, b>> \in G
    BY <1>3, <1>4
<1>8. ASSUME NEW i \in Nat, NEW t \in Seq(S), i + 1 <= Len(s), <<i, t>> \in G
      PROVE  <<i + 1, t \o s[i + 1]>> \in G
  <2> DEFINE k == i + 1
             q == t \o s[k]
             top == Directive("step", r.steps[k].id)
             own == Words(r.steps[k].text[1].says)
  <2>1. k \in 1 .. Len(s) /\ k \in Nat /\ Left(base, t, base)
    BY <1>2, <1>8
  <2> HIDE DEF k
  <2>2. s[k] = <<top, own, Blank>> /\ top \in S /\ own \in S
    BY <1>2, <2>1
  <2>3. top.kind # "section" /\ own.kind # "section" /\ Blank.kind # "section"
    BY DEF Directive, Words, Blank
  <2> HIDE DEF top, own
  <2>4. q \in Seq(S) /\ Left(base, q, base)
    BY <1>1, <2>1, <2>2, <2>3, LeftThree, ThreeMore
  <2> HIDE DEF q
  <2>5. <<k, q>> \in G
    BY <2>1, <2>4
  <2> QED
    BY <2>5 DEF k, q
<1> DEFINE c == b \o FlattenSeq(s)
<1>9. c \in Seq(S) /\ Left(base, c, base)
  <2>1. <<Len(s), c>> \in G
    <3> HIDE DEF G
    <3> QED
      BY <1>2, <1>3, <1>7, <1>8, AlongPieces
  <2> QED
    BY <2>1
<1> HIDE DEF c
<1> DEFINE e == c \o <<Section("other"), Words(r.notes), Blank>>
<1>10. e \in Seq(S) /\ Left(base, e, base)
  <2> DEFINE top == Section("other")
             own == Words(r.notes)
  <2>1. /\ top.to # "ingredients" /\ own.kind # "section" /\ Blank.kind # "section"
        /\ top \in S /\ own \in S
    BY <1>1 DEF Section, Words, Blank
  <2>2. e = c \o <<top, own, Blank>>
    OBVIOUS
  <2> HIDE DEF top, own, e
  <2> QED
    BY <1>1, <1>9, <2>1, <2>2, LeftThree, ThreeMore
<1> HIDE DEF e
<1>11. Left(base, Append(e, Block(r)), base)
    BY <1>1, <1>10, LeftAlone DEF Block
<1>12. Body(r) = Append(e, Block(r))
  <2> DEFINE json == Block(r)
  <2> HIDE DEF json
  <2>1. e \o <<json>> = Append(e, json)
    BY <1>1, <1>10, AppendIsConcat DEF json
  <2> QED
    BY <1>3, <2>1 DEF c, e, json
<1> QED
    BY <1>11, <1>12 DEF base, Left, ReadIngredients, Write

-----------------------------------------------------------------------------
(* The steps, read back the same way                                       *)

\* The parser between paragraphs, under a heading.
AtRest(section, list) ==
    [section |-> section, pending |-> None, paragraph |-> <<>>, list |-> list]

\* Paragraphs that are in their places, each under an id of its own.
PlacedSteps(base) ==
    /\ IsList(base)
    /\ \A k \in DOMAIN base : IsStep(base[k]) /\ base[k].position = k /\ IsParagraph(base[k])
    /\ \A j, k \in DOMAIN base : base[j].id = base[k].id => j = k

LEMMA NothingToFlush ==
    ASSUME NEW base, NEW section, NEW list
    PROVE  Flush(base, AtRest(section, list)) = AtRest(section, list)
    BY DEF Flush, AtRest

\* A paragraph under its directive comes back as the step it was written of.
LEMMA StepReadBack ==
    ASSUME NEW base, PlacedSteps(base), NEW S, NEW t \in Seq(S), NEW i \in Nat,
           i + 1 <= Len(base),
           StepsAfter(base, t) = AtRest("method", SubSeq(base, 1, i)),
           Directive("step", base[i + 1].id) \in S,
           Words(base[i + 1].text[1].says) \in S, Blank \in S
    PROVE  StepsAfter(base, t \o StepLines(base[i + 1]))
               = AtRest("method", SubSeq(base, 1, i + 1))
<1> DEFINE x    == base[i + 1]
           w    == x.text[1].says
           list == SubSeq(base, 1, i)
           top  == Directive("step", x.id)
           own  == Words(w)
           a    == [section |-> "method", pending |-> x.id, paragraph |-> <<>>, list |-> list]
           b    == [section |-> "method", pending |-> x.id, paragraph |-> w, list |-> list]
<1>1. /\ base \in Seq(ToSet(base)) /\ Len(base) \in Nat
      /\ i + 1 \in DOMAIN base
    BY DEF PlacedSteps, IsList
<1>2. /\ IsStep(x) /\ x.position = i + 1 /\ IsParagraph(x)
      /\ \A j \in DOMAIN base : base[j].id = x.id => j = i + 1
    BY <1>1 DEF PlacedSteps
<1>3. list \in Seq(ToSet(base)) /\ Len(list) = i
    BY <1>1
<1>4. SubSeq(base, 1, i + 1) = Append(list, x)
    BY <1>1
<1>5. x.text = <<own>> /\ IsList(w) /\ w # <<>> /\ StepLines(x) = <<top, own, Blank>>
    BY <1>2, ParagraphLines
<1>6. Origin(base, x.id, i + 1, DefaultStep(i + 1)) = x
  <2>1. PICK k \in DOMAIN base :
          base[k].id = x.id /\ Origin(base, x.id, i + 1, DefaultStep(i + 1)) = base[k]
    BY <1>1, Named DEF PlacedSteps
  <2> QED
    BY <1>2, <2>1
<1>7. top \in S /\ own \in S
    OBVIOUS
<1> HIDE DEF x, list, w
<1>8. /\ top.kind = "directive" /\ top.of = "step" /\ top.id = x.id
      /\ own.kind = "words" /\ own.says = w
      /\ Blank.kind = "blank"
    BY DEF Directive, Words, Blank
<1>9. TakeStepLine(base, AtRest("method", list), top) = a
  <2>1. TakeStepLine(base, AtRest("method", list), top)
            = [Flush(base, AtRest("method", list)) EXCEPT !.pending = x.id]
    BY <1>8 DEF TakeStepLine, AtRest
  <2>2. TakeStepLine(base, AtRest("method", list), top)
            = [AtRest("method", list) EXCEPT !.pending = x.id]
    BY <2>1, NothingToFlush
  <2> HIDE DEF top
  <2> QED
    BY <2>2 DEF AtRest
<1> HIDE DEF top
<1>10. TakeStepLine(base, a, own) = b
  <2>1. TakeStepLine(base, a, own) = [a EXCEPT !.paragraph = @ \o Spoken(own)]
    BY <1>8 DEF TakeStepLine
  <2>2. Spoken(own) = w
    BY <1>8 DEF Spoken
  <2>3. <<>> \o w = w
    BY <1>5, ConcatEmptySeq DEF IsList
  <2> QED
    BY <2>1, <2>2, <2>3
<1>11. TakeStepLine(base, b, Blank) = AtRest("method", SubSeq(base, 1, i + 1))
  <2>1. TakeStepLine(base, b, Blank) = Flush(base, b)
    BY <1>8 DEF TakeStepLine
  <2> DEFINE y == [x EXCEPT !.id = x.id, !.position = i + 1, !.text = <<own>>]
  <2>2. y = x
    <3> HIDE DEF own
    <3> QED
      BY <1>2, <1>5 DEF IsStep
  <2>3. IdOr(x.id, x) = x.id
    BY DEF IdOr
  <2>4. Flush(base, b) = [b EXCEPT !.pending = None, !.paragraph = <<>>,
                                   !.list = Append(@, y)]
    BY <1>3, <1>5, <1>6, <2>3 DEF Flush
  <2> HIDE DEF y
  <2> QED
    BY <1>4, <2>1, <2>2, <2>4 DEF AtRest
<1> HIDE DEF own, a, b
<1> DEFINE u == Append(t, top)
           v == Append(u, own)
<1>12. u \in Seq(S) /\ v \in Seq(S) /\ t \o StepLines(x) = Append(v, Blank)
    BY <1>5, <1>7, ThreeMore
<1>13. StepsAfter(base, u) = a
    BY <1>7, <1>9, StepsRead DEF list
<1> HIDE DEF u
<1>14. StepsAfter(base, v) = b
    BY <1>7, <1>10, <1>12, <1>13, StepsRead
<1> HIDE DEF v
<1>15. StepsAfter(base, Append(v, Blank)) = AtRest("method", SubSeq(base, 1, i + 1))
    BY <1>11, <1>12, <1>14, StepsRead
<1> QED
    BY <1>12, <1>15 DEF x

\* The parser outside Method, with these steps read.
OutOf(base, t, list) ==
    \E section : section # "method" /\ StepsAfter(base, t) = AtRest(section, list)

LEMMA OutStays ==
    ASSUME NEW base, NEW list, NEW S, NEW t \in Seq(S), OutOf(base, t, list), NEW l \in S,
           l.kind = "section" => l.to # "method"
    PROVE  OutOf(base, Append(t, l), list)
<1>1. PICK section :
        section # "method" /\ StepsAfter(base, t) = AtRest(section, list)
    BY DEF OutOf
<1>2. StepsAfter(base, Append(t, l)) = TakeStepLine(base, AtRest(section, list), l)
    BY <1>1, StepsRead
<1>3. CASE l.kind = "section"
  <2>1. TakeStepLine(base, AtRest(section, list), l) = AtRest(l.to, list)
    BY <1>3, NothingToFlush DEF TakeStepLine, AtRest
  <2> QED
    BY <1>2, <1>3, <2>1 DEF OutOf
<1>4. CASE l.kind # "section"
  <2>1. TakeStepLine(base, AtRest(section, list), l) = AtRest(section, list)
    BY <1>1, <1>4 DEF TakeStepLine, AtRest
  <2> QED
    BY <1>1, <1>2, <2>1 DEF OutOf
<1> QED
    BY <1>3, <1>4

LEMMA OutThree ==
    ASSUME NEW base, NEW list, NEW S, NEW t \in Seq(S), OutOf(base, t, list),
           NEW a \in S, NEW b \in S, NEW c \in S,
           \A l \in {a, b, c} : l.kind = "section" => l.to # "method"
    PROVE  OutOf(base, t \o <<a, b, c>>, list)
<1> DEFINE u == Append(t, a)
           v == Append(u, b)
<1>1. u \in Seq(S) /\ v \in Seq(S) /\ t \o <<a, b, c>> = Append(v, c)
    BY ThreeMore
<1>2. OutOf(base, u, list)
    BY OutStays
<1> HIDE DEF u
<1>3. OutOf(base, v, list)
    BY <1>1, <1>2, OutStays
<1> HIDE DEF v
<1>4. OutOf(base, Append(v, c), list)
    BY <1>1, <1>3, OutStays
<1> QED
    BY <1>1, <1>4

LEMMA TwoMore ==
    ASSUME NEW S, NEW t \in Seq(S), NEW a \in S, NEW b \in S
    PROVE  /\ t \o <<a, b>> = Append(Append(t, a), b)
           /\ Append(t, a) \in Seq(S)
           /\ t \o <<a, b>> \in Seq(S)
    OBVIOUS

LEMMA PlainSteps ==
    ASSUME NEW r, IsRecipe(r), Accepts(r), Plain(r)
    PROVE  PlacedSteps(r.steps)
<1>1. \A j, k \in DOMAIN r.steps : r.steps[j].id = r.steps[k].id => j = k
  <2> DEFINE f == [n \in DOMAIN r.steps |-> r.steps[n].id]
  <2>1. \A j, k \in DOMAIN f : f[j] = f[k] => j = k
    BY DEF Accepts, IsInjective
  <2> QED
    BY <2>1
<1> QED
    BY <1>1 DEF PlacedSteps, IsRecipe, Plain

\* No step is read before the heading Method.
LEMMA NoStepsYet ==
    ASSUME NEW r, IsRecipe(r), Accepts(r), Plain(r)
    PROVE  OutOf(r.steps, Opening \o FlattenSeq(IngredientPieces(r)), <<>>)
<1> DEFINE base == r.steps
           S    == AllLinesOf(r)
           s    == IngredientPieces(r)
           G    == {p \in Nat \X Seq(S) : OutOf(base, p[2], <<>>)}
<1>1. Section("ingredients") \in S /\ Blank \in S
    BY CommonLines
<1>2. /\ s \in Seq(Seq(S)) /\ Len(s) > 0
      /\ \A i \in 1 .. Len(s) :
           LET x == r.ingredients[i]
           IN  /\ s[i] = <<Directive("ingredient", x.id), Item(x.says, x.optional)>>
               /\ Directive("ingredient", x.id) \in S
               /\ Item(x.says, x.optional) \in S
    BY IngredientPieceLines DEF IngredientLines
<1>3. Opening \in Seq(S)
    BY BodyInOrder
<1> HIDE DEF base, S, s
<1>4. OutOf(base, Opening, <<>>)
  <2> DEFINE top == Section("ingredients")
             u   == Append(<<>>, top)
  <2>1. <<>> \in Seq(S)
    OBVIOUS
  <2>2. StepsAfter(base, <<>>) = AtRest("other", <<>>)
    BY <1>1, <2>1, StepsRead DEF StepStart, AtRest
  <2>3. OutOf(base, <<>>, <<>>)
    BY <2>2 DEF OutOf
  <2>4. top \in S /\ top.to # "method" /\ Blank.kind # "section"
    BY <1>1 DEF Section, Blank
  <2>5. Opening = Append(u, Blank)
    BY DEF Opening
  <2> HIDE DEF top
  <2>6. u \in Seq(S) /\ OutOf(base, u, <<>>)
    <3> DEFINE none == <<>>
    <3>1. none \in Seq(S) /\ OutOf(base, none, none)
      BY <2>1, <2>3
    <3> HIDE DEF none
    <3>2. Append(none, top) \in Seq(S)
      BY <2>4, <3>1
    <3>3. OutOf(base, Append(none, top), none)
      BY <2>4, <3>1, OutStays
    <3> QED
      BY <3>2, <3>3 DEF none
  <2> HIDE DEF u
  <2> QED
    BY <1>1, <2>4, <2>5, <2>6, OutStays
<1>5. <<0, Opening>> \in G
    BY <1>3, <1>4
<1>6. ASSUME NEW i \in Nat, NEW t \in Seq(S), i + 1 <= Len(s), <<i, t>> \in G
      PROVE  <<i + 1, t \o s[i + 1]>> \in G
  <2> DEFINE k   == i + 1
             q   == t \o s[k]
             top == Directive("ingredient", r.ingredients[k].id)
             own == Item(r.ingredients[k].says, r.ingredients[k].optional)
             u   == Append(t, top)
  <2>1. k \in 1 .. Len(s) /\ k \in Nat /\ OutOf(base, t, <<>>)
    BY <1>2, <1>6
  <2> HIDE DEF k
  <2>2. s[k] = <<top, own>> /\ top \in S /\ own \in S
    BY <1>2, <2>1
  <2>3. top.kind # "section" /\ own.kind # "section"
    BY DEF Directive, Item
  <2> HIDE DEF top, own
  <2>4. u \in Seq(S) /\ q = Append(u, own) /\ q \in Seq(S)
    BY <2>2, TwoMore
  <2>5. OutOf(base, u, <<>>)
    BY <2>1, <2>2, <2>3, OutStays
  <2> HIDE DEF u, q
  <2>6. OutOf(base, q, <<>>)
    BY <2>2, <2>3, <2>4, <2>5, OutStays
  <2>7. <<k, q>> \in G
    BY <2>1, <2>4, <2>6
  <2> QED
    BY <2>7 DEF k, q
<1> DEFINE c == Opening \o FlattenSeq(s)
<1>7. <<Len(s), c>> \in G
  <2> HIDE DEF G
  <2> QED
    BY <1>2, <1>3, <1>5, <1>6, AlongPieces
<1> QED
    BY <1>7 DEF base, s

\* The steps of an untouched text are those it was written of.
LEMMA StepsSame ==
    ASSUME NEW r, IsRecipe(r), Accepts(r), Plain(r)
    PROVE  ReadSteps(Write(r), r.steps) = r.steps
<1> DEFINE base == r.steps
           S    == AllLinesOf(r)
           s    == StepPieces(r)
           f    == Opening \o FlattenSeq(IngredientPieces(r))
           b    == f \o Between
           G    == {p \in Nat \X Seq(S) :
                      StepsAfter(base, p[2]) = AtRest("method", SubSeq(base, 1, p[1]))}
<1>1. /\ Section("other") \in S /\ Section("method") \in S /\ Words(r.notes) \in S
      /\ Blank \in S /\ Block(r) \in S
    BY CommonLines
<1>2. /\ s \in Seq(Seq(S)) /\ Len(s) = Len(base) /\ Len(s) > 0
      /\ \A i \in 1 .. Len(s) :
           LET x == r.steps[i]
               w == x.text[1].says
           IN  /\ s[i] = StepLines(x)
               /\ StepLines(x) = <<Directive("step", x.id), Words(w), Blank>>
               /\ Directive("step", x.id) \in S
               /\ Words(w) \in S
    BY StepPieceLines
<1>3. /\ f \in Seq(S) /\ b \in Seq(S)
      /\ Body(r) = ((b \o FlattenSeq(s)) \o <<Section("other"), Words(r.notes), Blank>>) \o <<Block(r)>>
    BY BodyInOrder
<1>4. OutOf(base, f, <<>>)
    BY NoStepsYet
<1>5. PlacedSteps(base)
    BY PlainSteps
<1>6. SubSeq(base, 1, 0) = <<>> /\ SubSeq(base, 1, Len(base)) = base /\ Len(base) \in Nat
  <2>1. base \in Seq(ToSet(base))
    BY <1>5 DEF PlacedSteps, IsList
  <2> HIDE DEF base
  <2> QED
    BY <2>1
<1> HIDE DEF S, s, f
<1>7. StepsAfter(base, b) = AtRest("method", <<>>)
  <2> DEFINE top == Section("method")
             u   == Append(f, Blank)
             v   == Append(u, top)
  <2>1. b = Append(v, Blank) /\ u \in Seq(S) /\ v \in Seq(S)
    BY <1>1, <1>3, ThreeMore DEF Between
  <2>2. top.kind = "section" /\ top.to = "method" /\ top \in S /\ Blank.kind = "blank"
    BY <1>1 DEF Section, Blank
  <2> HIDE DEF top
  <2>3. OutOf(base, u, <<>>)
    BY <1>1, <1>3, <1>4, <2>2, OutStays
  <2> HIDE DEF u
  <2>4. PICK section : StepsAfter(base, u) = AtRest(section, <<>>)
    BY <2>3 DEF OutOf
  <2>5. StepsAfter(base, v) = TakeStepLine(base, AtRest(section, <<>>), top)
    BY <2>1, <2>2, <2>4, StepsRead
  <2>6. TakeStepLine(base, AtRest(section, <<>>), top) = AtRest("method", <<>>)
    BY <2>2, NothingToFlush DEF TakeStepLine, AtRest
  <2> HIDE DEF v, b
  <2>7. StepsAfter(base, b) = TakeStepLine(base, AtRest("method", <<>>), Blank)
    BY <1>1, <2>1, <2>5, <2>6, StepsRead
  <2>8. TakeStepLine(base, AtRest("method", <<>>), Blank) = Flush(base, AtRest("method", <<>>))
    BY <2>2 DEF TakeStepLine, AtRest
  <2> QED
    BY <2>7, <2>8, NothingToFlush
<1> HIDE DEF b
<1>8. <<0, b>> \in G
    BY <1>3, <1>6, <1>7
<1>9. ASSUME NEW i \in Nat, NEW t \in Seq(S), i + 1 <= Len(s), <<i, t>> \in G
      PROVE  <<i + 1, t \o s[i + 1]>> \in G
  <2>1. StepsAfter(base, t) = AtRest("method", SubSeq(base, 1, i))
    BY <1>9
  <2>2. i + 1 \in 1 .. Len(s) /\ i + 1 <= Len(base)
    BY <1>2, <1>9
  <2>3. /\ s[i + 1] = StepLines(base[i + 1]) /\ s[i + 1] \in Seq(S)
        /\ Directive("step", base[i + 1].id) \in S
        /\ Words(base[i + 1].text[1].says) \in S
    BY <1>2, <2>2
  <2> HIDE DEF base
  <2>4. StepsAfter(base, t \o StepLines(base[i + 1])) = AtRest("method", SubSeq(base, 1, i + 1))
    BY <1>1, <1>5, <2>1, <2>2, <2>3, StepReadBack
  <2> DEFINE q == t \o s[i + 1]
             k == i + 1
  <2>5. /\ k \in Nat /\ q \in Seq(S)
        /\ StepsAfter(base, q) = AtRest("method", SubSeq(base, 1, k))
    BY <2>3, <2>4
  <2> HIDE DEF q, k
  <2>6. <<k, q>> \in G
    BY <2>5
  <2> QED
    BY <2>6 DEF k, q
<1> DEFINE c == b \o FlattenSeq(s)
<1>10. c \in Seq(S) /\ StepsAfter(base, c) = AtRest("method", base)
  <2>1. <<Len(s), c>> \in G
    <3> HIDE DEF G
    <3> QED
      BY <1>2, <1>3, <1>8, <1>9, AlongPieces
  <2> QED
    BY <1>2, <1>6, <2>1
<1> HIDE DEF c
<1> DEFINE top == Section("other")
           own == Words(r.notes)
           u   == Append(c, top)
           v   == Append(u, own)
           e   == Append(v, Blank)
           g   == Append(e, Block(r))
<1>11. /\ u \in Seq(S) /\ v \in Seq(S) /\ e \in Seq(S)
       /\ c \o <<top, own, Blank>> = e
  <2> HIDE DEF top, own
  <2>1. top \in S /\ own \in S
    BY <1>1 DEF top, own
  <2> QED
    BY <1>1, <1>10, <2>1, ThreeMore
<1>12. Body(r) = g
  <2> DEFINE json == Block(r)
  <2>1. Body(r) = (c \o <<top, own, Blank>>) \o <<json>>
    BY <1>3 DEF c
  <2> HIDE DEF json, e, top, own
  <2>2. e \o <<json>> = Append(e, json)
    BY <1>1, <1>11, AppendIsConcat DEF json
  <2> QED
    BY <1>11, <2>1, <2>2 DEF json
<1>13. /\ top.kind = "section" /\ top.to = "other" /\ top \in S
       /\ own.kind # "section" /\ own \in S
       /\ Blank.kind # "section" /\ Block(r).kind # "section"
    BY <1>1 DEF Section, Words, Blank, Block
<1> HIDE DEF top, own
<1>14. OutOf(base, u, base)
  <2>1. StepsAfter(base, u) = TakeStepLine(base, AtRest("method", base), top)
    BY <1>10, <1>13, StepsRead
  <2>2. TakeStepLine(base, AtRest("method", base), top) = AtRest("other", base)
    BY <1>13, NothingToFlush DEF TakeStepLine, AtRest
  <2> QED
    BY <2>1, <2>2 DEF OutOf
<1> HIDE DEF u
<1>15. OutOf(base, v, base)
    BY <1>11, <1>13, <1>14, OutStays
<1> HIDE DEF v
<1>16. OutOf(base, e, base)
    BY <1>1, <1>11, <1>13, <1>15, OutStays
<1> HIDE DEF e
<1>17. OutOf(base, g, base)
    BY <1>1, <1>11, <1>13, <1>16, OutStays
<1>18. PICK section : StepsAfter(base, g) = AtRest(section, base)
    BY <1>17 DEF OutOf
<1> HIDE DEF g
<1>19. Flush(base, StepsAfter(base, g)).list = base
    BY <1>18, NothingToFlush DEF AtRest
<1> QED
    BY <1>12, <1>19 DEF ReadSteps, Write

-----------------------------------------------------------------------------
(* What is read of any text is a recipe                                    *)

\* The JSON of a text is a recipe: one that is none counts as no JSON.
LEMMA BaseIsRecipe ==
    ASSUME NEW d, IsText(d), HasBase(d)
    PROVE  IsRecipe(BaseOf(d))
<1>1. BlockAt(d) \in DOMAIN d.body /\ d.body[BlockAt(d)].kind = "block"
    BY FirstBlock DEF IsText, HasBase
<1> QED
    BY <1>1 DEF IsText, IsLine, BaseOf

\* A list one longer, of things that are all alike.
LEMMA LastOfList ==
    ASSUME NEW s, IsList(s), NEW e
    PROVE  \A n \in DOMAIN Append(s, e) :
             \/ n = Len(s) + 1 /\ Append(s, e)[n] = e
             \/ n \in DOMAIN s /\ Append(s, e)[n] = s[n]
<1>1. s \in Seq(ToSet(s) \cup {e})
    BY DEF IsList
<1> QED
    BY <1>1, AppendProperties

AllIngredients(list) == IsList(list) /\ \A n \in DOMAIN list : IsIngredient(list[n])
AllSteps(list) == IsList(list) /\ \A n \in DOMAIN list : IsStep(list[n])

\* What a reader has made: each in its place and, of the steps, each a paragraph.
ReadIngredientList(list) ==
    AllIngredients(list) /\ \A n \in DOMAIN list : list[n].position = n
ReadStepList(list) ==
    AllSteps(list) /\ \A n \in DOMAIN list : list[n].position = n /\ IsParagraph(list[n])

LEMMA NothingRead == IsList(<<>>) /\ ReadIngredientList(<<>>) /\ ReadStepList(<<>>)
<1>1. <<>> \in Seq({})
    OBVIOUS
<1>2. IsList(<<>>)
    BY <1>1, ListOf
<1>3. \A n \in DOMAIN <<>> : FALSE
    OBVIOUS
<1> QED
    BY <1>2, <1>3 DEF ReadIngredientList, ReadStepList, AllIngredients, AllSteps

LEMMA ListConcat == ASSUME NEW s, IsList(s), NEW t, IsList(t) PROVE IsList(s \o t)
<1> DEFINE S == ToSet(s) \cup ToSet(t)
<1>1. s \in Seq(S) /\ t \in Seq(S)
    BY SeqMonotonic DEF IsList
<1> HIDE DEF S
<1>2. s \o t \in Seq(S)
    BY <1>1
<1> QED
    BY <1>2, ListOf

\* A line leaves a list of ingredients, whatever line it is.
LEMMA MoreIngredients ==
    ASSUME NEW base, AllIngredients(base), NEW read, IsReading(read),
           ReadIngredientList(read.list), NEW line, IsLine(line)
    PROVE  ReadIngredientList(TakeIngredientLine(base, read, line).list)
<1> DEFINE n == Len(read.list) + 1
           x == Origin(base, read.pending, n, DefaultIngredient(n))
           e == ReadItem(line, x, IdOr(read.pending, x), n)
<1>1. CASE ~ (line.kind = "item" /\ read.section = "ingredients")
    BY <1>1, LineTaken
<1>2. CASE line.kind = "item" /\ read.section = "ingredients"
  <2>1. n \in Nat /\ n # 0 /\ DOMAIN base = 1 .. Len(base)
    BY DEF AllIngredients, IsList
  <2>2. IsIngredient(x)
    <3>1. IsIngredient(DefaultIngredient(n))
      BY NothingRead DEF IsIngredient, DefaultIngredient
    <3> HIDE DEF n
    <3> QED
      BY <2>1, <3>1, Named DEF AllIngredients
  <2> HIDE DEF x, n
  <2>3. IsIngredient(e) /\ e.position = n
    <3>1. IsList(line.says)
      BY <1>2 DEF IsLine, Speaks
    <3> QED
      BY <2>2, <3>1 DEF ReadItem, IsIngredient
  <2>4. TakeIngredientLine(base, read, line) =
          [read EXCEPT
              !.pending = None,
              !.list = IF line.says = <<>> /\ line # Item(x.says, x.optional)
                       THEN @ ELSE Append(@, e)]
    BY <1>2 DEF TakeIngredientLine, x, n
  <2> HIDE DEF e
  <2>5. \/ TakeIngredientLine(base, read, line).list = read.list
        \/ TakeIngredientLine(base, read, line).list = Append(read.list, e)
    BY <2>4 DEF IsReading
  <2>6. ReadIngredientList(Append(read.list, e))
    BY <2>3, LastOfList, ListAppend DEF ReadIngredientList, AllIngredients, n
  <2> QED
    BY <2>5, <2>6
<1> QED
    BY <1>1, <1>2

LEMMA IngredientsAreSo ==
    ASSUME NEW d, IsText(d), NEW base, AllIngredients(base)
    PROVE  ReadIngredientList(ReadIngredients(d, base))
<1> DEFINE T == {n \in Nat : n <= Len(d.body) =>
                    /\ IsReading(ReadUpto(d, base, n))
                    /\ ReadIngredientList(ReadUpto(d, base, n).list)}
<1>1. IsList(d.body) /\ Len(d.body) \in Nat
    BY DEF IsText, IsList
<1>2. 0 \in T
  <2>1. ReadUpto(d, base, 0) = IngredientStart
    BY <1>1, LinesTaken
  <2>2. IsReading(IngredientStart) /\ IngredientStart.list = <<>>
    BY NothingRead DEF IsReading, IngredientStart
  <2> QED
    BY <2>1, <2>2, NothingRead
<1>3. ASSUME NEW n \in Nat, n \in T PROVE n + 1 \in T
  <2>1. SUFFICES ASSUME n + 1 <= Len(d.body)
                 PROVE  /\ IsReading(ReadUpto(d, base, n + 1))
                        /\ ReadIngredientList(ReadUpto(d, base, n + 1).list)
    OBVIOUS
  <2>2. /\ IsReading(ReadUpto(d, base, n))
        /\ ReadIngredientList(ReadUpto(d, base, n).list)
    BY <1>1, <1>3, <2>1
  <2>3. ReadUpto(d, base, n + 1)
            = TakeIngredientLine(base, ReadUpto(d, base, n), d.body[n + 1])
    BY <1>1, <2>1, LinesTaken
  <2>4. IsLine(d.body[n + 1])
    BY <1>1, <2>1 DEF IsText, IsList
  <2> QED
    BY <2>2, <2>3, <2>4, LineTaken, MoreIngredients
<1>4. ReadIngredientList(ReadUpto(d, base, Len(d.body)).list)
  <2> HIDE DEF T
  <2>1. Len(d.body) \in T
    BY <1>1, <1>2, <1>3, Induct
  <2> QED
    BY <1>1, <2>1 DEF T
<1> QED
    BY <1>1, <1>4, LinesTaken

IsStepReading(read) ==
    /\ read = [section |-> read.section, pending |-> read.pending,
               paragraph |-> read.paragraph, list |-> read.list]
    /\ IsList(read.paragraph)
    /\ ReadStepList(read.list)

\* The end of a paragraph leaves a list of steps.
LEMMA FlushedSteps ==
    ASSUME NEW base, AllSteps(base), NEW read, IsStepReading(read)
    PROVE  IsStepReading(Flush(base, read))
<1> DEFINE n == Len(read.list) + 1
           s == Origin(base, read.pending, n, DefaultStep(n))
           e == [s EXCEPT !.id = IdOr(read.pending, s), !.position = n,
                          !.text = <<Words(read.paragraph)>>]
<1>1. CASE read.paragraph = <<>>
    BY <1>1 DEF Flush
<1>2. CASE read.paragraph # <<>>
  <2>1. n \in Nat /\ n # 0 /\ DOMAIN base = 1 .. Len(base)
    BY DEF AllSteps, ReadStepList, IsList, IsStepReading
  <2>2. IsStep(s)
    <3>1. IsStep(DefaultStep(n))
      BY NothingRead DEF IsStep, DefaultStep
    <3> HIDE DEF n
    <3> QED
      BY <2>1, <3>1, Named DEF AllSteps
  <2> HIDE DEF s, n
  <2>3. IsStep(e) /\ e.position = n /\ IsParagraph(e)
    <3> DEFINE w == Words(read.paragraph)
    <3>1. w.kind # "block" /\ Speaks(w)
      BY DEF Words, Speaks, IsStepReading
    <3> HIDE DEF w
    <3>2. <<w>> \in Seq({w})
      OBVIOUS
    <3>3. IsList(<<w>>)
      BY <3>2, ListOf
    <3>4. \A k \in DOMAIN <<w>> : Speaks(<<w>>[k]) /\ <<w>>[k].kind # "block"
      BY <3>1
    <3>5. /\ s = [id |-> s.id, position |-> s.position, text |-> s.text, hidden |-> s.hidden]
          /\ e = [s EXCEPT !.id = IdOr(read.pending, s), !.position = n, !.text = <<w>>]
      BY <2>2 DEF IsStep, w
    <3> HIDE DEF e
    <3>6. e.text = <<w>> /\ e.position = n
      BY <3>5
    <3>7. e = [id |-> e.id, position |-> e.position, text |-> e.text, hidden |-> e.hidden]
      BY <3>5
    <3>8. IsParagraph(e)
      BY <1>2, <3>6 DEF IsParagraph, Words, w, IsStepReading
    <3> QED
      BY <3>3, <3>4, <3>6, <3>7, <3>8 DEF IsStep
  <2>4. Flush(base, read) =
          [read EXCEPT !.pending = None, !.paragraph = <<>>, !.list = Append(@, e)]
    BY <1>2 DEF Flush, s, n
  <2> HIDE DEF e
  <2>5. ReadStepList(Append(read.list, e))
    BY <2>3, LastOfList, ListAppend DEF ReadStepList, AllSteps, IsStepReading, n
  <2> QED
    BY <2>4, <2>5, NothingRead DEF IsStepReading
<1> QED
    BY <1>1, <1>2

\* A line leaves a list of steps.
LEMMA MoreSteps ==
    ASSUME NEW base, AllSteps(base), NEW read, IsStepReading(read), NEW line, IsLine(line)
    PROVE  IsStepReading(TakeStepLine(base, read, line))
<1> DEFINE flushed == Flush(base, read)
           inside  == read.section = "method"
<1>1. IsStepReading(flushed)
    BY FlushedSteps
<1> HIDE DEF flushed
<1>2. CASE line.kind = "section"
  <2>1. TakeStepLine(base, read, line) = [flushed EXCEPT !.section = line.to]
    BY <1>2 DEF TakeStepLine, flushed
  <2> QED
    BY <1>1, <2>1 DEF IsStepReading
<1>3. CASE line.kind = "directive" /\ inside /\ line.of = "step"
  <2>1. TakeStepLine(base, read, line) = [flushed EXCEPT !.pending = line.id]
    BY <1>3 DEF TakeStepLine, flushed
  <2> QED
    BY <1>1, <2>1 DEF IsStepReading
<1>4. CASE line.kind = "blank" /\ inside
    BY <1>1, <1>4 DEF TakeStepLine, flushed
<1>5. CASE line.kind \in {"words", "item", "block"} /\ inside
  <2>1. TakeStepLine(base, read, line) = [read EXCEPT !.paragraph = @ \o Spoken(line)]
    BY <1>5 DEF TakeStepLine
  <2>2. IsList(line.says)
    BY <1>5 DEF IsLine, Speaks
  <2>3. <<"@">> \in Seq({"@"})
    OBVIOUS
  <2>4. IsList(<<"@">>)
    BY <2>3, ListOf
  <2>5. IsList(Spoken(line))
    BY <2>2, <2>4, ListConcat DEF Spoken
  <2>6. IsList(read.paragraph \o Spoken(line))
    BY <2>5, ListConcat DEF IsStepReading
  <2> QED
    BY <2>1, <2>6 DEF IsStepReading
<1>6. CASE ~ (\/ line.kind = "section"
              \/ line.kind = "directive" /\ inside /\ line.of = "step"
              \/ line.kind = "blank" /\ inside
              \/ line.kind \in {"words", "item", "block"} /\ inside)
    BY <1>6 DEF TakeStepLine
<1> QED
    BY <1>2, <1>3, <1>4, <1>5, <1>6

LEMMA StepsAreSo ==
    ASSUME NEW d, IsText(d), NEW base, AllSteps(base)
    PROVE  ReadStepList(ReadSteps(d, base))
<1> DEFINE S     == ToSet(d.body)
           at(n) == StepsAfter(base, SubSeq(d.body, 1, n))
           T     == {n \in Nat : n <= Len(d.body) => IsStepReading(at(n))}
<1>1. d.body \in Seq(S) /\ Len(d.body) \in Nat
    BY DEF IsText, IsList
<1> HIDE DEF S
<1>2. 0 \in T
  <2>1. SubSeq(d.body, 1, 0) = <<>> /\ <<>> \in Seq({0}) /\ 0 \in {0}
    BY <1>1
  <2>2. at(0) = StepStart
    BY <2>1, StepsRead
  <2>3. IsStepReading(StepStart)
    BY NothingRead DEF IsStepReading, StepStart
  <2> QED
    BY <2>2, <2>3
<1>3. ASSUME NEW n \in Nat, n \in T PROVE n + 1 \in T
  <2>1. SUFFICES ASSUME n + 1 <= Len(d.body) PROVE IsStepReading(at(n + 1))
    OBVIOUS
  <2> DEFINE before == SubSeq(d.body, 1, n)
             line   == d.body[n + 1]
  <2>2. /\ before \in Seq(S) /\ line \in S /\ IsLine(line)
        /\ SubSeq(d.body, 1, n + 1) = Append(before, line)
    BY <1>1, <2>1 DEF IsText
  <2>3. IsStepReading(StepsAfter(base, before))
    BY <1>1, <1>3, <2>1
  <2> HIDE DEF before, line
  <2>4. StepsAfter(base, Append(before, line))
            = TakeStepLine(base, StepsAfter(base, before), line)
    BY <2>2, StepsRead
  <2> QED
    BY <2>2, <2>3, <2>4, MoreSteps
<1>4. IsStepReading(at(Len(d.body)))
  <2> HIDE DEF T
  <2>1. Len(d.body) \in T
    BY <1>1, <1>2, <1>3, Induct
  <2> QED
    BY <1>1, <2>1 DEF T
<1>5. at(Len(d.body)) = StepsAfter(base, d.body)
  <2>1. SubSeq(d.body, 1, Len(d.body)) = d.body
    BY <1>1
  <2> QED
    BY <2>1
<1> HIDE DEF at
<1>6. IsStepReading(Flush(base, StepsAfter(base, d.body)))
    BY <1>4, <1>5, FlushedSteps
<1> QED
    BY <1>6 DEF ReadSteps, IsStepReading

\* Whatever text a user saves, what is put is a recipe.
LEMMA DerivedIsRecipe ==
    ASSUME NEW d, IsText(d), HasBase(d)
    PROVE  IsRecipe(Derived(d))
<1> DEFINE base == BaseOf(d)
           xs   == ReadOrBase(ReadIngredients(d, base.ingredients), base.ingredients)
           ss   == ReadOrBase(ReadSteps(d, base.steps), base.steps)
<1>1. AllIngredients(base.ingredients) /\ AllSteps(base.steps) /\ IsList(base.notes)
    BY BaseIsRecipe DEF IsRecipe, AllIngredients, AllSteps
<1> HIDE DEF base
<1>2. AllIngredients(xs) /\ AllSteps(ss)
    BY <1>1, IngredientsAreSo, StepsAreSo DEF ReadOrBase, ReadIngredientList, ReadStepList
<1>3. /\ Derived(d).ingredients = xs /\ Derived(d).steps = ss
      /\ Derived(d).notes = base.notes
    BY DEF Derived, base
<1>4. LET r == Derived(d)
      IN  r = [id |-> r.id, title |-> r.title, category |-> r.category, pages |-> r.pages,
               ingredients |-> r.ingredients, steps |-> r.steps, notes |-> r.notes,
               made |-> r.made]
    BY DEF Derived
<1> HIDE DEF xs, ss
<1> QED
    BY <1>1, <1>2, <1>3, <1>4 DEF IsRecipe, AllIngredients, AllSteps

\* Reading what was written: the text of a plain recipe, untouched, is the recipe.
THEOREM RoundTrip ==
    ASSUME NEW r, IsRecipe(r), Accepts(r), Plain(r)
    PROVE  Derived(Write(r)) = r
<1> DEFINE d == Write(r)
<1>1. BaseOf(d) = r
    BY WrittenBase
<1>2. /\ ReadOrBase(ReadIngredients(d, r.ingredients), r.ingredients) = r.ingredients
      /\ ReadOrBase(ReadSteps(d, r.steps), r.steps) = r.steps
    BY IngredientsSame, StepsSame DEF ReadOrBase
<1>3. /\ d.meta.id = r.id /\ d.meta.title = r.title /\ d.meta.category = r.category
      /\ d.meta.pages = r.pages
    BY DEF Write, FrontMatter, Plain
<1> HIDE DEF d
<1>4. Derived(d) = [id |-> r.id, title |-> r.title, category |-> r.category,
                    pages |-> r.pages, ingredients |-> r.ingredients, steps |-> r.steps,
                    notes |-> r.notes, made |-> r.made]
    BY <1>1, <1>2, <1>3 DEF Derived
<1>5. r = [id |-> r.id, title |-> r.title, category |-> r.category,
           pages |-> r.pages, ingredients |-> r.ingredients, steps |-> r.steps,
           notes |-> r.notes, made |-> r.made]
    BY DEF IsRecipe
<1> QED
    BY <1>4, <1>5 DEF d

\* A save settles: what the store accepts of a text is a recipe its own file
\* can show, so writing it again and reading that back gives the same recipe.
\* The text has a line for an ingredient and one for a step, its JSON has notes,
\* and its front matter gives the pages as they are shown.
THEOREM SaveSettles ==
    ASSUME NEW d, IsText(d), HasBase(d), Accepts(Derived(d)),
           ReadIngredients(d, BaseOf(d).ingredients) # <<>>,
           ReadSteps(d, BaseOf(d).steps) # <<>>,
           BaseOf(d).notes # <<>>, Derived(d).pages = ShownPages(Derived(d).pages)
    PROVE  Derived(Write(Derived(d))) = Derived(d)
<1> DEFINE base == BaseOf(d)
           r    == Derived(d)
           xs   == ReadIngredients(d, base.ingredients)
           ss   == ReadSteps(d, base.steps)
<1>1. AllIngredients(base.ingredients) /\ AllSteps(base.steps)
    BY BaseIsRecipe DEF IsRecipe, AllIngredients, AllSteps
<1>2. r.ingredients = xs /\ r.steps = ss /\ r.notes = base.notes
    BY DEF Derived, ReadOrBase
<1>3. ReadIngredientList(xs) /\ ReadStepList(ss)
    BY <1>1, IngredientsAreSo, StepsAreSo
<1>4. IsRecipe(r)
    BY DerivedIsRecipe
<1> HIDE DEF r, xs, ss
<1>5. Plain(r)
    BY <1>2, <1>3 DEF Plain, ReadIngredientList, ReadStepList, r
<1> QED
    BY <1>4, <1>5, RoundTrip DEF r

=============================================================================
