----------------------------- MODULE PageNumbers -----------------------------
(***************************************************************************)
(* The printed page numbers of one import (pipeline.rs, run_page_ocr and   *)
(* validate_printed_page_numbers).  Every run of the import reads numbers  *)
(* off the pages that go to OCR, throws out the numbers that do not fit    *)
(* their predecessor, and estimates the ones missing between two numbers   *)
(* that fit together.  Estimates are stored like numbers that were read,   *)
(* so the next run takes them for granted.                                 *)
(*                                                                         *)
(* Numbers are a function of the positions, in scan order, that have one.  *)
(* Any pages may go to OCR: a refresh takes all of them, and the pages     *)
(* without a text are whichever earlier failures and the users left.       *)
(***************************************************************************)
EXTENDS Naturals

CONSTANTS
    N,        \* pages of the import
    Readable  \* the numbers that OCR can read off a page

ASSUME PageNumbersAssumption == N \in Nat \ {0} /\ Readable \subseteq Nat

VARIABLES
    number,  \* printed_page_number of the pages that have one
    phase    \* "stored", or "read": in a run, between OCR and validation

vars == <<number, phase>>

Pos == 1 .. N
\* f, and g where f is silent.
Over(f, g) == [p \in DOMAIN f \cup DOMAIN g |-> IF p \in DOMAIN f THEN f[p] ELSE g[p]]
Partial(S, T) == UNION {[D -> T] : D \in SUBSET S}

TypeOK ==
    /\ DOMAIN number \subseteq Pos
    /\ \A p \in DOMAIN number : number[p] \in Nat
    /\ phase \in {"stored", "read"}

Init == number = [p \in {} |-> 0] /\ phase = "stored"

-----------------------------------------------------------------------------
(* validate_printed_page_numbers                                           *)

\* j is the next position after i that has a number.
Follows(f, i, j) ==
    /\ i \in DOMAIN f /\ j \in DOMAIN f /\ i < j
    /\ \A k \in DOMAIN f : k <= i \/ j <= k

\* A step back, or a leap.
Implausible(left, right, distance) ==
    right < left \/ right - left > 4 * distance + 4

\* Every pair is judged by the numbers as they were read, so a rejected one
\* still speaks for or against its successor.
Rejected(f) ==
    {j \in DOMAIN f : \E i \in DOMAIN f :
        Follows(f, i, j) /\ Implausible(f[i], f[j], j - i)}

Kept(f) == [p \in DOMAIN f \ Rejected(f) |-> f[p]]

\* Between two anchors there are pages without a number, and 1 to 4 numbers to
\* a page.
Anchors(f, i, j) ==
    /\ Follows(f, i, j)
    /\ j - i > 1
    /\ f[i] <= f[j]
    /\ f[j] - f[i] \in (j - i) .. 4 * (j - i)

\* Variant: rounded up, once too often.
EstimateUp(f, i, j, p) ==
    f[i] + ((f[j] - f[i]) * (p - i) + (j - i)) \div (j - i)

\* Variant: counted from the wrong anchor.
EstimateBackwards(f, i, j, p) ==
    f[i] + ((f[j] - f[i]) * (j - p) + (j - i) \div 2) \div (j - i)

\* Rounded to the nearest.
Estimate(f, i, j, p) ==
    f[i] + ((f[j] - f[i]) * (p - i) + (j - i) \div 2) \div (j - i)

\* The anchors around a position.
Around(f, p) ==
    {a \in (DOMAIN f) \X (DOMAIN f) : a[1] < p /\ p < a[2] /\ Anchors(f, a[1], a[2])}

Estimates(f) ==
    [p \in {q \in Pos : Around(f, q) # {}} |->
        LET a == CHOOSE b \in Around(f, p) : TRUE
        IN  Estimate(f, a[1], a[2], p)]

Validate(f) == Over(Kept(f), Estimates(Kept(f)))

-----------------------------------------------------------------------------
(* A run                                                                   *)

\* A number that was read replaces the old one; none leaves it.
Scan(found) ==
    /\ phase = "stored"
    /\ number' = Over(found, number)
    /\ phase' = "read"

Settle ==
    /\ phase = "read"
    /\ number' = Validate(number)
    /\ phase' = "stored"

Next == (\E found \in Partial(Pos, Readable) : Scan(found)) \/ Settle

Spec == Init /\ [][Next]_vars

-----------------------------------------------------------------------------
(* Properties                                                              *)

\* The numbers a run estimates rise strictly from one anchor to the other: no
\* two pages get the same number and none gets an anchor's
\* (page_number_interpolation_requires_two_consistent_anchors).
EstimatesRise ==
    LET k == Kept(number)
        v == Validate(number)
    IN  \A i, j \in DOMAIN k :
          Anchors(k, i, j) =>
            \A p \in i .. j - 1 : p + 1 \in DOMAIN v /\ v[p] < v[p + 1]

\* Estimates fit what is around them: the next run, for which they are numbers
\* like any other, rejects none of them on their own account, nor anything else
\* on theirs.
EstimatesFit == Rejected(Validate(number)) = Rejected(Kept(number))

=============================================================================
