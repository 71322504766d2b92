------------------------------ MODULE SourceMap ------------------------------
(***************************************************************************)
(* build_source_map (pipeline.rs): an import's pages become sections, from *)
(* the entries of its contents pages or, when there are too few, from its  *)
(* chapter openers; the blocks of the pages are put into the sections.     *)
(*                                                                         *)
(* A section is located by numbers: the printed number of a page, or its   *)
(* place in the scan where none was found.  Contents may list what was not *)
(* scanned.  Titles are numbered in the order the contents list them, each *)
(* listed once.                                                            *)
(***************************************************************************)
EXTENDS Naturals, FiniteSets

CONSTANTS
    PageCount, \* pages, in scan order
    Titles,    \* headings the contents may list: numbers, in listing order
    Numbers,   \* bound: printed numbers of pages, and listed ones
    Kinds,     \* bound: the kinds of page an instance explores
    Blank      \* no printed number

ASSUME SourceMapAssumption ==
    /\ PageCount \in Nat \ {0}
    /\ Titles \subseteq Nat
    /\ Numbers \subseteq Nat \ {0}
    /\ Kinds \subseteq {"contents", "opener", "other"}
    /\ Blank \notin Nat

VARIABLES
    printed,  \* printed_page_number of each page
    kind,     \* page_kind of each page
    heading,  \* the titles that the head of each page mentions
    listed,   \* the contents: the page number listed for some titles
    sections, \* the sections, empty until the map is built
    built     \* whether it is

mapVars == <<printed, kind, heading, listed, sections, built>>

Places == 1 .. PageCount

\* A title heads one page at most.
MapInit ==
    /\ printed \in [Places -> Numbers \cup {Blank}]
    /\ kind \in [Places -> Kinds]
    /\ \E place \in [Titles -> Places \cup {0}] :
          heading = [p \in Places |-> {t \in Titles : place[t] = p}]
    /\ listed \in UNION {[D -> Numbers] : D \in SUBSET Titles}
    /\ sections = {}
    /\ built = FALSE

-----------------------------------------------------------------------------
Smallest(S) == CHOOSE x \in S : \A y \in S : x <= y
Largest(S)  == CHOOSE x \in S : \A y \in S : y <= x

\* page_number
PageNumber(p) == IF printed[p] = Blank THEN p ELSE printed[p]
First == Smallest({PageNumber(p) : p \in Places})
Last  == Largest({PageNumber(p) : p \in Places})

\* Of the titles listed for one page the first counts.
Entries == {t \in DOMAIN listed : \A u \in DOMAIN listed : listed[u] = listed[t] => t <= u}

\* find_section_start: the pages that carry the listed number or the title.
Found(t) == {p \in Places : \/ printed[p] = listed[t]
                            \/ kind[p] # "contents" /\ t \in heading[p]}

\* Nothing found: the listed number stands.
StartOf(t) == IF Found(t) = {} THEN listed[t] ELSE PageNumber(Smallest(Found(t)))

Starts ==
    IF Cardinality(Entries) >= 3
    THEN {StartOf(t) : t \in Entries}
    ELSE {PageNumber(p) : p \in {q \in Places : kind[q] = "opener"}}

SmallerOf(a, b) == IF a <= b THEN a ELSE b
LargerOf(a, b)  == IF a <= b THEN b ELSE a

Section(start, from, to) == [start |-> start, from |-> from, to |-> to]

\* Variant: the next section's own first page is taken along.
EndShared(S, s, last) ==
    LET after == {t \in S : t > s}
    IN  IF after = {} THEN last ELSE Smallest(after)

\* The page before the next section, or the last page.
EndOf(S, s, last) ==
    LET after == {t \in S : t > s}
    IN  IF after = {} THEN last ELSE Smallest(after) - 1

\* Variant: front matter only where the scan starts with page 1.
FrontMatterFromOne(S, first) ==
    IF first < Smallest(S) /\ first = 1
    THEN {Section(first, first, Smallest(S) - 1)}
    ELSE {}

\* What precedes the first section.
FrontMatter(S, first) ==
    IF first < Smallest(S)
    THEN {Section(first, first, Smallest(S) - 1)}
    ELSE {}

SectionsOf(S, first, last) ==
    IF S = {}
    THEN {Section(first, first, last)}
    ELSE FrontMatter(S, first) \cup
         {Section(s, SmallerOf(s, last), SmallerOf(LargerOf(EndOf(S, s, last), s), last))
             : s \in S}

Build ==
    /\ ~built
    /\ sections' = SectionsOf(Starts, First, Last)
    /\ built' = TRUE
    /\ UNCHANGED <<printed, kind, heading, listed>>

MapNext == Build

MapSpec == MapInit /\ [][MapNext]_mapVars

-----------------------------------------------------------------------------
(* Properties                                                              *)

\* Every page that was scanned lies in a section, so that every block gets one,
\* however the numbers jump and whatever the contents list.
EveryPageHasASection ==
    built => \A p \in Places : \E s \in sections : PageNumber(p) \in s.from .. s.to

\* Sections in order do not overlap.
Apart == \A s, u \in sections : s.start < u.start => s.to < u.from

\* They do not as long as the contents name no page after the last one scanned.
ScannedSectionsApart == built /\ (\A s \in Starts : s <= Last) => Apart

\* They never do (source_map_uses_contents_order_and_never_overlaps_sections).
SectionsNeverOverlap == built => Apart

=============================================================================
