------------------------------- MODULE MCPages -------------------------------
(***************************************************************************)
(* A TLC instance of PageNumbers and SourceMap, the two stages of a run    *)
(* that work on the numbers of its pages.  The map must do with whatever   *)
(* numbers are stored, the users' ones included, so it is not fed by the   *)
(* other stage: a behaviour is focused on one of the two.                  *)
(***************************************************************************)
EXTENDS PageNumbers, SourceMap

VARIABLE focus  \* the stage of this behaviour

NothingToMap ==
    /\ printed = [p \in Places |-> Blank]
    /\ kind = [p \in Places |-> "other"]
    /\ heading = [p \in Places |-> {}]
    /\ listed = [t \in {} |-> 0]

MappedInit == Init /\ MapInit /\ focus = "map"

FocusedInit ==
    /\ Init /\ MapInit
    /\ focus \in {"numbers", "map"}
    /\ focus = "numbers" => NothingToMap

FocusedNext ==
    /\ \/ focus = "numbers" /\ Next /\ UNCHANGED mapVars
       \/ focus = "map" /\ MapNext /\ UNCHANGED vars
    /\ UNCHANGED focus

FocusedSpec == FocusedInit /\ [][FocusedNext]_<<vars, mapVars, focus>>
MappedSpec  == MappedInit /\ [][FocusedNext]_<<vars, mapVars, focus>>

=============================================================================
