------------------------------- MODULE MCUploads -------------------------------
(***************************************************************************)
(* A TLC instance of Uploads: requests, images and viewers are             *)
(* interchangeable.  Who views a page changes nothing about uploads, so a  *)
(* behaviour has all the requests and no viewers, or two requests, one     *)
(* after the other, and the viewers of what they make.                     *)
(***************************************************************************)
EXTENDS Uploads, TLC

\* Two images, twice the same, something else before or instead of one.
ShortArchives ==
    [1 .. 2 -> Images] \cup {<<NoImage, x>> : x \in Images} \cup {<<NoImage>>}

VARIABLE focus  \* what this behaviour is about

UploadsNext ==
    \/ CreateCookbook
    \/ \E u \in Uploads : Arrivals(u) \/ UploadSteps(u)
    \/ Crash

\* One request comes after the other, and there are two.
ViewersNext ==
    \/ CreateCookbook
    \/ \E u \in Uploads :
         \/ /\ \A w \in Uploads : pc[w] \in {"idle", "done"}
            /\ Cardinality({w \in Uploads : pc[w] = "done"}) < 2
            /\ Arrivals(u)
         \/ UploadSteps(u)
    \/ \E v \in Viewers : ViewSteps(v)
    \/ Crash

FocusedInit == Init /\ focus \in {"uploads", "viewers"}

FocusedNext ==
    /\ \/ focus = "uploads" /\ UploadsNext
       \/ focus = "viewers" /\ ViewersNext
    /\ UNCHANGED focus

FocusedSpec == FocusedInit /\ [][FocusedNext]_<<vars, focus>>

Symmetry == Permutations(Uploads) \cup Permutations(Images) \cup Permutations(Viewers)

=============================================================================
