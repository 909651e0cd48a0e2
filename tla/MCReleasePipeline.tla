------------------------- MODULE MCReleasePipeline -------------------------
(* A small repository for TLC: the .cfg file ReleasePipeline_publication.  *)
(* An auxiliary variable remembers what was overtaken.                     *)
EXTENDS ReleasePipeline

VARIABLE overtaken      \* the drafts that have ever been in OvertakenDrafts

\* The second commit adopts fuzzing, with the workflows that run it; the third
\* starts a new base, of which nothing may become stable yet.
MCBaseOf == <<"v1", "v1", "v2">>
MCWorkflowsOf == <<"w1", "w2", "w2">>
MCChangelogOf == <<{"v1"}, {"v1"}, {"v1", "v2"}>>
MCPolicyOf ==
    [c \in 1..3 |-> [fuzzing |-> c > 1, blockers |-> FALSE, stable_blockers |-> c = 3]]

MCInit == Init /\ overtaken = {}
MCNext == Next /\ overtaken' = overtaken \union OvertakenDrafts
MCSpec == MCInit /\ [][MCNext]_<<vars, overtaken>>

(* A draft that was overtaken before its bytes were verified never becomes  *)
(* public, in this attempt or a later one: confirm_automatic_source, and    *)
(* the number that begin_publication consumed.                              *)
OvertakenStaysDraft == overtaken \intersect Public = {}
=============================================================================
