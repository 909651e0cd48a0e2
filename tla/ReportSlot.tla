----------------------------- MODULE ReportSlot -----------------------------
(***************************************************************************)
(* What the Cast report service promises: one report at a time, its media  *)
(* offered to the display for as long as the report is in work, an outcome *)
(* that says "played" only of a report that was offered to the end.        *)
(* ReportEngine implements this module; see ReportEngine!SlotSpec.         *)
(***************************************************************************)
CONSTANTS
    Reports,   \* accepted submissions
    None,      \* no report
    Played,    \* the outcomes of a report the display has played
    Failed     \* the other outcomes

VARIABLES
    current,   \* the report in work, or None
    offered,   \* the reports whose media a display can fetch
    outcome,   \* the outcome of the last report
    closed     \* the media directory is being removed

vars == <<current, offered, outcome, closed>>

Init ==
    /\ current = None
    /\ offered = {}
    /\ outcome = "none"
    /\ closed = FALSE

Accept(r) ==
    /\ current = None
    /\ r \notin offered
    /\ current' = r
    /\ outcome' = "pending"
    /\ UNCHANGED <<offered, closed>>

Offer ==
    /\ current # None
    /\ offered' = offered \cup {current}
    /\ UNCHANGED <<current, outcome, closed>>

\* Only media of reports that are over is withdrawn.
Withdraw ==
    /\ \E S \in SUBSET (offered \ {current}) : offered' = offered \ S
    /\ UNCHANGED <<current, outcome, closed>>

Complete(o) ==
    /\ current # None
    /\ o \in Played => closed \/ current \in offered
    /\ outcome' = o
    /\ current' = None
    /\ UNCHANGED <<offered, closed>>

Close ==
    /\ closed' = TRUE
    /\ offered' = {}
    /\ UNCHANGED <<current, outcome>>

Next ==
    \/ \E r \in Reports : Accept(r)
    \/ Offer \/ Withdraw \/ Close
    \/ \E o \in Played \cup Failed : Complete(o)

Spec == Init /\ [][Next]_vars
=============================================================================
