--------------------------- MODULE VersionLedger ---------------------------
(***************************************************************************)
(* What the release version ledger promises, independently of GitHub, of   *)
(* the requests that change it and of the runs that fail half way: a run   *)
(* reserves at most one plan, for ever; every plan has a package number    *)
(* above every earlier one and a tag no other plan has; and the numbers    *)
(* that may still be published only shrink, from below.  The release       *)
(* pipeline implements it (ReleasePipeline, LedgerSpec).                   *)
(***************************************************************************)
EXTENDS Naturals

CONSTANTS
    Run,        \* the workflow runs of the repository
    Source,     \* the commits a plan can be made for
    Tag         \* the tags a plan can name

VARIABLES
    plans,      \* the plan of each run that has one
    counter,    \* the last package number given out
    floor       \* the last package number whose publication began

vars == <<plans, counter, floor>>

Plan == [number : Nat \ {0}, tag : Tag, source : Source]

Reserved == DOMAIN plans

TypeOK ==
    /\ Reserved \subseteq Run
    /\ plans \in [Reserved -> Plan]
    /\ counter \in Nat
    /\ floor \in Nat

Init ==
    /\ plans = [r \in {} |-> {}]
    /\ counter = 0
    /\ floor = 0

(* A run without a plan gets one: a new number and an unused tag. *)
Reserve(r) ==
    /\ r \notin Reserved
    /\ plans' \in [Reserved \union {r} -> Plan]
    /\ \A other \in Reserved : /\ plans'[other] = plans[other]
                               /\ plans'[other].tag # plans'[r].tag
    /\ plans'[r].number > counter
    /\ counter' = plans'[r].number
    /\ UNCHANGED floor

(* Publication of a reserved number begins: no smaller one may begin again. *)
Consume(r) ==
    /\ r \in Reserved
    /\ plans[r].number >= floor
    /\ floor' = plans[r].number
    /\ UNCHANGED <<plans, counter>>

Next == \E r \in Run : Reserve(r) \/ Consume(r)

Spec == Init /\ [][Next]_vars

-----------------------------------------------------------------------------
(* No package number is given out twice, no tag names two packages, and     *)
(* nothing above the counter has been given out or published.               *)
UniqueReservations ==
    /\ \A r \in Reserved : plans[r].number <= counter
    /\ \A r, o \in Reserved :
          r # o => /\ plans[r].number # plans[o].number
                   /\ plans[r].tag # plans[o].tag
    /\ floor <= counter

(* A plan is never changed and the two numbers never go back. *)
Durable ==
    [][/\ Reserved \subseteq DOMAIN plans'
       /\ \A r \in Reserved : plans'[r] = plans[r]
       /\ counter' >= counter
       /\ floor' >= floor]_vars

=============================================================================
