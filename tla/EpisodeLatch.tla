---------------------------- MODULE EpisodeLatch ----------------------------
(***************************************************************************)
(* A notification episode of Home Assistant: the automations of            *)
(* blueprints/automation/igw/battery_reserve.yaml and                      *)
(* energy_condition.yaml, which notify once when a reading is bad and once *)
(* when it has recovered, and remember in an input_boolean, the latch,     *)
(* which of the two comes next.                                            *)
(*                                                                         *)
(* An automation in mode single: a trigger that meets a run in progress is *)
(* dropped.  The conditions and the choice of a run are evaluated in one   *)
(* go; the call of the notification service and the one that sets the      *)
(* latch are awaited.  Home Assistant may be restarted, or the automation  *)
(* reloaded, at any await; when it dies instead, it comes back with the    *)
(* latch as it was last saved.                                             *)
(***************************************************************************)

VARIABLES
    level,    \* the reading: below the reserve, between, above the recovery
              \* threshold, or not valid and fresh (condition: low and high only)
    hold,     \* has it been there for less than stable_minutes?
    open,     \* within the hours notifications are allowed in?
    run,      \* the run of the automation: what it waits for, and the message
    latch,    \* the episode helper, on or off
    saved,    \* its value in Home Assistant's storage
    last,     \* history: the last notification the service accepted
    unsure    \* history: was the latch prevented since from recording it?

vars == <<level, hold, open, run, latch, saved, last, unsure>>
history == <<last, unsure>>

Message == {"low", "recovered"}

NoRun == [at |-> "idle", message |-> "none"]

TypeOK ==
    /\ level \in {"low", "middle", "high", "unqualified"}
    /\ hold \in BOOLEAN
    /\ open \in BOOLEAN
    /\ run \in {NoRun} \cup [at : {"notify", "latch"}, message : Message]
    /\ latch \in BOOLEAN
    /\ saved \in BOOLEAN
    /\ last \in Message \cup {"none"}
    /\ unsure \in BOOLEAN

Init ==
    /\ level = "unqualified"
    /\ hold = FALSE
    /\ open = FALSE
    /\ run = NoRun
    /\ latch = FALSE
    /\ saved = FALSE
    /\ last = "none"
    /\ unsure = FALSE

-----------------------------------------------------------------------------
Qualified == level # "unqualified"


\* What a run that gets past the conditions chooses to say, if anything.
Chosen ==
    (IF level = "low" /\ ~latch THEN {"low"} ELSE {}) \cup
    (IF level = "high" /\ latch THEN {"recovered"} ELSE {})

\* A trigger fires, with notifications allowed as given.
Trigger(allowed) ==
    run' = IF run = NoRun /\ allowed /\ Qualified /\ Chosen # {}
           THEN [at |-> "notify", message |-> CHOOSE m \in Chosen : TRUE]
           ELSE run

\* The sensors change: a hold that was running is cancelled, and one begins if
\* a trigger's template has become true.
Change ==
    /\ level' \in {"low", "middle", "high", "unqualified"} \ {level}
    /\ hold' = (level' \in {"low", "high"})
    /\ UNCHANGED <<open, run, latch, saved, history>>

HoldEnds ==
    /\ hold
    /\ hold' = FALSE
    /\ Trigger(open)
    /\ UNCHANGED <<level, open, latch, saved, history>>

\* The third trigger, the start of the window.
WindowStarts ==
    /\ ~open
    /\ open' = TRUE
    /\ Trigger(TRUE)
    /\ UNCHANGED <<level, hold, latch, saved, history>>

WindowEnds ==
    /\ open
    /\ open' = FALSE
    /\ UNCHANGED <<level, hold, run, latch, saved, history>>

Accepted ==
    /\ run.at = "notify"
    /\ run' = [run EXCEPT !.at = "latch"]
    /\ last' = run.message
    /\ unsure' = FALSE
    /\ UNCHANGED <<level, hold, open, latch, saved>>

\* The service raises: the sequence stops and the latch stays.
Raised ==
    /\ run.at = "notify"
    /\ run' = NoRun
    /\ UNCHANGED <<level, hold, open, latch, saved, history>>

\* input_boolean.turn_on or turn_off.
SetLatch ==
    /\ run.at = "latch"
    /\ latch' = (run.message = "low")
    /\ run' = NoRun
    /\ UNCHANGED <<level, hold, open, saved, history>>

-----------------------------------------------------------------------------
\* Home Assistant writes the states it will restore, now and then.
Save ==
    /\ saved # latch
    /\ saved' = latch
    /\ UNCHANGED <<level, hold, open, run, latch, history>>

\* A restart or a reload: the run and the hold are lost, and a template that is
\* true from the start does not trigger.
Restart ==
    /\ saved' = latch
    /\ hold' = FALSE
    /\ run' = NoRun
    /\ unsure' = (unsure \/ run.at = "latch")
    /\ UNCHANGED <<level, open, latch, last>>

Crash ==
    /\ latch' = saved
    /\ hold' = FALSE
    /\ run' = NoRun
    /\ unsure' = (unsure \/ run.at = "latch" \/ latch # saved)
    /\ UNCHANGED <<level, open, saved, last>>

Next ==
    \/ Change \/ HoldEnds \/ WindowStarts \/ WindowEnds
    \/ Accepted \/ Raised \/ SetLatch
    \/ Save \/ Restart \/ Crash

Spec == Init /\ [][Next]_vars

-----------------------------------------------------------------------------
(* "Notify once below a reserve and once after recovery": the notifications *)
(* the service has accepted alternate and begin with a bad reading, however *)
(* often the reading crosses the thresholds, calls fail and windows open.   *)
(* Only a notification that Home Assistant was stopped before recording     *)
(* (battery_reserve.yaml turns the latch after the call returns), or whose  *)
(* record it lost, is repeated.                                             *)
NotifiedOnce ==
    [][Accepted => \/ unsure
                   \/ run.message # last /\ (last = "none" => run.message = "low")]_vars

=============================================================================
