--------------------------- MODULE SpeechServing ----------------------------
(***************************************************************************)
(* What a speech service with one model promises its callers: one request  *)
(* is with the model at a time; a request gets its own audio, or is told   *)
(* that the model is busy or has failed; after a failure nobody is served  *)
(* until the model has been replaced.  Synthesizer implements this module. *)
(***************************************************************************)
CONSTANTS Requests, None

VARIABLES
    serving,    \* the request whose text is with the model, or None
    reloading,  \* the model has failed and is being replaced
    reply       \* per request: "none", "pending", "busy", "failed" or its audio

vars == <<serving, reloading, reply>>

Init ==
    /\ serving = None
    /\ reloading = FALSE
    /\ reply = [q \in Requests |-> "none"]

Ask(q) ==
    /\ reply[q] # "pending"
    /\ reply' = [reply EXCEPT ![q] = "pending"]
    /\ UNCHANGED <<serving, reloading>>

\* The connection ends without an answer.
Drop(q) ==
    /\ reply[q] = "pending" /\ serving # q
    /\ reply' = [reply EXCEPT ![q] = "none"]
    /\ UNCHANGED <<serving, reloading>>

Refuse(q) ==
    /\ reply[q] = "pending" /\ serving # q
    /\ reply' = [reply EXCEPT ![q] = "busy"]
    /\ UNCHANGED <<serving, reloading>>

Serve(q) ==
    /\ reply[q] = "pending"
    /\ serving = None /\ ~reloading
    /\ serving' = q
    /\ UNCHANGED <<reloading, reply>>

Deliver(q) ==
    /\ serving = q
    /\ serving' = None
    /\ reply' = [reply EXCEPT ![q] = q]
    /\ UNCHANGED reloading

Fail(q) ==
    /\ serving = q
    /\ serving' = None
    /\ reloading' = TRUE
    /\ reply' = [reply EXCEPT ![q] = "failed"]

Reloaded ==
    /\ reloading
    /\ reloading' = FALSE
    /\ UNCHANGED <<serving, reply>>

Next ==
    \/ \E q \in Requests : Ask(q) \/ Drop(q) \/ Refuse(q) \/ Serve(q) \/ Deliver(q) \/ Fail(q)
    \/ Reloaded

Spec == Init /\ [][Next]_vars
=============================================================================
