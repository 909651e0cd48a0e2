----------------------------- MODULE Synthesizer ----------------------------
(***************************************************************************)
(* The speech endpoint: Synthesizer and SpeechServer of                    *)
(* igw_google_voice/kitten_service.py, shared by the Kitten service and,   *)
(* through RussianSynthesizer, by the Russian one.                         *)
(*                                                                         *)
(* A handler thread per connection calls generate, which talks over a pipe *)
(* to a supervised child process that holds the model.  When an answer is  *)
(* late, empty or lost, generate kills the child and hands the lock, still *)
(* taken, to a recovery thread that starts another child.  The poll        *)
(* timeouts are choices: a wait for the child may end at any time while    *)
(* nothing has arrived.  Names ending in _m are mutants.                   *)
(***************************************************************************)
EXTENDS Naturals, Sequences, FiniteSets

CONSTANTS
    Requests,      \* connections; one that is over is used again
    None,          \* the lock is free
    Recovery,      \* the recovery thread, as holder of the lock
    MaxSlots       \* BoundedSemaphore(8)

ASSUME SynthesizerAssumption ==
    /\ IsFiniteSet(Requests)
    /\ None \notin Requests
    /\ Recovery \notin Requests \cup {None}
    /\ Requests \cap {"loading", "idle", "down", "up", "empty"} = {}
    /\ Requests \cap {"none", "pending", "busy", "failed"} = {}
    /\ MaxSlots \in Nat

VARIABLES
    slots,      \* value of server.slots
    ready,      \* synth.ready
    lock,       \* holder of synth.lock
    conn,       \* synth.connection: "open" or "closed"
    toChild,    \* the pipe: requests on their way to the child
    fromChild,  \* the pipe: answers on their way back
    child,      \* synth.process: "loading", "idle", "down", or the request it works on
    rpc,        \* recovery thread
    mpc,        \* main thread
    req         \* per request: pc, and the audio or failure it is answered with

pipeVars == <<conn, toChild, fromChild>>
vars == <<slots, ready, lock, pipeVars, child, rpc, mpc, req>>

HoldingPC == {"send", "poll", "unlock", "fail", "kill", "spawn"}
RequestPC == HoldingPC \cup {"idle", "handshake", "check", "acquire"}
\* What the child writes: up after loading, the audio of a request, or nothing.
Messages == {"up", "empty"} \cup Requests
Answers == {"none", "pending", "busy", "failed"} \cup Requests

TypeOK ==
    /\ slots \in 0..MaxSlots
    /\ ready \in BOOLEAN
    /\ lock \in Requests \cup {None, Recovery}
    /\ conn \in {"open", "closed"}
    /\ toChild \in Seq(Requests)
    /\ fromChild \in Seq(Messages)
    /\ child \in {"loading", "idle", "down"} \cup Requests
    /\ rpc \in {"none", "start", "wait", "set", "sigterm", "release"}
    /\ mpc \in {"serving", "clear", "kill", "exited"}
    /\ req \in [Requests -> [pc : RequestPC, answer : Answers]]

\* The service listens once the first child has said it is up.
Init ==
    /\ slots = MaxSlots
    /\ ready = TRUE
    /\ lock = None
    /\ conn = "open"
    /\ toChild = <<>>
    /\ fromChild = <<>>
    /\ child = "idle"
    /\ rpc = "none"
    /\ mpc = "serving"
    /\ req = [q \in Requests |-> [pc |-> "idle", answer |-> "none"]]

Alive == mpc # "exited"

-----------------------------------------------------------------------------
(* Connections *)

Goto(q, from, to) ==
    /\ Alive
    /\ req[q].pc = from
    /\ req' = [req EXCEPT ![q].pc = to]

\* The handler ends: process_request_thread gives its slot back.
End(q, from, answer) ==
    /\ Alive
    /\ req[q].pc = from
    /\ req' = [req EXCEPT ![q] = [pc |-> "idle", answer |-> answer]]
    /\ slots' = slots + 1

\* No trace of an earlier connection of this name.
Fresh(q) == q \notin {child} \cup {toChild[i] : i \in DOMAIN toChild}
                             \cup {fromChild[i] : i \in DOMAIN fromChild}

\* process_request: without a free slot the connection is shut down at once.
Accept_m(q) ==
    /\ mpc = "serving"
    /\ req[q].pc = "idle"
    /\ Fresh(q)
    /\ slots' = slots - 1
    /\ req' = [req EXCEPT ![q] = [pc |-> "handshake", answer |-> "pending"]]
    /\ UNCHANGED <<ready, lock, pipeVars, child, rpc, mpc>>
Accept(q) ==
    /\ mpc = "serving"
    /\ req[q].pc = "idle"
    /\ Fresh(q)
    /\ slots > 0
    /\ slots' = slots - 1
    /\ req' = [req EXCEPT ![q] = [pc |-> "handshake", answer |-> "pending"]]
    /\ UNCHANGED <<ready, lock, pipeVars, child, rpc, mpc>>

\* The handler's thread cannot be started: process_request gives the slot back.
NotStarted(q) ==
    /\ End(q, "handshake", "none")
    /\ UNCHANGED <<ready, lock, pipeVars, child, rpc, mpc>>

Handshake(q) ==
    /\ Goto(q, "handshake", "check")
    /\ UNCHANGED <<slots, ready, lock, pipeVars, child, rpc, mpc>>

\* TLS fails, or the request is answered without the model (401, 404, 400).
TurnAway_m(q) ==
    /\ Alive
    /\ req[q].pc = "handshake"
    /\ req' = [req EXCEPT ![q] = [pc |-> "idle", answer |-> "none"]]
    /\ UNCHANGED <<slots, ready, lock, pipeVars, child, rpc, mpc>>
TurnAway(q) ==
    /\ End(q, "handshake", "none")
    /\ UNCHANGED <<ready, lock, pipeVars, child, rpc, mpc>>

-----------------------------------------------------------------------------
(* generate *)

CheckReady(q) ==
    /\ ready
    /\ Goto(q, "check", "acquire")
    /\ UNCHANGED <<slots, ready, lock, pipeVars, child, rpc, mpc>>

\* lock.acquire(blocking=False)
Acquire_m(q) ==
    /\ Goto(q, "acquire", "send")
    /\ lock' = q
    /\ UNCHANGED <<slots, ready, pipeVars, child, rpc, mpc>>
Acquire(q) ==
    /\ lock = None
    /\ Goto(q, "acquire", "send")
    /\ lock' = q
    /\ UNCHANGED <<slots, ready, pipeVars, child, rpc, mpc>>

\* BusyError: 503.
Busy(q) ==
    /\ \/ ~ready /\ End(q, "check", "busy")
       \/ lock # None /\ End(q, "acquire", "busy")
    /\ UNCHANGED <<ready, lock, pipeVars, child, rpc, mpc>>

Send(q) ==
    /\ conn = "open" /\ child # "down"
    /\ Goto(q, "send", "poll")
    /\ toChild' = Append(toChild, q)
    /\ UNCHANGED <<slots, ready, lock, conn, fromChild, child, rpc, mpc>>

\* poll, then recv_bytes: an empty answer raises.
Receive(q) ==
    /\ conn = "open" /\ fromChild # <<>>
    /\ IF Head(fromChild) = "empty"
       THEN Goto(q, "poll", "fail")
       ELSE /\ Alive
            /\ req[q].pc = "poll"
            /\ req' = [req EXCEPT ![q] = [pc |-> "unlock", answer |-> Head(fromChild)]]
    /\ fromChild' = Tail(fromChild)
    /\ UNCHANGED <<slots, ready, lock, conn, toChild, child, rpc, mpc>>

\* A closed or broken pipe, or no answer within the timeout.
Raises_m(q) ==
    /\ conn = "closed" \/ child = "down"
    /\ Goto(q, "send", "fail") \/ Goto(q, "poll", "fail")
    /\ UNCHANGED <<slots, ready, lock, pipeVars, child, rpc, mpc>>
Raises(q) ==
    /\ \/ Goto(q, "send", "fail") /\ (conn = "closed" \/ child = "down")
       \/ Goto(q, "poll", "fail") /\ (conn = "closed" \/ fromChild = <<>>)
    /\ UNCHANGED <<slots, ready, lock, pipeVars, child, rpc, mpc>>

Unlock(q) ==
    /\ End(q, "unlock", req[q].answer)
    /\ lock' = None
    /\ UNCHANGED <<ready, pipeVars, child, rpc, mpc>>

\* close(), first half: not ready any more ...
FailClear_m(q) ==
    /\ End(q, "fail", "failed")
    /\ lock' = None
    /\ UNCHANGED <<ready, pipeVars, child, rpc, mpc>>
FailClear(q) ==
    /\ Goto(q, "fail", "kill")
    /\ ready' = FALSE
    /\ UNCHANGED <<slots, lock, pipeVars, child, rpc, mpc>>

\* ... second half: the child is terminated, or killed, and the pipe is closed.
\* A pipe's contents go with it.
Kill ==
    /\ child' = "down"
    /\ conn' = "closed"
    /\ toChild' = <<>>
    /\ fromChild' = <<>>

FailKill_m(q) ==
    /\ Goto(q, "kill", "spawn")
    /\ UNCHANGED <<slots, ready, lock, pipeVars, child, rpc, mpc>>
FailKill(q) ==
    /\ Goto(q, "kill", "spawn")
    /\ Kill
    /\ UNCHANGED <<slots, ready, lock, rpc, mpc>>

\* The recovery thread takes the lock over; 502.
Spawn(q) ==
    /\ End(q, "spawn", "failed")
    /\ rpc' = "start"
    /\ lock' = Recovery
    /\ UNCHANGED <<ready, pipeVars, child, mpc>>

\* The thread cannot be started: also 502, but nobody is left to release the lock.
SpawnFails(q) ==
    /\ End(q, "spawn", "failed")
    /\ lock' = Recovery
    /\ UNCHANGED <<ready, pipeVars, child, rpc, mpc>>

-----------------------------------------------------------------------------
(* The recovery thread: _recover and _start *)

Recover(from, to) == Alive /\ rpc = from /\ rpc' = to /\ UNCHANGED <<slots, req>>

\* A new pipe and a new process.
RecoverStart_m ==
    /\ Recover("start", "wait")
    /\ ready' = TRUE
    /\ conn' = "open" /\ toChild' = <<>> /\ fromChild' = <<>>
    /\ child' = "loading"
    /\ UNCHANGED <<lock, mpc>>
RecoverStart ==
    /\ Recover("start", "wait")
    /\ ready' = FALSE
    /\ conn' = "open" /\ toChild' = <<>> /\ fromChild' = <<>>
    /\ child' = "loading"
    /\ UNCHANGED <<lock, mpc>>

\* The pipe or the process cannot be made.
RecoverRaises ==
    /\ Recover("start", "sigterm")
    /\ UNCHANGED <<ready, lock, pipeVars, child, mpc>>

RecoverUp ==
    /\ conn = "open" /\ fromChild # <<>>
    /\ Recover("wait", "set")
    /\ fromChild' = Tail(fromChild)
    /\ UNCHANGED <<ready, lock, conn, toChild, child, mpc>>

\* Nothing within 90 s, or the child has ended: close and give up.
RecoverGivesUp ==
    /\ conn = "closed" \/ fromChild = <<>>
    /\ Recover("wait", "sigterm")
    /\ ready' = FALSE
    /\ Kill
    /\ UNCHANGED <<lock, mpc>>

RecoverSet ==
    /\ Recover("set", "release")
    /\ ready' = TRUE
    /\ UNCHANGED <<lock, pipeVars, child, mpc>>

RecoverSigterm_m ==
    /\ Recover("sigterm", "release")
    /\ UNCHANGED <<ready, lock, pipeVars, child, mpc>>
RecoverSigterm ==
    /\ Recover("sigterm", "release")
    /\ mpc' = IF mpc = "serving" THEN "clear" ELSE mpc
    /\ UNCHANGED <<ready, lock, pipeVars, child>>

RecoverRelease ==
    /\ Recover("release", "none")
    /\ lock' = None
    /\ UNCHANGED <<ready, pipeVars, child, mpc>>

-----------------------------------------------------------------------------
(* Main thread: SIGTERM leaves serve_forever, then close *)

Main(from, to) == mpc = from /\ mpc' = to /\ UNCHANGED <<slots, lock, rpc, req>>

Sigterm == Main("serving", "clear") /\ UNCHANGED <<ready, pipeVars, child>>
MainClear == Main("clear", "kill") /\ ready' = FALSE /\ UNCHANGED <<pipeVars, child>>
MainKill == Main("kill", "exited") /\ Kill /\ UNCHANGED ready
Exited == mpc = "exited" /\ UNCHANGED vars

-----------------------------------------------------------------------------
(* The child: _worker *)

Child(from, to) == child = from /\ child' = to /\ UNCHANGED <<slots, ready, lock, conn, rpc, mpc, req>>

ChildUp ==
    /\ Child("loading", "idle")
    /\ fromChild' = Append(fromChild, "up")
    /\ UNCHANGED toChild

ChildTake ==
    /\ toChild # <<>>
    /\ Child("idle", Head(toChild))
    /\ toChild' = Tail(toChild)
    /\ UNCHANGED fromChild

\* Audio, or an empty answer when generation raises.
ChildAnswer(q) ==
    /\ Child(q, "idle")
    /\ \E m \in {q, "empty"} : fromChild' = Append(fromChild, m)
    /\ UNCHANGED toChild

\* The process ends on its own: out of memory, a crash of native code, no model.
ChildDies ==
    /\ child # "down"
    /\ Child(child, "down")
    /\ UNCHANGED <<toChild, fromChild>>

-----------------------------------------------------------------------------
Connection(q) == Accept(q) \/ NotStarted(q) \/ Handshake(q) \/ TurnAway(q)

Generate(q) ==
    \/ CheckReady(q) \/ Acquire(q) \/ Busy(q)
    \/ Send(q) \/ Receive(q) \/ Raises(q) \/ Unlock(q)
    \/ FailClear(q) \/ FailKill(q) \/ Spawn(q) \/ SpawnFails(q)

Recovering ==
    \/ RecoverStart \/ RecoverRaises \/ RecoverUp \/ RecoverGivesUp
    \/ RecoverSet \/ RecoverSigterm \/ RecoverRelease

Closing == MainClear \/ MainKill

Worker == ChildUp \/ ChildTake \/ ChildDies \/ \E q \in Requests : ChildAnswer(q)

Next ==
    \/ \E q \in Requests : Connection(q) \/ Generate(q)
    \/ Recovering \/ Sigterm \/ Closing \/ Exited \/ Worker

Spec == Init /\ [][Next]_vars

\* Threads run and every wait has a timeout; nothing is assumed of the child.
FairSpec ==
    /\ Spec
    /\ \A q \in Requests : WF_vars(Handshake(q) \/ TurnAway(q)) /\ WF_vars(Generate(q))
    /\ WF_vars(Recovering) /\ WF_vars(Closing)

-----------------------------------------------------------------------------
(* Properties *)

\* The audio a caller gets is that of its own text, however late or lost the
\* answers to earlier requests were.
OwnAudio ==
    \A q \in Requests : req[q].pc = "unlock" => req[q].answer = q

\* A service that says it is ready is not waiting for a child to load and has not
\* closed the pipe to its child; while it is also free, no child is at work on an
\* earlier request and nothing is in the pipe.  The child may have ended by itself
\* (ChildDies): the next request finds out.
ReadyMeansQuiet ==
    /\ ready => child # "loading"
    /\ ready /\ Alive => conn = "open"
    /\ ready /\ lock = None => child \notin Requests /\ toChild = <<>> /\ fromChild = <<>>

\* Every connection that is over has given its slot back.
SlotsConserved ==
    slots + Cardinality({q \in Requests : req[q].pc # "idle"}) = MaxSlots

\* A child is started only after the one before it is gone: two models never
\* share the memory of the container.
OneChild == [][child' = "loading" /\ child # "loading" => child = "down"]_vars

\* Every connection is answered or the process ends.
RequestsEnd == \A q \in Requests : req[q].pc # "idle" ~> req[q].pc = "idle" \/ mpc = "exited"

\* The recovery thread could not be started after ready was cleared; its lock is
\* never released.
Stranded == lock = Recovery /\ rpc = "none" /\ ~ready

\* A service that is not ready, or whose lock is taken, becomes ready and free, or
\* ends and is restarted from outside, unless the recovery thread could not even be
\* started.
RecoversOrExits == ~ready \/ lock # None ~> (ready /\ lock = None) \/ mpc = "exited" \/ Stranded

\* docs/kitten-speech.md: "If worker recovery fails, the service exits".
RecoveryFailureExits == ~ready ~> ready \/ mpc = "exited"

-----------------------------------------------------------------------------
Serving == INSTANCE SpeechServing WITH
    serving <- IF lock \in Requests THEN lock ELSE None,
    reloading <- lock = Recovery,
    reply <- [q \in Requests |-> IF req[q].pc = "idle" THEN req[q].answer ELSE "pending"]

\* The synthesizer keeps the promise of SpeechServing.
ServingSpec == Serving!Spec
=============================================================================
