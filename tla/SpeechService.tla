---------------------------- MODULE SpeechService ---------------------------
(***************************************************************************)
(* The Wyoming adapter: SpeechService and HTTPSProvider of                 *)
(* igw_google_voice/wyoming_speech.py, on top of a speech endpoint that    *)
(* keeps the promise of SpeechServing.                                     *)
(*                                                                         *)
(* One event loop: a step is what runs between two awaits.  A call is a    *)
(* complete request or a stream; it has a task that works (serial_synthesis*)
(* or speak) and a task that reads the socket (read(1) or receive).  When  *)
(* either has ended, or the deadline of the call has passed, the handler   *)
(* cancels what is left and waits for it.  A cancelled task takes no step  *)
(* but those of its finally blocks.  Timeouts are choices: they may strike *)
(* whenever they are armed.  An attempt is one HTTPS call by a child       *)
(* process; killing the child leaves the attempt with the endpoint.        *)
(* Names ending in _m are mutants.                                         *)
(***************************************************************************)
EXTENDS Naturals, FiniteSets, SequencesExt

CONSTANTS
    Clients,         \* connections; one that is over is used again
    Streaming,       \* those of them that may ask for a stream
    Attempts,        \* HTTPS calls the endpoint can have at a time
    None,            \* no lock holder, no attempt
    MaxConnections,  \* 8
    MaxAdmitted,     \* 2
    MaxSentences     \* bound on the sentences of a stream, for TLC

ASSUME ServiceAssumption ==
    /\ IsFiniteSet(Clients)
    /\ None \notin Clients \cup Attempts
    /\ Streaming \subseteq Clients
    /\ {MaxConnections, MaxAdmitted, MaxSentences} \subseteq Nat \ {0}

VARIABLES
    connections,  \* service.connections
    admitted,     \* service.admitted
    serial,       \* holder of service.serial
    queue,        \* its waiters, in order
    client,       \* per client: the handler and its two tasks
    serving, reloading, reply  \* the endpoint: see SpeechServing

counters == <<connections, admitted>>
lockVars == <<serial, queue>>
upstream == <<serving, reloading, reply>>
vars == <<counters, lockVars, client, upstream>>

Endpoint == INSTANCE SpeechServing WITH Requests <- Attempts

Stop == 0   \* the None that receive puts after the last sentence
Text == Stop..MaxSentences

Handler == {"closed", "reading", "waiting", "unwinding", "replying"}
Kind == {"none", "request", "stream"}
Receiving == {"none", "events", "compat", "watch", "ended", "cancelled"}
Working == {"none", "prepare", "get", "lock", "infer", "reap", "write", "finish",
            "done", "failed", "cancelled"}

\* h: handle_client; kind: the call it is in; rx and tx: its two tasks; attempt:
\* the child process of tx; sentences: the queue between rx and tx; said, spoken:
\* the number of sentences received, and those whose audio was written; ok: does
\* the call end without an exception?
Client == [h : Handler, kind : Kind, rx : Receiving, tx : Working,
           attempt : Attempts \cup {None}, sentences : Seq(Text), now : Text, said : Text,
           spoken : Seq(Text), ok : BOOLEAN]
NoCall == [h |-> "closed", kind |-> "none", rx |-> "none", tx |-> "none", attempt |-> None,
           sentences |-> <<>>, now |-> Stop, said |-> 0, spoken |-> <<>>, ok |-> FALSE]

TypeOK ==
    /\ connections \in 0..MaxConnections
    /\ admitted \in 0..MaxAdmitted
    /\ serial \in Clients \cup {None}
    /\ queue \in Seq(Clients)
    /\ client \in [Clients -> Client]
    /\ serving \in Attempts \cup {None}
    /\ reloading \in BOOLEAN
    /\ reply \in [Attempts -> {"none", "pending", "busy", "failed"} \cup Attempts]

Init ==
    /\ connections = 0
    /\ admitted = 0
    /\ serial = None
    /\ queue = <<>>
    /\ client = [c \in Clients |-> NoCall]
    /\ Endpoint!Init

-----------------------------------------------------------------------------
(* handle_client *)

Become(c, new) == client' = [client EXCEPT ![c] = new]

\* start_server accepts.  One connection more is counted, told that the service is
\* busy and counted down again, with no await in between.
Connect(c) ==
    /\ client[c].h = "closed"
    /\ connections < MaxConnections
    /\ connections' = connections + 1
    /\ Become(c, [NoCall EXCEPT !.h = "reading"])
    /\ UNCHANGED <<admitted, lockVars, upstream>>

\* The handler leaves its loop, counts its connection down and closes the writer.
Leave(c) ==
    /\ connections' = connections - 1
    /\ Become(c, NoCall)

\* End of input, 10 s without an event, or an invalid event; describe changes nothing.
ReadEnds(c) ==
    /\ client[c].h = "reading"
    /\ Leave(c)
    /\ UNCHANGED <<admitted, lockVars, upstream>>

Kinds(c) == {"request"} \cup (IF c \in Streaming THEN {"stream"} ELSE {})

Start(kind) == [NoCall EXCEPT !.h = "waiting", !.kind = kind, !.tx = "prepare",
                              !.rx = IF kind = "stream" THEN "events" ELSE "watch",
                              !.said = IF kind = "stream" THEN 0 ELSE 1,
                              !.now = IF kind = "stream" THEN Stop ELSE 1]

\* request or stream: at most MaxAdmitted at a time.
Admit(c, kind) ==
    /\ client[c].h = "reading"
    /\ admitted < MaxAdmitted
    /\ admitted' = admitted + 1
    /\ Become(c, Start(kind))
    /\ UNCHANGED <<connections, lockVars, upstream>>

Reject(c) ==
    /\ client[c].h = "reading"
    /\ admitted >= MaxAdmitted
    /\ Leave(c)
    /\ UNCHANGED <<admitted, lockVars, upstream>>

\* asyncio.wait returns: a task has ended.  An ended input takes precedence.
CallEnds(c) ==
    /\ client[c].h = "waiting"
    /\ client[c].rx = "ended" \/ client[c].tx \in {"done", "failed"}
    /\ Become(c, [client[c] EXCEPT !.h = "unwinding",
                     !.ok = client[c].rx # "ended" /\ client[c].tx = "done"])
    /\ UNCHANGED <<counters, lockVars, upstream>>

\* The timeout of the request (30 s) or of the stream (120 s).
CallDeadline(c) ==
    /\ client[c].h = "waiting"
    /\ Become(c, [client[c] EXCEPT !.h = "unwinding"])
    /\ UNCHANGED <<counters, lockVars, upstream>>

\* gather returns: both tasks are over.
Over(c) ==
    /\ client[c].rx \in {"ended", "cancelled"}
    /\ client[c].tx \in {"done", "failed", "cancelled"}
CallReturns_m(c) ==
    /\ client[c].h = "unwinding"
    /\ Over(c)
    /\ IF client[c].ok
       THEN /\ Become(c, [NoCall EXCEPT
                 !.h = IF client[c].kind = "stream" THEN "reading" ELSE "replying"])
            /\ UNCHANGED connections
       ELSE Leave(c)
    /\ UNCHANGED <<admitted, lockVars, upstream>>
CallReturns(c) ==
    /\ client[c].h = "unwinding"
    /\ Over(c)
    /\ admitted' = admitted - 1
    /\ IF client[c].ok
       THEN /\ Become(c, [NoCall EXCEPT
                 !.h = IF client[c].kind = "stream" THEN "reading" ELSE "replying"])
            /\ UNCHANGED connections
       ELSE Leave(c)
    /\ UNCHANGED <<lockVars, upstream>>

\* The audio of a request is written, within 10 s or not.
Replied(c) ==
    /\ client[c].h = "replying"
    /\ Become(c, [NoCall EXCEPT !.h = "reading"])
    /\ UNCHANGED <<counters, lockVars, upstream>>
ReplyFails(c) ==
    /\ client[c].h = "replying"
    /\ Leave(c)
    /\ UNCHANGED <<admitted, lockVars, upstream>>

-----------------------------------------------------------------------------
(* receive, and the read(1) of a request *)

Rx(c, from, new) ==
    /\ client[c].h = "waiting"
    /\ client[c].rx \in from
    /\ Become(c, new)
    /\ UNCHANGED <<counters, lockVars, upstream>>

\* A chunk completes a sentence.
RxSentence(c) ==
    /\ client[c].said < MaxSentences
    /\ Rx(c, {"events"}, [client[c] EXCEPT !.said = @ + 1,
                              !.sentences = Append(@, client[c].said + 1)])

\* The compatibility event repeats the text; chunks after it are invalid.
RxCompat(c) == Rx(c, {"events"}, [client[c] EXCEPT !.rx = "compat"])

\* synthesize-stop: what is left of the text is a last sentence; an empty text is
\* invalid.  From now on the socket is only watched.
RxStop_m(c) ==
    \/ /\ client[c].said > 0
       /\ Rx(c, {"events", "compat"}, [client[c] EXCEPT !.rx = "watch",
             !.sentences = Append(@, Stop)])
    \/ /\ client[c].said < MaxSentences
       /\ Rx(c, {"events", "compat"}, [client[c] EXCEPT !.rx = "watch", !.said = @ + 1,
             !.sentences = Append(@, Stop)])
RxStop(c) ==
    \/ /\ client[c].said > 0
       /\ Rx(c, {"events", "compat"}, [client[c] EXCEPT !.rx = "watch",
             !.sentences = Append(@, Stop)])
    \/ /\ client[c].said < MaxSentences
       /\ Rx(c, {"events", "compat"}, [client[c] EXCEPT !.rx = "watch", !.said = @ + 1,
             !.sentences = @ \o <<client[c].said + 1, Stop>>])

\* The peer is gone, sent an invalid event, or sent more than the call.
RxEnds(c) == Rx(c, {"events", "compat", "watch"}, [client[c] EXCEPT !.rx = "ended"])

-----------------------------------------------------------------------------
(* serial_synthesis and speak *)

Tx(c, from) == client[c].h = "waiting" /\ client[c].tx = from /\ UNCHANGED counters
To(c, tx) == [client[c] EXCEPT !.tx = tx]

\* Where work goes on once a request has its options, a stream its next sentence.
Enqueue(c, new) ==
    /\ queue' = Append(queue, c)
    /\ Become(c, [new EXCEPT !.tx = "lock"])
    /\ UNCHANGED <<serial, upstream>>

\* prepare: the settings are read once per call.
TxPrepared(c) ==
    /\ Tx(c, "prepare")
    /\ IF client[c].kind = "stream"
       THEN Become(c, To(c, "get")) /\ UNCHANGED <<lockVars, upstream>>
       ELSE Enqueue(c, client[c])

TxGet(c) ==
    /\ Tx(c, "get")
    /\ client[c].sentences # <<>>
    /\ LET next == Head(client[c].sentences)
           new == [client[c] EXCEPT !.now = next, !.sentences = Tail(@)]
       IN  IF next = Stop
           THEN Become(c, [new EXCEPT !.tx = "finish"]) /\ UNCHANGED <<lockVars, upstream>>
           ELSE Enqueue(c, new)

\* asyncio.Lock is fair: a newcomer does not overtake a waiter.
TxAcquire(c) ==
    /\ Tx(c, "lock")
    /\ serial = None
    /\ queue # <<>> /\ Head(queue) = c
    /\ serial' = c
    /\ queue' = Tail(queue)
    /\ Become(c, To(c, "infer"))
    /\ UNCHANGED upstream

\* _attempt starts a child, which calls the endpoint.
TxAttempt(c) ==
    /\ Tx(c, "infer")
    /\ client[c].attempt = None
    /\ \E a \in Attempts :
        /\ \A d \in Clients : client[d].attempt # a
        /\ Endpoint!Ask(a)
        /\ Become(c, [client[c] EXCEPT !.attempt = a])
    /\ UNCHANGED lockVars

Answered(c, replies) ==
    /\ Tx(c, "infer")
    /\ client[c].attempt # None
    /\ reply[client[c].attempt] \in replies

\* Exit status 75: sleep and try again, with the lock held.
TxBusy_m(c) ==
    /\ Answered(c, {"busy"})
    /\ serial' = None
    /\ Become(c, [client[c] EXCEPT !.attempt = None])
    /\ UNCHANGED <<queue, upstream>>
TxBusy(c) ==
    /\ Answered(c, {"busy"})
    /\ Become(c, [client[c] EXCEPT !.attempt = None])
    /\ UNCHANGED <<lockVars, upstream>>

\* The audio; the lock is released before a stream writes it.
TxAudio(c) ==
    /\ Answered(c, Attempts)
    /\ serial' = None
    /\ Become(c, [client[c] EXCEPT !.attempt = None, !.spoken = Append(@, client[c].now),
                     !.tx = IF client[c].kind = "stream" THEN "write" ELSE "done"])
    /\ UNCHANGED <<queue, upstream>>

\* The child could not be started, has failed, or has returned no valid audio.
TxFails(c) ==
    /\ Tx(c, "infer")
    /\ serial' = None
    /\ Become(c, [client[c] EXCEPT !.tx = "failed", !.attempt = None])
    /\ UNCHANGED <<queue, upstream>>

\* Settings not available, an invalid or oversized audio, or a broken connection.
TxRaises(c) ==
    /\ \E from \in {"prepare", "write", "finish"} : Tx(c, from)
    /\ Become(c, To(c, "failed"))
    /\ UNCHANGED <<lockVars, upstream>>

TxWritten(c) ==
    /\ Tx(c, "write")
    /\ Become(c, To(c, "get"))
    /\ UNCHANGED <<lockVars, upstream>>

\* AudioStop and SynthesizeStopped are written.
TxFinish(c) ==
    /\ Tx(c, "finish")
    /\ Become(c, To(c, "done"))
    /\ UNCHANGED <<lockVars, upstream>>

\* A waiter leaves the queue, wherever it is in it.
LeaveQueue(c) == \E i \in DOMAIN queue : queue[i] = c /\ queue' = RemoveAt(queue, i)

\* A timeout or a cancellation strikes where the task awaits; it ends as `how`.
\* A waiter leaves the queue; a running child is killed and waited for, with the
\* lock held; between two attempts there is only the lock to release.
Interrupt_m(c, how) ==
    /\ \/ /\ client[c].tx = "lock"
          /\ LeaveQueue(c)
          /\ Become(c, To(c, how))
          /\ UNCHANGED serial
       \/ /\ client[c].tx = "infer" /\ client[c].attempt # None
          /\ reply[client[c].attempt] # "pending"
          /\ Become(c, [client[c] EXCEPT !.tx = "reap", !.attempt = None])
          /\ UNCHANGED lockVars
       \/ /\ client[c].tx = "infer" /\ client[c].attempt = None
          /\ serial' = None
          /\ Become(c, To(c, how))
          /\ UNCHANGED queue
    /\ UNCHANGED <<counters, upstream>>
Interrupt(c, how) ==
    /\ \/ /\ client[c].tx = "lock"
          /\ LeaveQueue(c)
          /\ Become(c, To(c, how))
          /\ UNCHANGED serial
       \/ /\ client[c].tx = "infer" /\ client[c].attempt # None
          /\ Become(c, [client[c] EXCEPT !.tx = "reap", !.attempt = None])
          /\ UNCHANGED lockVars
       \/ /\ client[c].tx = "infer" /\ client[c].attempt = None
          /\ serial' = None
          /\ Become(c, To(c, how))
          /\ UNCHANGED queue
    /\ UNCHANGED <<counters, upstream>>

\* The timeout of synthesize, and of a stream's sentence, which counts the queue.
TxTimeout(c) ==
    /\ client[c].h = "waiting"
    /\ client[c].tx = "infer" \/ client[c].kind = "stream"
    /\ Interrupt(c, "failed")

\* The killed child is gone, or a second timeout ends the wait for it.
TxReaped(c) ==
    /\ client[c].tx = "reap"
    /\ serial' = None
    /\ Become(c, To(c, IF client[c].h = "waiting" THEN "failed" ELSE "cancelled"))
    /\ UNCHANGED <<counters, queue, upstream>>

-----------------------------------------------------------------------------
(* Cancellation *)

CancelRx(c) ==
    /\ client[c].h = "unwinding"
    /\ client[c].rx \in {"events", "compat", "watch"}
    /\ Become(c, [client[c] EXCEPT !.rx = "cancelled"])
    /\ UNCHANGED <<counters, lockVars, upstream>>

CancelTx(c) ==
    /\ client[c].h = "unwinding"
    /\ \/ Interrupt(c, "cancelled")
       \/ /\ client[c].tx \in {"prepare", "get", "write", "finish"}
          /\ Become(c, To(c, "cancelled"))
          /\ UNCHANGED <<counters, lockVars, upstream>>

-----------------------------------------------------------------------------
(* The endpoint, and its other callers *)

EndpointStep ==
    /\ \/ \E a \in Attempts :
            \/ Endpoint!Drop(a) \/ Endpoint!Refuse(a) \/ Endpoint!Serve(a)
            \/ Endpoint!Deliver(a) \/ Endpoint!Fail(a)
            \/ (\A c \in Clients : client[c].attempt # a) /\ Endpoint!Ask(a)
       \/ Endpoint!Reloaded
    /\ UNCHANGED <<counters, lockVars, client>>

-----------------------------------------------------------------------------
Handle(c) ==
    \/ ReadEnds(c) \/ CallEnds(c) \/ CallDeadline(c) \/ CallReturns(c)
    \/ Replied(c) \/ ReplyFails(c)

Receive(c) == RxSentence(c) \/ RxCompat(c) \/ RxStop(c) \/ RxEnds(c)

Work(c) ==
    \/ TxPrepared(c) \/ TxGet(c) \/ TxAcquire(c) \/ TxAttempt(c) \/ TxBusy(c) \/ TxAudio(c)
    \/ TxFails(c) \/ TxRaises(c) \/ TxWritten(c) \/ TxFinish(c) \/ TxTimeout(c)

Unwind(c) == CancelRx(c) \/ CancelTx(c) \/ TxReaped(c)

Next ==
    \/ \E c \in Clients :
        \/ Connect(c) \/ (\E kind \in Kinds(c) : Admit(c, kind)) \/ Reject(c)
        \/ Handle(c) \/ Receive(c) \/ Work(c) \/ Unwind(c)
    \/ EndpointStep

Spec == Init /\ [][Next]_vars

\* The event loop runs what is ready, a deadline passes in the end, and a killed
\* child ends.  Nothing is assumed of the clients or of the endpoint.
FairSpec ==
    /\ Spec
    /\ \A c \in Clients : WF_vars(Handle(c)) /\ WF_vars(Unwind(c))

-----------------------------------------------------------------------------
(* Properties *)

InCall(c) == client[c].h \in {"waiting", "unwinding"}

\* However a call ends, the counters that admit clients and calls count exactly
\* those that are there.
CountersExact ==
    /\ admitted = Cardinality({c \in Clients : InCall(c)})
    /\ connections = Cardinality({c \in Clients : client[c].h # "closed"})

\* The comment in request: at most one active synthesis and one waiting caller.
\* A child process runs only under the lock; a cancelled call keeps the lock, and
\* its admission, until it has killed its child, and a waiter leaves no trace.
OneActiveOneWaiting ==
    /\ \A c \in Clients : serial = c <=> client[c].tx \in {"infer", "reap"}
    /\ \A c \in Clients : (\E i \in DOMAIN queue : queue[i] = c) <=> client[c].tx = "lock"
    /\ Len(queue) + (IF serial = None THEN 0 ELSE 1) <= MaxAdmitted

\* The sentences of a stream are spoken once each, in order, and the stream is
\* declared complete only when the whole text has been spoken.
SpokenInOrder ==
    \A c \in Clients :
        /\ \A i \in DOMAIN client[c].spoken : client[c].spoken[i] = i
        /\ Len(client[c].spoken) <= client[c].said
        /\ client[c].ok => Len(client[c].spoken) = client[c].said

\* A call ends, and frees its admission, whatever the client and the endpoint do.
CallsEnd == \A c \in Clients : InCall(c) ~> ~InCall(c)
=============================================================================
