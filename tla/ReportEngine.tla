---------------------------- MODULE ReportEngine ----------------------------
(***************************************************************************)
(* The standalone Cast report service: igw_google_voice/cast_service.py.   *)
(*                                                                         *)
(* Threads: the main thread accepts connections, prunes expired media and, *)
(* on SIGTERM, closes the engine; request handlers run submit and          *)
(* media_file; a worker fetches, renders, publishes and plays one report   *)
(* (_run).  A step ends where the code takes or releases engine.lock,      *)
(* blocks, or touches state another thread reads without the lock.  Only   *)
(* submit keeps the lock across such a point, so every other critical      *)
(* section is one step that requires the lock to be free.                  *)
(*                                                                         *)
(* Time is kept as time left: media deadlines and waits count down with    *)
(* Tick, so no clock grows without bound.  A report stands for an accepted *)
(* submission: its thread, its random token and its file root/token.mp4.   *)
(* The identity of a forgotten report is used again; the code never reuses *)
(* a token.  Names ending in _m are mutants, used by no specification.     *)
(***************************************************************************)
EXTENDS Integers, FiniteSets

CONSTANTS
    Reports,       \* accepted submissions
    Handlers,      \* request handler threads
    None,          \* no report, no lock holder
    MediaTTL,         \* MEDIA_TTL, 180 s in the code
    ConnectBound,     \* cast.wait(timeout=10)
    ObserveBound,     \* 20 s to see the display PLAYING
    WatchCap,         \* at most min(duration + 10, 135) s of playback
    DisconnectBound,  \* cast.disconnect(timeout=5)
    MaxAge,           \* config.max_age
    JoinBound         \* worker.join(timeout=30) in close

ASSUME NoneAssumption == None \notin Reports \cup Handlers
ASSUME TimeAssumption ==
    /\ {ConnectBound, ObserveBound, WatchCap, DisconnectBound, JoinBound} \subseteq Nat \ {0}
    /\ {MediaTTL, MaxAge} \subseteq Nat
\* 10 + 20 + 135 + 5 < 180: the media outlives the longest playback.
ASSUME TTLAssumption == ConnectBound + ObserveBound + WatchCap + DisconnectBound < MediaTTL
\* 5 < 30: close has the patience for a display that does not answer.
ASSUME JoinAssumption == DisconnectBound < JoinBound

VARIABLES
    lock,        \* the handler that holds engine.lock between two steps, or None
    stop,        \* engine.stop
    busy,        \* engine.busy
    state,       \* engine.state
    worker,      \* engine.worker: the last thread object assigned, or None
    published,   \* the keys of engine.media
    expires,     \* engine.media[t][1] - clock()
    files,       \* the reports whose mp4 is in engine.root
    root,        \* engine.root: "present", "listed" (rmtree at work), "removed"
    mpc,         \* main thread
    joinLeft,    \* time left in worker.join
    playAtStop,  \* history: the worker was at the display when close began
    req,         \* per handler: pc, the report it is about, and, for the
                 \* properties, whether that had expired when it was asked for
    job          \* per worker: pc, the locals fallback and result, the age of the
                 \* snapshot, the time left in the wait it is in and, for the
                 \* properties, whether the display was seen PLAYING

engineVars == <<lock, stop, busy, state, worker>>
mediaVars  == <<published, expires, files, root>>
mainVars   == <<mpc, joinLeft, playAtStop>>
vars == <<engineVars, mediaVars, mainVars, req, job>>

MainPC == {"turn", "prune", "closing", "join", "remove", "rmdir", "exited"}
HandlerPC == {"idle", "request", "assign", "start", "lookup", "stream"}
PlayPC == {"connect", "observe", "watch", "disconnect"}
FinallyPC == {"final", "unlink", "release"}
\* The worker's thread runs.
RunningPC == {"prune", "fetch", "render", "check", "publish"} \cup PlayPC \cup FinallyPC
\* The worker occupies the report slot, from admission to the release of busy.
LivePC == RunningPC \cup {"reserved", "created", "unstarted"}
Played == {"report_played", "fallback_played"}
Results == Played \cup {"internal_failure", "snapshot_expired", "playback_or_render_failure"}
Pending == [state |-> "running", result |-> "pending"]
Idle(r) == [state |-> "idle", result |-> r]

NoRequest == [pc |-> "idle", report |-> None, expired |-> FALSE]
NoJob == [pc |-> "none", fallback |-> FALSE, result |-> "internal_failure",
          age |-> 0, left |-> 0, seen |-> FALSE]

Request == [pc : HandlerPC, report : Reports \cup {None}, expired : BOOLEAN]
Job == [pc : LivePC \cup {"none", "done"}, fallback : BOOLEAN, result : Results,
        age : 0..MaxAge + 1, left : Nat, seen : BOOLEAN]

TypeOK ==
    /\ lock \in Handlers \cup {None}
    /\ stop \in BOOLEAN
    /\ busy \in BOOLEAN
    /\ state \in [state : {"idle"}, result : Results \cup {"none"}] \cup {Pending}
    /\ worker \in Reports \cup {None}
    /\ published \subseteq Reports
    /\ expires \in [Reports -> 0..MediaTTL]
    /\ files \subseteq Reports
    /\ root \in {"present", "listed", "removed"}
    /\ mpc \in MainPC
    /\ joinLeft \in 0..JoinBound
    /\ playAtStop \in BOOLEAN
    /\ req \in [Handlers -> Request]
    /\ job \in [Reports -> Job]

Init ==
    /\ lock = None
    /\ stop = FALSE
    /\ busy = FALSE
    /\ state = Idle("none")
    /\ worker = None
    /\ published = {}
    /\ expires = [r \in Reports |-> 0]
    /\ files = {}
    /\ root = "present"
    /\ mpc = "turn"
    /\ joinLeft = 0
    /\ playAtStop = FALSE
    /\ req = [h \in Handlers |-> NoRequest]
    /\ job = [r \in Reports |-> NoJob]

Alive == mpc # "exited"
Free == Alive /\ lock = None

\* Worker r's variables as it moves to a pc.
At(r, pc) == [job[r] EXCEPT !.pc = pc]

\* The media whose deadline has passed: clock() >= expires.
Expired == {r \in published : expires[r] = 0}

\* prune: unlink and forget every expired entry, under the lock.
Prune_m == files' = files \ Expired /\ UNCHANGED <<published, expires, root>>
Prune ==
    /\ published' = published \ Expired
    /\ files' = files \ Expired
    /\ UNCHANGED <<expires, root>>

-----------------------------------------------------------------------------
(* Main thread *)

Main(from, to) == mpc = from /\ mpc' = to /\ UNCHANGED <<playAtStop, job>>

\* handle_request returns after server.timeout, or after a request that leaves
\* the engine alone (status, health, a malformed one) ...
MainTimeout == Main("turn", "prune") /\ UNCHANGED <<engineVars, mediaVars, joinLeft, req>>

\* ... or with a handler thread for a report request or a media request.
MainAccept(h) ==
    /\ Main("turn", "prune")
    /\ req[h].pc = "idle"
    /\ req' = [req EXCEPT ![h].pc = "request"]
    /\ UNCHANGED <<engineVars, mediaVars, joinLeft>>

\* engine.prune(), then the test of the while loop.
AfterPrune_m == "turn"
AfterPrune == IF stop THEN "closing" ELSE "turn"
MainPrune ==
    /\ lock = None
    /\ Main("prune", AfterPrune)
    /\ Prune
    /\ UNCHANGED <<engineVars, joinLeft, req>>

\* The SIGTERM handler runs on the main thread, between any two of its steps.
Sigterm ==
    /\ Alive /\ ~stop
    /\ stop' = TRUE
    /\ UNCHANGED <<lock, busy, state, worker, mediaVars, mainVars, req, job>>

\* KeyboardInterrupt leaves the loop without setting stop; close sets it.
MainInterrupt ==
    /\ \E pc \in {"turn", "prune"} : Main(pc, "closing")
    /\ UNCHANGED <<engineVars, mediaVars, joinLeft, req>>

\* The thread object in self.worker, read without the lock, is at one of pcs.
WorkerIn(pcs) == \E r \in Reports : worker = r /\ job[r].pc \in pcs

CloseStop ==
    /\ mpc = "closing"
    /\ stop' = TRUE
    /\ mpc' = "join"
    /\ joinLeft' = JoinBound
    /\ playAtStop' = WorkerIn({"observe", "watch", "disconnect"})
    /\ UNCHANGED <<lock, busy, state, worker, mediaVars, req, job>>

\* join returns: there is no worker, it has ended, or the timeout has passed.
CloseJoin ==
    /\ worker = None \/ WorkerIn({"done"}) \/ (WorkerIn(RunningPC) /\ joinLeft = 0)
    /\ Main("join", "remove")
    /\ UNCHANGED <<engineVars, mediaVars, joinLeft, req>>

\* join on a thread object that was never started raises: main ends without rmtree.
CloseJoinRaises ==
    /\ WorkerIn({"created", "unstarted"})
    /\ Main("join", "exited")
    /\ UNCHANGED <<engineVars, mediaVars, joinLeft, req>>

\* rmtree deletes what it lists, then the directory if nothing was added since.
CloseRemove ==
    /\ Main("remove", "rmdir")
    /\ files' = {}
    /\ root' = "listed"
    /\ UNCHANGED <<engineVars, published, expires, joinLeft, req>>

CloseRmdir ==
    /\ Main("rmdir", "exited")
    /\ root' = IF files = {} THEN "removed" ELSE root
    /\ UNCHANGED <<engineVars, published, expires, files, joinLeft, req>>

\* The process is gone, and its daemon threads with it.
Exited == mpc = "exited" /\ UNCHANGED vars

-----------------------------------------------------------------------------
(* Request handlers *)

Handle(h, from, new) ==
    /\ Alive
    /\ req[h].pc = from
    /\ req' = [req EXCEPT ![h] = new]
    /\ UNCHANGED mainVars

\* A token nothing refers to any more.
Fresh(r) ==
    /\ job[r].pc \in {"none", "done"}
    /\ r \notin published \cup files
    /\ r # worker
    /\ \A h \in Handlers : req[h].report # r

Admissible_m == ~stop
Admissible == ~busy /\ ~stop

\* submit answers False: 409.
SubmitRefuse(h) ==
    /\ lock = None /\ ~Admissible
    /\ Handle(h, "request", NoRequest)
    /\ UNCHANGED <<engineVars, mediaVars, job>>

\* submit up to the assignment of self.worker; the lock stays taken.
SubmitAdmit(h, r) ==
    /\ lock = None /\ Admissible
    /\ Fresh(r)
    /\ Handle(h, "request", [NoRequest EXCEPT !.pc = "assign", !.report = r])
    /\ lock' = h
    /\ busy' = TRUE
    /\ state' = Pending
    /\ job' = [job EXCEPT ![r] = At(r, "reserved")]
    /\ UNCHANGED <<stop, worker, mediaVars>>

SubmitAssign(h) ==
    /\ Handle(h, "assign", [req[h] EXCEPT !.pc = "start"])
    /\ worker' = req[h].report
    /\ job' = [job EXCEPT ![req[h].report] = At(req[h].report, "created")]
    /\ UNCHANGED <<lock, stop, busy, state, mediaVars>>

\* worker.start() succeeds (202), or raises at the thread limit; the with block
\* releases the lock either way.
SubmitStart(h, pc) ==
    /\ Handle(h, "start", NoRequest)
    /\ job' = [job EXCEPT ![req[h].report] = At(req[h].report, pc)]
    /\ lock' = None
    /\ UNCHANGED <<stop, busy, state, worker, mediaVars>>

\* GET /media/<token>.mp4: media_file prunes first, ...
MediaPrune_m(h, r) ==
    /\ lock = None /\ job[r].pc # "none"
    /\ Handle(h, "request", [pc |-> "lookup", report |-> r, expired |-> r \in Expired])
    /\ UNCHANGED <<engineVars, mediaVars, job>>
MediaPrune(h, r) ==
    /\ lock = None /\ job[r].pc # "none"
    /\ Handle(h, "request", [pc |-> "lookup", report |-> r, expired |-> r \in Expired])
    /\ Prune
    /\ UNCHANGED <<engineVars, job>>

\* ... then looks the token up and opens its file under the lock again.  The
\* answer is the stream, or 404 without an entry or without the file.
MediaOpen(h) ==
    /\ lock = None
    /\ Handle(h, "lookup", IF req[h].report \in published \cap files
                           THEN [req[h] EXCEPT !.pc = "stream"] ELSE NoRequest)
    /\ UNCHANGED <<engineVars, mediaVars, job>>

\* The stream was sent or the peer is gone; a deleted file stays readable till then.
MediaDone(h) == Handle(h, "stream", NoRequest) /\ UNCHANGED <<engineVars, mediaVars, job>>

-----------------------------------------------------------------------------
(* The worker: _run *)

Step(r, from, new) ==
    /\ Alive
    /\ job[r].pc = from
    /\ job' = [job EXCEPT ![r] = new]
    /\ UNCHANGED <<mainVars, req>>

\* A step that changes only the worker's own variables.
Private(r, from, new) == Step(r, from, new) /\ UNCHANGED <<engineVars, mediaVars>>

\* An exception that _run catches with `except Exception`.
Raise(r, from, to) ==
    Private(r, from, [At(r, to) EXCEPT !.result = "playback_or_render_failure", !.left = 0])

WorkerPrune(r) ==
    /\ lock = None
    /\ Step(r, "prune", At(r, "fetch"))
    /\ Prune
    /\ UNCHANGED engineVars

\* The gateway's snapshot is accepted when it is at most max_age old; on a
\* GatewayError every report is replaced by the fallback text; on any other
\* exception path is still None, so that nothing is unlinked.
Fetch(r) ==
    \/ \E a \in 0..MaxAge : Private(r, "fetch", [At(r, "render") EXCEPT !.age = a])
    \/ Private(r, "fetch", [At(r, "render") EXCEPT !.fallback = TRUE])
FetchRaises_m(r) == Raise(r, "fetch", "done")
FetchRaises(r) == Raise(r, "fetch", "release")

\* The renderer moves the finished mp4 into engine.root.
Render(r) ==
    /\ root # "removed"
    /\ Step(r, "render", At(r, "check"))
    /\ files' = files \cup {r}
    /\ UNCHANGED <<engineVars, published, expires, root>>
RenderRaises(r) == Raise(r, "render", "final")

\* Has the snapshot become older than max_age while it was rendered?
CheckAge(r) ==
    IF ~job[r].fallback /\ job[r].age > MaxAge
    THEN Private(r, "check", [At(r, "final") EXCEPT !.result = "snapshot_expired"])
    ELSE Private(r, "check", At(r, "publish"))

\* self.media[token] = (path, clock() + MEDIA_TTL), then player.play is entered.
Publish(r) ==
    /\ lock = None
    /\ Step(r, "publish", [At(r, "connect") EXCEPT !.left = ConnectBound])
    /\ published' = published \cup {r}
    /\ expires' = [expires EXCEPT ![r] = MediaTTL]
    /\ UNCHANGED <<engineVars, files, root>>

Connect(r) == Private(r, "connect", [At(r, "observe") EXCEPT !.left = ObserveBound])

\* An exception in play, which disconnects if there is a connection; any call to
\* the device may raise.
PlayRaises(r, from) ==
    Private(r, from, [At(r, "disconnect") EXCEPT !.result = "playback_or_render_failure",
                                                 !.left = DisconnectBound])
ConnectRaises(r) == Raise(r, "connect", "final") \/ PlayRaises(r, "connect")

\* The display reports PLAYING with our URL before the loop gives up.
WatchTimes_m == 1..MediaTTL
WatchTimes == 1..WatchCap
Observe(r) ==
    /\ ~stop /\ job[r].left > 0
    /\ \E d \in WatchTimes :
           Private(r, "observe", [At(r, "watch") EXCEPT !.left = d, !.seen = TRUE])

\* Stop or the deadline ended the loop, or a device call raised.
NotObserved_m(r) == Private(r, "observe", [At(r, "watch") EXCEPT !.left = WatchCap])
NotObserved(r) == PlayRaises(r, "observe")

\* The display left our media, playback time is over, or the service stops.  The
\* result is assigned when play has returned; nothing reads it before.
Finish(r) ==
    Private(r, "watch", [At(r, "disconnect") EXCEPT !.left = DisconnectBound,
        !.result = IF job[r].fallback THEN "fallback_played" ELSE "report_played"])
WatchRaises(r) == PlayRaises(r, "watch")

\* The finally block of play.
Disconnect(r) == Private(r, "disconnect", [At(r, "final") EXCEPT !.left = 0])
DisconnectRaises(r) == Raise(r, "disconnect", "final")

\* finally: is the file known to prune?
Final_m(r) == lock = None /\ Private(r, "final", At(r, "release"))
Final(r) ==
    /\ lock = None
    /\ Private(r, "final", At(r, IF r \in published THEN "release" ELSE "unlink"))

Unlink(r) ==
    /\ Step(r, "unlink", At(r, "release"))
    /\ files' = files \ {r}
    /\ UNCHANGED <<engineVars, published, expires, root>>

\* The thread ends, and its local variables with it.
Release_m(r) ==
    /\ lock = None
    /\ Step(r, "release", [NoJob EXCEPT !.pc = "done"])
    /\ state' = [state EXCEPT !.result = job[r].result]
    /\ busy' = FALSE
    /\ UNCHANGED <<lock, stop, worker, mediaVars>>
Release(r) ==
    /\ lock = None
    /\ Step(r, "release", [NoJob EXCEPT !.pc = "done"])
    /\ state' = Idle(job[r].result)
    /\ busy' = FALSE
    /\ UNCHANGED <<lock, stop, worker, mediaVars>>

-----------------------------------------------------------------------------
(* Time *)

\* Where a worker looks at engine.stop every half second.
StopPolled_m == {}
StopPolled == {"observe", "watch"}

\* Waits end in time: a wait whose deadline has passed and a playback loop that
\* has seen stop do not let time go on, and the finally block waits for nothing.
Overdue ==
    \/ \E r \in Reports : \/ job[r].pc \in PlayPC /\ job[r].left = 0
                          \/ job[r].pc \in FinallyPC
                          \/ job[r].pc \in StopPolled /\ stop
    \/ mpc = "join" /\ joinLeft = 0

Minus1(n) == IF n = 0 THEN 0 ELSE n - 1

\* The age of a snapshot matters, and grows, until it is checked.
Tick ==
    /\ Alive /\ ~Overdue
    /\ expires' = [r \in Reports |-> IF r \in published THEN Minus1(expires[r]) ELSE expires[r]]
    /\ job' = [r \in Reports |->
                 [job[r] EXCEPT !.left = IF job[r].pc \in PlayPC THEN Minus1(@) ELSE @,
                                !.age = IF job[r].pc \in {"render", "check"} /\ @ <= MaxAge
                                        THEN @ + 1 ELSE @]]
    /\ joinLeft' = IF mpc = "join" THEN Minus1(joinLeft) ELSE joinLeft
    /\ UNCHANGED <<engineVars, published, files, root, mpc, playAtStop, req>>

-----------------------------------------------------------------------------
Serve == MainTimeout \/ MainPrune \/ \E h \in Handlers : MainAccept(h)

Close == CloseStop \/ CloseJoin \/ CloseJoinRaises \/ CloseRemove \/ CloseRmdir

Submit(h) ==
    \/ SubmitRefuse(h)
    \/ \E r \in Reports : SubmitAdmit(h, r)
    \/ SubmitAssign(h)
    \/ \E pc \in {"prune", "unstarted"} : SubmitStart(h, pc)

MediaFile(h) == (\E r \in Reports : MediaPrune(h, r)) \/ MediaOpen(h) \/ MediaDone(h)

Run(r) ==
    \/ WorkerPrune(r) \/ Fetch(r) \/ FetchRaises(r) \/ Render(r) \/ RenderRaises(r)
    \/ CheckAge(r) \/ Publish(r)
    \/ Connect(r) \/ ConnectRaises(r) \/ Observe(r) \/ NotObserved(r)
    \/ Finish(r) \/ WatchRaises(r) \/ Disconnect(r) \/ DisconnectRaises(r)
    \/ Final(r) \/ Unlink(r) \/ Release(r)

Next ==
    \/ Serve \/ Close \/ Sigterm \/ MainInterrupt \/ Exited
    \/ \E h \in Handlers : Submit(h) \/ MediaFile(h)
    \/ \E r \in Reports : Run(r)
    \/ Tick

Spec == Init /\ [][Next]_vars

\* Threads are scheduled, every wait of the worker has a deadline, time passes.
FairSpec ==
    /\ Spec
    /\ WF_vars(Serve) /\ WF_vars(Close) /\ WF_vars(Tick)
    /\ \A h \in Handlers : WF_vars(Submit(h)) /\ WF_vars(MediaFile(h))
    /\ \A r \in Reports : WF_vars(Run(r))

-----------------------------------------------------------------------------
(* Properties *)

Live(r) == job[r].pc \in LivePC

\* At most one report is in work, and the busy flag, which alone decides
\* whether submit admits another, is set exactly while one is.
OneReportAtATime ==
    /\ \A r1, r2 \in Reports : Live(r1) /\ Live(r2) => r1 = r2
    /\ busy <=> \E r \in Reports : Live(r)

\* Every mp4 on disk is either known to prune, which will delete it, or its
\* worker has yet to decide its fate in the finally block of _run.
NoOrphanMedia ==
    \A r \in files \ published : job[r].pc \in {"check", "publish", "final", "unlink"}

\* While the engine is open, an announced URL leads to a file.
PublishedOnDisk == root = "present" => published \subseteq files

\* From publication to the end of playback the media is served and does not
\* expire: MEDIA_TTL covers connecting, waiting for PLAYING, watching and
\* disconnecting.
ServedWhilePlaying ==
    \A r \in Reports : job[r].pc \in PlayPC => r \in published /\ expires[r] > 0

\* The result of a report tells what happened: a played report was seen PLAYING
\* and its snapshot was at most max_age old when its rendering had ended; the
\* media of a snapshot found expired was never offered to the display.
OutcomeTruthful ==
    \A r \in Reports : job[r].pc \in FinallyPC =>
        LET res == job[r].result IN
        /\ res \in Played => job[r].seen
        /\ res = "report_played" => ~job[r].fallback /\ job[r].age <= MaxAge
        /\ res = "fallback_played" => job[r].fallback
        /\ res = "snapshot_expired" => r \notin published

\* A handler never streams media that had expired before the request: it prunes
\* on its own and does not rely on the main loop having come round.
ExpiredNeverServed ==
    \A h \in Handlers : req[h].pc = "stream" => ~req[h].expired

\* Close does not abandon a report on the display: a worker that was waiting for it,
\* watching it or disconnecting when close began has ended before the media
\* directory is removed.
PlaybackWindsDown ==
    playAtStop /\ mpc \in {"remove", "rmdir", "exited"} => WorkerIn({"done"})

\* Whatever fails, the report slot is freed again, unless the worker's thread
\* could not even be started.
SlotFreed ==
    busy ~> ~busy \/ mpc = "exited" \/ \E r \in Reports : job[r].pc = "unstarted"

\* Media leaves the disk after a while, as long as the process runs.
MediaRemoved ==
    \A r \in Reports : r \in files ~> r \notin files \/ mpc = "exited"

\* A termination signal ends the process, whatever the worker does, and the media
\* directory is gone with it, unless join met a thread that was never started or a
\* render put its file in behind rmtree.
ShutdownCompletes ==
    stop ~> /\ mpc = "exited"
            /\ root = "removed" \/ files # {} \/ WorkerIn({"created", "unstarted"})

\* docs/standalone-cast.md: 409 "means a report is already running".  Stated for
\* a service that is not stopping.
BusyMeansRunning ==
    [][\A h \in Handlers : SubmitRefuse(h) /\ ~stop =>
           \E r \in Reports : job[r].pc \in RunningPC]_vars

-----------------------------------------------------------------------------
(* What the engine promises *)

Slot == INSTANCE ReportSlot WITH
    current <- IF \E r \in Reports : Live(r) THEN CHOOSE r \in Reports : Live(r) ELSE None,
    offered <- published \cap files,
    outcome <- state.result,
    closed <- root # "present",
    Failed <- Results \ Played

\* The engine keeps the promise of ReportSlot: the report whose worker lives is
\* the one in work, and what media_file can open is what is offered.
SlotSpec == Slot!Spec
=============================================================================
