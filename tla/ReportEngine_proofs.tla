------------------------ MODULE ReportEngine_proofs -------------------------
(***************************************************************************)
(* Proofs about ReportEngine: type correctness and the safety properties,  *)
(* for any number of submissions and handlers and any bounds that the      *)
(* assumptions of ReportEngine allow.                                      *)
(***************************************************************************)
EXTENDS ReportEngine, TLAPS

LEMMA Times ==
  /\ ConnectBound \in Nat \ {0} /\ ObserveBound \in Nat \ {0}
  /\ WatchCap \in Nat \ {0} /\ DisconnectBound \in Nat \ {0} /\ JoinBound \in Nat \ {0}
  /\ MediaTTL \in Nat /\ MaxAge \in Nat
  /\ ConnectBound + ObserveBound + WatchCap + DisconnectBound < MediaTTL
  /\ DisconnectBound < JoinBound
  BY TimeAssumption, TTLAssumption, JoinAssumption

LEMMA InitType == Init => TypeOK
<1> SUFFICES ASSUME Init PROVE TypeOK
    OBVIOUS
<1>1. NoJob \in Job
  BY Times DEF NoJob, Job, Results
<1>2. NoRequest \in Request
  BY DEF NoRequest, Request, HandlerPC
<1>3. state \in [state : {"idle"}, result : Results \cup {"none"}]
  BY DEF Init, Idle
<1>4. req \in [Handlers -> Request] /\ job \in [Reports -> Job]
  BY <1>1, <1>2 DEF Init
<1>5. expires \in [Reports -> 0..MediaTTL] /\ joinLeft \in 0..JoinBound
  BY Times DEF Init
<1>6. /\ mpc \in MainPC /\ root \in {"present", "listed", "removed"}
      /\ lock \in Handlers \cup {None} /\ worker \in Reports \cup {None}
      /\ published \subseteq Reports /\ files \subseteq Reports
      /\ stop \in BOOLEAN /\ busy \in BOOLEAN /\ playAtStop \in BOOLEAN
  BY DEF Init, MainPC
<1> QED
  BY <1>3, <1>4, <1>5, <1>6 DEF TypeOK

\* What the steps of a worker and of a handler write has the right type.
LEMMA JobType ==
  ASSUME TypeOK, NEW r \in Reports
  PROVE  job[r] \in Job /\ NoJob \in Job
  BY Times DEF TypeOK, Job, NoJob, Results

LEMMA AtType ==
  ASSUME TypeOK, NEW r \in Reports, NEW pc \in LivePC \cup {"done"},
         NEW res \in Results, NEW n \in Nat
  PROVE  /\ At(r, pc) \in Job
         /\ [At(r, pc) EXCEPT !.result = res] \in Job
         /\ [At(r, pc) EXCEPT !.left = n] \in Job
         /\ [At(r, pc) EXCEPT !.left = n, !.seen = TRUE] \in Job
         /\ [At(r, pc) EXCEPT !.result = res, !.left = n] \in Job
         /\ [At(r, pc) EXCEPT !.left = n, !.result = res] \in Job
         /\ [At(r, pc) EXCEPT !.fallback = TRUE] \in Job
  BY JobType DEF Job, At

LEMMA AgeType ==
  ASSUME TypeOK, NEW r \in Reports, NEW pc \in LivePC, NEW a \in 0..MaxAge + 1
  PROVE  [At(r, pc) EXCEPT !.age = a] \in Job
  BY JobType DEF Job, At

LEMMA JobUpdate ==
  ASSUME TypeOK, NEW r \in Reports, NEW new \in Job
  PROVE  [job EXCEPT ![r] = new] \in [Reports -> Job]
  BY DEF TypeOK

LEMMA MainType == TypeOK /\ (Serve \/ Close \/ Sigterm \/ MainInterrupt \/ Exited) => TypeOK'
<1> SUFFICES ASSUME TypeOK, Serve \/ Close \/ Sigterm \/ MainInterrupt \/ Exited
             PROVE  TypeOK'
    OBVIOUS
<1> USE Times DEF TypeOK, engineVars, mediaVars, mainVars, Main, MainPC
<1>1. CASE MainTimeout
  BY <1>1 DEF MainTimeout
<1>2. CASE MainPrune
  BY <1>2 DEF MainPrune, Prune, AfterPrune, Expired
<1>3. ASSUME NEW h \in Handlers, MainAccept(h) PROVE TypeOK'
  BY <1>3 DEF MainAccept, Request, HandlerPC
<1>4. CASE CloseStop
  BY <1>4 DEF CloseStop, WorkerIn
<1>5. CASE CloseJoin \/ CloseJoinRaises \/ MainInterrupt
  BY <1>5 DEF CloseJoin, CloseJoinRaises, MainInterrupt
<1>6. CASE CloseRemove \/ CloseRmdir
  BY <1>6 DEF CloseRemove, CloseRmdir
<1>7. CASE Sigterm
  BY <1>7 DEF Sigterm
<1>8. CASE Exited
  BY <1>8 DEF Exited, vars
<1> QED  BY <1>1, <1>2, <1>3, <1>4, <1>5, <1>6, <1>7, <1>8 DEF Serve, Close

LEMMA HandlerType ==
  ASSUME TypeOK, NEW h \in Handlers, Submit(h) \/ MediaFile(h)
  PROVE  TypeOK'
<1> USE DEF TypeOK, engineVars, mediaVars, mainVars, Handle
<1>1. CASE SubmitRefuse(h)
  BY <1>1 DEF SubmitRefuse, NoRequest, Request, HandlerPC
<1>2. ASSUME NEW r \in Reports, SubmitAdmit(h, r) PROVE TypeOK'
  <2>1. job' \in [Reports -> Job]
    BY <1>2, AtType, JobUpdate DEF SubmitAdmit, LivePC, Results
  <2> QED
    BY <1>2, <2>1 DEF SubmitAdmit, NoRequest, Request, HandlerPC, Pending
<1>3. CASE SubmitAssign(h)
  <2>1. job' \in [Reports -> Job]
    BY <1>3, AtType, JobUpdate, JobType DEF SubmitAssign, LivePC, Results
  <2> QED
    BY <1>3, <2>1 DEF SubmitAssign, Request, HandlerPC
<1>4. ASSUME NEW pc \in {"prune", "unstarted"}, SubmitStart(h, pc) PROVE TypeOK'
  <2>1. job' \in [Reports -> Job]
    BY <1>4, AtType, JobUpdate, JobType DEF SubmitStart, LivePC, RunningPC, Results
  <2> QED
    BY <1>4, <2>1 DEF SubmitStart, NoRequest, Request, HandlerPC
<1>5. ASSUME NEW r \in Reports, MediaPrune(h, r) PROVE TypeOK'
  BY <1>5 DEF MediaPrune, Prune, Expired, Request, HandlerPC
<1>6. CASE MediaOpen(h)
  BY <1>6 DEF MediaOpen, NoRequest, Request, HandlerPC
<1>7. CASE MediaDone(h)
  BY <1>7 DEF MediaDone, NoRequest, Request, HandlerPC
<1> QED  BY <1>1, <1>2, <1>3, <1>4, <1>5, <1>6, <1>7 DEF Submit, MediaFile

LEMMA WorkerType ==
  ASSUME TypeOK, NEW r \in Reports, Run(r)
  PROVE  TypeOK'
<1> USE DEF engineVars, mediaVars, mainVars, Step, Private
<1>p. ASSUME NEW from, NEW new \in Job, Private(r, from, new)
      PROVE  TypeOK'
  BY <1>p, JobUpdate DEF TypeOK
<1>r. ASSUME NEW from, NEW to \in LivePC \cup {"done"}, Raise(r, from, to)
      PROVE  TypeOK'
  <2>1. [At(r, to) EXCEPT !.result = "playback_or_render_failure", !.left = 0] \in Job
    BY AtType DEF Results
  <2> QED
    BY <1>r, <1>p, <2>1 DEF Raise
<1>pc. RunningPC \subseteq LivePC \cup {"done"}
  BY DEF LivePC
<1>at. ASSUME NEW pc \in RunningPC, NEW n \in Nat
       PROVE  /\ At(r, pc) \in Job
              /\ [At(r, pc) EXCEPT !.left = n] \in Job
              /\ [At(r, pc) EXCEPT !.left = n, !.seen = TRUE] \in Job
              /\ [At(r, pc) EXCEPT !.fallback = TRUE] \in Job
  BY <1>pc, AtType DEF Results
<1>1. CASE WorkerPrune(r)
  <2>1. job' \in [Reports -> Job]
    BY <1>1, <1>at, JobUpdate DEF WorkerPrune, RunningPC
  <2> QED
    BY <1>1, <2>1 DEF WorkerPrune, Prune, Expired, TypeOK
<1>2. CASE Fetch(r)
  <2>1. ASSUME NEW a \in 0..MaxAge, Private(r, "fetch", [At(r, "render") EXCEPT !.age = a])
        PROVE  TypeOK'
    <3>1. [At(r, "render") EXCEPT !.age = a] \in Job
      <4>1. a \in 0..MaxAge + 1 /\ "render" \in LivePC
        BY Times DEF LivePC, RunningPC
      <4> QED
        BY <4>1, AgeType
    <3> QED
      BY <2>1, <3>1, <1>p
  <2> QED
    BY <1>2, <2>1, <1>at, <1>p DEF Fetch, RunningPC
<1>d. ASSUME NEW from, PlayRaises(r, from) PROVE TypeOK'
  <2>1. [At(r, "disconnect") EXCEPT !.result = "playback_or_render_failure",
                                    !.left = DisconnectBound] \in Job
    BY AtType, Times DEF Results, LivePC, RunningPC, PlayPC
  <2> QED
    BY <1>d, <1>p, <2>1 DEF PlayRaises
<1>3. CASE FetchRaises(r) \/ RenderRaises(r) \/ ConnectRaises(r) \/ NotObserved(r)
           \/ WatchRaises(r) \/ DisconnectRaises(r)
  BY <1>3, <1>r, <1>d DEF FetchRaises, RenderRaises, ConnectRaises, NotObserved, WatchRaises,
     DisconnectRaises, LivePC, RunningPC, FinallyPC
<1>4. CASE Render(r)
  <2>1. job' \in [Reports -> Job]
    BY <1>4, <1>at, JobUpdate DEF Render, RunningPC
  <2> QED
    BY <1>4, <2>1 DEF Render, TypeOK
<1>5. CASE CheckAge(r)
  <2>1. [At(r, "final") EXCEPT !.result = "snapshot_expired"] \in Job
    BY AtType DEF Results, LivePC, RunningPC, FinallyPC
  <2> QED
    BY <1>5, <2>1, <1>at, <1>p DEF CheckAge, RunningPC
<1>6. CASE Publish(r)
  <2>1. job' \in [Reports -> Job]
    BY <1>6, <1>at, JobUpdate, Times DEF Publish, RunningPC, PlayPC
  <2> QED
    BY <1>6, <2>1, Times DEF Publish, TypeOK
<1>7. CASE Connect(r)
  BY <1>7, <1>at, <1>p, Times DEF Connect, RunningPC, PlayPC
<1>8. CASE Observe(r)
  <2>1. ASSUME NEW d \in WatchTimes
        PROVE  [At(r, "watch") EXCEPT !.left = d, !.seen = TRUE] \in Job
    <3>1. d \in Nat
      BY Times DEF WatchTimes
    <3> QED
      BY <3>1, <1>at DEF RunningPC, PlayPC
  <2> QED
    BY <1>8, <2>1, <1>p DEF Observe
<1>9. CASE Finish(r)
  <2> DEFINE res == IF job[r].fallback THEN "fallback_played" ELSE "report_played"
  <2>r. res \in Results /\ "disconnect" \in LivePC
    BY DEF Results, Played, LivePC, RunningPC, PlayPC
  <2> HIDE DEF res
  <2>1. [At(r, "disconnect") EXCEPT !.left = DisconnectBound, !.result = res] \in Job
    BY <2>r, AtType, Times
  <2> QED
    BY <1>9, <2>1, <1>p DEF Finish, res
<1>10. CASE Final(r)
  BY <1>10, <1>at, <1>p DEF Final, RunningPC, FinallyPC
<1>11. CASE Unlink(r)
  <2>1. job' \in [Reports -> Job]
    BY <1>11, <1>at, JobUpdate DEF Unlink, RunningPC, FinallyPC
  <2> QED
    BY <1>11, <2>1 DEF Unlink, TypeOK
<1>12. CASE Release(r)
  <2>1. [NoJob EXCEPT !.pc = "done"] \in Job
    BY JobType DEF Job
  <2>2. job' \in [Reports -> Job]
    BY <1>12, <2>1, JobUpdate DEF Release
  <2>3. job[r].result \in Results
    BY JobType DEF Job
  <2> QED
    BY <1>12, <2>2, <2>3 DEF Release, Idle, TypeOK
<1>13. CASE Disconnect(r)
  BY <1>13, <1>at, <1>p DEF Disconnect, RunningPC, FinallyPC
<1> QED
  BY <1>1, <1>2, <1>3, <1>4, <1>5, <1>6, <1>7, <1>8, <1>9, <1>10, <1>11, <1>12, <1>13 DEF Run

LEMMA TickType == TypeOK /\ Tick => TypeOK'
<1> SUFFICES ASSUME TypeOK, Tick PROVE TypeOK'
    OBVIOUS
<1>1. \A n \in Nat : Minus1(n) \in Nat /\ Minus1(n) <= n
  BY DEF Minus1
<1>2. job' \in [Reports -> Job]
  <2> SUFFICES ASSUME NEW r \in Reports PROVE job'[r] \in Job
      BY DEF Tick
  <2> DEFINE left == IF job[r].pc \in PlayPC THEN Minus1(job[r].left) ELSE job[r].left
             age == IF job[r].pc \in {"render", "check"} /\ job[r].age <= MaxAge
                    THEN job[r].age + 1 ELSE job[r].age
  <2>1. job[r] \in Job
    BY JobType
  <2>2. left \in Nat /\ age \in 0..MaxAge + 1
    BY <1>1, <2>1, Times DEF Job
  <2>3. job'[r] = [job[r] EXCEPT !.left = left, !.age = age]
    BY DEF Tick
  <2> HIDE DEF left, age
  <2> QED
    BY <2>1, <2>2, <2>3 DEF Job
<1>3. \A r \in Reports : Minus1(expires[r]) \in 0..MediaTTL
  BY <1>1, Times DEF TypeOK
<1>4. expires' \in [Reports -> 0..MediaTTL]
  BY <1>3 DEF Tick, TypeOK
<1>5. joinLeft' \in 0..JoinBound
  <2>1. joinLeft \in 0..JoinBound
    BY DEF TypeOK
  <2>2. Minus1(joinLeft) \in 0..JoinBound
    BY <2>1, Times DEF Minus1
  <2> QED
    BY <2>1, <2>2 DEF Tick
<1> QED
  BY <1>2, <1>4, <1>5 DEF Tick, TypeOK, engineVars

\* Type correctness of the report engine.
THEOREM TypeCorrect == Spec => []TypeOK
<1>1. TypeOK /\ [Next]_vars => TypeOK'
  <2> SUFFICES ASSUME TypeOK, [Next]_vars PROVE TypeOK'
      OBVIOUS
  <2>1. CASE UNCHANGED vars
    BY <2>1 DEF vars, engineVars, mediaVars, mainVars, TypeOK
  <2> QED
    BY <2>1, MainType, HandlerType, WorkerType, TickType DEF Next
<1> QED
  BY InitType, <1>1, PTL DEF Spec

-----------------------------------------------------------------------------
(* One report at a time *)

\* The variables of a worker at a pc.
JobAt(pc) == {j \in Job : j.pc = pc}

LEMMA AtPc ==
  ASSUME TypeOK, NEW r \in Reports, NEW pc \in LivePC \cup {"done"},
         NEW res \in Results, NEW n \in Nat
  PROVE  /\ At(r, pc) \in JobAt(pc)
         /\ [At(r, pc) EXCEPT !.result = res] \in JobAt(pc)
         /\ [At(r, pc) EXCEPT !.left = n] \in JobAt(pc)
         /\ [At(r, pc) EXCEPT !.left = n, !.seen = TRUE] \in JobAt(pc)
         /\ [At(r, pc) EXCEPT !.result = res, !.left = n] \in JobAt(pc)
         /\ [At(r, pc) EXCEPT !.left = n, !.result = res] \in JobAt(pc)
         /\ [At(r, pc) EXCEPT !.fallback = TRUE] \in JobAt(pc)
  BY JobType DEF JobAt, Job, At

\* Every step of a worker in its parts: how it moves the worker's pc, and what
\* it does to the engine.
LEMMA RunFrame ==
  ASSUME TypeOK, NEW r \in Reports, Run(r)
  PROVE  /\ UNCHANGED <<stop, lock, worker, req, mpc, playAtStop, joinLeft>>
         /\ \A s \in Reports \ {r} : job'[s] = job[s]
         /\ job[r].pc \in RunningPC
         /\ \/ job'[r].pc \in RunningPC /\ UNCHANGED <<busy, state>>
            \/ Release(r) /\ job'[r].pc = "done" /\ busy' = FALSE
<1> DEFINE Frame == /\ UNCHANGED <<stop, lock, worker, req, mpc, playAtStop, joinLeft>>
                    /\ \A s \in Reports \ {r} : job'[s] = job[s]
                    /\ job[r].pc \in RunningPC
<1>s. ASSUME NEW from \in RunningPC, NEW new, Step(r, from, new), UNCHANGED <<stop, lock, worker>>
      PROVE  Frame /\ job'[r] = new
  BY <1>s DEF Step, mainVars, TypeOK
<1>p. ASSUME NEW from \in RunningPC, NEW to \in RunningPC, NEW new \in JobAt(to),
             Private(r, from, new)
      PROVE  Frame /\ job'[r].pc \in RunningPC /\ UNCHANGED <<busy, state>>
  BY <1>p, <1>s DEF Private, engineVars, JobAt
<1>q. ASSUME NEW from \in RunningPC, NEW to \in RunningPC, NEW new \in JobAt(to),
             Step(r, from, new), UNCHANGED engineVars
      PROVE  Frame /\ job'[r].pc \in RunningPC /\ UNCHANGED <<busy, state>>
  BY <1>q, <1>s DEF engineVars, JobAt
<1>pcs. /\ RunningPC \subseteq LivePC \cup {"done"}
        /\ {"prune", "fetch", "render", "check", "publish", "connect", "observe", "watch",
            "disconnect", "final", "unlink", "release"} \subseteq RunningPC
  BY DEF LivePC, RunningPC, PlayPC, FinallyPC
<1>at. ASSUME NEW pc \in RunningPC, NEW n \in Nat
       PROVE  /\ At(r, pc) \in JobAt(pc)
              /\ [At(r, pc) EXCEPT !.left = n] \in JobAt(pc)
              /\ [At(r, pc) EXCEPT !.left = n, !.seen = TRUE] \in JobAt(pc)
              /\ [At(r, pc) EXCEPT !.fallback = TRUE] \in JobAt(pc)
  BY <1>pcs, AtPc DEF Results
<1> SUFFICES Frame /\ \/ job'[r].pc \in RunningPC /\ UNCHANGED <<busy, state>>
                      \/ Release(r) /\ job'[r].pc = "done" /\ busy' = FALSE
    OBVIOUS
<1> HIDE DEF Frame
<1>1. CASE WorkerPrune(r)
  BY <1>1, <1>q, <1>at, <1>pcs DEF WorkerPrune
<1>2. CASE Fetch(r)
  <2>1. ASSUME NEW a \in 0..MaxAge
        PROVE  [At(r, "render") EXCEPT !.age = a] \in JobAt("render")
    <3>1. [At(r, "render") EXCEPT !.age = a] \in Job
      BY AgeType, <1>pcs, Times DEF LivePC
    <3>2. [At(r, "render") EXCEPT !.age = a].pc = "render"
      BY JobType DEF At, Job
    <3> QED
      BY <3>1, <3>2 DEF JobAt
  <2> QED
    BY <1>2, <2>1, <1>p, <1>at, <1>pcs DEF Fetch
<1>3. ASSUME NEW from \in RunningPC, NEW to \in RunningPC, Raise(r, from, to)
      PROVE  Frame /\ job'[r].pc \in RunningPC /\ UNCHANGED <<busy, state>>
  <2>1. [At(r, to) EXCEPT !.result = "playback_or_render_failure", !.left = 0] \in JobAt(to)
    BY AtPc, <1>pcs DEF Results
  <2> QED
    BY <1>3, <2>1, <1>p DEF Raise
<1>4. CASE Render(r)
  BY <1>4, <1>q, <1>at, <1>pcs DEF Render
<1>5. CASE CheckAge(r)
  <2>1. [At(r, "final") EXCEPT !.result = "snapshot_expired"] \in JobAt("final")
    BY AtPc, <1>pcs DEF Results
  <2> QED
    BY <1>5, <2>1, <1>p, <1>at, <1>pcs DEF CheckAge
<1>6. CASE Publish(r)
  BY <1>6, <1>q, <1>at, <1>pcs, Times DEF Publish
<1>7. CASE Connect(r)
  BY <1>7, <1>p, <1>at, <1>pcs, Times DEF Connect
<1>8. CASE Observe(r)
  <2>1. ASSUME NEW d \in WatchTimes
        PROVE  [At(r, "watch") EXCEPT !.left = d, !.seen = TRUE] \in JobAt("watch")
    <3>1. d \in Nat
      BY Times DEF WatchTimes
    <3> QED
      BY <3>1, <1>at, <1>pcs
  <2> QED
    BY <1>8, <2>1, <1>p, <1>pcs DEF Observe
<1>9. CASE Finish(r)
  <2> DEFINE res == IF job[r].fallback THEN "fallback_played" ELSE "report_played"
  <2>1. res \in Results
    BY DEF Results, Played
  <2> HIDE DEF res
  <2>2. [At(r, "disconnect") EXCEPT !.left = DisconnectBound, !.result = res] \in JobAt("disconnect")
    BY <2>1, AtPc, <1>pcs, Times
  <2> QED
    BY <1>9, <2>2, <1>p, <1>pcs DEF Finish, res
<1>10. CASE Final(r)
  BY <1>10, <1>p, <1>at, <1>pcs DEF Final
<1>11. CASE Unlink(r)
  BY <1>11, <1>q, <1>at, <1>pcs DEF Unlink
<1>12. CASE Release(r)
  <2>1. [NoJob EXCEPT !.pc = "done"].pc = "done"
    BY DEF NoJob
  <2> QED
    BY <1>12, <1>s, <2>1, <1>pcs DEF Release
<1>d. ASSUME NEW from \in RunningPC, PlayRaises(r, from)
      PROVE  Frame /\ job'[r].pc \in RunningPC /\ UNCHANGED <<busy, state>>
  <2>1. [At(r, "disconnect") EXCEPT !.result = "playback_or_render_failure",
                                    !.left = DisconnectBound] \in JobAt("disconnect")
    BY AtPc, <1>pcs, Times DEF Results
  <2> QED
    BY <1>d, <2>1, <1>p, <1>pcs DEF PlayRaises
<1>13. CASE FetchRaises(r) \/ RenderRaises(r) \/ ConnectRaises(r) \/ NotObserved(r)
            \/ WatchRaises(r) \/ DisconnectRaises(r)
  BY <1>13, <1>3, <1>d, <1>pcs DEF FetchRaises, RenderRaises, ConnectRaises, NotObserved,
     WatchRaises, DisconnectRaises
<1>14. CASE Disconnect(r)
  BY <1>14, <1>p, <1>at, <1>pcs DEF Disconnect
<1> QED
  BY <1>1, <1>2, <1>4, <1>5, <1>6, <1>7, <1>8, <1>9, <1>10, <1>11, <1>12, <1>13, <1>14 DEF Run

\* The lock is held between two steps only inside submit, by the handler whose
\* worker has been reserved, or created, but not started.
LockInv ==
  \A h \in Handlers :
    /\ lock = h <=> req[h].pc \in {"assign", "start"}
    /\ req[h].pc = "assign" => req[h].report \in Reports /\ job[req[h].report].pc = "reserved"
    /\ req[h].pc = "start" => req[h].report \in Reports /\ job[req[h].report].pc = "created"

SlotInv == LockInv /\ OneReportAtATime

LEMMA SlotInit == Init => SlotInv
  BY NoneAssumption DEF Init, SlotInv, LockInv, OneReportAtATime, NoRequest, NoJob, Live,
     LivePC, RunningPC, PlayPC, FinallyPC

\* Outside submit nothing touches the lock, and only Run moves a worker.
LEMMA SlotRun ==
  ASSUME TypeOK, SlotInv, NEW r \in Reports, Run(r)
  PROVE  SlotInv'
<1> USE DEF SlotInv
<1>1. /\ UNCHANGED <<lock, req>>
      /\ \A s \in Reports \ {r} : job'[s] = job[s]
      /\ job[r].pc \in RunningPC
      /\ \/ job'[r].pc \in RunningPC /\ busy' = busy
         \/ job'[r].pc = "done" /\ busy' = FALSE
  BY RunFrame
<1>2. RunningPC \subseteq LivePC /\ "reserved" \notin RunningPC /\ "created" \notin RunningPC
      /\ "done" \notin LivePC
  BY DEF LivePC, RunningPC, PlayPC, FinallyPC
<1>3. LockInv'
  BY <1>1, <1>2 DEF LockInv
<1>4. OneReportAtATime'
  BY <1>1, <1>2 DEF OneReportAtATime, Live
<1> QED
  BY <1>3, <1>4

\* Of the handlers' steps, those of submit move the lock and the slot.
LEMMA SlotHandler ==
  ASSUME TypeOK, SlotInv, NEW h \in Handlers, Submit(h) \/ MediaFile(h)
  PROVE  SlotInv'
<1> USE DEF SlotInv, engineVars, mediaVars, mainVars
<1>n. None \notin Handlers /\ NoRequest.pc = "idle"
  BY NoneAssumption DEF NoRequest
<1>h. ASSUME NEW from, NEW new, Handle(h, from, new)
      PROVE  /\ req[h].pc = from /\ req'[h] = new
             /\ \A g \in Handlers \ {h} : req'[g] = req[g]
  BY <1>h DEF Handle, TypeOK
<1>1. ASSUME NEW from \in {"request", "lookup", "stream"}, NEW new, Handle(h, from, new),
             new.pc \notin {"assign", "start"}, UNCHANGED <<engineVars, job>>
      PROVE  SlotInv'
  <2>1. LockInv'
    BY <1>1, <1>h DEF LockInv
  <2>2. OneReportAtATime'
    BY <1>1 DEF OneReportAtATime, Live
  <2> QED
    BY <2>1, <2>2
<1>2. CASE SubmitRefuse(h)
  BY <1>2, <1>1, <1>n DEF SubmitRefuse
<1>3. ASSUME NEW r \in Reports, SubmitAdmit(h, r) PROVE SlotInv'
  <2> DEFINE new == [NoRequest EXCEPT !.pc = "assign", !.report = r]
  <2>1. new.pc = "assign" /\ new.report = r
    BY DEF NoRequest
  <2>2. Handle(h, "request", new)
    BY <1>3 DEF SubmitAdmit
  <2> HIDE DEF new
  <2>3. /\ req'[h].pc = "assign" /\ req'[h].report = r
        /\ \A g \in Handlers \ {h} : req'[g] = req[g]
    BY <2>1, <2>2, <1>h
  <2>4. job'[r].pc = "reserved" /\ \A s \in Reports \ {r} : job'[s] = job[s]
    <3>1. At(r, "reserved").pc = "reserved"
      BY JobType DEF At, Job
    <3> QED
      BY <1>3, <3>1 DEF SubmitAdmit, TypeOK
  <2>5. lock = None /\ lock' = h /\ busy = FALSE /\ busy' = TRUE
    BY <1>3 DEF SubmitAdmit, Admissible, TypeOK
  <2>6. LockInv'
    BY <2>3, <2>4, <2>5, <1>n DEF LockInv
  <2>7. OneReportAtATime'
    BY <2>4, <2>5 DEF OneReportAtATime, Live, LivePC
  <2> QED
    BY <2>6, <2>7
<1>4. CASE SubmitAssign(h)
  <2> DEFINE r == req[h].report
  <2>1. r \in Reports /\ job[r].pc = "reserved" /\ lock = h
    BY <1>4, <1>h DEF SubmitAssign, LockInv
  <2>2. req[h] \in Request /\ [req[h] EXCEPT !.pc = "start"].pc = "start"
        /\ [req[h] EXCEPT !.pc = "start"].report = r
    BY DEF TypeOK, Request
  <2>3. /\ req'[h].pc = "start" /\ req'[h].report = r
        /\ \A g \in Handlers \ {h} : req'[g] = req[g]
    BY <1>4, <2>2, <1>h DEF SubmitAssign
  <2>4. job'[r].pc = "created" /\ \A s \in Reports \ {r} : job'[s] = job[s]
    <3>1. At(r, "created").pc = "created"
      BY <2>1, JobType DEF At, Job
    <3> QED
      BY <1>4, <2>1, <3>1 DEF SubmitAssign, TypeOK
  <2>5. lock' = lock /\ busy' = busy
    BY <1>4 DEF SubmitAssign
  <2> HIDE DEF r
  <2>6. LockInv'
    BY <2>1, <2>3, <2>4, <2>5 DEF LockInv
  <2>7. OneReportAtATime'
    BY <2>1, <2>4, <2>5 DEF OneReportAtATime, Live, LivePC
  <2> QED
    BY <2>6, <2>7
<1>5. ASSUME NEW pc \in {"prune", "unstarted"}, SubmitStart(h, pc) PROVE SlotInv'
  <2> DEFINE r == req[h].report
  <2>1. r \in Reports /\ job[r].pc = "created" /\ lock = h
    BY <1>5, <1>h DEF SubmitStart, LockInv
  <2>2. /\ req'[h].pc = "idle"
        /\ \A g \in Handlers \ {h} : req'[g] = req[g]
    BY <1>5, <1>n, <1>h DEF SubmitStart
  <2>3. job'[r].pc = pc /\ \A s \in Reports \ {r} : job'[s] = job[s]
    <3>1. At(r, pc).pc = pc
      BY <2>1, JobType DEF At, Job
    <3> QED
      BY <1>5, <2>1, <3>1 DEF SubmitStart, TypeOK
  <2>4. lock' = None /\ busy' = busy
    BY <1>5 DEF SubmitStart
  <2> HIDE DEF r
  <2>5. LockInv'
    BY <2>1, <2>2, <2>4, <1>n DEF LockInv
  <2>6. OneReportAtATime'
    BY <2>1, <2>3, <2>4 DEF OneReportAtATime, Live, LivePC, RunningPC
  <2> QED
    BY <2>5, <2>6
<1>6. ASSUME NEW r \in Reports, MediaPrune(h, r) PROVE SlotInv'
  BY <1>6, <1>1 DEF MediaPrune
<1>7. CASE MediaOpen(h)
  <2>1. [req[h] EXCEPT !.pc = "stream"].pc = "stream"
    BY DEF TypeOK, Request
  <2> QED
    BY <1>7, <2>1, <1>1, <1>n DEF MediaOpen
<1>8. CASE MediaDone(h)
  BY <1>8, <1>1, <1>n DEF MediaDone
<1> QED
  BY <1>2, <1>3, <1>4, <1>5, <1>6, <1>7, <1>8 DEF Submit, MediaFile

\* The main thread and time leave the lock and the workers' pcs alone.
LEMMA SlotOther ==
  ASSUME TypeOK, SlotInv, Serve \/ Close \/ Sigterm \/ MainInterrupt \/ Exited \/ Tick
  PROVE  SlotInv'
<1>1. UNCHANGED <<lock, busy>> /\ \A r \in Reports : job'[r].pc = job[r].pc
  <2>1. CASE Tick
    <3>1. \A r \in Reports : job'[r].pc = job[r].pc
      BY <2>1, JobType DEF Tick, Job
    <3> QED
      BY <2>1, <3>1 DEF Tick, engineVars
  <2>2. CASE Sigterm \/ Exited \/ CloseStop
    BY <2>2 DEF Sigterm, Exited, CloseStop, vars, engineVars
  <2>3. CASE Serve \/ Close \/ MainInterrupt
    BY <2>3, <2>2 DEF Serve, Close, MainTimeout, MainPrune, MainAccept, MainInterrupt, CloseJoin,
       CloseJoinRaises, CloseRemove, CloseRmdir, Main, engineVars
  <2> QED
    BY <2>1, <2>2, <2>3
<1>2. \A h \in Handlers : \/ req'[h] = req[h]
                          \/ req[h].pc = "idle" /\ req'[h].pc = "request"
  <2>1. ASSUME NEW h \in Handlers, MainAccept(h)
        PROVE  \A g \in Handlers : \/ req'[g] = req[g]
                                   \/ req[g].pc = "idle" /\ req'[g].pc = "request"
    BY <2>1 DEF MainAccept, TypeOK, Request
  <2>2. CASE Tick \/ Sigterm \/ Exited
    BY <2>2 DEF Tick, Sigterm, Exited, vars
  <2>3. CASE MainTimeout \/ MainPrune \/ Close \/ MainInterrupt
    BY <2>3 DEF Close, MainTimeout, MainPrune, MainInterrupt, CloseStop, CloseJoin,
       CloseJoinRaises, CloseRemove, CloseRmdir
  <2> QED
    BY <2>1, <2>2, <2>3 DEF Serve
<1>3. LockInv'
  BY <1>1, <1>2 DEF SlotInv, LockInv
<1>4. OneReportAtATime'
  BY <1>1 DEF SlotInv, OneReportAtATime, Live
<1> QED
  BY <1>3, <1>4 DEF SlotInv

\* The lock and the slot, in every reachable state.
THEOREM SlotCorrect == Spec => []SlotInv
<1>1. TypeOK /\ SlotInv /\ [Next]_vars => SlotInv'
  <2> SUFFICES ASSUME TypeOK, SlotInv, [Next]_vars PROVE SlotInv'
      OBVIOUS
  <2>1. CASE UNCHANGED vars
    BY <2>1 DEF vars, engineVars, SlotInv, LockInv, OneReportAtATime, Live
  <2> QED
    BY <2>1, SlotOther, SlotHandler, SlotRun DEF Next
<1> QED
  BY TypeCorrect, SlotInit, <1>1, PTL DEF Spec

\* At most one report is in work at any time, and busy says whether one is.
THEOREM OneReport == Spec => []OneReportAtATime
  BY SlotCorrect, PTL DEF SlotInv

-----------------------------------------------------------------------------
(* The media *)

Moved(r, from, to) == job[r].pc = from /\ job'[r].pc = to

\* What each step of a worker does to its pc, its wait and the media.
LEMMA RunMoves ==
  ASSUME TypeOK, NEW r \in Reports, Run(r)
  PROVE  \/ Moved(r, "prune", "fetch") /\ Prune
         \/ Moved(r, "render", "check") /\ files' = files \cup {r} /\ UNCHANGED <<published, expires, root>>
         \/ /\ Moved(r, "publish", "connect") /\ job'[r].left = ConnectBound
            /\ published' = published \cup {r} /\ expires' = [expires EXCEPT ![r] = MediaTTL]
            /\ UNCHANGED <<files, root>>
         \/ Moved(r, "unlink", "release") /\ files' = files \ {r} /\ UNCHANGED <<published, expires, root>>
         \/ /\ UNCHANGED <<published, expires, files, root>>
            /\ \/ \E to \in {"render", "release"} : Moved(r, "fetch", to)
               \/ Moved(r, "render", "final")
               \/ \E to \in {"publish", "final"} : Moved(r, "check", to)
               \/ Moved(r, "connect", "observe") /\ job'[r].left = ObserveBound
               \/ Moved(r, "observe", "watch") /\ job'[r].left \in WatchTimes
               \/ \E from \in PlayPC \ {"disconnect"} :
                    Moved(r, from, "disconnect") /\ job'[r].left = DisconnectBound
               \/ \E from \in PlayPC : Moved(r, from, "final")
               \/ Moved(r, "final", "release") /\ r \in published
               \/ Moved(r, "final", "unlink") /\ r \notin published
               \/ Moved(r, "release", "done")
<1> USE DEF Moved
<1>j. job[r] \in Job /\ NoJob \in Job
  BY JobType
<1>s. ASSUME NEW from, NEW new, Step(r, from, new)
      PROVE  job[r].pc = from /\ job'[r] = new
  BY <1>s DEF Step, TypeOK
<1>r. ASSUME NEW from, NEW to, Raise(r, from, to)
      PROVE  Moved(r, from, to) /\ UNCHANGED <<published, expires, files, root>>
  <2> DEFINE new == [At(r, to) EXCEPT !.result = "playback_or_render_failure", !.left = 0]
  <2>1. new.pc = to
    BY <1>j DEF At, Job
  <2>2. Private(r, from, new)
    BY <1>r DEF Raise
  <2> HIDE DEF new
  <2> QED
    BY <2>1, <2>2, <1>s DEF Private, mediaVars
<1> USE <1>s, <1>j DEF Private, At, Job, mediaVars
<1>1. CASE WorkerPrune(r)
  BY <1>1 DEF WorkerPrune
<1>2. CASE Fetch(r)
  <2>1. ASSUME NEW a \in 0..MaxAge, Private(r, "fetch", [At(r, "render") EXCEPT !.age = a])
        PROVE  Moved(r, "fetch", "render") /\ UNCHANGED <<published, expires, files, root>>
    BY <2>1
  <2>2. ASSUME Private(r, "fetch", [At(r, "render") EXCEPT !.fallback = TRUE])
        PROVE  Moved(r, "fetch", "render") /\ UNCHANGED <<published, expires, files, root>>
    BY <2>2
  <2> QED
    BY <1>2, <2>1, <2>2 DEF Fetch
<1>d. ASSUME NEW from, PlayRaises(r, from)
      PROVE  /\ Moved(r, from, "disconnect") /\ job'[r].left = DisconnectBound
             /\ UNCHANGED <<published, expires, files, root>>
  <2> DEFINE new == [At(r, "disconnect") EXCEPT !.result = "playback_or_render_failure",
                                                !.left = DisconnectBound]
  <2>1. new.pc = "disconnect" /\ new.left = DisconnectBound
    OBVIOUS
  <2>2. Private(r, from, new)
    BY <1>d DEF PlayRaises
  <2> HIDE DEF new
  <2> QED
    BY <2>1, <2>2
<1>3. CASE FetchRaises(r) \/ RenderRaises(r) \/ DisconnectRaises(r)
  BY <1>3, <1>r DEF FetchRaises, RenderRaises, DisconnectRaises, PlayPC
<1>4a. CASE ConnectRaises(r) \/ NotObserved(r) \/ WatchRaises(r)
  BY <1>4a, <1>r, <1>d DEF ConnectRaises, NotObserved, WatchRaises, PlayPC
<1>4. CASE Render(r)
  BY <1>4 DEF Render
<1>5. CASE CheckAge(r)
  BY <1>5 DEF CheckAge
<1>6. CASE Publish(r)
  BY <1>6 DEF Publish
<1>7. CASE Connect(r)
  <2> DEFINE new == [At(r, "observe") EXCEPT !.left = ObserveBound]
  <2>1. new.pc = "observe" /\ new.left = ObserveBound
    OBVIOUS
  <2>2. Private(r, "connect", new)
    BY <1>7 DEF Connect
  <2> HIDE DEF new
  <2> QED
    BY <2>1, <2>2
<1>8. CASE Observe(r)
  <2>1. ASSUME NEW d \in WatchTimes,
               Private(r, "observe", [At(r, "watch") EXCEPT !.left = d, !.seen = TRUE])
        PROVE  Moved(r, "observe", "watch") /\ job'[r].left = d
               /\ UNCHANGED <<published, expires, files, root>>
    BY <2>1
  <2> QED
    BY <1>8, <2>1 DEF Observe
<1>9. CASE Finish(r)
  <2>1. /\ Moved(r, "watch", "disconnect") /\ job'[r].left = DisconnectBound
        /\ UNCHANGED <<published, expires, files, root>>
    <3> DEFINE res == IF job[r].fallback THEN "fallback_played" ELSE "report_played"
               new == [At(r, "disconnect") EXCEPT !.left = DisconnectBound, !.result = res]
    <3>1. new.pc = "disconnect" /\ new.left = DisconnectBound
      OBVIOUS
    <3>2. Private(r, "watch", new)
      BY <1>9 DEF Finish
    <3> HIDE DEF new
    <3> QED
      BY <3>1, <3>2
  <2> QED
    BY <2>1 DEF PlayPC
<1>10. CASE Final(r)
  BY <1>10 DEF Final
<1>11. CASE Unlink(r)
  BY <1>11 DEF Unlink
<1>12. CASE Release(r)
  BY <1>12 DEF Release
<1>13. CASE Disconnect(r)
  <2>1. Moved(r, "disconnect", "final") /\ UNCHANGED <<published, expires, files, root>>
    BY <1>13 DEF Disconnect
  <2> QED
    BY <2>1 DEF PlayPC
<1> QED
  BY <1>1, <1>2, <1>3, <1>4, <1>5, <1>6, <1>7, <1>8, <1>9, <1>10, <1>11, <1>12,
     <1>13, <1>4a DEF Run

\* The other steps, time apart: how they touch the media and the workers' pcs.
LEMMA OtherMoves ==
  ASSUME TypeOK, SlotInv,
         Serve \/ Close \/ Sigterm \/ MainInterrupt \/ Exited
         \/ \E h \in Handlers : Submit(h) \/ MediaFile(h)
  PROVE  \/ UNCHANGED job /\ Prune
         \/ UNCHANGED <<job, published, expires>> /\ files' = {} /\ root' = "listed"
         \/ UNCHANGED <<job, published, expires, files>> /\ root' \in {root, "removed"}
         \/ /\ UNCHANGED <<published, expires, files, root>>
            /\ \E r \in Reports :
                 /\ \A s \in Reports \ {r} : job'[s] = job[s]
                 /\ \/ job'[r].pc = "reserved" /\ r \notin published \cup files
                    \/ \E to \in {"created", "prune", "unstarted"} :
                         Moved(r, "reserved", to) \/ Moved(r, "created", to)
<1> USE DEF engineVars, mediaVars
<1>1. CASE Serve \/ Close \/ Sigterm \/ MainInterrupt \/ Exited
  <2> USE DEF Main, mainVars, vars
  <2>1. CASE Serve
    BY <2>1 DEF Serve, MainTimeout, MainPrune, MainAccept
  <2>2. CASE Close
    <3>1. CASE CloseRemove
      BY <3>1 DEF CloseRemove
    <3>2. CASE CloseRmdir
      BY <3>2 DEF CloseRmdir
    <3>3. CASE CloseStop \/ CloseJoin \/ CloseJoinRaises
      BY <3>3 DEF CloseStop, CloseJoin, CloseJoinRaises
    <3> QED
      BY <2>2, <3>1, <3>2, <3>3 DEF Close
  <2>3. CASE Sigterm \/ MainInterrupt \/ Exited
    BY <2>3 DEF Sigterm, MainInterrupt, Exited
  <2> QED
    BY <1>1, <2>1, <2>2, <2>3
<1>2. ASSUME NEW r \in Reports, NEW pc, job' = [job EXCEPT ![r] = At(r, pc)]
      PROVE  job'[r].pc = pc /\ \A s \in Reports \ {r} : job'[s] = job[s]
  <2>1. At(r, pc).pc = pc
    BY JobType DEF At, Job
  <2> QED
    BY <1>2, <2>1 DEF TypeOK
<1>3. ASSUME NEW h \in Handlers, Submit(h) \/ MediaFile(h)
      PROVE  \/ UNCHANGED job /\ Prune
             \/ UNCHANGED <<job, published, expires, files, root>>
             \/ /\ UNCHANGED <<published, expires, files, root>>
                /\ \E r \in Reports :
                     /\ \A s \in Reports \ {r} : job'[s] = job[s]
                     /\ \/ job'[r].pc = "reserved" /\ r \notin published \cup files
                        \/ \E to \in {"created", "prune", "unstarted"} :
                             Moved(r, "reserved", to) \/ Moved(r, "created", to)
  <2>1. CASE SubmitRefuse(h)
    BY <2>1 DEF SubmitRefuse
  <2>2. ASSUME NEW r \in Reports, SubmitAdmit(h, r)
        PROVE  /\ UNCHANGED <<published, expires, files, root>>
               /\ \A s \in Reports \ {r} : job'[s] = job[s]
               /\ job'[r].pc = "reserved" /\ r \notin published \cup files
    BY <2>2, <1>2 DEF SubmitAdmit, Fresh
  <2>3. CASE SubmitAssign(h)
    <3>1. req[h].report \in Reports /\ job[req[h].report].pc = "reserved"
      BY <2>3 DEF SubmitAssign, Handle, SlotInv, LockInv
    <3> QED
      BY <2>3, <3>1, <1>2 DEF SubmitAssign, Moved
  <2>4. ASSUME NEW pc \in {"prune", "unstarted"}, SubmitStart(h, pc)
        PROVE  /\ UNCHANGED <<published, expires, files, root>>
               /\ req[h].report \in Reports
               /\ \A s \in Reports \ {req[h].report} : job'[s] = job[s]
               /\ Moved(req[h].report, "created", pc)
    <3>1. req[h].report \in Reports /\ job[req[h].report].pc = "created"
      BY <2>4 DEF SubmitStart, Handle, SlotInv, LockInv
    <3> QED
      BY <2>4, <3>1, <1>2 DEF SubmitStart, Moved
  <2>5. CASE MediaFile(h)
    BY <2>5 DEF MediaFile, MediaPrune, MediaOpen, MediaDone
  <2> QED
    BY <1>3, <2>1, <2>2, <2>3, <2>4, <2>5 DEF Submit
<1> QED
  BY <1>1, <1>3

\* Where the media cannot be known to prune.
UnpublishedPC ==
  {"none", "reserved", "created", "unstarted", "prune", "fetch", "render", "check",
   "publish", "unlink"}

Unpublished == \A r \in Reports : job[r].pc \in UnpublishedPC => r \notin published

RenderedOnDisk ==
  root = "present" => \A r \in Reports : job[r].pc \in {"check", "publish"} => r \in files

\* The deadline of published media leaves time for all that is still to come.
DeadlineLasts ==
  \A r \in Reports :
    /\ job[r].pc \in PlayPC => r \in published
    /\ job[r].pc = "connect" => expires[r] > job[r].left + ObserveBound + WatchCap + DisconnectBound
    /\ job[r].pc = "observe" => expires[r] > job[r].left + WatchCap + DisconnectBound
    /\ job[r].pc = "watch" => expires[r] > job[r].left + DisconnectBound
    /\ job[r].pc = "disconnect" => expires[r] > job[r].left

MediaInv == Unpublished /\ NoOrphanMedia /\ RenderedOnDisk /\ PublishedOnDisk /\ DeadlineLasts

LEMMA MediaInit == Init => MediaInv
  BY DEF Init, MediaInv, Unpublished, NoOrphanMedia, RenderedOnDisk, PublishedOnDisk,
     DeadlineLasts, NoJob, PlayPC

\* prune takes nothing from a report that is still offered.
LEMMA MediaPruned ==
  ASSUME TypeOK, MediaInv, Prune,
         \A r \in Reports : \/ job'[r].pc = job[r].pc /\ job'[r].left = job[r].left
                            \/ Moved(r, "prune", "fetch")
  PROVE  MediaInv'
<1> USE DEF MediaInv, Prune, Expired, Moved
<1>1. Unpublished'
  BY DEF Unpublished, UnpublishedPC
<1>2. NoOrphanMedia'
  BY DEF NoOrphanMedia, Unpublished, UnpublishedPC, TypeOK
<1>3. RenderedOnDisk'
  BY DEF RenderedOnDisk, Unpublished, UnpublishedPC
<1>4. PublishedOnDisk'
  BY DEF PublishedOnDisk
<1>5. DeadlineLasts'
  <2> SUFFICES ASSUME NEW r \in Reports, job'[r].pc \in PlayPC
               PROVE  job[r].pc \in PlayPC /\ r \notin Expired /\ job'[r].pc = job[r].pc
                      /\ job'[r].left = job[r].left
    BY DEF DeadlineLasts, PlayPC
  <2>1. job[r].pc = job'[r].pc /\ job'[r].left = job[r].left
    BY DEF PlayPC
  <2>2. job[r].left \in Nat
    BY JobType DEF Job
  <2> QED
    BY <2>1, <2>2, Times DEF DeadlineLasts, PlayPC
<1> QED
  BY <1>1, <1>2, <1>3, <1>4, <1>5

LEMMA MediaRun ==
  ASSUME TypeOK, MediaInv, NEW r \in Reports, Run(r)
  PROVE  MediaInv'
<1> DEFINE Same == UNCHANGED <<published, expires, files, root>>
<1>f. \A s \in Reports \ {r} : job'[s] = job[s]
  BY RunFrame
<1>l. \A s \in Reports : job[s].left \in Nat /\ expires[s] \in Nat
  BY JobType, Times DEF Job, TypeOK
<1> USE <1>f DEF MediaInv, Moved
<1>1. CASE Moved(r, "prune", "fetch") /\ Prune
  BY <1>1, MediaPruned
<1>2. CASE Moved(r, "render", "check") /\ files' = files \cup {r}
           /\ UNCHANGED <<published, expires, root>>
  <2>1. Unpublished' /\ NoOrphanMedia'
    BY <1>2 DEF Unpublished, UnpublishedPC, NoOrphanMedia, TypeOK
  <2>2. RenderedOnDisk' /\ PublishedOnDisk'
    BY <1>2 DEF RenderedOnDisk, PublishedOnDisk
  <2>3. DeadlineLasts'
    BY <1>2 DEF DeadlineLasts, PlayPC
  <2> QED
    BY <2>1, <2>2, <2>3
<1>3. CASE /\ Moved(r, "publish", "connect") /\ job'[r].left = ConnectBound
           /\ published' = published \cup {r} /\ expires' = [expires EXCEPT ![r] = MediaTTL]
           /\ UNCHANGED <<files, root>>
  <2>1. Unpublished' /\ NoOrphanMedia'
    BY <1>3 DEF Unpublished, UnpublishedPC, NoOrphanMedia, TypeOK
  <2>2. RenderedOnDisk' /\ PublishedOnDisk'
    BY <1>3 DEF RenderedOnDisk, PublishedOnDisk
  <2>3. DeadlineLasts'
    <3>1. expires'[r] = MediaTTL /\ \A s \in Reports \ {r} : expires'[s] = expires[s]
      BY <1>3 DEF TypeOK
    <3> QED
      BY <1>3, <3>1, Times DEF DeadlineLasts, PlayPC
  <2> QED
    BY <2>1, <2>2, <2>3
<1>4. CASE Moved(r, "unlink", "release") /\ files' = files \ {r}
           /\ UNCHANGED <<published, expires, root>>
  <2>1. Unpublished' /\ NoOrphanMedia'
    BY <1>4 DEF Unpublished, UnpublishedPC, NoOrphanMedia, TypeOK
  <2>2. RenderedOnDisk' /\ PublishedOnDisk'
    BY <1>4 DEF RenderedOnDisk, PublishedOnDisk, Unpublished, UnpublishedPC
  <2>3. DeadlineLasts'
    BY <1>4 DEF DeadlineLasts, PlayPC
  <2> QED
    BY <2>1, <2>2, <2>3
<1>5. CASE Same /\ \/ \E to \in {"render", "release"} : Moved(r, "fetch", to)
                   \/ Moved(r, "render", "final")
                   \/ \E to \in {"publish", "final"} : Moved(r, "check", to)
                   \/ \E from \in PlayPC : Moved(r, from, "final")
                   \/ Moved(r, "final", "release") /\ r \in published
                   \/ Moved(r, "final", "unlink") /\ r \notin published
                   \/ Moved(r, "release", "done")
  <2>1. Unpublished'
    BY <1>5 DEF Unpublished, UnpublishedPC, PlayPC
  <2>2. NoOrphanMedia'
    BY <1>5 DEF Unpublished, UnpublishedPC, NoOrphanMedia, PlayPC, DeadlineLasts, TypeOK
  <2>3. RenderedOnDisk' /\ PublishedOnDisk'
    BY <1>5 DEF RenderedOnDisk, PublishedOnDisk, PlayPC
  <2>4. DeadlineLasts'
    BY <1>5 DEF DeadlineLasts, PlayPC
  <2> QED
    BY <2>1, <2>2, <2>3, <2>4
<1>6. CASE Same /\ \/ Moved(r, "connect", "observe") /\ job'[r].left = ObserveBound
                   \/ Moved(r, "observe", "watch") /\ job'[r].left \in WatchTimes
                   \/ \E from \in PlayPC \ {"disconnect"} :
                        Moved(r, from, "disconnect") /\ job'[r].left = DisconnectBound
  <2>1. Unpublished' /\ NoOrphanMedia' /\ RenderedOnDisk' /\ PublishedOnDisk'
    BY <1>6 DEF Unpublished, UnpublishedPC, NoOrphanMedia, RenderedOnDisk, PublishedOnDisk,
       DeadlineLasts, PlayPC, TypeOK
  <2>2. CASE Moved(r, "connect", "observe") /\ job'[r].left = ObserveBound
    BY <1>6, <2>1, <2>2, <1>l, Times DEF DeadlineLasts, PlayPC
  <2>3. CASE Moved(r, "observe", "watch") /\ job'[r].left \in WatchTimes
    BY <1>6, <2>1, <2>3, <1>l, Times DEF DeadlineLasts, PlayPC, WatchTimes
  <2>4. ASSUME NEW from \in PlayPC \ {"disconnect"}, Moved(r, from, "disconnect"),
               job'[r].left = DisconnectBound
        PROVE  MediaInv'
    BY <1>6, <2>1, <2>4, <1>l, Times DEF DeadlineLasts, PlayPC
  <2> QED
    BY <1>6, <2>2, <2>3, <2>4
<1> QED
  BY <1>1, <1>2, <1>3, <1>4, <1>5, <1>6, RunMoves

LEMMA MediaOther ==
  ASSUME TypeOK, SlotInv, MediaInv,
         Serve \/ Close \/ Sigterm \/ MainInterrupt \/ Exited
         \/ \E h \in Handlers : Submit(h) \/ MediaFile(h)
  PROVE  MediaInv'
<1> USE DEF MediaInv, Unpublished, UnpublishedPC, NoOrphanMedia, RenderedOnDisk, PublishedOnDisk,
            DeadlineLasts, PlayPC
<1>1. CASE UNCHANGED job /\ Prune
  BY <1>1, MediaPruned
<1>2. CASE UNCHANGED <<job, published, expires>> /\ files' = {} /\ root' = "listed"
  BY <1>2
<1>3. CASE UNCHANGED <<job, published, expires, files>> /\ root' \in {root, "removed"}
  BY <1>3
<1>4. ASSUME UNCHANGED <<published, expires, files, root>>,
             NEW r \in Reports, \A s \in Reports \ {r} : job'[s] = job[s],
             \/ job'[r].pc = "reserved" /\ r \notin published \cup files
             \/ \E to \in {"created", "prune", "unstarted"} :
                  Moved(r, "reserved", to) \/ Moved(r, "created", to)
      PROVE  MediaInv'
  <2>1. /\ job'[r].pc \in UnpublishedPC \ {"check", "publish", "unlink"}
        /\ r \notin published /\ r \notin files
    BY <1>4 DEF Moved, TypeOK
  <2> QED
    BY <1>4, <2>1 DEF TypeOK
<1> QED
  BY <1>1, <1>2, <1>3, <1>4, OtherMoves

\* A deadline and the wait it has to outlast come nearer together.
LEMMA MediaTick == TypeOK /\ MediaInv /\ Tick => MediaInv'
<1> SUFFICES ASSUME TypeOK, MediaInv, Tick PROVE MediaInv'
    OBVIOUS
<1>1. ASSUME NEW r \in Reports
      PROVE  /\ job'[r].pc = job[r].pc
             /\ job[r].pc \in PlayPC => job[r].left \in Nat \ {0} /\ job'[r].left = job[r].left - 1
  BY JobType DEF Tick, Overdue, Job, Minus1
<1>2. UNCHANGED <<published, files, root>>
  BY DEF Tick
<1>3. Unpublished' /\ NoOrphanMedia' /\ RenderedOnDisk' /\ PublishedOnDisk'
  BY <1>1, <1>2 DEF MediaInv, Unpublished, NoOrphanMedia, RenderedOnDisk, PublishedOnDisk, TypeOK
<1>4. DeadlineLasts'
  <2> SUFFICES ASSUME NEW r \in Reports, job[r].pc \in PlayPC
               PROVE  /\ r \in published
                      /\ job[r].pc = "connect" =>
                           expires'[r] > job'[r].left + ObserveBound + WatchCap + DisconnectBound
                      /\ job[r].pc = "observe" =>
                           expires'[r] > job'[r].left + WatchCap + DisconnectBound
                      /\ job[r].pc = "watch" => expires'[r] > job'[r].left + DisconnectBound
                      /\ job[r].pc = "disconnect" => expires'[r] > job'[r].left
    BY <1>1, <1>2 DEF DeadlineLasts, PlayPC
  <2>1. r \in published /\ expires[r] \in Nat /\ job[r].left \in Nat \ {0}
        /\ job'[r].left = job[r].left - 1
    BY <1>1, Times DEF MediaInv, DeadlineLasts, TypeOK
  <2>2. expires[r] > 0
    BY <2>1, Times DEF MediaInv, DeadlineLasts, PlayPC
  <2>3. expires'[r] = expires[r] - 1
    <3>1. expires'[r] = Minus1(expires[r])
      BY <2>1 DEF Tick
    <3> QED
      BY <3>1, <2>2 DEF Minus1
  <2> QED
    BY <2>1, <2>3, Times DEF MediaInv, DeadlineLasts, PlayPC
<1> QED
  BY <1>3, <1>4 DEF MediaInv

THEOREM MediaCorrect == Spec => []MediaInv
<1>1. TypeOK /\ SlotInv /\ MediaInv /\ [Next]_vars => MediaInv'
  <2> SUFFICES ASSUME TypeOK, SlotInv, MediaInv, [Next]_vars PROVE MediaInv'
      OBVIOUS
  <2>1. CASE UNCHANGED vars
    BY <2>1 DEF vars, mediaVars, MediaInv, Unpublished, NoOrphanMedia, RenderedOnDisk,
       PublishedOnDisk, DeadlineLasts
  <2> QED
    BY <2>1, MediaOther, MediaRun, MediaTick DEF Next
<1> QED
  BY TypeCorrect, SlotCorrect, MediaInit, <1>1, PTL DEF Spec

\* No mp4 is left on disk that neither prune nor its worker will delete.
THEOREM NoOrphans == Spec => []NoOrphanMedia
  BY MediaCorrect, PTL DEF MediaInv

\* An announced URL leads to a file until the engine closes.
THEOREM OfferedOnDisk == Spec => []PublishedOnDisk
  BY MediaCorrect, PTL DEF MediaInv

\* TTLAssumption keeps the media of a report alive until its playback is over.
THEOREM Served == Spec => []ServedWhilePlaying
<1>1. TypeOK /\ MediaInv => ServedWhilePlaying
  BY JobType, Times DEF MediaInv, DeadlineLasts, ServedWhilePlaying, PlayPC, Job, TypeOK
<1> QED
  BY TypeCorrect, MediaCorrect, <1>1, PTL

-----------------------------------------------------------------------------
(* Expired media *)

\* Where a worker never publishes again.
OncePC == PlayPC \cup FinallyPC \cup {"done"}

\* A handler between its two critical sections in media_file cannot find media
\* again that its own prune has deleted.
LookupInv ==
  \A h \in Handlers :
    /\ req[h].pc \in {"lookup", "stream"} => req[h].report \in Reports
    /\ req[h].pc = "lookup" /\ req[h].expired =>
         req[h].report \notin published /\ job[req[h].report].pc \in OncePC
    /\ req[h].pc = "stream" => ~req[h].expired

LEMMA LookupInit == Init => LookupInv
  BY DEF Init, LookupInv, NoRequest

\* What keeps the invariant of the handlers that take no step.
LEMMA LookupKept ==
  ASSUME LookupInv, NEW h \in Handlers, req'[h] = req[h],
         req[h].pc \in {"lookup", "stream"} =>
           \/ published' \subseteq published /\ job'[req[h].report].pc = job[req[h].report].pc
           \/ req[h].report \notin published /\ job[req[h].report].pc \in OncePC =>
                req[h].report \notin published' /\ job'[req[h].report].pc \in OncePC
  PROVE  /\ req'[h].pc \in {"lookup", "stream"} => req'[h].report \in Reports
         /\ req'[h].pc = "lookup" /\ req'[h].expired =>
              req'[h].report \notin published' /\ job'[req'[h].report].pc \in OncePC
         /\ req'[h].pc = "stream" => ~req'[h].expired
  BY DEF LookupInv

LEMMA LookupRun ==
  ASSUME TypeOK, LookupInv, NEW r \in Reports, Run(r)
  PROVE  LookupInv'
<1>1. req' = req /\ \A s \in Reports \ {r} : job'[s] = job[s]
  BY RunFrame
<1>2. published' \subseteq published \cup {r}
  BY RunMoves DEF Prune
<1>3. job[r].pc \in OncePC => published' = published /\ job'[r].pc \in OncePC
  BY RunMoves DEF Moved, OncePC, PlayPC, FinallyPC
<1> SUFFICES ASSUME NEW h \in Handlers, req[h].pc \in {"lookup", "stream"},
                    req[h].report \notin published, job[req[h].report].pc \in OncePC
             PROVE  req[h].report \notin published' /\ job'[req[h].report].pc \in OncePC
  BY <1>1, LookupKept DEF LookupInv
<1>4. req[h].report \in Reports
  BY DEF LookupInv
<1> QED
  BY <1>1, <1>2, <1>3, <1>4

LEMMA LookupHandler ==
  ASSUME TypeOK, SlotInv, MediaInv, LookupInv, NEW h \in Handlers, Submit(h) \/ MediaFile(h)
  PROVE  LookupInv'
<1>h. ASSUME NEW from, NEW new, Handle(h, from, new)
      PROVE  /\ req[h].pc = from /\ req'[h] = new
             /\ \A g \in Handlers \ {h} : req'[g] = req[g]
  BY <1>h DEF Handle, TypeOK
<1>n. NoRequest.pc = "idle"
  BY DEF NoRequest
\* A step that moves h out of media_file, or into submit.
<1>s. ASSUME NEW from, NEW new, Handle(h, from, new), new.pc \notin {"lookup", "stream"},
             published' = published,
             \A g \in Handlers \ {h} : req[g].pc \in {"lookup", "stream"} /\ req[g].report \in Reports =>
               \/ job'[req[g].report].pc = job[req[g].report].pc
               \/ job[req[g].report].pc \notin OncePC
      PROVE  LookupInv'
  <2> SUFFICES ASSUME NEW g \in Handlers
               PROVE  /\ req'[g].pc \in {"lookup", "stream"} => req'[g].report \in Reports
                      /\ req'[g].pc = "lookup" /\ req'[g].expired =>
                           req'[g].report \notin published' /\ job'[req'[g].report].pc \in OncePC
                      /\ req'[g].pc = "stream" => ~req'[g].expired
    BY DEF LookupInv
  <2>1. CASE g = h
    BY <1>s, <1>h, <2>1
  <2>2. CASE g # h
    <3>1. req'[g] = req[g]
      BY <1>s, <1>h, <2>2
    <3>2. req[g].pc \in {"lookup", "stream"} => req[g].report \in Reports
      BY DEF LookupInv
    <3> QED
      BY <1>s, <2>2, <3>1, <3>2, LookupKept
  <2> QED
    BY <2>1, <2>2
<1>1. CASE SubmitRefuse(h)
  BY <1>1, <1>s, <1>n DEF SubmitRefuse, mediaVars
<1>2. ASSUME NEW r \in Reports, SubmitAdmit(h, r) PROVE LookupInv'
  <2> DEFINE new == [NoRequest EXCEPT !.pc = "assign", !.report = r]
  <2>1. new.pc = "assign" /\ Handle(h, "request", new)
    BY <1>2 DEF SubmitAdmit, NoRequest
  <2>2. \A g \in Handlers : req[g].report # r
    BY <1>2 DEF SubmitAdmit, Fresh
  <2>3. \A s \in Reports \ {r} : job'[s] = job[s]
    BY <1>2 DEF SubmitAdmit, TypeOK
  <2>4. published' = published
    BY <1>2 DEF SubmitAdmit, mediaVars
  <2> HIDE DEF new
  <2> QED
    BY <2>1, <2>2, <2>3, <2>4, <1>s
<1>3. ASSUME NEW from \in {"assign", "start"}, NEW new, NEW pc, Handle(h, from, new),
             new.pc \in {"start", "idle"}, published' = published,
             job' = [job EXCEPT ![req[h].report] = At(req[h].report, pc)]
      PROVE  LookupInv'
  <2>1. req[h].report \in Reports /\ job[req[h].report].pc \in {"reserved", "created"}
    BY <1>3, <1>h DEF SlotInv, LockInv
  <2>2. job[req[h].report].pc \notin OncePC
    BY <2>1 DEF OncePC, PlayPC, FinallyPC
  <2>3. \A s \in Reports \ {req[h].report} : job'[s] = job[s]
    BY <1>3 DEF TypeOK
  <2> QED
    BY <1>3, <2>2, <2>3, <1>s
<1>4. CASE SubmitAssign(h)
  <2>1. [req[h] EXCEPT !.pc = "start"].pc = "start"
    BY DEF TypeOK, Request
  <2> QED
    BY <1>4, <2>1, <1>3 DEF SubmitAssign, mediaVars
<1>5. ASSUME NEW pc \in {"prune", "unstarted"}, SubmitStart(h, pc) PROVE LookupInv'
  BY <1>5, <1>3, <1>n DEF SubmitStart, mediaVars
\* Published media is that of a worker which has published it.
<1>6. ASSUME NEW r \in Reports, MediaPrune(h, r) PROVE LookupInv'
  <2> DEFINE new == [pc |-> "lookup", report |-> r, expired |-> r \in Expired]
  <2>1. /\ req'[h] = new /\ job' = job /\ published' = published \ Expired
        /\ \A g \in Handlers \ {h} : req'[g] = req[g]
    BY <1>6, <1>h DEF MediaPrune, Prune
  <2>2. r \in Expired => r \notin published' /\ job[r].pc \in OncePC
    <3>1. r \in Expired => r \in published
      BY DEF Expired
    <3>2. r \in published => job[r].pc \in OncePC
      BY JobType DEF MediaInv, Unpublished, UnpublishedPC, Job, OncePC, LivePC, RunningPC
    <3> QED
      BY <2>1, <3>1, <3>2
  <2>3. new.pc = "lookup" /\ new.report = r /\ (new.expired => r \in Expired)
    OBVIOUS
  <2> HIDE DEF new
  <2>4. ASSUME NEW g \in Handlers \ {h}
        PROVE  /\ req'[g].pc \in {"lookup", "stream"} => req'[g].report \in Reports
               /\ req'[g].pc = "lookup" /\ req'[g].expired =>
                    req'[g].report \notin published' /\ job'[req'[g].report].pc \in OncePC
               /\ req'[g].pc = "stream" => ~req'[g].expired
    BY <2>1, LookupKept
  <2>5. /\ req'[h].pc = "lookup" /\ req'[h].report \in Reports
        /\ req'[h].expired => req'[h].report \notin published' /\ job'[req'[h].report].pc \in OncePC
    BY <2>1, <2>2, <2>3
  <2> QED
    BY <2>4, <2>5 DEF LookupInv
<1>7. CASE MediaOpen(h)
  <2>1. req'[h] = (IF req[h].report \in published \cap files
                   THEN [req[h] EXCEPT !.pc = "stream"] ELSE NoRequest)
        /\ req[h].pc = "lookup" /\ \A g \in Handlers \ {h} : req'[g] = req[g]
    BY <1>7, <1>h DEF MediaOpen
  <2>2. [req[h] EXCEPT !.pc = "stream"].pc = "stream"
        /\ [req[h] EXCEPT !.pc = "stream"].report = req[h].report
        /\ [req[h] EXCEPT !.pc = "stream"].expired = req[h].expired
    BY DEF TypeOK, Request
  <2>3. req[h].report \in published => ~req[h].expired /\ req[h].report \in Reports
    BY <2>1 DEF LookupInv
  <2>4. job' = job /\ published' = published
    BY <1>7 DEF MediaOpen, mediaVars
  <2> QED
    BY <2>1, <2>2, <2>3, <2>4, <1>n, LookupKept DEF LookupInv
<1>8. CASE MediaDone(h)
  BY <1>8, <1>s, <1>n DEF MediaDone, mediaVars
<1> QED
  BY <1>1, <1>2, <1>4, <1>5, <1>6, <1>7, <1>8 DEF Submit, MediaFile

\* The main thread and time publish nothing and move no worker.
LEMMA LookupOther ==
  ASSUME TypeOK, LookupInv, Serve \/ Close \/ Sigterm \/ MainInterrupt \/ Exited \/ Tick
  PROVE  LookupInv'
<1>1. published' \subseteq published /\ \A r \in Reports : job'[r].pc = job[r].pc
  <2>1. CASE Tick
    <3>1. \A r \in Reports : job'[r].pc = job[r].pc
      BY <2>1, JobType DEF Tick, Job
    <3> QED
      BY <2>1, <3>1 DEF Tick
  <2>2. CASE Sigterm \/ Exited \/ CloseStop
    BY <2>2 DEF Sigterm, Exited, CloseStop, vars, mediaVars
  <2>3. CASE Serve \/ Close \/ MainInterrupt
    BY <2>3, <2>2 DEF Serve, Close, MainTimeout, MainPrune, MainAccept, MainInterrupt, CloseJoin,
       CloseJoinRaises, CloseRemove, CloseRmdir, Main, mediaVars, Prune
  <2> QED
    BY <2>1, <2>2, <2>3
<1>2. \A h \in Handlers : req'[h] = req[h] \/ req'[h].pc = "request"
  <2>1. ASSUME NEW h \in Handlers, MainAccept(h)
        PROVE  \A g \in Handlers : req'[g] = req[g] \/ req'[g].pc = "request"
    BY <2>1 DEF MainAccept, TypeOK, Request
  <2>2. CASE Tick \/ Sigterm \/ Exited
    BY <2>2 DEF Tick, Sigterm, Exited, vars
  <2>3. CASE MainTimeout \/ MainPrune \/ Close \/ MainInterrupt
    BY <2>3 DEF Close, MainTimeout, MainPrune, MainInterrupt, CloseStop, CloseJoin,
       CloseJoinRaises, CloseRemove, CloseRmdir
  <2> QED
    BY <2>1, <2>2, <2>3 DEF Serve
<1>3. ASSUME NEW h \in Handlers, req'[h] = req[h]
      PROVE  /\ req'[h].pc \in {"lookup", "stream"} => req'[h].report \in Reports
             /\ req'[h].pc = "lookup" /\ req'[h].expired =>
                  req'[h].report \notin published' /\ job'[req'[h].report].pc \in OncePC
             /\ req'[h].pc = "stream" => ~req'[h].expired
  <2>1. req[h].pc \in {"lookup", "stream"} => req[h].report \in Reports
    BY DEF LookupInv
  <2> QED
    BY <1>1, <1>3, <2>1, LookupKept
<1> QED
  BY <1>2, <1>3 DEF LookupInv

\* The media route never streams media that had expired when it was asked for.
THEOREM NeverStale == Spec => []ExpiredNeverServed
<1>1. TypeOK /\ SlotInv /\ MediaInv /\ LookupInv /\ [Next]_vars => LookupInv'
  <2> SUFFICES ASSUME TypeOK, SlotInv, MediaInv, LookupInv, [Next]_vars PROVE LookupInv'
      OBVIOUS
  <2>1. CASE UNCHANGED vars
    BY <2>1 DEF vars, mediaVars, LookupInv
  <2> QED
    BY <2>1, LookupOther, LookupHandler, LookupRun DEF Next
<1>2. LookupInv => ExpiredNeverServed
  BY DEF LookupInv, ExpiredNeverServed
<1> QED
  BY TypeCorrect, SlotCorrect, MediaCorrect, LookupInit, <1>1, <1>2, PTL DEF Spec

-----------------------------------------------------------------------------
(* The result of a report *)

\* What a worker's own variables say at each pc, given the published media.
Truthful(j, offered) ==
  /\ j.pc \in {"publish"} \cup PlayPC => j.fallback \/ j.age <= MaxAge
  /\ j.pc = "watch" => j.seen
  /\ j.pc \in {"disconnect"} \cup FinallyPC =>
       /\ j.result \in Played => j.seen
       /\ j.result = "report_played" => ~j.fallback /\ j.age <= MaxAge
       /\ j.result = "fallback_played" => j.fallback
       /\ j.result = "snapshot_expired" => ~offered

TruthInv == \A r \in Reports : Truthful(job[r], r \in published)

LEMMA TruthInit == Init => TruthInv
  BY DEF Init, TruthInv, Truthful, NoJob, PlayPC, FinallyPC

LEMMA TruthRun ==
  ASSUME TypeOK, MediaInv, TruthInv, NEW r \in Reports, Run(r)
  PROVE  TruthInv'
<1> USE DEF TruthInv
<1>f. \A s \in Reports \ {r} : job'[s] = job[s]
  BY RunFrame
<1>p. published' \subseteq published \cup {r}
  BY RunMoves DEF Prune
<1>j. job[r] \in Job /\ NoJob \in Job
  BY JobType
<1>t. Truthful(job[r], r \in published)
  OBVIOUS
<1>o. ASSUME NEW s \in Reports \ {r} PROVE Truthful(job'[s], s \in published')
  <2>1. (s \in published') => (s \in published)
    BY <1>p
  <2>2. Truthful(job[s], s \in published) /\ job'[s] = job[s]
    BY <1>f
  <2> QED
    BY <2>1, <2>2 DEF Truthful
<1> SUFFICES Truthful(job'[r], r \in published')
  BY <1>o
<1>s. ASSUME NEW from, NEW new, Step(r, from, new)
      PROVE  job[r].pc = from /\ job'[r] = new
  BY <1>s DEF Step, TypeOK
<1>m. ASSUME Private(r, job[r].pc, job'[r]) PROVE published' = published
  BY <1>m DEF Private, mediaVars
<1> USE <1>s, <1>j, <1>t DEF At, Job, Truthful, PlayPC, FinallyPC
\* Where nothing is promised.
<1>q. ASSUME job'[r].pc \in {"fetch", "render", "check", "done"}
      PROVE  Truthful(job'[r], r \in published')
  BY <1>q
<1>r. ASSUME NEW from, NEW to, Raise(r, from, to), to \in FinallyPC
      PROVE  Truthful(job'[r], r \in published')
  <2> DEFINE new == [At(r, to) EXCEPT !.result = "playback_or_render_failure", !.left = 0]
  <2>1. new.pc = to /\ new.result = "playback_or_render_failure"
    OBVIOUS
  <2>2. job'[r] = new
    BY <1>r DEF Raise, Private
  <2> HIDE DEF new
  <2> QED
    BY <1>r, <2>1, <2>2 DEF Played
<1>d. ASSUME NEW from, PlayRaises(r, from), job[r].pc \in PlayPC
      PROVE  Truthful(job'[r], r \in published')
  <2> DEFINE new == [At(r, "disconnect") EXCEPT !.result = "playback_or_render_failure",
                                                !.left = DisconnectBound]
  <2>1. /\ new.pc = "disconnect" /\ new.result = "playback_or_render_failure"
        /\ new.fallback = job[r].fallback /\ new.age = job[r].age
    OBVIOUS
  <2>2. job'[r] = new
    BY <1>d DEF PlayRaises, Private
  <2> HIDE DEF new
  <2> QED
    BY <1>d, <2>1, <2>2 DEF Played
<1>1. CASE WorkerPrune(r) \/ Fetch(r) \/ Render(r) \/ Release(r)
  <2>1. CASE Fetch(r)
    <3>1. ASSUME NEW a \in 0..MaxAge, Private(r, "fetch", [At(r, "render") EXCEPT !.age = a])
          PROVE  job'[r].pc = "render"
      <4> DEFINE new == [At(r, "render") EXCEPT !.age = a]
      <4>1. new.pc = "render"
        OBVIOUS
      <4>2. job'[r] = new
        BY <3>1 DEF Private
      <4> HIDE DEF new
      <4> QED
        BY <4>1, <4>2
    <3>2. ASSUME Private(r, "fetch", [At(r, "render") EXCEPT !.fallback = TRUE])
          PROVE  job'[r].pc = "render"
      <4> DEFINE new == [At(r, "render") EXCEPT !.fallback = TRUE]
      <4>1. new.pc = "render"
        OBVIOUS
      <4>2. job'[r] = new
        BY <3>2 DEF Private
      <4> HIDE DEF new
      <4> QED
        BY <4>1, <4>2
    <3> QED
      BY <2>1, <3>1, <3>2, <1>q DEF Fetch
  <2>2. CASE WorkerPrune(r) \/ Render(r) \/ Release(r)
    BY <2>2, <1>q DEF WorkerPrune, Render, Release
  <2> QED
    BY <1>1, <2>1, <2>2
<1>2. CASE FetchRaises(r) \/ RenderRaises(r) \/ DisconnectRaises(r)
  BY <1>2, <1>r DEF FetchRaises, RenderRaises, DisconnectRaises
<1>2a. CASE ConnectRaises(r) \/ NotObserved(r) \/ WatchRaises(r)
  <2>1. ASSUME NEW from \in PlayPC, PlayRaises(r, from) PROVE Truthful(job'[r], r \in published')
    <3>1. job[r].pc \in PlayPC
      BY <2>1 DEF PlayRaises, Private
    <3> QED
      BY <2>1, <3>1, <1>d
  <2> QED
    BY <1>2a, <2>1, <1>r DEF ConnectRaises, NotObserved, WatchRaises
<1>3. CASE CheckAge(r)
  <2>1. job[r].pc = "check" /\ published' = published
    BY <1>3 DEF CheckAge, Private, mediaVars
  <2>2. r \notin published
    BY <2>1 DEF MediaInv, Unpublished, UnpublishedPC
  <2>3. CASE ~job[r].fallback /\ job[r].age > MaxAge
    <3> DEFINE new == [At(r, "final") EXCEPT !.result = "snapshot_expired"]
    <3>1. new.pc = "final" /\ new.result = "snapshot_expired"
      OBVIOUS
    <3>2. job'[r] = new
      BY <1>3, <2>3 DEF CheckAge, Private
    <3> HIDE DEF new
    <3> QED
      BY <2>1, <2>2, <3>1, <3>2 DEF Played
  <2>4. CASE ~(~job[r].fallback /\ job[r].age > MaxAge)
    <3>1. job'[r].pc = "publish" /\ job'[r].fallback = job[r].fallback /\ job'[r].age = job[r].age
      BY <1>3, <2>4 DEF CheckAge, Private
    <3> QED
      BY <1>j, <2>4, <3>1, Times
  <2> QED
    BY <2>3, <2>4
<1>4. CASE Publish(r)
  BY <1>4 DEF Publish
<1>5. CASE Connect(r)
  BY <1>5 DEF Connect, Private
<1>6. CASE Observe(r)
  <2>1. ASSUME NEW d \in WatchTimes,
               Private(r, "observe", [At(r, "watch") EXCEPT !.left = d, !.seen = TRUE])
        PROVE  Truthful(job'[r], r \in published')
    <3> DEFINE new == [At(r, "watch") EXCEPT !.left = d, !.seen = TRUE]
    <3>1. /\ new.pc = "watch" /\ new.seen
          /\ new.fallback = job[r].fallback /\ new.age = job[r].age
      OBVIOUS
    <3>2. job[r].pc = "observe" /\ job'[r] = new
      BY <2>1 DEF Private
    <3> HIDE DEF new
    <3> QED
      BY <3>1, <3>2
  <2> QED
    BY <1>6, <2>1 DEF Observe
<1>7. CASE Finish(r)
  <2> DEFINE res == IF job[r].fallback THEN "fallback_played" ELSE "report_played"
             new == [At(r, "disconnect") EXCEPT !.left = DisconnectBound, !.result = res]
  <2>1. /\ new.pc = "disconnect" /\ new.result = res /\ new.seen = job[r].seen
        /\ new.fallback = job[r].fallback /\ new.age = job[r].age
    OBVIOUS
  <2>2. job[r].pc = "watch" /\ job'[r] = new
    BY <1>7 DEF Finish, Private
  <2> HIDE DEF new
  <2> QED
    BY <2>1, <2>2 DEF Played
<1>8. CASE Final(r)
  <2> DEFINE to == IF r \in published THEN "release" ELSE "unlink"
  <2>1. job[r].pc = "final" /\ job'[r] = At(r, to) /\ published' = published
    BY <1>8 DEF Final, Private, mediaVars
  <2>2. /\ At(r, to).pc = to /\ At(r, to).result = job[r].result /\ At(r, to).seen = job[r].seen
        /\ At(r, to).fallback = job[r].fallback /\ At(r, to).age = job[r].age
    OBVIOUS
  <2>3. to \in {"release", "unlink"}
    OBVIOUS
  <2> HIDE DEF to
  <2> QED
    BY <2>1, <2>2, <2>3
<1>9. CASE Unlink(r)
  BY <1>9 DEF Unlink
<1>10. CASE Disconnect(r)
  <2> DEFINE new == [At(r, "final") EXCEPT !.left = 0]
  <2>1. /\ new.pc = "final" /\ new.result = job[r].result /\ new.seen = job[r].seen
        /\ new.fallback = job[r].fallback /\ new.age = job[r].age
    OBVIOUS
  <2>2. job[r].pc = "disconnect" /\ job'[r] = new /\ published' = published
    BY <1>10 DEF Disconnect, Private, mediaVars
  <2> HIDE DEF new
  <2> QED
    BY <2>1, <2>2
<1> QED
  BY <1>1, <1>2, <1>2a, <1>3, <1>4, <1>5, <1>6, <1>7, <1>8, <1>9, <1>10 DEF Run

LEMMA TruthOther ==
  ASSUME TypeOK, SlotInv, TruthInv,
         Serve \/ Close \/ Sigterm \/ MainInterrupt \/ Exited
         \/ \E h \in Handlers : Submit(h) \/ MediaFile(h)
  PROVE  TruthInv'
<1>1. published' \subseteq published
  BY OtherMoves DEF Prune
<1>2. \A s \in Reports : \/ job'[s] = job[s]
                         \/ job'[s].pc \in {"reserved", "created", "prune", "unstarted"}
  <2>1. UNCHANGED job \/ \E r \in Reports :
          /\ \A s \in Reports \ {r} : job'[s] = job[s]
          /\ job'[r].pc \in {"reserved", "created", "prune", "unstarted"}
    BY OtherMoves DEF Moved
  <2> QED
    BY <2>1
<1>3. ASSUME NEW s \in Reports PROVE Truthful(job'[s], s \in published')
  <2>1. CASE job'[s] = job[s]
    <3>1. (s \in published') => (s \in published)
      BY <1>1
    <3>2. Truthful(job[s], s \in published)
      BY DEF TruthInv
    <3> QED
      BY <2>1, <3>1, <3>2 DEF Truthful
  <2>2. CASE job'[s].pc \in {"reserved", "created", "prune", "unstarted"}
    BY <2>2 DEF Truthful, PlayPC, FinallyPC
  <2> QED
    BY <1>2, <2>1, <2>2
<1> QED
  BY <1>3 DEF TruthInv

\* The age of a snapshot counts until it is checked.
LEMMA TruthTick == TypeOK /\ TruthInv /\ Tick => TruthInv'
<1> SUFFICES ASSUME TypeOK, TruthInv, Tick, NEW r \in Reports
             PROVE  Truthful(job'[r], r \in published')
  BY DEF TruthInv
<1>1. published' = published
  BY DEF Tick
<1> DEFINE left == IF job[r].pc \in PlayPC THEN Minus1(job[r].left) ELSE job[r].left
           age == IF job[r].pc \in {"render", "check"} /\ job[r].age <= MaxAge
                  THEN job[r].age + 1 ELSE job[r].age
<1>2. job'[r] = [job[r] EXCEPT !.left = left, !.age = age]
  BY DEF Tick
<1>3. job[r].pc \notin {"render", "check"} => age = job[r].age
  OBVIOUS
<1> HIDE DEF left, age
<1>4. /\ job'[r].pc = job[r].pc /\ job'[r].seen = job[r].seen /\ job'[r].age = age
      /\ job'[r].fallback = job[r].fallback /\ job'[r].result = job[r].result
  BY <1>2, JobType DEF Job
<1>5. Truthful(job[r], r \in published)
  BY DEF TruthInv
<1> QED
  BY <1>1, <1>3, <1>4, <1>5 DEF Truthful, PlayPC, FinallyPC

\* What is reported of a finished report is what happened.
THEOREM Truth == Spec => []OutcomeTruthful
<1>1. TypeOK /\ SlotInv /\ MediaInv /\ TruthInv /\ [Next]_vars => TruthInv'
  <2> SUFFICES ASSUME TypeOK, SlotInv, MediaInv, TruthInv, [Next]_vars PROVE TruthInv'
      OBVIOUS
  <2>1. CASE UNCHANGED vars
    BY <2>1 DEF vars, mediaVars, TruthInv
  <2> QED
    BY <2>1, TruthOther, TruthRun, TruthTick DEF Next
<1>2. TruthInv => OutcomeTruthful
  BY DEF TruthInv, Truthful, OutcomeTruthful
<1> QED
  BY TypeCorrect, SlotCorrect, MediaCorrect, TruthInit, <1>1, <1>2, PTL DEF Spec

-----------------------------------------------------------------------------
(* Shutdown during playback *)

AtPlay == {"observe", "watch", "disconnect"}

\* Once close has begun during playback, nobody submits, the worker spends time
\* only on disconnecting, less than join is ready to wait, and join therefore
\* returns only when the worker has ended.
WindInv ==
  /\ \A r \in Reports : job[r].pc = "disconnect" => job[r].left <= DisconnectBound
  /\ playAtStop =>
       /\ stop
       /\ mpc \in {"join", "remove", "rmdir", "exited"}
       /\ \A h \in Handlers : req[h].pc \notin {"assign", "start"}
       /\ worker \in Reports
       /\ job[worker].pc \in AtPlay \cup {"done"} \cup FinallyPC
       /\ job[worker].pc # "done" => mpc = "join" /\ joinLeft > 0
       /\ job[worker].pc \in {"observe", "watch"} => joinLeft = JoinBound
       /\ job[worker].pc = "disconnect" => joinLeft > job[worker].left

LEMMA WindMain ==
  ASSUME TypeOK, SlotInv, WindInv, Serve \/ Close \/ Sigterm \/ MainInterrupt \/ Exited
  PROVE  WindInv'
<1> USE DEF WindInv, AtPlay
<1>j. UNCHANGED job
  <2>1. CASE Serve
    BY <2>1 DEF Serve, MainTimeout, MainPrune, MainAccept, Main
  <2>2. CASE Close
    BY <2>2 DEF Close, CloseStop, CloseJoin, CloseJoinRaises, CloseRemove, CloseRmdir, Main
  <2>3. CASE Sigterm \/ MainInterrupt \/ Exited
    BY <2>3 DEF Sigterm, MainInterrupt, Main, Exited, vars
  <2> QED
    BY <2>1, <2>2, <2>3
<1>1. CASE Serve \/ MainInterrupt
  <2>1. mpc \in {"turn", "prune"} /\ playAtStop' = playAtStop
    <3>1. CASE Serve
      BY <3>1 DEF Serve, MainTimeout, MainPrune, MainAccept, Main
    <3>2. CASE MainInterrupt
      BY <3>2 DEF MainInterrupt, Main
    <3> QED
      BY <1>1, <3>1, <3>2
  <2>2. ~playAtStop'
    BY <2>1 DEF TypeOK
  <2> QED
    BY <1>j, <2>2
<1>2. CASE Sigterm \/ Exited
  <2>1. UNCHANGED <<worker, mpc, joinLeft, playAtStop, req, job>> /\ (stop => stop')
    BY <1>2 DEF Sigterm, Exited, mainVars, engineVars, vars
  <2> QED
    BY <2>1
<1>3. CASE CloseStop
  <2> SUFFICES ASSUME playAtStop'
               PROVE  /\ stop' /\ mpc' = "join" /\ joinLeft' = JoinBound
                      /\ \A h \in Handlers : req'[h].pc \notin {"assign", "start"}
                      /\ worker' \in Reports /\ job'[worker'].pc \in AtPlay
                      /\ job'[worker'].pc = "disconnect" => JoinBound > job'[worker'].left
    BY <1>j, Times
  <2>1. /\ stop' /\ mpc' = "join" /\ joinLeft' = JoinBound
        /\ UNCHANGED <<req, worker, job>>
        /\ WorkerIn(AtPlay)
    BY <1>3 DEF CloseStop
  <2>2. worker \in Reports /\ job[worker].pc \in AtPlay
    BY <2>1 DEF WorkerIn
  <2>3. ASSUME NEW h \in Handlers, req[h].pc \in {"assign", "start"} PROVE FALSE
    <3>1. req[h].report \in Reports /\ job[req[h].report].pc \in {"reserved", "created"}
      BY <2>3 DEF SlotInv, LockInv
    <3>2. req[h].report = worker
      BY <2>2, <3>1 DEF SlotInv, OneReportAtATime, Live, LivePC, RunningPC, PlayPC
    <3> QED
      BY <2>2, <3>1, <3>2
  <2>4. job[worker].pc = "disconnect" => JoinBound > job[worker].left
    <3>1. job[worker].left \in Nat
      BY <2>2, JobType DEF Job
    <3> QED
      BY <2>2, <3>1, Times
  <2> QED
    BY <2>1, <2>2, <2>3, <2>4
<1>4. CASE CloseJoin
  <2>1. /\ mpc = "join" /\ mpc' = "remove"
        /\ UNCHANGED <<stop, worker, req, job, playAtStop, joinLeft>>
        /\ worker = None \/ WorkerIn({"done"}) \/ joinLeft = 0
    BY <1>4 DEF CloseJoin, Main, engineVars
  <2>2. playAtStop => job[worker].pc = "done"
    BY <2>1, NoneAssumption DEF WorkerIn
  <2> QED
    BY <2>1, <2>2, <1>j DEF FinallyPC
<1>5. CASE CloseJoinRaises
  <2>1. UNCHANGED playAtStop /\ WorkerIn({"created", "unstarted"})
    BY <1>5 DEF CloseJoinRaises, Main
  <2> QED
    BY <2>1, <1>j DEF WorkerIn, FinallyPC
<1>6. CASE CloseRemove \/ CloseRmdir
  BY <1>6 DEF CloseRemove, CloseRmdir, Main, engineVars
<1> QED
  BY <1>1, <1>2, <1>3, <1>4, <1>5, <1>6 DEF Close

LEMMA WindHandler ==
  ASSUME TypeOK, SlotInv, WindInv, NEW h \in Handlers, Submit(h) \/ MediaFile(h)
  PROVE  WindInv'
<1>a. ASSUME NEW from, NEW new, Handle(h, from, new) PROVE playAtStop' = playAtStop
  BY <1>a DEF Handle, mainVars
<1>b. playAtStop' = playAtStop
  <2>1. CASE Submit(h)
    BY <2>1, <1>a DEF Submit, SubmitRefuse, SubmitAdmit, SubmitAssign, SubmitStart
  <2>2. CASE MediaFile(h)
    BY <2>2, <1>a DEF MediaFile, MediaPrune, MediaOpen, MediaDone
  <2> QED
    BY <2>1, <2>2
\* No handler's step leads into a disconnect.
<1>c. \A r \in Reports : job'[r].pc = "disconnect" => job'[r] = job[r]
  <2>1. \/ UNCHANGED job
        \/ \E r \in Reports : /\ \A s \in Reports \ {r} : job'[s] = job[s]
                             /\ job'[r].pc # "disconnect"
    BY OtherMoves DEF Moved
  <2> QED
    BY <2>1
<1> SUFFICES ASSUME playAtStop PROVE WindInv'
  BY <1>b, <1>c DEF WindInv
<1>h. ASSUME NEW from, NEW new, Handle(h, from, new), UNCHANGED <<engineVars, job>>,
             new.pc \notin {"assign", "start"}
      PROVE  WindInv'
  BY <1>h DEF Handle, WindInv, TypeOK, engineVars, mainVars
<1>n. NoRequest.pc = "idle"
  BY DEF NoRequest
<1>1. CASE SubmitRefuse(h)
  BY <1>1, <1>h, <1>n DEF SubmitRefuse
<1>2. ASSUME NEW r \in Reports, SubmitAdmit(h, r) PROVE WindInv'
  BY <1>2 DEF SubmitAdmit, Admissible, WindInv
<1>3. CASE SubmitAssign(h) \/ \E pc \in {"prune", "unstarted"} : SubmitStart(h, pc)
  BY <1>3 DEF SubmitAssign, SubmitStart, Handle, WindInv
<1>4. ASSUME NEW r \in Reports, MediaPrune(h, r) PROVE WindInv'
  BY <1>4, <1>h DEF MediaPrune
<1>5. CASE MediaOpen(h)
  <2>1. [req[h] EXCEPT !.pc = "stream"].pc = "stream"
    BY DEF TypeOK, Request
  <2> QED
    BY <1>5, <2>1, <1>h, <1>n DEF MediaOpen
<1>6. CASE MediaDone(h)
  BY <1>6, <1>h, <1>n DEF MediaDone
<1> QED
  BY <1>1, <1>2, <1>3, <1>4, <1>5, <1>6 DEF Submit, MediaFile

\* The worker goes on towards its end.
LEMMA WindRun ==
  ASSUME TypeOK, WindInv, NEW r \in Reports, Run(r)
  PROVE  WindInv'
<1>1. /\ UNCHANGED <<stop, worker, req, mpc, playAtStop, joinLeft>>
      /\ \A s \in Reports \ {r} : job'[s] = job[s]
  BY RunFrame
<1>2. job'[r].pc = "disconnect" =>
        job[r].pc \in PlayPC \ {"disconnect"} /\ job'[r].left = DisconnectBound
  BY RunMoves DEF Moved
<1>3. job[r].pc \in AtPlay \cup FinallyPC =>
        \/ job'[r].pc \in {"done"} \cup FinallyPC
        \/ job[r].pc = "observe" /\ job'[r].pc = "watch"
        \/ job[r].pc \in {"observe", "watch"} /\ job'[r].pc = "disconnect"
  BY RunMoves DEF Moved, AtPlay, PlayPC, FinallyPC
<1>4. job[r].pc # "done"
  BY RunFrame DEF RunningPC, PlayPC, FinallyPC
<1>5. job[r].left \in Nat /\ joinLeft \in Nat
  BY JobType, Times DEF Job, TypeOK
<1>6. \A s \in Reports : job'[s].pc = "disconnect" => job'[s].left <= DisconnectBound
  BY <1>1, <1>2, Times DEF WindInv
<1> SUFFICES ASSUME playAtStop, worker = r PROVE WindInv'
  BY <1>1, <1>6 DEF WindInv
<1>7. CASE job'[r].pc \in {"done"} \cup FinallyPC
  BY <1>1, <1>4, <1>5, <1>6, <1>7 DEF WindInv, AtPlay, FinallyPC
<1>8. CASE job[r].pc = "observe" /\ job'[r].pc = "watch"
  BY <1>1, <1>6, <1>8 DEF WindInv, AtPlay, FinallyPC
<1>9. CASE job[r].pc \in {"observe", "watch"} /\ job'[r].pc = "disconnect"
  BY <1>1, <1>2, <1>6, <1>9, Times DEF WindInv, AtPlay, FinallyPC
<1> QED
  BY <1>3, <1>4, <1>7, <1>8, <1>9 DEF WindInv

\* Disconnecting and join count down together.
LEMMA WindTick == TypeOK /\ WindInv /\ Tick => WindInv'
<1> SUFFICES ASSUME TypeOK, WindInv, Tick PROVE WindInv'
    OBVIOUS
<1>1. ASSUME NEW r \in Reports
      PROVE  /\ job'[r].pc = job[r].pc
             /\ job[r].pc = "disconnect" => job[r].left \in Nat \ {0} /\ job'[r].left = job[r].left - 1
  BY JobType DEF Tick, Overdue, Job, Minus1, PlayPC
<1>2. \A r \in Reports : job'[r].pc = "disconnect" => job'[r].left <= DisconnectBound
  BY <1>1, Times DEF WindInv
<1>3. UNCHANGED <<stop, worker, req, mpc, playAtStop>>
  BY DEF Tick, engineVars
<1> SUFFICES ASSUME playAtStop PROVE WindInv'
  BY <1>2, <1>3 DEF WindInv
<1>4. worker \in Reports /\ job[worker].pc \in {"disconnect", "done"}
  BY DEF WindInv, AtPlay, Tick, Overdue, StopPolled
<1>5. CASE job[worker].pc = "done"
  BY <1>1, <1>2, <1>3, <1>4, <1>5 DEF WindInv
<1>6. CASE job[worker].pc = "disconnect"
  <2>1. mpc = "join" /\ joinLeft \in Nat /\ joinLeft > job[worker].left
    BY <1>4, <1>6, Times DEF WindInv, TypeOK
  <2>2. joinLeft' = joinLeft - 1
    <3>1. joinLeft' = Minus1(joinLeft)
      BY <2>1 DEF Tick
    <3>2. joinLeft # 0
      BY <2>1 DEF Tick, Overdue
    <3> QED
      BY <2>1, <3>1, <3>2 DEF Minus1
  <2>3. job'[worker].left = job[worker].left - 1 /\ job[worker].left \in Nat \ {0}
    BY <1>1, <1>4, <1>6
  <2>4. joinLeft' > 0 /\ joinLeft' > job'[worker].left
    BY <2>1, <2>2, <2>3
  <2> QED
    BY <1>1, <1>2, <1>3, <1>4, <1>6, <2>1, <2>4 DEF WindInv
<1> QED
  BY <1>4, <1>5, <1>6

\* Close waits for a worker that is at the display; it never gives up on it.
THEOREM WindsDown == Spec => []PlaybackWindsDown
<1>1. Init => WindInv
  BY DEF Init, WindInv, NoJob
<1>2. TypeOK /\ SlotInv /\ WindInv /\ [Next]_vars => WindInv'
  <2> SUFFICES ASSUME TypeOK, SlotInv, WindInv, [Next]_vars PROVE WindInv'
      OBVIOUS
  <2>1. CASE UNCHANGED vars
    BY <2>1 DEF vars, engineVars, mainVars, WindInv
  <2> QED
    BY <2>1, WindMain, WindHandler, WindRun, WindTick DEF Next
<1>3. WindInv => PlaybackWindsDown
  BY DEF WindInv, PlaybackWindsDown, WorkerIn
<1> QED
  BY TypeCorrect, SlotCorrect, <1>1, <1>2, <1>3, PTL DEF Spec

-----------------------------------------------------------------------------
(***************************************************************************)
(* ReportEngine implements ReportSlot, for any number of submissions and   *)
(* handlers: the proof of SlotSpec.                                        *)
(***************************************************************************)

(* The finally block of _run *)

\* Nothing in the finally block takes time, so that media published before does
\* not expire there; and what was played had been published.
FinalInv ==
  \A r \in Reports : job[r].pc \in FinallyPC =>
    /\ r \in published => expires[r] > 0
    /\ job[r].result \in Played => r \in published

LEMMA FinalInit == Init => FinalInv
  BY DEF Init, FinalInv, NoJob, FinallyPC

\* A played report comes to the finally block from its playback.
LEMMA RunResult ==
  ASSUME TypeOK, NEW r \in Reports, Run(r),
         job'[r].pc \in FinallyPC, job'[r].result \in Played
  PROVE  \/ job[r].pc = "disconnect"
         \/ job[r].pc \in FinallyPC /\ job'[r].result = job[r].result
<1>j. job[r] \in Job /\ NoJob \in Job
  BY JobType
<1>s. ASSUME NEW from, NEW new, Step(r, from, new)
      PROVE  job[r].pc = from /\ job'[r] = new
  BY <1>s DEF Step, TypeOK
<1> USE <1>s, <1>j DEF At, Job, FinallyPC
<1>r. ASSUME NEW from, NEW to, Raise(r, from, to) PROVE FALSE
  <2> DEFINE new == [At(r, to) EXCEPT !.result = "playback_or_render_failure", !.left = 0]
  <2>1. new.result = "playback_or_render_failure"
    OBVIOUS
  <2>2. job'[r] = new
    BY <1>r DEF Raise, Private
  <2> HIDE DEF new
  <2> QED
    BY <2>1, <2>2 DEF Played
<1>d. ASSUME NEW from, PlayRaises(r, from) PROVE FALSE
  <2> DEFINE new == [At(r, "disconnect") EXCEPT !.result = "playback_or_render_failure",
                                                !.left = DisconnectBound]
  <2>1. new.pc = "disconnect"
    OBVIOUS
  <2>2. job'[r] = new
    BY <1>d DEF PlayRaises, Private
  <2> HIDE DEF new
  <2> QED
    BY <2>1, <2>2
<1>1. CASE FetchRaises(r) \/ RenderRaises(r) \/ ConnectRaises(r) \/ NotObserved(r)
           \/ WatchRaises(r) \/ DisconnectRaises(r)
  BY <1>1, <1>r, <1>d DEF FetchRaises, RenderRaises, ConnectRaises, NotObserved, WatchRaises,
     DisconnectRaises
<1>2. CASE CheckAge(r)
  <2> DEFINE new == [At(r, "final") EXCEPT !.result = "snapshot_expired"]
  <2>1. new.result = "snapshot_expired" /\ At(r, "publish").pc = "publish"
    OBVIOUS
  <2>2. job'[r] = new \/ job'[r] = At(r, "publish")
    BY <1>2 DEF CheckAge, Private
  <2> HIDE DEF new
  <2> QED
    BY <2>1, <2>2 DEF Played
<1>3. CASE Finish(r)
  <2> DEFINE res == IF job[r].fallback THEN "fallback_played" ELSE "report_played"
             new == [At(r, "disconnect") EXCEPT !.left = DisconnectBound, !.result = res]
  <2>1. new.pc = "disconnect"
    OBVIOUS
  <2>2. job'[r] = new
    BY <1>3 DEF Finish, Private
  <2> HIDE DEF new
  <2> QED
    BY <2>1, <2>2
<1>4. CASE Final(r)
  <2> DEFINE to == IF r \in published THEN "release" ELSE "unlink"
  <2>1. job[r].pc = "final" /\ job'[r] = At(r, to)
    BY <1>4 DEF Final, Private
  <2>2. At(r, to).result = job[r].result
    OBVIOUS
  <2> HIDE DEF to
  <2> QED
    BY <2>1, <2>2
<1>5. CASE Unlink(r)
  BY <1>5 DEF Unlink
<1>6. CASE WorkerPrune(r) \/ Render(r) \/ Publish(r) \/ Connect(r) \/ Release(r)
  BY <1>6 DEF WorkerPrune, Render, Publish, Connect, Release, Private
<1>7. CASE Fetch(r)
  <2>1. ASSUME NEW a \in 0..MaxAge, Private(r, "fetch", [At(r, "render") EXCEPT !.age = a])
        PROVE  FALSE
    BY <2>1 DEF Private
  <2>2. ASSUME Private(r, "fetch", [At(r, "render") EXCEPT !.fallback = TRUE])
        PROVE  FALSE
    BY <2>2 DEF Private
  <2> QED
    BY <1>7, <2>1, <2>2 DEF Fetch
<1>9. CASE Disconnect(r)
  BY <1>9 DEF Disconnect, Private
<1>8. CASE Observe(r)
  <2>1. ASSUME NEW d \in WatchTimes,
               Private(r, "observe", [At(r, "watch") EXCEPT !.left = d, !.seen = TRUE])
        PROVE  FALSE
    BY <2>1 DEF Private
  <2> QED
    BY <1>8, <2>1 DEF Observe
<1> QED
  BY <1>1, <1>2, <1>3, <1>4, <1>5, <1>6, <1>7, <1>8, <1>9 DEF Run

LEMMA FinalRun ==
  ASSUME TypeOK, MediaInv, FinalInv, NEW r \in Reports, Run(r)
  PROVE  FinalInv'
<1>f. \A s \in Reports \ {r} : job'[s] = job[s]
  BY RunFrame
<1>m. \/ Prune
      \/ published' = published /\ expires' = expires
      \/ job'[r].pc = "connect" /\ published' = published \cup {r}
         /\ \A s \in Reports \ {r} : expires'[s] = expires[s]
  BY RunMoves DEF Moved, TypeOK
<1>1. ASSUME NEW s \in Reports \ {r}, job'[s].pc \in FinallyPC
      PROVE  /\ s \in published' => expires'[s] > 0
             /\ job'[s].result \in Played => s \in published'
  <2>1. /\ s \in published => expires[s] > 0
        /\ job[s].result \in Played => s \in published
    BY <1>1, <1>f DEF FinalInv
  <2>2. CASE Prune
    BY <1>f, <2>1, <2>2 DEF Prune, Expired
  <2>3. CASE ~Prune
    BY <1>f, <1>m, <2>1, <2>3
  <2> QED
    BY <2>2, <2>3
<1>2. ASSUME job'[r].pc \in FinallyPC
      PROVE  /\ r \in published' => expires'[r] > 0
             /\ job'[r].result \in Played => r \in published'
  <2>1. /\ published' = published /\ expires' = expires
        /\ job[r].pc \in {"fetch", "render", "check"} \cup PlayPC \cup FinallyPC
    BY <1>2, RunMoves DEF Moved, FinallyPC, PlayPC
  <2>2. job[r].pc \in {"fetch", "render", "check"} => r \notin published
    BY DEF MediaInv, Unpublished, UnpublishedPC
  <2>3. job[r].pc \in PlayPC => r \in published /\ expires[r] > 0
    BY JobType, Times DEF MediaInv, DeadlineLasts, PlayPC, Job, TypeOK
  <2>4. job[r].pc \in FinallyPC =>
          /\ r \in published => expires[r] > 0
          /\ job[r].result \in Played => r \in published
    BY DEF FinalInv
  <2>5. job'[r].result \in Played => r \in published
    BY <1>2, <2>3, <2>4, RunResult DEF PlayPC
  <2> QED
    BY <2>1, <2>2, <2>3, <2>4, <2>5
<1> QED
  BY <1>1, <1>2 DEF FinalInv

LEMMA FinalOther ==
  ASSUME TypeOK, SlotInv, FinalInv,
         Serve \/ Close \/ Sigterm \/ MainInterrupt \/ Exited
         \/ \E h \in Handlers : Submit(h) \/ MediaFile(h)
  PROVE  FinalInv'
<1>1. Prune \/ (UNCHANGED <<published, expires>>)
  BY OtherMoves
<1>2. UNCHANGED job \/ \E r \in Reports :
        /\ \A s \in Reports \ {r} : job'[s] = job[s]
        /\ job'[r].pc \in {"reserved", "created", "prune", "unstarted"}
  BY OtherMoves DEF Moved
<1> SUFFICES ASSUME NEW s \in Reports, job'[s].pc \in FinallyPC
             PROVE  /\ s \in published' => expires'[s] > 0
                    /\ job'[s].result \in Played => s \in published'
  BY DEF FinalInv
<1>3. job'[s] = job[s]
  BY <1>2 DEF FinallyPC
<1>4. /\ s \in published => expires[s] > 0
      /\ job[s].result \in Played => s \in published
  BY <1>3 DEF FinalInv
<1> QED
  BY <1>1, <1>3, <1>4 DEF Prune, Expired

\* Time stands still while a worker is in its finally block.
LEMMA FinalTick == TypeOK /\ FinalInv /\ Tick => FinalInv'
<1> SUFFICES ASSUME TypeOK, Tick PROVE FinalInv'
  OBVIOUS
<1>1. \A r \in Reports : job'[r].pc = job[r].pc /\ job[r].pc \notin FinallyPC
  BY JobType DEF Tick, Overdue, Job
<1> QED
  BY <1>1 DEF FinalInv

THEOREM FinalCorrect == Spec => []FinalInv
<1>1. TypeOK /\ SlotInv /\ MediaInv /\ FinalInv /\ [Next]_vars => FinalInv'
  <2> SUFFICES ASSUME TypeOK, SlotInv, MediaInv, FinalInv, [Next]_vars PROVE FinalInv'
      OBVIOUS
  <2>1. CASE UNCHANGED vars
    BY <2>1 DEF vars, mediaVars, FinalInv
  <2> QED
    BY <2>1, FinalOther, FinalRun, FinalTick DEF Next
<1> QED
  BY TypeCorrect, SlotCorrect, MediaCorrect, FinalInit, <1>1, PTL DEF Spec

-----------------------------------------------------------------------------
(* The refinement *)

\* What ReportEngine!Slot substitutes for the variables of ReportSlot, as functions
\* of the engine's.
InWork(jobs) == {r \in Reports : jobs[r].pc \in LivePC}
Current(jobs) == IF \E r \in Reports : jobs[r].pc \in LivePC
                 THEN CHOOSE r \in Reports : jobs[r].pc \in LivePC ELSE None
Offered == published \cap files

LEMMA CurrentIs ==
  ASSUME NEW jobs, NEW r \in Reports, InWork(jobs) = {r}
  PROVE  Current(jobs) = r
  BY DEF Current, InWork

LEMMA CurrentNone ==
  ASSUME NEW jobs, InWork(jobs) = {}
  PROVE  Current(jobs) = None
  BY DEF Current, InWork

\* The steps of ReportSlot in the engine's terms.
LEMMA SlotSteps ==
  /\ Slot!Init <=> /\ Current(job) = None /\ Offered = {}
                   /\ state.result = "none" /\ ~(root # "present")
  /\ \A r \in Reports :
       /\ Current(job) = None /\ r \notin Offered /\ Current(job') = r
       /\ state'.result = "pending" /\ Offered' = Offered /\ (root' # "present") = (root # "present")
       => Slot!Next
  /\ /\ Current(job) # None /\ Offered' = Offered \cup {Current(job)}
     /\ Current(job') = Current(job) /\ state'.result = state.result
     /\ (root' # "present") = (root # "present")
     => Slot!Next
  /\ \A S \in SUBSET (Offered \ {Current(job)}) :
       /\ Offered' = Offered \ S
       /\ Current(job') = Current(job) /\ state'.result = state.result
       /\ (root' # "present") = (root # "present")
       => Slot!Next
  /\ /\ Current(job) # None /\ state'.result \in Results
     /\ state'.result \in Played => (root # "present") \/ Current(job) \in Offered
     /\ Current(job') = None /\ Offered' = Offered /\ (root' # "present") = (root # "present")
     => Slot!Next
  /\ /\ root' # "present" /\ Offered' = {}
     /\ Current(job') = Current(job) /\ state'.result = state.result
     => Slot!Next
<1>c. /\ Current(job) = IF \E r \in Reports : Live(r) THEN CHOOSE r \in Reports : Live(r) ELSE None
      /\ Current(job') = (IF \E r \in Reports : Live(r) THEN CHOOSE r \in Reports : Live(r) ELSE None)'
  BY DEF Current, Live
<1>1. Slot!Init <=> /\ Current(job) = None /\ Offered = {}
                    /\ state.result = "none" /\ ~(root # "present")
  BY <1>c DEF Slot!Init, Offered
<1>2. ASSUME NEW r \in Reports,
             Current(job) = None, r \notin Offered, Current(job') = r,
             state'.result = "pending", Offered' = Offered,
             (root' # "present") = (root # "present")
      PROVE  Slot!Next
  <2>1. Slot!Accept(r)
    BY <1>c, <1>2 DEF Slot!Accept, Offered
  <2> QED
    BY <2>1 DEF Slot!Next
<1>3. ASSUME Current(job) # None, Offered' = Offered \cup {Current(job)},
             Current(job') = Current(job), state'.result = state.result,
             (root' # "present") = (root # "present")
      PROVE  Slot!Next
  <2>1. Slot!Offer
    BY <1>c, <1>3 DEF Slot!Offer, Offered
  <2> QED
    BY <2>1 DEF Slot!Next
<1>4. ASSUME NEW S \in SUBSET (Offered \ {Current(job)}), Offered' = Offered \ S,
             Current(job') = Current(job), state'.result = state.result,
             (root' # "present") = (root # "present")
      PROVE  Slot!Next
  <2>1. Slot!Withdraw
    BY <1>c, <1>4 DEF Slot!Withdraw, Offered
  <2> QED
    BY <2>1 DEF Slot!Next
<1>5. ASSUME Current(job) # None, state'.result \in Results,
             state'.result \in Played => (root # "present") \/ Current(job) \in Offered,
             Current(job') = None, Offered' = Offered, (root' # "present") = (root # "present")
      PROVE  Slot!Next
  <2>1. Slot!Complete(state'.result)
    BY <1>c, <1>5 DEF Slot!Complete, Offered
  <2>2. state'.result \in Played \cup (Results \ Played)
    BY <1>5
  <2> QED
    BY <2>1, <2>2 DEF Slot!Next
<1>6. ASSUME root' # "present", Offered' = {},
             Current(job') = Current(job), state'.result = state.result
      PROVE  Slot!Next
  <2>1. Slot!Close
    BY <1>c, <1>6 DEF Slot!Close, Offered
  <2> QED
    BY <2>1 DEF Slot!Next
<1> QED
  BY <1>1, <1>2, <1>3, <1>4, <1>5, <1>6

LEMMA Stutter ==
  ASSUME Current(job') = Current(job), Offered' = Offered,
         state'.result = state.result, (root' # "present") = (root # "present")
  PROVE  UNCHANGED Slot!vars
<1>1. /\ Current(job) = IF \E r \in Reports : Live(r) THEN CHOOSE r \in Reports : Live(r) ELSE None
      /\ Current(job') = (IF \E r \in Reports : Live(r) THEN CHOOSE r \in Reports : Live(r) ELSE None)'
  BY DEF Current, Live
<1> QED
  BY <1>1 DEF Slot!vars, Offered

LEMMA SameCurrent ==
  ASSUME SlotInv, \A r \in Reports : job'[r].pc \in LivePC <=> job[r].pc \in LivePC
  PROVE  Current(job') = Current(job)
<1>1. InWork(job') = InWork(job)
  BY DEF InWork
<1>2. \A r1, r2 \in InWork(job) : r1 = r2
  BY DEF SlotInv, OneReportAtATime, Live, InWork
<1>3. CASE InWork(job) = {}
  BY <1>1, <1>3, CurrentNone
<1>4. CASE InWork(job) # {}
  <2>1. PICK r \in Reports : r \in InWork(job)
    BY <1>4 DEF InWork
  <2>2. InWork(job) = {r}
    BY <1>2, <2>1
  <2> QED
    BY <1>1, <2>1, <2>2, CurrentIs
<1> QED
  BY <1>3, <1>4

\* The media of the report in work does not expire.
LEMMA LiveKept ==
  ASSUME TypeOK, MediaInv, FinalInv, NEW r \in Reports, job[r].pc \in LivePC
  PROVE  r \notin Expired
<1> SUFFICES ASSUME r \in published PROVE expires[r] > 0
  BY DEF Expired
<1>1. CASE job[r].pc \in PlayPC
  BY <1>1, JobType, Times DEF MediaInv, DeadlineLasts, PlayPC, Job, TypeOK
<1>2. CASE job[r].pc \in FinallyPC
  BY <1>2 DEF FinalInv
<1>3. CASE job[r].pc \in UnpublishedPC
  BY <1>3 DEF MediaInv, Unpublished
<1> QED
  BY <1>1, <1>2, <1>3 DEF LivePC, RunningPC, UnpublishedPC

LEMMA PruneStep ==
  ASSUME TypeOK, SlotInv, MediaInv, FinalInv, Prune, state' = state,
         \A r \in Reports : job'[r].pc \in LivePC <=> job[r].pc \in LivePC
  PROVE  Slot!Next
<1> DEFINE S == Offered \cap Expired
<1>1. Current(job') = Current(job)
  BY SameCurrent
<1>2. Offered' = Offered \ S /\ root' = root
  BY DEF Prune, Offered
<1>3. Current(job) \notin Expired
  <2>1. CASE \E r \in Reports : job[r].pc \in LivePC
    <3>1. Current(job) \in Reports /\ job[Current(job)].pc \in LivePC
      BY <2>1 DEF Current
    <3> QED
      BY <3>1, LiveKept
  <2>2. CASE ~\E r \in Reports : job[r].pc \in LivePC
    BY <2>2, NoneAssumption DEF Current, Expired, TypeOK
  <2> QED
    BY <2>1, <2>2
<1>4. S \in SUBSET (Offered \ {Current(job)})
  BY <1>3
<1> HIDE DEF S
<1> QED
  BY <1>1, <1>2, <1>4, SlotSteps

LEMMA RunStep ==
  ASSUME TypeOK, SlotInv, MediaInv, FinalInv, NEW r \in Reports, Run(r)
  PROVE  Slot!Next \/ UNCHANGED Slot!vars
<1>f. /\ \A s \in Reports \ {r} : job'[s] = job[s]
      /\ job[r].pc \in RunningPC
      /\ \/ job'[r].pc \in RunningPC /\ UNCHANGED <<busy, state>>
         \/ Release(r) /\ job'[r].pc = "done" /\ busy' = FALSE
  BY RunFrame
<1>l. RunningPC \subseteq LivePC /\ "done" \notin LivePC
  BY DEF LivePC, RunningPC, PlayPC, FinallyPC
<1>c. Current(job) = r
  <2>1. InWork(job) = {r}
    BY <1>f, <1>l DEF SlotInv, OneReportAtATime, Live, InWork
  <2> QED
    BY <2>1, CurrentIs
<1>1. CASE Release(r)
  <2>1. job[r].pc = "release" /\ state' = Idle(job[r].result)
        /\ UNCHANGED <<published, expires, files, root>>
    BY <1>1 DEF Release, Step, mediaVars
  <2>2. job[r].result \in Results /\ job'[r].pc = "done"
    <3>1. [NoJob EXCEPT !.pc = "done"].pc = "done"
      BY DEF NoJob
    <3> QED
      BY <1>1, <3>1, JobType DEF Release, Step, TypeOK, Job
  <2>3. state'.result = job[r].result
    BY <2>1 DEF Idle
  <2>4. InWork(job') = {}
    BY <1>f, <1>l, <2>2 DEF SlotInv, OneReportAtATime, Live, InWork
  <2>5. Current(job') = None
    BY <2>4, CurrentNone
  <2>6. r # None
    BY NoneAssumption
  <2>7. job[r].result \in Played => (root # "present") \/ r \in Offered
    BY <2>1 DEF FinalInv, FinallyPC, MediaInv, PublishedOnDisk, Offered
  <2>8. Offered' = Offered /\ root' = root
    BY <2>1 DEF Offered
  <2> QED
    BY <1>c, <2>2, <2>3, <2>5, <2>6, <2>7, <2>8, SlotSteps
<1>2. CASE ~Release(r)
  <2>1. job'[r].pc \in RunningPC /\ state' = state
    BY <1>f, <1>2
  <2>2. \A s \in Reports : job'[s].pc \in LivePC <=> job[s].pc \in LivePC
    BY <1>f, <1>l, <2>1
  <2>3. Current(job') = Current(job)
    BY <2>2, SameCurrent
  <2>4. CASE Prune
    BY <2>1, <2>2, <2>4, PruneStep
  <2>5. CASE Moved(r, "publish", "connect") /\ published' = published \cup {r}
             /\ UNCHANGED <<files, root>>
    <3>1. CASE r \in files
      <4>1. Offered' = Offered \cup {Current(job)}
        BY <1>c, <2>5, <3>1 DEF Offered
      <4>2. Current(job) # None
        BY <1>c, NoneAssumption
      <4> QED
        BY <2>1, <2>3, <2>5, <4>1, <4>2, SlotSteps
    <3>2. CASE r \notin files
      <4>1. Offered' = Offered
        BY <2>5, <3>2 DEF Offered
      <4> QED
        BY <2>1, <2>3, <2>5, <4>1, Stutter
    <3> QED
      BY <3>1, <3>2
  <2>6. CASE /\ job[r].pc \in {"render", "unlink"} /\ UNCHANGED <<published, root>>
             /\ files' = files \cup {r} \/ files' = files \ {r}
    <3>1. r \notin published
      BY <2>6 DEF MediaInv, Unpublished, UnpublishedPC
    <3>2. Offered' = Offered
      BY <2>6, <3>1 DEF Offered
    <3> QED
      BY <2>1, <2>3, <2>6, <3>2, Stutter
  <2>7. CASE UNCHANGED <<published, files, root>>
    <3>1. Offered' = Offered
      BY <2>7 DEF Offered
    <3> QED
      BY <2>1, <2>3, <2>7, <3>1, Stutter
  <2>8. \/ Prune
        \/ Moved(r, "publish", "connect") /\ published' = published \cup {r}
           /\ UNCHANGED <<files, root>>
        \/ /\ job[r].pc \in {"render", "unlink"} /\ UNCHANGED <<published, root>>
           /\ files' = files \cup {r} \/ files' = files \ {r}
        \/ UNCHANGED <<published, files, root>>
    BY RunMoves DEF Moved
  <2> QED
    BY <2>4, <2>5, <2>6, <2>7, <2>8
<1> QED
  BY <1>1, <1>2

LEMMA Quiet ==
  ASSUME SlotInv, UNCHANGED <<state, published, files, root>>,
         \A r \in Reports : job'[r].pc \in LivePC <=> job[r].pc \in LivePC
  PROVE  UNCHANGED Slot!vars
<1>1. Current(job') = Current(job)
  BY SameCurrent
<1>2. Offered' = Offered
  BY DEF Offered
<1> QED
  BY <1>1, <1>2, Stutter

LEMMA MainStep ==
  ASSUME TypeOK, SlotInv, MediaInv, FinalInv,
         Serve \/ Close \/ Sigterm \/ MainInterrupt \/ Exited \/ Tick
  PROVE  Slot!Next \/ UNCHANGED Slot!vars
<1> USE DEF engineVars, mediaVars, mainVars, Main
<1>1. CASE MainPrune
  BY <1>1, PruneStep DEF MainPrune
<1>2. CASE MainTimeout \/ MainInterrupt \/ CloseJoin \/ CloseJoinRaises \/ \E h \in Handlers : MainAccept(h)
  BY <1>2, Quiet DEF MainTimeout, MainInterrupt, CloseJoin, CloseJoinRaises, MainAccept
<1>3. CASE Sigterm \/ Exited \/ CloseStop
  <2>1. UNCHANGED <<state, published, files, root, job>>
    BY <1>3 DEF Sigterm, Exited, CloseStop, vars
  <2> QED
    BY <2>1, Quiet
<1>4. CASE Tick
  <2>1. UNCHANGED <<state, published, files, root>>
    BY <1>4 DEF Tick
  <2>2. \A r \in Reports : job'[r].pc = job[r].pc
    BY <1>4, JobType DEF Tick, Job
  <2> QED
    BY <2>1, <2>2, Quiet
<1>5. CASE CloseRemove
  <2>1. /\ UNCHANGED <<job, state>> /\ files' = {} /\ root' = "listed"
    BY <1>5 DEF CloseRemove
  <2>2. Offered' = {} /\ Current(job') = Current(job)
    BY <2>1 DEF Offered
  <2> QED
    BY <2>1, <2>2, SlotSteps
<1>6. CASE CloseRmdir
  <2>1. /\ UNCHANGED <<job, state, published, files>>
        /\ root' = IF files = {} THEN "removed" ELSE root
    BY <1>6 DEF CloseRmdir
  <2>2. CASE files = {}
    <3>1. Offered' = {} /\ Current(job') = Current(job) /\ root' # "present"
      BY <2>1, <2>2 DEF Offered
    <3> QED
      BY <2>1, <3>1, SlotSteps
  <2>3. CASE files # {}
    BY <2>1, <2>3, Quiet
  <2> QED
    BY <2>2, <2>3
<1> QED
  BY <1>1, <1>2, <1>3, <1>4, <1>5, <1>6 DEF Serve, Close

LEMMA HandlerStep ==
  ASSUME TypeOK, SlotInv, MediaInv, FinalInv, NEW h \in Handlers, Submit(h) \/ MediaFile(h)
  PROVE  Slot!Next \/ UNCHANGED Slot!vars
<1> USE DEF engineVars, mediaVars
<1>u. ASSUME NEW r \in Reports, NEW pc, job' = [job EXCEPT ![r] = At(r, pc)]
      PROVE  job'[r].pc = pc /\ \A s \in Reports \ {r} : job'[s] = job[s]
  <2>1. At(r, pc).pc = pc
    BY JobType DEF At, Job
  <2> QED
    BY <1>u, <2>1 DEF TypeOK
<1>1. CASE SubmitRefuse(h)
  BY <1>1, Quiet DEF SubmitRefuse
<1>2. ASSUME NEW r \in Reports, SubmitAdmit(h, r)
      PROVE  Slot!Next
  <2>1. /\ busy = FALSE /\ r \notin published \cup files /\ state' = Pending
        /\ UNCHANGED <<published, files, root>>
        /\ job'[r].pc = "reserved" /\ \A s \in Reports \ {r} : job'[s] = job[s]
    BY <1>2, <1>u DEF SubmitAdmit, Admissible, Fresh, TypeOK
  <2>2. InWork(job) = {}
    BY <2>1 DEF SlotInv, OneReportAtATime, Live, InWork
  <2>3. InWork(job') = {r}
    BY <2>1, <2>2 DEF InWork, LivePC
  <2>4. Current(job) = None /\ Current(job') = r
    BY <2>2, <2>3, CurrentIs, CurrentNone
  <2>5. r \notin Offered /\ Offered' = Offered /\ state'.result = "pending"
    BY <2>1 DEF Offered, Pending
  <2> QED
    BY <2>1, <2>4, <2>5, SlotSteps
\* The report stays in work while submit assigns and starts its thread.
<1>3. ASSUME NEW r \in Reports, NEW pc \in LivePC, job[r].pc \in LivePC,
             job' = [job EXCEPT ![r] = At(r, pc)], UNCHANGED <<state, published, files, root>>
      PROVE  UNCHANGED Slot!vars
  <2>1. \A s \in Reports : job'[s].pc \in LivePC <=> job[s].pc \in LivePC
    BY <1>3, <1>u
  <2> QED
    BY <1>3, <2>1, Quiet
<1>4. CASE SubmitAssign(h)
  <2>1. req[h].report \in Reports /\ job[req[h].report].pc = "reserved"
    BY <1>4 DEF SubmitAssign, Handle, SlotInv, LockInv
  <2> QED
    BY <1>4, <2>1, <1>3 DEF SubmitAssign, LivePC
<1>5. ASSUME NEW pc \in {"prune", "unstarted"}, SubmitStart(h, pc)
      PROVE  UNCHANGED Slot!vars
  <2>1. req[h].report \in Reports /\ job[req[h].report].pc = "created"
    BY <1>5 DEF SubmitStart, Handle, SlotInv, LockInv
  <2> QED
    BY <1>5, <2>1, <1>3 DEF SubmitStart, LivePC, RunningPC
<1>6. ASSUME NEW r \in Reports, MediaPrune(h, r) PROVE Slot!Next
  BY <1>6, PruneStep DEF MediaPrune
<1>7. CASE MediaOpen(h) \/ MediaDone(h)
  BY <1>7, Quiet DEF MediaOpen, MediaDone
<1> QED
  BY <1>1, <1>2, <1>4, <1>5, <1>6, <1>7 DEF Submit, MediaFile

\* The engine implements ReportSlot.
THEOREM Refines == Spec => SlotSpec
<1>1. Init => Slot!Init
  <2> SUFFICES ASSUME Init PROVE Slot!Init
      OBVIOUS
  <2>1. InWork(job) = {}
    BY DEF Init, InWork, NoJob, LivePC, RunningPC, PlayPC, FinallyPC
  <2>2. Current(job) = None
    BY <2>1, CurrentNone
  <2>3. Offered = {} /\ state.result = "none" /\ root = "present"
    BY DEF Init, Offered, Idle
  <2> QED
    BY <2>2, <2>3, SlotSteps
<1>2. TypeOK /\ SlotInv /\ MediaInv /\ FinalInv /\ [Next]_vars => [Slot!Next]_Slot!vars
  <2> SUFFICES ASSUME TypeOK, SlotInv, MediaInv, FinalInv, [Next]_vars
               PROVE  Slot!Next \/ UNCHANGED Slot!vars
      OBVIOUS
  <2>1. CASE UNCHANGED vars
    BY <2>1, Quiet DEF vars, engineVars, mediaVars
  <2> QED
    BY <2>1, MainStep, HandlerStep, RunStep DEF Next
<1> QED
  BY TypeCorrect, SlotCorrect, MediaCorrect, FinalCorrect, <1>1, <1>2, PTL
     DEF Spec, SlotSpec, Slot!Spec
=============================================================================
