------------------------- MODULE Persistence_proofs -------------------------
(***************************************************************************)
(* Theorems about the two components whose state outlives their process.   *)
(* SettingsStore, for any number of requests and any settings: what is     *)
(* served is what is stored, and the store implements the register of      *)
(* SettingsRegister.  EpisodeLatch: why an episode is notified once.       *)
(***************************************************************************)
EXTENDS SettingsStore, TLAPS

-----------------------------------------------------------------------------
(* Patches.                                                                 *)
LEMMA PatchedIsSettings ==
    ASSUME NEW s \in Settings, NEW patch \in Patches
    PROVE  Patched(s, patch) \in Settings
<1>1. PICK keys \in SUBSET Keys : patch \in [keys -> Level]
  BY DEF Patches
<1> QED
  BY <1>1 DEF Patched, Settings

LEMMA NoPatchIsPatch == NoPatch \in Patches
<1>1. NoPatch \in [{} -> Level]
  BY DEF NoPatch
<1> QED
  BY <1>1 DEF Patches

LEMMA IdleIsThread == Idle \in Thread
BY SettingsAssumption, NoPatchIsPatch DEF Idle, Thread, Stage, Status, Maybe

\* Every value a step gives to the enumerated fields.
LEMMA FieldValues ==
    /\ {"idle", "update", "create", "write", "replace", "publish", "show", "answer"} \subseteq Stage
    /\ {200, 400, 503} \subseteq Status
    /\ Settings \cup {None} \subseteq Maybe
BY DEF Stage, Status, Maybe

\* The updates of a thread's record.
LEMMA SetPatch ==
    ASSUME NEW r \in Thread, NEW at \in Stage, NEW patch \in Patches
    PROVE  [r EXCEPT !.at = at, !.patch = patch] \in Thread
BY DEF Thread

LEMMA SetNew ==
    ASSUME NEW r \in Thread, NEW at \in Stage, NEW new \in Settings
    PROVE  [r EXCEPT !.at = at, !.new = new] \in Thread
BY DEF Thread

LEMMA SetTemporary ==
    ASSUME NEW r \in Thread, NEW at \in Stage, NEW held \in Maybe
    PROVE  [r EXCEPT !.at = at, !.temporary = held] \in Thread
BY DEF Thread

LEMMA SetStatus ==
    ASSUME NEW r \in Thread, NEW at \in Stage, NEW status \in Status
    PROVE  [r EXCEPT !.at = at, !.status = status] \in Thread
BY DEF Thread

LEMMA SetAnswer ==
    ASSUME NEW r \in Thread, NEW at \in Stage, NEW status \in Status, NEW shown \in Maybe
    PROVE  [r EXCEPT !.at = at, !.status = status, !.shown = shown] \in Thread
BY DEF Thread

-----------------------------------------------------------------------------
(* The inductive invariant.  A killed process has left no request and no    *)
(* lock; an update that is being stored follows what it has read, through   *)
(* the temporary file into the settings file.                               *)
DownIsIdle ==
    ~Up => lock = None /\ \A t \in Threads : thread[t].at = "idle"

StoringInOrder ==
    \A t \in Threads :
        /\ thread[t].at \in {"create", "write", "replace"} => values = Loaded
        /\ thread[t].at = "replace" => thread[t].temporary = thread[t].new
        /\ thread[t].at = "publish" => file = thread[t].new

IInv == TypeOK /\ DownIsIdle /\ StoringInOrder /\ ServedIsStored

LEMMA InitInv == Init => IInv
<1> SUFFICES ASSUME Init PROVE IInv
  OBVIOUS
<1>1. TypeOK
  BY SettingsAssumption, IdleIsThread DEF Init, TypeOK
<1>2. \A t \in Threads : thread[t].at = "idle"
  BY DEF Init, Idle
<1>3. DownIsIdle /\ StoringInOrder /\ ServedIsStored
  BY <1>2 DEF Init, DownIsIdle, StoringInOrder, ServedIsStored, Storing, Loaded
<1> QED
  BY <1>1, <1>3 DEF IInv

\* A request that takes a step is served by a living process.
LEMMA AtWorkIsUp ==
    ASSUME IInv, NEW t \in Threads, thread[t].at # "idle"
    PROVE  values \in Settings /\ thread[t] \in Thread
BY DEF IInv, TypeOK, DownIsIdle, Up

\* A request that takes a step changes its own record and no other.
LEMMA ThreadStep ==
    ASSUME IInv, NEW t \in Threads, NEW r \in Thread, thread' = [thread EXCEPT ![t] = r]
    PROVE  thread' \in [Threads -> Thread]
BY DEF IInv, TypeOK

\* Types, one step of one request.
LEMMA TypeStep ==
    ASSUME IInv, NEW t \in Threads,
           \/ Receive(t) \/ Reject(t) \/ Lock(t) \/ Create(t) \/ Write(t)
           \/ Replace(t) \/ Refuse(t) \/ Publish(t) \/ Snapshot(t) \/ Answer(t)
    PROVE  TypeOK'
<1> DEFINE r == thread[t]
<1>0. r \in Thread /\ (values \in Settings \cup {None}) /\ (lock \in Threads \cup {None})
      /\ (file \in Settings \cup {None}) /\ thread \in [Threads -> Thread]
  BY DEF IInv, TypeOK
<1>1. CASE Receive(t)
  <2>1. PICK patch \in Patches, at \in {"update", "show"} :
            thread' = [thread EXCEPT ![t] = [r EXCEPT !.at = at, !.patch = patch]]
    BY <1>1 DEF Receive
  <2>2. [r EXCEPT !.at = at, !.patch = patch] \in Thread
    <3>1. at \in Stage
      BY FieldValues
    <3> QED
      BY <1>0, IdleIsThread, <3>1, SetPatch
  <2> QED
    BY <1>0, <1>1, <2>1, <2>2, ThreadStep DEF Receive, TypeOK
<1>2. CASE Reject(t)
  <2>1. thread' = [thread EXCEPT ![t] = [r EXCEPT !.at = "answer", !.status = 400]]
    BY <1>2 DEF Reject
  <2>2. [r EXCEPT !.at = "answer", !.status = 400] \in Thread
    <3>1. "answer" \in Stage /\ 400 \in Status
      BY FieldValues
    <3> QED
      BY <1>0, IdleIsThread, <3>1, SetStatus
  <2> QED
    BY <1>0, <1>2, <2>1, <2>2, ThreadStep DEF Reject, TypeOK
<1>3. CASE Lock(t)
  <2> DEFINE new == Patched(values, r.patch)
  <2>1. new \in Settings
    <3>1. r.patch \in Patches /\ values \in Settings
      BY <1>0, <1>3, AtWorkIsUp DEF Lock, Thread
    <3> QED
      BY <3>1, PatchedIsSettings
  <2>2. thread' = [thread EXCEPT ![t] = [r EXCEPT !.at = "create", !.new = new]]
    BY <1>3 DEF Lock
  <2>3. [r EXCEPT !.at = "create", !.new = new] \in Thread
    <3>1. "create" \in Stage
      BY FieldValues
    <3> QED
      BY <1>0, <2>1, <3>1, SetNew
  <2> QED
    BY <1>0, <1>3, <2>2, <2>3, ThreadStep DEF Lock, TypeOK
<1>4. CASE Create(t)
  <2>1. thread' = [thread EXCEPT ![t] = [r EXCEPT !.at = "write"]]
    BY <1>4 DEF Create
  <2>2. [r EXCEPT !.at = "write"] \in Thread
    BY <1>0, FieldValues DEF Thread
  <2> QED
    BY <1>0, <1>4, <2>1, <2>2, ThreadStep DEF Create, TypeOK
<1>5. CASE Write(t)
  <2>1. thread' = [thread EXCEPT ![t] = [r EXCEPT !.at = "replace", !.temporary = r.new]]
    BY <1>5 DEF Write
  <2>2. [r EXCEPT !.at = "replace", !.temporary = r.new] \in Thread
    <3>1. "replace" \in Stage /\ r.new \in Maybe
      BY <1>0, FieldValues DEF Thread
    <3> QED
      BY <1>0, IdleIsThread, <3>1, SetTemporary
  <2> QED
    BY <1>0, <1>5, <2>1, <2>2, ThreadStep DEF Write, TypeOK
<1>6. CASE Replace(t)
  <2>1. thread' = [thread EXCEPT ![t] = [r EXCEPT !.at = "publish", !.temporary = None]]
    BY <1>6 DEF Replace
  <2>2. [r EXCEPT !.at = "publish", !.temporary = None] \in Thread
    <3>1. "publish" \in Stage /\ None \in Maybe
      BY FieldValues
    <3> QED
      BY <1>0, IdleIsThread, <3>1, SetTemporary
  <2>3. file' \in Settings \cup {None}
    BY <1>0, <1>6 DEF Replace, Thread, Maybe
  <2> QED
    BY <1>0, <1>6, <2>1, <2>2, <2>3, ThreadStep DEF Replace, TypeOK
<1>7. CASE Refuse(t)
  <2>1. thread' = [thread EXCEPT ![t] = [Idle EXCEPT !.at = "answer", !.status = 503]]
    BY <1>7 DEF Refuse
  <2>2. [Idle EXCEPT !.at = "answer", !.status = 503] \in Thread
    <3>1. "answer" \in Stage /\ 503 \in Status
      BY FieldValues
    <3> QED
      BY <1>0, IdleIsThread, <3>1, SetStatus
  <2> QED
    BY <1>0, <1>7, <2>1, <2>2, ThreadStep DEF Refuse, TypeOK
<1>8. CASE Publish(t)
  <2>1. thread' = [thread EXCEPT ![t] = [Idle EXCEPT !.at = "show"]]
    BY <1>8 DEF Publish
  <2>2. [Idle EXCEPT !.at = "show"] \in Thread
    BY IdleIsThread, FieldValues DEF Thread
  <2>3. values' \in Settings
    BY <1>0, <1>8 DEF Publish, Thread
  <2> QED
    BY <1>0, <1>8, <2>1, <2>2, <2>3, ThreadStep DEF Publish, TypeOK
<1>9. CASE Snapshot(t)
  <2> DEFINE shown == Patched(values, r.patch)
             after == [Idle EXCEPT !.at = "answer", !.status = 200, !.shown = shown]
  <2>1. shown \in Settings
    <3>1. r.patch \in Patches /\ values \in Settings
      BY <1>0, <1>9, AtWorkIsUp DEF Snapshot, Thread
    <3> QED
      BY <3>1, PatchedIsSettings
  <2>2. thread' = [thread EXCEPT ![t] = after]
    BY <1>9 DEF Snapshot
  <2>3. after \in Thread
    <3>1. "answer" \in Stage /\ 200 \in Status /\ shown \in Maybe
      BY <2>1, FieldValues
    <3> QED
      BY <3>1, IdleIsThread, SetAnswer
  <2> QED
    BY <1>0, <1>9, <2>2, <2>3, ThreadStep DEF Snapshot, TypeOK
<1>10. CASE Answer(t)
  BY <1>0, <1>10, IdleIsThread, ThreadStep DEF Answer, TypeOK
<1> QED
  BY <1>1, <1>2, <1>3, <1>4, <1>5, <1>6, <1>7, <1>8, <1>9, <1>10

\* The same step keeps the rest of the invariant.
LEMMA StoreStep ==
    ASSUME IInv, TypeOK', NEW t \in Threads,
           \/ Receive(t) \/ Reject(t) \/ Lock(t) \/ Create(t) \/ Write(t)
           \/ Replace(t) \/ Refuse(t) \/ Publish(t) \/ Snapshot(t) \/ Answer(t)
    PROVE  DownIsIdle' /\ StoringInOrder' /\ ServedIsStored'
<1> USE DEF IInv, TypeOK, DownIsIdle, StoringInOrder, ServedIsStored, Storing, Up, Loaded
<1>0. thread[t] \in Thread /\ None \notin Threads /\ None \notin Settings
  BY SettingsAssumption
<1>1. CASE Receive(t)
  <2>1. PICK patch \in Patches, at \in {"update", "show"} :
            thread' = [thread EXCEPT ![t] = [thread[t] EXCEPT !.at = at, !.patch = patch]]
    BY <1>1 DEF Receive
  <2>2. thread'[t].at = at
    BY <1>0, <2>1 DEF Thread
  <2>3. \A u \in Threads : u # t => thread'[u] = thread[u]
    BY <2>1
  <2>4. UNCHANGED <<values, lock, file>> /\ values # None
    BY <1>1 DEF Receive
  <2>5. StoringInOrder' /\ ServedIsStored'
    BY <2>2, <2>3, <2>4
  <2> QED
    BY <2>4, <2>5
<1>2. CASE Reject(t)
  BY <1>0, <1>2 DEF Reject, Thread
<1>3. CASE Lock(t)
  BY <1>0, <1>3 DEF Lock, Thread
<1>4. CASE Create(t)
  BY <1>0, <1>4 DEF Create, Thread
<1>5. CASE Write(t)
  BY <1>0, <1>5 DEF Write, Thread
<1>6. CASE Replace(t)
  BY <1>0, <1>6 DEF Replace, Thread
<1>7. CASE Refuse(t)
  BY <1>0, <1>7 DEF Refuse, Thread, Idle
<1>8. CASE Publish(t)
  BY <1>0, <1>8 DEF Publish, Thread, Idle
<1>9. CASE Snapshot(t)
  BY <1>0, <1>9 DEF Snapshot, Thread, Idle
<1>10. CASE Answer(t)
  BY <1>0, <1>10 DEF Answer, Thread, Idle
<1> QED
  BY <1>1, <1>2, <1>3, <1>4, <1>5, <1>6, <1>7, <1>8, <1>9, <1>10

LEMMA NextInv == IInv /\ [Next]_vars => IInv'
<1> SUFFICES ASSUME IInv, [Next]_vars PROVE IInv'
  OBVIOUS
<1> USE DEF IInv
<1>1. ASSUME NEW t \in Threads,
             \/ Receive(t) \/ Reject(t) \/ Lock(t) \/ Create(t) \/ Write(t)
             \/ Replace(t) \/ Refuse(t) \/ Publish(t) \/ Snapshot(t) \/ Answer(t)
      PROVE  IInv'
  BY <1>1, TypeStep, StoreStep
<1>2. CASE Crash
  <2>1. TypeOK'
    BY <1>2, IdleIsThread DEF Crash, TypeOK
  <2>2. \A t \in Threads : thread'[t].at = "idle"
    BY <1>2 DEF Crash, Idle
  <2> QED
    BY <1>2, <2>1, <2>2
    DEF Crash, Up, DownIsIdle, StoringInOrder, ServedIsStored, Storing
<1>3. CASE Restart
  BY <1>3, SettingsAssumption
  DEF Restart, TypeOK, Up, DownIsIdle, StoringInOrder, ServedIsStored, Storing, Loaded
<1>4. CASE UNCHANGED vars
  BY <1>4 DEF vars, TypeOK, Up, DownIsIdle, StoringInOrder, ServedIsStored, Storing, Loaded
<1> QED
  BY <1>1, <1>2, <1>3, <1>4 DEF Next

LEMMA Invariant == Spec => []IInv
BY InitInv, NextInv, PTL DEF Spec

(* Type correctness, for any requests and settings.                         *)
THEOREM TypeCorrect == Spec => []TypeOK
<1>1. IInv => TypeOK
  BY DEF IInv
<1> QED
  BY <1>1, Invariant, PTL

(* Requests are served from what a restart would load, whatever updates,    *)
(* failures of the disk and restarts come between: update of                *)
(* speech_settings.py publishes nothing it has not persisted.               *)
THEOREM Served == Spec => []ServedIsStored
<1>1. IInv => ServedIsStored
  BY DEF IInv
<1> QED
  BY <1>1, Invariant, PTL

-----------------------------------------------------------------------------
(* The refinement: what a caller sees of a request, by where it is.         *)
LEMMA SeenCases ==
    ASSUME NEW t \in Threads
    PROVE  /\ thread[t].at \in {"update", "create", "write", "replace"} =>
                  Seen(t) = Register!Request("update", thread[t].patch, Default)
           /\ thread[t].at = "publish" => Seen(t) = Register!Request("read", NoPatch, Default)
           /\ thread[t].at = "show" =>
                  Seen(t) = Register!Request("read", thread[t].patch, Default)
           /\ thread[t].at = "answer" /\ thread[t].status = 200 =>
                  Seen(t) = Register!Request("shown", NoPatch, thread[t].shown)
           /\ thread[t].at = "answer" /\ thread[t].status = 503 =>
                  Seen(t) = Register!Request("refused", NoPatch, Default)
           /\ thread[t].at = "answer" /\ thread[t].status \notin {200, 503} =>
                  Seen(t) = Register!NoRequest
           /\ thread[t].at = "idle" => Seen(t) = Register!NoRequest
BY DEF Seen, Register!Request, Register!NoRequest, Register!NoPatch, NoPatch

LEMMA RefinementInit == Init => Register!Init
<1> SUFFICES ASSUME Init PROVE Register!Init
  OBVIOUS
<1>1. Loaded = Default
  BY DEF Init, Loaded
<1>2. \A t \in Threads : Seen(t) = Register!NoRequest
  BY SeenCases DEF Init, Idle
<1> QED
  BY <1>1, <1>2 DEF Register!Init

\* A step of request t leaves what callers see of the others.
LEMMA OthersSeen ==
    ASSUME IInv, NEW t \in Threads, NEW r, thread' = [thread EXCEPT ![t] = r]
    PROVE  /\ \A u \in Threads \ {t} : Seen(u)' = Seen(u)
           /\ [u \in Threads |-> Seen(u)]'
                 = [[u \in Threads |-> Seen(u)] EXCEPT ![t] = Seen(t)']
<1>1. ASSUME NEW u \in Threads \ {t}
      PROVE  Seen(u)' = Seen(u)
  <2>1. thread'[u] = thread[u]
    BY DEF IInv, TypeOK
  <2> QED
    BY <2>1 DEF Seen
<1> QED
  BY <1>1

LEMMA RefinementStep == IInv /\ IInv' /\ [Next]_vars => [Register!Next]_Register!vars
<1> SUFFICES ASSUME IInv, IInv', [Next]_vars PROVE [Register!Next]_Register!vars
  OBVIOUS
<1> DEFINE seen == [u \in Threads |-> Seen(u)]
<1>0. ASSUME NEW t \in Threads, Seen(t)' = Seen(t), NEW r,
             thread' = [thread EXCEPT ![t] = r], file' = file
      PROVE  UNCHANGED Register!vars
  <2>1. seen' = seen
    BY <1>0, OthersSeen
  <2> QED
    BY <1>0, <2>1 DEF Register!vars, Loaded
<1>t. ASSUME NEW t \in Threads PROVE thread[t] \in Thread
  BY DEF IInv, TypeOK
<1>1. ASSUME NEW t \in Threads, Receive(t) PROVE Register!Next
  <2>1. PICK patch \in Patches, at \in {"update", "show"} :
            thread' = [thread EXCEPT ![t] = [thread[t] EXCEPT !.at = at, !.patch = patch]]
    BY <1>1 DEF Receive
  <2> DEFINE r == [thread[t] EXCEPT !.at = at, !.patch = patch]
  <2>2. thread'[t].at = at /\ thread'[t].patch = patch
    <3>1. r.at = at /\ r.patch = patch
      BY <1>t DEF Thread
    <3>2. thread'[t] = r
      BY <2>1 DEF IInv, TypeOK
    <3> QED
      BY <3>1, <3>2
  <2>3. Seen(t) = Register!NoRequest /\ UNCHANGED Loaded
    BY <1>1, SeenCases DEF Receive, Loaded
  <2>4. PICK kind \in {"update", "read"} : Seen(t)' = Register!Request(kind, patch, Default)
    <3>1. CASE at = "update"
      BY <2>2, <3>1 DEF Seen, Register!Request
    <3>2. CASE at = "show"
      BY <2>2, <3>2 DEF Seen, Register!Request
    <3> QED
      BY <3>1, <3>2
  <2>5. seen' = [seen EXCEPT ![t] = Seen(t)']
    <3> HIDE DEF r
    <3> QED
      BY <2>1, OthersSeen
  <2>6. Register!Ask(t, kind, patch)
    BY <2>3, <2>4, <2>5 DEF Register!Ask, Register!NoRequest, Register!Request
  <2> QED
    BY <2>4, <2>6 DEF Register!Next
\* Reject, Lock, Create, Write and Publish change nothing a caller can see.
<1>2. ASSUME NEW t \in Threads, Reject(t) PROVE UNCHANGED Register!vars
  <2>1. thread' = [thread EXCEPT ![t] = [thread[t] EXCEPT !.at = "answer", !.status = 400]]
    BY <1>2 DEF Reject
  <2>2. thread'[t].at = "answer" /\ thread'[t].status = 400
    BY <1>t, <2>1 DEF Thread, IInv, TypeOK
  <2>3. Seen(t)' = Register!NoRequest
    BY <2>2 DEF Seen, Register!Request, Register!NoRequest, Register!NoPatch, NoPatch
  <2>4. Seen(t) = Register!NoRequest
    BY <1>2, SeenCases DEF Reject
  <2>5. file' = file
    BY <1>2 DEF Reject
  <2> QED
    BY <1>0, <2>1, <2>3, <2>4, <2>5
<1>3. ASSUME NEW t \in Threads, Lock(t) \/ Create(t) \/ Write(t) PROVE UNCHANGED Register!vars
  <2>1. PICK r : /\ thread' = [thread EXCEPT ![t] = r]
                 /\ r.at \in {"create", "write", "replace"}
                 /\ r.patch = thread[t].patch
    <3>1. CASE Lock(t)
      <4> DEFINE r == [thread[t] EXCEPT !.at = "create", !.new = Patched(values, thread[t].patch)]
      <4>1. thread' = [thread EXCEPT ![t] = r]
        BY <3>1 DEF Lock
      <4>2. r.at = "create" /\ r.patch = thread[t].patch
        BY <1>t DEF Thread
      <4> QED
        BY <4>1, <4>2
    <3>2. CASE Create(t)
      <4> DEFINE r == [thread[t] EXCEPT !.at = "write"]
      <4>1. thread' = [thread EXCEPT ![t] = r]
        BY <3>2 DEF Create
      <4>2. r.at = "write" /\ r.patch = thread[t].patch
        BY <1>t DEF Thread
      <4> QED
        BY <4>1, <4>2
    <3>3. CASE Write(t)
      <4> DEFINE r == [thread[t] EXCEPT !.at = "replace", !.temporary = thread[t].new]
      <4>1. thread' = [thread EXCEPT ![t] = r]
        BY <3>3 DEF Write
      <4>2. r.at = "replace" /\ r.patch = thread[t].patch
        BY <1>t DEF Thread
      <4> QED
        BY <4>1, <4>2
    <3> QED
      BY <1>3, <3>1, <3>2, <3>3
  <2>2. thread'[t] = r
    BY <2>1 DEF IInv, TypeOK
  <2>3. Seen(t)' = Register!Request("update", thread[t].patch, Default)
    BY <2>1, <2>2 DEF Seen, Register!Request
  <2>4. Seen(t) = Register!Request("update", thread[t].patch, Default)
    BY <1>3, SeenCases DEF Lock, Create, Write
  <2>5. file' = file
    BY <1>3 DEF Lock, Create, Write
  <2> QED
    BY <1>0, <2>1, <2>3, <2>4, <2>5
<1>4. ASSUME NEW t \in Threads, Publish(t) PROVE UNCHANGED Register!vars
  <2> DEFINE r == [Idle EXCEPT !.at = "show"]
  <2>1. thread' = [thread EXCEPT ![t] = r] /\ file' = file
    BY <1>4 DEF Publish
  <2>2. thread'[t].at = "show" /\ thread'[t].patch = NoPatch
    BY <2>1 DEF Idle, IInv, TypeOK
  <2>3. Seen(t)' = Register!Request("read", NoPatch, Default)
    BY <2>2 DEF Seen, Register!Request
  <2>4. Seen(t) = Register!Request("read", NoPatch, Default)
    BY <1>4, SeenCases DEF Publish
  <2> HIDE DEF r
  <2> QED
    BY <1>0, <2>1, <2>3, <2>4
\* An update takes effect when its file replaces the settings file.
<1>5. ASSUME NEW t \in Threads, Replace(t) PROVE Register!Commit(t)
  <2> DEFINE r == [thread[t] EXCEPT !.at = "publish", !.temporary = None]
  <2>1. thread' = [thread EXCEPT ![t] = r] /\ file' = thread[t].temporary
    BY <1>5 DEF Replace
  <2>2. thread'[t].at = "publish"
    BY <1>t, <2>1 DEF Thread, IInv, TypeOK
  <2>3. Seen(t)' = Register!Request("read", NoPatch, Default)
    BY <2>2 DEF Seen, Register!Request
  <2>4. Seen(t) = Register!Request("update", thread[t].patch, Default)
    BY <1>5, SeenCases DEF Replace
  <2>5. Loaded' = Register!Patched(Loaded, thread[t].patch)
    <3>1. thread[t].temporary = Patched(Loaded, thread[t].patch)
      BY <1>5 DEF Replace, IInv, StoringInOrder, ServedIsStored, Storing
    <3>2. values \in Settings /\ values = Loaded
      BY <1>5, AtWorkIsUp DEF Replace, IInv, StoringInOrder
    <3>3. Patched(Loaded, thread[t].patch) = Register!Patched(Loaded, thread[t].patch)
      BY <3>2 DEF Patched, Register!Patched, Settings
    <3>4. thread[t].temporary \in Settings
      BY <1>t, <3>1, <3>2, PatchedIsSettings DEF Thread
    <3> QED
      BY <2>1, <3>1, <3>3, <3>4, SettingsAssumption DEF Loaded
  <2>6. seen' = [seen EXCEPT ![t] = Seen(t)']
    <3> HIDE DEF r
    <3> QED
      BY <2>1, OthersSeen
  <2> QED
    BY <2>3, <2>4, <2>5, <2>6
    DEF Register!Commit, Register!Request, Register!NoPatch, NoPatch
<1>6. ASSUME NEW t \in Threads, Refuse(t) PROVE Register!Refuse(t)
  <2> DEFINE r == [Idle EXCEPT !.at = "answer", !.status = 503]
  <2>1. thread' = [thread EXCEPT ![t] = r] /\ file' = file
    BY <1>6 DEF Refuse
  <2>2. thread'[t].at = "answer" /\ thread'[t].status = 503
    BY <2>1 DEF Idle, IInv, TypeOK
  <2>3. Seen(t)' = Register!Request("refused", NoPatch, Default)
    BY <2>2 DEF Seen, Register!Request
  <2>4. Seen(t) = Register!Request("update", thread[t].patch, Default)
    BY <1>6, SeenCases DEF Refuse
  <2>6. seen' = [seen EXCEPT ![t] = Seen(t)']
    <3> HIDE DEF r
    <3> QED
      BY <2>1, OthersSeen
  <2> QED
    BY <2>1, <2>3, <2>4, <2>6
    DEF Register!Refuse, Register!Request, Register!NoPatch, NoPatch, Loaded
\* A reader holds the lock, so the values it copies are those of the file.
<1>7. ASSUME NEW t \in Threads, Snapshot(t) PROVE Register!Show(t)
  <2> DEFINE shown == Patched(values, thread[t].patch)
             r == [Idle EXCEPT !.at = "answer", !.status = 200, !.shown = shown]
  <2>1. thread' = [thread EXCEPT ![t] = r] /\ file' = file
    BY <1>7 DEF Snapshot
  <2>2. thread'[t].at = "answer" /\ thread'[t].status = 200 /\ thread'[t].shown = shown
    <3> HIDE DEF shown
    <3> QED
      BY <2>1 DEF Idle, IInv, TypeOK
  <2>3. Seen(t)' = Register!Request("shown", NoPatch, shown)
    <3> HIDE DEF shown
    <3> QED
      BY <2>2 DEF Seen, Register!Request
  <2>4. Seen(t) = Register!Request("read", thread[t].patch, Default)
    BY <1>7, SeenCases DEF Snapshot
  <2>5. shown = Register!Patched(Loaded, thread[t].patch)
    <3>1. values \in Settings /\ values = Loaded
      BY <1>7, AtWorkIsUp, SettingsAssumption DEF Snapshot, IInv, ServedIsStored, Up
    <3> QED
      BY <3>1 DEF Patched, Register!Patched, Settings
  <2>6. seen' = [seen EXCEPT ![t] = Seen(t)']
    <3> HIDE DEF r
    <3> QED
      BY <2>1, OthersSeen
  <2>7. seen[t].kind = "read" /\ seen[t].patch = thread[t].patch
    BY <2>4 DEF Register!Request
  <2>8. UNCHANGED Loaded
    BY <2>1 DEF Loaded
  <2> HIDE DEF shown, seen, r
  <2> QED
    BY <2>3, <2>5, <2>6, <2>7, <2>8
    DEF Register!Show, seen, Register!Request, Register!NoPatch, NoPatch
<1>8. ASSUME NEW t \in Threads, Answer(t) PROVE [Register!Next]_Register!vars
  <2>1. thread' = [thread EXCEPT ![t] = Idle] /\ file' = file
    BY <1>8 DEF Answer
  <2>2. Seen(t)' = Register!NoRequest
    BY <2>1 DEF Seen, Idle, Register!Request, Register!NoRequest, Register!NoPatch, NoPatch, IInv, TypeOK
  <2>3. seen' = [seen EXCEPT ![t] = Seen(t)']
    BY <2>1, OthersSeen
  <2>4. CASE thread[t].status \in {200, 503}
    <3>1. Seen(t).kind \in {"shown", "refused"}
      <4>1. CASE thread[t].status = 200
        BY <1>8, <4>1, SeenCases DEF Answer, Register!Request
      <4>2. CASE thread[t].status = 503
        BY <1>8, <4>2, SeenCases DEF Answer, Register!Request
      <4> QED
        BY <2>4, <4>1, <4>2
    <3>2. Register!Answer(t)
      BY <2>1, <2>2, <2>3, <3>1 DEF Register!Answer, Loaded
    <3> QED
      BY <3>2 DEF Register!Next
  <2>5. CASE thread[t].status \notin {200, 503}
    <3>1. Seen(t) = Register!NoRequest
      BY <1>8, <2>5, SeenCases DEF Answer
    <3> QED
      BY <1>0, <2>1, <2>2, <3>1
  <2> QED
    BY <2>4, <2>5
<1>9. CASE Crash
  <2>1. \A t \in Threads : Seen(t)' = Register!NoRequest
    BY <1>9 DEF Crash, Seen, Idle, Register!Request, Register!NoRequest, Register!NoPatch, NoPatch
  <2>2. Register!Stop
    BY <1>9, <2>1 DEF Crash, Register!Stop, Loaded
  <2> QED
    BY <2>2 DEF Register!Next
<1>10. CASE Restart \/ UNCHANGED vars
  <2>1. thread' = thread /\ file' = file
    BY <1>10 DEF Restart, vars
  <2> QED
    BY <2>1 DEF Register!vars, Seen, Loaded
<1> QED
  BY <1>1, <1>2, <1>3, <1>4, <1>5, <1>6, <1>7, <1>8, <1>9, <1>10
  DEF Next, Register!Next

(* The settings behave as one register that outlives the service: update    *)
(* and describe of speech_settings.py, with any number of requests,         *)
(* failures of the disk and restarts.                                       *)
THEOREM Refines == Spec => RegisterSpec
BY RefinementInit, RefinementStep, Invariant, PTL DEF Spec, Register!Spec, RegisterSpec

-----------------------------------------------------------------------------
(* The notification latch, whose automation Home Assistant may stop at any  *)
(* time: an inductive invariant that relates the latch to the last          *)
(* notification the service accepted.                                       *)

VARIABLES level, hold, open, run, latch, saved, last, unsure

Latch == INSTANCE EpisodeLatch

(* A run that is about to notify says what the latch calls for; one that    *)
(* has, waits to record it; and while nothing was lost, the latch of an     *)
(* idle automation tells which notification was last.                       *)
LatchTells ==
    /\ run.at = "notify" => (run.message = "low" <=> ~latch)
    /\ run.at = "latch" => last = run.message
    /\ run.at # "latch" /\ ~unsure => (latch <=> last = "low")

LatchInv == Latch!TypeOK /\ LatchTells

LEMMA LatchInit == Latch!Init => LatchInv
<1> SUFFICES ASSUME Latch!Init PROVE LatchInv
  OBVIOUS
<1>1. Latch!TypeOK
  BY DEF Latch!Init, Latch!TypeOK
<1>2. run.at = "idle" /\ latch = FALSE /\ last # "low"
  BY DEF Latch!Init, Latch!NoRun
<1>3. LatchTells
  BY <1>2 DEF LatchTells
<1> QED
  BY <1>1, <1>3 DEF LatchInv

Runs == {Latch!NoRun} \cup [at : {"notify", "latch"}, message : Latch!Message]

\* A trigger leaves the run alone or starts the one the latch calls for.
LEMMA TriggerStep ==
    ASSUME LatchInv, NEW allowed \in BOOLEAN, Latch!Trigger(allowed), UNCHANGED <<latch, Latch!history>>
    PROVE  run' \in Runs /\ LatchTells'
<1>1. CASE run' = run
  BY <1>1 DEF LatchInv, Latch!TypeOK, LatchTells, Runs, Latch!history
<1>2. CASE /\ run = Latch!NoRun
           /\ Latch!Chosen # {}
           /\ run' = [at |-> "notify", message |-> CHOOSE m \in Latch!Chosen : TRUE]
  <2>1. (CHOOSE m \in Latch!Chosen : TRUE) \in Latch!Chosen
    BY <1>2
  <2>2. PICK m \in Latch!Chosen : run' = [at |-> "notify", message |-> m]
    BY <1>2, <2>1
  <2>3. m \in Latch!Message /\ (m = "low" <=> ~latch)
    BY <2>2 DEF Latch!Chosen, Latch!Message
  <2>4. run' \in Runs
    BY <2>2, <2>3 DEF Runs
  <2>5. run.at = "idle" /\ run'.at = "notify" /\ run'.message = m
    BY <1>2, <2>2 DEF Latch!NoRun
  <2>6. latch' = latch /\ last' = last /\ unsure' = unsure
    BY DEF Latch!history
  <2>7. LatchTells'
    BY <2>3, <2>5, <2>6 DEF LatchInv, LatchTells
  <2> QED
    BY <2>4, <2>7
<1> QED
  BY <1>1, <1>2 DEF Latch!Trigger

LEMMA LatchNext == LatchInv /\ [Latch!Next]_(Latch!vars) => LatchInv'
<1> SUFFICES ASSUME LatchInv, [Latch!Next]_(Latch!vars) PROVE LatchInv'
  OBVIOUS
<1> USE DEF LatchInv, Latch!TypeOK, LatchTells, Latch!history
<1>1. CASE Latch!Change
  BY <1>1 DEF Latch!Change
<1>2. CASE Latch!HoldEnds
  <2>1. open \in BOOLEAN /\ Latch!Trigger(open) /\ UNCHANGED <<level, open, latch, saved, Latch!history>>
    BY <1>2 DEF Latch!HoldEnds
  <2>2. run' \in Runs /\ LatchTells'
    BY <2>1, TriggerStep
  <2> QED
    BY <1>2, <2>1, <2>2 DEF Latch!HoldEnds, Runs
<1>3. CASE Latch!WindowStarts
  <2>1. Latch!Trigger(TRUE) /\ UNCHANGED <<level, hold, latch, saved, Latch!history>>
    BY <1>3 DEF Latch!WindowStarts
  <2>2. run' \in Runs /\ LatchTells'
    BY <2>1, TriggerStep
  <2> QED
    BY <1>3, <2>1, <2>2 DEF Latch!WindowStarts, Runs
<1>4. CASE Latch!WindowEnds
  BY <1>4 DEF Latch!WindowEnds
<1>5. CASE Latch!Accepted
  <2>1. run \in [at : {"notify", "latch"}, message : Latch!Message]
    BY <1>5 DEF Latch!Accepted, Latch!NoRun
  <2>2. run' = [at |-> "latch", message |-> run.message] /\ run.message \in Latch!Message
    BY <1>5, <2>1 DEF Latch!Accepted
  <2>3. run'.at = "latch" /\ run'.message = run.message
    BY <2>2
  <2>4. Latch!TypeOK'
    BY <1>5, <2>2 DEF Latch!Accepted
  <2> QED
    BY <1>5, <2>3, <2>4 DEF Latch!Accepted
<1>6. CASE Latch!Raised
  BY <1>6 DEF Latch!Raised, Latch!NoRun
<1>7. CASE Latch!SetLatch
  BY <1>7 DEF Latch!SetLatch, Latch!NoRun, Latch!Message
<1>8. CASE Latch!Save
  BY <1>8 DEF Latch!Save
<1>9. CASE Latch!Restart
  BY <1>9 DEF Latch!Restart, Latch!NoRun
<1>10. CASE Latch!Crash
  BY <1>10 DEF Latch!Crash, Latch!NoRun
<1>11. CASE UNCHANGED Latch!vars
  BY <1>11 DEF Latch!vars
<1> QED
  BY <1>1, <1>2, <1>3, <1>4, <1>5, <1>6, <1>7, <1>8, <1>9, <1>10, <1>11 DEF Latch!Next

LEMMA LatchCorrect == Latch!Spec => []LatchInv
BY LatchInit, LatchNext, PTL DEF Latch!Spec

(* Notifications alternate, and begin with a bad reading, unless Home       *)
(* Assistant was stopped before the latch was set or saved: the actions of  *)
(* battery_reserve.yaml.                                                    *)
THEOREM Once == Latch!Spec => Latch!NotifiedOnce
<1>1. LatchInv /\ Latch!Accepted =>
          \/ unsure
          \/ run.message # last /\ (last = "none" => run.message = "low")
  BY DEF LatchInv, LatchTells, Latch!Accepted, Latch!TypeOK, Latch!Message, Latch!NoRun
<1> QED
  BY <1>1, LatchCorrect, PTL DEF Latch!NotifiedOnce

=============================================================================
