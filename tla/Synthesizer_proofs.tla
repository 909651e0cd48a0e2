------------------------- MODULE Synthesizer_proofs -------------------------
(***************************************************************************)
(* Theorems about Synthesizer, for any number of connections and slots:    *)
(* its safety properties, and that it implements SpeechServing.            *)
(***************************************************************************)
EXTENDS Synthesizer, FiniteSetTheorems, TLAPS

-----------------------------------------------------------------------------
(* The inductive invariant.                                                 *)

(* The lock is with the request that talks to the child, or with the        *)
(* recovery, which may have failed to start.                                *)
LockInv ==
    /\ \A q \in Requests : lock = q <=> req[q].pc \in HoldingPC
    /\ rpc # "none" => lock = Recovery

(* No child is loading, and nothing of any request is on its way.           *)
Clean == child \in {"idle", "down"} /\ toChild = <<>> /\ fromChild = <<>>

(* The text of q is on its way, in work, or answered.                       *)
InFlight(q) ==
    \/ child \in {"idle", "down"} /\ toChild = <<q>> /\ fromChild = <<>>
    \/ child = q /\ toChild = <<>> /\ fromChild = <<>>
    \/ child \in {"idle", "down"} /\ toChild = <<>> /\ fromChild \in {<<q>>, <<"empty">>}

(* A new child loads, says it is up, or dies.                               *)
Reloading ==
    /\ toChild = <<>>
    /\ \/ child = "loading" /\ fromChild = <<>>
       \/ child \in {"idle", "down"} /\ fromChild \in {<<>>, <<"up">>}

(* What the pipe and the child may hold, by who has the lock.               *)
PipeInv ==
    /\ lock \in Requests =>
          \/ Clean
          \/ req[lock].pc \in {"poll", "fail", "kill"} /\ InFlight(lock)
    /\ lock \notin Requests /\ rpc # "wait" => Clean
    /\ rpc = "wait" => Reloading /\ ~ready
    /\ rpc = "start" => child = "down"
    /\ \A q \in Requests : req[q].pc = "spawn" => child = "down"

AnswerInv ==
    \A q \in Requests : /\ req[q].pc = "unlock" => req[q].answer = q
                        /\ req[q].pc = "idle" => req[q].answer # "pending"

IInv == TypeOK /\ SlotsConserved /\ LockInv /\ PipeInv /\ AnswerInv

-----------------------------------------------------------------------------
(* One message in a pipe.                                                   *)
LEMMA OneMessage ==
    ASSUME NEW S, NEW m \in S
    PROVE  /\ Append(<<>>, m) = <<m>>
           /\ Head(<<m>>) = m
           /\ Tail(<<m>>) = <<>>
           /\ <<m>> # <<>>
           /\ <<m>> \in Seq(S)
OBVIOUS

-----------------------------------------------------------------------------
(* Slots: one for every connection that is not over.                        *)
Active(r) == {q \in Requests : r[q].pc # "idle"}

LEMMA ActiveFinite == \A r : IsFiniteSet(Active(r)) /\ Cardinality(Active(r)) \in Nat
<1> TAKE r
<1>1. Active(r) \subseteq Requests
  BY DEF Active
<1> QED
  BY <1>1, SynthesizerAssumption, FS_Subset, FS_CardinalityType

LEMMA SlotsStay ==
    ASSUME SlotsConserved, NEW q \in Requests, slots' = slots,
           req[q].pc # "idle", req'[q].pc # "idle", \A o \in Requests : o # q => req'[o] = req[o]
    PROVE  SlotsConserved'
<1>1. Active(req') = Active(req)
  BY DEF Active
<1> QED
  BY <1>1 DEF SlotsConserved, Active

LEMMA SlotTaken ==
    ASSUME SlotsConserved, slots \in 0..MaxSlots, NEW q \in Requests, slots' = slots - 1,
           req[q].pc = "idle", req'[q].pc # "idle", \A o \in Requests : o # q => req'[o] = req[o]
    PROVE  SlotsConserved'
<1>1. Active(req') = Active(req) \cup {q} /\ q \notin Active(req)
  BY DEF Active
<1>2. Cardinality(Active(req')) = Cardinality(Active(req)) + 1
  BY <1>1, ActiveFinite, FS_AddElement
<1>3. slots + Cardinality(Active(req)) = MaxSlots
  BY DEF SlotsConserved, Active
<1>4. slots' + Cardinality(Active(req')) = MaxSlots
  BY <1>2, <1>3, ActiveFinite
<1> QED
  BY <1>4 DEF SlotsConserved, Active

LEMMA SlotGivenBack ==
    ASSUME SlotsConserved, slots \in 0..MaxSlots, NEW q \in Requests, slots' = slots + 1,
           req[q].pc # "idle", req'[q].pc = "idle", \A o \in Requests : o # q => req'[o] = req[o]
    PROVE  SlotsConserved' /\ slots' \in 0..MaxSlots
<1>1. Active(req') = Active(req) \ {q} /\ q \in Active(req)
  BY DEF Active
<1>2. Cardinality(Active(req')) = Cardinality(Active(req)) - 1
  BY <1>1, ActiveFinite, FS_RemoveElement
<1>3. slots + Cardinality(Active(req)) = MaxSlots
  BY DEF SlotsConserved, Active
<1>4. slots' + Cardinality(Active(req')) = MaxSlots
  BY <1>2, <1>3, ActiveFinite
<1>5. slots' \in 0..MaxSlots
  BY <1>4, ActiveFinite, SynthesizerAssumption
<1> QED
  BY <1>4, <1>5 DEF SlotsConserved, Active

\* How a step moves a request.
LEMMA GotoStep ==
    ASSUME TypeOK, SlotsConserved, UNCHANGED slots, NEW q \in Requests,
           NEW from \in RequestPC \ {"idle"}, NEW to \in RequestPC \ {"idle"}, Goto(q, from, to)
    PROVE  /\ req' \in [Requests -> [pc : RequestPC, answer : Answers]]
           /\ req[q].pc = from
           /\ req'[q] = [pc |-> to, answer |-> req[q].answer]
           /\ \A o \in Requests : o # q => req'[o] = req[o]
           /\ SlotsConserved'
<1>1. req[q] \in [pc : RequestPC, answer : Answers]
  BY DEF TypeOK
<1>2. [req[q] EXCEPT !.pc = to] = [pc |-> to, answer |-> req[q].answer]
  BY <1>1
<1>3. req' = [req EXCEPT ![q] = [pc |-> to, answer |-> req[q].answer]]
  BY <1>2 DEF Goto
<1>4. [pc |-> to, answer |-> req[q].answer] \in [pc : RequestPC, answer : Answers]
  BY <1>1
<1>5. /\ req' \in [Requests -> [pc : RequestPC, answer : Answers]]
      /\ req'[q] = [pc |-> to, answer |-> req[q].answer]
      /\ \A o \in Requests : o # q => req'[o] = req[o]
  BY <1>3, <1>4 DEF TypeOK
<1> QED
  BY <1>5, SlotsStay DEF Goto

LEMMA EndStep ==
    ASSUME TypeOK, SlotsConserved, NEW q \in Requests,
           NEW from \in RequestPC \ {"idle"}, NEW answer \in Answers, End(q, from, answer)
    PROVE  /\ req' \in [Requests -> [pc : RequestPC, answer : Answers]]
           /\ req[q].pc = from
           /\ req'[q] = [pc |-> "idle", answer |-> answer]
           /\ \A o \in Requests : o # q => req'[o] = req[o]
           /\ slots' \in 0..MaxSlots
           /\ SlotsConserved'
<1>1. /\ req' \in [Requests -> [pc : RequestPC, answer : Answers]]
      /\ req'[q] = [pc |-> "idle", answer |-> answer]
      /\ \A o \in Requests : o # q => req'[o] = req[o]
  BY DEF TypeOK, End, RequestPC
<1> QED
  BY <1>1, SlotGivenBack DEF End, TypeOK

-----------------------------------------------------------------------------
LEMMA InitInv == Init => IInv
<1> SUFFICES ASSUME Init PROVE IInv
  OBVIOUS
<1>1. \A q \in Requests : req[q].pc = "idle" /\ req[q].answer = "none"
  BY DEF Init
<1>2. TypeOK
  BY SynthesizerAssumption DEF Init, TypeOK, RequestPC, Answers
<1>3. SlotsConserved
  <2>1. Active(req) = {}
    BY <1>1 DEF Active
  <2>2. Cardinality(Active(req)) = 0
    BY <2>1, FS_EmptySet
  <2>3. slots + Cardinality(Active(req)) = MaxSlots
    BY <2>2, SynthesizerAssumption DEF Init
  <2> QED
    BY <2>3 DEF SlotsConserved, Active
<1>4. LockInv /\ PipeInv /\ AnswerInv
  BY <1>1, SynthesizerAssumption
  DEF Init, LockInv, HoldingPC, PipeInv, Clean, AnswerInv
<1> QED
  BY <1>2, <1>3, <1>4 DEF IInv

\* Steps that leave the pipe, the child, the recovery and readiness alone.
Quiet == UNCHANGED <<pipeVars, child, rpc>>

\* A request moves between places where it does not hold the lock.
LEMMA FreeStep ==
    ASSUME IInv, NEW q \in Requests, Quiet, UNCHANGED <<lock, ready>>,
           req[q].pc \notin HoldingPC, req'[q].pc \notin HoldingPC,
           \A o \in Requests : o # q => req'[o] = req[o]
    PROVE  LockInv' /\ PipeInv'
<1>1. LockInv'
  BY DEF IInv, LockInv, Quiet
<1>2. lock \in Requests => lock # q
  BY DEF IInv, LockInv
<1>3. \A r \in Requests : req'[r].pc = "spawn" => req[r].pc = "spawn"
  BY DEF HoldingPC
<1>4. UNCHANGED <<toChild, fromChild, child, rpc>>
  BY DEF Quiet, pipeVars
<1>5. PipeInv'
  BY <1>2, <1>3, <1>4 DEF IInv, PipeInv, Clean, InFlight, Reloading
<1> QED
  BY <1>1, <1>5

LEMMA ConnectionInv ==
    ASSUME IInv, NEW q \in Requests, Connection(q)
    PROVE  IInv'
<1>t. TypeOK /\ slots \in 0..MaxSlots /\ SlotsConserved /\ AnswerInv
  BY DEF IInv, TypeOK
<1>1. CASE Accept(q)
  <2>1. /\ req' = [req EXCEPT ![q] = [pc |-> "handshake", answer |-> "pending"]]
        /\ req[q].pc = "idle" /\ slots > 0 /\ slots' = slots - 1
        /\ UNCHANGED <<ready, lock, pipeVars, child, rpc, mpc>>
    BY <1>1 DEF Accept
  <2>2. /\ req' \in [Requests -> [pc : RequestPC, answer : Answers]]
        /\ req'[q] = [pc |-> "handshake", answer |-> "pending"]
        /\ \A o \in Requests : o # q => req'[o] = req[o]
    BY <1>t, <2>1 DEF TypeOK, RequestPC, Answers
  <2>3. slots' \in 0..MaxSlots
    BY <1>t, <2>1, SynthesizerAssumption
  <2>4. TypeOK'
    BY <1>t, <2>1, <2>2, <2>3 DEF TypeOK, pipeVars
  <2>5. SlotsConserved'
    BY <1>t, <2>1, <2>2, SlotTaken
  <2>6. LockInv' /\ PipeInv'
    BY <2>1, <2>2, FreeStep DEF Quiet, HoldingPC
  <2>7. AnswerInv'
    BY <1>t, <2>2 DEF AnswerInv
  <2> QED
    BY <2>4, <2>5, <2>6, <2>7 DEF IInv
<1>2. CASE Handshake(q)
  <2>1. Goto(q, "handshake", "check") /\ UNCHANGED <<slots, ready, lock, pipeVars, child, rpc, mpc>>
    BY <1>2 DEF Handshake
  <2>2. /\ req' \in [Requests -> [pc : RequestPC, answer : Answers]]
        /\ req[q].pc = "handshake"
        /\ req'[q] = [pc |-> "check", answer |-> req[q].answer]
        /\ \A o \in Requests : o # q => req'[o] = req[o]
        /\ SlotsConserved'
    BY <1>t, <2>1, GotoStep DEF RequestPC, HoldingPC
  <2>3. TypeOK'
    BY <1>t, <2>1, <2>2 DEF TypeOK, pipeVars
  <2>5. LockInv' /\ PipeInv'
    BY <2>1, <2>2, FreeStep DEF Quiet, HoldingPC
  <2>6. AnswerInv'
    BY <1>t, <2>2 DEF AnswerInv
  <2> QED
    BY <2>2, <2>3, <2>5, <2>6 DEF IInv
<1>3. CASE NotStarted(q) \/ TurnAway(q)
  <2>1. End(q, "handshake", "none") /\ UNCHANGED <<ready, lock, pipeVars, child, rpc, mpc>>
    BY <1>3 DEF NotStarted, TurnAway
  <2>2. /\ req' \in [Requests -> [pc : RequestPC, answer : Answers]]
        /\ req[q].pc = "handshake"
        /\ req'[q] = [pc |-> "idle", answer |-> "none"]
        /\ \A o \in Requests : o # q => req'[o] = req[o]
        /\ slots' \in 0..MaxSlots /\ SlotsConserved'
    BY <1>t, <2>1, EndStep DEF Answers, RequestPC, HoldingPC
  <2>3. TypeOK'
    BY <1>t, <2>1, <2>2 DEF TypeOK, pipeVars
  <2>5. LockInv' /\ PipeInv'
    BY <2>1, <2>2, FreeStep DEF Quiet, HoldingPC
  <2>6. AnswerInv'
    BY <1>t, <2>2 DEF AnswerInv
  <2> QED
    BY <2>2, <2>3, <2>5, <2>6 DEF IInv
<1> QED
  BY <1>1, <1>2, <1>3 DEF Connection

-----------------------------------------------------------------------------
(* generate: the holder of the lock.                                        *)

\* The holder goes on.
LEMMA HolderStep ==
    ASSUME IInv, NEW q \in Requests, UNCHANGED <<lock, rpc>>,
           req[q].pc \in HoldingPC, req'[q].pc \in HoldingPC,
           \A o \in Requests : o # q => req'[o] = req[o]
    PROVE  LockInv' /\ lock = q /\ rpc = "none"
<1>1. LockInv /\ lock = q
  BY DEF IInv, LockInv
<1>2. rpc = "none"
  BY <1>1, SynthesizerAssumption DEF LockInv
<1>3. LockInv'
  BY <1>1 DEF LockInv
<1> QED
  BY <1>1, <1>2, <1>3

\* The holder gives the lock up, to nobody or to the recovery.
LEMMA ReleaseStep ==
    ASSUME IInv, NEW q \in Requests, lock' \in {None, Recovery},
           rpc' = rpc \/ lock' = Recovery,
           req[q].pc \in HoldingPC, req'[q].pc \notin HoldingPC,
           \A o \in Requests : o # q => req'[o] = req[o]
    PROVE  LockInv' /\ lock = q /\ rpc = "none"
<1>1. LockInv /\ lock = q
  BY DEF IInv, LockInv
<1>2. rpc = "none" /\ lock' \notin Requests
  BY <1>1, SynthesizerAssumption DEF LockInv
<1>3. \A o \in Requests : req'[o].pc \notin HoldingPC
  BY <1>1 DEF LockInv
<1>4. LockInv'
  BY <1>2, <1>3 DEF LockInv
<1> QED
  BY <1>1, <1>2, <1>4

\* Only the holder of the lock can be about to start the recovery.
LEMMA HolderPipe ==
    ASSUME NEW q \in Requests, LockInv', lock' = q, rpc' = "none",
           \/ Clean'
           \/ req'[q].pc \in {"poll", "fail", "kill"} /\ InFlight(q)',
           req'[q].pc = "spawn" => child' = "down"
    PROVE  PipeInv'
<1>1. \A o \in Requests : req'[o].pc = "spawn" => child' = "down"
  BY DEF LockInv, HoldingPC
<1> QED
  BY <1>1 DEF PipeInv

LEMMA FreePipe ==
    ASSUME LockInv', lock' \notin Requests, rpc' \notin {"wait"}, Clean',
           rpc' = "start" => child' = "down"
    PROVE  PipeInv'
<1>1. \A o \in Requests : req'[o].pc # "spawn"
  BY DEF LockInv, HoldingPC
<1> QED
  BY <1>1 DEF PipeInv

\* What is in the pipe of a holder, by its place.
LEMMA HolderSees ==
    ASSUME IInv, NEW q \in Requests, lock = q
    PROVE  /\ Clean \/ (req[q].pc \in {"poll", "fail", "kill"} /\ InFlight(q))
           /\ req[q].pc \in {"send", "unlock", "spawn"} => Clean
           /\ req[q].pc = "spawn" => child = "down"
BY DEF IInv, PipeInv

\* Taking the lock, or being told that the model is busy.
LEMMA AdmissionInv ==
    ASSUME IInv, NEW q \in Requests, CheckReady(q) \/ Acquire(q) \/ Busy(q)
    PROVE  IInv'
<1>t. TypeOK /\ slots \in 0..MaxSlots /\ SlotsConserved /\ AnswerInv /\ LockInv /\ PipeInv
  BY DEF IInv, TypeOK
<1>1. CASE CheckReady(q)
  <2>1. Goto(q, "check", "acquire") /\ UNCHANGED <<slots, ready, lock, pipeVars, child, rpc, mpc>>
    BY <1>1 DEF CheckReady
  <2>2. /\ req' \in [Requests -> [pc : RequestPC, answer : Answers]]
        /\ req[q].pc = "check"
        /\ req'[q] = [pc |-> "acquire", answer |-> req[q].answer]
        /\ \A o \in Requests : o # q => req'[o] = req[o]
        /\ SlotsConserved'
    BY <1>t, <2>1, GotoStep DEF RequestPC, HoldingPC
  <2>3. TypeOK'
    BY <1>t, <2>1, <2>2 DEF TypeOK, pipeVars
  <2>4. LockInv' /\ PipeInv'
    BY <2>1, <2>2, FreeStep DEF Quiet, HoldingPC
  <2>5. AnswerInv'
    BY <1>t, <2>2 DEF AnswerInv
  <2> QED
    BY <2>2, <2>3, <2>4, <2>5 DEF IInv
<1>2. CASE Acquire(q)
  <2>1. /\ lock = None /\ Goto(q, "acquire", "send") /\ lock' = q
        /\ UNCHANGED <<slots, ready, pipeVars, child, rpc, mpc>>
    BY <1>2 DEF Acquire
  <2>2. /\ req' \in [Requests -> [pc : RequestPC, answer : Answers]]
        /\ req'[q] = [pc |-> "send", answer |-> req[q].answer]
        /\ \A o \in Requests : o # q => req'[o] = req[o]
        /\ SlotsConserved'
    BY <1>t, <2>1, GotoStep DEF RequestPC, HoldingPC
  <2>3. TypeOK'
    BY <1>t, <2>1, <2>2 DEF TypeOK, pipeVars
  <2>4. rpc = "none" /\ lock \notin Requests
    BY <1>t, <2>1, SynthesizerAssumption DEF LockInv
  <2>5. \A o \in Requests : o # q => req'[o].pc \notin HoldingPC
    BY <1>t, <2>2, <2>4 DEF LockInv
  <2>6. LockInv'
    BY <2>1, <2>2, <2>4, <2>5 DEF LockInv, HoldingPC
  <2>7. Clean'
    BY <1>t, <2>1, <2>4 DEF PipeInv, Clean, pipeVars
  <2>8. PipeInv'
    BY <2>1, <2>2, <2>4, <2>6, <2>7, HolderPipe
  <2>9. AnswerInv'
    BY <1>t, <2>2 DEF AnswerInv
  <2> QED
    BY <2>2, <2>3, <2>6, <2>8, <2>9 DEF IInv
<1>3. CASE Busy(q)
  <2>1. PICK from \in {"check", "acquire"} :
            End(q, from, "busy") /\ UNCHANGED <<ready, lock, pipeVars, child, rpc, mpc>>
    BY <1>3 DEF Busy
  <2>2. /\ req' \in [Requests -> [pc : RequestPC, answer : Answers]]
        /\ req[q].pc = from
        /\ req'[q] = [pc |-> "idle", answer |-> "busy"]
        /\ \A o \in Requests : o # q => req'[o] = req[o]
        /\ slots' \in 0..MaxSlots /\ SlotsConserved'
    BY <1>t, <2>1, EndStep DEF Answers, RequestPC, HoldingPC
  <2>3. TypeOK'
    BY <1>t, <2>1, <2>2 DEF TypeOK, pipeVars
  <2>4. LockInv' /\ PipeInv'
    BY <2>1, <2>2, FreeStep DEF Quiet, HoldingPC
  <2>5. AnswerInv'
    BY <1>t, <2>2 DEF AnswerInv
  <2> QED
    BY <2>2, <2>3, <2>4, <2>5 DEF IInv
<1> QED
  BY <1>1, <1>2, <1>3

\* The exchange with the child.
LEMMA ExchangeInv ==
    ASSUME IInv, NEW q \in Requests, Send(q) \/ Receive(q) \/ Raises(q)
    PROVE  IInv'
<1>t. TypeOK /\ SlotsConserved /\ AnswerInv
  BY DEF IInv
<1>1. CASE Send(q)
  <2>1. /\ child # "down" /\ Goto(q, "send", "poll") /\ toChild' = Append(toChild, q)
        /\ UNCHANGED <<slots, ready, lock, conn, fromChild, child, rpc, mpc>>
    BY <1>1 DEF Send
  <2>2. /\ req' \in [Requests -> [pc : RequestPC, answer : Answers]]
        /\ req[q].pc = "send"
        /\ req'[q] = [pc |-> "poll", answer |-> req[q].answer]
        /\ \A o \in Requests : o # q => req'[o] = req[o]
        /\ SlotsConserved'
    BY <1>t, <2>1, GotoStep DEF RequestPC, HoldingPC
  <2>3. LockInv' /\ lock = q /\ rpc = "none"
    BY <2>1, <2>2, HolderStep DEF HoldingPC
  <2>4. toChild = <<>> /\ fromChild = <<>> /\ child = "idle"
    BY <2>1, <2>2, <2>3, HolderSees DEF Clean
  <2>5. toChild' = <<q>> /\ <<q>> \in Seq(Requests)
    BY <2>1, <2>4, OneMessage
  <2>6. TypeOK'
    BY <1>t, <2>1, <2>2, <2>5 DEF TypeOK
  <2>7. InFlight(q)'
    BY <2>1, <2>4, <2>5 DEF InFlight
  <2>8. PipeInv'
    BY <2>1, <2>2, <2>3, <2>7, HolderPipe
  <2>9. AnswerInv'
    BY <1>t, <2>2 DEF AnswerInv
  <2> QED
    BY <2>2, <2>3, <2>6, <2>8, <2>9 DEF IInv
<1>2. CASE Receive(q)
  <2>1. /\ fromChild # <<>> /\ fromChild' = Tail(fromChild)
        /\ UNCHANGED <<slots, ready, lock, conn, toChild, child, rpc, mpc>>
        /\ req[q].pc = "poll"
    BY <1>2 DEF Receive, Goto
  <2>2. LockInv /\ lock = q
    BY <2>1 DEF IInv, LockInv, HoldingPC
  <2>3. InFlight(q) /\ fromChild \in {<<q>>, <<"empty">>}
    BY <2>1, <2>2, HolderSees DEF Clean, InFlight
  <2>4. Clean'
    BY <2>1, <2>3, OneMessage, SynthesizerAssumption DEF InFlight, Clean
  <2>5. /\ req' \in [Requests -> [pc : RequestPC, answer : Answers]]
        /\ \/ req'[q] = [pc |-> "fail", answer |-> req[q].answer]
           \/ req'[q] = [pc |-> "unlock", answer |-> q]
        /\ \A o \in Requests : o # q => req'[o] = req[o]
        /\ SlotsConserved'
    <3>1. CASE fromChild = <<"empty">>
      <4>1. Goto(q, "poll", "fail")
        BY <1>2, <3>1 DEF Receive
      <4> QED
        BY <1>t, <2>1, <4>1, GotoStep DEF RequestPC, HoldingPC
    <3>2. CASE fromChild = <<q>>
      <4>1. q # "empty" /\ Head(fromChild) = q
        BY <3>2, SynthesizerAssumption
      <4>2. req' = [req EXCEPT ![q] = [pc |-> "unlock", answer |-> q]]
        BY <1>2, <4>1 DEF Receive
      <4>3. /\ req' \in [Requests -> [pc : RequestPC, answer : Answers]]
            /\ req'[q] = [pc |-> "unlock", answer |-> q]
            /\ \A o \in Requests : o # q => req'[o] = req[o]
        BY <1>t, <4>2 DEF TypeOK, RequestPC, HoldingPC, Answers
      <4> QED
        BY <1>t, <2>1, <4>3, SlotsStay
    <3> QED
      BY <2>3, <3>1, <3>2
  <2>6. TypeOK'
    BY <1>t, <2>1, <2>4, <2>5 DEF TypeOK, Clean
  <2>7. LockInv' /\ rpc = "none"
    BY <2>1, <2>5, HolderStep DEF HoldingPC
  <2>8. PipeInv'
    BY <2>1, <2>2, <2>4, <2>5, <2>7, HolderPipe
  <2>9. AnswerInv'
    BY <1>t, <2>5 DEF AnswerInv
  <2> QED
    BY <2>5, <2>6, <2>7, <2>8, <2>9 DEF IInv
<1>3. CASE Raises(q)
  <2>1. PICK from \in {"send", "poll"} :
            /\ Goto(q, from, "fail")
            /\ UNCHANGED <<slots, ready, lock, pipeVars, child, rpc, mpc>>
    BY <1>3 DEF Raises
  <2>2. /\ req' \in [Requests -> [pc : RequestPC, answer : Answers]]
        /\ req[q].pc = from
        /\ req'[q] = [pc |-> "fail", answer |-> req[q].answer]
        /\ \A o \in Requests : o # q => req'[o] = req[o]
        /\ SlotsConserved'
    BY <1>t, <2>1, GotoStep DEF RequestPC, HoldingPC
  <2>3. LockInv' /\ lock = q /\ rpc = "none"
    BY <2>1, <2>2, HolderStep DEF HoldingPC
  <2>4. Clean' \/ InFlight(q)'
    BY <2>1, <2>3, HolderSees DEF Clean, InFlight, pipeVars
  <2>5. TypeOK'
    BY <1>t, <2>1, <2>2 DEF TypeOK, pipeVars
  <2>6. PipeInv'
    BY <2>1, <2>2, <2>3, <2>4, HolderPipe
  <2>7. AnswerInv'
    BY <1>t, <2>2 DEF AnswerInv
  <2> QED
    BY <2>2, <2>3, <2>5, <2>6, <2>7 DEF IInv
<1> QED
  BY <1>1, <1>2, <1>3

\* Answering, and handing the lock on.
LEMMA AnsweringInv ==
    ASSUME IInv, NEW q \in Requests,
           Unlock(q) \/ FailClear(q) \/ FailKill(q) \/ Spawn(q) \/ SpawnFails(q)
    PROVE  IInv'
<1>t. TypeOK /\ SlotsConserved /\ AnswerInv
  BY DEF IInv
<1>1. CASE Unlock(q)
  <2>1. /\ End(q, "unlock", req[q].answer) /\ lock' = None
        /\ UNCHANGED <<ready, pipeVars, child, rpc, mpc>>
    BY <1>1 DEF Unlock
  <2>2. req[q].answer = q
    BY <1>t, <2>1 DEF AnswerInv, End
  <2>3. /\ req' \in [Requests -> [pc : RequestPC, answer : Answers]]
        /\ req[q].pc = "unlock"
        /\ req'[q] = [pc |-> "idle", answer |-> q]
        /\ \A o \in Requests : o # q => req'[o] = req[o]
        /\ slots' \in 0..MaxSlots /\ SlotsConserved'
    BY <1>t, <2>1, <2>2, EndStep DEF Answers, RequestPC, HoldingPC
  <2>4. TypeOK'
    BY <1>t, <2>1, <2>3 DEF TypeOK, pipeVars
  <2>5. LockInv' /\ lock = q /\ rpc = "none"
    BY <2>1, <2>3, ReleaseStep DEF HoldingPC
  <2>6. Clean'
    BY <2>1, <2>3, <2>5, HolderSees DEF Clean, pipeVars
  <2>7. PipeInv'
    BY <2>1, <2>5, <2>6, FreePipe, SynthesizerAssumption
  <2>8. AnswerInv'
    BY <1>t, <2>3, SynthesizerAssumption DEF AnswerInv
  <2> QED
    BY <2>3, <2>4, <2>5, <2>7, <2>8 DEF IInv
<1>2. CASE FailClear(q)
  <2>1. /\ Goto(q, "fail", "kill") /\ ready' = FALSE
        /\ UNCHANGED <<slots, lock, pipeVars, child, rpc, mpc>>
    BY <1>2 DEF FailClear
  <2>2. /\ req' \in [Requests -> [pc : RequestPC, answer : Answers]]
        /\ req[q].pc = "fail"
        /\ req'[q] = [pc |-> "kill", answer |-> req[q].answer]
        /\ \A o \in Requests : o # q => req'[o] = req[o]
        /\ SlotsConserved'
    BY <1>t, <2>1, GotoStep DEF RequestPC, HoldingPC
  <2>3. TypeOK'
    BY <1>t, <2>1, <2>2 DEF TypeOK, pipeVars
  <2>4. LockInv' /\ lock = q /\ rpc = "none"
    BY <2>1, <2>2, HolderStep DEF HoldingPC
  <2>5. Clean' \/ InFlight(q)'
    BY <2>1, <2>4, HolderSees DEF Clean, InFlight, pipeVars
  <2>6. PipeInv'
    BY <2>1, <2>2, <2>4, <2>5, HolderPipe
  <2>7. AnswerInv'
    BY <1>t, <2>2 DEF AnswerInv
  <2> QED
    BY <2>2, <2>3, <2>4, <2>6, <2>7 DEF IInv
<1>3. CASE FailKill(q)
  <2>1. /\ Goto(q, "kill", "spawn") /\ Kill
        /\ UNCHANGED <<slots, ready, lock, rpc, mpc>>
    BY <1>3 DEF FailKill
  <2>2. /\ req' \in [Requests -> [pc : RequestPC, answer : Answers]]
        /\ req[q].pc = "kill"
        /\ req'[q] = [pc |-> "spawn", answer |-> req[q].answer]
        /\ \A o \in Requests : o # q => req'[o] = req[o]
        /\ SlotsConserved'
    BY <1>t, <2>1, GotoStep DEF RequestPC, HoldingPC
  <2>3. TypeOK'
    BY <1>t, <2>1, <2>2 DEF TypeOK, Kill
  <2>4. LockInv' /\ lock = q /\ rpc = "none"
    BY <2>1, <2>2, HolderStep DEF HoldingPC
  <2>5. Clean' /\ child' = "down"
    BY <2>1 DEF Clean, Kill
  <2>6. PipeInv'
    BY <2>1, <2>4, <2>5, HolderPipe
  <2>7. AnswerInv'
    BY <1>t, <2>2 DEF AnswerInv
  <2> QED
    BY <2>2, <2>3, <2>4, <2>6, <2>7 DEF IInv
<1>4. CASE Spawn(q) \/ SpawnFails(q)
  <2>1. /\ End(q, "spawn", "failed") /\ lock' = Recovery /\ rpc' \in {"start", rpc}
        /\ UNCHANGED <<ready, pipeVars, child, mpc>>
    BY <1>4 DEF Spawn, SpawnFails
  <2>2. /\ req' \in [Requests -> [pc : RequestPC, answer : Answers]]
        /\ req[q].pc = "spawn"
        /\ req'[q] = [pc |-> "idle", answer |-> "failed"]
        /\ \A o \in Requests : o # q => req'[o] = req[o]
        /\ slots' \in 0..MaxSlots /\ SlotsConserved'
    BY <1>t, <2>1, EndStep DEF Answers, RequestPC, HoldingPC
  <2>3. TypeOK'
    BY <1>t, <2>1, <2>2 DEF TypeOK, pipeVars
  <2>4. LockInv' /\ lock = q /\ rpc = "none"
    BY <2>1, <2>2, ReleaseStep DEF HoldingPC
  <2>5. Clean' /\ child' = "down"
    BY <2>1, <2>2, <2>4, HolderSees DEF Clean, pipeVars
  <2>6. PipeInv'
    BY <2>1, <2>4, <2>5, FreePipe, SynthesizerAssumption
  <2>7. AnswerInv'
    BY <1>t, <2>2 DEF AnswerInv
  <2> QED
    BY <2>2, <2>3, <2>4, <2>6, <2>7 DEF IInv
<1> QED
  BY <1>1, <1>2, <1>3, <1>4

-----------------------------------------------------------------------------
(* Steps that leave every request where it is.                              *)

\* The recovery thread.
LEMMA RecoveringInv == ASSUME IInv, Recovering PROVE IInv'
<1>t. TypeOK
  BY DEF IInv
<1>1. /\ TypeOK /\ SlotsConserved /\ AnswerInv /\ LockInv /\ PipeInv
      /\ UNCHANGED <<slots, req>> /\ rpc # "none"
  BY DEF IInv, Recovering, RecoverStart, RecoverRaises, RecoverUp, RecoverGivesUp,
         RecoverSet, RecoverSigterm, RecoverRelease, Recover
<1>2. lock = Recovery /\ lock \notin Requests
  BY <1>1, SynthesizerAssumption DEF LockInv
<1>3. SlotsConserved' /\ AnswerInv'
  BY <1>1 DEF SlotsConserved, AnswerInv
<1>4. LockInv'
  BY <1>1, <1>2, SynthesizerAssumption
  DEF LockInv, Recovering, RecoverStart, RecoverRaises, RecoverUp, RecoverGivesUp,
      RecoverSet, RecoverSigterm, RecoverRelease, Recover
<1>5. lock' \notin Requests
  BY <1>1, <1>2, SynthesizerAssumption
  DEF Recovering, RecoverStart, RecoverRaises, RecoverUp, RecoverGivesUp,
      RecoverSet, RecoverSigterm, RecoverRelease, Recover
<1>6. \A q \in Requests : req'[q].pc # "spawn"
  BY <1>1, <1>2 DEF LockInv, HoldingPC
<1> DEFINE Fine == TypeOK' /\ (rpc' # "wait" => Clean') /\ rpc' # "start"
                   /\ (rpc' = "wait" => Reloading' /\ ~ready')
<1>7. CASE RecoverStart
  <2>1. TypeOK'
    <3>1. /\ UNCHANGED <<slots, lock, mpc, req>> /\ ready' = FALSE /\ conn' \in {"open", "closed"}
          /\ toChild' = <<>> /\ fromChild' = <<>>
          /\ child' \in {"loading", "down"} /\ rpc' \in {"wait", "sigterm"}
      BY <1>7 DEF RecoverStart, Recover
    <3>2. <<>> \in Seq(Requests) /\ <<>> \in Seq(Messages)
      OBVIOUS
    <3> QED
      BY <1>t, <3>1, <3>2 DEF TypeOK
  <2>2. Reloading' /\ ready' = FALSE /\ rpc' = "wait"
    BY <1>7 DEF RecoverStart, Recover, Reloading
  <2>3. Fine
    BY <2>1, <2>2
  <2> QED
    BY <2>3, <1>3, <1>4, <1>5, <1>6 DEF IInv, PipeInv
<1>8. CASE RecoverUp
  <2>1. rpc = "wait" /\ fromChild = <<"up">> /\ toChild = <<>> /\ child \in {"idle", "down"}
    BY <1>1, <1>8 DEF RecoverUp, Recover, PipeInv, Reloading
  <2>2. Tail(fromChild) = <<>>
    BY <2>1
  <2>3. Fine
    BY <1>1, <1>8, <2>1, <2>2 DEF RecoverUp, Recover, TypeOK, Clean
  <2> QED
    BY <2>3, <1>3, <1>4, <1>5, <1>6 DEF IInv, PipeInv
<1>9. CASE RecoverGivesUp
  <2>1. TypeOK'
    <3>1. /\ UNCHANGED <<slots, lock, mpc, req>> /\ ready' = FALSE /\ conn' \in {"open", "closed"}
          /\ toChild' = <<>> /\ fromChild' = <<>>
          /\ child' \in {"loading", "down"} /\ rpc' \in {"wait", "sigterm"}
      BY <1>9 DEF RecoverGivesUp, Recover, Kill
    <3>2. <<>> \in Seq(Requests) /\ <<>> \in Seq(Messages)
      OBVIOUS
    <3> QED
      BY <1>t, <3>1, <3>2 DEF TypeOK
  <2>2. Clean' /\ rpc' = "sigterm"
    BY <1>9 DEF RecoverGivesUp, Recover, Kill, Clean
  <2>3. Fine
    BY <2>1, <2>2
  <2> QED
    BY <2>3, <1>3, <1>4, <1>5, <1>6 DEF IInv, PipeInv
<1>10. CASE RecoverRaises \/ RecoverSet \/ RecoverSigterm \/ RecoverRelease
  <2>1. rpc # "wait" /\ UNCHANGED <<conn, toChild, fromChild, child>>
    BY <1>10 DEF RecoverRaises, RecoverSet, RecoverSigterm, RecoverRelease, Recover, pipeVars
  <2>2. Clean /\ Clean'
    BY <1>1, <1>2, <2>1 DEF PipeInv, Clean
  <2>3. Fine
    BY <1>1, <1>10, <2>1, <2>2
    DEF RecoverRaises, RecoverSet, RecoverSigterm, RecoverRelease, Recover, TypeOK
  <2> QED
    BY <2>3, <1>3, <1>4, <1>5, <1>6 DEF IInv, PipeInv
<1> QED
  BY <1>7, <1>8, <1>9, <1>10 DEF Recovering

\* The main thread.
LEMMA MainInv == ASSUME IInv, Sigterm \/ Closing PROVE IInv'
<1>1. /\ TypeOK /\ SlotsConserved /\ AnswerInv /\ LockInv /\ PipeInv
      /\ UNCHANGED <<slots, lock, rpc, req>>
  BY DEF IInv, Sigterm, Closing, MainClear, MainKill, Main
<1>2. SlotsConserved' /\ AnswerInv' /\ LockInv'
  BY <1>1 DEF SlotsConserved, AnswerInv, LockInv
<1>3. CASE Sigterm \/ MainClear
  <2>1. /\ UNCHANGED <<conn, toChild, fromChild, child>> /\ ready' \in {ready, FALSE}
        /\ mpc' \in {"clear", "kill"}
    BY <1>3 DEF Sigterm, MainClear, Main, pipeVars
  <2>2. TypeOK'
    BY <1>1, <2>1 DEF TypeOK
  <2>3. ~ready => ~ready'
    BY <1>1, <2>1 DEF TypeOK
  <2>4. PipeInv'
    BY <1>1, <2>1, <2>3 DEF PipeInv, Clean, InFlight, Reloading
  <2> QED
    BY <1>2, <2>2, <2>4 DEF IInv
<1>4. CASE MainKill
  <2>1. Kill /\ UNCHANGED ready /\ mpc' = "exited"
    BY <1>4 DEF MainKill, Main
  <2>2. TypeOK'
    BY <1>1, <2>1 DEF TypeOK, Kill
  <2>3. PipeInv'
    BY <1>1, <2>1 DEF PipeInv, Clean, Reloading, Kill
  <2> QED
    BY <1>2, <2>2, <2>3 DEF IInv
<1> QED
  BY <1>3, <1>4 DEF Closing

\* The child: what it may do to the pipe depends on who has the lock.
LEMMA WorkerInv == ASSUME IInv, Worker PROVE IInv'
<1>1. /\ TypeOK /\ SlotsConserved /\ AnswerInv /\ LockInv /\ PipeInv
      /\ UNCHANGED <<slots, ready, lock, conn, rpc, mpc, req>>
  BY DEF IInv, Worker, ChildUp, ChildTake, ChildDies, ChildAnswer, Child
<1>2. SlotsConserved' /\ AnswerInv' /\ LockInv'
  BY <1>1 DEF SlotsConserved, AnswerInv, LockInv
<1>3. Clean \/ (rpc = "wait" /\ lock \notin Requests /\ Reloading)
            \/ (lock \in Requests /\ req[lock].pc \in {"poll", "fail", "kill"} /\ InFlight(lock))
  BY <1>1 DEF PipeInv
<1>4. ASSUME UNCHANGED <<ready, lock, rpc, req>>,
             \/ Clean /\ Clean'
             \/ rpc = "wait" /\ lock \notin Requests /\ Reloading'
             \/ /\ lock \in Requests /\ req[lock].pc \in {"poll", "fail", "kill"}
                /\ Clean' \/ InFlight(lock)',
             child = "down" => child' = "down"
      PROVE  PipeInv'
  <2>1. \A q \in Requests : req[q].pc = "spawn" => child' = "down"
    BY <1>1, <1>4 DEF PipeInv
  <2>2. rpc = "start" => child' = "down"
    BY <1>1, <1>4 DEF PipeInv
  <2>3. lock \in Requests => rpc # "wait"
    BY <1>1, SynthesizerAssumption DEF LockInv
  <2>4. CASE Clean /\ Clean'
    <3>1. Reloading'
      BY <2>4 DEF Clean, Reloading
    <3> QED
      BY <1>1, <1>4, <2>1, <2>2, <2>4, <3>1 DEF PipeInv
  <2>5. CASE rpc = "wait" /\ lock \notin Requests /\ Reloading'
    BY <1>1, <1>4, <2>1, <2>2, <2>5 DEF PipeInv
  <2>6. CASE /\ lock \in Requests /\ req[lock].pc \in {"poll", "fail", "kill"}
             /\ Clean' \/ InFlight(lock)'
    BY <1>4, <2>1, <2>2, <2>3, <2>6 DEF PipeInv
  <2> QED
    BY <1>4, <2>4, <2>5, <2>6
<1>5. CASE ChildUp
  <2>1. child = "loading" /\ child' = "idle" /\ fromChild' = Append(fromChild, "up")
        /\ toChild' = toChild
    BY <1>5 DEF ChildUp, Child
  <2>2. rpc = "wait" /\ lock \notin Requests /\ toChild = <<>> /\ fromChild = <<>>
    BY <1>3, <2>1, SynthesizerAssumption DEF Clean, Reloading, InFlight
  <2>3. fromChild' = <<"up">> /\ <<"up">> \in Seq(Messages)
    BY <2>1, <2>2, OneMessage DEF Messages
  <2>4. TypeOK'
    BY <1>1, <2>1, <2>3 DEF TypeOK
  <2>5. PipeInv'
    BY <1>1, <1>4, <2>1, <2>2, <2>3 DEF Reloading
  <2> QED
    BY <1>2, <2>4, <2>5 DEF IInv
<1>6. CASE ChildTake
  <2>1. toChild # <<>> /\ child = "idle" /\ child' = Head(toChild) /\ toChild' = Tail(toChild)
        /\ fromChild' = fromChild
    BY <1>6 DEF ChildTake, Child
  <2>2. lock \in Requests /\ req[lock].pc \in {"poll", "fail", "kill"}
        /\ toChild = <<lock>> /\ fromChild = <<>>
    BY <1>3, <2>1 DEF Clean, Reloading, InFlight
  <2>3. child' = lock /\ toChild' = <<>> /\ <<>> \in Seq(Requests)
    BY <2>1, <2>2
  <2>4. TypeOK'
    BY <1>1, <2>1, <2>2, <2>3 DEF TypeOK
  <2>5. InFlight(lock)'
    BY <1>1, <2>1, <2>2, <2>3 DEF InFlight
  <2>6. PipeInv'
    BY <1>1, <1>4, <2>1, <2>2, <2>5
  <2> QED
    BY <1>2, <2>4, <2>6 DEF IInv
<1>7. CASE \E q \in Requests : ChildAnswer(q)
  <2>1. PICK q \in Requests : ChildAnswer(q)
    BY <1>7
  <2>2. PICK m \in {q, "empty"} : child = q /\ child' = "idle"
                                 /\ fromChild' = Append(fromChild, m) /\ toChild' = toChild
    BY <2>1 DEF ChildAnswer, Child
  <2>3. lock = q /\ req[lock].pc \in {"poll", "fail", "kill"} /\ toChild = <<>> /\ fromChild = <<>>
    BY <1>3, <2>2, SynthesizerAssumption DEF Clean, Reloading, InFlight
  <2>4. fromChild' = <<m>> /\ <<m>> \in Seq(Messages)
    BY <2>2, <2>3, OneMessage DEF Messages
  <2>5. TypeOK'
    BY <1>1, <2>2, <2>3, <2>4 DEF TypeOK
  <2>6. InFlight(lock)'
    BY <1>1, <2>2, <2>3, <2>4 DEF InFlight
  <2>7. PipeInv'
    BY <1>1, <1>4, <2>2, <2>3, <2>6, SynthesizerAssumption
  <2> QED
    BY <1>2, <2>5, <2>7 DEF IInv
<1>8. CASE ChildDies
  <2>1. child' = "down" /\ UNCHANGED <<toChild, fromChild>>
    BY <1>8 DEF ChildDies, Child
  <2>2. TypeOK'
    BY <1>1, <2>1 DEF TypeOK
  <2>3. \/ Clean /\ Clean'
        \/ rpc = "wait" /\ lock \notin Requests /\ Reloading'
        \/ /\ lock \in Requests /\ req[lock].pc \in {"poll", "fail", "kill"}
           /\ Clean' \/ InFlight(lock)'
    BY <1>1, <1>3, <2>1 DEF Clean, Reloading, InFlight
  <2>4. PipeInv'
    BY <1>1, <1>4, <2>1, <2>3
  <2> QED
    BY <1>2, <2>2, <2>4 DEF IInv
<1> QED
  BY <1>5, <1>6, <1>7, <1>8 DEF Worker

LEMMA StutterInv == ASSUME IInv, UNCHANGED vars PROVE IInv'
BY DEF IInv, vars, pipeVars, TypeOK, SlotsConserved, LockInv, PipeInv, Clean, InFlight, Reloading,
       AnswerInv

LEMMA NextInv == IInv /\ [Next]_vars => IInv'
<1> SUFFICES ASSUME IInv, [Next]_vars PROVE IInv'
  OBVIOUS
<1>1. CASE \E q \in Requests : Connection(q) \/ Generate(q)
  <2>1. PICK q \in Requests : Connection(q) \/ Generate(q)
    BY <1>1
  <2> QED
    BY <2>1, ConnectionInv, AdmissionInv, ExchangeInv, AnsweringInv DEF Generate
<1>2. CASE Recovering
  BY <1>2, RecoveringInv
<1>3. CASE Sigterm \/ Closing
  BY <1>3, MainInv
<1>4. CASE Worker
  BY <1>4, WorkerInv
<1>5. CASE Exited \/ UNCHANGED vars
  BY <1>5, StutterInv DEF Exited
<1> QED
  BY <1>1, <1>2, <1>3, <1>4, <1>5 DEF Next

(* Every reachable state satisfies the inductive invariant.                 *)
THEOREM Invariant == Spec => []IInv
<1> QED
  BY InitInv, NextInv, PTL DEF Spec

-----------------------------------------------------------------------------
(* Synthesizer and SpeechServer keep their variables within their types.    *)
THEOREM TypeCorrect == Spec => []TypeOK
<1>1. IInv => TypeOK
  BY DEF IInv
<1> QED
  BY <1>1, Invariant, PTL

(* The audio generate returns to a caller is that of the caller's own text. *)
THEOREM NoCrossedAudio == Spec => []OwnAudio
<1>1. IInv => OwnAudio
  BY DEF IInv, AnswerInv, OwnAudio
<1> QED
  BY <1>1, Invariant, PTL

(* The pipe is open while the service says it is ready, and from the start  *)
(* of a recovery until it has said so; whoever closes it has cleared ready. *)
ConnInv ==
    Alive => /\ ready => conn = "open"
             /\ rpc \in {"wait", "set"} => conn = "open"
             /\ \A q \in Requests : req[q].pc \in {"kill", "spawn"} => ~ready

\* Steps that leave the pipe open or closed and ready as they are.
LEMMA ConnStays ==
    ASSUME ConnInv, Alive, UNCHANGED <<ready, conn>>,
           rpc' \in {"wait", "set"} => rpc \in {"wait", "set"},
           \A q \in Requests : req'[q].pc \in {"kill", "spawn"} => req[q].pc \in {"kill", "spawn"}
    PROVE  ConnInv'
BY DEF ConnInv

\* A request moves, but not to where the child is killed.
LEMMA RequestMoves ==
    ASSUME ConnInv, NEW q \in Requests, Alive, UNCHANGED <<ready, conn>>, rpc' \in {rpc, "start"},
           req'[q].pc \notin {"kill", "spawn"}, \A o \in Requests : o # q => req'[o] = req[o]
    PROVE  ConnInv'
<1>1. \A o \in Requests : req'[o].pc \in {"kill", "spawn"} => req[o].pc \in {"kill", "spawn"}
  OBVIOUS
<1> QED
  BY <1>1, ConnStays

LEMMA ConnectionOpen ==
    ASSUME TypeOK, ConnInv, NEW q \in Requests, Connection(q)
    PROVE  ConnInv'
<1>1. /\ Alive /\ UNCHANGED <<ready, conn, rpc>>
      /\ req'[q].pc \in {"handshake", "check", "idle"}
      /\ \A o \in Requests : o # q => req'[o] = req[o]
  BY DEF TypeOK, Connection, Accept, NotStarted, Handshake, TurnAway, Goto, End, Alive, pipeVars
<1> QED
  BY <1>1, RequestMoves

LEMMA GenerateOpen ==
    ASSUME IInv, ConnInv, NEW q \in Requests, Generate(q)
    PROVE  ConnInv'
<1>t. TypeOK /\ LockInv
  BY DEF IInv
<1>1. CASE CheckReady(q) \/ Acquire(q) \/ Busy(q) \/ Send(q) \/ Receive(q) \/ Raises(q) \/ Unlock(q)
           \/ Spawn(q) \/ SpawnFails(q)
  <2>1. /\ Alive /\ UNCHANGED <<ready, conn>> /\ rpc' \in {rpc, "start"}
        /\ req'[q].pc \notin {"kill", "spawn"}
        /\ \A o \in Requests : o # q => req'[o] = req[o]
    BY <1>t, <1>1
    DEF TypeOK, CheckReady, Acquire, Busy, Send, Receive, Raises, Unlock, Spawn, SpawnFails,
        Goto, End, pipeVars
  <2> QED
    BY <2>1, RequestMoves
<1>2. CASE FailClear(q)
  <2>1. Alive /\ req[q].pc = "fail" /\ ready' = FALSE /\ UNCHANGED <<conn, rpc>>
    BY <1>2 DEF FailClear, Goto, pipeVars
  <2> QED
    BY <2>1 DEF ConnInv
<1>3. CASE FailKill(q)
  <2>1. Alive /\ req[q].pc = "kill" /\ UNCHANGED <<ready, rpc>>
    BY <1>3 DEF FailKill, Goto
  <2>2. ~ready'
    BY <2>1 DEF ConnInv
  <2>3. rpc' = "none"
    BY <1>t, <2>1, SynthesizerAssumption DEF LockInv, HoldingPC
  <2> QED
    BY <2>2, <2>3 DEF ConnInv
<1> QED
  BY <1>1, <1>2, <1>3 DEF Generate

LEMMA RestOpen ==
    ASSUME IInv, ConnInv, Recovering \/ Sigterm \/ Closing \/ Exited \/ Worker \/ UNCHANGED vars
    PROVE  ConnInv'
<1>t. LockInv
  BY DEF IInv
<1>1. CASE Recovering
  <2>1. Alive /\ rpc # "none" /\ req' = req
    BY <1>1 DEF Recovering, RecoverStart, RecoverRaises, RecoverUp, RecoverGivesUp, RecoverSet,
                RecoverSigterm, RecoverRelease, Recover
  <2>2. \A q \in Requests : req'[q].pc \notin {"kill", "spawn"}
    BY <1>t, <2>1, SynthesizerAssumption DEF LockInv, HoldingPC
  <2>3. (ready' => conn' = "open") /\ (rpc' \in {"wait", "set"} => conn' = "open")
    BY <1>1, <2>1
    DEF ConnInv, Recovering, RecoverStart, RecoverRaises, RecoverUp, RecoverGivesUp, RecoverSet,
        RecoverSigterm, RecoverRelease, Recover, pipeVars
  <2> QED
    BY <2>2, <2>3 DEF ConnInv
<1>2. CASE MainKill
  BY <1>2 DEF ConnInv, Alive, MainKill, Main
<1>3. CASE MainClear
  BY <1>3 DEF ConnInv, Alive, MainClear, Main, pipeVars
<1>4. CASE Sigterm
  BY <1>4 DEF ConnInv, Alive, Sigterm, Main, pipeVars
<1>5. CASE Exited \/ Worker \/ UNCHANGED vars
  <2>1. UNCHANGED <<ready, conn, rpc, mpc, req>>
    BY <1>5 DEF Exited, Worker, ChildUp, ChildTake, ChildDies, ChildAnswer, Child, vars, pipeVars
  <2> QED
    BY <2>1 DEF ConnInv, Alive
<1> QED
  BY <1>1, <1>2, <1>3, <1>4, <1>5 DEF Closing

LEMMA PipeOpen == Spec => []ConnInv
<1>1. Init => ConnInv
  BY DEF Init, ConnInv
<1>2. IInv /\ ConnInv /\ [Next]_vars => ConnInv'
  <2> SUFFICES ASSUME IInv, ConnInv, [Next]_vars PROVE ConnInv'
    OBVIOUS
  <2>1. CASE \E q \in Requests : Connection(q) \/ Generate(q)
    BY <2>1, ConnectionOpen, GenerateOpen DEF IInv
  <2>2. CASE Recovering \/ Sigterm \/ Closing \/ Exited \/ Worker \/ UNCHANGED vars
    BY <2>2, RestOpen
  <2> QED
    BY <2>1, <2>2 DEF Next
<1> QED
  BY <1>1, <1>2, Invariant, PTL DEF Spec

(* A service that says it is ready neither loads a child nor has closed the *)
(* pipe; ready and free it has no child at work and an empty pipe: nothing  *)
(* of an earlier request reaches the next caller.                           *)
THEOREM NothingLeft == Spec => []ReadyMeansQuiet
<1>1. ASSUME IInv, ConnInv PROVE ReadyMeansQuiet
  <2>1. LockInv /\ PipeInv
    BY <1>1 DEF IInv
  <2>2. ASSUME ready PROVE child # "loading"
    <3>1. rpc # "wait"
      BY <2>1, <2>2 DEF PipeInv
    <3>2. Clean \/ (lock \in Requests /\ InFlight(lock))
      BY <2>1, <3>1 DEF PipeInv
    <3> QED
      BY <3>2, SynthesizerAssumption DEF Clean, InFlight
  <2>3. ASSUME lock = None PROVE Clean
    BY <2>1, <2>3, SynthesizerAssumption DEF LockInv, PipeInv
  <2>4. ready /\ Alive => conn = "open"
    BY <1>1 DEF ConnInv
  <2> QED
    BY <2>2, <2>3, <2>4, SynthesizerAssumption DEF ReadyMeansQuiet, Clean
<1> QED
  BY <1>1, Invariant, PipeOpen, PTL

(* process_request and process_request_thread lose no slot.                 *)
THEOREM SlotsKept == Spec => []SlotsConserved
<1>1. IInv => SlotsConserved
  BY DEF IInv
<1> QED
  BY <1>1, Invariant, PTL

(* _start replaces a child only after close has taken the last one down.    *)
THEOREM NeverTwoModels == Spec => OneChild
<1>1. ASSUME IInv, [Next]_vars, child' = "loading", child # "loading"
      PROVE  child = "down"
  <2>1. CASE RecoverStart
    BY <1>1, <2>1 DEF RecoverStart, Recover, IInv, PipeInv
  <2>2. CASE \E q \in Requests : Connection(q) \/ Generate(q)
    BY <1>1, <2>2
    DEF Connection, Accept, NotStarted, Handshake, TurnAway, Generate, CheckReady, Acquire, Busy,
        Send, Receive, Raises, Unlock, FailClear, FailKill, Kill, Spawn, SpawnFails
  <2>3. CASE Recovering /\ ~RecoverStart
    BY <1>1, <2>3
    DEF Recovering, RecoverRaises, RecoverUp, RecoverGivesUp, Kill, RecoverSet, RecoverSigterm,
        RecoverRelease
  <2>4. CASE Sigterm \/ Closing \/ Exited \/ UNCHANGED vars
    BY <1>1, <2>4 DEF Sigterm, Closing, MainClear, MainKill, Kill, Exited, vars
  <2>5. CASE Worker
    <3>1. ~ChildTake
      <4>1. SUFFICES ASSUME ChildTake PROVE FALSE
        OBVIOUS
      <4>2. toChild \in Seq(Requests) /\ toChild # <<>>
        BY <1>1, <4>1 DEF IInv, TypeOK, ChildTake
      <4>3. child' \in Requests
        BY <4>1, <4>2 DEF ChildTake, Child
      <4> QED
        BY <1>1, <4>3, SynthesizerAssumption
    <3> QED
      BY <1>1, <2>5, <3>1 DEF Worker, ChildUp, ChildDies, ChildAnswer, Child
  <2> QED
    BY <1>1, <2>1, <2>2, <2>3, <2>4, <2>5 DEF Next
<1>2. IInv /\ [Next]_vars => [child' = "loading" /\ child # "loading" => child = "down"]_vars
  BY <1>1
<1> QED
  BY <1>2, Invariant, PTL DEF Spec, OneChild

-----------------------------------------------------------------------------
(* The synthesizer implements SpeechServing.                                *)

\* What a caller sees of the variables of SpeechServing.
With == IF lock \in Requests THEN lock ELSE None
Reply == [q \in Requests |-> IF req[q].pc = "idle" THEN req[q].answer ELSE "pending"]

LEMMA Unseen ==
    ASSUME NEW q \in Requests, req[q].pc # "idle", req'[q].pc # "idle",
           \A o \in Requests : o # q => req'[o] = req[o]
    PROVE  Reply' = Reply
BY DEF Reply

LEMMA Answered ==
    ASSUME NEW q \in Requests, NEW answer, req'[q] = [pc |-> "idle", answer |-> answer],
           \A o \in Requests : o # q => req'[o] = req[o]
    PROVE  Reply' = [Reply EXCEPT ![q] = answer]
<1>1. Reply' = [o \in Requests |-> IF o = q THEN answer ELSE Reply[o]]
  BY DEF Reply
<1> QED
  BY <1>1 DEF Reply

\* A step of generate between two places that callers do not see.
LEMMA GotoUnseen ==
    ASSUME TypeOK, NEW q \in Requests, NEW from, NEW to, from # "idle", to # "idle", Goto(q, from, to)
    PROVE  Reply' = Reply /\ req[q].pc = from
<1>1. req[q].pc = from /\ req'[q].pc = to /\ \A o \in Requests : o # q => req'[o] = req[o]
  BY DEF Goto, TypeOK
<1> QED
  BY <1>1, Unseen

LEMMA UnseenStep ==
    ASSUME Reply' = Reply, With' = With, (lock' = Recovery) <=> (lock = Recovery)
    PROVE  UNCHANGED Serving!vars
BY DEF Serving!vars, Reply, With

\* The connections.
LEMMA ConnectionRefines ==
    ASSUME IInv, NEW q \in Requests, Connection(q)
    PROVE  [Serving!Next]_(Serving!vars)
<1>t. TypeOK /\ SlotsConserved /\ AnswerInv /\ LockInv
  BY DEF IInv
<1>1. CASE Accept(q)
  <2>1. req[q].pc = "idle" /\ lock' = lock
        /\ req' = [req EXCEPT ![q] = [pc |-> "handshake", answer |-> "pending"]]
    BY <1>1 DEF Accept
  <2>2. req'[q].pc = "handshake" /\ \A o \in Requests : o # q => req'[o] = req[o]
    BY <1>t, <2>1 DEF TypeOK
  <2>3. Reply' = [Reply EXCEPT ![q] = "pending"] /\ Reply[q] # "pending"
    <3>1. Reply' = [o \in Requests |-> IF o = q THEN "pending" ELSE Reply[o]]
      BY <2>2 DEF Reply
    <3>2. Reply[q] # "pending"
      BY <1>t, <2>1 DEF Reply, AnswerInv
    <3> QED
      BY <3>1, <3>2 DEF Reply
  <2>4. Serving!Ask(q)
    BY <2>1, <2>3 DEF Serving!Ask, Reply
  <2> QED
    BY <2>4 DEF Serving!Next
<1>2. CASE Handshake(q)
  <2>1. Goto(q, "handshake", "check") /\ UNCHANGED <<slots, lock>>
    BY <1>2 DEF Handshake
  <2>2. Reply' = Reply
    BY <1>t, <2>1, GotoUnseen
  <2> QED
    BY <2>1, <2>2, UnseenStep DEF With
<1>3. CASE NotStarted(q) \/ TurnAway(q)
  <2>1. End(q, "handshake", "none") /\ lock' = lock
    BY <1>3 DEF NotStarted, TurnAway
  <2>2. /\ req[q].pc = "handshake" /\ req'[q] = [pc |-> "idle", answer |-> "none"]
        /\ \A o \in Requests : o # q => req'[o] = req[o]
    BY <1>t, <2>1, EndStep DEF Answers, RequestPC
  <2>3. Reply' = [Reply EXCEPT ![q] = "none"] /\ Reply[q] = "pending"
    BY <2>2, Answered DEF Reply
  <2>4. lock # q
    BY <1>t, <2>2 DEF LockInv, HoldingPC
  <2>5. Serving!Drop(q)
    BY <2>1, <2>3, <2>4, SynthesizerAssumption DEF Serving!Drop, Reply
  <2> QED
    BY <2>5 DEF Serving!Next
<1> QED
  BY <1>1, <1>2, <1>3 DEF Connection

\* generate.
LEMMA GenerateRefines ==
    ASSUME IInv, NEW q \in Requests, Generate(q)
    PROVE  [Serving!Next]_(Serving!vars)
<1>t. TypeOK /\ SlotsConserved /\ AnswerInv /\ LockInv
  BY DEF IInv
<1>1. CASE CheckReady(q) \/ Send(q) \/ Raises(q) \/ FailClear(q) \/ FailKill(q)
  <2>1. PICK from \in RequestPC \ {"idle"}, to \in RequestPC \ {"idle"} :
            Goto(q, from, to) /\ UNCHANGED <<slots, lock>>
    BY <1>1 DEF CheckReady, Send, Raises, FailClear, FailKill, RequestPC, HoldingPC
  <2>2. Reply' = Reply
    BY <1>t, <2>1, GotoUnseen
  <2> QED
    BY <2>1, <2>2, UnseenStep DEF With
<1>2. CASE Receive(q)
  <2>1. /\ lock' = lock /\ req[q].pc = "poll" /\ req'[q].pc # "idle"
        /\ \A o \in Requests : o # q => req'[o] = req[o]
    BY <1>t, <1>2 DEF Receive, Goto, TypeOK
  <2> QED
    BY <2>1, Unseen, UnseenStep DEF With
<1>3. CASE Acquire(q)
  <2>1. lock = None /\ lock' = q /\ Goto(q, "acquire", "send") /\ UNCHANGED slots
    BY <1>3 DEF Acquire
  <2>2. Reply' = Reply /\ req[q].pc = "acquire"
    BY <1>t, <2>1, GotoUnseen
  <2>3. Reply' = Reply /\ Reply[q] = "pending"
    BY <2>2 DEF Reply
  <2>4. Serving!Serve(q)
    BY <2>1, <2>3, SynthesizerAssumption DEF Serving!Serve, Reply
  <2> QED
    BY <2>4 DEF Serving!Next
<1>4. CASE Busy(q)
  <2>1. PICK from \in {"check", "acquire"} : End(q, from, "busy") /\ lock' = lock
    BY <1>4 DEF Busy
  <2>2. /\ req[q].pc = from /\ req'[q] = [pc |-> "idle", answer |-> "busy"]
        /\ \A o \in Requests : o # q => req'[o] = req[o]
    BY <1>t, <2>1, EndStep DEF Answers, RequestPC
  <2>3. Reply' = [Reply EXCEPT ![q] = "busy"] /\ Reply[q] = "pending"
    BY <2>2, Answered DEF Reply
  <2>4. lock # q
    BY <1>t, <2>2 DEF LockInv, HoldingPC
  <2>5. Serving!Refuse(q)
    BY <2>1, <2>3, <2>4, SynthesizerAssumption DEF Serving!Refuse, Reply
  <2> QED
    BY <2>5 DEF Serving!Next
<1>5. CASE Unlock(q)
  <2>1. End(q, "unlock", req[q].answer) /\ lock' = None /\ req[q].answer = q
    BY <1>t, <1>5 DEF Unlock, End, AnswerInv
  <2>2. /\ req[q].pc = "unlock" /\ req'[q] = [pc |-> "idle", answer |-> q]
        /\ \A o \in Requests : o # q => req'[o] = req[o]
    BY <1>t, <2>1, EndStep DEF Answers, RequestPC, HoldingPC
  <2>3. Reply' = [Reply EXCEPT ![q] = q]
    BY <2>2, Answered
  <2>4. lock = q
    BY <1>t, <2>2 DEF LockInv, HoldingPC
  <2>5. Serving!Deliver(q)
    BY <2>1, <2>3, <2>4, SynthesizerAssumption DEF Serving!Deliver, Reply
  <2> QED
    BY <2>5 DEF Serving!Next
<1>6. CASE Spawn(q) \/ SpawnFails(q)
  <2>1. End(q, "spawn", "failed") /\ lock' = Recovery
    BY <1>6 DEF Spawn, SpawnFails
  <2>2. /\ req[q].pc = "spawn" /\ req'[q] = [pc |-> "idle", answer |-> "failed"]
        /\ \A o \in Requests : o # q => req'[o] = req[o]
    BY <1>t, <2>1, EndStep DEF Answers, RequestPC, HoldingPC
  <2>3. Reply' = [Reply EXCEPT ![q] = "failed"]
    BY <2>2, Answered
  <2>4. lock = q
    BY <1>t, <2>2 DEF LockInv, HoldingPC
  <2>5. Serving!Fail(q)
    BY <2>1, <2>3, <2>4, SynthesizerAssumption DEF Serving!Fail, Reply
  <2> QED
    BY <2>5 DEF Serving!Next
<1> QED
  BY <1>1, <1>2, <1>3, <1>4, <1>5, <1>6 DEF Generate

\* Everything else: only the end of a recovery is seen.
LEMMA RestRefines ==
    ASSUME IInv, Recovering \/ Sigterm \/ Closing \/ Exited \/ Worker \/ UNCHANGED vars
    PROVE  [Serving!Next]_(Serving!vars)
<1>1. req' = req
  BY DEF Recovering, RecoverStart, RecoverRaises, RecoverUp, RecoverGivesUp, RecoverSet,
         RecoverSigterm, RecoverRelease, Recover, Sigterm, Closing, MainClear, MainKill, Main,
         Exited, Worker, ChildUp, ChildTake, ChildDies, ChildAnswer, Child, vars
<1>2. Reply' = Reply
  BY <1>1 DEF Reply
<1>3. CASE RecoverRelease
  <2>1. lock = Recovery /\ lock' = None
    BY <1>3 DEF RecoverRelease, Recover, IInv, LockInv
  <2>2. Serving!Reloaded
    BY <1>2, <2>1, SynthesizerAssumption DEF Serving!Reloaded, Reply
  <2> QED
    BY <2>2 DEF Serving!Next
<1>4. CASE lock' = lock
  BY <1>2, <1>4, UnseenStep DEF With
<1>5. lock' = lock \/ RecoverRelease
  BY DEF Recovering, RecoverStart, RecoverRaises, RecoverUp, RecoverGivesUp, RecoverSet,
         RecoverSigterm, Recover, Sigterm, Closing, MainClear, MainKill, Main,
         Exited, Worker, ChildUp, ChildTake, ChildDies, ChildAnswer, Child, vars
<1> QED
  BY <1>3, <1>4, <1>5

(* The synthesizer keeps the promise of SpeechServing to its callers: one   *)
(* at a time with the model, own audio or a refusal, and nobody served      *)
(* between a failure and the end of the recovery.                           *)
THEOREM Refines == Spec => ServingSpec
<1>1. Init => Serving!Init
  BY SynthesizerAssumption DEF Init, Serving!Init
<1>2. IInv /\ [Next]_vars => [Serving!Next]_(Serving!vars)
  <2> SUFFICES ASSUME IInv, [Next]_vars PROVE [Serving!Next]_(Serving!vars)
    OBVIOUS
  <2>1. CASE \E q \in Requests : Connection(q) \/ Generate(q)
    BY <2>1, ConnectionRefines, GenerateRefines
  <2>2. CASE Recovering \/ Sigterm \/ Closing \/ Exited \/ Worker \/ UNCHANGED vars
    BY <2>2, RestRefines
  <2> QED
    BY <2>1, <2>2 DEF Next
<1> QED
  BY <1>1, <1>2, Invariant, PTL DEF Spec, ServingSpec, Serving!Spec

=============================================================================
