---------------------- MODULE ReleasePipeline_proofs -----------------------
(***************************************************************************)
(* Theorems about the release pipeline, for any number of commits, runs,   *)
(* repetitions and faults, any policy and any set of assets.  The          *)
(* invariants come in layers, each inductive on top of those before it:    *)
(*                                                                         *)
(*   CoreInv     types, the attempt, the ledger and the requests to write  *)
(*               it; with it the ledger implements VersionLedger           *)
(*   ReleaseInv  one publication at a time, its plan, its names, its bytes *)
(*   Turn        nothing public stands in the way of what comes next       *)
(*   Vouching    who built, fuzzed and accepted what is published          *)
(*   Dead        drafts that nothing makes public any more                 *)
(***************************************************************************)
EXTENDS MCReleasePipeline, FiniteSetTheorems, SequenceTheorems, WellFoundedInduction, TLAPS

-----------------------------------------------------------------------------
(* Types.                                                                   *)

\* A plan, or the number 0 that stands for none.
AnyPlan == [number : Nat, tag : Tag, source : Commit]

\* A workflow run; its attempts are not bounded here.
RunRec ==
    [event : {"push", "schedule", "dispatch"}, channel : Channels, source : Commit,
     candidate : 0..MaxRuns, attempt : Nat \ {0}, jobs : [Jobs -> Nat],
     receipts : SUBSET [name : {"package", "fuzz"}, attempt : Nat, plan : AnyPlan],
     state : {"queued", "in_progress", "success", "failure"}]

\* What the ledger file can hold.
LedgerRec ==
    [file : BOOLEAN, counter : Nat, floor : Nat,
     plans : UNION {[S -> Plan] : S \in SUBSET RunId}]

\* Where an attempt is before it publishes, while it publishes, and anywhere.
Before == {"idle", "prepare", "allocate", "build", "candidate", "approved"}
Late == {"tag", "create", "reconcile", "upload", "verify", "publish"}
PC == Before \cup Late \cup {"staged", "promote", "evidence"}

\* The attempt that executes.
JobRec ==
    [run : 0..MaxRuns, pc : PC, seen : LedgerRec, plan : AnyPlan, build : Nat, tag : Tag,
     ref : Nat, release : Nat]

\* A release or a draft.
ReleaseRec ==
    [tag : Tag, plan : AnyPlan, attempt : Nat, draft : BOOLEAN, run : 0..MaxRuns,
     files : [Files -> {"none", "good", "damaged"}]]

\* What can be on its way to GitHub.
Requests ==
    [kind : {"branch"}]
    \cup [kind : {"ledger"}, previous : LedgerRec, value : LedgerRec]
    \cup [kind : {"tag"}, tag : Tag, source : Commit]
    \cup [kind : {"draft"}, draft : ReleaseRec]
    \cup [kind : {"publish"}, release : Nat]

\* The type of every variable, as the induction needs it.
TypeInv ==
    /\ head \in Commit
    /\ runs \in Seq(RunRec) /\ Len(runs) <= MaxRuns
    /\ job \in JobRec
    /\ branch \in BOOLEAN
    /\ ledger \in LedgerRec
    /\ tags \subseteq [tag : Tag, source : Commit] /\ IsFiniteSet(tags)
    /\ releases \in Seq(ReleaseRec)
    /\ evidence \subseteq [run : 0..MaxRuns, attempt : Nat]
    /\ wire \subseteq Requests
    /\ faults \in Nat

\* An attempt is an attempt of a run, of a channel that can be where it is.
JobInv ==
    /\ job.pc # "idle" => job.run \in DOMAIN runs
    /\ job.pc \in {"allocate", "build", "candidate", "staged"} => Run.channel # "stable"
    /\ job.pc \in {"approved", "promote"} => Run.channel = "stable"
    /\ job.pc \in {"reconcile", "evidence"} => Run.channel # "stable"
    /\ job.pc = "allocate" => job.plan \in Plan

\* What the constants give.
LEMMA Constants ==
    /\ MaxCommit \in Nat /\ MaxCommit >= 1 /\ MaxRuns \in Nat /\ MaxRuns >= 1
    /\ 1 \in Commit
    /\ \A c \in Commit : BaseOf[c] \in {BaseOf[d] : d \in Commit}
    /\ \A base \in {BaseOf[d] : d \in Commit} : StableTag(base) \in Tag
    /\ NoPlan \in AnyPlan
    /\ EmptyLedger \in LedgerRec
    /\ Idle \in JobRec
<1>1. /\ MaxCommit \in Nat /\ MaxCommit >= 1 /\ MaxRuns \in Nat /\ MaxRuns >= 1
      /\ 1 \in Commit
      /\ \A c \in Commit : BaseOf[c] \in {BaseOf[d] : d \in Commit}
  BY PipelineAssumption DEF Commit
<1>2. \A base \in {BaseOf[d] : d \in Commit} : StableTag(base) \in Tag
  BY DEF StableTag, Tag, Channels
<1>3. NoPlan \in AnyPlan
  BY <1>1, <1>2 DEF NoPlan, AnyPlan
<1>4. EmptyLedger \in LedgerRec
  <2>1. <<>> \in [{} -> Plan]
    OBVIOUS
  <2>2. <<>> \in UNION {[S -> Plan] : S \in SUBSET RunId}
    BY <2>1
  <2> QED BY <2>2 DEF EmptyLedger, LedgerRec
<1>5. Idle \in JobRec
  BY <1>1, <1>3, <1>4 DEF Idle, JobRec, PC, Before, AnyPlan
<1> QED BY <1>1, <1>2, <1>3, <1>4, <1>5

\* A new run is appended, and only the state of the others changes.
LEMMA NewRunTyped ==
    ASSUME TypeInv, NEW event \in {"push", "schedule", "dispatch"}, NEW channel \in Channels,
           NEW source \in Commit, NEW candidate \in 0..MaxRuns, NewRun(event, channel, source, candidate)
    PROVE  /\ runs' \in Seq(RunRec) /\ Len(runs') = Len(runs) + 1 /\ Len(runs) + 1 <= MaxRuns
           /\ \A r \in DOMAIN runs : /\ r \in DOMAIN runs'
                                     /\ runs'[r] = [runs[r] EXCEPT !.state = runs'[r].state]
<1> DEFINE new == [event |-> event, channel |-> channel, source |-> source,
                   candidate |-> candidate, attempt |-> 1, receipts |-> {},
                   jobs |-> NoJobs, state |-> "queued"]
<1>1. new \in RunRec
  BY DEF RunRec, NoJobs
<1>2. Cancelled \in Seq(RunRec) /\ Len(Cancelled) = Len(runs) /\ DOMAIN Cancelled = DOMAIN runs
  <2>1. \A r \in DOMAIN runs : Cancelled[r] \in RunRec
    <3> SUFFICES ASSUME NEW r \in DOMAIN runs PROVE Cancelled[r] \in RunRec
      OBVIOUS
    <3>1. runs[r] \in RunRec
      BY DEF TypeInv
    <3>2. [runs[r] EXCEPT !.state = "failure"] \in RunRec
      BY <3>1 DEF RunRec
    <3> QED BY <3>1, <3>2 DEF Cancelled
  <2>2. DOMAIN Cancelled = 1..Len(runs)
    BY DEF TypeInv, Cancelled
  <2>3. Cancelled \in [1..Len(runs) -> RunRec]
    BY <2>1, <2>2 DEF Cancelled, TypeInv
  <2>4. Len(runs) \in Nat
    BY DEF TypeInv
  <2> QED BY <2>2, <2>3, <2>4
<1>3. \A r \in DOMAIN runs : Cancelled[r] = [runs[r] EXCEPT !.state = Cancelled[r].state]
  <2> SUFFICES ASSUME NEW r \in DOMAIN runs
               PROVE  Cancelled[r] = [runs[r] EXCEPT !.state = Cancelled[r].state]
    OBVIOUS
  <2>1. runs[r] \in RunRec
    BY DEF TypeInv
  <2>2. runs[r] = [runs[r] EXCEPT !.state = runs[r].state]
    BY <2>1 DEF RunRec
  <2> QED BY <2>1, <2>2 DEF Cancelled, RunRec
<1>4. runs' = Append(Cancelled, new) /\ Len(runs) < MaxRuns
  BY DEF NewRun
<1> HIDE DEF new
<1>5. /\ runs' \in Seq(RunRec) /\ Len(runs') = Len(runs) + 1
      /\ \A r \in 1..Len(runs) : runs'[r] = Cancelled[r]
  BY <1>1, <1>2, <1>4, AppendProperties
<1>6. Len(runs) \in Nat /\ MaxRuns \in Nat /\ DOMAIN runs = 1..Len(runs) /\ DOMAIN runs' = 1..Len(runs')
  BY <1>5, Constants DEF TypeInv
<1> QED BY <1>3, <1>4, <1>5, <1>6

-----------------------------------------------------------------------------
(* Numbers, sequences and the plan that prepare makes.                      *)

\* The greater of two numbers.
LEMMA MaxOfPair ==
    ASSUME NEW a \in Nat, NEW b \in Nat
    PROVE  Max({a, b}) \in Nat /\ Max({a, b}) >= a /\ Max({a, b}) >= b
<1>1. \E x \in {a, b} : \A y \in {a, b} : x >= y
  <2>1. CASE a >= b
    BY <2>1
  <2>2. CASE b >= a
    BY <2>2
  <2> QED BY <2>1, <2>2
<1> QED BY <1>1 DEF Max

\* A nonempty finite set of numbers has a greatest element.
LEMMA FiniteMaximum ==
    ASSUME NEW S \in SUBSET Nat, IsFiniteSet(S), S # {}
    PROVE  \E x \in S : \A y \in S : x >= y
<1> DEFINE HasMaximum(T) == \E x \in T : \A y \in T : x >= y
           Bad == {T \in SUBSET S : T # {} /\ ~HasMaximum(T)}
<1>1. ASSUME Bad # {} PROVE FALSE
  <2>1. IsWellFoundedOn(StrictSubsetOrdering(S), FiniteSubsetsOf(S))
    BY FS_StrictSubsetOrderingWellFounded
  <2>2. Bad \subseteq FiniteSubsetsOf(S)
    BY FS_Subset DEF FiniteSubsetsOf
  <2> HIDE DEF Bad
  <2>3. PICK T \in Bad : \A U \in Bad : <<U, T>> \notin StrictSubsetOrdering(S)
    BY <1>1, <2>1, <2>2, WFMin
  <2>4. T \in SUBSET S /\ T # {} /\ ~HasMaximum(T)
    BY <2>3 DEF Bad
  <2>5. PICK x \in T : TRUE
    BY <2>4
  <2>6. PICK y \in T : ~(x >= y)
    BY <2>4, <2>5
  <2>7. x \in Nat /\ y \in Nat /\ y > x
    BY <2>4, <2>5, <2>6
  <2>8. T \ {x} \in SUBSET S /\ T \ {x} # {} /\ T \ {x} # T /\ T \ {x} \subseteq T
    BY <2>4, <2>5, <2>6, <2>7
  <2>9. <<T \ {x}, T>> \in StrictSubsetOrdering(S)
    BY <2>4, <2>8 DEF StrictSubsetOrdering
  <2>10. HasMaximum(T \ {x})
    BY <2>3, <2>8, <2>9 DEF Bad
  <2>11. PICK z \in T \ {x} : \A u \in T \ {x} : z >= u
    BY <2>10
  <2>12. \A u \in T : z >= u
    BY <2>4, <2>6, <2>7, <2>11
  <2> QED BY <2>4, <2>11, <2>12
<1> QED BY <1>1

\* Highest is a number that no element of a finite set exceeds.
LEMMA HighestOf ==
    ASSUME NEW S \in SUBSET Nat, IsFiniteSet(S)
    PROVE  Highest(S) \in Nat /\ \A x \in S : x <= Highest(S)
<1>1. IsFiniteSet(S \cup {0}) /\ S \cup {0} \in SUBSET Nat
  BY FS_AddElement
<1>2. \E x \in S \cup {0} : \A y \in S \cup {0} : x >= y
  BY <1>1, FiniteMaximum
<1> QED BY <1>1, <1>2 DEF Highest, Max

\* The tags of finitely many releases are finitely many.
LEMMA FiniteImage ==
    ASSUME NEW S, IsFiniteSet(S), NEW f, f = [x \in S |-> f[x]]
    PROVE  IsFiniteSet({f[x] : x \in S})
<1> DEFINE T == {f[x] : x \in S}
<1>1. f \in Surjection(S, T)
  BY DEF Surjection
<1> QED BY <1>1, FS_Surjection

\* The next sequence is above every one that names a tag or a release.
LEMMA UsedSequences ==
    ASSUME TypeInv, NEW base, NEW channel
    PROVE  NextSequence(base, channel) \in Nat \ {0}
<1> DEFINE tagOf == [t \in tags |-> t.tag]
           namedBy == [i \in DOMAIN releases |-> releases[i].tag]
           used == {t.tag : t \in tags} \cup {releases[i].tag : i \in DOMAIN releases}
           same == {u \in used : u.base = base /\ u.channel = channel}
           sequenceOf == [t \in same |-> t.sequence]
<1>1. IsFiniteSet({t.tag : t \in tags})
  <2>1. {t.tag : t \in tags} = {tagOf[t] : t \in tags}
    OBVIOUS
  <2>2. IsFiniteSet(tags) /\ tagOf = [t \in tags |-> tagOf[t]]
    BY DEF TypeInv
  <2> HIDE DEF tagOf
  <2> QED BY <2>1, <2>2, FiniteImage
<1>2. IsFiniteSet({releases[i].tag : i \in DOMAIN releases})
  <2>1. {releases[i].tag : i \in DOMAIN releases} = {namedBy[i] : i \in DOMAIN releases}
    OBVIOUS
  <2>2. namedBy = [i \in DOMAIN releases |-> namedBy[i]]
    OBVIOUS
  <2>3. DOMAIN releases = 1..Len(releases) /\ Len(releases) \in Nat
    BY DEF TypeInv
  <2>4. IsFiniteSet(DOMAIN releases)
    BY <2>3, FS_Interval
  <2> HIDE DEF namedBy
  <2> QED BY <2>1, <2>2, <2>4, FiniteImage
<1>3. IsFiniteSet(same)
  BY <1>1, <1>2, FS_Union, FS_Subset
<1>4. same \subseteq Tag
  <2>1. \A t \in tags : t.tag \in Tag
    BY DEF TypeInv
  <2>2. \A i \in DOMAIN releases : releases[i] \in ReleaseRec
    BY DEF TypeInv
  <2>3. \A i \in DOMAIN releases : releases[i].tag \in Tag
    BY <2>2 DEF ReleaseRec
  <2> QED BY <2>1, <2>3
<1> HIDE DEF same
<1>5. IsFiniteSet({t.sequence : t \in same})
  <2>1. {t.sequence : t \in same} = {sequenceOf[t] : t \in same}
    OBVIOUS
  <2>2. sequenceOf = [t \in same |-> sequenceOf[t]]
    OBVIOUS
  <2> HIDE DEF sequenceOf
  <2> QED BY <1>3, <2>1, <2>2, FiniteImage
<1>6. {t.sequence : t \in same} \in SUBSET Nat
  BY <1>4 DEF Tag
<1>7. Highest({t.sequence : t \in same}) \in Nat
  BY <1>5, <1>6, HighestOf
<1>8. NextSequence(base, channel) = Highest({t.sequence : t \in same}) + 1
  BY DEF NextSequence, same
<1> QED BY <1>7, <1>8

\* A plan is one that prepare makes for this run.
Suits(r, plan) ==
    /\ r \in DOMAIN runs
    /\ plan.source = runs[r].source
    /\ plan.tag.base = BaseOf[runs[r].source]
    /\ plan.tag.channel = runs[r].channel
    /\ plan.tag.channel # "stable"
    /\ plan.tag.sequence > 0
    /\ plan.tag.channel = "nightly" =>
          \E a \in 0..runs[r].attempt - 1 : plan.tag.sequence = a * MaxRuns + r

\* A plan that the ledger has no trace of.
Fresh(l, r, plan) ==
    /\ r \notin DOMAIN l.plans
    /\ plan.number > l.counter
    /\ \A o \in DOMAIN l.plans : l.plans[o].tag # plan.tag
    /\ Suits(r, plan)

\* The fields of a ledger.
LEMMA LedgerFields ==
    ASSUME NEW l \in LedgerRec
    PROVE  /\ l.file \in BOOLEAN /\ l.counter \in Nat /\ l.floor \in Nat
           /\ DOMAIN l.plans \subseteq RunId
           /\ l.plans \in [DOMAIN l.plans -> Plan]
BY DEF LedgerRec

\* Two nightly sequences are equal only for the same run and attempt.
LEMMA NightlyNumbers ==
    ASSUME NEW r \in RunId, NEW o \in RunId, NEW a \in Nat, NEW b \in Nat,
           a * MaxRuns + r = b * MaxRuns + o
    PROVE  r = o
<1>1. MaxRuns \in Nat /\ MaxRuns >= 1 /\ r \in 1..MaxRuns /\ o \in 1..MaxRuns
  BY Constants DEF RunId
<1>2. CASE a = b
  BY <1>1, <1>2
<1>3. CASE a > b
  <2>1. a - b \in Nat /\ a - b >= 1
    BY <1>3
  <2>2. (a - b) * MaxRuns >= MaxRuns
    BY <1>1, <2>1
  <2>3. (a - b) * MaxRuns = a * MaxRuns - b * MaxRuns
    BY <1>1
  <2> QED BY <1>1, <2>2, <2>3
<1>4. CASE b > a
  <2>1. b - a \in Nat /\ b - a >= 1
    BY <1>4
  <2>2. (b - a) * MaxRuns >= MaxRuns
    BY <1>1, <2>1
  <2>3. (b - a) * MaxRuns = b * MaxRuns - a * MaxRuns
    BY <1>1
  <2> QED BY <1>1, <2>2, <2>3
<1> QED BY <1>2, <1>3, <1>4

\* AllocatePlan makes a plan that is new to the ledger it read.
LEMMA PlanCreated ==
    ASSUME TypeInv, NEW r \in DOMAIN runs, r \notin Reserved, runs[r].channel # "stable",
           \A o \in Reserved : Suits(o, ledger.plans[o])
    PROVE  CreatePlan(r) \in Plan /\ Fresh(ledger, r, CreatePlan(r))
<1> DEFINE base == Base(r)
           channel == runs[r].channel
           reserved == {o \in Reserved : ledger.plans[o].tag.base = base
                                         /\ ledger.plans[o].tag.channel = channel}
           sequenceOf == [o \in reserved |-> ledger.plans[o].tag.sequence]
           taken == {ledger.plans[o].tag.sequence : o \in reserved}
           next == Max({NextSequence(base, channel), Highest(taken) + 1})
           nightly == (runs[r].attempt - 1) * MaxRuns + r
           plan == CreatePlan(r)
<1>1. runs[r] \in RunRec /\ r \in RunId
  BY Constants DEF TypeInv, RunId
<1>2. /\ channel \in Channels /\ channel # "stable" /\ runs[r].source \in Commit
      /\ runs[r].attempt \in Nat /\ runs[r].attempt >= 1
      /\ base = BaseOf[runs[r].source] /\ base \in {BaseOf[d] : d \in Commit}
  BY <1>1, Constants DEF RunRec, Base
<1>3. /\ ledger.counter \in Nat /\ Reserved \subseteq RunId
      /\ \A o \in Reserved : ledger.plans[o] \in Plan
  BY LedgerFields DEF TypeInv, Reserved
<1>4. \A o \in Reserved : ledger.plans[o].tag.sequence \in Nat
  BY <1>3 DEF Plan, Tag
<1>5. IsFiniteSet(taken)
  <2>1. taken = {sequenceOf[o] : o \in reserved}
    OBVIOUS
  <2>2. sequenceOf = [o \in reserved |-> sequenceOf[o]]
    OBVIOUS
  <2>3. IsFiniteSet(RunId)
    BY Constants, FS_Interval DEF RunId
  <2>4. IsFiniteSet(reserved)
    BY <1>3, <2>3, FS_Subset
  <2> HIDE DEF sequenceOf, reserved, taken
  <2> QED BY <2>1, <2>2, <2>4, FiniteImage
<1>6. taken \in SUBSET Nat
  BY <1>4
<1>7. Highest(taken) \in Nat /\ \A x \in taken : x <= Highest(taken)
  <2> HIDE DEF taken
  <2> QED BY <1>5, <1>6, HighestOf
<1>8. \A o \in reserved : ledger.plans[o].tag.sequence <= Highest(taken)
  BY <1>7
<1>9. NextSequence(base, channel) \in Nat
  BY UsedSequences
<1>10. next \in Nat /\ next >= Highest(taken) + 1
  <2> HIDE DEF taken, base
  <2> QED BY <1>7, <1>9, MaxOfPair
<1>11. Max({ledger.counter, BuildNumberFloor}) \in Nat
       /\ Max({ledger.counter, BuildNumberFloor}) >= ledger.counter
  BY <1>3, PipelineAssumption, MaxOfPair
<1>12. nightly \in Nat /\ nightly > 0
  <2>1. runs[r].attempt - 1 \in Nat /\ MaxRuns \in Nat /\ r \in Nat /\ r > 0
    BY <1>1, <1>2, Constants DEF RunId
  <2>2. (runs[r].attempt - 1) * MaxRuns \in Nat
    BY <2>1
  <2> QED BY <2>1, <2>2
<1>13. /\ plan.number = Max({ledger.counter, BuildNumberFloor}) + 1
       /\ plan.source = runs[r].source
       /\ plan.tag = [base |-> base, channel |-> channel,
                      sequence |-> IF channel = "nightly" THEN nightly ELSE next]
       /\ plan = [number |-> plan.number, tag |-> plan.tag, source |-> plan.source]
  BY DEF CreatePlan
<1> HIDE DEF base, channel, reserved, sequenceOf, taken, next, nightly, plan
<1>14. plan.tag \in Tag /\ plan.tag.sequence > 0
  BY <1>2, <1>7, <1>10, <1>12, <1>13 DEF Tag
<1>15. plan \in Plan
  <2>1. plan.number \in Nat \ {0}
    BY <1>11, <1>13
  <2>2. plan.source \in Commit
    BY <1>2, <1>13
  <2> HIDE DEF plan
  <2> QED BY <1>13, <1>14, <2>1, <2>2 DEF Plan
<1>16. Suits(r, plan)
  <2>1. plan.tag.channel = "nightly" =>
            \E a \in 0..runs[r].attempt - 1 : plan.tag.sequence = a * MaxRuns + r
    BY <1>2, <1>13 DEF nightly
  <2> QED BY <1>2, <1>13, <1>14, <2>1 DEF Suits, channel
<1>17. ASSUME NEW o \in Reserved, ledger.plans[o].tag = plan.tag PROVE FALSE
  <2>1. o \in reserved
    BY <1>13, <1>17 DEF reserved
  <2>2. ledger.plans[o].tag.sequence <= Highest(taken) /\ ledger.plans[o].tag.sequence \in Nat
    BY <1>4, <1>8, <2>1
  <2>3. CASE channel # "nightly"
    BY <1>7, <1>10, <1>13, <1>17, <2>2, <2>3
  <2>4. CASE channel = "nightly"
    <3>1. ledger.plans[o].tag.channel = "nightly" /\ Suits(o, ledger.plans[o])
      BY <1>13, <1>17, <2>4
    <3>2. PICK a \in 0..runs[o].attempt - 1 : ledger.plans[o].tag.sequence = a * MaxRuns + o
      BY <3>1 DEF Suits
    <3>3. a \in Nat /\ runs[r].attempt - 1 \in Nat
      BY <1>2, <3>2
    <3>4. plan.tag.sequence = (runs[r].attempt - 1) * MaxRuns + r
      BY <1>13, <2>4 DEF nightly
    <3>5. o = r
      <4> DEFINE b == runs[r].attempt - 1
      <4>1. a * MaxRuns + o = b * MaxRuns + r /\ b \in Nat /\ o \in RunId
        BY <1>3, <1>17, <3>2, <3>3, <3>4
      <4> HIDE DEF b
      <4> QED BY <1>1, <3>3, <4>1, NightlyNumbers
    <3> QED BY <3>5
  <2> QED BY <2>3, <2>4
<1>18. plan.number > ledger.counter
  BY <1>3, <1>11, <1>13
<1> QED BY <1>15, <1>16, <1>17, <1>18 DEF Fresh, plan, Reserved

-----------------------------------------------------------------------------
(* The pieces of a step.                                                    *)

\* The parts of TypeInv that are about runs, and about GitHub.
RunsTyped == runs \in Seq(RunRec) /\ Len(runs) <= MaxRuns

\* The types of what is on GitHub.
GithubTyped ==
    /\ branch \in BOOLEAN
    /\ ledger \in LedgerRec
    /\ tags \subseteq [tag : Tag, source : Commit] /\ IsFiniteSet(tags)
    /\ releases \in Seq(ReleaseRec)

\* A run keeps what it was asked for, its attempts and receipts only grow.
RunsGrow ==
    \A r \in DOMAIN runs :
        /\ r \in DOMAIN runs'
        /\ runs'[r].event = runs[r].event
        /\ runs'[r].channel = runs[r].channel
        /\ runs'[r].source = runs[r].source
        /\ runs'[r].candidate = runs[r].candidate
        /\ runs'[r].attempt >= runs[r].attempt
        /\ runs[r].receipts \subseteq runs'[r].receipts

\* A release keeps its name and origin, and never becomes a draft again.
ReleasesGrow ==
    \A i \in DOMAIN releases :
        /\ i \in DOMAIN releases'
        /\ releases'[i].tag = releases[i].tag
        /\ releases'[i].plan = releases[i].plan
        /\ releases'[i].attempt = releases[i].attempt
        /\ releases'[i].run = releases[i].run
        /\ releases'[i].draft => releases[i].draft

\* Nothing that was done is undone.
Grows ==
    /\ head <= head' /\ evidence \subseteq evidence'
    /\ tags \subseteq tags'
    /\ RunsGrow /\ ReleasesGrow

\* The fields of a run.
LEMMA RunFields ==
    ASSUME TypeInv, NEW r \in DOMAIN runs
    PROVE  /\ runs[r] \in RunRec /\ r \in RunId /\ r \in 0..MaxRuns
           /\ runs[r].event \in {"push", "schedule", "dispatch"} /\ runs[r].channel \in Channels
           /\ runs[r].source \in Commit /\ runs[r].candidate \in 0..MaxRuns
           /\ runs[r].attempt \in Nat /\ runs[r].attempt >= 1
           /\ runs[r].jobs \in [Jobs -> Nat]
           /\ runs[r].receipts \in SUBSET [name : {"package", "fuzz"}, attempt : Nat, plan : AnyPlan]
           /\ runs[r] = [runs[r] EXCEPT !.state = runs[r].state]
<1>1. runs[r] \in RunRec /\ r \in 1..MaxRuns
  BY Constants DEF TypeInv
<1> QED BY <1>1, Constants DEF RunRec, RunId

\* The fields of the attempt that executes.
LEMMA JobFields ==
    ASSUME TypeInv
    PROVE  /\ job.run \in 0..MaxRuns /\ job.pc \in PC /\ job.seen \in LedgerRec
           /\ job.plan \in AnyPlan /\ job.build \in Nat /\ job.tag \in Tag
           /\ job.ref \in Nat /\ job.release \in Nat
           /\ job.plan.number \in Nat /\ job.plan.tag \in Tag /\ job.plan.source \in Commit
BY DEF TypeInv, JobRec, AnyPlan

\* The fields of a release.
LEMMA ReleaseFields ==
    ASSUME TypeInv, NEW i \in DOMAIN releases
    PROVE  /\ releases[i] \in ReleaseRec /\ i \in Nat /\ i > 0
           /\ releases[i].tag \in Tag /\ releases[i].plan \in AnyPlan
           /\ releases[i].attempt \in Nat /\ releases[i].draft \in BOOLEAN
           /\ releases[i].run \in 0..MaxRuns
           /\ releases[i].files \in [Files -> {"none", "good", "damaged"}]
<1>1. releases[i] \in ReleaseRec /\ i \in Nat /\ i > 0
  BY DEF TypeInv
<1> QED BY <1>1 DEF ReleaseRec

\* One run changes, and what it was asked for does not.
LEMMA RunUpdated ==
    ASSUME TypeInv, NEW r \in DOMAIN runs, NEW v \in RunRec,
           runs' = [runs EXCEPT ![r] = v],
           v.event = runs[r].event, v.channel = runs[r].channel, v.source = runs[r].source,
           v.candidate = runs[r].candidate, v.attempt >= runs[r].attempt,
           runs[r].receipts \subseteq v.receipts
    PROVE  RunsTyped' /\ RunsGrow /\ DOMAIN runs' = DOMAIN runs
<1>1. RunsTyped'
  BY DEF TypeInv, RunsTyped
<1>2. DOMAIN runs' = DOMAIN runs
  BY DEF TypeInv
<1>3. \A o \in DOMAIN runs : o # r => runs'[o] = runs[o]
  BY DEF TypeInv
<1>4. runs'[r] = v
  BY DEF TypeInv
<1>5. \A o \in DOMAIN runs : runs[o].attempt >= runs[o].attempt
  BY RunFields
<1> QED BY <1>1, <1>2, <1>3, <1>4, <1>5 DEF RunsGrow

\* No run changes.
LEMMA RunsKept ==
    ASSUME TypeInv, runs' = runs
    PROVE  RunsTyped' /\ RunsGrow
<1>1. \A o \in DOMAIN runs : runs[o].attempt >= runs[o].attempt
  BY RunFields
<1> QED BY <1>1 DEF TypeInv, RunsTyped, RunsGrow

\* An attempt ends.
LEMMA Concluded ==
    ASSUME TypeInv, job.run \in DOMAIN runs, NEW state \in {"success", "failure"},
           Conclude(state)
    PROVE  RunsTyped' /\ RunsGrow /\ job' = Idle /\ job' \in JobRec /\ DOMAIN runs' = DOMAIN runs
<1> DEFINE v == [runs[job.run] EXCEPT !.state = state]
<1>1. runs' = [runs EXCEPT ![job.run] = v]
  BY DEF Conclude, TypeInv
<1>2. v \in RunRec /\ v.event = runs[job.run].event /\ v.channel = runs[job.run].channel
      /\ v.source = runs[job.run].source /\ v.candidate = runs[job.run].candidate
      /\ v.attempt = runs[job.run].attempt /\ v.receipts = runs[job.run].receipts
  BY RunFields DEF RunRec
<1>3. runs[job.run].attempt >= runs[job.run].attempt
  BY RunFields
<1> HIDE DEF v
<1>4. RunsTyped' /\ RunsGrow /\ DOMAIN runs' = DOMAIN runs
  BY <1>1, <1>2, <1>3, RunUpdated
<1> QED BY <1>4, Constants DEF Conclude

\* A job of the workflow succeeds.
LEMMA JobPassed ==
    ASSUME TypeInv, job.run \in DOMAIN runs, NEW name \in Jobs, NEW pc \in PC,
           NEW plan \in AnyPlan, Passed(name, pc, plan)
    PROVE  RunsTyped' /\ RunsGrow /\ job' \in JobRec /\ DOMAIN runs' = DOMAIN runs
<1> DEFINE v == [runs[job.run] EXCEPT !.jobs = [@ EXCEPT ![name] = Run.attempt]]
<1>1. runs' = [runs EXCEPT ![job.run] = v]
  BY DEF Passed, TypeInv
<1>2. v \in RunRec /\ v.event = runs[job.run].event /\ v.channel = runs[job.run].channel
      /\ v.source = runs[job.run].source /\ v.candidate = runs[job.run].candidate
      /\ v.attempt = runs[job.run].attempt /\ v.receipts = runs[job.run].receipts
  BY RunFields DEF RunRec, Run
<1>3. runs[job.run].attempt >= runs[job.run].attempt
  BY RunFields
<1> HIDE DEF v
<1>4. RunsTyped' /\ RunsGrow /\ DOMAIN runs' = DOMAIN runs
  BY <1>1, <1>2, <1>3, RunUpdated
<1>5. job' \in JobRec
  BY DEF Passed, TypeInv, JobRec
<1> QED BY <1>4, <1>5

\* A request that GitHub applies keeps the types, and undoes nothing.
LEMMA Applied ==
    ASSUME TypeInv, NEW w \in Requests, Apply(w)
    PROVE  GithubTyped' /\ tags \subseteq tags' /\ ReleasesGrow
<1>1. CASE w.kind = "branch"
  <2>1. branch' = TRUE /\ UNCHANGED <<ledger, tags, releases>>
    BY <1>1 DEF Apply
  <2> QED BY <2>1 DEF TypeInv, GithubTyped, ReleasesGrow
<1>2. CASE w.kind = "ledger"
  <2>1. ledger' = w.value /\ UNCHANGED <<branch, tags, releases>>
    BY <1>2 DEF Apply
  <2>2. w.value \in LedgerRec
    BY <1>2 DEF Requests
  <2> QED BY <2>1, <2>2 DEF TypeInv, GithubTyped, ReleasesGrow
<1>3. CASE w.kind = "tag"
  <2>1. /\ tags' = tags \cup {[tag |-> w.tag, source |-> w.source]}
        /\ UNCHANGED <<branch, ledger, releases>>
    BY <1>3 DEF Apply
  <2>2. w.tag \in Tag /\ w.source \in Commit
    BY <1>3 DEF Requests
  <2>3. IsFiniteSet(tags')
    BY <2>1, FS_AddElement DEF TypeInv
  <2> QED BY <2>1, <2>2, <2>3 DEF TypeInv, GithubTyped, ReleasesGrow
<1>4. CASE w.kind = "draft"
  <2>1. releases' = Append(releases, w.draft) /\ UNCHANGED <<branch, ledger, tags>>
    BY <1>4 DEF Apply
  <2>2. w.draft \in ReleaseRec
    BY <1>4 DEF Requests
  <2>3. /\ releases' \in Seq(ReleaseRec)
        /\ \A i \in DOMAIN releases : i \in DOMAIN releases' /\ releases'[i] = releases[i]
    BY <2>1, <2>2, AppendProperties DEF TypeInv
  <2> QED BY <2>1, <2>3 DEF TypeInv, GithubTyped, ReleasesGrow
<1>5. CASE w.kind = "publish"
  <2>1. /\ releases' = [releases EXCEPT ![w.release].draft = FALSE]
        /\ UNCHANGED <<branch, ledger, tags>>
    BY <1>5 DEF Apply
  <2>2. DOMAIN releases' = DOMAIN releases
    BY <2>1
  <2>3. \A i \in DOMAIN releases :
           releases'[i] = IF i = w.release THEN [releases[i] EXCEPT !.draft = FALSE] ELSE releases[i]
    BY <2>1 DEF TypeInv
  <2>4. ASSUME NEW i \in DOMAIN releases
        PROVE  /\ [releases[i] EXCEPT !.draft = FALSE] \in ReleaseRec
               /\ [releases[i] EXCEPT !.draft = FALSE].tag = releases[i].tag
               /\ [releases[i] EXCEPT !.draft = FALSE].plan = releases[i].plan
               /\ [releases[i] EXCEPT !.draft = FALSE].attempt = releases[i].attempt
               /\ [releases[i] EXCEPT !.draft = FALSE].run = releases[i].run
               /\ [releases[i] EXCEPT !.draft = FALSE].draft = FALSE
    BY ReleaseFields DEF ReleaseRec
  <2>5. \A i \in DOMAIN releases : releases'[i] \in ReleaseRec
    BY <2>3, <2>4, ReleaseFields
  <2>6. releases' \in Seq(ReleaseRec)
    <3>1. DOMAIN releases = 1..Len(releases) /\ Len(releases) \in Nat
      BY DEF TypeInv
    <3>2. releases' = [i \in 1..Len(releases) |-> releases'[i]]
      BY <2>1, <2>2, <3>1 DEF TypeInv
    <3> QED BY <2>5, <3>1, <3>2
  <2>7. ReleasesGrow
    BY <2>2, <2>3, <2>4 DEF ReleasesGrow
  <2> QED BY <2>1, <2>6, <2>7 DEF TypeInv, GithubTyped
<1> QED BY <1>1, <1>2, <1>3, <1>4, <1>5 DEF Apply

\* Nothing changes on GitHub.
LEMMA GithubKept ==
    ASSUME TypeInv, UNCHANGED github
    PROVE  GithubTyped' /\ tags \subseteq tags' /\ ReleasesGrow
BY DEF TypeInv, GithubTyped, ReleasesGrow, github

-----------------------------------------------------------------------------
(* Every step keeps the types, and undoes nothing.                          *)

\* The parts of a step make the whole.
LEMMA Assembled ==
    ASSUME TypeInv, head' \in Commit, head <= head', RunsTyped', RunsGrow, job' \in JobRec,
           GithubTyped', tags \subseteq tags', ReleasesGrow,
           evidence \subseteq evidence', evidence' \subseteq [run : 0..MaxRuns, attempt : Nat],
           wire' \subseteq Requests, faults' \in Nat
    PROVE  TypeInv' /\ Grows
BY DEF TypeInv, Grows, RunsTyped, GithubTyped

\* The branch stays.
LEMMA HeadKept == ASSUME TypeInv, head' = head PROVE head' \in Commit /\ head <= head'
BY DEF TypeInv, Commit

\* Neither the branch nor GitHub changes
Still == UNCHANGED <<head, github, evidence, wire, faults>>

\* A step that changes neither the branch nor GitHub.
LEMMA StillStep ==
    ASSUME TypeInv, Still, RunsTyped', RunsGrow, job' \in JobRec
    PROVE  TypeInv' /\ Grows
<1>1. head' \in Commit /\ head <= head'
  BY HeadKept DEF Still
<1>2. GithubTyped' /\ tags \subseteq tags' /\ ReleasesGrow
  BY GithubKept DEF Still
<1>3. /\ evidence \subseteq evidence' /\ evidence' \subseteq [run : 0..MaxRuns, attempt : Nat]
      /\ wire' \subseteq Requests /\ faults' \in Nat
  BY DEF Still, TypeInv
<1> QED BY <1>1, <1>2, <1>3, Assembled

\* An attempt ends and nothing else changes.
LEMMA EndStep ==
    ASSUME TypeInv, Still, job.run \in DOMAIN runs, NEW state \in {"success", "failure"}, Conclude(state)
    PROVE  TypeInv' /\ Grows
BY Concluded, StillStep

\* A job succeeds and nothing else changes.
LEMMA PassedStep ==
    ASSUME TypeInv, Still, job.run \in DOMAIN runs, NEW name \in Jobs, NEW pc \in PC,
           NEW plan \in AnyPlan, Passed(name, pc, plan)
    PROVE  TypeInv' /\ Grows
BY JobPassed, StillStep

\* A request is lost.
LEMMA LostStep ==
    ASSUME TypeInv, NEW w \in Requests, Unanswered(w), RunsTyped', RunsGrow, job' \in JobRec
    PROVE  TypeInv' /\ Grows
<1>1. /\ faults' = faults + 1 /\ wire' = wire \cup {w} /\ UNCHANGED <<head, github, evidence>>
  BY DEF Unanswered
<1>2. head' \in Commit /\ head <= head'
  BY <1>1, HeadKept
<1>3. GithubTyped' /\ tags \subseteq tags' /\ ReleasesGrow
  BY <1>1, GithubKept
<1>4. /\ evidence \subseteq evidence' /\ evidence' \subseteq [run : 0..MaxRuns, attempt : Nat]
      /\ wire' \subseteq Requests /\ faults' \in Nat
  BY <1>1 DEF TypeInv
<1> QED BY <1>2, <1>3, <1>4, Assembled

\* A request is confirmed.
LEMMA ConfirmedStep ==
    ASSUME TypeInv, NEW w \in Requests, Confirmed(w), RunsTyped', RunsGrow, job' \in JobRec
    PROVE  TypeInv' /\ Grows
<1>1. Apply(w) /\ UNCHANGED <<head, evidence, wire, faults>>
  BY DEF Confirmed
<1>2. head' \in Commit /\ head <= head'
  BY <1>1, HeadKept
<1>3. GithubTyped' /\ tags \subseteq tags' /\ ReleasesGrow
  BY <1>1, Applied
<1>4. /\ evidence \subseteq evidence' /\ evidence' \subseteq [run : 0..MaxRuns, attempt : Nat]
      /\ wire' \subseteq Requests /\ faults' \in Nat
  BY <1>1 DEF TypeInv
<1> QED BY <1>2, <1>3, <1>4, Assembled

\* A request is refused, and the attempt ends.
LEMMA RefusedStep ==
    ASSUME TypeInv, job.run \in DOMAIN runs, Conclude("failure"),
           UNCHANGED <<head, github, evidence, wire, faults>>
    PROVE  TypeInv' /\ Grows
BY EndStep DEF Still

\* A request is lost, and the attempt ends.
LEMMA LostAndEnded ==
    ASSUME TypeInv, NEW w \in Requests, Unanswered(w), job.run \in DOMAIN runs, Conclude("failure")
    PROVE  TypeInv' /\ Grows
BY Concluded, LostStep

\* The environment keeps the types, and undoes nothing.
LEMMA EnvironmentTyped ==
    ASSUME TypeInv, JobInv, Environment
    PROVE  TypeInv' /\ Grows
<1>1. ASSUME NEW event \in {"push", "schedule", "dispatch"}, NEW channel \in Channels,
             NEW source \in Commit, NEW candidate \in 0..MaxRuns, head' \in Commit, head <= head',
             NewRun(event, channel, source, candidate)
      PROVE  TypeInv' /\ Grows
  <2>1. /\ runs' \in Seq(RunRec) /\ Len(runs') = Len(runs) + 1 /\ Len(runs) + 1 <= MaxRuns
        /\ \A r \in DOMAIN runs : /\ r \in DOMAIN runs'
                                  /\ runs'[r] = [runs[r] EXCEPT !.state = runs'[r].state]
    BY <1>1, NewRunTyped
  <2>2. RunsTyped'
    BY <2>1 DEF RunsTyped
  <2>3. ASSUME NEW r \in DOMAIN runs, NEW state
        PROVE  /\ [runs[r] EXCEPT !.state = state].event = runs[r].event
               /\ [runs[r] EXCEPT !.state = state].channel = runs[r].channel
               /\ [runs[r] EXCEPT !.state = state].source = runs[r].source
               /\ [runs[r] EXCEPT !.state = state].candidate = runs[r].candidate
               /\ [runs[r] EXCEPT !.state = state].attempt >= runs[r].attempt
               /\ [runs[r] EXCEPT !.state = state].receipts = runs[r].receipts
    BY RunFields DEF RunRec
  <2>4. RunsGrow
    <3> SUFFICES ASSUME NEW r \in DOMAIN runs
                 PROVE  /\ r \in DOMAIN runs'
                        /\ runs'[r].event = runs[r].event
                        /\ runs'[r].channel = runs[r].channel
                        /\ runs'[r].source = runs[r].source
                        /\ runs'[r].candidate = runs[r].candidate
                        /\ runs'[r].attempt >= runs[r].attempt
                        /\ runs[r].receipts \subseteq runs'[r].receipts
      BY DEF RunsGrow
    <3> DEFINE state == runs'[r].state
    <3>1. r \in DOMAIN runs' /\ runs'[r] = [runs[r] EXCEPT !.state = state]
      BY <2>1
    <3> HIDE DEF state
    <3> QED BY <2>3, <3>1
  <2>5. UNCHANGED <<job, github, evidence, wire, faults>>
    BY <1>1 DEF NewRun
  <2>6. GithubTyped' /\ tags \subseteq tags' /\ ReleasesGrow
    BY <2>5, GithubKept
  <2>7. /\ evidence \subseteq evidence' /\ evidence' \subseteq [run : 0..MaxRuns, attempt : Nat]
        /\ wire' \subseteq Requests /\ faults' \in Nat /\ job' \in JobRec
    BY <2>5 DEF TypeInv
  <2> QED BY <1>1, <2>2, <2>4, <2>6, <2>7, Assembled
<1>2. CASE Push
  <2>1. head + 1 \in Commit /\ head \in Commit /\ head' = head + 1 /\ head <= head'
    BY <1>2, Constants DEF Push, TypeInv, Commit
  <2>2. CASE Len(runs) < MaxRuns
    <3>1. NewRun("push", "beta", head + 1, 0)
      BY <1>2, <2>2 DEF Push
    <3> QED BY <1>1, <2>1, <3>1, Constants DEF Channels
  <2>3. CASE ~(Len(runs) < MaxRuns)
    <3>1. UNCHANGED <<runs, job, github, evidence, wire, faults>>
      BY <1>2, <2>3 DEF Push
    <3>2. GithubTyped' /\ tags \subseteq tags' /\ ReleasesGrow /\ RunsTyped' /\ RunsGrow
      BY <3>1, GithubKept, RunsKept
    <3>3. /\ evidence \subseteq evidence' /\ evidence' \subseteq [run : 0..MaxRuns, attempt : Nat]
          /\ wire' \subseteq Requests /\ faults' \in Nat /\ job' \in JobRec
      BY <3>1 DEF TypeInv
    <3> QED BY <2>1, <3>2, <3>3, Assembled
  <2> QED BY <2>2, <2>3
<1>3. CASE Schedule
  <2>1. NewRun("schedule", "nightly", head, 0) /\ head' = head
    BY <1>3 DEF Schedule
  <2> QED BY <1>1, <2>1, HeadKept, Constants DEF Channels, TypeInv
<1>4. ASSUME NEW channel \in Channels, NEW candidate \in 0..MaxRuns, Dispatch(channel, candidate)
      PROVE  TypeInv' /\ Grows
  <2>1. NewRun("dispatch", channel, head, candidate) /\ head' = head
    BY <1>4 DEF Dispatch
  <2> QED BY <1>1, <2>1, HeadKept DEF TypeInv
<1>5. ASSUME NEW r \in DOMAIN runs, Rerun(r) PROVE TypeInv' /\ Grows
  <2>1. PICK carried \in {NoJobs, runs[r].jobs} :
           runs' = [Cancelled EXCEPT ![r].attempt = @ + 1, ![r].state = "queued", ![r].jobs = carried]
    BY <1>5 DEF Rerun
  <2>2. carried \in [Jobs -> Nat]
    BY RunFields DEF NoJobs
  <2>3. ASSUME NEW o \in DOMAIN runs
        PROVE  /\ Cancelled[o] \in RunRec
               /\ Cancelled[o].event = runs[o].event /\ Cancelled[o].channel = runs[o].channel
               /\ Cancelled[o].source = runs[o].source /\ Cancelled[o].candidate = runs[o].candidate
               /\ Cancelled[o].attempt = runs[o].attempt /\ Cancelled[o].receipts = runs[o].receipts
    BY RunFields DEF Cancelled, RunRec
  <2>4. DOMAIN Cancelled = DOMAIN runs
    BY DEF Cancelled
  <2> DEFINE v == [[[Cancelled[r] EXCEPT !.attempt = @ + 1] EXCEPT !.state = "queued"]
                      EXCEPT !.jobs = carried]
  <2>5. runs' = [Cancelled EXCEPT ![r] = v]
    BY <2>1, <2>4
  <2>6. /\ v \in RunRec /\ v.event = runs[r].event /\ v.channel = runs[r].channel
        /\ v.source = runs[r].source /\ v.candidate = runs[r].candidate
        /\ v.attempt >= runs[r].attempt /\ v.receipts = runs[r].receipts
    <3> DEFINE c == Cancelled[r]
    <3>1. /\ c \in RunRec /\ c.event = runs[r].event /\ c.channel = runs[r].channel
          /\ c.source = runs[r].source /\ c.candidate = runs[r].candidate
          /\ c.attempt = runs[r].attempt /\ c.receipts = runs[r].receipts
      BY <2>3
    <3> HIDE DEF c
    <3> DEFINE d == [c EXCEPT !.attempt = @ + 1]
               e == [d EXCEPT !.state = "queued"]
    <3>2. v = [e EXCEPT !.jobs = carried]
      BY DEF v, c
    <3>3. /\ d \in RunRec /\ d.event = runs[r].event /\ d.channel = runs[r].channel
          /\ d.source = runs[r].source /\ d.candidate = runs[r].candidate
          /\ d.attempt = runs[r].attempt + 1 /\ d.receipts = runs[r].receipts
      BY <3>1, RunFields DEF RunRec
    <3> HIDE DEF d
    <3>4. /\ e \in RunRec /\ e.event = runs[r].event /\ e.channel = runs[r].channel
          /\ e.source = runs[r].source /\ e.candidate = runs[r].candidate
          /\ e.attempt = runs[r].attempt + 1 /\ e.receipts = runs[r].receipts
      BY <3>3 DEF RunRec
    <3>5. runs[r].attempt + 1 >= runs[r].attempt
      BY RunFields
    <3> HIDE DEF e, v
    <3> QED BY <2>2, <3>2, <3>4, <3>5 DEF RunRec
  <2> HIDE DEF v
  <2>7. DOMAIN runs' = DOMAIN runs /\ \A o \in DOMAIN runs : runs'[o] = IF o = r THEN v ELSE Cancelled[o]
    BY <2>4, <2>5
  <2>8. RunsTyped'
    <3>1. DOMAIN runs = 1..Len(runs) /\ Len(runs) \in Nat /\ Len(runs) <= MaxRuns
      BY DEF TypeInv
    <3>2. runs' = [o \in 1..Len(runs) |-> runs'[o]]
      BY <2>4, <2>5, <2>7, <3>1
    <3>3. \A o \in 1..Len(runs) : runs'[o] \in RunRec
      BY <2>3, <2>6, <2>7, <3>1
    <3> QED BY <3>1, <3>2, <3>3 DEF RunsTyped
  <2>9. RunsGrow
    <3>1. \A o \in DOMAIN runs : runs[o].attempt >= runs[o].attempt
      BY RunFields
    <3> QED BY <2>3, <2>6, <2>7, <3>1 DEF RunsGrow
  <2>10. UNCHANGED <<head, job, github, evidence, wire, faults>>
    BY <1>5 DEF Rerun
  <2>11. job' \in JobRec /\ Still
    BY <2>10 DEF TypeInv, Still
  <2> QED BY <2>8, <2>9, <2>11, StillStep
<1>6. ASSUME NEW r \in DOMAIN runs, Start(r) PROVE TypeInv' /\ Grows
  <2> DEFINE v == [runs[r] EXCEPT !.state = "in_progress"]
  <2>1. runs' = [runs EXCEPT ![r] = v]
    BY <1>6 DEF Start, TypeInv
  <2>2. /\ v \in RunRec /\ v.event = runs[r].event /\ v.channel = runs[r].channel
        /\ v.source = runs[r].source /\ v.candidate = runs[r].candidate
        /\ v.attempt >= runs[r].attempt /\ v.receipts = runs[r].receipts
    BY RunFields DEF RunRec
  <2> HIDE DEF v
  <2>3. RunsTyped' /\ RunsGrow
    BY <2>1, <2>2, RunUpdated
  <2>4. First(r) \in PC
    BY RunFields DEF First, PC, Before, Late, Jobs
  <2>5. (IF r \in Reserved THEN ledger.plans[r] ELSE NoPlan) \in AnyPlan
    BY Constants, LedgerFields DEF TypeInv, Reserved, Plan, AnyPlan
  <2>6. job' \in JobRec
    <3>1. job' = [Idle EXCEPT !.run = r, !.pc = First(r),
                              !.plan = IF r \in Reserved THEN ledger.plans[r] ELSE NoPlan]
      BY <1>6 DEF Start
    <3> QED BY <2>4, <2>5, <3>1, Constants, RunFields DEF JobRec
  <2>7. Still
    BY <1>6 DEF Start, Still
  <2> QED BY <2>3, <2>6, <2>7, StillStep
<1>7. ASSUME NEW w \in wire, Land(w) PROVE TypeInv' /\ Grows
  <2>1. w \in Requests
    BY DEF TypeInv
  <2>2. GithubTyped' /\ tags \subseteq tags' /\ ReleasesGrow
    BY <1>7, <2>1, Applied, GithubKept DEF Land
  <2>3. UNCHANGED <<head, runs, job, evidence, faults>> /\ wire' = wire \ {w}
    BY <1>7 DEF Land
  <2>4. RunsTyped' /\ RunsGrow /\ head' \in Commit /\ head <= head'
    BY <2>3, RunsKept, HeadKept
  <2>5. /\ evidence \subseteq evidence' /\ evidence' \subseteq [run : 0..MaxRuns, attempt : Nat]
        /\ wire' \subseteq Requests /\ faults' \in Nat /\ job' \in JobRec
    BY <2>3 DEF TypeInv
  <2> QED BY <2>2, <2>4, <2>5, Assembled
<1>8. CASE Abandon
  <2>1. job.run \in DOMAIN runs /\ Conclude("failure") /\ faults' = faults + 1
        /\ UNCHANGED <<head, github, evidence, wire>>
    BY <1>8 DEF Abandon, JobInv
  <2>2. RunsTyped' /\ RunsGrow /\ job' \in JobRec
    BY <2>1, Concluded
  <2>3. GithubTyped' /\ tags \subseteq tags' /\ ReleasesGrow /\ head' \in Commit /\ head <= head'
    BY <2>1, GithubKept, HeadKept
  <2>4. /\ evidence \subseteq evidence' /\ evidence' \subseteq [run : 0..MaxRuns, attempt : Nat]
        /\ wire' \subseteq Requests /\ faults' \in Nat
    BY <2>1 DEF TypeInv
  <2> QED BY <2>2, <2>3, <2>4, Assembled
<1> QED BY <1>2, <1>3, <1>4, <1>5, <1>6, <1>7, <1>8 DEF Environment

\* An attempt moves on.
LEMMA GotoTyped ==
    ASSUME TypeInv, NEW pc \in PC, Goto(pc)
    PROVE  RunsTyped' /\ RunsGrow /\ job' \in JobRec
<1>1. job' \in JobRec
  BY DEF Goto, TypeInv, JobRec
<1> QED BY <1>1, RunsKept DEF Goto

\* A build or a campaign leaves its receipt.
LEMMA ReceiptAdded ==
    ASSUME TypeInv, job.run \in DOMAIN runs, NEW name \in {"package", "fuzz"}, NEW kind \in Jobs,
           runs' = [runs EXCEPT ![job.run].jobs[kind] = Run.attempt,
                                ![job.run].receipts = @ \union {Receipt(name)}]
    PROVE  RunsTyped' /\ RunsGrow
<1> DEFINE v == [[runs[job.run] EXCEPT !.jobs = [@ EXCEPT ![kind] = Run.attempt]]
                    EXCEPT !.receipts = @ \union {Receipt(name)}]
<1>1. runs' = [runs EXCEPT ![job.run] = v]
  BY DEF TypeInv
<1>2. Receipt(name) \in [name : {"package", "fuzz"}, attempt : Nat, plan : AnyPlan]
  BY RunFields, JobFields DEF Receipt, Run
<1>3. /\ v \in RunRec /\ v.event = runs[job.run].event /\ v.channel = runs[job.run].channel
      /\ v.source = runs[job.run].source /\ v.candidate = runs[job.run].candidate
      /\ v.attempt = runs[job.run].attempt /\ runs[job.run].receipts \subseteq v.receipts
  BY <1>2, RunFields DEF RunRec, Run
<1>4. runs[job.run].attempt >= runs[job.run].attempt
  BY RunFields
<1> HIDE DEF v
<1> QED BY <1>1, <1>3, <1>4, RunUpdated

\* The prepare job keeps the types, and undoes nothing.
LEMMA PrepareTyped ==
    ASSUME TypeInv, JobInv, \A o \in Reserved : Suits(o, ledger.plans[o]), PrepareJob
    PROVE  TypeInv' /\ Grows
<1>1. CASE ClosedPushCycle
  BY <1>1, EndStep DEF ClosedPushCycle, JobInv, Still
<1>2. CASE ReusePlan
  <2>1. ledger.plans[job.run] \in AnyPlan
    BY <1>2, LedgerFields DEF ReusePlan, TypeInv, Reserved, Plan, AnyPlan
  <2>2. /\ job.run \in DOMAIN runs /\ Still /\ "prepare" \in Jobs /\ "build" \in PC
        /\ Passed("prepare", "build", ledger.plans[job.run])
    BY <1>2 DEF ReusePlan, JobInv, Still, Jobs, PC, Before
  <2> QED BY <2>1, <2>2, PassedStep
<1>3. CASE AllocatePlan
  <2>1. /\ job.run \in DOMAIN runs /\ Still /\ runs' = runs /\ job.run \notin Reserved
        /\ runs[job.run].channel # "stable"
        /\ job' = [job EXCEPT !.pc = "allocate", !.plan = CreatePlan(job.run), !.seen = ledger]
    BY <1>3 DEF AllocatePlan, JobInv, Still, Run
  <2>2. CreatePlan(job.run) \in AnyPlan
    BY <2>1, PlanCreated DEF Plan, AnyPlan
  <2>3. job' \in JobRec
    BY <2>1, <2>2 DEF JobRec, TypeInv, PC, Before
  <2> QED BY <2>1, <2>3, RunsKept, StillStep
<1>4. CASE CreateStateBranch
  <2> DEFINE w == [kind |-> "branch"]
  <2>1. w \in Requests /\ job.run \in DOMAIN runs
    BY <1>4 DEF Requests, CreateStateBranch, JobInv
  <2>2. \/ Confirmed(w) /\ UNCHANGED <<runs, job>>
        \/ Conclude("failure") /\ UNCHANGED <<head, github, evidence, wire, faults>>
        \/ Unanswered(w) /\ Conclude("failure")
    BY <1>4 DEF CreateStateBranch, Request
  <2> HIDE DEF w
  <2>3. CASE Confirmed(w) /\ UNCHANGED <<runs, job>>
    BY <2>1, <2>3, RunsKept, ConfirmedStep DEF TypeInv
  <2> QED BY <2>1, <2>2, <2>3, RefusedStep, LostAndEnded
<1>5. CASE WriteReservation
  <2> DEFINE seen == job.seen
             plans == [r \in DOMAIN seen.plans \union {job.run} |->
                          IF r = job.run THEN job.plan ELSE seen.plans[r]]
             w == [kind |-> "ledger", previous |-> seen,
                   value |-> [seen EXCEPT !.file = TRUE, !.counter = job.plan.number, !.plans = plans]]
  <2>1. job.run \in DOMAIN runs /\ job.pc = "allocate"
    BY <1>5 DEF WriteReservation, JobInv
  <2>2. w \in Requests
    <3>1. seen \in LedgerRec /\ job.run \in RunId /\ job.plan \in Plan
      BY <2>1, JobFields, RunFields DEF JobInv
    <3>2. plans \in [DOMAIN seen.plans \cup {job.run} -> Plan]
      BY <3>1, LedgerFields
    <3>3. DOMAIN seen.plans \cup {job.run} \in SUBSET RunId
      BY <3>1, LedgerFields
    <3> HIDE DEF plans
    <3>4. plans \in UNION {[S -> Plan] : S \in SUBSET RunId}
      BY <3>2, <3>3
    <3>5. job.plan.number \in Nat
      BY JobFields
    <3>6. [seen EXCEPT !.file = TRUE, !.counter = job.plan.number, !.plans = plans] \in LedgerRec
      BY <3>1, <3>4, <3>5 DEF LedgerRec
    <3> QED BY <3>1, <3>6 DEF Requests
  <2>3. \/ Confirmed(w) /\ Passed("prepare", "build", job.plan)
        \/ Conclude("failure") /\ UNCHANGED <<head, github, evidence, wire, faults>>
        \/ Unanswered(w) /\ Conclude("failure")
    BY <1>5 DEF WriteReservation, Request
  <2> HIDE DEF w
  <2>4. CASE Confirmed(w) /\ Passed("prepare", "build", job.plan)
    <3>1. "prepare" \in Jobs /\ "build" \in PC /\ job.plan \in AnyPlan
      BY JobFields DEF Jobs, PC, Before
    <3>2. RunsTyped' /\ RunsGrow /\ job' \in JobRec
      BY <2>1, <2>4, <3>1, JobPassed
    <3> QED BY <2>2, <2>4, <3>2, ConfirmedStep
  <2> QED BY <2>1, <2>2, <2>3, <2>4, RefusedStep, LostAndEnded
<1>6. CASE StagePackages
  <2>1. /\ job.run \in DOMAIN runs /\ Still /\ job' = job
        /\ runs' = [runs EXCEPT ![job.run].jobs["build"] = Run.attempt,
                                ![job.run].receipts = @ \union {Receipt("package")}]
    BY <1>6 DEF StagePackages, JobInv, Still
  <2>2. RunsTyped' /\ RunsGrow
    BY <2>1, ReceiptAdded DEF Jobs
  <2> QED BY <2>1, <2>2, StillStep DEF TypeInv
<1>7. CASE Campaign
  <2>1. /\ job.run \in DOMAIN runs /\ Still /\ job' = job
        /\ runs' = [runs EXCEPT ![job.run].jobs["fuzz"] = Run.attempt,
                                ![job.run].receipts = @ \union {Receipt("fuzz")}]
    BY <1>7 DEF Campaign, JobInv, Still
  <2>2. RunsTyped' /\ RunsGrow
    BY <2>1, ReceiptAdded DEF Jobs
  <2> QED BY <2>1, <2>2, StillStep DEF TypeInv
<1>8. CASE PassGate
  <2>1. job.run \in DOMAIN runs /\ Still /\ Passed("gate", "candidate", job.plan)
    BY <1>8 DEF PassGate, JobInv, Still
  <2>2. "gate" \in Jobs /\ "candidate" \in PC /\ job.plan \in AnyPlan
    BY JobFields DEF Jobs, PC, Before
  <2> QED BY <2>1, <2>2, PassedStep
<1>9. CASE PreparePromotion
  <2>1. job.run \in DOMAIN runs /\ Still /\ Passed("prepare", "approved", NoPlan)
    BY <1>9 DEF PreparePromotion, JobInv, Still
  <2>2. "prepare" \in Jobs /\ "approved" \in PC /\ NoPlan \in AnyPlan
    BY Constants DEF Jobs, PC, Before
  <2> QED BY <2>1, <2>2, PassedStep
<1> QED BY <1>1, <1>2, <1>3, <1>4, <1>5, <1>6, <1>7, <1>8, <1>9 DEF PrepareJob

\* The candidate of a promotion is a public release.
LEMMA CandidateIsPublic ==
    ASSUME TypeInv, VerifiedRC
    PROVE  /\ Candidate \in ReleaseRec /\ Candidate.plan \in AnyPlan /\ Candidate.attempt \in Nat
           /\ \E i \in Public : releases[i] = Candidate
<1>1. PICK i \in Public : releases[i] = Candidate
  BY DEF VerifiedRC, ReleaseSnapshot
<1>2. i \in DOMAIN releases
  BY DEF Public
<1> QED BY <1>1, <1>2, ReleaseFields

\* The draft an attempt creates is a release.
LEMMA DraftTyped ==
    ASSUME TypeInv, job.run \in DOMAIN runs
    PROVE  Draft \in ReleaseRec
<1>1. (IF Run.channel = "stable" THEN Run.candidate ELSE job.run) \in 0..MaxRuns
  BY RunFields DEF Run
<1> QED BY <1>1, JobFields DEF Draft, ReleaseRec

\* The step that consumes a number keeps the types.
LEMMA ConsumeTyped ==
    ASSUME TypeInv, job.run \in DOMAIN runs, NEW tag \in Tag, NEW build \in Nat, Consume(tag, build)
    PROVE  TypeInv' /\ Grows
<1> DEFINE value == [ledger EXCEPT !.floor = job.plan.number]
           w == [kind |-> "ledger", previous |-> ledger, value |-> value]
<1>1. value \in LedgerRec
  BY JobFields DEF TypeInv, LedgerRec
<1>2. w \in Requests
  BY <1>1 DEF TypeInv, Requests
<1>3. \/ /\ Confirmed(w) /\ runs' = runs
         /\ job' = [job EXCEPT !.pc = "tag", !.tag = tag, !.build = build, !.seen = value, !.ref = head]
      \/ Conclude("failure") /\ UNCHANGED <<head, github, evidence, wire, faults>>
      \/ Unanswered(w) /\ Conclude("failure")
  BY DEF Consume, Request
<1>4. head \in Nat
  BY Constants DEF TypeInv, Commit
<1> HIDE DEF w, value
<1>5. CASE /\ Confirmed(w) /\ runs' = runs
           /\ job' = [job EXCEPT !.pc = "tag", !.tag = tag, !.build = build, !.seen = value, !.ref = head]
  <2>1. job' \in JobRec
    BY <1>1, <1>4, <1>5 DEF TypeInv, JobRec, PC, Late
  <2> QED BY <1>2, <1>5, <2>1, RunsKept, ConfirmedStep
<1> QED BY <1>2, <1>3, <1>5, RefusedStep, LostAndEnded

\* The publishing jobs keep the types, and undo nothing.
LEMMA PublishTyped ==
    ASSUME TypeInv, JobInv, PublishJob
    PROVE  TypeInv' /\ Grows
<1>1. CASE CheckCandidate
  <2>1. Goto("staged") /\ Still
    BY <1>1 DEF CheckCandidate, Still
  <2> QED BY <2>1, GotoTyped, StillStep DEF PC
<1>2. CASE SupersededCandidate
  BY <1>2, EndStep DEF SupersededCandidate, JobInv, Still
<1>3. CASE ScheduledReuse
  BY <1>3, EndStep DEF ScheduledReuse, JobInv, Still
<1>4. CASE BeginPublication
  <2>1. job.run \in DOMAIN runs /\ Consume(job.plan.tag, Run.attempt)
    BY <1>4 DEF BeginPublication, JobInv
  <2> QED BY <2>1, ConsumeTyped, JobFields, RunFields DEF Run
<1>5. CASE VerifyPromotion
  <2>1. /\ VerifiedRC /\ runs' = runs /\ Still
        /\ job' = [job EXCEPT !.pc = "promote", !.plan = Candidate.plan, !.build = Candidate.attempt]
    BY <1>5 DEF VerifyPromotion, Still
  <2>2. job' \in JobRec
    BY <2>1, CandidateIsPublic DEF TypeInv, JobRec, PC
  <2> QED BY <2>1, <2>2, RunsKept, StillStep
<1>6. CASE BeginPromotion
  <2>1. job.run \in DOMAIN runs /\ Consume(StableTag(job.plan.tag.base), job.build)
    BY <1>6 DEF BeginPromotion, JobInv
  <2>2. StableTag(job.plan.tag.base) \in Tag
    <3>1. job.plan.tag.base \in {BaseOf[d] : d \in Commit}
      BY JobFields DEF Tag
    <3> QED BY <3>1, Constants
  <2> QED BY <2>1, <2>2, ConsumeTyped, JobFields
<1>7. CASE CreateTag
  <2> DEFINE w == [kind |-> "tag", tag |-> job.tag, source |-> job.plan.source]
  <2>1. w \in Requests /\ job.run \in DOMAIN runs
    BY <1>7, JobFields DEF Requests, CreateTag, JobInv
  <2>2. \/ Confirmed(w) /\ Goto("create")
        \/ Conclude("failure") /\ UNCHANGED <<head, github, evidence, wire, faults>>
        \/ Unanswered(w) /\ Conclude("failure")
    BY <1>7 DEF CreateTag, Request
  <2> HIDE DEF w
  <2>3. CASE Confirmed(w) /\ Goto("create")
    BY <2>1, <2>3, GotoTyped, ConfirmedStep DEF PC, Late
  <2> QED BY <2>1, <2>2, <2>3, RefusedStep, LostAndEnded
<1>8. CASE CreateDraft
  <2> DEFINE w == [kind |-> "draft", draft |-> Draft]
  <2>1. job.run \in DOMAIN runs
    BY <1>8 DEF CreateDraft, JobInv
  <2>2. w \in Requests
    BY <2>1, DraftTyped DEF Requests
  <2>3. \/ /\ Confirmed(w) /\ runs' = runs
           /\ job' = [job EXCEPT !.pc = "upload", !.release = Len(releases) + 1]
        \/ Unanswered(w) /\ (Conclude("failure") \/ Goto("reconcile"))
    BY <1>8 DEF CreateDraft
  <2> HIDE DEF w
  <2>4. CASE /\ Confirmed(w) /\ runs' = runs
             /\ job' = [job EXCEPT !.pc = "upload", !.release = Len(releases) + 1]
    <3>1. Len(releases) + 1 \in Nat
      BY DEF TypeInv
    <3>2. job' \in JobRec
      BY <2>4, <3>1 DEF TypeInv, JobRec, PC, Late
    <3> QED BY <2>2, <2>4, <3>2, RunsKept, ConfirmedStep
  <2>5. CASE Unanswered(w) /\ Conclude("failure")
    BY <2>1, <2>2, <2>5, LostAndEnded
  <2>6. CASE Unanswered(w) /\ Goto("reconcile")
    BY <2>2, <2>6, GotoTyped, LostStep DEF PC, Late
  <2> QED BY <2>3, <2>4, <2>5, <2>6
<1>9. CASE ReconcileCreatedRelease
  <2>1. PICK i \in DOMAIN releases : job' = [job EXCEPT !.pc = "upload", !.release = i]
    BY <1>9 DEF ReconcileCreatedRelease, CreateReadback
  <2>2. job' \in JobRec
    BY <2>1, ReleaseFields DEF TypeInv, JobRec, PC, Late
  <2>3. runs' = runs /\ Still
    BY <1>9 DEF ReconcileCreatedRelease, Still
  <2> QED BY <2>2, <2>3, RunsKept, StillStep
<1>10. CASE Upload
  <2> DEFINE missing == {f \in Files : releases[job.release].files[f] = "none"}
             file == CHOOSE f \in missing : TRUE
  <2>1. PICK bytes \in {"good", "damaged"} :
           /\ faults' = IF bytes = "damaged" THEN faults + 1 ELSE faults
           /\ releases' = [releases EXCEPT ![job.release].files[file] = bytes]
    BY <1>10 DEF Upload
  <2>2. /\ Goto("verify") \/ UNCHANGED <<job, runs>>
        /\ UNCHANGED <<head, branch, ledger, tags, evidence, wire>>
    BY <1>10 DEF Upload
  <2> HIDE DEF file, missing
  <2>3. RunsTyped' /\ RunsGrow /\ job' \in JobRec
    BY <2>2, GotoTyped, RunsKept DEF PC, Late, TypeInv
  <2>4. ASSUME NEW i \in DOMAIN releases
        PROVE  /\ [releases[i] EXCEPT !.files = [@ EXCEPT ![file] = bytes]] \in ReleaseRec
               /\ [releases[i] EXCEPT !.files = [@ EXCEPT ![file] = bytes]].tag = releases[i].tag
               /\ [releases[i] EXCEPT !.files = [@ EXCEPT ![file] = bytes]].plan = releases[i].plan
               /\ [releases[i] EXCEPT !.files = [@ EXCEPT ![file] = bytes]].attempt = releases[i].attempt
               /\ [releases[i] EXCEPT !.files = [@ EXCEPT ![file] = bytes]].run = releases[i].run
               /\ [releases[i] EXCEPT !.files = [@ EXCEPT ![file] = bytes]].draft = releases[i].draft
    BY ReleaseFields DEF ReleaseRec
  <2>5. /\ DOMAIN releases' = DOMAIN releases
        /\ \A i \in DOMAIN releases :
              releases'[i] = IF i = job.release
                               THEN [releases[i] EXCEPT !.files = [@ EXCEPT ![file] = bytes]]
                               ELSE releases[i]
    BY <2>1 DEF TypeInv
  <2>6. ReleasesGrow
    BY <2>4, <2>5 DEF ReleasesGrow
  <2>7. releases' \in Seq(ReleaseRec)
    <3>1. DOMAIN releases = 1..Len(releases) /\ Len(releases) \in Nat
      BY DEF TypeInv
    <3>2. releases' = [i \in 1..Len(releases) |-> releases'[i]]
      BY <2>1, <2>5, <3>1 DEF TypeInv
    <3>3. \A i \in 1..Len(releases) : releases'[i] \in ReleaseRec
      BY <2>4, <2>5, <3>1, ReleaseFields
    <3> QED BY <3>1, <3>2, <3>3
  <2>8. GithubTyped'
    BY <2>2, <2>7 DEF GithubTyped, TypeInv
  <2>9. /\ evidence \subseteq evidence' /\ evidence' \subseteq [run : 0..MaxRuns, attempt : Nat]
        /\ wire' \subseteq Requests /\ faults' \in Nat /\ tags \subseteq tags'
        /\ head' \in Commit /\ head <= head'
    BY <2>1, <2>2, HeadKept DEF TypeInv
  <2> QED BY <2>3, <2>6, <2>8, <2>9, Assembled
<1>11. CASE VerifyUploads
  <2>1. Goto("publish") /\ Still
    BY <1>11 DEF VerifyUploads, Still
  <2> QED BY <2>1, GotoTyped, StillStep DEF PC, Late
<1>12. CASE Publish
  <2> DEFINE w == [kind |-> "publish", release |-> job.release]
  <2>1. w \in Requests /\ job.run \in DOMAIN runs
    BY <1>12, JobFields DEF Requests, Publish, JobInv
  <2>2. \/ Confirmed(w) /\ (Conclude("success") \/ Goto("evidence"))
        \/ Conclude("failure") /\ UNCHANGED <<head, github, evidence, wire, faults>>
        \/ Unanswered(w) /\ Conclude("failure")
    BY <1>12 DEF Publish, Request
  <2> HIDE DEF w
  <2>3. CASE Confirmed(w) /\ (Conclude("success") \/ Goto("evidence"))
    <3>1. RunsTyped' /\ RunsGrow /\ job' \in JobRec
      BY <2>1, <2>3, GotoTyped, Concluded DEF PC, Late
    <3> QED BY <2>1, <2>3, <3>1, ConfirmedStep
  <2> QED BY <2>1, <2>2, <2>3, RefusedStep, LostAndEnded
<1>13. CASE StoreEvidence
  <2>1. /\ job.run \in DOMAIN runs /\ Conclude("success")
        /\ evidence' = evidence \cup {[run |-> job.run, attempt |-> Run.attempt]}
        /\ UNCHANGED <<head, github, wire, faults>>
    BY <1>13 DEF StoreEvidence, JobInv
  <2>2. RunsTyped' /\ RunsGrow /\ job' \in JobRec
    BY <2>1, Concluded
  <2>3. GithubTyped' /\ tags \subseteq tags' /\ ReleasesGrow /\ head' \in Commit /\ head <= head'
    BY <2>1, GithubKept, HeadKept
  <2>4. /\ evidence \subseteq evidence' /\ evidence' \subseteq [run : 0..MaxRuns, attempt : Nat]
        /\ wire' \subseteq Requests /\ faults' \in Nat
    BY <2>1, RunFields DEF TypeInv, Run
  <2> QED BY <2>2, <2>3, <2>4, Assembled
<1> QED BY <1>1, <1>2, <1>3, <1>4, <1>5, <1>6, <1>7, <1>8, <1>9, <1>10, <1>11, <1>12, <1>13
        DEF PublishJob

-----------------------------------------------------------------------------
(* The steps, by what they do to the ledger and to a publication.           *)

\* The requests an attempt sends.
BranchRequest == [kind |-> "branch"]
ReservationRequest ==
    LET seen == job.seen
        plans == [r \in DOMAIN seen.plans \union {job.run} |->
                     IF r = job.run THEN job.plan ELSE seen.plans[r]]
    IN  [kind |-> "ledger", previous |-> seen,
         value |-> [seen EXCEPT !.file = TRUE, !.counter = job.plan.number, !.plans = plans]]
ConsumeRequest ==
    LET value == [ledger EXCEPT !.floor = job.plan.number]
    IN  [kind |-> "ledger", previous |-> ledger, value |-> value]
TagRequest == [kind |-> "tag", tag |-> job.tag, source |-> job.plan.source]
DraftRequest == [kind |-> "draft", draft |-> Draft]
PublishRequest == [kind |-> "publish", release |-> job.release]

\* The number may be spent: the plan is reserved and in order.
MayConsume ==
    \/ /\ job.pc = "staged"
       /\ VerifyReservation(job.run, job.plan)
       /\ ~Overtaken(job.run)
    \/ job.pc = "promote" /\ VerifyPromotionOrder(job.plan)

\* The request an attempt sends next.
Sends(w) ==
    \/ job.pc = "allocate" /\ w \in {BranchRequest, ReservationRequest}
    \/ MayConsume /\ w = ConsumeRequest
    \/ job.pc = "tag" /\ EnsureAbsent(job.tag) /\ w = TagRequest
    \/ job.pc = "create" /\ w = DraftRequest
    \/ job.pc = "publish" /\ w = PublishRequest

\* What a step of Next can be, as far as the invariants can tell.
Elsewhere == UNCHANGED <<job, github, evidence, wire>>
Inside ==
    /\ UNCHANGED <<head, github, evidence, wire>>
    /\ job'.pc \in Before \ {"allocate"}
Ended == UNCHANGED <<head, github, evidence, wire>> /\ job' = Idle
Lost == \E w : Sends(w) /\ Unanswered(w) /\ job' = Idle
Reconciles ==
    /\ job.pc = "create" /\ Run.channel # "stable"
    /\ Unanswered(DraftRequest) /\ runs' = runs /\ job' = [job EXCEPT !.pc = "reconcile"]
Branched == job.pc = "allocate" /\ Confirmed(BranchRequest) /\ job' = job
ReservedNow ==
    /\ job.pc = "allocate"
    /\ Confirmed(ReservationRequest)
    /\ job' = [job EXCEPT !.pc = "build"]
Consumed ==
    /\ MayConsume /\ Confirmed(ConsumeRequest) /\ runs' = runs
    /\ job' = [job EXCEPT !.pc = "tag", !.seen = ConsumeRequest.value, !.ref = head,
                  !.tag = IF job.pc = "staged" THEN job.plan.tag ELSE StableTag(job.plan.tag.base),
                  !.build = IF job.pc = "staged" THEN Run.attempt ELSE job.build]
Tagged ==
    /\ job.pc = "tag" /\ EnsureAbsent(job.tag)
    /\ Confirmed(TagRequest) /\ runs' = runs /\ job' = [job EXCEPT !.pc = "create"]
Drafted ==
    /\ job.pc = "create"
    /\ Confirmed(DraftRequest) /\ runs' = runs
    /\ job' = [job EXCEPT !.pc = "upload", !.release = Len(releases) + 1]
Published ==
    /\ job.pc = "publish"
    /\ Confirmed(PublishRequest)
    /\ \/ job' = Idle
       \/ job' = [job EXCEPT !.pc = "evidence"] /\ runs' = runs /\ Run.channel # "stable"

\* The prepare job, case by case.
LEMMA PrepareCases ==
    ASSUME TypeInv, JobInv, PrepareJob
    PROVE  Elsewhere \/ Inside \/ AllocatePlan \/ Lost \/ Branched \/ ReservedNow
<1>0. Idle.pc \in Before \ {"allocate"}
  BY DEF Idle, Before
<1>1. CASE ClosedPushCycle
  BY <1>0, <1>1 DEF ClosedPushCycle, Inside, Conclude
<1>2. CASE ReusePlan
  <2>1. job' = [job EXCEPT !.pc = "build", !.plan = ledger.plans[job.run]]
        /\ UNCHANGED <<head, github, evidence, wire>>
    BY <1>2 DEF ReusePlan, Passed
  <2> QED BY <2>1 DEF Inside, TypeInv, JobRec, Before
<1>3. CASE CreateStateBranch
  <2>1. job.pc = "allocate"
    BY <1>3 DEF CreateStateBranch
  <2>2. \/ Confirmed(BranchRequest) /\ UNCHANGED <<runs, job>>
        \/ Conclude("failure") /\ UNCHANGED <<head, github, evidence, wire, faults>>
        \/ Unanswered(BranchRequest) /\ Conclude("failure")
    BY <1>3 DEF CreateStateBranch, Request, BranchRequest
  <2>3. CASE Confirmed(BranchRequest) /\ UNCHANGED <<runs, job>>
    BY <2>1, <2>3 DEF Branched
  <2>4. CASE Conclude("failure") /\ UNCHANGED <<head, github, evidence, wire, faults>>
    BY <1>0, <2>4 DEF Inside, Conclude
  <2>5. CASE Unanswered(BranchRequest) /\ Conclude("failure")
    BY <2>1, <2>5 DEF Lost, Sends, Conclude
  <2> QED BY <2>2, <2>3, <2>4, <2>5
<1>4. CASE WriteReservation
  <2>1. job.pc = "allocate"
    BY <1>4 DEF WriteReservation
  <2>2. \/ Confirmed(ReservationRequest) /\ Passed("prepare", "build", job.plan)
        \/ Conclude("failure") /\ UNCHANGED <<head, github, evidence, wire, faults>>
        \/ Unanswered(ReservationRequest) /\ Conclude("failure")
    BY <1>4 DEF WriteReservation, Request, ReservationRequest
  <2>3. CASE Confirmed(ReservationRequest) /\ Passed("prepare", "build", job.plan)
    <3>1. job' = [job EXCEPT !.pc = "build"]
      BY <2>3 DEF Passed, TypeInv, JobRec
    <3> QED BY <2>1, <2>3, <3>1 DEF ReservedNow
  <2>4. CASE Conclude("failure") /\ UNCHANGED <<head, github, evidence, wire, faults>>
    BY <1>0, <2>4 DEF Inside, Conclude
  <2>5. CASE Unanswered(ReservationRequest) /\ Conclude("failure")
    BY <2>1, <2>5 DEF Lost, Sends, Conclude
  <2> QED BY <2>2, <2>3, <2>4, <2>5
<1>5. CASE StagePackages
  BY <1>5 DEF StagePackages, Elsewhere
<1>6. CASE Campaign
  BY <1>6 DEF Campaign, Elsewhere
<1>7. CASE PassGate
  <2>1. job' = [job EXCEPT !.pc = "candidate", !.plan = job.plan]
        /\ UNCHANGED <<head, github, evidence, wire>>
    BY <1>7 DEF PassGate, Passed
  <2> QED BY <2>1 DEF Inside, TypeInv, JobRec, Before
<1>8. CASE PreparePromotion
  <2>1. job' = [job EXCEPT !.pc = "approved", !.plan = NoPlan]
        /\ UNCHANGED <<head, github, evidence, wire>>
    BY <1>8 DEF PreparePromotion, Passed
  <2> QED BY <2>1 DEF Inside, TypeInv, JobRec, Before
<1> QED BY <1>1, <1>2, <1>3, <1>4, <1>5, <1>6, <1>7, <1>8 DEF PrepareJob

\* The publishing jobs, case by case.
LEMMA PublishCases ==
    ASSUME TypeInv, JobInv, PublishJob
    PROVE  \/ Ended \/ Lost \/ Reconciles \/ Consumed \/ Tagged \/ Drafted \/ Published
           \/ CheckCandidate \/ VerifyPromotion \/ ReconcileCreatedRelease \/ Upload
           \/ VerifyUploads \/ StoreEvidence
<1>1. CASE SupersededCandidate
  BY <1>1 DEF SupersededCandidate, Ended, Conclude
<1>2. CASE ScheduledReuse
  BY <1>2 DEF ScheduledReuse, Ended, Conclude
<1>3. ASSUME MayConsume, NEW tag, NEW build, Consume(tag, build),
             tag = (IF job.pc = "staged" THEN job.plan.tag ELSE StableTag(job.plan.tag.base)),
             build = (IF job.pc = "staged" THEN Run.attempt ELSE job.build)
      PROVE  Ended \/ Lost \/ Consumed
  <2> DEFINE value == [ledger EXCEPT !.floor = job.plan.number]
  <2>1. \/ /\ Confirmed(ConsumeRequest) /\ runs' = runs
           /\ job' = [job EXCEPT !.pc = "tag", !.tag = tag, !.build = build,
                                 !.seen = value, !.ref = head]
        \/ Conclude("failure") /\ UNCHANGED <<head, github, evidence, wire, faults>>
        \/ Unanswered(ConsumeRequest) /\ Conclude("failure")
    BY <1>3 DEF Consume, Request, ConsumeRequest
  <2>2. ConsumeRequest.value = value
    BY DEF ConsumeRequest
  <2> HIDE DEF value
  <2>3. CASE /\ Confirmed(ConsumeRequest) /\ runs' = runs
             /\ job' = [job EXCEPT !.pc = "tag", !.tag = tag, !.build = build,
                                   !.seen = value, !.ref = head]
    <3>1. job' = [job EXCEPT !.pc = "tag", !.seen = value, !.ref = head, !.tag = tag, !.build = build]
      BY <2>3 DEF TypeInv, JobRec
    <3> QED BY <1>3, <2>2, <2>3, <3>1 DEF Consumed
  <2>4. CASE Conclude("failure") /\ UNCHANGED <<head, github, evidence, wire, faults>>
    BY <2>4 DEF Ended, Conclude
  <2>5. CASE Unanswered(ConsumeRequest) /\ Conclude("failure")
    BY <1>3, <2>5 DEF Lost, Sends, Conclude
  <2> QED BY <2>1, <2>3, <2>4, <2>5
<1>4. CASE BeginPublication
  <2>1. MayConsume /\ Consume(job.plan.tag, Run.attempt) /\ job.pc = "staged"
    BY <1>4 DEF BeginPublication, MayConsume
  <2> QED BY <1>3, <2>1
<1>5. CASE BeginPromotion
  <2>1. MayConsume /\ Consume(StableTag(job.plan.tag.base), job.build) /\ job.pc # "staged"
    BY <1>5 DEF BeginPromotion, MayConsume
  <2> QED BY <1>3, <2>1
<1>6. CASE CreateTag
  <2>1. job.pc = "tag" /\ EnsureAbsent(job.tag)
    BY <1>6 DEF CreateTag
  <2>2. \/ Confirmed(TagRequest) /\ Goto("create")
        \/ Conclude("failure") /\ UNCHANGED <<head, github, evidence, wire, faults>>
        \/ Unanswered(TagRequest) /\ Conclude("failure")
    BY <1>6 DEF CreateTag, Request, TagRequest
  <2>3. CASE Confirmed(TagRequest) /\ Goto("create")
    BY <2>1, <2>3 DEF Tagged, Goto
  <2>4. CASE Conclude("failure") /\ UNCHANGED <<head, github, evidence, wire, faults>>
    BY <2>4 DEF Ended, Conclude
  <2>5. CASE Unanswered(TagRequest) /\ Conclude("failure")
    BY <2>1, <2>5 DEF Lost, Sends, Conclude
  <2> QED BY <2>2, <2>3, <2>4, <2>5
<1>7. CASE CreateDraft
  <2>1. job.pc = "create"
    BY <1>7 DEF CreateDraft
  <2>2. \/ /\ Confirmed(DraftRequest) /\ runs' = runs
           /\ job' = [job EXCEPT !.pc = "upload", !.release = Len(releases) + 1]
        \/ Unanswered(DraftRequest) /\ Conclude("failure")
        \/ Unanswered(DraftRequest) /\ Run.channel # "stable" /\ Goto("reconcile")
    BY <1>7 DEF CreateDraft, DraftRequest
  <2>3. CASE Unanswered(DraftRequest) /\ Conclude("failure")
    BY <2>1, <2>3 DEF Lost, Sends, Conclude
  <2>4. CASE Unanswered(DraftRequest) /\ Run.channel # "stable" /\ Goto("reconcile")
    BY <2>1, <2>4 DEF Reconciles, Goto
  <2> QED BY <2>1, <2>2, <2>3, <2>4 DEF Drafted
<1>8. CASE Publish
  <2>1. job.pc = "publish"
    BY <1>8 DEF Publish
  <2>2. \/ /\ Confirmed(PublishRequest)
           /\ IF Run.channel = "stable" THEN Conclude("success") ELSE Goto("evidence")
        \/ Conclude("failure") /\ UNCHANGED <<head, github, evidence, wire, faults>>
        \/ Unanswered(PublishRequest) /\ Conclude("failure")
    BY <1>8 DEF Publish, Request, PublishRequest
  <2>3. CASE /\ Confirmed(PublishRequest)
             /\ IF Run.channel = "stable" THEN Conclude("success") ELSE Goto("evidence")
    BY <2>1, <2>3 DEF Published, Goto, Conclude
  <2>4. CASE Conclude("failure") /\ UNCHANGED <<head, github, evidence, wire, faults>>
    BY <2>4 DEF Ended, Conclude
  <2>5. CASE Unanswered(PublishRequest) /\ Conclude("failure")
    BY <2>1, <2>5 DEF Lost, Sends, Conclude
  <2> QED BY <2>2, <2>3, <2>4, <2>5
<1> QED BY <1>1, <1>2, <1>4, <1>5, <1>6, <1>7, <1>8 DEF PublishJob

\* The environment, case by case.
LEMMA EnvironmentCases ==
    ASSUME TypeInv, JobInv, Environment
    PROVE  Elsewhere \/ Inside \/ \E w \in wire : Land(w)
<1>1. CASE Push
  BY <1>1 DEF Push, NewRun, Elsewhere
<1>2. CASE Schedule
  BY <1>2 DEF Schedule, NewRun, Elsewhere
<1>3. ASSUME NEW channel, NEW candidate, Dispatch(channel, candidate) PROVE Elsewhere
  BY <1>3 DEF Dispatch, NewRun, Elsewhere
<1>4. ASSUME NEW r \in DOMAIN runs, Rerun(r) PROVE Elsewhere
  BY <1>4 DEF Rerun, Elsewhere
<1>5. ASSUME NEW r \in DOMAIN runs, Start(r) PROVE Inside
  <2>1. First(r) \in Before \ {"allocate"}
    BY RunFields DEF First, Before, Jobs
  <2>2. job'.pc = First(r) /\ UNCHANGED <<head, github, evidence, wire>>
    BY <1>5 DEF Start, Idle
  <2> QED BY <2>1, <2>2 DEF Inside
<1>6. CASE Abandon
  BY <1>6 DEF Abandon, Conclude, Inside, Idle, Before
<1> QED BY <1>1, <1>2, <1>3, <1>4, <1>5, <1>6 DEF Environment

-----------------------------------------------------------------------------
(* Where an attempt can be.                                                 *)

\* Where the attempt may be in view of its channel.
Fits(pc, channel) ==
    /\ pc \in {"allocate", "build", "candidate", "staged", "reconcile", "evidence"} => channel # "stable"
    /\ pc \in {"approved", "promote"} => channel = "stable"

\* An attempt that moves on is where its channel may be.
LEMMA JobMoved ==
    ASSUME TypeInv, Grows, job.run \in DOMAIN runs, job'.run = job.run,
           Fits(job'.pc, Run.channel), job'.pc = "allocate" => job'.plan \in Plan
    PROVE  JobInv'
<1>1. job.run \in DOMAIN runs' /\ runs'[job.run].channel = runs[job.run].channel
  BY DEF Grows, RunsGrow
<1> QED BY <1>1 DEF JobInv, Fits, Run

\* JobInv is inductive.
LEMMA JobPreserved ==
    ASSUME TypeInv, JobInv, \A o \in Reserved : Suits(o, ledger.plans[o]), Next, Grows
    PROVE  JobInv'
<1>1. ASSUME job' = Idle PROVE JobInv'
  BY <1>1 DEF Idle, JobInv
<1>2. ASSUME job' = job PROVE JobInv'
  <2>1. CASE job.pc = "idle"
    BY <1>2, <2>1 DEF JobInv
  <2>2. CASE job.pc # "idle"
    <3>1. Fits(job'.pc, Run.channel) /\ (job'.pc = "allocate" => job'.plan \in Plan)
      BY <1>2, <2>2 DEF JobInv, Fits
    <3> QED BY <1>2, <2>2, <3>1, JobMoved DEF JobInv
  <2> QED BY <2>1, <2>2
<1>3. ASSUME NEW pc \in PC, NEW plan, job.pc # "idle", Fits(pc, Run.channel), pc # "allocate",
             job'.run = job.run, job'.pc = pc
      PROVE  JobInv'
  BY <1>3, JobMoved DEF JobInv
<1>4. \A pc, plan : [job EXCEPT !.pc = pc].run = job.run /\ [job EXCEPT !.pc = pc].pc = pc
         /\ [job EXCEPT !.pc = pc, !.plan = plan].run = job.run
         /\ [job EXCEPT !.pc = pc, !.plan = plan].pc = pc
  BY DEF TypeInv, JobRec
<1>5. CASE PrepareJob
  <2>1. CASE AllocatePlan
    <3>1. /\ job.run \in DOMAIN runs /\ job.run \notin Reserved /\ Run.channel # "stable"
          /\ job' = [job EXCEPT !.pc = "allocate", !.plan = CreatePlan(job.run), !.seen = ledger]
      BY <2>1 DEF AllocatePlan, JobInv
    <3>2. CreatePlan(job.run) \in Plan
      BY <3>1, PlanCreated DEF Run
    <3>3. job'.run = job.run /\ job'.pc = "allocate" /\ job'.plan = CreatePlan(job.run)
      BY <3>1 DEF TypeInv, JobRec
    <3> QED BY <3>1, <3>2, <3>3, JobMoved DEF Fits
  <2>2. CASE ClosedPushCycle
    BY <1>1, <2>2 DEF ClosedPushCycle, Conclude
  <2>3. CASE ReusePlan
    <3>1. /\ job.pc = "prepare" /\ Run.channel # "stable"
          /\ job' = [job EXCEPT !.pc = "build", !.plan = ledger.plans[job.run]]
      BY <2>3 DEF ReusePlan, Passed
    <3> QED BY <1>3, <1>4, <3>1 DEF Fits, PC, Before
  <2>4. CASE CreateStateBranch
    BY <1>1, <1>2, <2>4 DEF CreateStateBranch, Request, Conclude
  <2>5. CASE WriteReservation
    <3>1. job.pc = "allocate" /\ Run.channel # "stable"
      BY <2>5 DEF WriteReservation, JobInv
    <3>2. job' = Idle \/ job' = [job EXCEPT !.pc = "build", !.plan = job.plan]
      BY <2>5 DEF WriteReservation, Request, Conclude, Passed
    <3>3. "build" \in PC /\ job.pc # "idle" /\ Fits("build", Run.channel)
      BY <3>1 DEF PC, Before, Fits
    <3>4. ASSUME job' = [job EXCEPT !.pc = "build", !.plan = job.plan] PROVE JobInv'
      BY <1>3, <1>4, <3>3, <3>4
    <3> QED BY <1>1, <3>2, <3>4
  <2>6. CASE StagePackages \/ Campaign
    BY <1>2, <2>6 DEF StagePackages, Campaign
  <2>7. CASE PassGate
    <3>1. job.pc = "build" /\ Run.channel # "stable" /\ job' = [job EXCEPT !.pc = "candidate", !.plan = job.plan]
      BY <2>7 DEF PassGate, Passed, JobInv
    <3> QED BY <1>3, <1>4, <3>1 DEF Fits, PC, Before
  <2>8. CASE PreparePromotion
    <3>1. job.pc = "prepare" /\ Run.channel = "stable" /\ job' = [job EXCEPT !.pc = "approved", !.plan = NoPlan]
      BY <2>8 DEF PreparePromotion, Passed
    <3> QED BY <1>3, <1>4, <3>1 DEF Fits, PC, Before
  <2> QED BY <1>5, <2>1, <2>2, <2>3, <2>4, <2>5, <2>6, <2>7, <2>8 DEF PrepareJob
<1>6. CASE PublishJob
  <2>1. CASE CheckCandidate
    <3>1. job.pc = "candidate" /\ Run.channel # "stable" /\ job' = [job EXCEPT !.pc = "staged"]
      BY <2>1 DEF CheckCandidate, Goto, JobInv
    <3> QED BY <1>3, <1>4, <3>1 DEF Fits, PC
  <2>2. CASE VerifyPromotion
    <3>1. /\ job.pc = "approved" /\ Run.channel = "stable"
          /\ job' = [job EXCEPT !.pc = "promote", !.plan = Candidate.plan, !.build = Candidate.attempt]
      BY <2>2 DEF VerifyPromotion, JobInv
    <3>2. job'.pc = "promote" /\ job'.run = job.run
      BY <3>1 DEF TypeInv, JobRec
    <3> QED BY <1>3, <3>1, <3>2 DEF Fits, PC
  <2>3. CASE ReconcileCreatedRelease
    <3>1. PICK i : job.pc = "reconcile" /\ job' = [job EXCEPT !.pc = "upload", !.release = i]
      BY <2>3 DEF ReconcileCreatedRelease
    <3>2. job'.pc = "upload" /\ job'.run = job.run
      BY <3>1 DEF TypeInv, JobRec
    <3> QED BY <1>3, <3>1, <3>2 DEF Fits, PC, Late
  <2>4. CASE Upload
    <3>1. job.pc = "upload" /\ (job' = job \/ job' = [job EXCEPT !.pc = "verify"])
      BY <2>4 DEF Upload, Goto
    <3>2. "verify" \in PC /\ job.pc # "idle" /\ Fits("verify", Run.channel)
      BY <3>1 DEF PC, Late, Fits
    <3>3. ASSUME job' = [job EXCEPT !.pc = "verify"] PROVE JobInv'
      BY <1>3, <1>4, <3>2, <3>3
    <3> QED BY <1>2, <3>1, <3>3
  <2>5. CASE VerifyUploads
    <3>1. job.pc = "verify" /\ job' = [job EXCEPT !.pc = "publish"]
      BY <2>5 DEF VerifyUploads, Goto
    <3> QED BY <1>3, <1>4, <3>1 DEF Fits, PC, Late
  <2>6. CASE StoreEvidence \/ Lost
    BY <1>1, <2>6 DEF StoreEvidence, Conclude, Lost
  <2>7. CASE Reconciles
    BY <1>3, <1>4, <2>7 DEF Reconciles, Fits, PC, Late
  <2>8. CASE Consumed
    <3>1. job.pc # "idle" /\ job'.pc = "tag" /\ job'.run = job.run
      BY <2>8 DEF Consumed, MayConsume, TypeInv, JobRec
    <3> QED BY <1>3, <3>1 DEF Fits, PC, Late
  <2>9. CASE Tagged
    BY <1>3, <1>4, <2>9 DEF Tagged, Fits, PC, Late
  <2>10. CASE Drafted
    <3>1. job.pc # "idle" /\ job'.pc = "upload" /\ job'.run = job.run
      BY <2>10 DEF Drafted, TypeInv, JobRec
    <3> QED BY <1>3, <3>1 DEF Fits, PC, Late
  <2>11. CASE Published
    <3>1. CASE job' = [job EXCEPT !.pc = "evidence"] /\ Run.channel # "stable"
      <4>1. "evidence" \in PC /\ job.pc # "idle" /\ Fits("evidence", Run.channel)
        BY <2>11, <3>1 DEF PC, Published, Fits
      <4> QED BY <1>3, <1>4, <3>1, <4>1
    <3> QED BY <1>1, <2>11, <3>1 DEF Published
  <2>12. CASE SupersededCandidate \/ ScheduledReuse
    BY <1>1, <2>12 DEF SupersededCandidate, ScheduledReuse, Conclude
  <2>13. CASE Ended
    BY <1>1, <2>13 DEF Ended
  <2> QED BY <1>6, <2>1, <2>2, <2>3, <2>4, <2>5, <2>6, <2>7, <2>8, <2>9, <2>10, <2>11, <2>12,
             <2>13, PublishCases
<1>7. CASE Environment
  <2>1. ASSUME NEW r \in DOMAIN runs, Start(r) PROVE JobInv'
    <3>1. job'.run = r /\ job'.pc = First(r)
      BY <2>1 DEF Start, Idle
    <3>2. r \in DOMAIN runs' /\ runs'[r].channel = runs[r].channel
      BY DEF Grows, RunsGrow
    <3>3. First(r) \in {"prepare", "approved", "build", "candidate"} /\ Fits(First(r), runs[r].channel)
      BY RunFields DEF First, Fits, Jobs
    <3> QED BY <3>1, <3>2, <3>3 DEF JobInv, Fits, Run
  <2>2. CASE Abandon
    BY <1>1, <2>2 DEF Abandon, Conclude
  <2>3. ASSUME NEW w \in wire, Land(w) PROVE JobInv'
    BY <1>2, <2>3 DEF Land
  <2>4. ASSUME NEW r \in DOMAIN runs, Rerun(r) PROVE JobInv'
    BY <1>2, <2>4 DEF Rerun
  <2>5. CASE Push \/ Schedule
    BY <1>2, <2>5 DEF Push, Schedule, NewRun
  <2>6. ASSUME NEW channel, NEW candidate, Dispatch(channel, candidate) PROVE JobInv'
    BY <1>2, <2>6 DEF Dispatch, NewRun
  <2> QED BY <1>7, <2>1, <2>2, <2>3, <2>4, <2>5, <2>6 DEF Environment
<1> QED BY <1>5, <1>6, <1>7 DEF Next

-----------------------------------------------------------------------------
(* The ledger: compare and swap makes every write that arrives an advance.  *)

\* The ledger with one more plan.
Extended(l, r, plan) ==
    [l EXCEPT !.file = TRUE, !.counter = plan.number,
              !.plans = [o \in DOMAIN l.plans \union {r} |-> IF o = r THEN plan ELSE l.plans[o]]]

\* The two ways a ledger advances.
Reserving(l, k) == \E r \in DOMAIN k.plans : Fresh(l, r, k.plans[r]) /\ k = Extended(l, r, k.plans[r])
Consuming(l, k) ==
    \E r \in DOMAIN l.plans : l.plans[r].number >= l.floor
                              /\ k = [l EXCEPT !.floor = l.plans[r].number]
Advances(l, k) == Reserving(l, k) \/ Consuming(l, k)

\* A request to write the ledger is a step of the abstract ledger.
Sound(w) == w.kind = "ledger" => Advances(w.previous, w.value)

\* Every plan suits its run, has a number of its own up to the counter, and a tag
\* of its own.
Registered(l) ==
    /\ \A r \in DOMAIN l.plans : Suits(r, l.plans[r]) /\ l.plans[r].number <= l.counter
    /\ \A r, o \in DOMAIN l.plans : r # o => /\ l.plans[r].number # l.plans[o].number
                                             /\ l.plans[r].tag # l.plans[o].tag
    /\ l.floor <= l.counter

\* The ledger is registered, and every request to write it advances what it replaces.
LedgerInv ==
    /\ Registered(ledger)
    /\ job.pc = "allocate" => Fresh(job.seen, job.run, job.plan)
    /\ \A w \in wire : Sound(w)

\* What a step does to the ledger.
LedgerStep == ledger' = ledger \/ Advances(ledger, ledger')

\* No plan is lost or changed.
PlansKept == \A r \in Reserved : r \in DOMAIN ledger'.plans /\ ledger'.plans[r] = ledger.plans[r]

\* The fields of a ledger with one more plan.
LEMMA ExtendedFields ==
    ASSUME NEW l \in LedgerRec, NEW r, NEW plan
    PROVE  /\ DOMAIN Extended(l, r, plan).plans = DOMAIN l.plans \cup {r}
           /\ Extended(l, r, plan).plans[r] = plan
           /\ \A o \in DOMAIN l.plans : o # r => Extended(l, r, plan).plans[o] = l.plans[o]
           /\ Extended(l, r, plan).counter = plan.number
           /\ Extended(l, r, plan).floor = l.floor
<1> DEFINE plans == [o \in DOMAIN l.plans \union {r} |-> IF o = r THEN plan ELSE l.plans[o]]
<1>1. /\ Extended(l, r, plan).plans = plans /\ Extended(l, r, plan).counter = plan.number
      /\ Extended(l, r, plan).floor = l.floor
  BY DEF Extended, LedgerRec
<1> QED BY <1>1

\* A plan that suits its run goes on suiting it.
LEMMA SuitsKept ==
    ASSUME TypeInv, TypeInv', Grows, NEW r, NEW plan, Suits(r, plan)
    PROVE  Suits(r, plan)'
<1>1. /\ r \in DOMAIN runs /\ r \in DOMAIN runs' /\ runs'[r].channel = runs[r].channel
      /\ runs'[r].source = runs[r].source /\ runs'[r].attempt >= runs[r].attempt
      /\ runs[r].attempt \in Nat /\ runs'[r].attempt \in Nat
  <2>1. r \in DOMAIN runs /\ r \in DOMAIN runs'
    BY DEF Suits, Grows, RunsGrow
  <2>2. runs[r] \in RunRec /\ runs'[r] \in RunRec
    BY <2>1 DEF TypeInv
  <2>3. runs[r].attempt \in Nat /\ runs'[r].attempt \in Nat
    BY <2>2 DEF RunRec
  <2> QED BY <2>1, <2>3 DEF Grows, RunsGrow
<1>2. \A a \in 0..runs[r].attempt - 1 : a \in 0..runs'[r].attempt - 1
  BY <1>1
<1> QED BY <1>1, <1>2 DEF Suits

\* A new plan stays new while the ledger is the one that was read.
LEMMA FreshKept ==
    ASSUME TypeInv, TypeInv', Grows, NEW l, NEW r, NEW plan, Fresh(l, r, plan)
    PROVE  /\ r \notin DOMAIN l.plans
           /\ plan.number > l.counter
           /\ \A o \in DOMAIN l.plans : l.plans[o].tag # plan.tag
           /\ Suits(r, plan)'
BY SuitsKept DEF Fresh

\* A sound request stays sound.
LEMMA SoundKept ==
    ASSUME TypeInv, TypeInv', Grows, NEW w, Sound(w)
    PROVE  Sound(w)'
<1>1. CASE w.kind # "ledger"
  BY <1>1 DEF Sound
<1>2. CASE w.kind = "ledger" /\ Reserving(w.previous, w.value)
  <2>1. PICK r \in DOMAIN w.value.plans :
           /\ Fresh(w.previous, r, w.value.plans[r])
           /\ w.value = Extended(w.previous, r, w.value.plans[r])
    BY <1>2 DEF Reserving
  <2>2. Fresh(w.previous, r, w.value.plans[r])'
    BY <2>1, FreshKept DEF Fresh
  <2> QED BY <2>1, <2>2 DEF Sound, Advances, Reserving
<1>3. CASE w.kind = "ledger" /\ Consuming(w.previous, w.value)
  BY <1>3 DEF Sound, Advances, Consuming
<1> QED BY <1>1, <1>2, <1>3 DEF Sound, Advances

\* An advance of a registered ledger is registered, and keeps every plan.
LEMMA RegisteredKept ==
    ASSUME TypeInv, TypeInv', Grows, Registered(ledger), LedgerStep
    PROVE  Registered(ledger)' /\ PlansKept
<1>0. /\ ledger \in LedgerRec /\ ledger' \in LedgerRec
      /\ ledger.counter \in Nat /\ ledger.floor \in Nat
      /\ \A r \in DOMAIN ledger.plans : ledger.plans[r].number \in Nat
  <2>1. ledger \in LedgerRec /\ ledger' \in LedgerRec
    BY DEF TypeInv
  <2>2. \A r \in DOMAIN ledger.plans : ledger.plans[r] \in Plan
    BY <2>1, LedgerFields
  <2> QED BY <2>1, <2>2, LedgerFields DEF Plan
<1>1. \A r \in DOMAIN ledger.plans : Suits(r, ledger.plans[r])
  BY DEF Registered
<1>2. ASSUME NEW r \in DOMAIN ledger.plans, NEW plan, plan = ledger.plans[r] PROVE Suits(r, plan)'
  <2>1. Suits(r, plan)
    BY <1>1, <1>2
  <2> QED BY <2>1, SuitsKept
<1>3. ASSUME ledger'.plans = ledger.plans, ledger'.counter = ledger.counter,
             ledger'.floor <= ledger.counter
      PROVE  Registered(ledger)' /\ PlansKept
  <2>1. \A r \in DOMAIN ledger'.plans : Suits(r, ledger.plans[r])' /\ ledger'.plans[r].number <= ledger'.counter
    BY <1>2, <1>3 DEF Registered
  <2> QED BY <1>0, <1>3, <2>1 DEF Registered, PlansKept, Reserved
<1>4. CASE ledger' = ledger
  BY <1>3, <1>4 DEF Registered
<1>5. CASE Reserving(ledger, ledger')
  <2>1. PICK r \in DOMAIN ledger'.plans :
           Fresh(ledger, r, ledger'.plans[r]) /\ ledger' = Extended(ledger, r, ledger'.plans[r])
    BY <1>5 DEF Reserving
  <2>8. PICK plan : plan = ledger'.plans[r]
    OBVIOUS
  <2>2. /\ Fresh(ledger, r, plan) /\ ledger' = Extended(ledger, r, plan)
    BY <2>1, <2>8
  <2>3. /\ DOMAIN ledger'.plans = DOMAIN ledger.plans \cup {r}
        /\ \A o \in DOMAIN ledger.plans : o # r => ledger'.plans[o] = ledger.plans[o]
        /\ ledger'.counter = plan.number
        /\ ledger'.floor = ledger.floor
    BY <1>0, <2>2, ExtendedFields
  <2>4. /\ r \notin DOMAIN ledger.plans /\ plan.number > ledger.counter
        /\ \A o \in DOMAIN ledger.plans : ledger.plans[o].tag # plan.tag
        /\ Suits(r, plan)'
    BY <2>2, FreshKept
  <2>5. plan.number \in Nat
    <3>1. plan \in Plan
      BY <1>0, <2>8, LedgerFields
    <3> QED BY <3>1 DEF Plan
  <2>6. \A o \in DOMAIN ledger.plans : ledger.plans[o].number < plan.number
    BY <1>0, <2>4, <2>5 DEF Registered
  <2>7. \A o \in DOMAIN ledger'.plans : Suits(o, ledger.plans[o])' /\ ledger'.plans[o].number <= ledger'.counter
    <3>1. ASSUME NEW o \in DOMAIN ledger.plans
          PROVE  Suits(o, ledger.plans[o])' /\ ledger'.plans[o].number <= ledger'.counter
      <4>1. ledger'.plans[o] = ledger.plans[o]
        BY <2>3, <2>4
      <4>2. Suits(o, ledger.plans[o])'
        BY <1>2, <4>1
      <4> QED BY <1>0, <2>3, <2>5, <2>6, <4>1, <4>2
    <3>2. Suits(r, ledger.plans[r])' /\ ledger'.plans[r].number <= ledger'.counter
      <4>1. Suits(r, ledger.plans[r])'
        BY <2>4, <2>8
      <4> QED BY <2>3, <2>5, <2>8, <4>1
    <3> QED BY <2>3, <3>1, <3>2
  <2>9. ledger'.floor <= ledger'.counter
    BY <1>0, <2>3, <2>4, <2>5 DEF Registered
  <2>10. \A p, o \in DOMAIN ledger'.plans : p # o => /\ ledger'.plans[p].number # ledger'.plans[o].number
                                                     /\ ledger'.plans[p].tag # ledger'.plans[o].tag
    <3>1. ASSUME NEW o \in DOMAIN ledger.plans
          PROVE  ledger'.plans[o].number # plan.number /\ ledger'.plans[o].tag # plan.tag
      BY <1>0, <2>3, <2>4, <2>5, <2>6
    <3>2. ASSUME NEW p \in DOMAIN ledger.plans, NEW o \in DOMAIN ledger.plans, p # o
          PROVE  /\ ledger'.plans[p].number # ledger'.plans[o].number
                 /\ ledger'.plans[p].tag # ledger'.plans[o].tag
      <4>1. ledger'.plans[p] = ledger.plans[p] /\ ledger'.plans[o] = ledger.plans[o]
        BY <2>3, <2>4
      <4> QED BY <3>2, <4>1 DEF Registered
    <3> QED BY <2>3, <2>8, <3>1, <3>2
  <2>11. PlansKept
    BY <2>3, <2>4 DEF PlansKept, Reserved
  <2> QED BY <2>7, <2>9, <2>10, <2>11 DEF Registered
<1>6. CASE Consuming(ledger, ledger')
  <2>1. PICK r \in DOMAIN ledger.plans : ledger' = [ledger EXCEPT !.floor = ledger.plans[r].number]
    BY <1>6 DEF Consuming
  <2>2. /\ ledger'.plans = ledger.plans /\ ledger'.counter = ledger.counter
        /\ ledger'.floor = ledger.plans[r].number
    BY <1>0, <2>1 DEF LedgerRec
  <2>3. ledger.plans[r].number <= ledger.counter
    BY <2>1 DEF Registered
  <2> QED BY <1>3, <2>2, <2>3
<1> QED BY <1>4, <1>5, <1>6 DEF LedgerStep, Advances

\* What is new on the wire has just been sent.
WireStep == \A w \in wire' : w \in wire \/ Sends(w)

\* A promotion in order promotes a plan that is reserved.
LEMMA OrderedIsReserved ==
    ASSUME NEW plan, VerifyPromotionOrder(plan)
    PROVE  \E r \in Reserved : ledger.plans[r] = plan /\ plan.number >= ledger.floor
<1>1. Cardinality({r \in Reserved : ledger.plans[r] = plan}) = 1 /\ plan.number >= ledger.floor
  BY DEF VerifyPromotionOrder
<1>2. {r \in Reserved : ledger.plans[r] = plan} # {}
  BY <1>1, FS_EmptySet
<1> QED BY <1>1, <1>2

\* What an attempt sends is sound.
LEMMA SentSound ==
    ASSUME TypeInv, JobInv, LedgerInv, NEW w, Sends(w)
    PROVE  Sound(w)
<1>1. CASE job.pc = "allocate" /\ w = BranchRequest
  BY <1>1 DEF Sound, BranchRequest
<1>2. CASE job.pc = "allocate" /\ w = ReservationRequest
  <2>1. w.previous = job.seen /\ w.value = Extended(job.seen, job.run, job.plan)
    BY <1>2 DEF ReservationRequest, Extended
  <2>2. Fresh(job.seen, job.run, job.plan) /\ job.seen \in LedgerRec
    BY <1>2, JobFields DEF LedgerInv
  <2>3. job.run \in DOMAIN w.value.plans /\ w.value.plans[job.run] = job.plan
    BY <2>1, <2>2, ExtendedFields
  <2> QED BY <2>1, <2>2, <2>3 DEF Sound, Advances, Reserving
<1>3. CASE MayConsume /\ w = ConsumeRequest
  <2>1. w.previous = ledger /\ w.value = [ledger EXCEPT !.floor = job.plan.number]
    BY <1>3 DEF ConsumeRequest
  <2>2. ASSUME VerifyReservation(job.run, job.plan)
        PROVE  \E r \in Reserved : ledger.plans[r] = job.plan /\ job.plan.number >= ledger.floor
    <3>1. job.plan.number > ledger.floor /\ ledger.floor \in Nat /\ job.plan.number \in Nat
      BY <2>2, JobFields, LedgerFields DEF VerifyReservation, TypeInv
    <3> QED BY <2>2, <3>1 DEF VerifyReservation
  <2>3. \E r \in Reserved : ledger.plans[r] = job.plan /\ job.plan.number >= ledger.floor
    BY <1>3, <2>2, OrderedIsReserved DEF MayConsume
  <2> QED BY <2>1, <2>3 DEF Sound, Advances, Consuming, Reserved
<1>4. CASE w \in {TagRequest, DraftRequest, PublishRequest}
  BY <1>4 DEF Sound, TagRequest, DraftRequest, PublishRequest
<1> QED BY <1>1, <1>2, <1>3, <1>4 DEF Sends

\* A request GitHub accepts leaves the ledger as it was, or advances it.
LEMMA AppliedLedger ==
    ASSUME NEW w, Sound(w), Accepts(w), Apply(w)
    PROVE  LedgerStep
<1>1. CASE w.kind = "ledger"
  <2>1. ledger = w.previous /\ ledger' = w.value
    BY <1>1 DEF Accepts, Apply
  <2>2. Advances(w.previous, w.value)
    BY <1>1 DEF Sound
  <2>3. Advances(ledger, ledger')
    BY <2>1, <2>2 DEF Advances, Reserving, Consuming
  <2> QED BY <2>3 DEF LedgerStep
<1>2. CASE w.kind # "ledger"
  BY <1>2 DEF Apply, LedgerStep
<1> QED BY <1>1, <1>2

\* A confirmed request leaves the ledger as it was, or advances it.
LEMMA ConfirmedLedger ==
    ASSUME TypeInv, JobInv, LedgerInv, NEW w, Sends(w), Confirmed(w)
    PROVE  LedgerStep /\ WireStep
BY SentSound, AppliedLedger DEF Confirmed, WireStep

\* A lost request leaves the ledger as it was.
LEMMA UnansweredLedger ==
    ASSUME NEW w, Sends(w), Unanswered(w)
    PROVE  LedgerStep /\ WireStep
BY DEF Unanswered, github, LedgerStep, WireStep

\* Every step leaves the ledger as it was, or advances it.
LEMMA LedgerSteps ==
    ASSUME TypeInv, JobInv, LedgerInv, Next
    PROVE  LedgerStep /\ WireStep /\ (job'.pc = "allocate" => job' = job \/ AllocatePlan)
<1>0. Idle.pc # "allocate"
  BY DEF Idle
<1>1. CASE Elsewhere
  BY <1>1 DEF Elsewhere, github, LedgerStep, WireStep
<1>2. CASE Inside
  BY <1>2 DEF Inside, github, LedgerStep, WireStep
<1>3. CASE AllocatePlan
  BY <1>3 DEF AllocatePlan, github, LedgerStep, WireStep
<1>4. CASE Lost
  BY <1>0, <1>4, UnansweredLedger DEF Lost
<1>5. CASE Branched
  <2>1. Sends(BranchRequest) /\ Confirmed(BranchRequest) /\ job' = job
    BY <1>5 DEF Branched, Sends
  <2> QED BY <2>1, ConfirmedLedger
<1>6. CASE ReservedNow
  <2>1. Sends(ReservationRequest) /\ Confirmed(ReservationRequest) /\ job'.pc = "build"
    BY <1>6 DEF ReservedNow, Sends, TypeInv, JobRec
  <2> QED BY <2>1, ConfirmedLedger
<1>7. CASE Ended
  BY <1>0, <1>7 DEF Ended, github, LedgerStep, WireStep
<1>8. CASE Reconciles
  <2>1. Sends(DraftRequest) /\ Unanswered(DraftRequest) /\ job'.pc = "reconcile"
    BY <1>8 DEF Reconciles, Sends, TypeInv, JobRec
  <2> QED BY <2>1, UnansweredLedger
<1>9. CASE Consumed
  <2>1. Sends(ConsumeRequest) /\ Confirmed(ConsumeRequest) /\ job'.pc = "tag"
    BY <1>9 DEF Consumed, Sends, TypeInv, JobRec
  <2> QED BY <2>1, ConfirmedLedger
<1>10. CASE Tagged
  <2>1. Sends(TagRequest) /\ Confirmed(TagRequest) /\ job'.pc = "create"
    BY <1>10 DEF Tagged, Sends, TypeInv, JobRec
  <2> QED BY <2>1, ConfirmedLedger
<1>11. CASE Drafted
  <2>1. Sends(DraftRequest) /\ Confirmed(DraftRequest) /\ job'.pc = "upload"
    BY <1>11 DEF Drafted, Sends, TypeInv, JobRec
  <2> QED BY <2>1, ConfirmedLedger
<1>12. CASE Published
  <2>1. Sends(PublishRequest) /\ Confirmed(PublishRequest) /\ job'.pc # "allocate"
    BY <1>0, <1>12 DEF Published, Sends, TypeInv, JobRec
  <2> QED BY <2>1, ConfirmedLedger
<1>13. CASE CheckCandidate \/ VerifyPromotion \/ VerifyUploads \/ StoreEvidence
  <2>1. UNCHANGED <<ledger, wire>> /\ job'.pc # "allocate"
    BY <1>0, <1>13 DEF CheckCandidate, VerifyPromotion, VerifyUploads, StoreEvidence, Goto, Conclude,
                      github, TypeInv, JobRec
  <2> QED BY <2>1 DEF LedgerStep, WireStep
<1>14. CASE ReconcileCreatedRelease
  <2>1. UNCHANGED <<ledger, wire>> /\ job'.pc # "allocate"
    BY <1>14 DEF ReconcileCreatedRelease, github, TypeInv, JobRec
  <2> QED BY <2>1 DEF LedgerStep, WireStep
<1>15. CASE Upload
  <2>1. UNCHANGED <<ledger, wire>> /\ job'.pc # "allocate"
    BY <1>15 DEF Upload, Goto, TypeInv, JobRec
  <2> QED BY <2>1 DEF LedgerStep, WireStep
<1>16. ASSUME NEW w \in wire, Land(w) PROVE LedgerStep /\ WireStep /\ job' = job
  <2>1. /\ (Accepts(w) /\ Apply(w)) \/ UNCHANGED github
        /\ wire' \subseteq wire /\ job' = job
    BY <1>16 DEF Land
  <2>2. Sound(w)
    BY DEF LedgerInv
  <2>3. LedgerStep
    BY <2>1, <2>2, AppliedLedger DEF github, LedgerStep
  <2> QED BY <2>1, <2>3 DEF WireStep
<1>17. CASE Environment
  BY <1>1, <1>2, <1>16, <1>17, EnvironmentCases DEF Inside
<1>18. CASE PrepareJob
  BY <1>1, <1>2, <1>3, <1>4, <1>5, <1>6, <1>18, PrepareCases
<1>19. CASE PublishJob
  BY <1>4, <1>7, <1>8, <1>9, <1>10, <1>11, <1>12, <1>13, <1>14, <1>15, <1>19, PublishCases
<1> QED BY <1>17, <1>18, <1>19 DEF Next

\* LedgerInv is inductive.
LEMMA LedgerPreserved ==
    ASSUME TypeInv, JobInv, LedgerInv, Next, TypeInv', Grows
    PROVE  LedgerInv' /\ LedgerStep /\ PlansKept
<1>1. LedgerStep /\ WireStep /\ (job'.pc = "allocate" => job' = job \/ AllocatePlan)
  BY LedgerSteps
<1>2. Registered(ledger)' /\ PlansKept
  BY <1>1, RegisteredKept DEF LedgerInv
<1>3. \A w \in wire' : Sound(w)'
  <2> SUFFICES ASSUME NEW CONSTANT w, w \in wire' PROVE Sound(w)'
    OBVIOUS
  <2>1. Sound(w)
    BY <1>1, SentSound DEF WireStep, LedgerInv
  <2> QED BY <2>1, SoundKept
<1>4. ASSUME job'.pc = "allocate", job' = job PROVE Fresh(job.seen, job.run, job.plan)'
  <2>1. Fresh(job.seen, job.run, job.plan)
    BY <1>4 DEF LedgerInv
  <2>2. PICK l \in {job.seen}, r \in {job.run}, plan \in {job.plan} : TRUE
    OBVIOUS
  <2>3. Fresh(l, r, plan)
    BY <2>1, <2>2
  <2>4. Fresh(l, r, plan)'
    BY <2>3, FreshKept DEF Fresh
  <2> QED BY <1>4, <2>2, <2>4
<1>5. ASSUME AllocatePlan PROVE Fresh(job.seen, job.run, job.plan)'
  <2>1. /\ job.pc = "prepare" /\ Run.channel # "stable" /\ job.run \notin Reserved
        /\ job' = [job EXCEPT !.pc = "allocate", !.plan = CreatePlan(job.run), !.seen = ledger]
    BY <1>5 DEF AllocatePlan
  <2>2. PICK l \in {ledger}, r \in {job.run}, plan \in {CreatePlan(job.run)} : TRUE
    OBVIOUS
  <2>3. job.run \in DOMAIN runs
    BY <2>1 DEF JobInv
  <2>4. Fresh(l, r, plan)
    BY <2>1, <2>2, <2>3, PlanCreated DEF LedgerInv, Registered, Reserved, Run
  <2>5. Fresh(l, r, plan)'
    BY <2>4, FreshKept DEF Fresh
  <2>6. job'.seen = l /\ job'.run = r /\ job'.plan = plan
    BY <2>1, <2>2 DEF TypeInv, JobRec
  <2> QED BY <2>5, <2>6
<1> QED BY <1>1, <1>2, <1>3, <1>4, <1>5 DEF LedgerInv

-----------------------------------------------------------------------------
(* The ledger implements the abstract one.                                  *)

\* The inductive invariant of the ledger.
CoreInv == TypeInv /\ JobInv /\ LedgerInv

\* It holds at first.
LEMMA CoreInit == Init => CoreInv
<1> SUFFICES ASSUME Init PROVE CoreInv
  OBVIOUS
<1>1. TypeInv
  <2>1. IsFiniteSet(tags)
    BY FS_EmptySet DEF Init
  <2>2. <<>> \in Seq(RunRec) /\ <<>> \in Seq(ReleaseRec) /\ Len(<<>>) = 0
    OBVIOUS
  <2>3. Len(<<>>) <= MaxRuns
    BY <2>2, Constants
  <2>4. ledger \in LedgerRec /\ job \in JobRec /\ head \in Commit
    BY Constants DEF Init
  <2> QED BY <2>1, <2>2, <2>3, <2>4 DEF Init, TypeInv
<1>2. JobInv
  BY DEF Init, JobInv, Idle
<1>3. LedgerInv
  BY DEF Init, LedgerInv, Registered, EmptyLedger, Idle
<1> QED BY <1>1, <1>2, <1>3 DEF CoreInv

\* Every step keeps it, every plan, and everything that was done.
LEMMA CoreNext ==
    ASSUME CoreInv, Next
    PROVE  CoreInv' /\ Grows /\ LedgerStep /\ PlansKept
<1>1. \A o \in Reserved : Suits(o, ledger.plans[o])
  BY DEF CoreInv, LedgerInv, Registered, Reserved
<1>2. TypeInv' /\ Grows
  BY <1>1, EnvironmentTyped, PrepareTyped, PublishTyped DEF Next, CoreInv
<1>3. JobInv'
  BY <1>1, <1>2, JobPreserved DEF CoreInv
<1> QED BY <1>2, <1>3, LedgerPreserved DEF CoreInv

\* A step that changes nothing keeps it.
LEMMA CoreStutter == ASSUME CoreInv, UNCHANGED vars PROVE CoreInv'
<1>1. TypeInv' /\ JobInv'
  BY DEF CoreInv, TypeInv, JobInv, vars, github, Run
<1>2. LedgerInv'
  <2>1. Registered(ledger)'
    BY DEF CoreInv, LedgerInv, vars, github, Registered, Suits
  <2>2. job'.pc = "allocate" => Fresh(job.seen, job.run, job.plan)'
    BY DEF CoreInv, LedgerInv, vars, github, Fresh, Suits
  <2>3. ASSUME NEW CONSTANT w, w \in wire' PROVE Sound(w)'
    <3>1. Sound(w)
      BY <2>3 DEF CoreInv, LedgerInv, vars
    <3>2. \A l, r, plan : Fresh(l, r, plan) => Fresh(l, r, plan)'
      BY DEF vars, Fresh, Suits
    <3> QED BY <3>1, <3>2 DEF Sound, Advances, Reserving, Consuming
  <2> QED BY <2>1, <2>2, <2>3 DEF LedgerInv
<1> QED BY <1>1, <1>2 DEF CoreInv

(* Every reachable state is typed, and its ledger is registered: no two     *)
(* plans share a number or a tag, whatever is lost, late or repeated, and   *)
(* every request on its way can only advance the ledger it was made from.   *)
THEOREM CoreCorrect == Spec => []CoreInv
<1>1. ASSUME CoreInv, [Next]_vars PROVE CoreInv'
  BY <1>1, CoreNext, CoreStutter
<1> QED BY CoreInit, <1>1, PTL DEF Spec

\* An advance of the ledger is a step of the abstract one.
LEMMA AdvanceIsAbstract ==
    ASSUME CoreInv, CoreInv', LedgerStep
    PROVE  [Ledger!Next]_(Ledger!vars)
<1>0. /\ ledger \in LedgerRec /\ ledger' \in LedgerRec
      /\ DOMAIN ledger.plans \subseteq RunId /\ DOMAIN ledger'.plans \subseteq RunId
      /\ ledger'.plans \in [DOMAIN ledger'.plans -> Plan]
  <2>1. ledger \in LedgerRec /\ ledger' \in LedgerRec
    BY DEF CoreInv, TypeInv
  <2> QED BY <2>1, LedgerFields
<1>1. CASE ledger' = ledger
  BY <1>1 DEF Ledger!vars
<1>2. CASE Reserving(ledger, ledger')
  <2>1. PICK r \in DOMAIN ledger'.plans :
           Fresh(ledger, r, ledger'.plans[r]) /\ ledger' = Extended(ledger, r, ledger'.plans[r])
    BY <1>2 DEF Reserving
  <2>2. PICK plan : plan = ledger'.plans[r]
    OBVIOUS
  <2>3. Fresh(ledger, r, plan) /\ ledger' = Extended(ledger, r, plan)
    BY <2>1, <2>2
  <2>4. /\ DOMAIN ledger'.plans = DOMAIN ledger.plans \cup {r}
        /\ \A o \in DOMAIN ledger.plans : o # r => ledger'.plans[o] = ledger.plans[o]
        /\ ledger'.counter = plan.number
        /\ ledger'.floor = ledger.floor
    BY <1>0, <2>3, ExtendedFields
  <2>5. /\ r \notin DOMAIN ledger.plans /\ plan.number > ledger.counter
        /\ \A o \in DOMAIN ledger.plans : ledger.plans[o].tag # plan.tag
    BY <2>3 DEF Fresh
  <2>6. ledger'.plans \in [DOMAIN ledger.plans \cup {r} -> Ledger!Plan]
    BY <1>0, <2>4 DEF Plan, Ledger!Plan
  <2>7. \A o \in DOMAIN ledger.plans : ledger'.plans[o] = ledger.plans[o]
    BY <2>4, <2>5
  <2>8. \A o \in DOMAIN ledger.plans : ledger'.plans[o].tag # ledger'.plans[r].tag
    BY <2>2, <2>5, <2>7
  <2>9. ledger'.plans[r].number > ledger.counter /\ ledger'.counter = ledger'.plans[r].number
    BY <2>2, <2>4, <2>5
  <2>10. Ledger!Reserve(r)
    BY <2>4, <2>5, <2>6, <2>7, <2>8, <2>9 DEF Ledger!Reserve, Ledger!Reserved
  <2>11. r \in RunId
    BY <1>0
  <2> QED BY <2>10, <2>11 DEF Ledger!Next
<1>3. CASE Consuming(ledger, ledger')
  <2>1. PICK r \in DOMAIN ledger.plans :
            /\ ledger.plans[r].number >= ledger.floor
            /\ ledger' = [ledger EXCEPT !.floor = ledger.plans[r].number]
    BY <1>3 DEF Consuming
  <2>2. /\ ledger'.plans = ledger.plans /\ ledger'.counter = ledger.counter
        /\ ledger'.floor = ledger.plans[r].number
    BY <1>0, <2>1 DEF LedgerRec
  <2>3. Ledger!Consume(r)
    BY <2>1, <2>2 DEF Ledger!Consume, Ledger!Reserved
  <2> QED BY <1>0, <2>1, <2>3 DEF Ledger!Next
<1> QED BY <1>1, <1>2, <1>3 DEF LedgerStep, Advances

(* The ledger file on GitHub implements the append-only register of         *)
(* VersionLedger: release_state.py reserve_plan and begin_publication, with *)
(* the blob compare and swap of write_state.                                *)
THEOREM LedgerRefined == Spec => LedgerSpec
<1>1. Init => Ledger!Init
  BY DEF Init, EmptyLedger, Ledger!Init
<1>2. ASSUME CoreInv, CoreInv', [Next]_vars PROVE [Ledger!Next]_(Ledger!vars)
  <2>1. LedgerStep
    BY <1>2, CoreNext DEF LedgerStep, vars, github
  <2> QED BY <1>2, <2>1, AdvanceIsAbstract
<1> QED BY <1>1, <1>2, CoreCorrect, PTL DEF Spec, LedgerSpec, Ledger!Spec

(* No package number is given out twice and no tag names two packages:      *)
(* release_state.py reserve_plan, whatever requests are lost or late.       *)
THEOREM NumbersUnique == Spec => []Ledger!UniqueReservations
<1>1. CoreInv => Ledger!UniqueReservations
  BY DEF CoreInv, LedgerInv, Registered, Ledger!UniqueReservations, Ledger!Reserved
<1> QED BY <1>1, CoreCorrect, PTL

(* A plan is never changed and neither the counter nor the floor goes back: *)
(* release_state.py reserve_plan and begin_publication.                     *)
THEOREM LedgerKept == Spec => Ledger!Durable
<1> DEFINE Kept == /\ Ledger!Reserved \subseteq DOMAIN (ledger.plans)'
                   /\ \A r \in Ledger!Reserved : (ledger.plans)'[r] = ledger.plans[r]
                   /\ (ledger.counter)' >= ledger.counter
                   /\ (ledger.floor)' >= ledger.floor
<1>1. ASSUME CoreInv, CoreInv', [Next]_vars PROVE Kept
  <2>1. LedgerStep /\ (Next => PlansKept)
    BY <1>1, CoreNext DEF LedgerStep, vars, github
  <2>2. ledger \in LedgerRec /\ ledger' \in LedgerRec
    BY <1>1 DEF CoreInv, TypeInv
  <2>3. /\ ledger.counter \in Nat /\ ledger.floor \in Nat
        /\ \A r \in DOMAIN ledger.plans : ledger.plans[r].number \in Nat
    BY <2>2, LedgerFields DEF Plan
  <2>4. CASE ledger' = ledger
    BY <2>3, <2>4 DEF Ledger!Reserved
  <2>5. CASE Reserving(ledger, ledger')
    <3>1. PICK r \in DOMAIN ledger'.plans :
             Fresh(ledger, r, ledger'.plans[r]) /\ ledger' = Extended(ledger, r, ledger'.plans[r])
      BY <2>5 DEF Reserving
    <3>2. PICK plan : plan = ledger'.plans[r]
      OBVIOUS
    <3>3. Fresh(ledger, r, plan) /\ ledger' = Extended(ledger, r, plan)
      BY <3>1, <3>2
    <3>4. /\ DOMAIN ledger'.plans = DOMAIN ledger.plans \cup {r}
          /\ \A o \in DOMAIN ledger.plans : o # r => ledger'.plans[o] = ledger.plans[o]
          /\ ledger'.counter = plan.number
          /\ ledger'.floor = ledger.floor
      BY <2>2, <3>3, ExtendedFields
    <3>5. r \notin DOMAIN ledger.plans /\ plan.number > ledger.counter
      BY <3>3 DEF Fresh
    <3>6. plan.number \in Nat
      BY <2>2, <3>4, LedgerFields
    <3> QED BY <2>3, <3>4, <3>5, <3>6 DEF Ledger!Reserved
  <2>6. CASE Consuming(ledger, ledger')
    <3>1. PICK r \in DOMAIN ledger.plans :
              /\ ledger.plans[r].number >= ledger.floor
              /\ ledger' = [ledger EXCEPT !.floor = ledger.plans[r].number]
      BY <2>6 DEF Consuming
    <3>2. /\ ledger'.plans = ledger.plans /\ ledger'.counter = ledger.counter
          /\ ledger'.floor = ledger.plans[r].number
      BY <2>2, <3>1 DEF LedgerRec
    <3> QED BY <2>3, <3>1, <3>2 DEF Ledger!Reserved
  <2> QED BY <2>1, <2>4, <2>5, <2>6 DEF LedgerStep, Advances
<1>2. ASSUME CoreInv, CoreInv', [Next]_vars PROVE [Kept]_(Ledger!vars)
  BY <1>1, <1>2
<1> QED BY <1>2, CoreCorrect, PTL DEF Spec, Ledger!Durable

-----------------------------------------------------------------------------
(* An attempt goes on in the run it was started for.                        *)

\* The run of the attempt that executes is in progress
Running == job.pc # "idle" => Run.state = "in_progress"

\* The attempt goes on.
Continues ==
    /\ job.pc # "idle" /\ job'.run = job.run
    /\ runs'[job.run].state = runs[job.run].state
    /\ runs'[job.run].attempt = runs[job.run].attempt

\* A run that does not wait is not cancelled.
LEMMA CancelledFields ==
    ASSUME TypeInv, NEW r \in DOMAIN runs, runs[r].state # "queued"
    PROVE  r \in DOMAIN Cancelled /\ Cancelled[r] = runs[r]
BY DEF Cancelled, Waiting

\* A new run leaves the others as their cancelling leaves them.
LEMMA AddedRun ==
    ASSUME TypeInv, NEW event, NEW channel, NEW source, NEW candidate,
           NewRun(event, channel, source, candidate)
    PROVE  \A r \in DOMAIN runs : runs'[r] = Cancelled[r]
<1> DEFINE new == [event |-> event, channel |-> channel, source |-> source,
                   candidate |-> candidate, attempt |-> 1, receipts |-> {},
                   jobs |-> NoJobs, state |-> "queued"]
<1>1. runs' = Append(Cancelled, new)
  BY DEF NewRun
<1>2. Cancelled = [r \in 1..Len(runs) |-> Cancelled[r]] /\ Len(runs) \in Nat
  BY DEF Cancelled, TypeInv
<1>3. Len(Cancelled) = Len(runs) /\ DOMAIN runs = 1..Len(runs)
  BY <1>2 DEF TypeInv
<1> HIDE DEF new
<1> QED BY <1>1, <1>2, <1>3

\* An attempt goes on while its run is left alone.
LEMMA RunStays ==
    ASSUME TypeInv, JobInv, Running, job.pc # "idle", job' = job,
           \A r \in DOMAIN runs : runs[r].state = "in_progress" =>
              runs'[r].state = runs[r].state /\ runs'[r].attempt = runs[r].attempt
    PROVE  Continues
BY DEF JobInv, Running, Run, Continues

\* The environment leaves the run alone that is in progress.
LEMMA ElsewhereRuns ==
    ASSUME TypeInv, JobInv, Running, Environment, job' = job, NEW r \in DOMAIN runs,
           runs[r].state = "in_progress"
    PROVE  runs'[r].state = runs[r].state /\ runs'[r].attempt = runs[r].attempt
<1>0. Cancelled[r] = runs[r]
  BY CancelledFields
<1>1. ASSUME NEW event, NEW channel, NEW source, NEW candidate,
             NewRun(event, channel, source, candidate)
      PROVE  runs'[r] = runs[r]
  BY <1>0, <1>1, AddedRun
<1>2. CASE Push
  BY <1>1, <1>2 DEF Push
<1>3. CASE Schedule
  BY <1>1, <1>3 DEF Schedule
<1>4. ASSUME NEW channel, NEW candidate, Dispatch(channel, candidate) PROVE runs'[r] = runs[r]
  BY <1>1, <1>4 DEF Dispatch
<1>5. ASSUME NEW o \in DOMAIN runs, Rerun(o) PROVE runs'[r] = runs[r]
  <2>1. o # r
    BY <1>5 DEF Rerun
  <2>2. PICK carried : runs' = [Cancelled EXCEPT ![o].attempt = @ + 1, ![o].state = "queued",
                                                 ![o].jobs = carried]
    BY <1>5 DEF Rerun
  <2>3. r \in DOMAIN Cancelled
    BY DEF Cancelled
  <2> QED BY <1>0, <2>1, <2>2, <2>3
<1>6. ASSUME NEW o \in DOMAIN runs, Start(o) PROVE FALSE
  <2>1. First(o) # "idle"
    BY RunFields DEF First, Jobs
  <2>2. job.pc = "idle" /\ job'.pc = First(o)
    BY <1>6 DEF Start, Idle
  <2> QED BY <2>1, <2>2
<1>7. CASE Abandon
  BY <1>7 DEF Abandon, Conclude, Idle
<1>8. ASSUME NEW w \in wire, Land(w) PROVE runs' = runs
  BY <1>8 DEF Land
<1> QED BY <1>2, <1>3, <1>4, <1>5, <1>6, <1>7, <1>8 DEF Environment

\* An attempt goes on when its run keeps its state and its attempt number.
LEMMA ContinuedRuns ==
    ASSUME TypeInv, job.run \in DOMAIN runs, job.pc # "idle", job'.run = job.run,
           NEW v, v.state = Run.state, v.attempt = Run.attempt, runs' = [runs EXCEPT ![job.run] = v]
    PROVE  Continues
BY DEF Continues, Run, TypeInv

\* It does after a job of it has succeeded,
LEMMA PassedContinues ==
    ASSUME TypeInv, job.run \in DOMAIN runs, job.pc # "idle", NEW name \in Jobs, NEW pc, NEW plan,
           Passed(name, pc, plan)
    PROVE  Continues
<1> DEFINE v == [Run EXCEPT !.jobs = [@ EXCEPT ![name] = Run.attempt]]
<1>1. runs' = [runs EXCEPT ![job.run] = v]
  BY DEF Passed, TypeInv, Run
<1>2. v.state = Run.state /\ v.attempt = Run.attempt
  BY RunFields DEF RunRec, Run
<1>3. job'.run = job.run
  BY DEF Passed, TypeInv, JobRec
<1> HIDE DEF v
<1> QED BY <1>1, <1>2, <1>3, ContinuedRuns

\* after a receipt of it was kept,
LEMMA ReceiptContinues ==
    ASSUME TypeInv, job.run \in DOMAIN runs, job.pc # "idle", job' = job, NEW name, NEW kind \in Jobs,
           runs' = [runs EXCEPT ![job.run].jobs[kind] = Run.attempt,
                                ![job.run].receipts = @ \union {Receipt(name)}]
    PROVE  Continues
<1> DEFINE v == [[Run EXCEPT !.jobs = [@ EXCEPT ![kind] = Run.attempt]]
                    EXCEPT !.receipts = @ \union {Receipt(name)}]
<1>1. runs' = [runs EXCEPT ![job.run] = v]
  BY DEF TypeInv, Run
<1>2. v.state = Run.state /\ v.attempt = Run.attempt
  BY RunFields DEF RunRec, Run
<1> HIDE DEF v
<1> QED BY <1>1, <1>2, ContinuedRuns

\* and when no run changes.
LEMMA UnchangedContinues ==
    ASSUME job.pc # "idle", job'.run = job.run, runs' = runs
    PROVE  Continues
BY DEF Continues

\* The attempt ends, goes on, or is the first step of one.
LEMMA RunSteps ==
    ASSUME TypeInv, JobInv, Running, Next
    PROVE  \/ job' = Idle
           \/ Continues
           \/ job.pc = "idle" /\ job' = job
           \/ \E r \in DOMAIN runs : Start(r)
<1>0. \A pc : [job EXCEPT !.pc = pc].run = job.run
  BY DEF TypeInv, JobRec
<1>1. CASE Environment
  <2>1. job' = job \/ Abandon \/ \E r \in DOMAIN runs : Start(r)
    BY <1>1 DEF Environment, Push, Schedule, Dispatch, NewRun, Rerun, Land
  <2>2. CASE job' = job /\ job.pc # "idle"
    BY <1>1, <2>2, ElsewhereRuns, RunStays
  <2> QED BY <2>1, <2>2 DEF Abandon, Conclude
<1>2. CASE PrepareJob
  <2>0. job.pc # "idle" /\ job.run \in DOMAIN runs
    BY <1>2 DEF PrepareJob, ClosedPushCycle, ReusePlan, AllocatePlan, CreateStateBranch,
                WriteReservation, StagePackages, Campaign, PassGate, PreparePromotion, JobInv
  <2>1. CASE ClosedPushCycle
    BY <2>1 DEF ClosedPushCycle, Conclude
  <2>2. CASE ReusePlan \/ PassGate \/ PreparePromotion
    <3>1. \E name \in Jobs : \E pc, plan : Passed(name, pc, plan)
      BY <2>2 DEF ReusePlan, PassGate, PreparePromotion, Jobs
    <3> QED BY <2>0, <3>1, PassedContinues
  <2>3. CASE AllocatePlan
    <3>1. job'.run = job.run /\ runs' = runs
      BY <2>3 DEF AllocatePlan, TypeInv, JobRec
    <3> QED BY <2>0, <3>1, UnchangedContinues
  <2>4. CASE CreateStateBranch
    BY <2>0, <2>4, UnchangedContinues DEF CreateStateBranch, Request, Conclude
  <2>5. CASE WriteReservation
    <3>1. job' = Idle \/ Passed("prepare", "build", job.plan)
      BY <2>5 DEF WriteReservation, Request, Conclude
    <3> QED BY <2>0, <3>1, PassedContinues DEF Jobs
  <2>6. CASE StagePackages
    BY <2>0, <2>6, ReceiptContinues DEF StagePackages, Jobs
  <2>7. CASE Campaign
    BY <2>0, <2>7, ReceiptContinues DEF Campaign, Jobs
  <2> QED BY <1>2, <2>1, <2>2, <2>3, <2>4, <2>5, <2>6, <2>7 DEF PrepareJob
<1>3. CASE PublishJob
  <2>1. CASE Ended \/ Lost \/ StoreEvidence
    BY <2>1 DEF Ended, Lost, StoreEvidence, Conclude
  <2>2. CASE Reconciles
    BY <1>0, <2>2, UnchangedContinues DEF Reconciles
  <2>3. CASE Consumed
    <3>1. job.pc # "idle" /\ job'.run = job.run /\ runs' = runs
      BY <2>3 DEF Consumed, MayConsume, TypeInv, JobRec
    <3> QED BY <3>1, UnchangedContinues
  <2>4. CASE Tagged
    BY <1>0, <2>4, UnchangedContinues DEF Tagged
  <2>5. CASE Drafted
    <3>1. job.pc # "idle" /\ job'.run = job.run /\ runs' = runs
      BY <2>5 DEF Drafted, TypeInv, JobRec
    <3> QED BY <3>1, UnchangedContinues
  <2>6. CASE Published
    BY <1>0, <2>6, UnchangedContinues DEF Published
  <2>7. CASE CheckCandidate
    BY <1>0, <2>7, UnchangedContinues DEF CheckCandidate, Goto
  <2>8. CASE VerifyPromotion
    <3>1. job.pc # "idle" /\ job'.run = job.run /\ runs' = runs
      BY <2>8 DEF VerifyPromotion, TypeInv, JobRec
    <3> QED BY <3>1, UnchangedContinues
  <2>9. CASE ReconcileCreatedRelease
    <3>1. job.pc # "idle" /\ job'.run = job.run /\ runs' = runs
      BY <2>9 DEF ReconcileCreatedRelease, TypeInv, JobRec
    <3> QED BY <3>1, UnchangedContinues
  <2>10. CASE Upload
    BY <1>0, <2>10, UnchangedContinues DEF Upload, Goto
  <2>11. CASE VerifyUploads
    BY <1>0, <2>11, UnchangedContinues DEF VerifyUploads, Goto
  <2> QED BY <1>3, <2>1, <2>2, <2>3, <2>4, <2>5, <2>6, <2>7, <2>8, <2>9, <2>10, <2>11, PublishCases
<1> QED BY <1>1, <1>2, <1>3 DEF Next

\* Past the first steps of an attempt, it is the same attempt of the same run.
LEMMA RunningPreserved ==
    ASSUME TypeInv, JobInv, Running, Next
    PROVE  Running' /\ (job'.pc \notin Before => Continues)
<1>1. CASE job' = Idle
  BY <1>1 DEF Idle, Running, Before
<1>2. CASE Continues
  BY <1>2 DEF Continues, Running, Run
<1>3. CASE job.pc = "idle" /\ job' = job
  BY <1>3 DEF Running, Before
<1>4. ASSUME NEW r \in DOMAIN runs, Start(r) PROVE Running' /\ job'.pc \in Before
  <2>1. job'.run = r /\ runs'[r].state = "in_progress" /\ job'.pc = First(r)
    <3>1. runs' = [runs EXCEPT ![r].state = "in_progress"] /\ job'.run = r /\ job'.pc = First(r)
      BY <1>4 DEF Start, Idle
    <3> QED BY <3>1, RunFields DEF RunRec, TypeInv
  <2>2. First(r) \in Before
    BY RunFields DEF First, Before, Jobs
  <2> QED BY <2>1, <2>2 DEF Running, Run
<1> QED BY <1>1, <1>2, <1>3, <1>4, RunSteps

-----------------------------------------------------------------------------
(* The plan of a publication.                                               *)

\* A request that is about a publication.
Publishes(w) == w.kind \in {"tag", "draft", "publish"}

\* Nothing that is about a publication changes.
Withdraws ==
    /\ UNCHANGED <<tags, releases, evidence>>
    /\ job'.pc \in Before
    /\ \A w \in wire' : w \in wire \/ ~Publishes(w)

\* A request about a publication is lost, and with it the attempt.
LostPublishing ==
    \/ job.pc = "tag" /\ Unanswered(TagRequest) /\ job' = Idle
    \/ job.pc = "create" /\ Unanswered(DraftRequest) /\ job' = Idle
    \/ job.pc = "publish" /\ Unanswered(PublishRequest) /\ job' = Idle

\* The steps of the pipeline as the invariants of a publication see them.
LEMMA NextCases ==
    ASSUME TypeInv, JobInv, Next
    PROVE  \/ Elsewhere \/ Withdraws \/ LostPublishing \/ Reconciles \/ Consumed \/ Tagged
           \/ Drafted \/ Published \/ CheckCandidate \/ VerifyPromotion \/ ReconcileCreatedRelease
           \/ Upload \/ VerifyUploads \/ StoreEvidence \/ \E w \in wire : Land(w)
<1>1. CASE Inside
  BY <1>1 DEF Inside, Withdraws, github
<1>2. CASE Ended
  BY <1>2 DEF Ended, Withdraws, github, Idle, Before
<1>3. CASE AllocatePlan
  BY <1>3 DEF AllocatePlan, Withdraws, github, TypeInv, JobRec, Before
<1>4. CASE Branched
  <2>1. job'.pc = "allocate" /\ wire' = wire /\ evidence' = evidence /\ Apply(BranchRequest)
    BY <1>4 DEF Branched, Confirmed
  <2>2. BranchRequest.kind = "branch"
    BY DEF BranchRequest
  <2> QED BY <2>1, <2>2 DEF Withdraws, Apply, Before
<1>5. CASE ReservedNow
  <2>1. job'.pc = "build" /\ wire' = wire /\ evidence' = evidence /\ Apply(ReservationRequest)
    BY <1>5 DEF ReservedNow, Confirmed, TypeInv, JobRec
  <2>2. ReservationRequest.kind = "ledger"
    BY DEF ReservationRequest
  <2> QED BY <2>1, <2>2 DEF Withdraws, Apply, Before
<1>6. CASE Lost
  <2>1. PICK w : Sends(w) /\ Unanswered(w) /\ job' = Idle
    BY <1>6 DEF Lost
  <2>2. wire' = wire \cup {w} /\ UNCHANGED <<tags, releases, evidence>> /\ job'.pc \in Before
    BY <2>1 DEF Unanswered, github, Idle, Before
  <2>3. CASE w \in {BranchRequest, ReservationRequest, ConsumeRequest}
    <3>1. ~Publishes(w)
      BY <2>3 DEF BranchRequest, ReservationRequest, ConsumeRequest, Publishes
    <3> QED BY <2>2, <3>1 DEF Withdraws
  <2> QED BY <2>1, <2>3 DEF Sends, LostPublishing
<1>7. CASE Environment
  BY <1>1, <1>7, EnvironmentCases
<1>8. CASE PrepareJob
  BY <1>1, <1>3, <1>4, <1>5, <1>6, <1>8, PrepareCases
<1>9. CASE PublishJob
  BY <1>2, <1>6, <1>9, PublishCases
<1> QED BY <1>7, <1>8, <1>9 DEF Next

\* The attempt publishes what it built, or promotes what a candidate built.
Candidates == job.pc = "staged" \/ (job.pc \in Late /\ Run.channel # "stable")
Promotes == job.pc = "promote" \/ (job.pc \in Late /\ Run.channel = "stable")

\* A publication has a reserved plan, and the tag that belongs to it.
PlanInv ==
    /\ Candidates => /\ job.run \in Reserved
                     /\ ledger.plans[job.run] = job.plan
                     /\ job.pc # "staged" => job.tag = job.plan.tag
    /\ Promotes => /\ \E r \in Reserved : ledger.plans[r] = job.plan
                   /\ job.plan.tag.channel = "rc"
                   /\ job.pc # "promote" => job.tag = StableTag(job.plan.tag.base)

\* The attempt goes on with the publication it is at.
Proceeds ==
    /\ \/ job.pc \in Late /\ job'.pc \in Late
       \/ job.pc \in Late \cup {"staged", "promote"} /\ job'.pc = job.pc
    /\ job'.run = job.run /\ job'.plan = job.plan /\ job'.tag = job.tag
    /\ job'.build = job.build /\ job'.ref = job.ref /\ job'.seen = job.seen

\* What the state of the attempt is after each kind of step.
LEMMA Moves ==
    ASSUME TypeInv
    PROVE  /\ Reconciles \/ Tagged \/ Drafted \/ ReconcileCreatedRelease \/ Upload \/ VerifyUploads
                => Proceeds
           /\ Published => job'.pc \in Before \cup {"evidence"}
           /\ LostPublishing \/ StoreEvidence => job'.pc \in Before
           /\ CheckCandidate => /\ job.pc = "candidate" /\ job'.pc = "staged"
                                /\ job'.run = job.run /\ job'.plan = job.plan
           /\ VerifyPromotion => /\ job.pc = "approved" /\ job'.pc = "promote"
                                 /\ job'.run = job.run /\ job'.plan = Candidate.plan
                                 /\ job'.build = Candidate.attempt
           /\ Consumed => /\ job.pc \in {"staged", "promote"} /\ job'.pc = "tag"
                          /\ job'.run = job.run /\ job'.plan = job.plan /\ job'.ref = head
                          /\ job.pc = "staged" =>
                                job'.tag = job.plan.tag /\ job'.build = Run.attempt
                          /\ job.pc = "promote" =>
                                job'.tag = StableTag(job.plan.tag.base) /\ job'.build = job.build
<1>1. job \in JobRec
  BY DEF TypeInv
<1>2. ASSUME Reconciles PROVE Proceeds
  BY <1>1, <1>2 DEF Reconciles, JobRec, Proceeds, Late
<1>3. ASSUME Tagged PROVE Proceeds
  BY <1>1, <1>3 DEF Tagged, JobRec, Proceeds, Late
<1>4. ASSUME Drafted PROVE Proceeds
  BY <1>1, <1>4 DEF Drafted, JobRec, Proceeds, Late
<1>5. ASSUME ReconcileCreatedRelease PROVE Proceeds
  BY <1>1, <1>5 DEF ReconcileCreatedRelease, JobRec, Proceeds, Late
<1>6. ASSUME Upload PROVE Proceeds
  BY <1>1, <1>6 DEF Upload, Goto, JobRec, Proceeds, Late
<1>7. ASSUME VerifyUploads PROVE Proceeds
  BY <1>1, <1>7 DEF VerifyUploads, Goto, JobRec, Proceeds, Late
<1>8. ASSUME Published PROVE job'.pc \in Before \cup {"evidence"}
  BY <1>1, <1>8 DEF Published, Idle, JobRec, Before
<1>9. ASSUME LostPublishing \/ StoreEvidence PROVE job'.pc \in Before
  BY <1>9 DEF LostPublishing, StoreEvidence, Conclude, Idle, Before
<1>10. ASSUME CheckCandidate
       PROVE  /\ job.pc = "candidate" /\ job'.pc = "staged"
              /\ job'.run = job.run /\ job'.plan = job.plan
  BY <1>1, <1>10 DEF CheckCandidate, Goto, JobRec
<1>11. ASSUME VerifyPromotion
       PROVE  /\ job.pc = "approved" /\ job'.pc = "promote"
              /\ job'.run = job.run /\ job'.plan = Candidate.plan
              /\ job'.build = Candidate.attempt
  BY <1>1, <1>11 DEF VerifyPromotion, JobRec
<1>12. ASSUME Consumed
       PROVE  /\ job.pc \in {"staged", "promote"} /\ job'.pc = "tag"
              /\ job'.run = job.run /\ job'.plan = job.plan /\ job'.ref = head
              /\ job.pc = "staged" => job'.tag = job.plan.tag /\ job'.build = Run.attempt
              /\ job.pc = "promote" =>
                    job'.tag = StableTag(job.plan.tag.base) /\ job'.build = job.build
  BY <1>1, <1>12 DEF Consumed, MayConsume, JobRec
<1> QED BY <1>2, <1>3, <1>4, <1>5, <1>6, <1>7, <1>8, <1>9, <1>10, <1>11, <1>12

\* What was reserved for the attempt stays reserved.
LEMMA ReservedKept ==
    ASSUME PlansKept, NEW CONSTANT plan
    PROVE  /\ \A r \in Reserved : ledger.plans[r] = plan => r \in Reserved' /\ ledger'.plans[r] = plan
           /\ (\E r \in Reserved : ledger.plans[r] = plan) =>
                 \E r \in Reserved' : ledger'.plans[r] = plan
BY DEF PlansKept, Reserved

\* While an attempt goes on, its run stays what it was asked to be.
LEMMA ChannelKept ==
    ASSUME TypeInv, JobInv, Grows, job.pc # "idle", job'.run = job.run
    PROVE  /\ Run'.channel = Run.channel /\ Run'.event = Run.event /\ Run'.source = Run.source
           /\ Run'.candidate = Run.candidate
BY DEF JobInv, Grows, RunsGrow, Run

\* PlanInv is kept while a publication goes on,
LEMMA PlanKept ==
    ASSUME TypeInv, JobInv, PlanInv, Grows, PlansKept, Proceeds
    PROVE  PlanInv'
<1>1. Run'.channel = Run.channel
  BY ChannelKept DEF Proceeds, Late
<1>2. PICK plan : plan = job.plan
  OBVIOUS
<1>3. job'.run = job.run /\ job'.plan = plan /\ job'.tag = job.tag
  BY <1>2 DEF Proceeds
<1>4. CASE Candidates
  <2>1. job.run \in Reserved /\ ledger.plans[job.run] = plan /\ (job.pc # "staged" => job.tag = plan.tag)
    BY <1>2, <1>4 DEF PlanInv
  <2>2. job.run \in Reserved' /\ ledger'.plans[job.run] = plan
    BY <2>1, ReservedKept
  <2>3. ~Promotes' /\ (job'.pc # "staged" => job.pc # "staged")
    BY <1>1, <1>4 DEF Candidates, Promotes, Proceeds, Late
  <2> QED BY <1>3, <2>1, <2>2, <2>3 DEF PlanInv
<1>5. CASE Promotes
  <2>1. /\ \E r \in Reserved : ledger.plans[r] = plan
        /\ plan.tag.channel = "rc" /\ (job.pc # "promote" => job.tag = StableTag(plan.tag.base))
    BY <1>2, <1>5 DEF PlanInv
  <2>2. \E r \in Reserved' : ledger'.plans[r] = plan
    BY <2>1, ReservedKept
  <2>3. ~Candidates' /\ (job'.pc # "promote" => job.pc # "promote")
    BY <1>1, <1>5 DEF Candidates, Promotes, Proceeds, Late
  <2> QED BY <1>3, <2>1, <2>2, <2>3 DEF PlanInv, StableTag
<1>6. Candidates \/ Promotes
  BY DEF Candidates, Promotes, Proceeds
<1> QED BY <1>4, <1>5, <1>6

\* and by every step.
LEMMA PlanPreserved ==
    ASSUME CoreInv, PlanInv, Next
    PROVE  PlanInv'
<1>0. TypeInv /\ JobInv /\ Grows /\ PlansKept /\ TypeInv' /\ JobInv'
  BY CoreNext DEF CoreInv
<1>1. ASSUME job'.pc \in Before \cup {"evidence"} PROVE PlanInv'
  BY <1>1 DEF PlanInv, Candidates, Promotes, Before, Late
<1>2. CASE job' = job
  <2>1. CASE job.pc \in Late \cup {"staged", "promote"}
    <3>1. Proceeds
      BY <1>2, <2>1 DEF Proceeds
    <3> QED BY <1>0, <3>1, PlanKept
  <2> QED BY <1>0, <1>1, <1>2, <2>1, JobFields DEF PC
<1>3. CASE CheckCandidate
  <2>1. /\ job'.pc = "staged" /\ job'.run = job.run /\ job'.plan = job.plan
    BY <1>0, <1>3, Moves
  <2>2. ledger' = ledger /\ job.run \in Reserved /\ ledger.plans[job.run] = job.plan
    BY <1>3 DEF CheckCandidate, PublicationAllowed, VerifyReservation, github
  <2> QED BY <2>1, <2>2 DEF PlanInv, Candidates, Promotes, Reserved, Late
<1>4. CASE VerifyPromotion
  <2>1. job'.pc = "promote" /\ job'.plan = Candidate.plan
    BY <1>0, <1>4, Moves
  <2>2. ledger' = ledger /\ VerifyPromotionOrder(Candidate.plan)
    BY <1>4 DEF VerifyPromotion, github
  <2>3. PICK plan : plan = Candidate.plan
    OBVIOUS
  <2>4. (\E r \in Reserved : ledger.plans[r] = plan) /\ plan.tag.channel = "rc"
    BY <2>2, <2>3, OrderedIsReserved DEF VerifyPromotionOrder
  <2> QED BY <2>1, <2>2, <2>3, <2>4 DEF PlanInv, Candidates, Promotes, Reserved, Late
<1>5. CASE Consumed
  <2>1. /\ job.pc \in {"staged", "promote"} /\ job'.pc = "tag"
        /\ job'.run = job.run /\ job'.plan = job.plan
        /\ job.pc = "staged" => job'.tag = job.plan.tag
        /\ job.pc = "promote" => job'.tag = StableTag(job.plan.tag.base)
    BY <1>0, <1>5, Moves
  <2>2. Run'.channel = Run.channel
    BY <1>0, <2>1, ChannelKept
  <2>3. PICK plan : plan = job.plan
    OBVIOUS
  <2>4. CASE job.pc = "staged"
    <3>1. Run.channel # "stable" /\ Candidates
      BY <1>0, <2>4 DEF JobInv, Candidates
    <3>2. job.run \in Reserved /\ ledger.plans[job.run] = plan
      BY <2>3, <3>1 DEF PlanInv
    <3>3. job.run \in Reserved' /\ ledger'.plans[job.run] = plan
      BY <1>0, <3>2, ReservedKept
    <3> QED BY <2>1, <2>2, <2>3, <2>4, <3>1, <3>3 DEF PlanInv, Promotes, Late
  <2>5. CASE job.pc = "promote"
    <3>1. Run.channel = "stable" /\ Promotes
      BY <1>0, <2>5 DEF JobInv, Promotes
    <3>2. (\E r \in Reserved : ledger.plans[r] = plan) /\ plan.tag.channel = "rc"
      BY <2>3, <3>1 DEF PlanInv
    <3>3. \E r \in Reserved' : ledger'.plans[r] = plan
      BY <1>0, <3>2, ReservedKept
    <3> QED BY <2>1, <2>2, <2>3, <2>5, <3>1, <3>2, <3>3 DEF PlanInv, Candidates, Late, StableTag
  <2> QED BY <2>1, <2>4, <2>5
<1>6. CASE Reconciles \/ Tagged \/ Drafted \/ ReconcileCreatedRelease \/ Upload \/ VerifyUploads
  <2>1. Proceeds
    BY <1>0, <1>6, Moves
  <2> QED BY <1>0, <2>1, PlanKept
<1>7. CASE LostPublishing \/ StoreEvidence \/ Published
  BY <1>0, <1>1, <1>7, Moves
<1>8. CASE Withdraws
  BY <1>1, <1>8 DEF Withdraws
<1>9. CASE Elsewhere \/ \E w \in wire : Land(w)
  BY <1>2, <1>9 DEF Elsewhere, Land
<1> QED BY <1>0, <1>3, <1>4, <1>5, <1>6, <1>7, <1>8, <1>9, NextCases

-----------------------------------------------------------------------------
(* The names and the bytes of a publication.                                *)

\* A tag names the source of a plan.
TagAt(tag, plan) == [tag |-> tag, source |-> plan.source] \in tags
\* A draft as it is created.
Untouched(draft) == draft.draft /\ \A f \in Files : draft.files[f] = "none"

\* A release bears the tag of its plan, or the stable one of its base.
Shaped(release) ==
    /\ TagAt(release.tag, release.plan)
    /\ \/ release.tag = release.plan.tag
       \/ /\ release.tag = StableTag(release.plan.tag.base)
          /\ release.plan.tag.channel = "rc"

\* One publication at a time
Settles ==
    /\ job.pc \in {"staged", "promote", "evidence"} \cup (Late \ {"reconcile"}) => wire = {}
    /\ job.pc = "reconcile" => \A w \in wire : w = DraftRequest
    /\ \A w, v \in wire : Publishes(w) /\ Publishes(v) => w = v

\* Names on GitHub, and names on their way
Named ==
    /\ \A i \in DOMAIN releases : Shaped(releases[i])
    /\ \A i, j \in DOMAIN releases : releases[i].tag = releases[j].tag => i = j
    /\ \A w \in wire : w.kind = "draft" =>
          Shaped(w.draft) /\ Untouched(w.draft) /\ Naming(w.draft.tag) = {}

\* What the attempt works on
Holds ==
    /\ job.pc \in Late \ {"tag"} => TagAt(job.tag, job.plan)
    /\ job.pc = "create" => Naming(job.tag) = {}
    /\ job.pc \in {"upload", "verify", "publish"} =>
          /\ job.release \in DOMAIN releases
          /\ releases[job.release].tag = job.tag
          /\ releases[job.release].plan = job.plan
          /\ releases[job.release].draft

\* What is public, and what is about to be, was read back whole.
Intact ==
    /\ \A i \in Public : Complete(releases[i])
    /\ job.pc = "publish" => Complete(releases[job.release])
    /\ \A w \in wire : w.kind = "publish" =>
          w.release \in DOMAIN releases /\ Complete(releases[w.release])

\* Where the publication is on GitHub.
PlaceInv == Settles /\ Named /\ Holds /\ Intact

\* No release is added.
SameReleases == DOMAIN releases' = DOMAIN releases /\ ReleasesGrow

\* Named is kept when no release is added,
LEMMA NamedSame ==
    ASSUME Named, tags \subseteq tags', SameReleases,
           \A w \in wire' : w.kind = "draft" => w \in wire
    PROVE  Named'
<1>1. \A tag : Naming(tag)' = Naming(tag)
  BY DEF Naming, SameReleases, ReleasesGrow
<1>2. \A i \in DOMAIN releases' : Shaped(releases[i])'
  BY DEF Named, Shaped, TagAt, SameReleases, ReleasesGrow
<1>3. \A i, j \in DOMAIN releases' : releases'[i].tag = releases'[j].tag => i = j
  BY DEF Named, SameReleases, ReleasesGrow
<1>4. ASSUME NEW CONSTANT w, w \in wire', w.kind = "draft"
      PROVE  (Shaped(w.draft) /\ Untouched(w.draft) /\ Naming(w.draft.tag) = {})'
  <2>1. Shaped(w.draft) /\ Untouched(w.draft) /\ Naming(w.draft.tag) = {}
    BY <1>4 DEF Named
  <2> QED BY <1>1, <2>1 DEF Shaped, TagAt, Untouched
<1> QED BY <1>2, <1>3, <1>4 DEF Named

\* A draft is added.
LEMMA ReleaseAppended ==
    ASSUME TypeInv, NEW d, releases' = Append(releases, d)
    PROVE  /\ Len(releases) + 1 \in DOMAIN releases' /\ Len(releases) + 1 \notin DOMAIN releases
           /\ DOMAIN releases' = DOMAIN releases \cup {Len(releases) + 1}
           /\ \A i \in DOMAIN releases : releases'[i] = releases[i]
           /\ releases'[Len(releases) + 1] = d
<1>1. Len(releases) \in Nat /\ DOMAIN releases = 1..Len(releases)
  BY DEF TypeInv
<1>2. DOMAIN releases' = 1..Len(releases) + 1
  BY <1>1
<1> QED BY <1>1, <1>2

\* and when one with an unused tag is.
LEMMA NamedAppended ==
    ASSUME TypeInv, Named, tags' = tags, NEW CONSTANT d, releases' = Append(releases, d), Shaped(d),
           Naming(d.tag) = {}, \A w \in wire' : w.kind # "draft"
    PROVE  Named'
<1> DEFINE n == Len(releases) + 1
<1>1. /\ DOMAIN releases' = DOMAIN releases \cup {n}
      /\ \A i \in DOMAIN releases : releases'[i] = releases[i]
      /\ releases'[n] = d
  BY ReleaseAppended
<1> HIDE DEF n
<1>2. \A i \in DOMAIN releases' : Shaped(releases[i])'
  BY <1>1 DEF Named, Shaped, TagAt
<1>3. \A i \in DOMAIN releases : releases[i].tag # d.tag
  BY DEF Naming
<1>4. \A i, j \in DOMAIN releases' : releases'[i].tag = releases'[j].tag => i = j
  BY <1>1, <1>3 DEF Named
<1> QED BY <1>2, <1>4 DEF Named

\* A draft becomes public.
LEMMA ReleasePublished ==
    ASSUME TypeInv, NEW k, releases' = [releases EXCEPT ![k].draft = FALSE]
    PROVE  /\ SameReleases
           /\ \A i \in DOMAIN releases : /\ releases'[i].files = releases[i].files
                                         /\ i # k => releases'[i] = releases[i]
                                         /\ i = k => ~releases'[i].draft
<1>1. DOMAIN releases' = DOMAIN releases
  BY DEF TypeInv
<1>2. ASSUME NEW i \in DOMAIN releases
      PROVE  /\ releases'[i].tag = releases[i].tag /\ releases'[i].plan = releases[i].plan
             /\ releases'[i].attempt = releases[i].attempt /\ releases'[i].run = releases[i].run
             /\ releases'[i].files = releases[i].files
             /\ i # k => releases'[i] = releases[i]
             /\ i = k => ~releases'[i].draft
  <2>1. releases[i] \in ReleaseRec
    BY DEF TypeInv
  <2>2. releases'[i] = IF i = k THEN [releases[i] EXCEPT !.draft = FALSE] ELSE releases[i]
    BY DEF TypeInv
  <2> QED BY <2>1, <2>2 DEF ReleaseRec
<1>3. \A i \in DOMAIN releases : releases'[i].draft => releases[i].draft
  BY <1>2
<1> QED BY <1>1, <1>2, <1>3 DEF SameReleases, ReleasesGrow

\* An asset is uploaded.
LEMMA ReleaseUploaded ==
    ASSUME TypeInv, Upload
    PROVE  /\ SameReleases
           /\ \A i \in DOMAIN releases : /\ i # job.release => releases'[i] = releases[i]
                                         /\ releases'[i].draft = releases[i].draft
<1>1. PICK bytes \in {"good", "damaged"} :
         \E file : releases' = [releases EXCEPT ![job.release].files[file] = bytes]
  BY DEF Upload
<1>4. PICK file : releases' = [releases EXCEPT ![job.release].files[file] = bytes]
  BY <1>1
<1>2. DOMAIN releases' = DOMAIN releases
  BY <1>4 DEF TypeInv
<1>3. ASSUME NEW i \in DOMAIN releases
      PROVE  /\ releases'[i].tag = releases[i].tag /\ releases'[i].plan = releases[i].plan
             /\ releases'[i].attempt = releases[i].attempt /\ releases'[i].run = releases[i].run
             /\ releases'[i].draft = releases[i].draft
             /\ i # job.release => releases'[i] = releases[i]
  <2>1. releases[i] \in ReleaseRec
    BY DEF TypeInv
  <2>2. releases'[i] = IF i = job.release
                       THEN [releases[i] EXCEPT !.files = [releases[i].files EXCEPT ![file] = bytes]]
                       ELSE releases[i]
    BY <1>4 DEF TypeInv
  <2> QED BY <2>1, <2>2 DEF ReleaseRec
<1> QED BY <1>2, <1>3 DEF SameReleases, ReleasesGrow

\* Nothing changes among the releases.
LEMMA SameIsSame == ASSUME releases' = releases PROVE SameReleases
BY DEF SameReleases, ReleasesGrow

\* Bytes
LEMMA IntactSame ==
    ASSUME Intact, releases' = releases, \A w \in wire' : w.kind = "publish" => w \in wire,
           job'.pc = "publish" => job.pc = "publish" /\ job'.release = job.release
    PROVE  Intact'
BY DEF Intact, Public, Complete, DownloadsAsSent

\* A draft more changes nothing about the bytes,
LEMMA IntactAppended ==
    ASSUME TypeInv, Intact, NEW CONSTANT d, d.draft, releases' = Append(releases, d),
           \A w \in wire' : w.kind = "publish" => w \in wire, job'.pc # "publish"
    PROVE  Intact'
<1> DEFINE n == Len(releases) + 1
<1>1. /\ DOMAIN releases' = DOMAIN releases \cup {n}
      /\ \A i \in DOMAIN releases : releases'[i] = releases[i]
      /\ releases'[n] = d
  BY ReleaseAppended
<1> HIDE DEF n
<1> QED BY <1>1 DEF Intact, Public, Complete, DownloadsAsSent

\* and only one whose bytes were read back becomes public.
LEMMA IntactPublished ==
    ASSUME TypeInv, Intact, NEW CONSTANT k, releases' = [releases EXCEPT ![k].draft = FALSE],
           k \in DOMAIN releases, Complete(releases[k]),
           \A w \in wire' : w.kind = "publish" => w \in wire, job'.pc # "publish"
    PROVE  Intact'
<1>1. /\ DOMAIN releases' = DOMAIN releases
      /\ \A i \in DOMAIN releases : /\ releases'[i].files = releases[i].files
                                    /\ i # k => releases'[i] = releases[i]
                                    /\ i = k => ~releases'[i].draft
  BY ReleasePublished DEF SameReleases
<1>2. \A i \in DOMAIN releases : Complete(releases[i])' <=> Complete(releases[i])
  BY <1>1 DEF Complete, DownloadsAsSent
<1>3. \A i \in Public' : i = k \/ i \in Public
  BY <1>1 DEF Public
<1> QED BY <1>1, <1>2, <1>3 DEF Intact, Public

\* An attempt is somewhere.
LEMMA PhaseOf == ASSUME TypeInv PROVE job.pc \in Before \/ job.pc \in Late \/ job.pc \in {"staged", "promote", "evidence"}
BY JobFields DEF PC

\* Neither a name nor the attempt changes
LEMMA PlaceUntouched ==
    ASSUME PlaceInv, UNCHANGED <<tags, releases>>, job'.pc \in Before,
           \A w \in wire' : w \in wire \/ ~Publishes(w)
    PROVE  PlaceInv'
<1>1. \A w \in wire' : w.kind \in {"draft", "publish"} => w \in wire
  BY DEF Publishes
<1>2. Named'
  BY <1>1, NamedSame, SameIsSame DEF PlaceInv
<1>3. Intact'
  <2>1. job'.pc # "publish"
    BY DEF Before
  <2> QED BY <1>1, <2>1, IntactSame DEF PlaceInv
<1>4. Settles'
  BY DEF PlaceInv, Settles, Before, Late, Publishes
<1>5. Holds'
  BY DEF Holds, Before, Late
<1> QED BY <1>2, <1>3, <1>4, <1>5 DEF PlaceInv

\* While a publication goes on, its draft would be the same.
LEMMA DraftRequestKept ==
    ASSUME TypeInv, JobInv, Grows, job.pc # "idle", job'.run = job.run, job'.plan = job.plan,
           job'.tag = job.tag, job'.build = job.build
    PROVE  DraftRequest' = DraftRequest
<1>1. Run'.channel = Run.channel /\ Run'.candidate = Run.candidate
  BY ChannelKept
<1> QED BY <1>1 DEF DraftRequest, Draft

\* The fields of the draft.
LEMMA DraftFields ==
    /\ Draft.tag = job.tag /\ Draft.plan = job.plan /\ Draft.attempt = job.build /\ Draft.draft = TRUE
    /\ Draft.files = [f \in Files |-> "none"]
    /\ Draft.run = IF Run.channel = "stable" THEN Run.candidate ELSE job.run
    /\ Untouched(Draft)
    /\ DraftRequest.kind = "draft" /\ DraftRequest.draft = Draft
BY DEF Draft, DraftRequest, Untouched

\* The draft bears the tag of the publication.
LEMMA DraftShaped ==
    ASSUME PlanInv, job.pc \in Late, TagAt(job.tag, job.plan)
    PROVE  Shaped(Draft)
BY DraftFields DEF Shaped, PlanInv, Candidates, Promotes, Late

\* Only the runs and the branch change
LEMMA PlaceElsewhere ==
    ASSUME TypeInv, JobInv, PlaceInv, Grows, UNCHANGED <<job, tags, releases, wire>>
    PROVE  PlaceInv'
<1>1. Named' /\ Intact'
  BY NamedSame, SameIsSame, IntactSame DEF PlaceInv
<1>2. Settles'
  <2>1. job.pc = "reconcile" => DraftRequest' = DraftRequest
    BY DraftRequestKept
  <2> QED BY <2>1 DEF PlaceInv, Settles, Publishes
<1>3. Holds'
  BY DEF PlaceInv, Holds, TagAt, Naming
<1> QED BY <1>1, <1>2, <1>3 DEF PlaceInv

\* A request about a publication is lost
LEMMA PlaceLost ==
    ASSUME TypeInv, PlanInv, PlaceInv, LostPublishing
    PROVE  PlaceInv'
<1>1. /\ job.pc \in {"tag", "create", "publish"} /\ wire = {}
      /\ job'.pc = "idle" /\ UNCHANGED <<tags, releases>>
  BY DEF LostPublishing, Unanswered, github, Idle, PlaceInv, Settles, Late
<1>2. PICK w : /\ wire' = {w}
               /\ \/ job.pc = "tag" /\ w = TagRequest
                  \/ job.pc = "create" /\ w = DraftRequest
                  \/ job.pc = "publish" /\ w = PublishRequest
  BY <1>1 DEF LostPublishing, Unanswered
<1>3. Settles' /\ Holds'
  BY <1>1, <1>2 DEF Settles, Holds, Late
<1>4. Named'
  <2>1. CASE w = DraftRequest /\ job.pc = "create"
    <3>1. PICK d : d = Draft
      OBVIOUS
    <3>2. Shaped(d) /\ Untouched(d) /\ Naming(d.tag) = {}
      BY <2>1, <3>1, DraftShaped, DraftFields DEF PlaceInv, Holds, Late
    <3>3. (Shaped(d) /\ Untouched(d) /\ Naming(d.tag) = {})'
      BY <1>1, <3>2 DEF Shaped, TagAt, Untouched, Naming
    <3>4. \A v \in wire' : v.draft = d
      BY <1>2, <2>1, <3>1, DraftFields
    <3>5. (\A i \in DOMAIN releases : Shaped(releases[i]))'
          /\ (\A i, j \in DOMAIN releases : releases[i].tag = releases[j].tag => i = j)'
      BY <1>1 DEF PlaceInv, Named, Shaped, TagAt
    <3> QED BY <3>3, <3>4, <3>5 DEF Named
  <2>2. CASE w.kind # "draft"
    BY <1>1, <1>2, <2>2, NamedSame, SameIsSame DEF PlaceInv
  <2> QED BY <1>2, <2>1, <2>2 DEF TagRequest, PublishRequest
<1>5. Intact'
  <2>1. CASE w = PublishRequest /\ job.pc = "publish"
    <3>1. w.release \in DOMAIN releases /\ Complete(releases[w.release])
      BY <2>1 DEF PlaceInv, Holds, Intact, PublishRequest
    <3> QED BY <1>1, <1>2, <3>1 DEF PlaceInv, Intact, Public, Complete, DownloadsAsSent
  <2>2. CASE w.kind # "publish"
    BY <1>1, <1>2, <2>2, IntactSame DEF PlaceInv
  <2> QED BY <1>2, <2>1, <2>2 DEF TagRequest, DraftRequest
<1> QED BY <1>3, <1>4, <1>5 DEF PlaceInv

\* The answer to the draft is lost, and the attempt looks for it.
LEMMA PlaceReconciles ==
    ASSUME TypeInv, JobInv, PlanInv, PlaceInv, Grows, Reconciles
    PROVE  PlaceInv'
<1>1. /\ job.pc = "create" /\ wire = {} /\ UNCHANGED <<tags, releases>> /\ wire' = {DraftRequest}
      /\ job'.pc = "reconcile" /\ job'.run = job.run /\ job'.plan = job.plan
      /\ job'.tag = job.tag /\ job'.build = job.build
  BY DEF Reconciles, Unanswered, github, PlaceInv, Settles, Late, TypeInv, JobRec
<1>2. PICK w \in {DraftRequest}, d \in {Draft} : TRUE
  OBVIOUS
<1>3. w = DraftRequest'
  BY <1>1, <1>2, DraftRequestKept
<1>4. Settles'
  BY <1>1, <1>2, <1>3 DEF Settles, Late
<1>5. Holds'
  BY <1>1 DEF PlaceInv, Holds, Late, TagAt
<1>6. Named'
  <2>1. Shaped(d) /\ Untouched(d) /\ Naming(d.tag) = {}
    BY <1>1, <1>2, DraftShaped, DraftFields DEF PlaceInv, Holds, Late
  <2>2. (Shaped(d) /\ Untouched(d) /\ Naming(d.tag) = {})'
    BY <1>1, <2>1 DEF Shaped, TagAt, Untouched, Naming
  <2>3. \A v \in wire' : v.draft = d
    BY <1>1, <1>2, DraftFields
  <2>4. (\A i \in DOMAIN releases : Shaped(releases[i]))'
        /\ (\A i, j \in DOMAIN releases : releases[i].tag = releases[j].tag => i = j)'
    BY <1>1 DEF PlaceInv, Named, Shaped, TagAt
  <2> QED BY <2>2, <2>3, <2>4 DEF Named
<1>7. Intact'
  BY <1>1, DraftFields, IntactSame DEF PlaceInv
<1> QED BY <1>4, <1>5, <1>6, <1>7 DEF PlaceInv

\* The tag is created.
LEMMA PlaceTagged ==
    ASSUME TypeInv, PlaceInv, Tagged
    PROVE  PlaceInv'
<1>1. /\ job.pc = "tag" /\ wire' = wire /\ wire = {} /\ releases' = releases
      /\ tags' = tags \cup {[tag |-> job.tag, source |-> job.plan.source]}
      /\ EnsureAbsent(job.tag)
      /\ job'.pc = "create" /\ job'.plan = job.plan /\ job'.tag = job.tag
  <2>1. Apply(TagRequest) /\ TagRequest.kind = "tag" /\ TagRequest.tag = job.tag
        /\ TagRequest.source = job.plan.source
    BY DEF Tagged, Confirmed, TagRequest
  <2>2. releases' = releases /\ tags' = tags \cup {[tag |-> job.tag, source |-> job.plan.source]}
    BY <2>1 DEF Apply
  <2> QED BY <2>2 DEF Tagged, Confirmed, PlaceInv, Settles, Late, TypeInv, JobRec
<1>2. Settles'
  BY <1>1 DEF Settles, Late
<1>3. Named' /\ Intact'
  BY <1>1, NamedSame, SameIsSame, IntactSame DEF PlaceInv
<1>4. Holds'
  BY <1>1 DEF Holds, TagAt, EnsureAbsent, Naming
<1> QED BY <1>2, <1>3, <1>4 DEF PlaceInv

\* The draft is created.
LEMMA PlaceDrafted ==
    ASSUME TypeInv, PlanInv, PlaceInv, Drafted
    PROVE  PlaceInv'
<1>1. /\ job.pc = "create" /\ wire' = wire /\ wire = {} /\ tags' = tags
      /\ releases' = Append(releases, Draft)
      /\ job'.pc = "upload" /\ job'.plan = job.plan /\ job'.tag = job.tag
      /\ job'.release = Len(releases) + 1
  <2>1. Apply(DraftRequest) /\ DraftRequest.kind = "draft" /\ DraftRequest.draft = Draft
    BY DraftFields DEF Drafted, Confirmed
  <2>2. tags' = tags /\ releases' = Append(releases, Draft)
    BY <2>1 DEF Apply
  <2> QED BY <2>2 DEF Drafted, Confirmed, PlaceInv, Settles, Late, TypeInv, JobRec
<1>2. PICK d : d = Draft
  OBVIOUS
<1>3. Shaped(d) /\ Naming(d.tag) = {} /\ d.draft /\ TagAt(job.tag, job.plan)
  BY <1>1, <1>2, DraftShaped, DraftFields DEF PlaceInv, Holds, Late
<1>4. Settles'
  BY <1>1 DEF Settles, Late
<1>5. Named'
  BY <1>1, <1>2, <1>3, NamedAppended DEF PlaceInv
<1>6. Intact'
  BY <1>1, <1>2, <1>3, IntactAppended DEF PlaceInv
<1>7. Holds'
  <2>1. Len(releases) + 1 \in DOMAIN releases' /\ releases'[Len(releases) + 1] = d
    BY <1>1, <1>2, ReleaseAppended
  <2>2. d.tag = job.tag /\ d.plan = job.plan /\ d.draft
    BY <1>2, DraftFields
  <2> QED BY <1>1, <1>3, <2>1, <2>2 DEF Holds, TagAt
<1> QED BY <1>4, <1>5, <1>6, <1>7 DEF PlaceInv

\* The draft becomes public.
LEMMA PlacePublished ==
    ASSUME TypeInv, PlaceInv, Published
    PROVE  PlaceInv'
<1>1. /\ job.pc = "publish" /\ wire' = wire /\ wire = {} /\ tags' = tags
      /\ releases' = [releases EXCEPT ![job.release].draft = FALSE]
      /\ job'.pc \in {"idle", "evidence"}
      /\ job.release \in DOMAIN releases /\ Complete(releases[job.release])
  <2>1. Apply(PublishRequest) /\ PublishRequest.kind = "publish" /\ PublishRequest.release = job.release
    BY DEF Published, Confirmed, PublishRequest
  <2>2. tags' = tags /\ releases' = [releases EXCEPT ![job.release].draft = FALSE]
    BY <2>1 DEF Apply
  <2>3. job'.pc \in {"idle", "evidence"}
    BY DEF Published, Idle, TypeInv, JobRec
  <2> QED BY <2>2, <2>3 DEF Published, Confirmed, PlaceInv, Settles, Holds, Intact, Late
<1>2. Settles' /\ Holds'
  BY <1>1 DEF Settles, Holds, Late
<1>3. PICK k : k = job.release
  OBVIOUS
<1>4. Named'
  <2>1. SameReleases
    BY <1>1, <1>3, ReleasePublished
  <2> QED BY <1>1, <2>1, NamedSame DEF PlaceInv
<1>5. Intact'
  BY <1>1, <1>3, IntactPublished DEF PlaceInv
<1> QED BY <1>2, <1>4, <1>5 DEF PlaceInv

\* The draft is found after its answer was lost.
LEMMA PlaceReconciled ==
    ASSUME TypeInv, PlanInv, PlaceInv, ReconcileCreatedRelease
    PROVE  PlaceInv'
<1>1. /\ job.pc = "reconcile" /\ wire' = wire /\ UNCHANGED <<tags, releases>>
      /\ job'.pc = "upload" /\ job'.plan = job.plan /\ job'.tag = job.tag
      /\ job'.release \in DOMAIN releases /\ releases[job'.release] = Draft
      /\ TagAt(job.tag, job.plan)
  <2>1. PICK i \in CreateReadback(job.tag) :
            releases[i] = Draft /\ job' = [job EXCEPT !.pc = "upload", !.release = i]
    BY DEF ReconcileCreatedRelease
  <2>2. job'.pc = "upload" /\ job'.plan = job.plan /\ job'.tag = job.tag /\ job'.release = i
    BY <2>1 DEF TypeInv, JobRec
  <2> QED BY <2>1, <2>2 DEF ReconcileCreatedRelease, github, CreateReadback, TagAt
<1>2. wire = {}
  <2> SUFFICES ASSUME NEW w \in wire PROVE FALSE
    OBVIOUS
  <2>1. w.kind = "draft" /\ w.draft.tag = job.tag
    BY <1>1, DraftFields DEF PlaceInv, Settles
  <2>2. Naming(job.tag) = {}
    BY <2>1 DEF PlaceInv, Named
  <2>3. job'.release \in Naming(job.tag)
    BY <1>1, DraftFields DEF Naming
  <2> QED BY <2>2, <2>3
<1>3. Settles'
  BY <1>1, <1>2 DEF Settles, Late
<1>4. Named' /\ Intact'
  BY <1>1, NamedSame, SameIsSame, IntactSame DEF PlaceInv
<1>5. Holds'
  BY <1>1, DraftFields DEF Holds, TagAt
<1> QED BY <1>3, <1>4, <1>5 DEF PlaceInv

\* An asset is uploaded.
LEMMA PlaceUploaded ==
    ASSUME TypeInv, PlaceInv, Upload
    PROVE  PlaceInv'
<1>1. /\ job.pc = "upload" /\ wire' = wire /\ wire = {} /\ tags' = tags
      /\ job'.pc \in {"upload", "verify"} /\ job'.plan = job.plan /\ job'.tag = job.tag
      /\ job'.release = job.release
  <2>1. job' = job \/ job' = [job EXCEPT !.pc = "verify"]
    BY DEF Upload, Goto
  <2> QED BY <2>1 DEF Upload, PlaceInv, Settles, Late, TypeInv, JobRec
<1>2. /\ SameReleases
      /\ \A i \in DOMAIN releases : /\ i # job.release => releases'[i] = releases[i]
                                    /\ releases'[i].draft = releases[i].draft
  BY ReleaseUploaded
<1>3. /\ job.release \in DOMAIN releases /\ releases[job.release].draft
      /\ releases[job.release].tag = job.tag /\ releases[job.release].plan = job.plan
      /\ TagAt(job.tag, job.plan)
  BY <1>1 DEF PlaceInv, Holds, Late
<1>4. Settles'
  BY <1>1 DEF Settles, Late
<1>5. Named'
  BY <1>1, <1>2, NamedSame DEF PlaceInv
<1>6. Holds'
  BY <1>1, <1>2, <1>3 DEF Holds, TagAt, SameReleases, ReleasesGrow
<1>7. Intact'
  BY <1>1, <1>2, <1>3 DEF PlaceInv, Intact, Public, Complete, DownloadsAsSent, SameReleases
<1> QED BY <1>4, <1>5, <1>6, <1>7 DEF PlaceInv

\* The bytes are read back.
LEMMA PlaceVerified ==
    ASSUME TypeInv, PlaceInv, VerifyUploads
    PROVE  PlaceInv'
<1>1. /\ job.pc = "verify" /\ wire' = wire /\ wire = {} /\ UNCHANGED <<tags, releases>>
      /\ job'.pc = "publish" /\ job'.plan = job.plan /\ job'.tag = job.tag
      /\ job'.release = job.release /\ Complete(releases[job.release])
  BY DEF VerifyUploads, Goto, github, PlaceInv, Settles, Late, TypeInv, JobRec
<1>2. Settles'
  BY <1>1 DEF Settles, Late
<1>3. Named'
  BY <1>1, NamedSame, SameIsSame DEF PlaceInv
<1>4. Holds'
  BY <1>1 DEF PlaceInv, Holds, TagAt, Late
<1>5. Intact'
  BY <1>1 DEF PlaceInv, Intact, Public, Complete, DownloadsAsSent
<1> QED BY <1>2, <1>3, <1>4, <1>5 DEF PlaceInv

\* A publication begins
LEMMA PlaceBegins ==
    ASSUME TypeInv, PlaceInv, UNCHANGED <<tags, releases, wire>>, wire = {},
           job'.pc \in {"staged", "promote", "tag"}
    PROVE  PlaceInv'
<1>1. Named'
  BY NamedSame, SameIsSame DEF PlaceInv
<1>2. Intact'
  BY IntactSame DEF PlaceInv
<1>3. Settles' /\ Holds'
  BY DEF Settles, Holds, Late
<1> QED BY <1>1, <1>2, <1>3 DEF PlaceInv

\* The number is spent.
LEMMA PlaceConsumed ==
    ASSUME TypeInv, PlaceInv, Consumed
    PROVE  PlaceInv'
<1>1. Apply(ConsumeRequest) /\ ConsumeRequest.kind = "ledger"
  BY DEF Consumed, Confirmed, ConsumeRequest
<1>2. UNCHANGED <<tags, releases>>
  BY <1>1 DEF Apply
<1>3. wire' = wire /\ wire = {} /\ job'.pc = "tag"
  BY Moves DEF Consumed, Confirmed, PlaceInv, Settles
<1> QED BY <1>2, <1>3, PlaceBegins

\* A late request arrives, or never does.
LEMMA PlaceLanded ==
    ASSUME TypeInv, JobInv, PlanInv, PlaceInv, Grows, NEW w \in wire, Land(w)
    PROVE  PlaceInv'
<1>1. /\ wire' = wire \ {w} /\ job' = job /\ runs' = runs
      /\ (Accepts(w) /\ Apply(w)) \/ UNCHANGED <<tags, releases>>
  BY DEF Land, github
<1>2. job.pc \in Before \cup {"reconcile"}
  BY PhaseOf DEF PlaceInv, Settles
<1>3. Settles'
  <2>1. job.pc = "reconcile" => DraftRequest' = DraftRequest
    BY <1>1, DraftRequestKept
  <2> QED BY <1>1, <1>2, <2>1 DEF PlaceInv, Settles, Publishes, Before, Late
<1>4. CASE UNCHANGED <<tags, releases>>
  <2>1. Named'
    BY <1>1, <1>4, NamedSame, SameIsSame DEF PlaceInv
  <2>2. Intact'
    BY <1>1, <1>4, IntactSame DEF PlaceInv
  <2>3. Holds'
    BY <1>1, <1>4 DEF PlaceInv, Holds, TagAt, Naming
  <2> QED BY <1>3, <2>1, <2>2, <2>3 DEF PlaceInv
<1>5. ASSUME tags \subseteq tags' PROVE Holds'
  BY <1>1, <1>2, <1>5 DEF PlaceInv, Holds, TagAt, Before, Late
<1>6. CASE w.kind = "tag" /\ Apply(w)
  <2>1. releases' = releases /\ tags \subseteq tags'
    BY <1>6 DEF Apply
  <2>2. Named'
    BY <1>1, <2>1, NamedSame, SameIsSame DEF PlaceInv
  <2>3. Intact'
    BY <1>1, <2>1, IntactSame DEF PlaceInv
  <2> QED BY <1>3, <1>5, <2>1, <2>2, <2>3 DEF PlaceInv
<1>7. CASE w.kind = "draft" /\ Apply(w)
  <2>1. releases' = Append(releases, w.draft) /\ tags' = tags
    BY <1>7 DEF Apply
  <2>2. Shaped(w.draft) /\ Untouched(w.draft) /\ Naming(w.draft.tag) = {}
    BY <1>7 DEF PlaceInv, Named
  <2>3. \A v \in wire' : v.kind \notin {"tag", "draft", "publish"}
    BY <1>1, <1>7 DEF PlaceInv, Settles, Publishes
  <2>4. Named'
    BY <2>1, <2>2, <2>3, NamedAppended DEF PlaceInv
  <2>5. Intact'
    BY <1>1, <1>2, <2>1, <2>2, <2>3, IntactAppended DEF PlaceInv, Untouched, Before
  <2> QED BY <1>3, <1>5, <2>1, <2>4, <2>5 DEF PlaceInv
<1>8. CASE w.kind = "publish" /\ Apply(w)
  <2>1. releases' = [releases EXCEPT ![w.release].draft = FALSE] /\ tags' = tags
    BY <1>8 DEF Apply
  <2>2. w.release \in DOMAIN releases /\ Complete(releases[w.release])
    BY <1>8 DEF PlaceInv, Intact
  <2>3. SameReleases
    BY <2>1, ReleasePublished
  <2>4. Named'
    BY <1>1, <2>1, <2>3, NamedSame DEF PlaceInv
  <2>5. Intact'
    BY <1>1, <1>2, <2>1, <2>2, IntactPublished DEF PlaceInv, Before
  <2> QED BY <1>3, <1>5, <2>1, <2>4, <2>5 DEF PlaceInv
<1> QED BY <1>1, <1>4, <1>6, <1>7, <1>8 DEF Apply

\* PlaceInv is inductive.
LEMMA PlacePreserved ==
    ASSUME CoreInv, PlanInv, PlaceInv, Next
    PROVE  PlaceInv'
<1>0. TypeInv /\ JobInv /\ Grows
  BY CoreNext DEF CoreInv
<1>1. CASE Elsewhere
  BY <1>0, <1>1, PlaceElsewhere DEF Elsewhere, github
<1>2. CASE Withdraws
  BY <1>2, PlaceUntouched DEF Withdraws
<1>3. CASE LostPublishing
  BY <1>0, <1>3, PlaceLost
<1>4. CASE Reconciles
  BY <1>0, <1>4, PlaceReconciles
<1>5. CASE Consumed
  BY <1>0, <1>5, PlaceConsumed
<1>6. CASE Tagged
  BY <1>0, <1>6, PlaceTagged
<1>7. CASE Drafted
  BY <1>0, <1>7, PlaceDrafted
<1>8. CASE Published
  BY <1>0, <1>8, PlacePublished
<1>9. CASE CheckCandidate \/ VerifyPromotion
  <2>1. wire = {} /\ UNCHANGED <<tags, releases, wire>>
    BY <1>9 DEF CheckCandidate, VerifyPromotion, Settled, github
  <2>2. job'.pc \in {"staged", "promote"}
    BY <1>0, <1>9, Moves
  <2> QED BY <1>0, <2>1, <2>2, PlaceBegins
<1>10. CASE ReconcileCreatedRelease
  BY <1>0, <1>10, PlaceReconciled
<1>11. CASE Upload
  BY <1>0, <1>11, PlaceUploaded
<1>12. CASE VerifyUploads
  BY <1>0, <1>12, PlaceVerified
<1>13. CASE StoreEvidence
  <2>1. UNCHANGED <<tags, releases, wire>> /\ job'.pc \in Before
    BY <1>0, <1>13, Moves DEF StoreEvidence, github
  <2> QED BY <2>1, PlaceUntouched
<1>14. ASSUME NEW w \in wire, Land(w) PROVE PlaceInv'
  BY <1>0, <1>14, PlaceLanded
<1> QED BY <1>0, <1>1, <1>2, <1>3, <1>4, <1>5, <1>6, <1>7, <1>8, <1>9, <1>10, <1>11, <1>12, <1>13,
           <1>14, NextCases

\* The inductive invariant of a publication.
ReleaseInv == CoreInv /\ Running /\ PlanInv /\ PlaceInv

\* It holds at first.
LEMMA ReleaseInit == Init => ReleaseInv
<1> SUFFICES ASSUME Init PROVE ReleaseInv
  OBVIOUS
<1>1. job.pc = "idle" /\ wire = {} /\ releases = <<>>
  BY DEF Init, Idle
<1>2. DOMAIN releases = {}
  BY <1>1
<1>3. PlaceInv
  BY <1>1, <1>2 DEF PlaceInv, Settles, Named, Holds, Intact, Public, Late
<1>4. Running /\ PlanInv
  BY <1>1 DEF Running, PlanInv, Candidates, Promotes, Late
<1> QED BY <1>3, <1>4, CoreInit DEF ReleaseInv

\* Every step keeps it.
LEMMA ReleaseNext == ASSUME ReleaseInv, Next PROVE ReleaseInv'
BY CoreNext, RunningPreserved, PlanPreserved, PlacePreserved DEF ReleaseInv, CoreInv

\* A step that changes nothing keeps it.
LEMMA ReleaseStutter == ASSUME ReleaseInv, UNCHANGED vars PROVE ReleaseInv'
<1>1. CoreInv'
  BY CoreStutter DEF ReleaseInv
<1>2. Running' /\ PlanInv'
  BY DEF ReleaseInv, Running, PlanInv, Candidates, Promotes, Run, Reserved, vars, github
<1>3. Grows
  <2>1. RunsGrow
    BY RunsKept DEF vars, ReleaseInv, CoreInv
  <2>2. head <= head'
    BY HeadKept DEF vars, ReleaseInv, CoreInv
  <2> QED BY <2>1, <2>2 DEF vars, github, Grows, ReleasesGrow
<1>4. PlaceInv'
  BY <1>3, PlaceElsewhere DEF ReleaseInv, CoreInv, vars, github
<1> QED BY <1>1, <1>2, <1>4 DEF ReleaseInv

(* One publication at a time, of a reserved plan, under names nobody else   *)
(* has, of bytes that were read back: release_versioned.py                  *)
(* publish_versioned, promote and _publish_prepared.                        *)
THEOREM ReleaseCorrect == Spec => []ReleaseInv
<1>1. ASSUME ReleaseInv, [Next]_vars PROVE ReleaseInv'
  BY <1>1, ReleaseNext, ReleaseStutter
<1> QED BY ReleaseInit, <1>1, PTL DEF Spec

(* A public release has every asset undamaged, a tag at the source of its   *)
(* plan, and a name of its own.                                             *)
THEOREM PublicCorrect == Spec => []PublicComplete
<1>1. ReleaseInv => PublicComplete
  <2> SUFFICES ASSUME ReleaseInv, NEW i \in Public
               PROVE  /\ Complete(releases[i])
                      /\ [tag |-> releases[i].tag, source |-> releases[i].plan.source] \in tags
                      /\ Naming(releases[i].tag) = {i}
    BY DEF PublicComplete
  <2>1. i \in DOMAIN releases
    BY DEF Public
  <2> QED BY <2>1 DEF ReleaseInv, PlaceInv, Intact, Named, Shaped, TagAt, Naming
<1> QED BY <1>1, ReleaseCorrect, PTL

-----------------------------------------------------------------------------
(* The order of publications.                                               *)

\* Some run has reserved the plan.
IsReserved(plan) == \E r \in Reserved : ledger.plans[r] = plan

\* Nothing public stands in the way of a plan under a tag.
Ahead(tag, plan) ==
    \A i \in Public : IF tag.channel = "stable" THEN releases[i].plan.number <= plan.number
                      ELSE releases[i].plan.number < plan.number

\* The base has a stable tag.
Closed(base) == \E t \in tags : t.tag = StableTag(base)

\* A plan may become public under a tag.
MayAppear(tag, plan) ==
    /\ IsReserved(plan)
    /\ Ahead(tag, plan)
    /\ tag.channel = "stable" => plan.tag \in PublishedTags
    /\ tag.channel \in {"beta", "rc"} => ~Closed(tag.base)

\* What is public was reserved, and what is about to be may appear.
Turn ==
    /\ \A i \in Public : IsReserved(releases[i].plan) /\ releases[i].plan.tag \in PublishedTags
    /\ Candidates => MayAppear(job.plan.tag, job.plan)
    /\ Promotes => MayAppear(StableTag(job.plan.tag.base), job.plan)
    /\ \A w \in wire : w.kind = "publish" =>
          MayAppear(releases[w.release].tag, releases[w.release].plan)

\* Nothing becomes public.
PublicSame == Public' = Public /\ ReleasesGrow

\* No base is closed.
ClosedSame == \A base : Closed(base)' => Closed(base)

\* The attempt is at the publication it was at.
SameTurn ==
    \/ job'.pc \in Before \cup {"evidence"}
    \/ /\ Candidates' => Candidates
       /\ Promotes' => Promotes
       /\ job'.plan = job.plan

\* Then what may appear still may,
LEMMA MayStillAppear ==
    ASSUME PublicSame, ClosedSame, PlansKept, NEW CONSTANT tag, NEW CONSTANT plan, MayAppear(tag, plan)
    PROVE  MayAppear(tag, plan)'
<1>1. IsReserved(plan)'
  BY DEF MayAppear, IsReserved, PlansKept, Reserved
<1>2. PublishedTags \subseteq PublishedTags'
  BY DEF PublicSame, ReleasesGrow, PublishedTags, Public
<1>3. Ahead(tag, plan)'
  BY DEF MayAppear, Ahead, PublicSame, ReleasesGrow, Public
<1> QED BY <1>1, <1>2, <1>3 DEF MayAppear, ClosedSame

\* and Turn is kept.
LEMMA TurnKept ==
    ASSUME PlaceInv, Turn, PublicSame, ClosedSame, PlansKept, SameTurn,
           \A w \in wire' : w.kind = "publish" => w \in wire
    PROVE  Turn'
<1>1. \A i \in Public' : IsReserved(releases[i].plan)' /\ releases'[i].plan.tag \in PublishedTags'
  <2> SUFFICES ASSUME NEW CONSTANT i, i \in Public
               PROVE  IsReserved(releases[i].plan)' /\ releases'[i].plan.tag \in PublishedTags'
    BY DEF PublicSame
  <2>1. PICK plan : plan = releases[i].plan
    OBVIOUS
  <2>2. releases'[i].plan = plan
    BY <2>1 DEF PublicSame, ReleasesGrow, Public
  <2>3. IsReserved(plan) /\ plan.tag \in PublishedTags
    BY <2>1 DEF Turn
  <2>4. IsReserved(plan)' /\ plan.tag \in PublishedTags'
    BY <2>3 DEF PublicSame, ReleasesGrow, PublishedTags, Public, IsReserved, PlansKept, Reserved
  <2> QED BY <2>2, <2>4 DEF IsReserved
<1>2. ASSUME Candidates' PROVE MayAppear(job.plan.tag, job.plan)'
  <2>1. Candidates /\ job'.plan = job.plan
    BY <1>2 DEF SameTurn, Candidates, Before, Late
  <2>2. PICK plan : plan = job.plan
    OBVIOUS
  <2>3. MayAppear(plan.tag, plan)
    BY <2>1, <2>2 DEF Turn
  <2>4. MayAppear(plan.tag, plan)'
    BY <2>3, MayStillAppear
  <2> QED BY <2>1, <2>2, <2>4
<1>3. ASSUME Promotes' PROVE MayAppear(StableTag(job.plan.tag.base), job.plan)'
  <2>1. Promotes /\ job'.plan = job.plan
    BY <1>3 DEF SameTurn, Promotes, Before, Late
  <2>2. PICK plan \in {job.plan}, tag \in {StableTag(job.plan.tag.base)} : TRUE
    OBVIOUS
  <2>3. MayAppear(tag, plan)
    BY <2>1, <2>2 DEF Turn
  <2>4. MayAppear(tag, plan)'
    BY <2>3, MayStillAppear
  <2>5. StableTag(job.plan.tag.base)' = tag
    BY <2>1, <2>2 DEF StableTag
  <2> QED BY <2>1, <2>2, <2>4, <2>5
<1>4. ASSUME NEW CONSTANT w, w \in wire', w.kind = "publish"
      PROVE  MayAppear(releases[w.release].tag, releases[w.release].plan)'
  <2>1. w \in wire /\ w.release \in DOMAIN releases
    BY <1>4 DEF PlaceInv, Intact
  <2>2. PICK plan \in {releases[w.release].plan}, tag \in {releases[w.release].tag} : TRUE
    OBVIOUS
  <2>3. MayAppear(tag, plan)
    BY <1>4, <2>1, <2>2 DEF Turn
  <2>4. MayAppear(tag, plan)'
    BY <2>3, MayStillAppear
  <2>5. releases'[w.release].plan = plan /\ releases'[w.release].tag = tag
    BY <2>1, <2>2 DEF PublicSame, ReleasesGrow
  <2> QED BY <2>4, <2>5
<1> QED BY <1>1, <1>2, <1>3, <1>4 DEF Turn

\* The order checks against the ledger are checks against what is public.
LEMMA OrderChecked ==
    ASSUME Turn, NEW plan
    PROVE  /\ (\A o \in Reserved : ledger.plans[o].tag \in PublishedTags => ledger.plans[o].number < plan.number)
                  => \A i \in Public : releases[i].plan.number < plan.number
           /\ (\A o \in Reserved : ledger.plans[o].tag \in PublishedTags => ledger.plans[o].number <= plan.number)
                  => \A i \in Public : releases[i].plan.number <= plan.number
BY DEF Turn, IsReserved

\* Every step of a publication but its first is such a step.
LEMMA SameTurnOf ==
    ASSUME TypeInv, JobInv, Grows
    PROVE  /\ job' = job => SameTurn
           /\ Proceeds \/ Consumed => SameTurn
<1>1. ASSUME Proceeds PROVE SameTurn
  <2>1. Run'.channel = Run.channel /\ job'.plan = job.plan
    BY <1>1, ChannelKept DEF Proceeds, Late
  <2> QED BY <1>1, <2>1 DEF SameTurn, Proceeds, Candidates, Promotes, Late
<1>2. ASSUME Consumed PROVE SameTurn
  <2>1. /\ job.pc \in {"staged", "promote"} /\ job'.pc = "tag"
        /\ job'.run = job.run /\ job'.plan = job.plan
    BY <1>2, Moves
  <2>2. Run'.channel = Run.channel
    BY <2>1, ChannelKept
  <2> QED BY <2>1, <2>2 DEF SameTurn, Candidates, Promotes, Late, JobInv
<1>3. ASSUME job' = job PROVE SameTurn
  <2>1. CASE job.pc \in Late \cup {"staged", "promote"}
    BY <1>1, <1>3, <2>1 DEF Proceeds
  <2> QED BY <1>3, <2>1, PhaseOf DEF SameTurn, Before
<1> QED BY <1>1, <1>2, <1>3

\* Release k becomes public, when it may.
Appears(k) ==
    /\ k \in DOMAIN releases
    /\ releases' = [releases EXCEPT ![k].draft = FALSE]
    /\ tags' = tags
    /\ MayAppear(releases[k].tag, releases[k].plan)
    /\ job'.pc \in Before \cup {"evidence"}
    /\ \A w \in wire' : w.kind # "publish"

\* Turn is kept when a release becomes public:  what waited for its turn was
\* this one, for there is one publication at a time.
LEMMA TurnAppears ==
    ASSUME TypeInv, PlaceInv, Turn, PlansKept, NEW CONSTANT k, Appears(k)
    PROVE  Turn'
<1>1. /\ SameReleases
      /\ \A i \in DOMAIN releases : /\ i # k => releases'[i] = releases[i]
                                    /\ i = k => ~releases'[i].draft
  BY ReleasePublished DEF Appears
<1>2. PublishedTags \subseteq PublishedTags' /\ releases[k].tag \in PublishedTags'
      /\ \A i \in Public' : i = k \/ i \in Public
  BY <1>1 DEF PublishedTags, Public, SameReleases, ReleasesGrow, Appears
<1>3. \A plan : IsReserved(plan) => \E r \in Reserved' : ledger'.plans[r] = plan
  BY DEF IsReserved, PlansKept, Reserved
<1>4. IsReserved(releases[k].plan) /\ releases[k].plan.tag \in PublishedTags'
  <2>1. Shaped(releases[k])
    BY DEF PlaceInv, Named, Appears
  <2>2. CASE releases[k].tag = releases[k].plan.tag
    BY <1>2, <2>2 DEF Appears, MayAppear
  <2>3. CASE releases[k].tag = StableTag(releases[k].plan.tag.base)
    BY <1>2, <2>3 DEF Appears, MayAppear, StableTag
  <2> QED BY <2>1, <2>2, <2>3 DEF Shaped
<1>5. \A i \in Public' : IsReserved(releases[i].plan)' /\ releases'[i].plan.tag \in PublishedTags'
  <2> SUFFICES ASSUME NEW CONSTANT i, i \in Public'
               PROVE  IsReserved(releases[i].plan)' /\ releases'[i].plan.tag \in PublishedTags'
    OBVIOUS
  <2>1. i \in DOMAIN releases /\ releases'[i].plan = releases[i].plan
    BY <1>1 DEF SameReleases, ReleasesGrow, Public
  <2>2. IsReserved(releases[i].plan) /\ releases[i].plan.tag \in PublishedTags'
    BY <1>2, <1>4 DEF Turn
  <2> QED BY <1>3, <2>1, <2>2 DEF IsReserved
<1>6. ~Candidates' /\ ~Promotes' /\ \A w \in wire' : w.kind # "publish"
  BY DEF Appears, Candidates, Promotes, Before, Late
<1> QED BY <1>5, <1>6 DEF Turn

\* What an attempt is about to make public may appear,
LEMMA PublishingAppears ==
    ASSUME TypeInv, PlanInv, PlaceInv, Turn, job.pc = "publish"
    PROVE  /\ job.release \in DOMAIN releases
           /\ MayAppear(releases[job.release].tag, releases[job.release].plan)
<1>1. /\ job.release \in DOMAIN releases /\ releases[job.release].tag = job.tag
      /\ releases[job.release].plan = job.plan
  BY DEF PlaceInv, Holds
<1>2. CASE Run.channel # "stable"
  <2>1. Candidates
    BY <1>2 DEF Candidates, Late
  <2> QED BY <1>1, <2>1 DEF PlanInv, Turn
<1>3. CASE Run.channel = "stable"
  <2>1. Promotes
    BY <1>3 DEF Promotes, Late
  <2> QED BY <1>1, <2>1 DEF PlanInv, Turn
<1> QED BY <1>1, <1>2, <1>3

\* and does.
LEMMA PublishedAppears ==
    ASSUME TypeInv, PlanInv, PlaceInv, Turn, Published
    PROVE  Appears(job.release)
<1>1. Apply(PublishRequest) /\ PublishRequest.kind = "publish" /\ PublishRequest.release = job.release
  BY DEF Published, Confirmed, PublishRequest
<1>2. tags' = tags /\ releases' = [releases EXCEPT ![job.release].draft = FALSE]
  BY <1>1 DEF Apply
<1>3. job'.pc \in Before \cup {"evidence"} /\ wire' = wire /\ wire = {} /\ job.pc = "publish"
  BY Moves DEF Published, Confirmed, PlaceInv, Settles, Late
<1> QED BY <1>2, <1>3, PublishingAppears DEF Appears

\* Nothing becomes public when no release changes,
LEMMA PublicUnchanged == ASSUME releases' = releases PROVE PublicSame
BY DEF PublicSame, Public, ReleasesGrow

\* and when a draft is added.
LEMMA PublicAppended ==
    ASSUME TypeInv, NEW d, d.draft, releases' = Append(releases, d), ReleasesGrow
    PROVE  PublicSame
<1> DEFINE n == Len(releases) + 1
<1>1. /\ DOMAIN releases' = DOMAIN releases \cup {n}
      /\ \A i \in DOMAIN releases : releases'[i] = releases[i]
      /\ releases'[n] = d
  BY ReleaseAppended
<1> HIDE DEF n
<1> QED BY <1>1 DEF PublicSame, Public

\* A late request makes public only what may appear.
LEMMA TurnLanded ==
    ASSUME CoreInv, PlanInv, PlaceInv, Turn, PlansKept, Grows, NEW w \in wire, Land(w)
    PROVE  Turn' /\ (PublicSame \/ Appears(w.release))
<1>0. TypeInv /\ JobInv
  BY DEF CoreInv
<1>1. /\ wire' = wire \ {w} /\ job' = job
      /\ (Accepts(w) /\ Apply(w)) \/ UNCHANGED <<tags, releases>>
  BY DEF Land, github
<1>2. job.pc \in Before \cup {"reconcile"}
  BY <1>0, PhaseOf DEF PlaceInv, Settles
<1>3. SameTurn
  BY <1>0, <1>1, SameTurnOf DEF Grows
<1>4. CASE UNCHANGED <<tags, releases>>
  <2>1. PublicSame /\ ClosedSame
    BY <1>4, PublicUnchanged DEF ClosedSame, Closed
  <2> QED BY <1>1, <1>3, <2>1, TurnKept
<1>5. CASE w.kind = "tag" /\ Apply(w)
  <2>1. releases' = releases
    BY <1>5 DEF Apply
  <2>2. job.pc \in Before
    BY <1>2, <1>5, DraftFields DEF PlaceInv, Settles
  <2>3. \A v \in wire' : v.kind # "publish"
    BY <1>1, <1>5 DEF PlaceInv, Settles, Publishes
  <2>4. PublicSame
    BY <2>1, PublicUnchanged
  <2>5. \A i \in Public' : IsReserved(releases[i].plan)' /\ releases'[i].plan.tag \in PublishedTags'
    BY <2>1 DEF Turn, Public, PublishedTags, IsReserved, PlansKept, Reserved
  <2>6. ~Candidates' /\ ~Promotes'
    BY <1>1, <2>2 DEF Candidates, Promotes, Before, Late
  <2> QED BY <2>3, <2>4, <2>5, <2>6 DEF Turn
<1>6. CASE w.kind = "draft" /\ Apply(w)
  <2>1. releases' = Append(releases, w.draft) /\ tags' = tags
    BY <1>6 DEF Apply
  <2>2. w.draft.draft
    BY <1>6 DEF PlaceInv, Named, Untouched
  <2>3. PublicSame /\ ClosedSame
    BY <1>0, <2>1, <2>2, PublicAppended DEF Grows, ClosedSame, Closed
  <2> QED BY <1>1, <1>3, <2>3, TurnKept
<1>7. CASE w.kind = "publish" /\ Apply(w)
  <2>1. releases' = [releases EXCEPT ![w.release].draft = FALSE] /\ tags' = tags
    BY <1>7 DEF Apply
  <2>2. w.release \in DOMAIN releases /\ MayAppear(releases[w.release].tag, releases[w.release].plan)
    BY <1>7 DEF PlaceInv, Intact, Turn
  <2>3. job'.pc \in Before
    BY <1>1, <1>2, <1>7, DraftFields DEF PlaceInv, Settles
  <2>4. \A v \in wire' : v.kind # "publish"
    BY <1>1, <1>7 DEF PlaceInv, Settles, Publishes
  <2>5. Appears(w.release)
    BY <2>1, <2>2, <2>3, <2>4 DEF Appears
  <2> QED BY <1>0, <2>5, TurnAppears
<1>8. CASE w.kind \in {"branch", "ledger"} /\ Apply(w)
  BY <1>4, <1>8 DEF Apply
<1> QED BY <1>1, <1>4, <1>5, <1>6, <1>7, <1>8 DEF Apply

\* A publication may begin: its plan is reserved, and nothing public stands in its way.
LEMMA TurnBegins ==
    ASSUME CoreInv, PlanInv, PlaceInv, Turn, CheckCandidate \/ VerifyPromotion
    PROVE  Turn'
<1>0. TypeInv /\ JobInv
  BY DEF CoreInv
<1>1. UNCHANGED <<runs, ledger, tags, releases>> /\ wire' = wire /\ wire = {}
  BY DEF CheckCandidate, VerifyPromotion, github, Settled, Goto
<1>2. \A i \in Public' : IsReserved(releases[i].plan)' /\ releases'[i].plan.tag \in PublishedTags'
  BY <1>1 DEF Turn, Public, PublishedTags, IsReserved, Reserved
<1>3. ASSUME NEW tag, NEW plan, MayAppear(tag, plan) PROVE MayAppear(tag, plan)'
  BY <1>1, <1>3 DEF MayAppear, IsReserved, Reserved, Ahead, Public, PublishedTags, Closed
<1>4. CASE CheckCandidate
  <2>1. job.pc = "candidate" /\ job'.pc = "staged" /\ job'.plan = job.plan
    BY <1>0, <1>4, Moves
  <2>2. PICK plan : plan = job.plan
    OBVIOUS
  <2>3. VerifyReservation(job.run, plan) /\ CandidateAllowed /\ job.run \in DOMAIN runs
    BY <1>0, <1>4, <2>2 DEF CheckCandidate, PublicationAllowed, JobInv
  <2>4. job.run \in Reserved /\ ledger.plans[job.run] = plan /\ Suits(job.run, plan)
    BY <2>3 DEF VerifyReservation, CoreInv, LedgerInv, Registered, Reserved
  <2>5. Ahead(plan.tag, plan) /\ plan.tag.channel # "stable"
    BY <2>3, <2>4, OrderChecked DEF VerifyReservation, Ahead, Suits
  <2>6. plan.tag.channel \in {"beta", "rc"} => ~Closed(plan.tag.base)
    BY <2>3, <2>4 DEF CandidateAllowed, Suits, Run, Base, EnsureAbsent, Closed
  <2>7. MayAppear(plan.tag, plan)
    BY <2>4, <2>5, <2>6 DEF MayAppear, IsReserved
  <2>8. MayAppear(plan.tag, plan)'
    BY <1>3, <2>7
  <2>9. ~Promotes'
    BY <2>1 DEF Promotes, Late
  <2> QED BY <1>1, <1>2, <2>1, <2>2, <2>8, <2>9 DEF Turn
<1>5. CASE VerifyPromotion
  <2>1. job'.pc = "promote" /\ job'.plan = Candidate.plan
    BY <1>0, <1>5, Moves
  <2>2. PICK plan \in {Candidate.plan}, tag \in {StableTag(Candidate.plan.tag.base)} : TRUE
    OBVIOUS
  <2>3. VerifyPromotionOrder(plan)
    BY <1>5, <2>2 DEF VerifyPromotion
  <2>4. IsReserved(plan) /\ plan.tag \in PublishedTags
    BY <2>3, OrderedIsReserved DEF IsReserved, VerifyPromotionOrder
  <2>5. Ahead(tag, plan) /\ tag.channel = "stable"
    BY <2>2, <2>3, OrderChecked DEF VerifyPromotionOrder, Ahead, StableTag
  <2>6. MayAppear(tag, plan)
    BY <2>4, <2>5 DEF MayAppear
  <2>7. MayAppear(tag, plan)'
    BY <1>3, <2>6
  <2>8. ~Candidates' /\ StableTag(job.plan.tag.base)' = tag
    BY <2>1, <2>2 DEF Candidates, Late, StableTag
  <2> QED BY <1>1, <1>2, <2>1, <2>2, <2>7, <2>8 DEF Turn
<1> QED BY <1>4, <1>5

\* Turn is inductive.
LEMMA TurnPreserved ==
    ASSUME CoreInv, PlanInv, PlaceInv, Turn, Next
    PROVE  Turn' /\ (PublicSame \/ \E k \in DOMAIN releases : Appears(k))
<1>0. TypeInv /\ JobInv /\ Grows /\ PlansKept
  BY CoreNext DEF CoreInv
<1>1. ASSUME PublicSame, tags' = tags, SameTurn, \A w \in wire' : w.kind = "publish" => w \in wire
      PROVE  Turn' /\ PublicSame
  <2>1. ClosedSame
    BY <1>1 DEF ClosedSame, Closed
  <2> QED BY <1>0, <1>1, <2>1, TurnKept
<1>2. CASE Elsewhere
  BY <1>0, <1>1, <1>2, SameTurnOf, PublicUnchanged DEF Elsewhere, github
<1>3. CASE Withdraws
  <2>1. PublicSame /\ tags' = tags /\ SameTurn /\ \A w \in wire' : w.kind = "publish" => w \in wire
    BY <1>3, PublicUnchanged DEF Withdraws, SameTurn, Publishes
  <2> QED BY <1>1, <2>1
<1>4. CASE LostPublishing
  <2>1. /\ job.pc \in {"tag", "create", "publish"} /\ wire = {}
        /\ job'.pc = "idle" /\ UNCHANGED <<tags, releases>>
    BY <1>4 DEF LostPublishing, Unanswered, github, Idle, PlaceInv, Settles, Late
  <2>2. PICK w : /\ wire' = {w}
                 /\ w.kind = "publish" => job.pc = "publish" /\ w.release = job.release
    <3>1. TagRequest.kind = "tag" /\ DraftRequest.kind = "draft" /\ PublishRequest.release = job.release
      BY DEF TagRequest, DraftRequest, PublishRequest
    <3> QED BY <1>4, <2>1, <3>1 DEF LostPublishing, Unanswered
  <2>3. PublicSame /\ ClosedSame
    BY <2>1, PublicUnchanged DEF ClosedSame, Closed
  <2>4. CASE w.kind # "publish"
    <3>1. SameTurn /\ \A v \in wire' : v.kind = "publish" => v \in wire
      BY <2>1, <2>2, <2>4 DEF SameTurn, Before
    <3> QED BY <1>1, <2>1, <2>3, <3>1
  <2>5. CASE w.kind = "publish"
    <3>1. PICK plan \in {releases[w.release].plan}, tag \in {releases[w.release].tag} : TRUE
      OBVIOUS
    <3>2. MayAppear(tag, plan)
      BY <1>0, <2>2, <2>5, <3>1, PublishingAppears
    <3>3. MayAppear(tag, plan)'
      BY <1>0, <2>3, <3>2, MayStillAppear
    <3>4. releases'[w.release].plan = plan /\ releases'[w.release].tag = tag
      BY <2>1, <3>1
    <3>5. MayAppear(releases[w.release].tag, releases[w.release].plan)'
      BY <3>3, <3>4
    <3>6. ~Candidates' /\ ~Promotes'
      BY <2>1 DEF Candidates, Promotes, Late
    <3>7. \A i \in Public' : IsReserved(releases[i].plan)' /\ releases'[i].plan.tag \in PublishedTags'
      BY <1>0, <2>1 DEF Turn, Public, PublishedTags, IsReserved, PlansKept, Reserved
    <3> QED BY <2>2, <2>3, <3>5, <3>6, <3>7 DEF Turn
  <2> QED BY <2>4, <2>5
<1>5. CASE Reconciles
  <2>1. wire' = wire \cup {DraftRequest} /\ DraftRequest.kind = "draft" /\ UNCHANGED <<tags, releases>>
    BY <1>5, DraftFields DEF Reconciles, Unanswered, github
  <2>2. SameTurn
    BY <1>0, <1>5, Moves, SameTurnOf
  <2>3. \A w \in wire' : w.kind = "publish" => w \in wire
    BY <2>1
  <2> QED BY <1>1, <2>1, <2>2, <2>3, PublicUnchanged
<1>6. CASE Consumed
  <2>1. Apply(ConsumeRequest) /\ ConsumeRequest.kind = "ledger" /\ wire' = wire
    BY <1>6 DEF Consumed, Confirmed, ConsumeRequest
  <2>2. UNCHANGED <<tags, releases>>
    BY <2>1 DEF Apply
  <2> QED BY <1>0, <1>1, <1>6, <2>1, <2>2, SameTurnOf, PublicUnchanged
<1>7. CASE Tagged
  <2>1. Apply(TagRequest) /\ TagRequest.kind = "tag" /\ TagRequest.tag = job.tag
        /\ wire' = wire /\ wire = {} /\ job.pc = "tag"
    BY <1>7 DEF Tagged, Confirmed, TagRequest, PlaceInv, Settles, Late
  <2>2. /\ releases' = releases /\ tags' = tags \cup {[tag |-> job.tag, source |-> TagRequest.source]}
    BY <2>1 DEF Apply
  <2>3. Proceeds
    BY <1>0, <1>7, Moves
  <2>4. CASE Run.channel # "stable"
    <3>1. Candidates /\ job.tag = job.plan.tag /\ job.run \in Reserved /\ ledger.plans[job.run] = job.plan
      BY <2>1, <2>4 DEF Candidates, PlanInv, Late
    <3>2. job.tag.channel # "stable"
      BY <3>1 DEF CoreInv, LedgerInv, Registered, Reserved, Suits
    <3>3. ClosedSame
      BY <2>2, <3>2 DEF ClosedSame, Closed, StableTag
    <3>4. PublicSame /\ SameTurn
      BY <1>0, <2>2, <2>3, PublicUnchanged, SameTurnOf
    <3> QED BY <1>0, <2>1, <3>3, <3>4, TurnKept
  <2>5. CASE Run.channel = "stable"
    <3>1. Promotes
      BY <2>1, <2>5 DEF Promotes, Late
    <3>2. PICK plan \in {job.plan}, tag \in {StableTag(job.plan.tag.base)} : TRUE
      OBVIOUS
    <3>3. MayAppear(tag, plan) /\ tag.channel = "stable"
      BY <3>1, <3>2 DEF Turn, StableTag
    <3>4. MayAppear(tag, plan)'
      BY <1>0, <2>2, <3>3 DEF MayAppear, IsReserved, PlansKept, Reserved, Ahead, Public, PublishedTags
    <3>5. ~Candidates' /\ StableTag(job.plan.tag.base)' = tag /\ job'.plan = plan
      <4>1. Run'.channel = "stable" /\ job'.plan = job.plan /\ job'.pc = "create"
        BY <1>0, <1>7, <2>3, <2>5, ChannelKept DEF Proceeds, Tagged, TypeInv, JobRec, Late
      <4> QED BY <3>2, <4>1 DEF Candidates, StableTag
    <3>6. \A i \in Public' : IsReserved(releases[i].plan)' /\ releases'[i].plan.tag \in PublishedTags'
      BY <1>0, <2>2 DEF Turn, Public, PublishedTags, IsReserved, PlansKept, Reserved
    <3> QED BY <2>1, <2>2, <3>4, <3>5, <3>6, PublicUnchanged DEF Turn
  <2> QED BY <2>4, <2>5
<1>8. CASE Drafted
  <2>1. Apply(DraftRequest) /\ wire' = wire
    BY <1>8 DEF Drafted, Confirmed
  <2>2. tags' = tags /\ releases' = Append(releases, Draft)
    BY <2>1, DraftFields DEF Apply
  <2>3. PublicSame
    <3>1. ReleasesGrow
      BY <1>0 DEF Grows
    <3>2. PICK d : d = Draft
      OBVIOUS
    <3>3. d.draft /\ releases' = Append(releases, d)
      BY <2>2, <3>2, DraftFields
    <3> QED BY <1>0, <3>1, <3>3, PublicAppended
  <2>4. SameTurn
    BY <1>0, <1>8, Moves, SameTurnOf
  <2> QED BY <1>1, <2>1, <2>2, <2>3, <2>4
<1>9. CASE Published
  <2>1. PICK k : k = job.release /\ Appears(k)
    BY <1>0, <1>9, PublishedAppears
  <2> QED BY <1>0, <2>1, TurnAppears DEF Appears
<1>10. CASE CheckCandidate \/ VerifyPromotion
  <2>1. releases' = releases
    BY <1>10 DEF CheckCandidate, VerifyPromotion, github
  <2> QED BY <1>10, <2>1, TurnBegins, PublicUnchanged
<1>11. CASE ReconcileCreatedRelease \/ VerifyUploads
  <2>1. UNCHANGED <<tags, releases, wire>>
    BY <1>11 DEF ReconcileCreatedRelease, VerifyUploads, github
  <2>2. SameTurn
    BY <1>0, <1>11, Moves, SameTurnOf
  <2> QED BY <1>1, <2>1, <2>2, PublicUnchanged
<1>12. CASE Upload
  <2>1. UNCHANGED <<tags, wire>>
    BY <1>12 DEF Upload
  <2>2. SameTurn
    BY <1>0, <1>12, Moves, SameTurnOf
  <2>3. PublicSame
    BY <1>0, <1>12, ReleaseUploaded DEF PublicSame, Public, SameReleases
  <2> QED BY <1>1, <2>1, <2>2, <2>3
<1>13. CASE StoreEvidence
  <2>1. UNCHANGED <<tags, releases, wire>> /\ job'.pc \in Before
    BY <1>0, <1>13, Moves DEF StoreEvidence, github
  <2> QED BY <1>1, <2>1, PublicUnchanged DEF SameTurn
<1>14. ASSUME NEW w \in wire, Land(w)
       PROVE  Turn' /\ (PublicSame \/ \E k \in DOMAIN releases : Appears(k))
  BY <1>0, <1>14, TurnLanded DEF Appears
<1> QED BY <1>0, <1>2, <1>3, <1>4, <1>5, <1>6, <1>7, <1>8, <1>9, <1>10, <1>11, <1>12, <1>13,
           <1>14, NextCases

\* The inductive invariant of the order of publications.
TurnInv == ReleaseInv /\ Turn

\* It holds at first.
LEMMA TurnInit == Init => TurnInv
<1> SUFFICES ASSUME Init PROVE TurnInv
  OBVIOUS
<1>1. job.pc = "idle" /\ wire = {} /\ releases = <<>>
  BY DEF Init, Idle
<1>2. DOMAIN releases = {}
  BY <1>1
<1> QED BY <1>1, <1>2, ReleaseInit DEF TurnInv, Turn, Public, Candidates, Promotes, Late

\* Every step keeps it, and makes at most one release public.
LEMMA TurnNext ==
    ASSUME TurnInv, Next
    PROVE  TurnInv' /\ (PublicSame \/ \E k \in DOMAIN releases : Appears(k))
BY ReleaseNext, TurnPreserved DEF TurnInv, ReleaseInv

\* A step that changes nothing keeps it.
LEMMA TurnStutter == ASSUME TurnInv, UNCHANGED vars PROVE TurnInv'
<1>1. ReleaseInv'
  BY ReleaseStutter DEF TurnInv
<1>2. Turn'
  BY DEF TurnInv, Turn, MayAppear, IsReserved, Ahead, Closed, Public, PublishedTags, Candidates, Promotes,
         Run, Reserved, vars, github
<1> QED BY <1>1, <1>2 DEF TurnInv

(* What is about to become public is reserved, and nothing public stands in *)
(* its way: verify_reservation and verify_promotion_order against a ledger  *)
(* that others have written meanwhile.                                      *)
THEOREM TurnCorrect == Spec => []TurnInv
<1>1. ASSUME TurnInv, [Next]_vars PROVE TurnInv'
  BY <1>1, TurnNext, TurnStutter
<1> QED BY TurnInit, <1>1, PTL DEF Spec

\* What becomes public is a draft that may appear.
LEMMA OnlyOneAppears ==
    ASSUME TurnInv, TurnInv', Next, NEW i \in DOMAIN releases', BecomesPublic(i)
    PROVE  Appears(i) /\ i \in DOMAIN releases /\ releases[i].draft
           /\ releases'[i].tag = releases[i].tag /\ releases'[i].plan = releases[i].plan
<1>0. TypeInv
  BY DEF TurnInv, ReleaseInv, CoreInv
<1>1. CASE PublicSame
  BY <1>1 DEF PublicSame, Public, BecomesPublic
<1>2. ASSUME NEW k \in DOMAIN releases, Appears(k)
      PROVE  k = i /\ i \in DOMAIN releases
             /\ releases'[i].tag = releases[i].tag /\ releases'[i].plan = releases[i].plan
  <2>1. /\ SameReleases
        /\ \A o \in DOMAIN releases : /\ o # k => releases'[o] = releases[o]
                                      /\ o = k => ~releases'[o].draft
    BY <1>0, <1>2, ReleasePublished DEF Appears
  <2> QED BY <2>1 DEF SameReleases, ReleasesGrow, BecomesPublic
<1> QED BY <1>1, <1>2, TurnNext DEF BecomesPublic

(* Package numbers become public in order; the same number again only as   *)
(* the stable release of that candidate.                                    *)
THEOREM OrderCorrect == Spec => PublicOrder
<1>1. ASSUME TurnInv, TurnInv', Next, NEW i \in DOMAIN releases', BecomesPublic(i), NEW o \in Public
      PROVE  \/ releases[o].plan.number < releases'[i].plan.number
             \/ /\ releases[o].plan = releases'[i].plan
                /\ releases'[i].tag.channel = "stable"
                /\ releases[o].tag.channel = "rc"
  <2>1. /\ MayAppear(releases[i].tag, releases[i].plan) /\ i \in DOMAIN releases /\ releases[i].draft
        /\ releases'[i].tag = releases[i].tag /\ releases'[i].plan = releases[i].plan
    BY <1>1, OnlyOneAppears DEF Appears
  <2>2. CASE releases[i].tag.channel # "stable"
    BY <2>1, <2>2 DEF MayAppear, Ahead
  <2>3. CASE releases[i].tag.channel = "stable" /\ releases[o].plan.number # releases[i].plan.number
    <3>1. releases[o].plan.number <= releases[i].plan.number
      BY <2>1, <2>3 DEF MayAppear, Ahead
    <3>2. releases[o].plan.number \in Nat /\ releases[i].plan.number \in Nat
      BY <1>1, <2>1, ReleaseFields DEF TurnInv, ReleaseInv, CoreInv, Public, AnyPlan
    <3> QED BY <2>1, <2>3, <3>1, <3>2
  <2>4. CASE releases[i].tag.channel = "stable" /\ releases[o].plan.number = releases[i].plan.number
    <3>1. IsReserved(releases[o].plan) /\ IsReserved(releases[i].plan)
      BY <1>1, <2>1 DEF MayAppear, TurnInv, Turn
    <3>2. releases[o].plan = releases[i].plan
      BY <1>1, <2>4, <3>1 DEF IsReserved, TurnInv, ReleaseInv, CoreInv, LedgerInv, Registered, Reserved
    <3>3. Shaped(releases[i]) /\ Shaped(releases[o]) /\ o \in DOMAIN releases /\ ~releases[o].draft
      BY <1>1, <2>1 DEF TurnInv, ReleaseInv, PlaceInv, Named, Public
    <3>4. releases[i].plan.tag.channel # "stable"
      BY <1>1, <3>1 DEF IsReserved, TurnInv, ReleaseInv, CoreInv, LedgerInv, Registered, Reserved, Suits
    <3>5. releases[i].tag = StableTag(releases[i].plan.tag.base) /\ releases[i].plan.tag.channel = "rc"
      BY <2>4, <3>3, <3>4 DEF Shaped
    <3>6. releases[o].tag # releases[i].tag
      BY <1>1, <2>1, <3>3 DEF TurnInv, ReleaseInv, PlaceInv, Named
    <3>7. releases[o].tag = releases[o].plan.tag
      BY <3>2, <3>3, <3>5, <3>6 DEF Shaped
    <3> QED BY <2>1, <2>4, <3>2, <3>5, <3>7
  <2> QED BY <2>2, <2>3, <2>4
<1>2. ASSUME TurnInv, TurnInv', [Next]_vars
      PROVE  [\A i \in DOMAIN releases' : BecomesPublic(i) =>
                 \A o \in Public :
                    \/ releases[o].plan.number < releases'[i].plan.number
                    \/ /\ releases[o].plan = releases'[i].plan
                       /\ releases'[i].tag.channel = "stable"
                       /\ releases[o].tag.channel = "rc"]_vars
  BY <1>1, <1>2
<1> QED BY <1>2, TurnCorrect, PTL DEF Spec, PublicOrder

(* After the stable tag of a base exists no beta or release candidate of    *)
(* that base becomes public.                                                *)
THEOREM StableCloses == Spec => NoCandidateAfterStable
<1>1. ASSUME TurnInv, TurnInv', Next, NEW i \in DOMAIN releases', BecomesPublic(i),
             releases'[i].tag.channel \in {"beta", "rc"}
      PROVE  \A t \in tags : t.tag # StableTag(releases'[i].tag.base)
  BY <1>1, OnlyOneAppears DEF Appears, MayAppear, Closed
<1>2. ASSUME TurnInv, TurnInv', [Next]_vars
      PROVE  [\A i \in DOMAIN releases' :
                 BecomesPublic(i) /\ releases'[i].tag.channel \in {"beta", "rc"} =>
                    \A t \in tags : t.tag # StableTag(releases'[i].tag.base)]_vars
  BY <1>1, <1>2
<1> QED BY <1>2, TurnCorrect, PTL DEF Spec, NoCandidateAfterStable

-----------------------------------------------------------------------------
(* What was accepted.                                                       *)

\* What the receipts of a run say of one of its attempts.
Attested(r, attempt, plan) ==
    \A name \in Gated(r) \ {"prepare"} :
        \E c \in runs[r].receipts : /\ c.name = (IF name = "build" THEN "package" ELSE name)
                                    /\ c.attempt = attempt
                                    /\ c.plan = plan

\* What the bytes of a stable release were accepted on.
Accepted(r, attempt, plan) ==
    /\ r \in DOMAIN runs
    /\ runs[r].event = "dispatch"
    /\ Attested(r, attempt, plan)
    /\ [run |-> r, attempt |-> attempt] \in evidence
    /\ \E o \in Public : /\ releases[o].tag = plan.tag
                         /\ releases[o].run = r
                         /\ releases[o].attempt = attempt

\* What a release says of its origin is true.
Vouched(tag, r, attempt, plan) ==
    /\ tag.channel = "rc" => r \in DOMAIN runs /\ Attested(r, attempt, plan)
    /\ tag.channel = "stable" => Accepted(r, attempt, plan)

\* A release candidate of this run is public.
IsCandidate(r) == \E i \in Public : releases[i].tag.channel = "rc" /\ releases[i].run = r

\* A promotion was asked for of a public release candidate.
Asked == \A r \in DOMAIN runs : runs[r].channel = "stable" => IsCandidate(runs[r].candidate)

\* What is published, or on its way, has the origin it claims.
Vouching ==
    /\ job.pc = "staged" => Attested(job.run, Run.attempt, job.plan)
    /\ Candidates /\ job.pc # "staged" => Attested(job.run, job.build, job.plan)
    /\ Promotes => Accepted(Run.candidate, job.build, job.plan)
    /\ \A i \in DOMAIN releases :
          Vouched(releases[i].tag, releases[i].run, releases[i].attempt, releases[i].plan)
    /\ \A w \in wire : w.kind = "draft" =>
          Vouched(w.draft.tag, w.draft.run, w.draft.attempt, w.draft.plan)

\* The jobs of a run start no other run.
LEMMA SameDomain ==
    ASSUME TypeInv, JobInv, PrepareJob \/ PublishJob
    PROVE  DOMAIN runs' = DOMAIN runs
<1>1. \A state : Conclude(state) => DOMAIN runs' = DOMAIN runs
  BY DEF Conclude
<1>2. \A name, pc, plan : Passed(name, pc, plan) => DOMAIN runs' = DOMAIN runs
  BY DEF Passed
<1>3. \A pc : Goto(pc) => DOMAIN runs' = DOMAIN runs
  BY DEF Goto
<1>4. CASE PrepareJob
  <2>1. CASE ClosedPushCycle \/ ReusePlan \/ AllocatePlan \/ PassGate \/ PreparePromotion
    BY <1>1, <1>2, <2>1 DEF ClosedPushCycle, ReusePlan, AllocatePlan, PassGate, PreparePromotion
  <2>2. CASE CreateStateBranch
    BY <1>1, <2>2 DEF CreateStateBranch, Request
  <2>3. CASE WriteReservation
    BY <1>1, <1>2, <2>3 DEF WriteReservation, Request
  <2>4. CASE StagePackages \/ Campaign
    BY <2>4 DEF StagePackages, Campaign
  <2> QED BY <1>4, <2>1, <2>2, <2>3, <2>4 DEF PrepareJob
<1>5. CASE PublishJob
  <2>1. CASE CheckCandidate \/ SupersededCandidate \/ ScheduledReuse \/ VerifyPromotion
    BY <1>1, <1>3, <2>1 DEF CheckCandidate, SupersededCandidate, ScheduledReuse, VerifyPromotion
  <2>2. CASE BeginPublication
    BY <1>1, <2>2 DEF BeginPublication, Consume, Request
  <2>3. CASE BeginPromotion
    BY <1>1, <2>3 DEF BeginPromotion, Consume, Request
  <2>4. CASE CreateTag
    BY <1>1, <1>3, <2>4 DEF CreateTag, Request
  <2>5. CASE CreateDraft
    BY <1>1, <1>3, <2>5 DEF CreateDraft
  <2>6. CASE ReconcileCreatedRelease \/ Upload \/ VerifyUploads
    BY <1>3, <2>6 DEF ReconcileCreatedRelease, Upload, VerifyUploads
  <2>7. CASE Publish
    BY <1>1, <1>3, <2>7 DEF Publish, Request
  <2>8. CASE StoreEvidence
    BY <1>1, <2>8 DEF StoreEvidence
  <2> QED BY <1>5, <2>1, <2>2, <2>3, <2>4, <2>5, <2>6, <2>7, <2>8 DEF PublishJob
<1> QED BY <1>4, <1>5

\* A run that asks for a stable release names a published release candidate.
LEMMA NewRuns ==
    ASSUME TypeInv, JobInv, Next, NEW r \in DOMAIN runs', r \notin DOMAIN runs,
           runs'[r].channel = "stable"
    PROVE  IsCandidate(runs'[r].candidate)
<1>1. ASSUME NEW event, NEW channel, NEW source, NEW candidate,
             NewRun(event, channel, source, candidate)
      PROVE  runs'[r].channel = channel /\ runs'[r].candidate = candidate
  <2> DEFINE new == [event |-> event, channel |-> channel, source |-> source,
                     candidate |-> candidate, attempt |-> 1, receipts |-> {},
                     jobs |-> NoJobs, state |-> "queued"]
  <2>1. runs' = Append(Cancelled, new)
    BY <1>1 DEF NewRun
  <2>2. Cancelled = [o \in 1..Len(runs) |-> Cancelled[o]] /\ Len(runs) \in Nat
    BY DEF Cancelled, TypeInv
  <2>3. Len(Cancelled) = Len(runs) /\ DOMAIN runs = 1..Len(runs)
    BY <2>2 DEF TypeInv
  <2>4. new.channel = channel /\ new.candidate = candidate
    OBVIOUS
  <2> HIDE DEF new
  <2>5. r = Len(runs) + 1 /\ runs'[r] = new
    BY <2>1, <2>2, <2>3
  <2> QED BY <2>4, <2>5
<1>2. CASE Push
  BY <1>1, <1>2 DEF Push
<1>3. CASE Schedule
  BY <1>1, <1>3 DEF Schedule
<1>4. ASSUME NEW channel, NEW candidate, Dispatch(channel, candidate)
      PROVE  IsCandidate(runs'[r].candidate)
  <2>1. runs'[r].channel = channel /\ runs'[r].candidate = candidate
    BY <1>1, <1>4 DEF Dispatch
  <2> QED BY <1>4, <2>1 DEF Dispatch, IsCandidate
<1>5. ASSUME NEW o \in DOMAIN runs, Rerun(o) \/ Start(o) PROVE FALSE
  BY <1>5 DEF Rerun, Start, Cancelled
<1>6. CASE Abandon
  BY <1>6 DEF Abandon, Conclude
<1>7. ASSUME NEW w \in wire, Land(w) PROVE FALSE
  BY <1>7 DEF Land
<1> QED BY <1>2, <1>3, <1>4, <1>5, <1>6, <1>7, SameDomain DEF Next, Environment

\* What is public stays so.
LEMMA PublicGrows ==
    ASSUME ReleasesGrow, TypeInv'
    PROVE  \A i \in Public : i \in Public' /\ releases'[i].tag = releases[i].tag
                             /\ releases'[i].run = releases[i].run
                             /\ releases'[i].attempt = releases[i].attempt
                             /\ releases'[i].plan = releases[i].plan
BY DEF ReleasesGrow, Public

\* Asked is inductive.
LEMMA AskedPreserved ==
    ASSUME TypeInv, JobInv, Asked, Next, Grows, TypeInv'
    PROVE  Asked'
<1>1. \A c : IsCandidate(c) => IsCandidate(c)'
  BY PublicGrows DEF IsCandidate, Grows
<1>2. ASSUME NEW r \in DOMAIN runs', runs'[r].channel = "stable" PROVE IsCandidate(runs'[r].candidate)
  BY <1>2, NewRuns DEF Asked, Grows, RunsGrow
<1>3. ASSUME NEW CONSTANT r, r \in DOMAIN runs', runs'[r].channel = "stable"
      PROVE  IsCandidate(runs[r].candidate)'
  <2>1. PICK c : c = runs'[r].candidate
    OBVIOUS
  <2> QED BY <1>1, <1>2, <1>3, <2>1 DEF IsCandidate
<1> QED BY <1>3 DEF Asked

\* Nothing that was attested is taken back,
LEMMA AttestedKept ==
    ASSUME Grows, NEW CONSTANT r, NEW CONSTANT attempt, NEW CONSTANT plan, r \in DOMAIN runs,
           Attested(r, attempt, plan)
    PROVE  Attested(r, attempt, plan)'
<1>1. Gated(r)' = Gated(r) /\ runs[r].receipts \subseteq runs'[r].receipts
  BY DEF Grows, RunsGrow, Gated, Fuzzing
<1> QED BY <1>1 DEF Attested

\* nor what was accepted,
LEMMA AcceptedKept ==
    ASSUME Grows, TypeInv', NEW CONSTANT r, NEW CONSTANT attempt, NEW CONSTANT plan,
           Accepted(r, attempt, plan)
    PROVE  Accepted(r, attempt, plan)'
<1>1. Attested(r, attempt, plan)'
  BY AttestedKept DEF Accepted
<1>2. r \in DOMAIN runs' /\ runs'[r].event = "dispatch"
  BY DEF Accepted, Grows, RunsGrow
<1>3. (\E o \in Public : /\ releases[o].tag = plan.tag
                         /\ releases[o].run = r
                         /\ releases[o].attempt = attempt)'
  BY PublicGrows DEF Accepted, Grows
<1> QED BY <1>1, <1>2, <1>3 DEF Accepted, Grows

\* nor what is vouched for.
LEMMA VouchedKept ==
    ASSUME Grows, TypeInv', NEW CONSTANT tag, NEW CONSTANT r, NEW CONSTANT attempt, NEW CONSTANT plan,
           Vouched(tag, r, attempt, plan)
    PROVE  Vouched(tag, r, attempt, plan)'
<1>1. r \in DOMAIN runs => r \in DOMAIN runs'
  BY DEF Grows, RunsGrow
<1> QED BY <1>1, AttestedKept, AcceptedKept DEF Vouched

\* The release or the draft is vouched for.
VouchedRelease(release) == Vouched(release.tag, release.run, release.attempt, release.plan)

\* What the attempt works on is vouched for.
JobVouches ==
    /\ job.pc = "staged" => Attested(job.run, Run.attempt, job.plan)
    /\ Candidates /\ job.pc # "staged" => Attested(job.run, job.build, job.plan)
    /\ Promotes => Accepted(Run.candidate, job.build, job.plan)

\* So is the draft it creates.
LEMMA DraftVouched ==
    ASSUME CoreInv, PlanInv, Vouching, job.pc \in Late
    PROVE  VouchedRelease(Draft)
<1>0. job.run \in DOMAIN runs
  BY DEF CoreInv, JobInv, Late
<1>1. CASE Run.channel # "stable"
  <2>1. Candidates /\ job.pc # "staged"
    BY <1>1 DEF Candidates, Late
  <2>2. /\ job.tag = job.plan.tag /\ Attested(job.run, job.build, job.plan)
        /\ job.run \in Reserved /\ ledger.plans[job.run] = job.plan
    BY <2>1 DEF PlanInv, Vouching
  <2>3. job.tag.channel # "stable"
    BY <2>2 DEF CoreInv, LedgerInv, Registered, Reserved, Suits
  <2> QED BY <1>0, <1>1, <2>2, <2>3, DraftFields DEF VouchedRelease, Vouched
<1>2. CASE Run.channel = "stable"
  <2>1. Promotes /\ job.pc # "promote"
    BY <1>2 DEF Promotes, Late
  <2>2. job.tag.channel = "stable" /\ Accepted(Run.candidate, job.build, job.plan)
    BY <2>1 DEF PlanInv, Vouching, StableTag
  <2> QED BY <1>2, <2>2, DraftFields DEF VouchedRelease, Vouched
<1> QED BY <1>1, <1>2

\* The receipts the publishing job collects are those the gate asks for.
LEMMA ReceiptsAttest ==
    ASSUME NEW r, NEW plan, VerifyFuzzReport(r), VerifyReceipts(r, plan)
    PROVE  Attested(r, runs[r].attempt, plan)
<1>1. \A c \in CollectAssets(r) : c \in runs[r].receipts /\ c.plan = plan /\ c.attempt = runs[r].attempt
  BY DEF VerifyReceipts, CollectAssets
<1>2. \E c \in CollectAssets(r) : c.name = "package"
  <2>1. "package" \in {c.name : c \in CollectAssets(r)} \ (IF Fuzzing(r) THEN {"fuzz"} ELSE {})
    BY DEF VerifyReceipts, RequiredBuildReceipts
  <2> QED BY <2>1
<1>3. Fuzzing(r) => \E c \in CollectAssets(r) : c.name = "fuzz"
  BY DEF VerifyFuzzReport
<1>4. \A name \in Gated(r) \ {"prepare"} : name = "build" \/ (name = "fuzz" /\ Fuzzing(r))
  BY DEF Gated
<1> QED BY <1>1, <1>2, <1>3, <1>4 DEF Attested

\* What a promotion checks is that its candidate was accepted.
LEMMA PromotionAccepted ==
    ASSUME TypeInv, JobInv, Asked, Vouching, VerifyPromotion
    PROVE  Accepted(Run.candidate, Candidate.attempt, Candidate.plan)
<1>1. VerifiedRC /\ Run.channel = "stable" /\ job.run \in DOMAIN runs
  BY DEF VerifyPromotion, JobInv
<1>2. Candidate.run = Run.candidate
  <2>1. \E i \in Public : releases[i].tag.channel = "rc" /\ releases[i].run = Run.candidate
    BY <1>1 DEF Asked, IsCandidate, Run
  <2> QED BY <2>1 DEF Candidate
<1>3. PICK i \in Public : releases[i] = Candidate
  BY <1>1 DEF VerifiedRC, ReleaseSnapshot
<1>4. Candidate.tag.channel = "rc" /\ Candidate.plan.tag = Candidate.tag
  BY <1>1 DEF VerifiedRC, ValidateManifest
<1>5. Candidate.run \in DOMAIN runs /\ Attested(Candidate.run, Candidate.attempt, Candidate.plan)
  BY <1>3, <1>4 DEF Vouching, Vouched, Public
<1>6. runs[Candidate.run].event = "dispatch" /\ [run |-> Candidate.run, attempt |-> Candidate.attempt] \in evidence
  BY <1>1 DEF VerifiedRC, VerifyEvidence
<1> HIDE DEF Candidate
<1> QED BY <1>2, <1>3, <1>4, <1>5, <1>6 DEF Accepted

\* What the attempt works on is vouched for as long as it works on it,
LEMMA JobVouchesKept ==
    ASSUME TypeInv, JobInv, Vouching, Grows, TypeInv', Continues,
           Proceeds \/ Consumed
    PROVE  JobVouches'
<1>1. /\ job'.run = job.run /\ job'.plan = job.plan /\ job.run \in DOMAIN runs
      /\ Run'.attempt = Run.attempt /\ Run'.channel = Run.channel /\ Run'.candidate = Run.candidate
  <2>1. job'.run = job.run /\ job'.plan = job.plan /\ job.pc # "idle"
    BY Moves DEF Proceeds, Late
  <2> QED BY <2>1, ChannelKept DEF Continues, Run, JobInv
<1>2. /\ job'.pc \in Late \/ job'.pc = job.pc
      /\ job.pc \in Late \cup {"staged", "promote"}
      /\ job.pc # "staged" => job'.build = job.build
      /\ job.pc = "staged" /\ job'.pc # "staged" => job'.build = Run.attempt
      /\ job'.pc = "staged" => job.pc = "staged"
      /\ job'.pc = "promote" => job.pc = "promote"
  <2>1. CASE Proceeds
    BY <2>1 DEF Proceeds, Late
  <2>2. CASE Consumed
    BY <2>2, Moves DEF Late
  <2> QED BY <2>1, <2>2
<1>3. PICK r \in {job.run}, attempt \in {Run.attempt}, build \in {job.build}, plan \in {job.plan},
          candidate \in {Run.candidate} : TRUE
  OBVIOUS
<1>4. CASE job.pc = "staged"
  <2>1. Attested(r, attempt, plan)
    BY <1>3, <1>4 DEF Vouching
  <2>2. Attested(r, attempt, plan)'
    BY <1>1, <1>3, <2>1, AttestedKept
  <2>3. Run.channel # "stable" /\ ~Promotes'
    BY <1>1, <1>2, <1>4 DEF JobInv, Promotes
  <2> QED BY <1>1, <1>2, <1>3, <1>4, <2>2, <2>3 DEF JobVouches
<1>5. CASE Candidates /\ job.pc # "staged"
  <2>1. Attested(r, build, plan)
    BY <1>3, <1>5 DEF Vouching
  <2>2. Attested(r, build, plan)'
    BY <1>1, <1>3, <2>1, AttestedKept
  <2>3. ~Promotes' /\ job'.pc # "staged" /\ job'.build = build
    BY <1>1, <1>2, <1>3, <1>5 DEF Candidates, Promotes, Late
  <2> QED BY <1>1, <1>3, <2>2, <2>3 DEF JobVouches
<1>6. CASE Promotes
  <2>1. Accepted(candidate, build, plan)
    BY <1>3, <1>6 DEF Vouching
  <2>2. Accepted(candidate, build, plan)'
    BY <2>1, AcceptedKept
  <2>3. ~Candidates' /\ job'.pc # "staged" /\ job'.build = build
    BY <1>1, <1>2, <1>3, <1>6 DEF Candidates, Promotes, Late, JobInv
  <2> QED BY <1>1, <1>3, <2>2, <2>3 DEF JobVouches
<1> QED BY <1>2, <1>4, <1>5, <1>6 DEF Candidates, Promotes

\* What is vouched for stays so, and what is new is the draft of this attempt.
LEMMA VouchingGrows ==
    ASSUME CoreInv, PlanInv, Vouching, Grows, TypeInv', JobVouches',
           \/ SameReleases
           \/ releases' = Append(releases, Draft) /\ job.pc \in Late
           \/ \E w \in wire : w.kind = "draft" /\ releases' = Append(releases, w.draft),
           \/ \A w \in wire' : w.kind = "draft" => w \in wire
           \/ job.pc \in Late /\ wire' = wire \cup {DraftRequest}
    PROVE  Vouching'
<1>0. TypeInv
  BY DEF CoreInv
<1>1. ASSUME NEW CONSTANT release, VouchedRelease(release) PROVE VouchedRelease(release)'
  <2>1. PICK tag \in {release.tag}, r \in {release.run}, attempt \in {release.attempt},
            plan \in {release.plan} : TRUE
    OBVIOUS
  <2>2. Vouched(tag, r, attempt, plan)
    BY <1>1, <2>1 DEF VouchedRelease
  <2>3. Vouched(tag, r, attempt, plan)'
    BY <2>2, VouchedKept
  <2> QED BY <2>1, <2>3 DEF VouchedRelease
<1>2. ASSUME NEW CONSTANT i, i \in DOMAIN releases PROVE VouchedRelease(releases[i])'
  <2>1. PICK release : release = releases[i]
    OBVIOUS
  <2>2. VouchedRelease(release)'
    BY <1>1, <1>2, <2>1 DEF Vouching, VouchedRelease
  <2>3. releases'[i].tag = release.tag /\ releases'[i].run = release.run
        /\ releases'[i].attempt = release.attempt /\ releases'[i].plan = release.plan
    BY <1>2, <2>1 DEF Grows, ReleasesGrow
  <2> QED BY <2>2, <2>3 DEF VouchedRelease
<1>3. \A i \in DOMAIN releases' : VouchedRelease(releases[i])'
  <2>1. CASE SameReleases
    BY <1>2, <2>1 DEF SameReleases
  <2>2. ASSUME NEW CONSTANT d, VouchedRelease(d), releases' = Append(releases, d)
        PROVE  \A i \in DOMAIN releases' : VouchedRelease(releases[i])'
    <3>0. PICK n : n = Len(releases) + 1
      OBVIOUS
    <3>1. DOMAIN releases' = DOMAIN releases \cup {n} /\ releases'[n] = d
      BY <1>0, <2>2, <3>0, ReleaseAppended
    <3>2. VouchedRelease(d)'
      BY <1>1, <2>2
    <3>3. VouchedRelease(releases[n])'
      BY <3>1, <3>2
    <3> QED BY <1>2, <3>1, <3>3
  <2>3. CASE releases' = Append(releases, Draft) /\ job.pc \in Late
    <3>1. PICK d : d = Draft
      OBVIOUS
    <3>2. VouchedRelease(d)
      BY <2>3, <3>1, DraftVouched
    <3> QED BY <2>2, <2>3, <3>1, <3>2
  <2>4. ASSUME NEW w \in wire, w.kind = "draft", releases' = Append(releases, w.draft)
        PROVE  \A i \in DOMAIN releases' : VouchedRelease(releases[i])'
    <3>1. VouchedRelease(w.draft)
      BY <2>4 DEF Vouching, VouchedRelease
    <3> QED BY <2>2, <2>4, <3>1
  <2> QED BY <2>1, <2>3, <2>4
<1>4. \A w \in wire' : w.kind = "draft" => VouchedRelease(w.draft)'
  <2> SUFFICES ASSUME NEW CONSTANT w, w \in wire', w.kind = "draft"
               PROVE  VouchedRelease(w.draft)'
    OBVIOUS
  <2>1. VouchedRelease(w.draft)
    <3>1. CASE w \in wire
      BY <3>1 DEF Vouching, VouchedRelease
    <3>2. CASE w = DraftRequest /\ job.pc \in Late
      BY <3>2, DraftVouched, DraftFields
    <3> QED BY <3>1, <3>2
  <2> QED BY <1>1, <2>1
<1> QED BY <1>3, <1>4 DEF Vouching, VouchedRelease, JobVouches

\* and nothing is left to vouch for when it is over.
LEMMA NoJobVouches == ASSUME job'.pc \in Before \cup {"evidence"} PROVE JobVouches'
BY DEF JobVouches, Candidates, Promotes, Before, Late

\* Vouching is inductive.
LEMMA VouchingPreserved ==
    ASSUME CoreInv, Running, PlanInv, PlaceInv, Asked, Vouching, Next
    PROVE  Vouching'
<1>0. TypeInv /\ JobInv /\ Grows /\ TypeInv' /\ (job'.pc \notin Before => Continues)
  BY CoreNext, RunningPreserved DEF CoreInv
<1>1. ASSUME Proceeds \/ Consumed PROVE JobVouches'
  <2>1. job'.pc \notin Before
    BY <1>0, <1>1, Moves DEF Proceeds, Before, Late
  <2> QED BY <1>0, <1>1, <2>1, JobVouchesKept
<1>2. ASSUME job' = job PROVE JobVouches'
  <2>1. CASE job.pc \in Late \cup {"staged", "promote"}
    BY <1>1, <1>2, <2>1 DEF Proceeds
  <2> QED BY <1>0, <1>2, <2>1, PhaseOf, NoJobVouches
<1>3. ASSUME JobVouches', releases' = releases, \A w \in wire' : w.kind = "draft" => w \in wire
      PROVE  Vouching'
  BY <1>0, <1>3, SameIsSame, VouchingGrows
<1>4. CASE Elsewhere
  BY <1>2, <1>3, <1>4 DEF Elsewhere, github
<1>5. CASE Withdraws
  BY <1>3, <1>5, NoJobVouches DEF Withdraws, Publishes
<1>6. CASE LostPublishing
  <2>1. /\ job.pc \in Late /\ releases' = releases /\ JobVouches'
    BY <1>0, <1>6, Moves, NoJobVouches DEF LostPublishing, Unanswered, github, Late
  <2>2. \/ wire' = wire \cup {TagRequest}
        \/ wire' = wire \cup {DraftRequest}
        \/ wire' = wire \cup {PublishRequest}
    BY <1>6 DEF LostPublishing, Unanswered
  <2>3. TagRequest.kind # "draft" /\ PublishRequest.kind # "draft"
    BY DEF TagRequest, PublishRequest
  <2>4. CASE wire' = wire \cup {DraftRequest}
    BY <1>0, <2>1, <2>4, SameIsSame, VouchingGrows
  <2> QED BY <1>3, <2>1, <2>2, <2>3, <2>4
<1>7. CASE Reconciles
  <2>1. job.pc \in Late /\ releases' = releases /\ wire' = wire \cup {DraftRequest}
    BY <1>7 DEF Reconciles, Unanswered, github, Late
  <2>2. JobVouches'
    BY <1>0, <1>1, <1>7, Moves
  <2> QED BY <1>0, <2>1, <2>2, SameIsSame, VouchingGrows
<1>8. CASE Consumed
  <2>1. Apply(ConsumeRequest) /\ ConsumeRequest.kind = "ledger" /\ wire' = wire
    BY <1>8 DEF Consumed, Confirmed, ConsumeRequest
  <2>2. releases' = releases
    BY <2>1 DEF Apply
  <2> QED BY <1>1, <1>3, <1>8, <2>1, <2>2
<1>9. CASE Tagged
  <2>1. Apply(TagRequest) /\ TagRequest.kind = "tag" /\ wire' = wire
    BY <1>9 DEF Tagged, Confirmed, TagRequest
  <2>2. releases' = releases /\ JobVouches'
    BY <1>0, <1>1, <1>9, <2>1, Moves DEF Apply
  <2> QED BY <1>3, <2>1, <2>2
<1>10. CASE Drafted
  <2>1. Apply(DraftRequest) /\ wire' = wire /\ job.pc \in Late
    BY <1>10 DEF Drafted, Confirmed, Late
  <2>2. releases' = Append(releases, Draft)
    BY <2>1, DraftFields DEF Apply
  <2>3. JobVouches'
    BY <1>0, <1>1, <1>10, Moves
  <2> QED BY <1>0, <2>1, <2>2, <2>3, VouchingGrows
<1>11. CASE Published
  <2>1. Apply(PublishRequest) /\ PublishRequest.kind = "publish" /\ wire' = wire
    BY <1>11 DEF Published, Confirmed, PublishRequest
  <2>2. PICK k : releases' = [releases EXCEPT ![k].draft = FALSE]
    BY <2>1 DEF Apply
  <2>3. SameReleases
    BY <1>0, <2>2, ReleasePublished
  <2>4. JobVouches'
    BY <1>0, <1>11, Moves, NoJobVouches
  <2> QED BY <1>0, <2>1, <2>3, <2>4, VouchingGrows
<1>12. CASE CheckCandidate
  <2>1. /\ job.pc = "candidate" /\ job'.pc = "staged" /\ job'.run = job.run /\ job'.plan = job.plan
        /\ UNCHANGED <<runs, releases, wire>>
        /\ VerifyFuzzReport(job.run) /\ VerifyReceipts(job.run, job.plan)
    BY <1>0, <1>12, Moves DEF CheckCandidate, Goto, github
  <2>2. Attested(job.run, Run.attempt, job.plan)
    BY <2>1, ReceiptsAttest DEF Run
  <2>3. Attested(job.run, Run.attempt, job.plan)'
    BY <2>1, <2>2 DEF Attested, Gated, Fuzzing, Run
  <2>4. JobVouches'
    BY <2>1, <2>3 DEF JobVouches, Candidates, Promotes, Late
  <2> QED BY <1>3, <2>1, <2>4
<1>13. CASE VerifyPromotion
  <2>1. /\ job'.pc = "promote" /\ job'.run = job.run /\ job'.plan = Candidate.plan
        /\ job'.build = Candidate.attempt /\ UNCHANGED <<runs, releases, wire, evidence>>
    BY <1>0, <1>13, Moves DEF VerifyPromotion, github
  <2>2. PICK r \in {Run.candidate}, attempt \in {Candidate.attempt}, plan \in {Candidate.plan} : TRUE
    OBVIOUS
  <2>3. Accepted(r, attempt, plan)
    BY <1>0, <1>13, <2>2, PromotionAccepted
  <2>4. Accepted(r, attempt, plan)'
    BY <1>0, <2>3, AcceptedKept
  <2>5. Run'.candidate = r
    BY <2>1, <2>2 DEF Run
  <2>6. JobVouches'
    BY <2>1, <2>2, <2>4, <2>5 DEF JobVouches, Candidates, Late
  <2> QED BY <1>3, <2>1, <2>6
<1>14. CASE ReconcileCreatedRelease \/ VerifyUploads
  <2>1. UNCHANGED <<releases, wire>>
    BY <1>14 DEF ReconcileCreatedRelease, VerifyUploads, github
  <2>2. JobVouches'
    BY <1>0, <1>1, <1>14, Moves
  <2> QED BY <1>3, <2>1, <2>2
<1>15. CASE Upload
  <2>1. wire' = wire /\ SameReleases
    BY <1>0, <1>15, ReleaseUploaded DEF Upload
  <2>2. JobVouches'
    BY <1>0, <1>1, <1>15, Moves
  <2> QED BY <1>0, <2>1, <2>2, VouchingGrows
<1>16. CASE StoreEvidence
  <2>1. UNCHANGED <<releases, wire>> /\ JobVouches'
    BY <1>0, <1>16, Moves, NoJobVouches DEF StoreEvidence, github
  <2> QED BY <1>3, <2>1
<1>17. ASSUME NEW w \in wire, Land(w) PROVE Vouching'
  <2>1. /\ wire' = wire \ {w} /\ JobVouches'
        /\ Apply(w) \/ releases' = releases
    BY <1>2, <1>17 DEF Land, github
  <2>2. CASE releases' = releases
    BY <1>3, <2>1, <2>2
  <2>3. CASE w.kind = "draft" /\ Apply(w)
    <3>1. releases' = Append(releases, w.draft)
      BY <2>3 DEF Apply
    <3> QED BY <1>0, <2>1, <2>3, <3>1, VouchingGrows
  <2>4. CASE w.kind = "publish" /\ Apply(w)
    <3>1. PICK k : releases' = [releases EXCEPT ![k].draft = FALSE]
      BY <2>4 DEF Apply
    <3>2. SameReleases
      BY <1>0, <3>1, ReleasePublished
    <3> QED BY <1>0, <2>1, <3>2, VouchingGrows
  <2> QED BY <2>1, <2>2, <2>3, <2>4 DEF Apply
<1> QED BY <1>0, <1>4, <1>5, <1>6, <1>7, <1>8, <1>9, <1>10, <1>11, <1>12, <1>13, <1>14, <1>15, <1>16,
           <1>17, NextCases

\* The inductive invariant of what is accepted.
AcceptInv == ReleaseInv /\ Asked /\ Vouching

\* It holds at first.
LEMMA AcceptInit == Init => AcceptInv
<1> SUFFICES ASSUME Init PROVE AcceptInv
  OBVIOUS
<1>1. job.pc = "idle" /\ wire = {} /\ releases = <<>> /\ runs = <<>>
  BY DEF Init, Idle
<1>2. DOMAIN releases = {} /\ DOMAIN runs = {}
  BY <1>1
<1> QED BY <1>1, <1>2, ReleaseInit DEF AcceptInv, Asked, Vouching, Candidates, Promotes, Late

\* Every step keeps it.
LEMMA AcceptNext == ASSUME AcceptInv, Next PROVE AcceptInv'
<1>1. TypeInv' /\ Grows
  BY CoreNext DEF AcceptInv, ReleaseInv, CoreInv
<1> QED BY <1>1, ReleaseNext, AskedPreserved, VouchingPreserved DEF AcceptInv, ReleaseInv, CoreInv

\* A step that changes nothing keeps it.
LEMMA AcceptStutter == ASSUME AcceptInv, UNCHANGED vars PROVE AcceptInv'
<1>1. ReleaseInv'
  BY ReleaseStutter DEF AcceptInv
<1>2. Asked'
  BY DEF AcceptInv, Asked, IsCandidate, Public, vars, github
<1>3. Vouching'
  <2>1. \A r, attempt, plan : Attested(r, attempt, plan) => Attested(r, attempt, plan)'
    BY DEF Attested, Gated, Fuzzing, vars
  <2>2. \A r, attempt, plan : Accepted(r, attempt, plan) => Accepted(r, attempt, plan)'
    BY <2>1 DEF Accepted, Public, vars, github
  <2>3. \A tag, r, attempt, plan : Vouched(tag, r, attempt, plan) => Vouched(tag, r, attempt, plan)'
    BY <2>1, <2>2 DEF Vouched, vars
  <2>4. job' = job /\ runs' = runs /\ releases' = releases /\ wire' = wire
    BY DEF vars, github
  <2>5. (\A i \in DOMAIN releases : Vouched(releases[i].tag, releases[i].run, releases[i].attempt, releases[i].plan))'
    BY <2>3, <2>4 DEF AcceptInv, Vouching
  <2>6. (\A w \in wire : w.kind = "draft" => Vouched(w.draft.tag, w.draft.run, w.draft.attempt, w.draft.plan))'
    BY <2>3, <2>4 DEF AcceptInv, Vouching
  <2>7. JobVouches'
    BY <2>1, <2>2, <2>4 DEF AcceptInv, Vouching, JobVouches, Candidates, Promotes, Run
  <2> QED BY <2>5, <2>6, <2>7 DEF Vouching, JobVouches
<1> QED BY <1>1, <1>2, <1>3 DEF AcceptInv

(* Promotions are asked for by hand of public candidates, and everything    *)
(* published or on its way has the receipts and evidence it claims.         *)
THEOREM AcceptCorrect == Spec => []AcceptInv
<1>1. ASSUME AcceptInv, [Next]_vars PROVE AcceptInv'
  BY <1>1, AcceptNext, AcceptStutter
<1> QED BY AcceptInit, <1>1, PTL DEF Spec

(* A stable release is a public candidate of a dispatched run whose stored  *)
(* evidence and receipts are those of the attempt that built these bytes.   *)
THEOREM PromotionCorrect == Spec => []PromotedAsAccepted
<1>1. AcceptInv => PromotedAsAccepted
  <2> SUFFICES ASSUME AcceptInv, NEW i \in Public, releases[i].tag.channel = "stable"
               PROVE  /\ runs[releases[i].run].event = "dispatch"
                      /\ \A name \in Gated(releases[i].run) \ {"prepare"} :
                            \E c \in runs[releases[i].run].receipts :
                               /\ c.name = (IF name = "build" THEN "package" ELSE name)
                               /\ c.attempt = releases[i].attempt
                               /\ c.plan = releases[i].plan
                      /\ [run |-> releases[i].run, attempt |-> releases[i].attempt] \in evidence
                      /\ \E o \in Public : /\ releases[o].tag = releases[i].plan.tag
                                           /\ releases[o].run = releases[i].run
                                           /\ releases[o].attempt = releases[i].attempt
                                           /\ releases[o].files = releases[i].files
    BY DEF PromotedAsAccepted
  <2>1. Accepted(releases[i].run, releases[i].attempt, releases[i].plan)
    BY DEF AcceptInv, Vouching, Vouched, Public
  <2>2. ASSUME NEW o \in Public PROVE releases[o].files = releases[i].files
    <3>1. Complete(releases[o]) /\ Complete(releases[i])
      BY DEF AcceptInv, ReleaseInv, PlaceInv, Intact
    <3>2. releases[o].files \in [Files -> {"none", "good", "damaged"}]
          /\ releases[i].files \in [Files -> {"none", "good", "damaged"}]
      BY ReleaseFields DEF AcceptInv, ReleaseInv, CoreInv, Public
    <3> QED BY <3>1, <3>2 DEF Complete, DownloadsAsSent
  <2> QED BY <2>1, <2>2 DEF Accepted, Attested
<1> QED BY <1>1, AcceptCorrect, PTL

-----------------------------------------------------------------------------
(* What was overtaken.                                                      *)

\* What a publication saw of the branch when it began.
Began ==
    job.pc \in Late => job.ref <= head /\ (Automatic(job.run) => job.ref = Run.source)

\* Nothing makes this draft public any more.
Dead(i) ==
    /\ i \in DOMAIN releases /\ releases[i].draft
    /\ \A w \in wire : w.kind = "publish" => w.release # i
    /\ job.pc = "reconcile" => releases[i].tag # job.tag
    /\ job.pc \in {"upload", "verify"} /\ job.release = i => Automatic(job.run) /\ head # job.ref
    /\ job.pc = "publish" => job.release # i

\* The inductive invariant of what was overtaken.
OvertakenInv == ReleaseInv /\ Began /\ \A i \in overtaken : Dead(i)

\* Began is inductive: the branch only moves forward, and an automatic
\* publication begins where it points.
LEMMA BeganPreserved ==
    ASSUME ReleaseInv, Began, Next
    PROVE  Began'
<1>0. TypeInv /\ JobInv /\ Grows
  BY CoreNext DEF ReleaseInv, CoreInv
<1>1. CASE job'.pc \in Before \cup {"staged", "promote", "evidence"}
  BY <1>1 DEF Began, Before, Late
<1>2. ASSUME Proceeds PROVE Began'
  <2>1. CASE job.pc \in Late
    <3>1. /\ Run'.event = Run.event /\ Run'.channel = Run.channel /\ Run'.source = Run.source
          /\ job'.run = job.run /\ job'.ref = job.ref
      BY <1>0, <1>2, <2>1, ChannelKept DEF Proceeds, Late
    <3>2. Automatic(job.run)' => Automatic(job.run)
      BY <3>1 DEF Automatic, Run
    <3>3. head <= head' /\ head \in Nat /\ head' \in Nat /\ job.ref \in Nat
      <4>1. TypeInv'
        BY CoreNext DEF ReleaseInv, CoreInv
      <4> QED BY <1>0, <4>1, JobFields DEF Grows, TypeInv, Commit
    <3> QED BY <2>1, <3>1, <3>2, <3>3 DEF Began
  <2>2. CASE job.pc \notin Late
    BY <1>2, <2>2 DEF Proceeds, Began, Late
  <2> QED BY <2>1, <2>2
<1>3. CASE Consumed
  <2>1. /\ job.pc \in {"staged", "promote"} /\ job'.pc = "tag" /\ job'.run = job.run /\ job'.ref = head
        /\ runs' = runs /\ head' = head
    BY <1>0, <1>3, Moves DEF Consumed, Confirmed
  <2>2. Automatic(job.run) => head = Run.source
    <3>1. CASE job.pc = "staged"
      BY <1>3, <3>1 DEF Consumed, MayConsume, Overtaken, Run
    <3>2. CASE job.pc = "promote"
      BY <1>0, <3>2 DEF JobInv, Automatic, Run
    <3> QED BY <2>1, <3>1, <3>2
  <2>3. head \in Nat
    BY <1>0 DEF TypeInv, Commit
  <2> QED BY <2>1, <2>2, <2>3 DEF Began, Automatic, Run
<1>4. ASSUME job' = job PROVE Began'
  <2>1. CASE job.pc \in Late
    BY <1>2, <1>4, <2>1 DEF Proceeds
  <2> QED BY <1>4, <2>1 DEF Began
<1> QED BY <1>0, <1>1, <1>2, <1>3, <1>4, NextCases, Moves DEF Elsewhere, Withdraws, Land

\* A dead draft stays dead when no attempt holds a release,
LEMMA DeadUntouched ==
    ASSUME NEW CONSTANT i, Dead(i), DOMAIN releases \subseteq DOMAIN releases', releases'[i].draft,
           \A w \in wire' : w.kind = "publish" => w \in wire,
           job'.pc \notin {"reconcile", "upload", "verify", "publish"}
    PROVE  Dead(i)'
BY DEF Dead

\* A draft that is overtaken is dead:  its attempt cannot confirm its source.
LEMMA OvertakenIsDead ==
    ASSUME ReleaseInv, Began, NEW i \in OvertakenDrafts
    PROVE  Dead(i)
<1>1. /\ i \in DOMAIN releases /\ job.release = i /\ job.pc \in {"upload", "verify"}
      /\ Automatic(job.run) /\ head # Run.source
  BY DEF OvertakenDrafts, Overtaken, Run
<1>2. wire = {} /\ releases[i].draft
  BY <1>1 DEF ReleaseInv, PlaceInv, Settles, Holds, Late
<1> QED BY <1>1, <1>2 DEF Dead, Began, Late

\* Only the runs, the branch or nothing at all changes for the attempt.
LEMMA DeadElsewhere ==
    ASSUME ReleaseInv, Began, Grows, TypeInv', NEW CONSTANT i, Dead(i), job' = job,
           i \in DOMAIN releases', releases'[i].draft, releases'[i].tag = releases[i].tag,
           \A w \in wire' : w.kind = "publish" => w \in wire
    PROVE  Dead(i)'
<1>0. TypeInv /\ JobInv
  BY DEF ReleaseInv, CoreInv
<1>1. CASE job.pc \in {"upload", "verify"} /\ job.release = i
  <2>1. Automatic(job.run) /\ head # job.ref /\ job.ref <= head
    BY <1>1 DEF Dead, Began, Late
  <2>2. head <= head' /\ head \in Nat /\ head' \in Nat /\ job.ref \in Nat
    BY <1>0, JobFields DEF Grows, TypeInv, Commit
  <2>3. head' # job.ref
    BY <2>1, <2>2
  <2>4. Automatic(job.run)'
    <3>1. job.run \in DOMAIN runs
      BY <1>0, <1>1 DEF JobInv
    <3> QED BY <2>1, <3>1 DEF Automatic, Grows, RunsGrow
  <2> QED BY <1>1, <2>3, <2>4 DEF Dead
<1>2. CASE ~(job.pc \in {"upload", "verify"} /\ job.release = i)
  BY <1>2 DEF Dead
<1> QED BY <1>1, <1>2

\* and after every step.
LEMMA DeadKept ==
    ASSUME ReleaseInv, Began, Next, NEW CONSTANT i, Dead(i)
    PROVE  Dead(i)'
<1>0. TypeInv /\ JobInv /\ Grows /\ TypeInv'
  BY CoreNext DEF ReleaseInv, CoreInv
<1>1. CASE Elsewhere
  BY <1>0, <1>1, DeadElsewhere DEF Elsewhere, github, Dead
<1>2. CASE Withdraws
  <2>1. \A w \in wire' : w.kind = "publish" => w \in wire
    BY <1>2 DEF Withdraws, Publishes
  <2> QED BY <1>2, <2>1, DeadUntouched DEF Withdraws, Before, Dead
<1>3. CASE LostPublishing
  <2>1. /\ releases' = releases /\ job'.pc = "idle"
        /\ \A w \in wire' : w \in wire \/ w = TagRequest \/ w = DraftRequest
                               \/ (w = PublishRequest /\ job.pc = "publish")
    BY <1>3 DEF LostPublishing, Unanswered, github, Idle
  <2>2. TagRequest.kind = "tag" /\ DraftRequest.kind = "draft" /\ PublishRequest.release = job.release
    BY DEF TagRequest, DraftRequest, PublishRequest
  <2> QED BY <2>1, <2>2 DEF Dead
<1>4. CASE Reconciles
  <2>1. /\ job.pc = "create" /\ releases' = releases /\ wire' = wire \cup {DraftRequest}
        /\ job'.pc = "reconcile" /\ job'.tag = job.tag
    BY <1>0, <1>4, Moves DEF Reconciles, Unanswered, github, Proceeds, TypeInv, JobRec
  <2>2. DraftRequest.kind = "draft"
    BY DEF DraftRequest
  <2>3. releases[i].tag # job.tag
    BY <2>1 DEF ReleaseInv, PlaceInv, Holds, Naming, Dead
  <2> QED BY <2>1, <2>2, <2>3 DEF Dead
<1>5. CASE Consumed
  <2>1. ConsumeRequest.kind = "ledger"
    BY DEF ConsumeRequest
  <2>2. releases' = releases /\ wire' = wire
    BY <1>5, <2>1 DEF Consumed, Confirmed, Apply
  <2>3. job'.pc = "tag"
    BY <1>0, <1>5, Moves
  <2> QED BY <2>2, <2>3, DeadUntouched DEF Dead
<1>6. CASE Tagged
  <2>1. TagRequest.kind = "tag"
    BY DEF TagRequest
  <2>2. releases' = releases /\ wire' = wire
    BY <1>6, <2>1 DEF Tagged, Confirmed, Apply
  <2>3. job'.pc = "create"
    BY <1>0, <1>6 DEF Tagged, TypeInv, JobRec
  <2> QED BY <2>2, <2>3, DeadUntouched DEF Dead
<1>7. CASE Drafted
  <2>1. DraftRequest.kind = "draft" /\ DraftRequest.draft = Draft
    BY DEF DraftRequest
  <2>2. releases' = Append(releases, Draft) /\ wire' = wire
    BY <1>7, <2>1 DEF Drafted, Confirmed, Apply
  <2>3. /\ Len(releases) + 1 \notin DOMAIN releases
        /\ DOMAIN releases' = DOMAIN releases \cup {Len(releases) + 1}
        /\ \A o \in DOMAIN releases : releases'[o] = releases[o]
    BY <1>0, <2>2, ReleaseAppended
  <2>4. job'.pc = "upload" /\ job'.release = Len(releases) + 1
    BY <1>0, <1>7 DEF Drafted, TypeInv, JobRec
  <2> QED BY <2>2, <2>3, <2>4 DEF Dead
<1>8. CASE Published
  <2>1. PublishRequest.kind = "publish" /\ PublishRequest.release = job.release
    BY DEF PublishRequest
  <2>2. releases' = [releases EXCEPT ![job.release].draft = FALSE] /\ wire' = wire /\ job.release # i
    BY <1>8, <2>1 DEF Published, Confirmed, Apply, Dead
  <2>3. DOMAIN releases' = DOMAIN releases /\ releases'[i] = releases[i]
    BY <1>0, <2>2, ReleasePublished DEF SameReleases, Dead
  <2>4. job'.pc \in Before \cup {"evidence"}
    BY <1>0, <1>8, Moves
  <2> QED BY <2>2, <2>3, <2>4, DeadUntouched DEF Dead, Before
<1>9. CASE CheckCandidate \/ VerifyPromotion
  <2>1. releases' = releases /\ wire' = wire
    BY <1>9 DEF CheckCandidate, VerifyPromotion, github
  <2>2. job'.pc \in {"staged", "promote"}
    BY <1>0, <1>9, Moves
  <2> QED BY <2>1, <2>2, DeadUntouched DEF Dead
<1>10. CASE ReconcileCreatedRelease
  <2>1. PICK o \in CreateReadback(job.tag) :
            releases[o] = Draft /\ job' = [job EXCEPT !.pc = "upload", !.release = o]
    BY <1>10 DEF ReconcileCreatedRelease
  <2>2. job'.pc = "upload" /\ job'.release = o /\ job.pc = "reconcile"
    BY <1>0, <1>10, <2>1 DEF ReconcileCreatedRelease, TypeInv, JobRec
  <2>3. o # i
    BY <2>1, <2>2 DEF CreateReadback, Naming, Dead
  <2> QED BY <1>10, <2>2, <2>3 DEF ReconcileCreatedRelease, github, Dead
<1>11. CASE Upload
  <2>1. /\ SameReleases
        /\ \A o \in DOMAIN releases : releases'[o].draft = releases[o].draft
    BY <1>0, <1>11, ReleaseUploaded
  <2>2. /\ job.pc = "upload" /\ wire' = wire /\ head' = head /\ runs' = runs
        /\ job'.pc \in {"upload", "verify"} /\ job'.release = job.release
        /\ job'.ref = job.ref /\ job'.run = job.run
    <3>1. job' = job \/ job' = [job EXCEPT !.pc = "verify"]
      BY <1>11 DEF Upload, Goto
    <3> QED BY <1>0, <1>11, <3>1 DEF Upload, Goto, TypeInv, JobRec
  <2> QED BY <2>1, <2>2 DEF Dead, SameReleases, Automatic
<1>12. CASE VerifyUploads
  <2>1. /\ job.pc = "verify" /\ releases' = releases /\ wire' = wire
        /\ job'.pc = "publish" /\ job'.release = job.release
    BY <1>0, <1>12 DEF VerifyUploads, Goto, github, TypeInv, JobRec
  <2>2. job.release # i
    BY <1>12, <2>1 DEF VerifyUploads, ConfirmAutomaticSource, Dead
  <2> QED BY <2>1, <2>2 DEF Dead
<1>13. CASE StoreEvidence
  <2>1. releases' = releases /\ wire' = wire /\ job'.pc \in Before
    BY <1>0, <1>13, Moves DEF StoreEvidence, github
  <2> QED BY <2>1, DeadUntouched DEF Dead, Before
<1>14. ASSUME NEW w \in wire, Land(w) PROVE Dead(i)'
  <2>1. wire' = wire \ {w} /\ job' = job /\ (Apply(w) \/ releases' = releases)
    BY <1>14 DEF Land, github
  <2>2. i \in DOMAIN releases' /\ releases'[i] = releases[i]
    <3>0. i \in DOMAIN releases
      BY DEF Dead
    <3>1. CASE w.kind = "draft" /\ releases' = Append(releases, w.draft)
      BY <1>0, <3>0, <3>1, ReleaseAppended
    <3>2. CASE w.kind = "publish" /\ releases' = [releases EXCEPT ![w.release].draft = FALSE]
      BY <1>0, <3>0, <3>2, ReleasePublished DEF SameReleases, Dead
    <3> QED BY <2>1, <3>0, <3>1, <3>2 DEF Apply
  <2> QED BY <1>0, <2>1, <2>2, DeadElsewhere DEF Dead
<1> QED BY <1>0, <1>1, <1>2, <1>3, <1>4, <1>5, <1>6, <1>7, <1>8, <1>9, <1>10, <1>11, <1>12, <1>13,
           <1>14, NextCases

\* Every step keeps it.
LEMMA OvertakenNext ==
    ASSUME OvertakenInv, MCNext
    PROVE  OvertakenInv'
<1>1. ReleaseInv' /\ Began'
  BY ReleaseNext, BeganPreserved DEF OvertakenInv, MCNext
<1>2. \A i \in overtaken \cup OvertakenDrafts : Dead(i)
  BY OvertakenIsDead DEF OvertakenInv
<1>3. ASSUME NEW CONSTANT i, i \in overtaken \cup OvertakenDrafts PROVE Dead(i)'
  BY <1>2, <1>3, DeadKept DEF OvertakenInv, MCNext
<1> QED BY <1>1, <1>3 DEF OvertakenInv, MCNext

\* A step that changes nothing keeps it.
LEMMA OvertakenStutter ==
    ASSUME OvertakenInv, UNCHANGED <<vars, overtaken>>
    PROVE  OvertakenInv'
<1>1. ReleaseInv'
  BY ReleaseStutter DEF OvertakenInv
<1> QED BY <1>1 DEF OvertakenInv, Began, Dead, Automatic, Run, vars, github

\* It holds at first.
LEMMA OvertakenInit == MCInit => OvertakenInv
<1> SUFFICES ASSUME MCInit PROVE OvertakenInv
  OBVIOUS
<1>1. ReleaseInv
  BY ReleaseInit DEF MCInit
<1>2. job.pc = "idle" /\ overtaken = {}
  BY DEF MCInit, Init, Idle
<1> QED BY <1>1, <1>2 DEF OvertakenInv, Began, Late

(* A draft that was overtaken before its bytes were verified stays a draft: *)
(* the confirmation of an automatic source before publication.              *)
THEOREM OvertakenCorrect == MCSpec => []OvertakenStaysDraft
<1>1. ASSUME OvertakenInv, [MCNext]_<<vars, overtaken>> PROVE OvertakenInv'
  BY <1>1, OvertakenNext, OvertakenStutter
<1>2. OvertakenInv => OvertakenStaysDraft
  BY DEF OvertakenInv, OvertakenStaysDraft, Dead, Public
<1> QED BY OvertakenInit, <1>1, <1>2, PTL DEF MCSpec
=============================================================================
