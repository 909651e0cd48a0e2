--------------------- MODULE VersionPreparation_proofs ----------------------
(***************************************************************************)
(* Nothing is lost by preparing versions, for any number of operators,     *)
(* commits and versions.  Both properties follow from one fact about the   *)
(* history of commits, which every push and every merge keeps: a commit    *)
(* has all that its ancestors have, and a base version no smaller.         *)
(***************************************************************************)
EXTENDS VersionPreparation, FiniteSetTheorems, SequenceTheorems, WellFoundedInduction, TLAPS

-----------------------------------------------------------------------------
(* The inductive invariant *)

\* A commit descends from the first one, and has what its ancestors have.
Monotone ==
    \A c \in DOMAIN commits :
        /\ {1, c} \subseteq Ancestors(c) /\ Ancestors(c) \subseteq DOMAIN commits
        /\ \A a \in Ancestors(c) : /\ commits[a].others \subseteq commits[c].others
                                   /\ commits[a].base <= commits[c].base

\* What a run of prepare has made sure of: its target is no step back from the head it
\* started from, and the topic it will push on has nothing but the target.
RunKnows(r) ==
    /\ r.at \notin {"idle", "create"} => r.head \in DOMAIN commits
    /\ r.at \in {"list", "inspect", "push"} => r.target \in Version /\ r.target >= commits[r.head].base
    /\ r.at = "push" /\ r.topic_sha # NoCommit =>
          r.topic_sha \in DOMAIN commits /\ Owned(r.topic_sha, r.head, r.target)
    /\ r.at = "create" => r.target \in Version

RunsKnow == \A o \in Operators : RunKnows(run[o])

\* A pull request is open for a topic that exists.
Requested == \A v \in prs : topic[v] # NoCommit

IInv == TypeOK /\ Monotone /\ RunsKnow /\ Requested

-----------------------------------------------------------------------------
(* Numbers and commits *)

\* A nonempty bounded set of numbers has a greatest one: of all its subsets without, there
\* is no smallest.
LEMMA GreatestNumber ==
    ASSUME NEW N \in Nat, NEW S \in SUBSET (0..N), S # {}
    PROVE  \E x \in S : \A y \in S : x >= y
<1> DEFINE HasGreatest(T) == \E x \in T : \A y \in T : x >= y
           Bad == {T \in SUBSET S : T # {} /\ ~HasGreatest(T)}
<1>1. IsFiniteSet(S)
  <2>1. 0 \in Int /\ N \in Int
    OBVIOUS
  <2>2. IsFiniteSet(0..N)
    BY <2>1, FS_Interval
  <2> QED
    BY <2>2, FS_Subset
<1>2. ASSUME Bad # {} PROVE FALSE
  <2>1. IsWellFoundedOn(StrictSubsetOrdering(S), FiniteSubsetsOf(S))
    BY FS_StrictSubsetOrderingWellFounded
  <2>2. Bad \subseteq FiniteSubsetsOf(S)
    BY <1>1, FS_Subset DEF FiniteSubsetsOf
  <2> HIDE DEF Bad
  <2>3. PICK T \in Bad : \A U \in Bad : <<U, T>> \notin StrictSubsetOrdering(S)
    BY <1>2, <2>1, <2>2, WFMin
  <2>4. T \in SUBSET S /\ T # {} /\ ~HasGreatest(T)
    BY <2>3 DEF Bad
  <2>5. PICK x \in T : TRUE
    BY <2>4
  <2>6. PICK y \in T : ~(x >= y)
    BY <2>4, <2>5
  <2>7. x \in Int /\ y \in Int /\ y > x
    BY <2>4, <2>5, <2>6
  <2>8. T \ {x} \in SUBSET S /\ T \ {x} # {} /\ T \ {x} # T
    BY <2>4, <2>5, <2>6, <2>7
  <2>9. <<T \ {x}, T>> \in StrictSubsetOrdering(S)
    BY <2>4, <2>8 DEF StrictSubsetOrdering
  <2>10. PICK z \in T \ {x} : \A u \in T \ {x} : z >= u
    BY <2>3, <2>8, <2>9 DEF Bad
  <2>11. \A u \in T : z >= u
    BY <2>4, <2>6, <2>7, <2>10
  <2> QED
    BY <2>4, <2>10, <2>11
<1> QED
  BY <1>2

LEMMA MaxTaken ==
    ASSUME NEW N \in Nat, NEW S \in SUBSET (0..N), S # {}
    PROVE  Max(S) \in S
<1>1. \E x \in S : \A y \in S : x >= y
  BY GreatestNumber
<1> QED
  BY <1>1 DEF Max

LEMMA MinTaken ==
    ASSUME NEW N \in Nat, NEW S \in SUBSET (0..N), S # {}
    PROVE  Min(S) \in S
<1> DEFINE T == {N - x : x \in S}
<1>1. T \in SUBSET (0..N) /\ T # {}
  <2>1. \A x \in S : N - x \in 0..N
    OBVIOUS
  <2>2. PICK x \in S : TRUE
    OBVIOUS
  <2> QED
    BY <2>1, <2>2
<1>2. \E t \in T : \A u \in T : t >= u
  <2> HIDE DEF T
  <2> QED
    BY <1>1, GreatestNumber
<1>3. PICK x \in S : \A y \in S : N - x >= N - y
  BY <1>2
<1>4. \A y \in S : x <= y
  BY <1>3
<1> QED
  BY <1>4 DEF Min

LEMMA Commits ==
    ASSUME TypeOK
    PROVE  /\ Len(commits) \in Nat /\ DOMAIN commits = 1..Len(commits)
           /\ DOMAIN commits \subseteq 1..MaxCommit
           /\ MaxCommit \in Nat \ {0} /\ MaxVersion \in Nat \ {0}
           /\ \A c \in DOMAIN commits : commits[c] \in Commit
           /\ New \notin DOMAIN commits
BY PreparationAssumption DEF TypeOK, New

\* Two commits have a common ancestor, and their merge base is one.
LEMMA CommonAncestor ==
    ASSUME TypeOK, Monotone, NEW c \in DOMAIN commits, NEW d \in DOMAIN commits
    PROVE  MergeBase(c, d) \in Ancestors(c) \cap Ancestors(d)
<1>1. Ancestors(c) \cap Ancestors(d) \in SUBSET (0..Len(commits))
  BY Commits DEF Monotone
<1>2. Ancestors(c) \cap Ancestors(d) # {}
  BY DEF Monotone
<1> QED
  BY <1>1, <1>2, Commits, MaxTaken DEF MergeBase

\* A commit whose tree has all that its parents have.
LEMMA Appended ==
    ASSUME TypeOK, Monotone, New <= MaxCommit,
           NEW tree, tree.base \in Version, tree.others \in SUBSET (1..MaxCommit),
           NEW parents \in SUBSET DOMAIN commits, parents # {},
           \A p \in parents : /\ commits[p].others \subseteq tree.others
                              /\ commits[p].base <= tree.base,
           commits' = Append(commits, Made(tree, parents))
    PROVE  /\ commits' \in Seq(Commit) /\ Len(commits') <= MaxCommit
           /\ DOMAIN commits' = DOMAIN commits \cup {New}
           /\ \A c \in DOMAIN commits : commits'[c] = commits[c]
           /\ Monotone'
           /\ \A p \in parents : Ancestors(p) \subseteq commits'[New].ancestors
<1> DEFINE new == Made(tree, parents)
<1>1. New \in 1..MaxCommit /\ Len(commits) \in Nat /\ New = Len(commits) + 1
  BY Commits DEF New
<1>2. UNION {Ancestors(p) : p \in parents} \subseteq DOMAIN commits
  BY DEF Monotone
<1>3. /\ new.base = tree.base /\ new.others = tree.others
      /\ new.ancestors = {New} \cup UNION {Ancestors(p) : p \in parents}
      /\ new = [base |-> new.base, others |-> new.others, ancestors |-> new.ancestors]
  BY DEF Made
<1> HIDE DEF new
<1>4. new \in Commit
  BY <1>1, <1>2, <1>3, Commits DEF Commit
<1>5. /\ commits' \in Seq(Commit) /\ Len(commits') = New
      /\ \A c \in 1..Len(commits) : commits'[c] = commits[c]
      /\ commits'[New] = new
  BY <1>1, <1>4, AppendProperties DEF TypeOK, new
<1>6. DOMAIN commits' = 1..New
  BY <1>5
<1>7. DOMAIN commits' = DOMAIN commits \cup {New}
  BY <1>1, <1>6, Commits
<1>8. Monotone'
  <2>1. ASSUME NEW c \in DOMAIN commits'
        PROVE  /\ {1, c} \subseteq commits'[c].ancestors /\ commits'[c].ancestors \subseteq DOMAIN commits'
               /\ \A a \in commits'[c].ancestors :
                     /\ commits'[a].others \subseteq commits'[c].others
                     /\ commits'[a].base <= commits'[c].base
    <3>1. CASE c \in DOMAIN commits
      <4>1. commits'[c] = commits[c] /\ \A a \in DOMAIN commits : commits'[a] = commits[a]
        BY <1>5, <3>1, Commits
      <4> QED
        BY <1>7, <3>1, <4>1 DEF Monotone, Ancestors
    <3>2. CASE c = New
      <4>1. {1, New} \subseteq new.ancestors
        BY <1>3 DEF Monotone
      <4>2. new.ancestors \subseteq DOMAIN commits'
        BY <1>2, <1>3, <1>7
      <4>3. ASSUME NEW a \in new.ancestors
            PROVE  /\ commits'[a].others \subseteq new.others
                   /\ commits'[a].base <= new.base
        <5>1. CASE a = New
          BY <1>3, <1>5, <5>1 DEF Version
        <5>2. CASE a # New
          <6>1. PICK p \in parents : a \in Ancestors(p)
            BY <1>3, <4>3, <5>2
          <6>2. /\ a \in DOMAIN commits
                /\ commits[a].others \subseteq commits[p].others
                /\ commits[a].base <= commits[p].base
            BY <6>1 DEF Monotone
          <6>3. commits'[a] = commits[a]
            BY <1>5, <6>2, Commits
          <6>4. commits[a].base \in Int /\ commits[p].base \in Int /\ tree.base \in Int
            BY <6>2, Commits DEF Commit, Version
          <6> QED
            BY <1>3, <6>2, <6>3, <6>4
        <5> QED
          BY <5>1, <5>2
      <4> QED
        BY <1>5, <3>2, <4>1, <4>2, <4>3
    <3> QED
      BY <1>7, <2>1, <3>1, <3>2
  <2> QED
    BY <2>1 DEF Monotone, Ancestors
<1> QED
  BY <1>1, <1>3, <1>5, <1>7, <1>8, Commits

-----------------------------------------------------------------------------
(* Steps *)

\* What a run knows does not depend on later commits.
LEMMA KnowledgeLasts ==
    ASSUME TypeOK, Monotone, NEW CONSTANT r, RunKnows(r),
           DOMAIN commits \subseteq DOMAIN commits',
           \A c \in DOMAIN commits : commits'[c] = commits[c]
    PROVE  RunKnows(r)'
<1>1. ASSUME r.head \in DOMAIN commits, r.topic_sha \in DOMAIN commits,
             Owned(r.topic_sha, r.head, r.target)
      PROVE  Owned(r.topic_sha, r.head, r.target)'
  <2>1. MergeBase(r.topic_sha, r.head)' = MergeBase(r.topic_sha, r.head)
    BY <1>1 DEF MergeBase, Ancestors
  <2>2. MergeBase(r.topic_sha, r.head) \in DOMAIN commits
    BY <1>1, CommonAncestor DEF Monotone
  <2> QED
    BY <1>1, <2>1, <2>2 DEF Owned, Tree
<1> QED
  BY <1>1 DEF RunKnows

LEMMA InitInv == Init => IInv
<1> SUFFICES ASSUME Init PROVE IInv
  OBVIOUS
<1>1. commits = <<[base |-> 1, others |-> {}, ancestors |-> {1}]>>
  BY DEF Init
<1>2. [base |-> 1, others |-> {}, ancestors |-> {1}] \in Commit /\ 1 <= MaxCommit
  BY PreparationAssumption DEF Commit, Version
<1>3. commits \in Seq(Commit) /\ Len(commits) = 1 /\ DOMAIN commits = {1}
  BY <1>1, <1>2
<1>4. TypeOK
  BY <1>2, <1>3, PreparationAssumption DEF Init, TypeOK, NoRun, Run, NoCommit
<1>5. Monotone
  BY <1>1, <1>3 DEF Monotone, Ancestors
<1>6. RunsKnow /\ Requested
  BY DEF Init, RunsKnow, RunKnows, NoRun, Requested
<1> QED
  BY <1>4, <1>5, <1>6 DEF IInv

\* One operator's run moves on and nothing else changes: what it comes to know is all
\* there is to show.
LEMMA RunMoves ==
    ASSUME IInv, NEW o \in Operators, NEW CONSTANT r \in Run, run' = [run EXCEPT ![o] = r],
           RunKnows(r), UNCHANGED <<commits, main, tags, topic, prs>>
    PROVE  IInv'
<1>1. TypeOK'
  BY DEF IInv, TypeOK
<1>2. Monotone' /\ Requested'
  BY DEF IInv, Monotone, Ancestors, Requested
<1>3. RunKnows(r)'
  BY KnowledgeLasts DEF IInv
<1>4. ASSUME NEW n \in Operators PROVE RunKnows(run[n])'
  <2>1. CASE n = o
    BY <1>3, <2>1 DEF IInv, TypeOK
  <2>2. CASE n # o
    <3>1. PICK s \in {run[n]} : TRUE
      OBVIOUS
    <3>2. RunKnows(s) /\ run'[n] = s
      BY <2>2, <3>1 DEF IInv, RunsKnow, TypeOK
    <3>3. RunKnows(s)'
      BY <3>2, KnowledgeLasts DEF IInv
    <3> QED
      BY <3>2, <3>3
  <2> QED
    BY <2>1, <2>2
<1> QED
  BY <1>1, <1>2, <1>4 DEF IInv, RunsKnow

LEMMA RunStep ==
    ASSUME IInv, NEW o \in Operators, NEW r \in Run, Step(o, r), RunKnows(r),
           UNCHANGED <<commits, main, tags, topic, prs>>
    PROVE  IInv'
<1>1. PICK s \in {r} : TRUE
  OBVIOUS
<1>2. s \in Run /\ run' = [run EXCEPT ![o] = s] /\ RunKnows(s)
  BY <1>1 DEF Step
<1> QED
  BY <1>2, RunMoves

LEMMA RunTyped ==
    ASSUME IInv, NEW o \in Operators
    PROVE  run[o] \in Run /\ RunKnows(run[o]) /\ NoRun \in Run
BY PreparationAssumption DEF IInv, TypeOK, RunsKnow, NoRun, Run, NoCommit

LEMMA CheckoutStep ==
    ASSUME IInv, NEW o \in Operators, Checkout(o) PROVE IInv'
<1> DEFINE r == [NoRun EXCEPT !.at = "choose", !.head = main]
<1>1. main \in DOMAIN commits /\ main \in 0..MaxCommit
  BY Commits DEF IInv, TypeOK
<1>2. r \in Run /\ r.at = "choose" /\ r.head = main
  BY <1>1, RunTyped DEF NoRun, Run
<1>3. RunKnows(r)
  BY <1>1, <1>2 DEF RunKnows
<1>4. Step(o, r) /\ UNCHANGED <<commits, main, tags, topic, prs>>
  BY DEF Checkout
<1> HIDE DEF r
<1> QED
  BY <1>2, <1>3, <1>4, RunStep

\* choose_version never goes below the base it is given.
LEMMA TargetsForward ==
    ASSUME NEW current \in Version, NEW released, NEW v \in Targets(current, released)
    PROVE  v \in Version /\ v >= current
<1> DEFINE free == {u \in Version : u >= Bumped(current, released) /\ u >= current} \ Occupied
<1>1. MaxVersion \in Nat /\ free \in SUBSET (0..MaxVersion)
  BY PreparationAssumption DEF Version
<1>2. free # {} => Min(free) \in free
  BY <1>1, MinTaken
<1>3. (v \in Version \ Occupied /\ v >= current) \/ (free # {} /\ v = Min(free))
  BY DEF Targets
<1> QED
  BY <1>2, <1>3

LEMMA ChooseStep ==
    ASSUME IInv, NEW o \in Operators, Choose(o) PROVE IInv'
<1>1. PICK v \in Targets(commits[run[o].head].base, Reachable(run[o].head)) :
         Step(o, [run[o] EXCEPT !.at = "list", !.target = v])
  BY DEF Choose
<1> DEFINE r == [run[o] EXCEPT !.at = "list", !.target = v]
<1>2. run[o].head \in DOMAIN commits /\ run[o].at = "choose"
  BY RunTyped DEF Choose, RunKnows
<1>3. commits[run[o].head].base \in Version
  BY <1>2, Commits DEF IInv, Commit
<1>4. v \in Version /\ v >= commits[run[o].head].base
  BY <1>1, <1>3, TargetsForward
<1>5. /\ r \in Run /\ r.at = "list" /\ r.target = v /\ r.head = run[o].head
  <2>1. v \in 0..MaxVersion
    BY <1>4, Commits DEF IInv, Version
  <2> QED
    BY <2>1, RunTyped DEF Run
<1>6. Step(o, r) /\ UNCHANGED <<commits, main, tags, topic, prs>>
  BY <1>1 DEF Choose
<1> HIDE DEF r
<1>7. RunKnows(r)
  BY <1>2, <1>4, <1>5 DEF RunKnows
<1> QED
  BY <1>5, <1>6, <1>7, RunStep

LEMMA ListStep ==
    ASSUME IInv, NEW o \in Operators, List(o) PROVE IInv'
<1> DEFINE existing == IF run[o].target \in prs THEN topic[run[o].target] ELSE NoCommit
           r == [run[o] EXCEPT !.at = "inspect", !.existing = existing]
<1>1. run[o].at = "list" /\ existing \in 0..MaxCommit
  BY Commits DEF List, IInv, TypeOK, NoCommit
<1>2. /\ r \in Run /\ r.at = "inspect" /\ r.target = run[o].target /\ r.head = run[o].head
  BY <1>1, RunTyped DEF Run
<1>3. Step(o, r) /\ UNCHANGED <<commits, main, tags, topic, prs>>
  BY DEF List
<1> HIDE DEF r
<1>4. RunKnows(r)
  BY <1>1, <1>2, RunTyped DEF RunKnows
<1> QED
  BY <1>2, <1>3, <1>4, RunStep

\* The topic is verified as it is when it is inspected.
LEMMA InspectStep ==
    ASSUME IInv, NEW o \in Operators, Inspect(o) PROVE IInv'
<1> DEFINE sha == topic[run[o].target]
           r == [run[o] EXCEPT !.at = "push", !.topic_sha = sha]
<1>1. run[o].at = "inspect" /\ (sha # NoCommit => Owned(sha, run[o].head, run[o].target))
  BY DEF Inspect
<1>2. run[o].target \in Version
  BY <1>1, RunTyped DEF RunKnows
<1>3. sha \in {NoCommit} \cup DOMAIN commits /\ sha \in 0..MaxCommit
  BY <1>2, Commits DEF IInv, TypeOK, NoCommit
<1>4. /\ r \in Run /\ r.at = "push" /\ r.target = run[o].target /\ r.head = run[o].head
      /\ r.topic_sha = sha
  BY <1>3, RunTyped DEF Run
<1>5. Step(o, r) /\ UNCHANGED <<commits, main, tags, topic, prs>>
  BY DEF Inspect
<1> HIDE DEF r
<1>6. RunKnows(r)
  BY <1>1, <1>3, <1>4, RunTyped DEF RunKnows
<1> QED
  BY <1>4, <1>5, <1>6, RunStep

\* A run that ends, or has only its pull request left to open.
LEMMA Finished ==
    ASSUME IInv, NEW o \in Operators
    PROVE  /\ RunKnows(NoRun)
           /\ run[o].at = "push" =>
                 /\ PushedBy(run[o]) \in Run
                 /\ RunKnows(PushedBy(run[o]))
                 /\ \/ PushedBy(run[o]).at = "idle"
                    \/ PushedBy(run[o]).at = "create" /\ PushedBy(run[o]).target \in Version
<1>1. RunKnows(NoRun)
  BY DEF RunKnows, NoRun
<1>2. ASSUME run[o].at = "push"
      PROVE  /\ PushedBy(run[o]) \in Run
             /\ RunKnows(PushedBy(run[o]))
             /\ \/ PushedBy(run[o]).at = "idle"
                \/ PushedBy(run[o]).at = "create" /\ PushedBy(run[o]).target \in Version
  <2>1. run[o].target \in Version /\ run[o].target \in 0..MaxVersion
    BY <1>2, RunTyped DEF RunKnows, Run
  <2>2. CASE run[o].existing # NoCommit
    BY <1>1, <2>2, RunTyped DEF PushedBy, NoRun
  <2>3. CASE run[o].existing = NoCommit
    <3> DEFINE r == [NoRun EXCEPT !.at = "create", !.target = run[o].target]
    <3>1. PushedBy(run[o]) = r /\ r.at = "create" /\ r.target = run[o].target /\ r \in Run
      BY <2>1, <2>3, RunTyped DEF PushedBy, NoRun, Run
    <3> HIDE DEF r
    <3> QED
      BY <2>1, <3>1 DEF RunKnows
  <2> QED
    BY <2>2, <2>3
<1> QED
  BY <1>1, <1>2

-----------------------------------------------------------------------------
(* Commits *)

\* A commit is added, on top of parents that have no more than it has.
LEMMA CommitStep ==
    ASSUME IInv, New <= MaxCommit,
           NEW tree, tree.base \in Version, tree.others \in SUBSET (1..MaxCommit),
           NEW parents \in SUBSET DOMAIN commits, parents # {},
           \A p \in parents : /\ commits[p].others \subseteq tree.others
                              /\ commits[p].base <= tree.base,
           commits' = Append(commits, Made(tree, parents)),
           main' \in {main, New}, tags' = tags,
           topic' \in [Version -> {NoCommit, New} \cup DOMAIN commits],
           prs' \subseteq prs, \A v \in prs' : topic'[v] # NoCommit,
           run' \in [Operators -> Run],
           \A o \in Operators : \/ run'[o] = run[o]
                                \/ run'[o].at = "idle"
                                \/ run'[o].at = "create" /\ run'[o].target \in Version
    PROVE  IInv'
<1>1. /\ commits' \in Seq(Commit) /\ Len(commits') <= MaxCommit
      /\ DOMAIN commits' = DOMAIN commits \cup {New}
      /\ \A c \in DOMAIN commits : commits'[c] = commits[c]
      /\ Monotone'
  BY Appended DEF IInv
<1>2. TypeOK'
  BY <1>1 DEF IInv, TypeOK
<1>3. Requested'
  BY DEF Requested
<1>4. ASSUME NEW o \in Operators PROVE RunKnows(run[o])'
  <2>1. PICK r \in {run'[o]} : TRUE
    OBVIOUS
  <2>2. CASE run'[o] = run[o]
    <3>1. RunKnows(r)
      BY <2>1, <2>2 DEF IInv, RunsKnow
    <3>2. RunKnows(r)'
      BY <1>1, <3>1, KnowledgeLasts DEF IInv
    <3> QED
      BY <2>1, <3>2
  <2>3. CASE run'[o].at = "idle" \/ (run'[o].at = "create" /\ run'[o].target \in Version)
    BY <2>3 DEF RunKnows
  <2> QED
    BY <2>2, <2>3
<1> QED
  BY <1>1, <1>2, <1>3, <1>4 DEF IInv, RunsKnow

\* Main and a topic that stays descend from what they were.
Descends ==
    /\ \A c \in DOMAIN commits : c \in DOMAIN commits' /\ commits'[c] = commits[c]
    /\ main \in commits'[main'].ancestors
    /\ \A v \in Version : topic[v] # NoCommit /\ topic'[v] # NoCommit =>
          topic[v] \in commits'[topic'[v]].ancestors

\* What a push puts on a topic has all that its parents have: the head it started from,
\* and a topic that was found to have nothing but its target.
LEMMA PreparedKeeps ==
    ASSUME IInv, NEW r \in Run, RunKnows(r), r.at = "push"
    PROVE  /\ Prepared(r).base \in Version /\ Prepared(r).others \in SUBSET (1..MaxCommit)
           /\ Parents(r) \in SUBSET DOMAIN commits /\ Parents(r) # {}
           /\ \A p \in Parents(r) : /\ commits[p].others \subseteq Prepared(r).others
                                    /\ commits[p].base <= Prepared(r).base
<1>1. /\ r.head \in DOMAIN commits /\ r.target \in Version /\ r.target >= commits[r.head].base
      /\ r.topic_sha # NoCommit =>
            r.topic_sha \in DOMAIN commits /\ Owned(r.topic_sha, r.head, r.target)
  BY DEF RunKnows
<1>2. Prepared(r).base = r.target /\ Prepared(r).others = commits[r.head].others
  BY DEF Prepared, Tree
<1>3. commits[r.head] \in Commit
  BY <1>1, Commits DEF IInv
<1>4. ASSUME r.topic_sha # NoCommit
      PROVE  /\ commits[r.topic_sha].others \subseteq commits[r.head].others
             /\ commits[r.topic_sha].base = r.target
  <2> DEFINE ancestor == MergeBase(r.topic_sha, r.head)
  <2>1. ancestor \in Ancestors(r.head)
    BY <1>1, <1>4, CommonAncestor DEF IInv
  <2>2. commits[ancestor].others \subseteq commits[r.head].others
    BY <1>1, <2>1 DEF IInv, Monotone
  <2>3. Tree(r.topic_sha) = [Tree(ancestor) EXCEPT !.base = r.target]
    BY <1>1, <1>4 DEF Owned
  <2>4. /\ commits[r.topic_sha].others = commits[ancestor].others
        /\ commits[r.topic_sha].base = r.target
    <3> HIDE DEF ancestor
    <3> QED
      BY <2>3 DEF Tree
  <2> QED
    BY <2>2, <2>4
<1> QED
  BY <1>1, <1>2, <1>3, <1>4 DEF Parents, Commit, Version

LEMMA PushStep ==
    ASSUME IInv, NEW o \in Operators, Push(o) PROVE IInv' /\ Descends
<1> DEFINE r == run[o]
           tree == Prepared(r)
<1>1. /\ r \in Run /\ RunKnows(r) /\ r.at = "push" /\ r.target \in Version
      /\ New <= MaxCommit /\ FastForward(topic[r.target], Parents(r))
      /\ commits' = Append(commits, Made(tree, Parents(r)))
      /\ topic' = [topic EXCEPT ![r.target] = New]
      /\ run' = [run EXCEPT ![o] = PushedBy(r)] /\ UNCHANGED <<main, tags, prs>>
  BY RunTyped DEF Push, Step, RunKnows
<1>2. /\ tree.base \in Version /\ tree.others \in SUBSET (1..MaxCommit)
      /\ Parents(r) \in SUBSET DOMAIN commits /\ Parents(r) # {}
      /\ \A p \in Parents(r) : /\ commits[p].others \subseteq tree.others
                               /\ commits[p].base <= tree.base
  BY <1>1, PreparedKeeps
<1> HIDE DEF tree
<1>3. topic' \in [Version -> {NoCommit, New} \cup DOMAIN commits] /\ New # NoCommit
  BY <1>1, Commits DEF IInv, TypeOK, New, NoCommit
<1>4. \A v \in prs' : topic'[v] # NoCommit
  BY <1>1, <1>3 DEF IInv, Requested, TypeOK
<1>5. /\ run' \in [Operators -> Run]
      /\ \A n \in Operators : \/ run'[n] = run[n]
                              \/ run'[n].at = "idle"
                              \/ run'[n].at = "create" /\ run'[n].target \in Version
  <2>1. /\ PushedBy(r) \in Run
        /\ \/ PushedBy(r).at = "idle"
           \/ PushedBy(r).at = "create" /\ PushedBy(r).target \in Version
    BY <1>1, Finished
  <2> QED
    BY <1>1, <2>1 DEF IInv, TypeOK
<1>6. IInv'
  BY <1>1, <1>2, <1>3, <1>4, <1>5, CommitStep
<1>7. /\ \A c \in DOMAIN commits : c \in DOMAIN commits' /\ commits'[c] = commits[c]
      /\ \A p \in Parents(r) : Ancestors(p) \subseteq commits'[New].ancestors
  BY <1>1, <1>2, Appended DEF IInv
<1>8. main \in commits'[main'].ancestors
  BY <1>1, <1>7 DEF IInv, TypeOK, Monotone, Ancestors
<1>9. ASSUME NEW v \in Version, topic[v] # NoCommit
      PROVE  topic[v] \in commits'[topic'[v]].ancestors
  <2>1. CASE v = r.target
    BY <1>1, <1>7, <1>9, <2>1 DEF FastForward, IInv, TypeOK
  <2>2. CASE v # r.target
    BY <1>1, <1>7, <1>9, <2>2 DEF IInv, TypeOK, Monotone, Ancestors
  <2> QED
    BY <2>1, <2>2
<1> QED
  BY <1>6, <1>7, <1>8, <1>9 DEF Descends

LEMMA LandStep ==
    ASSUME IInv, Land PROVE IInv' /\ Descends
<1> DEFINE tree == [Tree(main) EXCEPT !.others = @ \cup {New}]
<1>1. /\ New <= MaxCommit /\ commits' = Append(commits, Made(tree, {main}))
      /\ main' = New /\ UNCHANGED <<tags, topic, prs, run>>
  BY DEF Land
<1>2. main \in DOMAIN commits /\ commits[main] \in Commit /\ New \in 1..MaxCommit
  BY <1>1, Commits DEF IInv, TypeOK, New
<1>3. tree.base = commits[main].base /\ tree.others = commits[main].others \cup {New}
  BY DEF Tree
<1> HIDE DEF tree
<1>4. /\ tree.base \in Version /\ tree.others \in SUBSET (1..MaxCommit)
      /\ {main} \in SUBSET DOMAIN commits /\ {main} # {}
      /\ \A p \in {main} : /\ commits[p].others \subseteq tree.others
                           /\ commits[p].base <= tree.base
  BY <1>2, <1>3 DEF Commit, Version
<1>5. topic' \in [Version -> {NoCommit, New} \cup DOMAIN commits]
  BY <1>1 DEF IInv, TypeOK
<1>6. IInv'
  BY <1>1, <1>4, <1>5, CommitStep DEF IInv, TypeOK, Requested
<1>7. /\ \A c \in DOMAIN commits : c \in DOMAIN commits' /\ commits'[c] = commits[c]
      /\ Ancestors(main) \subseteq commits'[New].ancestors
  BY <1>1, <1>4, Appended DEF IInv
<1> QED
  BY <1>1, <1>2, <1>6, <1>7 DEF Descends, IInv, TypeOK, Monotone, Ancestors

LEMMA EditTopicStep ==
    ASSUME IInv, NEW v \in Version, EditTopic(v) PROVE IInv' /\ Descends
<1> DEFINE tree == [Tree(topic[v]) EXCEPT !.others = @ \cup {New}]
<1>1. /\ New <= MaxCommit /\ topic[v] # NoCommit
      /\ commits' = Append(commits, Made(tree, {topic[v]}))
      /\ topic' = [topic EXCEPT ![v] = New] /\ UNCHANGED <<main, tags, prs, run>>
  BY DEF EditTopic
<1>2. topic[v] \in DOMAIN commits /\ commits[topic[v]] \in Commit /\ New \in 1..MaxCommit
  BY <1>1, Commits DEF IInv, TypeOK, New
<1>3. tree.base = commits[topic[v]].base /\ tree.others = commits[topic[v]].others \cup {New}
  BY DEF Tree
<1> HIDE DEF tree
<1>4. /\ tree.base \in Version /\ tree.others \in SUBSET (1..MaxCommit)
      /\ {topic[v]} \in SUBSET DOMAIN commits /\ {topic[v]} # {}
      /\ \A p \in {topic[v]} : /\ commits[p].others \subseteq tree.others
                               /\ commits[p].base <= tree.base
  BY <1>2, <1>3 DEF Commit, Version
<1>5. topic' \in [Version -> {NoCommit, New} \cup DOMAIN commits] /\ New # NoCommit
  BY <1>1, <1>2 DEF IInv, TypeOK, NoCommit
<1>6. \A u \in prs' : topic'[u] # NoCommit
  BY <1>1, <1>5 DEF IInv, TypeOK, Requested
<1>7. IInv'
  BY <1>1, <1>4, <1>5, <1>6, CommitStep DEF IInv, TypeOK
<1>8. /\ \A c \in DOMAIN commits : c \in DOMAIN commits' /\ commits'[c] = commits[c]
      /\ Ancestors(topic[v]) \subseteq commits'[New].ancestors
  BY <1>1, <1>4, Appended DEF IInv
<1>9. ASSUME NEW u \in Version, topic[u] # NoCommit
      PROVE  topic[u] \in commits'[topic'[u]].ancestors
  <2>1. CASE u = v
    BY <1>1, <1>2, <1>8, <2>1 DEF IInv, TypeOK, Monotone
  <2>2. CASE u # v
    BY <1>1, <1>8, <1>9, <2>2 DEF IInv, TypeOK, Monotone, Ancestors
  <2> QED
    BY <2>1, <2>2
<1> QED
  BY <1>1, <1>7, <1>8, <1>9 DEF Descends, IInv, TypeOK, Monotone, Ancestors

\* What the merge of a branch makes has all that main and the branch have: neither side
\* has removed anything, and only one of them has moved the base version, forwards.
LEMMA MergedKeeps ==
    ASSUME IInv, NEW c \in DOMAIN commits, ~Conflict(c)
    PROVE  /\ Merged(c).base \in Version /\ Merged(c).others \in SUBSET (1..MaxCommit)
           /\ \A p \in {main, c} : /\ commits[p].others \subseteq Merged(c).others
                                   /\ commits[p].base <= Merged(c).base
<1> DEFINE from == MergeBase(c, main)
<1>1. main \in DOMAIN commits /\ from \in Ancestors(c) \cap Ancestors(main)
  BY CommonAncestor DEF IInv, TypeOK
<1>2. from \in DOMAIN commits
  BY <1>1 DEF IInv, Monotone
<1>3. commits[main] \in Commit /\ commits[c] \in Commit /\ commits[from] \in Commit
  BY <1>1, <1>2, Commits DEF IInv
<1>4. /\ commits[from].others \subseteq commits[c].others
      /\ commits[from].others \subseteq commits[main].others
      /\ commits[from].base <= commits[c].base
      /\ commits[from].base <= commits[main].base
  BY <1>1 DEF IInv, Monotone
<1>5. /\ Merged(c).base = IF commits[c].base # commits[from].base THEN commits[c].base
                                                                  ELSE commits[main].base
      /\ Merged(c).others = commits[main].others \cup commits[c].others
  BY <1>4 DEF Merged
<1>6. \/ commits[c].base = commits[from].base
      \/ commits[main].base = commits[from].base
      \/ commits[c].base = commits[main].base
  BY DEF Conflict
<1> HIDE DEF from
<1>7. /\ commits[c].base \in Version /\ commits[main].base \in Version
      /\ commits[from].base \in Version
      /\ commits[c].others \in SUBSET (1..MaxCommit) /\ commits[main].others \in SUBSET (1..MaxCommit)
  BY <1>3 DEF Commit
<1>8. commits[c].base <= Merged(c).base /\ commits[main].base <= Merged(c).base
  BY <1>4, <1>5, <1>6, <1>7 DEF Version
<1> QED
  BY <1>5, <1>7, <1>8

LEMMA MergeStep ==
    ASSUME IInv, NEW v \in Version, Merge(v) PROVE IInv' /\ Descends
<1> DEFINE c == topic[v]
           tree == Merged(c)
<1>1. /\ New <= MaxCommit /\ v \in prs /\ ~Conflict(c)
      /\ commits' = Append(commits, Made(tree, {main, c}))
      /\ main' = New /\ prs' = prs \ {v}
      /\ topic' \in {topic, [topic EXCEPT ![v] = NoCommit]}
      /\ UNCHANGED <<tags, run>>
  BY DEF Merge
<1>2. main \in DOMAIN commits /\ c \in DOMAIN commits
  BY <1>1 DEF IInv, TypeOK, Requested
<1>3. /\ tree.base \in Version /\ tree.others \in SUBSET (1..MaxCommit)
      /\ {main, c} \in SUBSET DOMAIN commits /\ {main, c} # {}
      /\ \A p \in {main, c} : /\ commits[p].others \subseteq tree.others
                              /\ commits[p].base <= tree.base
  BY <1>1, <1>2, MergedKeeps
<1> HIDE DEF tree
<1>4. /\ topic' \in [Version -> {NoCommit, New} \cup DOMAIN commits]
      /\ \A u \in prs' : topic'[u] # NoCommit
      /\ \A u \in Version : topic'[u] \in {topic[u], NoCommit}
  BY <1>1 DEF IInv, TypeOK, Requested
<1>5. IInv'
  BY <1>1, <1>3, <1>4, CommitStep DEF IInv, TypeOK
<1>6. /\ \A d \in DOMAIN commits : d \in DOMAIN commits' /\ commits'[d] = commits[d]
      /\ Ancestors(main) \subseteq commits'[New].ancestors
  BY <1>1, <1>3, Appended DEF IInv
<1>7. \A u \in Version : topic[u] # NoCommit /\ topic'[u] # NoCommit =>
          topic[u] \in commits'[topic'[u]].ancestors
  BY <1>4, <1>6 DEF IInv, TypeOK, Monotone, Ancestors
<1>8. main \in commits'[main'].ancestors
  BY <1>1, <1>2, <1>6 DEF IInv, Monotone
<1> QED
  BY <1>5, <1>6, <1>7, <1>8 DEF Descends

\* A step that adds no commit and moves no branch.
LEMMA BranchesStay ==
    ASSUME IInv, UNCHANGED <<commits, main, topic>>
    PROVE  Descends
BY DEF Descends, IInv, TypeOK, Monotone, Ancestors

LEMMA NextInv ==
    ASSUME IInv, [Next]_vars
    PROVE  IInv' /\ Descends
<1>1. ASSUME NEW o \in Operators,
             Checkout(o) \/ Choose(o) \/ List(o) \/ Inspect(o)
      PROVE  IInv' /\ Descends
  <2>1. Descends
    BY <1>1, BranchesStay DEF Checkout, Choose, List, Inspect
  <2> QED
    BY <1>1, <2>1, CheckoutStep, ChooseStep, ListStep, InspectStep
<1>2. ASSUME NEW o \in Operators, Unchanged(o) \/ UpToDate(o) \/ End(o)
      PROVE  IInv' /\ Descends
  <2>1. PICK r \in Run : /\ Step(o, r) /\ RunKnows(r)
                         /\ UNCHANGED <<commits, main, tags, topic, prs>>
    BY <1>2, RunTyped, Finished DEF Unchanged, UpToDate, End
  <2> QED
    BY <2>1, RunStep, BranchesStay
<1>3. ASSUME NEW o \in Operators, CreatePullRequest(o)
      PROVE  IInv' /\ Descends
  <2>1. /\ run[o].at = "create" /\ topic[run[o].target] # NoCommit
        /\ prs' = prs \cup {run[o].target} /\ run' = [run EXCEPT ![o] = NoRun]
        /\ UNCHANGED <<commits, main, tags, topic>>
    BY <1>3 DEF CreatePullRequest, Step
  <2>2. run[o].target \in Version
    BY <2>1, RunTyped DEF RunKnows
  <2>3. TypeOK' /\ Monotone' /\ Requested'
    BY <2>1, <2>2, RunTyped DEF IInv, TypeOK, Monotone, Ancestors, Requested
  <2>4. ASSUME NEW n \in Operators PROVE RunKnows(run[n])'
    <3>1. PICK s \in {run'[n]} : TRUE
      OBVIOUS
    <3>2. RunKnows(s)
      BY <2>1, <3>1, Finished DEF IInv, TypeOK, RunsKnow
    <3>3. RunKnows(s)'
      BY <2>1, <3>2, KnowledgeLasts DEF IInv
    <3> QED
      BY <3>1, <3>3
  <2> QED
    BY <2>1, <2>3, <2>4, BranchesStay DEF IInv, RunsKnow
<1>4. ASSUME NEW v \in Version, EditTopic(v) \/ Merge(v) PROVE IInv' /\ Descends
  BY <1>4, EditTopicStep, MergeStep
<1>5. CASE Release
  <2>1. /\ tags' = [tags EXCEPT ![commits[main].base] = main]
        /\ UNCHANGED <<commits, main, topic, prs, run>>
    BY <1>5 DEF Release
  <2>2. TypeOK' /\ Monotone' /\ Requested'
    BY <2>1 DEF IInv, TypeOK, Monotone, Ancestors, Requested
  <2>3. RunsKnow'
    BY <2>1 DEF IInv, RunsKnow, RunKnows, Owned, MergeBase, Tree, Ancestors
  <2> QED
    BY <2>1, <2>2, <2>3, BranchesStay DEF IInv
<1>6. CASE UNCHANGED vars
  <2>1. IInv'
    BY <1>6 DEF vars, IInv, TypeOK, Monotone, Ancestors, Requested, RunsKnow, RunKnows, Owned,
                MergeBase, Tree
  <2> QED
    BY <1>6, <2>1, BranchesStay DEF vars
<1> QED
  BY <1>1, <1>2, <1>3, <1>4, <1>5, <1>6, PushStep, LandStep DEF Next

-----------------------------------------------------------------------------
(* The history of commits, what each run of prepare relies on and the open  *)
(* pull requests are as IInv says, for any operators and any number of      *)
(* commits and versions.                                                    *)
THEOREM PreparationCorrect == Spec => []IInv
<1>1. IInv /\ [Next]_vars => IInv'
  BY NextInv
<1> QED
  BY <1>1, InitInv, PTL DEF Spec

(* Every variable of the preparation keeps its type.                        *)
THEOREM TypeCorrect == Spec => []TypeOK
<1>1. IInv => TypeOK
  BY DEF IInv
<1> QED
  BY <1>1, PreparationCorrect, PTL

(* No merge of a preparation takes a change from main or its version back.  *)
THEOREM MainKept == Spec => MainNeverLoses
<1>1. ASSUME IInv, [Next]_vars
      PROVE  /\ commits[main].others \subseteq commits'[main'].others
             /\ commits[main].base <= commits'[main'].base
  <2>1. IInv' /\ Descends
    BY <1>1, NextInv
  <2> QED
    BY <1>1, <2>1 DEF Descends, IInv, Monotone, Ancestors, TypeOK
<1> QED
  BY <1>1, PreparationCorrect, PTL DEF Spec, MainNeverLoses

(* No push of prepare_version.py drops what somebody else has pushed to the *)
(* topic, before it was verified or since.                                  *)
THEOREM EditsKept == Spec => TopicEditsKept
<1>1. ASSUME IInv, [Next]_vars
      PROVE  \A v \in Version :
                topic[v] # NoCommit /\ topic'[v] # NoCommit =>
                    commits[topic[v]].others \subseteq commits'[topic'[v]].others
  <2>1. IInv' /\ Descends
    BY <1>1, NextInv
  <2> QED
    BY <1>1, <2>1 DEF Descends, IInv, Monotone, Ancestors, TypeOK
<1> QED
  BY <1>1, PreparationCorrect, PTL DEF Spec, TopicEditsKept
=============================================================================
