------------------------- MODULE VersionPreparation -------------------------
(***************************************************************************)
(* Preparing the base version of the next release: prepare() of            *)
(* scripts/prepare_version.py with --pr.  Any number of operators run it   *)
(* at a time, each in a clone of its own; it reads the default branch, the *)
(* tags, the pull requests and the topic branch of its target one after    *)
(* the other and only then pushes, while people land changes, edit topic   *)
(* branches, merge pull requests and release what was merged.  A run may   *)
(* be interrupted anywhere; the next one takes up what it has left.        *)
(*                                                                         *)
(* A version is the patch number of X.Y.Z.  A tree is the base version and *)
(* the set of other changes in it: a topic branch owns its version and     *)
(* nothing else.  A push without force succeeds only on top of the branch. *)
(* Names ending in _m are mutants.                                         *)
(***************************************************************************)
EXTENDS Naturals, Sequences, FiniteSets, FiniteSetsExt

CONSTANTS
    Operators,   \* those who prepare versions
    MaxCommit,   \* bound on the commits, for TLC
    MaxVersion   \* bound on the versions, for TLC

ASSUME PreparationAssumption == {MaxCommit, MaxVersion} \subseteq Nat \ {0}

VARIABLES
    commits,   \* every commit of the repository: its tree and its ancestors
    main,      \* the head of the default branch
    tags,      \* the commit each stable tag names, or NoCommit
    topic,     \* the head of release/version-<v>, or NoCommit
    prs,       \* the versions with an open pull request
    run        \* per operator: the run of prepare() in progress

vars == <<commits, main, tags, topic, prs, run>>

NoCommit == 0
Version == 1..MaxVersion

\* The local variables of prepare: what was read of the remote so far.
Run == [at : {"idle", "choose", "list", "inspect", "push", "create"},
        head : 0..MaxCommit, target : 0..MaxVersion,
        existing : 0..MaxCommit,   \* head of the open pull request
        topic_sha : 0..MaxCommit]
NoRun == [at |-> "idle", head |-> NoCommit, target |-> 0,
          existing |-> NoCommit, topic_sha |-> NoCommit]

Commit == [base : Version, others : SUBSET (1..MaxCommit), ancestors : SUBSET (1..MaxCommit)]

TypeOK ==
    /\ commits \in Seq(Commit)
    /\ Len(commits) <= MaxCommit
    /\ main \in DOMAIN commits
    /\ tags \in [Version -> {NoCommit} \cup DOMAIN commits]
    /\ topic \in [Version -> {NoCommit} \cup DOMAIN commits]
    /\ prs \subseteq Version
    /\ run \in [Operators -> Run]

Init ==
    /\ commits = <<[base |-> 1, others |-> {}, ancestors |-> {1}]>>
    /\ main = 1
    /\ tags = [v \in Version |-> NoCommit]
    /\ topic = [v \in Version |-> NoCommit]
    /\ prs = {}
    /\ run = [o \in Operators |-> NoRun]

-----------------------------------------------------------------------------
(* Git.                                                                     *)
New == Len(commits) + 1

Ancestors(c) == commits[c].ancestors

Tree(c) == [base |-> commits[c].base, others |-> commits[c].others]

\* The commit made of a tree on the given parents.
Made(tree, parents) ==
    [base |-> tree.base, others |-> tree.others,
     ancestors |-> {New} \cup UNION {Ancestors(p) : p \in parents}]

\* The best common ancestor, git merge-base.
MergeBase(c, d) == Max(Ancestors(c) \cap Ancestors(d))

\* May branch head `old` be replaced by a commit with these parents?
FastForward(old, parents) ==
    old = NoCommit \/ \E p \in parents : old \in Ancestors(p)

\* The merge of a branch into main: both sides' changes since they parted.
Conflict(c) ==
    LET from == MergeBase(c, main)
    IN  /\ commits[c].base # commits[from].base
        /\ commits[main].base # commits[from].base
        /\ commits[c].base # commits[main].base

Merged(c) ==
    LET from == MergeBase(c, main)
        added == commits[c].others \ commits[from].others
        removed == commits[from].others \ commits[c].others
    IN  [base |-> IF commits[c].base # commits[from].base THEN commits[c].base
                                                          ELSE commits[main].base,
         others |-> (commits[main].others \cup added) \ removed]

-----------------------------------------------------------------------------
(* prepare().                                                               *)
Step(o, change) == run' = [run EXCEPT ![o] = change]

\* _validate_preparation_checkout: a clean checkout of the current main.
Checkout(o) ==
    /\ run[o].at = "idle"
    /\ Step(o, [NoRun EXCEPT !.at = "choose", !.head = main])
    /\ UNCHANGED <<commits, main, tags, topic, prs>>

\* advertised_tags: the stable versions of this history, and all that are taken.
Occupied == {v \in Version : tags[v] # NoCommit}
Reachable(head) == {v \in Occupied : tags[v] \in Ancestors(head)}

\* _bumped_version with the default bump: the prepared base, or one above the
\* last release when that has caught up with it.
Bumped(current, released) ==
    IF released = {} \/ current > Max(released) THEN current ELSE Max(released) + 1

Targets_m(current, released) == Version \ Occupied

\* choose_version: the next free one, or the one asked for.
Targets(current, released) ==
    LET bumped == Bumped(current, released)
        free == {v \in Version : v >= bumped /\ v >= current} \ Occupied
    IN  (IF free = {} THEN {} ELSE {Min(free)})
        \cup {v \in Version \ Occupied : v >= current}

Choose(o) ==
    /\ run[o].at = "choose"
    /\ \E v \in Targets(commits[run[o].head].base, Reachable(run[o].head)) :
          Step(o, [run[o] EXCEPT !.at = "list", !.target = v])
    /\ UNCHANGED <<commits, main, tags, topic, prs>>

\* own_pull_requests: the open pull request of the topic and its head.
List(o) ==
    /\ run[o].at = "list"
    /\ Step(o, [run[o] EXCEPT !.at = "inspect",
           !.existing = IF run[o].target \in prs THEN topic[run[o].target] ELSE NoCommit])
    /\ UNCHANGED <<commits, main, tags, topic, prs>>

Owned_m(sha, head, target) == commits[sha].base = target

\* verify_owned_topic: nothing of the topic differs from where it left main but
\* the version it prepares.
Owned(sha, head, target) ==
    LET ancestor == MergeBase(sha, head)
    IN  Tree(sha) = [Tree(ancestor) EXCEPT !.base = target]

\* _preparation_topic, after the list: what the topic is now.
Inspect(o) ==
    LET sha == topic[run[o].target]
    IN  /\ run[o].at = "inspect"
        /\ run[o].existing # NoCommit => run[o].existing = sha
        /\ sha # NoCommit => Owned(sha, run[o].head, run[o].target)
        /\ Step(o, [run[o] EXCEPT !.at = "push", !.topic_sha = sha])
        /\ UNCHANGED <<commits, main, tags, topic, prs>>

\* The tree of the worktree once sync_versions has written the target.
Prepared(r) == [Tree(r.head) EXCEPT !.base = r.target]

Parents(r) == {r.head} \cup ({r.topic_sha} \ {NoCommit})

\* Nothing to prepare: main has this version and there is no pull request.
Unchanged(o) ==
    /\ run[o].at = "push"
    /\ run[o].existing = NoCommit
    /\ Prepared(run[o]) = Tree(run[o].head)
    /\ Step(o, NoRun)
    /\ UNCHANGED <<commits, main, tags, topic, prs>>

\* Then a pull request that exists is returned, and another is opened.
PushedBy(r) == IF r.existing # NoCommit THEN NoRun
                                        ELSE [NoRun EXCEPT !.at = "create", !.target = r.target]

\* commit-tree and push, on top of the topic that was verified.
Push(o) ==
    LET r == run[o]
    IN  /\ r.at = "push"
        /\ r.existing # NoCommit \/ Prepared(r) # Tree(r.head)
        /\ r.topic_sha # NoCommit => Prepared(r) # Tree(r.topic_sha)
        /\ New <= MaxCommit
        /\ FastForward(topic[r.target], Parents(r))
        /\ commits' = Append(commits, Made(Prepared(r), Parents(r)))
        /\ topic' = [topic EXCEPT ![r.target] = New]
        /\ Step(o, PushedBy(r))
        /\ UNCHANGED <<main, tags, prs>>

\* The topic already has this tree.
UpToDate(o) ==
    LET r == run[o]
    IN  /\ r.at = "push"
        /\ r.topic_sha # NoCommit /\ Prepared(r) = Tree(r.topic_sha)
        /\ r.existing # NoCommit \/ Prepared(r) # Tree(r.head)
        /\ Step(o, PushedBy(r))
        /\ UNCHANGED <<commits, main, tags, topic, prs>>

\* gh pr create, which GitHub refuses for a topic that is gone or has one open.
CreatePullRequest(o) ==
    LET r == run[o]
    IN  /\ r.at = "create"
        /\ r.target \notin prs /\ topic[r.target] # NoCommit
        /\ prs' = prs \cup {r.target}
        /\ Step(o, NoRun)
        /\ UNCHANGED <<commits, main, tags, topic>>

\* The run ends: refused at any of its checks or by the remote, or interrupted.
End(o) ==
    /\ run[o].at # "idle"
    /\ Step(o, NoRun)
    /\ UNCHANGED <<commits, main, tags, topic, prs>>

-----------------------------------------------------------------------------
(* People and the release.                                                  *)
Land ==
    /\ New <= MaxCommit
    /\ commits' = Append(commits, Made([Tree(main) EXCEPT !.others = @ \cup {New}], {main}))
    /\ main' = New
    /\ UNCHANGED <<tags, topic, prs, run>>

EditTopic(v) ==
    /\ New <= MaxCommit
    /\ topic[v] # NoCommit
    /\ commits' = Append(commits, Made([Tree(topic[v]) EXCEPT !.others = @ \cup {New}], {topic[v]}))
    /\ topic' = [topic EXCEPT ![v] = New]
    /\ UNCHANGED <<main, tags, prs, run>>

\* A pull request is merged; its branch stays or is deleted.
Merge(v) ==
    /\ New <= MaxCommit
    /\ v \in prs
    /\ ~Conflict(topic[v])
    /\ commits' = Append(commits, Made(Merged(topic[v]), {main, topic[v]}))
    /\ main' = New
    /\ prs' = prs \ {v}
    /\ topic' \in {topic, [topic EXCEPT ![v] = NoCommit]}
    /\ UNCHANGED <<tags, run>>

Release ==
    /\ tags[commits[main].base] = NoCommit
    /\ tags' = [tags EXCEPT ![commits[main].base] = main]
    /\ UNCHANGED <<commits, main, topic, prs, run>>

Next ==
    \/ \E o \in Operators :
          \/ Checkout(o) \/ Choose(o) \/ List(o) \/ Inspect(o) \/ Unchanged(o)
          \/ Push(o) \/ UpToDate(o) \/ CreatePullRequest(o) \/ End(o)
    \/ Land
    \/ \E v \in Version : EditTopic(v) \/ Merge(v)
    \/ Release

Spec == Init /\ [][Next]_vars

-----------------------------------------------------------------------------
(* Merging a preparation never takes anything from the default branch: what *)
(* landed while the pull request was open or being updated stays, and the   *)
(* base version never falls, whatever order preparations of several         *)
(* versions are made and merged in.                                         *)
MainNeverLoses ==
    [][/\ commits[main].others \subseteq commits'[main'].others
       /\ commits[main].base <= commits'[main'].base]_vars

(* No run of prepare overwrites what somebody else has pushed to a topic    *)
(* branch, before it looked or since ("Reject any existing branch content   *)
(* beyond its declared version inputs").                                    *)
TopicEditsKept ==
    [][\A v \in Version :
          topic[v] # NoCommit /\ topic'[v] # NoCommit =>
              commits[topic[v]].others \subseteq commits'[topic'[v]].others]_vars

=============================================================================
