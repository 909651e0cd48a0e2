-------------------------- MODULE ReleasePipeline --------------------------
(***************************************************************************)
(* The release pipeline of this repository: release-pipeline.yml running   *)
(* scripts/release_versioned.py and release_control.py over the ledger of  *)
(* scripts/release_state.py, against what GitHub keeps: the default        *)
(* branch, the workflow runs, tags, releases, evidence artifacts and the   *)
(* ledger file on the branch release-version-state.                        *)
(*                                                                         *)
(* The concurrency group release-<repository> lets one attempt of one run  *)
(* execute at a time: that attempt is the record job.  Around it the       *)
(* default branch moves, runs are requested and run again, and requests of *)
(* attempts that died are still on their way (wire).  A step ends where    *)
(* the scripts send a request that changes something, or where what they   *)
(* read may have changed by the time they use it.                          *)
(*                                                                         *)
(* The policy of this repository promotes bytes (.release-policy.json), so *)
(* no stable package is ever built.  Every refusal whose reason is not     *)
(* modelled (a signature, a reviewer who is not configured, a failed read) *)
(* is Abandon.  Names ending in _m are mutants, used by no specification.     *)
(***************************************************************************)
EXTENDS Naturals, Sequences, FiniteSets, FiniteSetsExt, SequencesExt

CONSTANTS
    MaxCommit,          \* bound: commits of the default branch are 1..MaxCommit
    MaxRuns,            \* bound: workflow runs
    MaxReruns,          \* bound: times a run is run again, over all runs
    MaxFaults,          \* bound: lost answers and damaged uploads
    BaseOf,             \* the base version committed in each commit
    WorkflowsOf,        \* the .github/workflows tree of each commit
    PolicyOf,           \* what .release-policy.json of each commit asks for
    ChangelogOf,        \* the base versions CHANGELOG.md of each commit documents
    BuildNumberFloor,   \* policy versioning.build_number_floor
    Dispatched,         \* channels requested by hand
    Files               \* the assets of a release, its manifest among them

Commit == 1..MaxCommit
RunId == 1..MaxRuns
Attempt == 1..MaxReruns + 1
Channels == {"nightly", "beta", "rc", "stable"}
Jobs == {"prepare", "build", "fuzz", "gate"}

ASSUME PipelineAssumption ==
    /\ MaxCommit \in Nat \ {0} /\ MaxRuns \in Nat \ {0}
    /\ MaxReruns \in Nat /\ MaxFaults \in Nat
    /\ BuildNumberFloor \in Nat
    /\ DOMAIN BaseOf = Commit /\ DOMAIN WorkflowsOf = Commit
    /\ PolicyOf \in [Commit -> [fuzzing : BOOLEAN, blockers : BOOLEAN, stable_blockers : BOOLEAN]]
    /\ DOMAIN ChangelogOf = Commit
    /\ Dispatched \subseteq Channels
    /\ IsFiniteSet(Files) /\ Files # {}

VARIABLES
    head,       \* the commit the default branch points to
    runs,       \* the workflow runs, oldest first
    job,        \* the attempt that executes
    branch,     \* whether the branch release-version-state exists
    ledger,     \* the ledger file on it
    tags,       \* the version tags and the commits they name
    releases,   \* releases and drafts, oldest first
    evidence,   \* the immutable release-evidence artifacts
    wire,       \* requests whose sender is gone and whose outcome is open
    faults      \* faults so far

github == <<branch, ledger, tags, releases>>
vars == <<head, runs, job, github, evidence, wire, faults>>

-----------------------------------------------------------------------------
(* A tag vX.Y.Z, vX.Y.Z-rc.N and so on, and the plan a run reserves.        *)
Tag == [base : {BaseOf[c] : c \in Commit}, channel : Channels, sequence : Nat]
Plan == [number : Nat \ {0}, tag : Tag, source : Commit]
StableTag(base) == [base |-> base, channel |-> "stable", sequence |-> 0]
NoPlan == [number |-> 0, tag |-> StableTag(BaseOf[1]), source |-> 1]

(* The ledger of a repository that has never allocated a version. *)
EmptyLedger == [file |-> FALSE, counter |-> 0, floor |-> 0, plans |-> <<>>]

Idle == [run |-> 0, pc |-> "idle", seen |-> EmptyLedger, plan |-> NoPlan,
         build |-> 0, tag |-> NoPlan.tag, ref |-> 0, release |-> 0]

Run == runs[job.run]
Reserved == DOMAIN ledger.plans
Public == {i \in DOMAIN releases : ~releases[i].draft}

(* Every byte GitHub keeps is the one that was sent. *)
DownloadsAsSent(release, f) == release.files[f] = "good"
Complete(release) == \A f \in Files : DownloadsAsSent(release, f)

Init ==
    /\ head = 1
    /\ runs = <<>>
    /\ branch = FALSE
    /\ ledger = EmptyLedger
    /\ job = Idle
    /\ tags = {}
    /\ releases = <<>>
    /\ evidence = {}
    /\ wire = {}
    /\ faults = 0

-----------------------------------------------------------------------------
(* How the executing attempt moves on, and how it ends.  A check that        *)
(* refuses leaves it nothing but Abandon.                                   *)
Goto(pc) == job' = [job EXCEPT !.pc = pc] /\ UNCHANGED runs

(* A job of the workflow succeeds, in this attempt. *)
Passed(name, pc, plan) ==
    /\ runs' = [runs EXCEPT ![job.run].jobs[name] = Run.attempt]
    /\ job' = [job EXCEPT !.pc = pc, !.plan = plan]

Conclude(state) ==
    /\ runs' = [runs EXCEPT ![job.run].state = state]
    /\ job' = Idle

(* Mutant: the ledger is written without naming the blob it replaces. *)
Accepts_m(w) ==
    CASE w.kind = "branch" -> ~branch
      [] w.kind = "ledger" -> branch
      [] w.kind = "tag" -> \A t \in tags : t.tag # w.tag
      [] w.kind \in {"draft", "publish"} -> TRUE

-----------------------------------------------------------------------------
(* What GitHub does with a request that changes something. *)
Accepts(w) ==
    CASE w.kind = "branch" -> ~branch
      [] w.kind = "ledger" -> branch /\ ledger = w.previous
      [] w.kind = "tag" -> \A t \in tags : t.tag # w.tag
      [] w.kind \in {"draft", "publish"} -> TRUE

Apply(w) ==
    \/ /\ w.kind = "branch"
       /\ branch' = TRUE
       /\ UNCHANGED <<ledger, tags, releases>>
    \/ /\ w.kind = "ledger"
       /\ ledger' = w.value
       /\ UNCHANGED <<branch, tags, releases>>
    \/ /\ w.kind = "tag"
       /\ tags' = tags \union {[tag |-> w.tag, source |-> w.source]}
       /\ UNCHANGED <<branch, ledger, releases>>
    \/ /\ w.kind = "draft"
       /\ releases' = Append(releases, w.draft)
       /\ UNCHANGED <<branch, ledger, tags>>
    \/ /\ w.kind = "publish"
       /\ releases' = [releases EXCEPT ![w.release].draft = FALSE]
       /\ UNCHANGED <<branch, ledger, tags>>

(* One write, sent once.  Only a confirmed write lets the attempt go on;    *)
(* a refused one fails it, and so does one whose answer never comes, which  *)
(* may have arrived or may still arrive.                                    *)
Confirmed(w) ==
    /\ Accepts(w)
    /\ Apply(w)
    /\ UNCHANGED <<head, evidence, wire, faults>>

Unanswered(w) ==
    /\ faults < MaxFaults
    /\ faults' = faults + 1
    /\ wire' = wire \union {w}
    /\ UNCHANGED <<head, github, evidence>>

Request(w, Proceed) ==
    \/ Confirmed(w) /\ Proceed
    \/ /\ ~Accepts(w)
       /\ Conclude("failure")
       /\ UNCHANGED <<head, github, evidence, wire, faults>>
    \/ Unanswered(w) /\ Conclude("failure")

-----------------------------------------------------------------------------
(* The environment: the default branch, requests for runs, late requests. *)

(* The concurrency group keeps one waiting run: a newer one cancels it. *)
Waiting == {r \in DOMAIN runs : runs[r].state = "queued"}
Cancelled ==
    [r \in DOMAIN runs |-> IF r \in Waiting THEN [runs[r] EXCEPT !.state = "failure"] ELSE runs[r]]

NoJobs == [j \in Jobs |-> 0]

NewRun(event, channel, source, candidate) ==
    /\ Len(runs) < MaxRuns
    /\ runs' = Append(Cancelled, [event |-> event, channel |-> channel, source |-> source,
                                  candidate |-> candidate, attempt |-> 1, receipts |-> {},
                                  jobs |-> NoJobs, state |-> "queued"])
    /\ UNCHANGED <<job, github, evidence, wire, faults>>

(* Nobody asks for a run while another waits or executes: asked for then,   *)
(* it would start when the other is over.  A push does not wait.            *)
Quiet == job.pc = "idle" /\ Waiting = {}

(* A commit reaches the default branch, and GitHub starts a run for it.     *)
(* Once the bound on runs is reached, it is a push that asks for no run.    *)
Push ==
    /\ head < MaxCommit
    /\ head' = head + 1
    /\ IF Len(runs) < MaxRuns
          THEN NewRun("push", "beta", head + 1, 0)
          ELSE UNCHANGED <<runs, job, github, evidence, wire, faults>>

Schedule == Quiet /\ NewRun("schedule", "nightly", head, 0) /\ UNCHANGED head

(* A person asks for a channel; for stable, of a published release          *)
(* candidate (verified_rc refuses any other tag).                           *)
Dispatch(channel, candidate) ==
    /\ Quiet
    /\ channel \in Dispatched
    /\ IF channel = "stable"
          THEN \E i \in Public : releases[i].tag.channel = "rc" /\ releases[i].run = candidate
          ELSE candidate = 0
    /\ NewRun("dispatch", channel, head, candidate)
    /\ UNCHANGED head

(* A finished run is run again: all its jobs, or the failed ones, the       *)
(* others being carried over with the attempt that executed them.  The      *)
(* candidate may be run again while its promotion executes.                 *)
Rerun(r) ==
    /\ runs[r].state \in {"success", "failure"}
    /\ FoldFunction(+, 0, [o \in DOMAIN runs |-> runs[o].attempt - 1]) < MaxReruns
    /\ Waiting = {}
    /\ r \in (IF job.pc = "idle" THEN DOMAIN runs ELSE {Run.candidate})
    /\ \E carried \in (IF runs[r].state = "failure" THEN {NoJobs, runs[r].jobs} ELSE {NoJobs}) :
          runs' = [Cancelled EXCEPT ![r].attempt = @ + 1, ![r].state = "queued",
                                    ![r].jobs = carried]
    /\ UNCHANGED <<head, job, github, evidence, wire, faults>>

(* A request whose sender is gone arrives, or never does. *)
Land(w) ==
    /\ wire' = wire \ {w}
    /\ \/ Accepts(w) /\ Apply(w)
       \/ UNCHANGED github
    /\ UNCHANGED <<head, runs, job, evidence, faults>>

(* The first job that has not succeeded. *)
First(r) ==
    CASE runs[r].jobs["prepare"] = 0 -> "prepare"
      [] runs[r].jobs["prepare"] > 0 /\ runs[r].channel = "stable" -> "approved"
      [] runs[r].jobs["prepare"] > 0 /\ runs[r].channel # "stable" ->
            IF runs[r].jobs["gate"] = 0 THEN "build" ELSE "candidate"

(* Mutant: no concurrency group. *)

-----------------------------------------------------------------------------
(* The concurrency group admits a waiting run when no other executes. *)
Start(r) ==
    /\ job.pc = "idle"
    /\ runs[r].state = "queued"
    /\ runs' = [runs EXCEPT ![r].state = "in_progress"]
    /\ job' = [Idle EXCEPT !.run = r, !.pc = First(r),
                           !.plan = IF r \in Reserved THEN ledger.plans[r] ELSE NoPlan]
    /\ UNCHANGED <<head, github, evidence, wire, faults>>

(* The attempt stops anywhere: a check refuses, the runner dies, someone    *)
(* cancels it.                                                              *)
Abandon ==
    /\ job.pc # "idle"
    /\ faults < MaxFaults
    /\ faults' = faults + 1
    /\ Conclude("failure")
    /\ UNCHANGED <<head, github, evidence, wire>>

(* A publishing job starts after builds or an approval, which take minutes: *)
(* the requests of an earlier attempt have arrived by then, or never will.  *)
Settled == wire = {}

-----------------------------------------------------------------------------
(* What the scripts read. *)

Base(r) == BaseOf[runs[r].source]
Automatic(r) == <<runs[r].event, runs[r].channel>> \in {<<"push", "beta">>, <<"schedule", "nightly">>}
Naming(tag) == {i \in DOMAIN releases : releases[i].tag = tag}
PublishedTags == {releases[i].tag : i \in Public}
Highest(S) == Max(S \union {0})

(* A missing file on an existing branch is a lost ledger, not a new one. *)
Readable == ledger.file \/ ~branch

EnsureAbsent(tag) == Naming(tag) = {} /\ \A t \in tags : t.tag # tag

NextSequence(base, channel) ==
    LET used == {t.tag : t \in tags} \union {releases[i].tag : i \in DOMAIN releases}
    IN  Highest({t.sequence : t \in {u \in used : u.base = base /\ u.channel = channel}}) + 1

(* The policy, the workflows and the release notes of a commit. *)
SourcePolicy(commit) == PolicyOf[commit]

RequireReleasePolicy(policy, qualified) ==
    qualified => ~policy.blockers /\ ~policy.stable_blockers

Sections(commit) == ChangelogOf[commit]
ReleaseNotes(tag, source) == tag.base \in Sections(source)

(* A release candidate is fuzzed when the policy of its source asks for it, *)
(* and one from before the policy asked for it is not promoted any more.    *)
Fuzzing(r) == runs[r].channel = "rc" /\ SourcePolicy(runs[r].source).fuzzing
RequireCurrentFuzzing(policy, current) == SourcePolicy(current).fuzzing => policy.fuzzing

(* The jobs the Release gate asks for. *)
Gated(r) == {"prepare", "build"} \union (IF Fuzzing(r) THEN {"fuzz"} ELSE {})

(* The gate passed, and the successful jobs of this attempt were executed   *)
(* in it, not carried over.                                                 *)
RequireCurrentAttemptJobs(r) ==
    \A j \in Jobs : runs[r].jobs[j] \in {0, runs[r].attempt}

GateReady(r) == runs[r].jobs["gate"] > 0 /\ RequireCurrentAttemptJobs(r)

ValidateValidationRun(r) == Fuzzing(r) => runs[r].jobs["fuzz"] > 0

(* What a build and a fuzz campaign attest: who made it, from which plan.   *)
Receipt(name) == [name |-> name, attempt |-> Run.attempt, plan |-> job.plan]

(* The artifacts the publishing job downloads are those of its own attempt. *)
CollectAssets(r) == {c \in runs[r].receipts : c.attempt = runs[r].attempt}

RequiredBuildReceipts == {"package"}

VerifyFuzzReport(r) ==
    Fuzzing(r) => \E c \in CollectAssets(r) : c.name = "fuzz" /\ c.attempt = runs[r].attempt

(* Every receipt is of this plan and this attempt, and there is exactly one *)
(* for the packages, besides that of the fuzz report.                       *)
VerifyReceipts(r, plan) ==
    /\ \A c \in CollectAssets(r) : c.plan = plan /\ c.attempt = runs[r].attempt
    /\ {c.name : c \in CollectAssets(r)} \ (IF Fuzzing(r) THEN {"fuzz"} ELSE {})
            = RequiredBuildReceipts

(* The channel each event may publish. *)
CheckExecution(r) ==
    <<runs[r].event, runs[r].channel>> \in
        {<<"push", "beta">>, <<"schedule", "nightly">>} \union ({"dispatch"} \X Channels)

(* GitHub reports the run of this attempt as executing, and its gate passed. *)
WaitForExecutingRun(r, gate) ==
    /\ CheckExecution(r)
    /\ runs[r].state = "in_progress"
    /\ gate => GateReady(r)

(* The branch only moves forward, so a source it has reached stays on it. *)
CheckAncestry(source) == source <= head

Context(gate) ==
    /\ WaitForExecutingRun(job.run, gate)
    /\ RequireReleasePolicy(SourcePolicy(Run.source), Run.channel \in {"rc", "stable"})
    /\ CheckAncestry(Run.source)
    /\ gate => ValidateValidationRun(job.run)

(* A plan is well formed, and made for this source and its base version. *)
ValidatePlan(plan, source) ==
    /\ plan.number > 0
    /\ plan.source = source
    /\ plan.tag.base = BaseOf[source]
    /\ plan.tag.channel = "stable" <=> plan.tag.sequence = 0

VerifyReservation(r, plan) ==
    /\ ValidatePlan(plan, plan.source)
    /\ r \in Reserved
    /\ ledger.plans[r] = plan
    /\ plan.number > ledger.floor
    /\ \A o \in Reserved : ledger.plans[o].tag \in PublishedTags
                             => ledger.plans[o].number < plan.number

(* Mutant: a newer package is no obstacle to a promotion. *)
VerifyPromotionOrder_m(plan) ==
    /\ Cardinality({r \in Reserved : ledger.plans[r] = plan}) = 1
    /\ plan.tag \in PublishedTags

VerifyPromotionOrder(plan) ==
    /\ ValidatePlan(plan, plan.source)
    /\ plan.tag.channel = "rc"
    /\ Cardinality({r \in Reserved : ledger.plans[r] = plan}) = 1
    /\ plan.number >= ledger.floor
    /\ plan.tag \in PublishedTags
    /\ \A o \in Reserved : ledger.plans[o].tag \in PublishedTags
                             => ledger.plans[o].number <= plan.number

(* The workflows of an older source must still be those of the branch. *)
WorkflowTree(commit) == WorkflowsOf[commit]
CheckWorkflowPublication(source) == source = head \/ WorkflowTree(source) = WorkflowTree(head)

Successors(r) == {o \in DOMAIN runs : runs[o].event = "push" /\ runs[o].source = head}
Overtaken(r) == Automatic(r) /\ head # runs[r].source
Superseded(r) ==
    /\ Overtaken(r)
    /\ Cardinality(Successors(r)) = 1
    /\ \A o \in Successors(r) : o > r

ValidateRunProvenance(r, attempt) == r \in DOMAIN runs /\ runs[r].attempt = attempt

(* The run still vouches for what this attempt of it built. *)
ValidateRun(r, attempt, gate) ==
    /\ ValidateRunProvenance(r, attempt)
    /\ runs[r].state = "success"
    /\ gate => GateReady(r)

VerifyEvidence(r, attempt) ==
    {e \in evidence : e.run = r} = {[run |-> r, attempt |-> attempt]}

(* The published prereleases with this tag, none of their uploads missing. *)
ReleaseSnapshot(tag) ==
    {i \in Public : /\ releases[i].tag = tag /\ tag.channel # "stable"
                    /\ \E t \in tags : t.tag = tag
                    /\ \A f \in Files : releases[i].files[f] # "none"}

(* A release carries the manifest of the run that built it: the fields run, *)
(* attempt and plan.                                                        *)
ValidateManifest(manifest) ==
    /\ manifest.tag.channel = "rc"
    /\ RequireReleasePolicy(SourcePolicy(manifest.plan.source), TRUE)
    /\ ValidatePlan(manifest.plan, manifest.plan.source)
    /\ manifest.plan.tag = manifest.tag

(* The release candidate a person asked to promote. *)
Candidate ==
    releases[CHOOSE i \in Public : releases[i].tag.channel = "rc" /\ releases[i].run = Run.candidate]

(* It is the published one; its bytes, its run and its evidence agree. *)
VerifiedRC ==
    /\ \E i \in ReleaseSnapshot(Candidate.tag) : releases[i] = Candidate
    /\ ValidateManifest(Candidate)
    /\ RequireCurrentFuzzing(SourcePolicy(Candidate.plan.source), Run.source)
    /\ [tag |-> Candidate.tag, source |-> Candidate.plan.source] \in tags
    /\ Candidate.run # job.run
    /\ ValidateValidationRun(Candidate.run)
    /\ ValidateRun(Candidate.run, Candidate.attempt, TRUE)
    /\ runs[Candidate.run].event = "dispatch"
    /\ CheckAncestry(Candidate.plan.source)
    /\ VerifyEvidence(Candidate.run, Candidate.attempt)
    /\ Complete(Candidate)

-----------------------------------------------------------------------------
(* The prepare job: one durable plan before anything is built. *)

(* The executing run, from a source whose policy blocks no release. *)
Prepares ==
    /\ Context(FALSE)
    /\ ~SourcePolicy(Run.source).blockers

(* A push to a base that is already stable builds nothing. *)
ClosedPushCycle ==
    /\ job.pc = "prepare"
    /\ Prepares
    /\ Run.event = "push"
    /\ \E t \in tags : t.tag = StableTag(Base(job.run))
    /\ Conclude("success")
    /\ UNCHANGED <<head, github, evidence, wire, faults>>

(* Mutant: the stable tag of the base is not looked up. *)
CandidateAllowed_m == TRUE

CandidateAllowed ==
    Run.channel \in {"beta", "rc"} => EnsureAbsent(StableTag(Base(job.run)))

ReusePlan ==
    /\ job.pc = "prepare"
    /\ Prepares
    /\ Run.channel # "stable"
    /\ CandidateAllowed
    /\ ReleaseNotes(StableTag(Base(job.run)), Run.source)
    /\ Readable
    /\ job.run \in Reserved
    /\ ValidatePlan(ledger.plans[job.run], Run.source)
    /\ Passed("prepare", "build", ledger.plans[job.run])
    /\ UNCHANGED <<head, github, evidence, wire, faults>>

CreatePlan(r) ==
    LET base == Base(r)
        channel == runs[r].channel
        reserved == {o \in Reserved : ledger.plans[o].tag.base = base
                                      /\ ledger.plans[o].tag.channel = channel}
        sequence == IF channel = "nightly"
                      THEN (runs[r].attempt - 1) * MaxRuns + r
                      ELSE Max({NextSequence(base, channel),
                                Highest({ledger.plans[o].tag.sequence : o \in reserved}) + 1})
    IN  [number |-> Max({ledger.counter, BuildNumberFloor}) + 1,
         tag |-> [base |-> base, channel |-> channel, sequence |-> sequence],
         source |-> runs[r].source]

(* The plan and the ledger it was made from. *)
AllocatePlan ==
    /\ job.pc = "prepare"
    /\ Prepares
    /\ Run.channel # "stable"
    /\ CandidateAllowed
    /\ ReleaseNotes(StableTag(Base(job.run)), Run.source)
    /\ Readable
    /\ job.run \notin Reserved
    /\ EnsureAbsent(CreatePlan(job.run).tag)
    /\ job' = [job EXCEPT !.pc = "allocate", !.plan = CreatePlan(job.run), !.seen = ledger]
    /\ UNCHANGED <<head, runs, github, evidence, wire, faults>>

CreateStateBranch ==
    /\ job.pc = "allocate"
    /\ ~branch
    /\ Request([kind |-> "branch"], UNCHANGED <<runs, job>>)

(* Compare and swap: the write names the ledger the plan was made from. *)
WriteReservation ==
    /\ job.pc = "allocate"
    /\ branch
    /\ LET seen == job.seen
           plans == [r \in DOMAIN seen.plans \union {job.run} |->
                        IF r = job.run THEN job.plan ELSE seen.plans[r]]
       IN  Request([kind |-> "ledger", previous |-> seen,
                    value |-> [seen EXCEPT !.file = TRUE, !.counter = job.plan.number,
                                           !.plans = plans]],
                   Passed("prepare", "build", job.plan))

(* The packages are built from the plan and staged with their receipt. *)
StagePackages ==
    /\ job.pc = "build"
    /\ Run.jobs["build"] = 0
    /\ ValidatePlan(job.plan, Run.source)
    /\ runs' = [runs EXCEPT ![job.run].jobs["build"] = Run.attempt,
                            ![job.run].receipts = @ \union {Receipt("package")}]
    /\ UNCHANGED <<head, job, github, evidence, wire, faults>>

(* A release candidate is fuzzed beside the build. *)
Campaign ==
    /\ job.pc = "build"
    /\ Fuzzing(job.run)
    /\ Run.jobs["fuzz"] = 0
    /\ runs' = [runs EXCEPT ![job.run].jobs["fuzz"] = Run.attempt,
                            ![job.run].receipts = @ \union {Receipt("fuzz")}]
    /\ UNCHANGED <<head, job, github, evidence, wire, faults>>

(* The Release gate: everything it needs has succeeded. *)
PassGate ==
    /\ job.pc = "build"
    /\ \A j \in Gated(job.run) : Run.jobs[j] > 0
    /\ Passed("gate", "candidate", job.plan)
    /\ UNCHANGED <<head, github, evidence, wire, faults>>

-----------------------------------------------------------------------------
(* The candidate job: publish_versioned. *)

PublicationAllowed ==
    /\ Context(TRUE)
    /\ ValidatePlan(job.plan, Run.source)
    /\ VerifyReservation(job.run, job.plan)
    /\ EnsureAbsent(job.plan.tag)
    /\ CandidateAllowed

CheckCandidate ==
    /\ job.pc = "candidate"
    /\ Settled
    /\ PublicationAllowed
    /\ ~Overtaken(job.run)
    /\ VerifyFuzzReport(job.run)
    /\ VerifyReceipts(job.run, job.plan)
    /\ Goto("staged")
    /\ UNCHANGED <<head, github, evidence, wire, faults>>

(* A newer push has its own run: this automatic candidate gives way. *)
SupersededCandidate ==
    /\ \/ job.pc = "candidate" /\ Settled /\ PublicationAllowed
       \/ job.pc = "staged" /\ VerifyReservation(job.run, job.plan)
    /\ Superseded(job.run)
    /\ Conclude("success")
    /\ UNCHANGED <<head, github, evidence, wire, faults>>

PublishedPlanSnapshot(tag, source) ==
    {i \in Public : /\ releases[i].tag = tag
                    /\ [tag |-> tag, source |-> source] \in tags
                    /\ \A f \in Files : releases[i].files[f] # "none"}

(* What run o reserved is published under this tag, with its evidence. *)
VerifyScheduledReuse(o, tag) ==
    LET plan == ledger.plans[o]
    IN  \E i \in PublishedPlanSnapshot(tag, plan.source) :
            /\ releases[i].plan = plan
            /\ releases[i].run = o
            /\ Complete(releases[i])
            /\ ValidateValidationRun(o)
            /\ ValidateRun(o, releases[i].attempt, FALSE)
            /\ VerifyEvidence(o, releases[i].attempt)

Reusable(r) ==
    \E o \in Reserved :
        LET tag == ledger.plans[o].tag
        IN  /\ ledger.plans[o].source = runs[r].source
            /\ tag.channel \in {"beta", "rc"}
            /\ \/ VerifyScheduledReuse(o, tag)
               \/ tag.channel = "rc" /\ VerifyScheduledReuse(o, StableTag(tag.base))

(* A scheduled nightly of a source that is published already adds nothing. *)
ScheduledReuse ==
    /\ job.pc = "staged"
    /\ VerifyReservation(job.run, job.plan)
    /\ Run.event = "schedule"
    /\ head = Run.source
    /\ Reusable(job.run)
    /\ Conclude("success")
    /\ UNCHANGED <<head, github, evidence, wire, faults>>

(* The number is spent before the first public write, whatever follows. *)
Consume(tag, build) ==
    LET value == [ledger EXCEPT !.floor = job.plan.number]
    IN  Request([kind |-> "ledger", previous |-> ledger, value |-> value],
                /\ job' = [job EXCEPT !.pc = "tag", !.tag = tag, !.build = build,
                                     !.seen = value, !.ref = head]
                /\ UNCHANGED runs)

(* The last checks, the source the branch had then, and the number. *)
BeginPublication ==
    /\ job.pc = "staged"
    /\ VerifyReservation(job.run, job.plan)
    /\ ~Overtaken(job.run)
    /\ CheckWorkflowPublication(Run.source)
    /\ Run.event = "schedule" => ~Reusable(job.run)
    /\ ReleaseNotes(job.plan.tag, Run.source)
    /\ Consume(job.plan.tag, Run.attempt)

-----------------------------------------------------------------------------
(* The stable jobs: verified_rc before approval, promote after it. *)

PreparePromotion ==
    /\ job.pc = "prepare"
    /\ Prepares
    /\ Run.channel = "stable"
    /\ VerifiedRC
    /\ Passed("prepare", "approved", NoPlan)
    /\ UNCHANGED <<head, github, evidence, wire, faults>>

VerifyPromotion ==
    /\ job.pc = "approved"
    /\ Settled
    /\ WaitForExecutingRun(job.run, FALSE)
    /\ VerifyPromotionOrder(Candidate.plan)
    /\ VerifiedRC
    /\ EnsureAbsent(StableTag(Candidate.plan.tag.base))
    /\ CheckWorkflowPublication(Candidate.plan.source)
    /\ job' = [job EXCEPT !.pc = "promote", !.plan = Candidate.plan, !.build = Candidate.attempt]
    /\ UNCHANGED <<head, runs, github, evidence, wire, faults>>

(* The candidate was not run again meanwhile; a promotion keeps its number. *)
BeginPromotion ==
    /\ job.pc = "promote"
    /\ ValidateValidationRun(Run.candidate)
    /\ ValidateRun(Run.candidate, job.build, TRUE)
    /\ CheckWorkflowPublication(job.plan.source)
    /\ ReleaseNotes(StableTag(job.plan.tag.base), job.plan.source)
    /\ VerifyPromotionOrder(job.plan)
    /\ Consume(StableTag(job.plan.tag.base), job.build)

-----------------------------------------------------------------------------
(* _publish_prepared: tag, empty draft, every asset, every byte, public. *)

CreateTag ==
    /\ job.pc = "tag"
    /\ EnsureAbsent(job.tag)
    /\ CheckWorkflowPublication(job.plan.source)
    /\ Request([kind |-> "tag", tag |-> job.tag, source |-> job.plan.source], Goto("create"))

(* Mutant: a promotion writes a manifest of its own. *)
Draft_m ==
    [tag |-> job.tag, plan |-> job.plan, attempt |-> job.build, draft |-> TRUE,
     run |-> job.run, files |-> [f \in Files |-> "none"]]

Draft ==
    [tag |-> job.tag, plan |-> job.plan, attempt |-> job.build, draft |-> TRUE,
     run |-> IF Run.channel = "stable" THEN Run.candidate ELSE job.run,
     files |-> [f \in Files |-> "none"]]

(* A candidate whose answer was lost looks for the draft; a promotion fails. *)
CreateDraft ==
    /\ job.pc = "create"
    /\ LET w == [kind |-> "draft", draft |-> Draft]
       IN  \/ /\ Confirmed(w)
              /\ job' = [job EXCEPT !.pc = "upload", !.release = Len(releases) + 1]
              /\ UNCHANGED runs
           \/ Unanswered(w) /\ (IF Run.channel = "stable" THEN Conclude("failure") ELSE Goto("reconcile"))

(* Nothing this call relied on has changed since. *)
CreateConfirmation ==
    /\ runs[job.run].state = "in_progress"
    /\ head = job.ref
    /\ ledger = job.seen

(* The whole inventory, read after an answer was lost, has one such release. *)
CreateReadback(tag) == {i \in DOMAIN releases : Naming(tag) = {i}}

(* Read-only: exactly this call's empty draft. *)
ReconcileCreatedRelease ==
    /\ job.pc = "reconcile"
    /\ CreateConfirmation
    /\ [tag |-> job.tag, source |-> job.plan.source] \in tags
    /\ \E i \in CreateReadback(job.tag) :
          /\ releases[i] = Draft
          /\ job' = [job EXCEPT !.pc = "upload", !.release = i]
    /\ UNCHANGED <<head, runs, github, evidence, wire, faults>>

Upload ==
    /\ job.pc = "upload"
    /\ LET missing == {f \in Files : releases[job.release].files[f] = "none"}
           file == CHOOSE f \in missing : TRUE
       IN  /\ \E bytes \in {"good", "damaged"} :
                 /\ bytes = "damaged" => faults < MaxFaults
                 /\ faults' = IF bytes = "damaged" THEN faults + 1 ELSE faults
                 /\ releases' = [releases EXCEPT ![job.release].files[file] = bytes]
           /\ IF missing = {file} THEN Goto("verify") ELSE UNCHANGED <<job, runs>>
    /\ UNCHANGED <<head, branch, ledger, tags, evidence, wire>>

(* Mutant: the branch is not read again before publication. *)
ConfirmAutomaticSource_m == TRUE

(* The branch still points where it did when the publication began. *)
ConfirmAutomaticSource == Automatic(job.run) => head = job.ref

(* Mutant: the uploaded bytes are not read back. *)
VerifyUploads_m ==
    /\ job.pc = "verify"
    /\ ConfirmAutomaticSource
    /\ Goto("publish")
    /\ UNCHANGED <<head, github, evidence, wire, faults>>

(* Every byte is downloaded again; an automatic source is confirmed last. *)
VerifyUploads ==
    /\ job.pc = "verify"
    /\ Complete(releases[job.release])
    /\ [tag |-> job.tag, source |-> job.plan.source] \in tags
    /\ ConfirmAutomaticSource
    /\ Goto("publish")
    /\ UNCHANGED <<head, github, evidence, wire, faults>>

Publish ==
    /\ job.pc = "publish"
    /\ Request([kind |-> "publish", release |-> job.release],
               IF Run.channel = "stable" THEN Conclude("success") ELSE Goto("evidence"))

StoreEvidence ==
    /\ job.pc = "evidence"
    /\ evidence' = evidence \union {[run |-> job.run, attempt |-> Run.attempt]}
    /\ Conclude("success")
    /\ UNCHANGED <<head, github, wire, faults>>

-----------------------------------------------------------------------------
PrepareJob ==
    \/ ClosedPushCycle \/ ReusePlan \/ AllocatePlan \/ CreateStateBranch
    \/ WriteReservation \/ StagePackages \/ Campaign \/ PassGate \/ PreparePromotion

PublishJob ==
    \/ CheckCandidate \/ SupersededCandidate \/ ScheduledReuse \/ BeginPublication
    \/ VerifyPromotion \/ BeginPromotion \/ CreateTag
    \/ CreateDraft \/ ReconcileCreatedRelease \/ Upload \/ VerifyUploads
    \/ Publish \/ StoreEvidence

Environment ==
    \/ Push \/ Schedule
    \/ \E channel \in Channels, candidate \in 0..MaxRuns : Dispatch(channel, candidate)
    \/ \E r \in DOMAIN runs : Rerun(r) \/ Start(r)
    \/ \E w \in wire : Land(w)
    \/ Abandon

Next == Environment \/ PrepareJob \/ PublishJob

Spec == Init /\ [][Next]_vars

-----------------------------------------------------------------------------
(* The abstract ledger this pipeline keeps on GitHub. *)
Ledger == INSTANCE VersionLedger
    WITH Run <- RunId, Source <- Commit, plans <- ledger.plans,
         counter <- ledger.counter, floor <- ledger.floor

(* Whatever is lost, repeated or late, the ledger file behaves like one     *)
(* append-only register: release_state.py reserve_plan, begin_publication   *)
(* and the blob compare and swap of write_state.                            *)
LedgerSpec == Ledger!Spec

RunRecord ==
    [event : {"push", "schedule", "dispatch"}, channel : Channels, source : Commit,
     candidate : 0..MaxRuns, attempt : Attempt, jobs : [Jobs -> Attempt \union {0}],
     receipts : SUBSET [name : {"package", "fuzz"}, attempt : Attempt, plan : Plan],
     state : {"queued", "in_progress", "success", "failure"}]

(* Every variable holds what its comment says, an executing run is the only *)
(* one in progress, and the ledger lives on its branch.                     *)
TypeOK ==
    /\ head \in Commit
    /\ runs \in [1..Len(runs) -> RunRecord] /\ Len(runs) <= MaxRuns
    /\ {r \in DOMAIN runs : runs[r].state = "in_progress"} = {job.run} \ {0}
    /\ job.pc = "idle" <=> job.run = 0
    /\ ledger.file => branch
    /\ Reserved \subseteq DOMAIN runs
    /\ \A r \in Reserved : ledger.plans[r] \in Plan
    /\ \A i \in DOMAIN releases : releases[i].tag \in Tag /\ releases[i].plan \in Plan
    /\ evidence \subseteq [run : RunId, attempt : Attempt]
    /\ faults \in 0..MaxFaults

BecomesPublic(i) ==
    /\ ~releases'[i].draft
    /\ i \in DOMAIN releases => releases[i].draft

(* What becomes public never carries a smaller package number than what is  *)
(* public already, and the same number only when it is that candidate's     *)
(* bytes under the stable tag: begin_publication and both order checks,     *)
(* with runs repeated, delayed and overtaken.                               *)
PublicOrder ==
    [][\A i \in DOMAIN releases' : BecomesPublic(i) =>
          \A o \in Public :
              \/ releases[o].plan.number < releases'[i].plan.number
              \/ /\ releases[o].plan = releases'[i].plan
                 /\ releases'[i].tag.channel = "stable"
                 /\ releases[o].tag.channel = "rc"]_vars

(* A public release has every asset undamaged and a tag at the source of    *)
(* its plan, and no other release or draft shares its tag: one upload, one  *)
(* create, the bytes read back before _publish_prepared makes it public.    *)
PublicComplete ==
    \A i \in Public :
        /\ Complete(releases[i])
        /\ [tag |-> releases[i].tag, source |-> releases[i].plan.source] \in tags
        /\ Naming(releases[i].tag) = {i}

(* Once the stable tag of a base exists, no beta or release candidate of    *)
(* that base becomes public, however old its reservation: ensure_absent in  *)
(* prepare and again in publish_versioned.                                  *)
NoCandidateAfterStable ==
    [][\A i \in DOMAIN releases' :
          BecomesPublic(i) /\ releases'[i].tag.channel \in {"beta", "rc"} =>
              \A t \in tags : t.tag # StableTag(releases'[i].tag.base)]_vars

(* A stable release is a public release candidate, asked for by hand, whose *)
(* run stored evidence for the very attempt that built these bytes and, if  *)
(* its policy says so, fuzzed them: verified_rc, promote and their rechecks *)
(* after the approval, and the receipts of publish_versioned.               *)
PromotedAsAccepted ==
    \A i \in Public : releases[i].tag.channel = "stable" =>
        /\ runs[releases[i].run].event = "dispatch"
        /\ \A name \in Gated(releases[i].run) \ {"prepare"} :
              \E c \in runs[releases[i].run].receipts :
                 /\ c.name = (IF name = "build" THEN "package" ELSE name)
                 /\ c.attempt = releases[i].attempt
                 /\ c.plan = releases[i].plan
        /\ [run |-> releases[i].run, attempt |-> releases[i].attempt] \in evidence
        /\ \E o \in Public : /\ releases[o].tag = releases[i].plan.tag
                             /\ releases[o].run = releases[i].run
                             /\ releases[o].attempt = releases[i].attempt
                             /\ releases[o].files = releases[i].files

(* The draft of an automatic run that a newer commit overtakes before its  *)
(* bytes are verified.                                                     *)
OvertakenDrafts ==
    {i \in DOMAIN releases : /\ job.release = i
                             /\ job.pc \in {"upload", "verify"}
                             /\ Overtaken(job.run)}

=============================================================================
