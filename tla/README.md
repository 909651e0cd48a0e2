# TLA+ verification of google-home-voice-stats

This directory holds a TLA+ model of the running parts of this repository, the
TLC configurations that model-check it and theorems about it with proofs for
TLAPS. `PROJECT.json` lists the runs, the correspondence of every definition
with the source lines it models, the hazards of the code and the findings.

## 1. The system

| Component | Source | State | Operations |
|---|---|---|---|
| Cast report engine and HTTP server | `igw_google_voice/cast_service.py` | `lock`, `stop`, `busy`, `state`, `worker`, `media`, the directory `root`, 8 handler slots | `submit`, `_run`, `prune`, `media_file`, `close`, main loop, SIGTERM, playback |
| Speech endpoint | `kitten_service.py`, `russian_speech.py` | `lock`, `ready`, child process and pipe, 8 slots | `generate`, `close`, `_recover`, `_start`, the child's loop |
| Wyoming adapter | `wyoming_speech.py` | `admitted`, `connections`, an asyncio lock, two tasks per call | `handle_client`, `request`, `stream`, `prepare`, `synthesize` |
| Settings store | `speech_settings.py`, `speech_api.py` | `values` in memory, a JSON file | `update`, `snapshot`, `describe`, start-up |
| Gateway fetch | `cast_gateway.py` | a deadline, a child process | `fetch_snapshot`, `fetch_snapshot_bounded`, `validate_snapshot` |
| Report rendering | `cast_media.py`, `kitten_client.py`, `piper_worker.py` | temporary files | `render_report_video`, `_speech` fallback chain, page layout |
| Home Assistant automations | `blueprints/` | an `input_boolean` latch, trigger timers | notify once per episode, announce a report |
| Package generators | `__main__.py`, `cast_ha.py`, `automations.py` | an output directory | `render_files`, `write_files` |
| Russian text and voices | `russian_text.py`, `russian_voices.py` | none | `normalize_russian` |
| TLS policy, configuration | `tls_policy.py`, `_darwin_certificate.py`, `cast_config.py` | none | checks of certificates and settings |
| Release publication | `scripts/release_control.py`, `release_versioned.py`, `release_state.py`, `version_plan.py` and the jobs of `release-pipeline.yml` | a ledger file on a branch of its own; tags, drafts, releases, artifacts on GitHub | `prepare`, `reserve_plan`, package and fuzz jobs, `gate`, `publish_versioned`, `promote` |
| Version preparation | `scripts/prepare_version.py` | topic branches and pull requests | `prepare` |
| Image merge | `scripts/merge_oci_archives.py` | two input archives, a temporary file, the output | `Archive`, `walk`, `merge_archives` |
| Release checks and tools | the other `scripts/` | none | one pass that accepts or refuses |

Home Assistant posts to the Cast service (202 or 409). The engine's worker
fetches a snapshot from the gateway through a supervised child process, renders
speech and video (asking the Kitten endpoints, with eSpeak as the last resort),
publishes the mp4 under a random token and tells the display to fetch it from
this same server. Home Assistant's assist pipeline talks to the Wyoming
adapter, which calls the Russian speech endpoint over HTTPS and retries while
that is busy; the endpoint holds one model in one child process.

What is hard: the engine's threads share state under a lock they hold briefly
and often; media has to outlive playback but not the deadline; a speech child
may hang, fail or die at any point with a request in the pipe; the Wyoming
adapter cancels tasks in the middle of an inference; shutdown may come at any
time. The release scripts keep all their state on GitHub, where a request may be
lost, land late or succeed without an answer, where a run may be repeated after
the world has moved on, and where a published release can never be corrected.
What makes each component correct:

- **Cast report engine.** One report at a time, and `busy` says so; every mp4
  on disk is known to somebody who will delete it; an announced URL works from
  publication to the end of playback and an expired one never does; the result
  in `state` is what happened; the slot is freed and SIGTERM ends the process,
  without abandoning a playback.
- **Speech endpoint.** A caller gets the audio of its own text or a refusal;
  the lock, handed from a failed request to the recovery thread, is released again,
  unless that thread cannot even be started (section 6); `ready` means that no child
  is loading and none was killed, and a service that is also free has nothing of an
  earlier request left (its child may still have died unnoticed); connection slots
  are conserved; two models never share the container; every caller is answered.
- **Wyoming adapter.** `admitted` and `connections` are exact however a call
  ends; at most one active synthesis and one waiting caller; a stream's
  sentences are spoken once, in order, and "stopped" is said only when all are;
  every call ends.
- **Settings store.** The file and the values agree after a crash at any point;
  concurrent updates lose nothing; a response describes the update it answers.
- **Gateway fetch.** One retry, of a transient failure only, within the first
  deadline; the child is always reaped.
- **Report rendering.** A provider that failed half way leaves nothing to its
  successor; a finished mp4 appears in one step.
- **Automations.** One notification per episode, also across a restart; a report
  announced at most as often as its window allows.
- **Package generators.** Nothing of the user's is overwritten; a refusal leaves
  no partial output.
- **Russian text and voices.** Output within the accepted alphabet and length
  for every accepted input; sentences put together give the whole text.
- **Release publication.** No build number or tag is given out twice; what is
  public is complete and undamaged; numbers never go back; a stable release is
  the very bytes of a candidate that was tested; a run overtaken by a newer
  commit publishes nothing.
- **Version preparation.** Main never loses a change or goes back in version;
  nobody's edit of a topic branch is merged away as generated.
- **Image merge.** What is published is what was hashed and verified, and whole;
  an input is refused exactly when its graph is not that of one image with its
  attestations; an existing file is never replaced.

`PROJECT.json` lists the hazards behind these at the line where each bites.

## 2. Plan

Order: the components with shared state and threads first, then persistence,
then what runs outside the services.

1. `ReportEngine`, its abstract specification `ReportSlot`, proofs. *Done.*
2. `Synthesizer`, its abstract specification `SpeechServing`. *Done, proved.*
3. `SpeechService` composed with `SpeechServing`, so that the adapter is checked
   against the promise and not against the details of `Synthesizer`. *Done,
   proved.*
4. `SettingsStore`, which implements the register of `SettingsRegister`. *Done,
   proved.*
5. `ReportSource`: the fetch with its supervised child and the chain of speech
   providers, whose results `ReportEngine` uses. *Done, proved.*
6. `EpisodeLatch`: the notification latch across restarts. *Done, proved.*
7. `ReleasePipeline`, which implements `VersionLedger`. *Done, proved.*
8. `VersionPreparation`. *Done, proved.*
9. `ImageMerge`. *Done, proved.*

Every invariant that a run checks is now also a theorem, and every action
property but `WalkDecides` (section 5). The algorithms without state (Russian text,
`validate_snapshot`, page layout) and the tools that check one archive or one
workflow file have no order of steps to explore; see section 7.

## 3. Modules and code

| Module | Models |
|---|---|
| `ReportEngine` | `cast_service.py`: `ReportEngine`, `CastPlayback.play`, `CastServer`, `do_POST`, `main` |
| `ReportSlot` | what that service promises, in four variables |
| `ReportEngine_proofs` | theorems about `ReportEngine` |
| `Synthesizer` | `kitten_service.py`: `Synthesizer`, `SpeechServer`, `_worker`, `main`; shared by `russian_speech.py` |
| `SpeechServing` | what a speech endpoint promises its callers |
| `Synthesizer_proofs` | theorems about `Synthesizer` |
| `SpeechService` | `wyoming_speech.py`: `SpeechService`, `HTTPSProvider`; uses `SpeechServing` for the endpoint |
| `SpeechService_proofs` | theorems about `SpeechService` |
| `SettingsStore` | `speech_settings.py` under the threads of `speech_api.py` |
| `SettingsRegister` | what the settings promise their callers: one atomic register |
| `ReportSource` | `cast_gateway.py`: `fetch_snapshot`, `fetch_snapshot_bounded`; `cast_media.py`: `_speech`, `render_report_video` |
| `ReportSource_proofs` | theorems about `ReportSource` |
| `EpisodeLatch` | `blueprints/automation/igw/battery_reserve.yaml` |
| `Persistence_proofs` | theorems about `SettingsStore` and `EpisodeLatch` |
| `ReleasePipeline` | `release-pipeline.yml` with `release_control.py`, `release_versioned.py`, `release_state.py`, `version_plan.py`, and the receipts of `version_receipt.py`, `release_fuzz.py`, `stage_release_assets.py` |
| `VersionLedger` | what the ledger of versions promises |
| `ReleasePipeline_proofs` | theorems about `ReleasePipeline` |
| `VersionPreparation` | `prepare_version.py` with `--pr` |
| `VersionPreparation_proofs` | theorems about `VersionPreparation` |
| `ImageMerge` | `merge_oci_archives.py` |
| `ImageMerge_proofs` | theorems about `ImageMerge` |
| `MC*` | these modules with TLC, for the `.cfg` files |

**ReportEngine.** A report stands for an accepted submission: its thread, its
token and its file. `lock`, `stop`, `busy`, `state`, `worker` are the engine's
attributes; `media` is `published` with `expires` (time left); `root` and `files`
are the directory. `job[r]` holds where worker `r` is in `_run` and its locals,
`req[h]` what handler thread `h` is doing, `mpc` the main thread. A step ends
where the code takes or releases `engine.lock`, blocks, or touches what another
thread reads unlocked. `submit` alone keeps the lock across such a point (it
creates and starts a thread under it), so it has three steps; every other
critical section is one step that needs the lock free. `prune` is part of the
step of each of its three callers. `_run` has one action per stage and per way
out of it; `FetchRaises` skips the unlink because `path` is still `None` there.
What is under the handlers' control (wording, headers, Range) and the
status request are not modelled.

**Time** is time left. `Tick` lowers every deadline by one and is not enabled
while a wait is overdue, so a wait ends in time: connecting (with the request to
play), waiting for PLAYING, watching and `cast.disconnect` in the finally block of
`play`. A playback loop that has seen `stop` and the finally block of `_run` let no
time pass: the code polls `stop` every half second and the block only takes a lock
and unlinks. A device call that hangs inside the loop is therefore outside the
model, and so is a failure to unlink one of the engine's own files.

**Synthesizer.** The pipe is two queues, the child is loading, idle, down or
busy with a request; it may hang or die at any point. `lock` names its holder,
as the code passes it, still taken, from `generate` to the recovery thread.
Poll timeouts are choices. A handler thread is a request's `pc`; `NotStarted` is the
thread that cannot be started, whose slot `process_request` gives back. `ready`
speaks of what this process did: a child that dies by itself leaves `ready` set
until the next request finds the pipe broken, so `ReadyMeansQuiet` promises an empty
pipe and no child at work, not a living child. `RecoversOrExits` asks for the lock to
be free again as well as for `ready`; only a lock that was stranded while `ready` was
clear is excused.

**SpeechService.** One event loop: a step is what runs between two awaits. A
client is a connection: where `handle_client` is, the call it is in, and the
call's two tasks. Cancellation is what `finally` blocks do: `Interrupt` leaves
the queue of the lock, kills the child or releases the lock, according to where
the task waits. A sentence is its number; `said` and `spoken` compare the text
received with the audio. An attempt is an HTTPS call; when its child is killed it
stays with the endpoint, which may answer nobody, be busy for the next caller, or
never answer. `Streaming` names the clients that may stream, which keeps three
clients within reach of TLC.

**SettingsStore.** A thread is a request, a step a system call on the temporary
file; each may fail, and the process may be killed between any two, after which a
new one loads the file. The store is modelled with a file configured, and a crash
is one of the process: `os.replace` followed by a loss of power before the
directory is written is outside. `Seen` maps a thread to the abstract request: an
update takes effect when its file replaces the settings.

**ReportSource.** The worker, the child that fetches and the tool (provider or
encoder) each take steps of their own; the latter two may stop anywhere, and what
a tool has written by then may be nothing, a part with a valid header or all of it.
A tool that exits with 0 is taken to have written all of its file. Time is the
worker's deadline and the child's, which began later.

**EpisodeLatch.** A run waits in the notification service or in the call that sets
the latch; the conditions are evaluated in one go before. `last` and `unsure` are
history. A crash gives back the latch Home Assistant saved last.

**ReleasePipeline.** The workflow's concurrency group lets one attempt execute at
a time (`job`); a newer waiting run replaces an older one. Around it the branch
moves (`Push`), runs are requested and re-run, and requests of attempts that died
are still on their way: a request that loses its answer stays in `wire` and lands
later or never. One assumption is about time (`Settled`): a job publishes only when
no request of an earlier attempt is on its way any more, because builds or an
approval, which take minutes, come before it. A request that GitHub executed later
than that is outside the model. A re-run repeats all jobs or those that failed; `jobs` holds the
attempt that executed each, `receipts` what it uploaded. The policy is part of the
commit (`PolicyOf`): fuzzing, blockers of candidates and of stable releases; so are
the workflow files, the base version and the changelog. `Abandon` ends an attempt
and stands for every refusal without a cause in the model (signatures, reviewers,
reads that fail); it counts as a fault. One asset stands for all of them. Which
parts of the scripts run is decided by `.release-policy.json` and by
`FORCE_FULL`: this repository promotes bytes, so final packages are never built,
and every change runs every job.

**VersionPreparation.** A tree is its base version and a set of other changes, a
commit its tree and ancestors. Operators read main, the tags, the pull requests and
the topic in steps of their own and push without force; others land changes, edit
topics, merge, tag. The base version changes only through prepared pull requests,
and the three-way merge of Git is external.

**ImageMerge.** A blob's name is its digest, so what a name holds (`Content`) is a
constant and an archive is a set of names, of which some may be damaged. An input
is read four times (hash, members, graph, copy) and may be written in place in
between; a write is taken to change the size or a time of the file, which is what
`unchanged` looks at. The code's recursion through the indexes is a stack of
descriptors (`todo`) and a step per descriptor: `ReadIndex`, `Visit`, and `Verify`
when nothing is left. What a changed input would make the walk read is left out,
as `unchanged` refuses that input afterwards. `WalkDecides` compares the walk with
`Mergeable`, which says of the whole graph what an acceptable archive is.

## 4. Runs

| Run | Instance | Shows |
|---|---|---|
| `engine_safety` | 2 reports, 2 handlers, all waits 1 or 2, TTL 6 | type, slot, media, outcome, shutdown safety; refinement of `ReportSlot` |
| `engine_liveness` | 2 reports, 1 handler | the slot is freed, media is removed, SIGTERM ends the process and removes the directory |
| `engine_busy` | the same | finding: 409 without a running report |
| `synth_serving` | 3 requests, 2 slots | safety and liveness of the endpoint; refinement of `SpeechServing` |
| `synth_recovery` | 2 requests, 2 slots | finding: a recovery that fails without exit |
| `speech_admission` | 3 clients, one of which streams 2 sentences, 2 admissions, 1 attempt | counters, lock and queue, order and completeness of streams |
| `speech_calls` | 2 clients, one of which may stream, 1 sentence | every call ends |
| `settings_register` | 3 requests, 2 settings of 2 values | what is served is stored; refinement of `SettingsRegister` |
| `report_source` | 2 endpoints, deadline 4, every provider | fetches bounded, one voice in a report, every report ends |
| `version_topics` | 2 operators, 5 commits, 3 versions | main loses nothing, topic edits are kept |
| `image_merge` | 2 merges, 21 pairs of archives, each written at most once, depth 1, 3 descriptors | what is accepted and published |
| `release_publication` | 3 commits, 3 runs, 1 re-run, 2 faults | what is public; refinement of `VersionLedger` |

No run checks `EpisodeLatch`: it has no parameters, so its theorem says all that a
run could. Nor do runs repeat type invariants that are proved (`SpeechService`,
`SettingsStore`, `ReportSource`, `ReleasePipeline`, `VersionPreparation`,
`ImageMerge`). TLC checked those, and each inductive invariant of section 5, on the
same instances before they were proved.

Why these bounds are enough. Two reports let the media of one linger while the
next is in work, and a slot be freed and taken again; identities are used again,
so runs are not limited to two submissions. Two handlers let a media request meet
a `submit` that holds the lock, or two submissions race. TTL 6 with waits of 1, 1,
2 and 1 is the tightest TTL that `TTLAssumption` (180 > 10 + 20 + 135 + 5) allows, so
that a deadline off by one is found. `JoinBound` 2 is the tightest that
`JoinAssumption` (30 > 5) allows, and a worker that ignored `stop` would watch for
2, disconnect for 1 and so outlast the join. Three requests for two
slots give one that works, one that finds the model busy and one without a slot.
Three clients for two admissions give one at the model, one in the queue and one
turned away. One attempt is enough for the adapter, as the endpoint may refuse
for reasons of its own; two sentences make order and the last-sentence case
possible. Three updates of the settings make one that holds the lock, one that
waits and one that reads; two settings let updates overwrite each other's keys.
A deadline of 4 leaves room for an attempt, its retry and an answer that comes
too late for either. Two preparations of versions and five commits are a topic,
what happens on either side of it, its update and its merge. Three release runs
are a candidate, its promotion and what overtakes either; the second commit adopts
fuzzing and changes the workflows, the third starts a base whose stable release is
blocked; two faults are an answer lost, an upload damaged or an attempt stopped,
twice; requests by hand are made while nothing executes, except the re-run of a
candidate during its promotion. The archives of `image_merge`
are one of each kind the walk tells apart, with the limits on depth and number met
and exceeded by one; the archives share a layer. Symmetry is used only without liveness.

**Fairness.** Threads are scheduled and every wait in the code has a timeout, so
each thread's steps are weakly fair (`FairSpec`), and time passes. The child
process, the display, the clients and, for the adapter, the endpoint are never
assumed to do anything. The adapter's own progress is weak fairness of the
handler (which includes its deadline) and of cancelled tasks: nothing is assumed
of the tasks that receive and work. In `ReportSource` the worker's steps and the
clock are fair, as each of its waits has a timeout; the child, the gateway and the
tools are not. The settings, the latch and the release tools promise safety only:
a disk, a notification service or GitHub may fail for ever.

## 5. Proofs

TLAPS checks, for any sets of reports and handlers and any bounds, that
`ReportEngine` has every property that `engine_safety` checks:

| Theorem | Property | From |
|---|---|---|
| `TypeCorrect` | `TypeOK` | |
| `OneReport` | `OneReportAtATime` | `SlotInv` |
| `NoOrphans`, `OfferedOnDisk`, `Served` | `NoOrphanMedia`, `PublishedOnDisk`, `ServedWhilePlaying` | `MediaInv` |
| `NeverStale` | `ExpiredNeverServed` | `LookupInv` |
| `Truth` | `OutcomeTruthful` | `TruthInv` |
| `WindsDown` | `PlaybackWindsDown` | `WindInv` |
| `Refines` | `SlotSpec` | `FinalInv` and the above |

Assumptions: `NoneAssumption` (no report or handler is `None`), `TimeAssumption`
(bounds are naturals, waits at least 1), `TTLAssumption` (the TTL exceeds the
sum of the waits) and `JoinAssumption` (`close` waits longer than disconnecting takes). TLC evaluates them in every run of the engine.

None of the properties is inductive alone. `OneReportAtATime` needs `LockInv`: a
handler between the steps of `submit` holds the lock and has reserved the only
live report. The media properties need to know where a worker cannot have
published (`Unpublished`) and that the deadline leaves time for every wait still
to come (`DeadlineLasts`); only that sum makes `TTLAssumption` sufficient.
`NeverStale` needs that a token pruned between the two critical sections of
`media_file` belongs to a worker that never publishes again (`OncePC`).
`WindsDown` needs that after `close` has begun during playback nobody can submit
and that the only wait left to the worker, its disconnect, ends before the join
gives up: both count down together, so the proof relates the two timers. The refinement adds that media does not
expire in the finally block, so that `prune` only ever withdraws media of reports
that are over. Each invariant is proved once per group of actions (`...Run`,
`...Handler`, `...Other` or `...Tick`) from lemmas on how a step moves a worker
and the media (`RunFrame`, `RunMoves`, `OtherMoves`).

Of the speech endpoint, for any finite set of connections and any number of slots:

| Theorem | Property | From |
|---|---|---|
| `TypeCorrect`, `SlotsKept` | `TypeOK`, `SlotsConserved` | |
| `NoCrossedAudio` | `OwnAudio` | `PipeInv`, `AnswerInv` |
| `NothingLeft` | `ReadyMeansQuiet` | `LockInv`, `PipeInv`, `ConnInv` |
| `NeverTwoModels` | `OneChild` | `PipeInv` |
| `Refines` | `ServingSpec` | `LockInv`, `AnswerInv` |

`SynthesizerAssumption` says that connections are none of the words the model uses
for the state of the child and for messages and answers, and that the lock's other
values are no connections. Neither `OwnAudio` nor `ReadyMeansQuiet` is inductive:
both rest on `PipeInv`, which says by the holder of the lock what the pipe and the
child may hold. While a request holds it, everything on its way is that request's
(`InFlight`), and only between sending and killing; while the recovery waits, there
is at most the word of the new child (`Reloading`) and `ready` is clear; at all
other times nothing is on its way (`Clean`). `PipeInv` needs `LockInv`, which ties
the lock to the step of its holder, a recovery that could not be started included.
That the pipe is open while `ready` is set is a second invariant on top of these
(`ConnInv`): whoever closes the pipe has cleared `ready` before, and `LockInv` keeps
a recovery from setting it in between.

Of the Wyoming adapter, for any finite set of clients, any limits on connections
and admissions and streams of any length:

| Theorem | Property | From |
|---|---|---|
| `SpeechService_proofs.TypeCorrect` | `TypeOK` | `IInv` |
| `Counted` | `CountersExact` | `AdmittedInv`, `ConnectionsInv` |
| `OneActive` | `OneActiveOneWaiting` | `LockInv`, `AdmittedInv`, `Fine` |
| `InOrder` | `SpokenInOrder` | `Fine` |

`ServiceAssumption` says that there are finitely many clients, that `None` is no
client and no attempt, and that the limits are positive. `LockInv` adds to the first
two parts of `OneActiveOneWaiting` that nobody is in the queue twice (`Once`):
otherwise a cancelled waiter would leave an entry behind. Its last part is a
count: the holder and the waiters are calls (`Fine`: a task exists only in a
call), all different, and `admitted` counts calls exactly. `SpokenInOrder` is inductive only with what is still
in the queue between the task that receives and the task that speaks (`Upcoming`): the
sentences said and not begun, in order, and `Stop` behind them once no more text
may come. Each step of a task is reduced to what it makes of the call
(`Taken`, `Spoken`, `Received`, `GivenUp` and their like) and of the lock (`LockStep`);
`Worked` puts the two together. Nothing is assumed of the endpoint but the type of its
replies, so these theorems hold for any endpoint.

Of the source of reports, for any deadline and any endpoints that can be
configured (`SourceAssumption`):

| Theorem | Property | From |
|---|---|---|
| `ReportSource_proofs.TypeCorrect` | `TypeOK` | `IInv` |
| `Bounded` | `FetchBounded` | `FetchInv` |
| `Voiced` | `OneVoice` | `RenderInv` |

`FetchInv` adds what the child may still do: it asks again only with one answer
behind it that may pass, and once something is in the pipe it asks no more, so that
what the worker has received stays what the last answer said. `RenderInv` says
whose the audio is and when it is whole: a part of a file that looks whole by its
header is ruled out by the exit status of its provider, and that argument needs that
what an earlier provider left has been removed.

Of the settings store, for any number of requests and any settings, and of the
notification latch, which has no parameters:

| Theorem | Property | From |
|---|---|---|
| `Persistence_proofs.TypeCorrect`, `Served` | `TypeOK`, `ServedIsStored` | `IInv` |
| `Persistence_proofs.Refines` | `RegisterSpec` | `IInv` |
| `Persistence_proofs.Once` | `NotifiedOnce` | `LatchTells` |

`ServedIsStored` is inductive only with `StoringInOrder`: an update that is being
stored follows the values it has read through its temporary file, so that the file
it leaves is what it publishes; and with `DownIsIdle`, as a crash ends every
request. The refinement maps each request to what its caller can still observe
(`Seen`): only `Replace` moves the register, and `Snapshot` may be mapped to a
read because the values agree with the file whenever the lock is free.
`NotifiedOnce` needs that a run about to notify says what the latch calls for and
that nothing but that run, a crash or a restart can change the latch meanwhile.

Of the release pipeline, for any number of commits, runs, re-runs and lost or late
requests, any policy and any finite set of assets (`PipelineAssumption`):

| Theorem | Property | From |
|---|---|---|
| `CoreCorrect` | | `CoreInv` |
| `LedgerRefined` | `LedgerSpec` | `CoreInv` |
| `NumbersUnique`, `LedgerKept` | `UniqueReservations`, `Durable` of `VersionLedger` | `CoreInv` |
| `PublicCorrect` | `PublicComplete` | `ReleaseInv` |
| `OrderCorrect`, `StableCloses` | `PublicOrder`, `NoCandidateAfterStable` | `TurnInv` |
| `PromotionCorrect` | `PromotedAsAccepted` | `AcceptInv` |
| `OvertakenCorrect` | `OvertakenStaysDraft` | `OvertakenInv` |

The invariants are layers, each inductive on top of those before it. `CoreInv` has
the types and, for the ledger, what a request may do that was sent long ago: whatever
still is in `wire` advances the ledger it was made from (`Sound`), so that when the
compare and swap of `write_state` lets it through, the ledger takes one step of
`VersionLedger`. `ReleaseInv` says that there is one publication at a time
(`Settles`: an attempt publishes only when nothing is on its way, but a draft
it is looking for; this rests on the assumption `Settled` of section 3, and with it
all theorems below `LedgerKept` in the table), of a reserved plan (`PlanInv`), under a tag that no
other release bears (`Named`), of files that were read back whole (`Intact`).
`Turn` says that nothing public stands in the way of what is being published: the
reservation was checked before the number was consumed, and `PublicOrder` holds
because no other attempt can consume a number in between. `Vouching` follows
receipts, evidence and the accepted bytes from the attempt that made them into the
job, the draft and the draft that is still on its way; re-runs must not be able to
exchange them. `Dead` lists every way in which a draft could still become public and
excludes each for a draft that was overtaken; it needs that the branch of an
automatic run only moves away (`Began`). What the four layers need of a step is
stated once, as a list of what the steps can be for the ledger, the wire and the
releases (`Reserving`, `Sends`, `Withdraws`, `Proceeds` and their like).

Of version preparation, for any operators and any number of commits and versions
(`PreparationAssumption`):

| Theorem | Property | From |
|---|---|---|
| `PreparationCorrect`, `TypeCorrect` | `TypeOK` | `IInv` |
| `MainKept` | `MainNeverLoses` | `IInv` |
| `EditsKept` | `TopicEditsKept` | `IInv` |

Neither property is inductive: an operator acts on refs it read steps ago.
`Monotone` says that a commit has all that each of its ancestors has and a base that
is no smaller; then it is enough that main and the topics only move to descendants
(`Descends`), which is where pushing without force and `RunsKnow` come in: what a
run of `prepare` has verified of the head it started from and of the topic it found
stays true, whatever others push meanwhile. A prepared commit keeps `Monotone` only
because its target is no step back from that head.

Of the merge of images, for any number of merges and platforms, any archives and
any writes to them (`MergeAssumption`):

| Theorem | Property | From |
|---|---|---|
| `ImageMerge_proofs.TypeCorrect` | `TypeOK` | `MergeInv` |
| `OutputVerified` | `OutputAsVerified` | `MergeInv` |
| `OutputComplete` | `OutputIntact` | `MergeInv` |

`MergeInv` says for every input, by whether its turn is past, present or to come,
what the merge knows of it (`Progress`). What was hashed, listed and copied is what
the file still holds *as long as the stamp is the same* (`Opened`, `Listed`,
`Copied`); when `unchanged` finds the stamp the same, the three readings agree.
The leaves found so far are fine at every step of the walk (`LeavesFine`), for
graphs of any depth. After the link a merge reads nothing more (`PublishedInv`).

Only model-checked:

- Liveness (`ReportEngine_liveness`, the liveness parts of `synth_serving`,
  `speech_calls`, `EveryReportEnds`): the prover has neither ENABLED nor fairness.
- `WalkDecides`: that a walk, depth first, accepts exactly the trees of
  `Mergeable` is an induction over the depth of the tree, and the library's
  induction theorems cannot be instantiated. Its consequence for what is published
  is proved (`OutputComplete`).
- The two findings of section 6, which are counterexamples.

## 6. Findings

- `engine_busy`: `docs/standalone-cast.md:106` says that 409 "means a report is
  already running". When `worker.start()` raises at the thread limit, `busy` stays
  set and every later request is answered 409 with nothing running.
- `synth_recovery`: `docs/kitten-speech.md:265` says that the service exits when
  worker recovery fails. When the recovery thread cannot be started, the lock
  stays taken and `ready` cleared, and the service neither recovers nor exits.

Not every shutdown removes the media directory: `join` raises on a thread that was
assigned and not started, and a render that outlasts `join` may leave its mp4 behind
`rmtree`. Both are in the model; no document promises otherwise, so they are no
findings, and `ShutdownCompletes` says that they are the only two ways.

## 7. Not modelled

- TLS policy, the Darwin certificate check and configuration: stateless.
- Russian text (`normalize_russian`), `validate_snapshot`, page layout: functions of
  one input, character by character. A model of them would be the program again.
  `ReportSource` and `SpeechService` choose between a valid and an invalid result.
- The package generators: text, and one sequential loop that refuses existing files.
- The automations `daily_briefing` and the script `announce_energy`, which keep no
  state; `energy_condition` latches as `battery_reserve` does.
- Drawing and video encoding; the scripts that verify and download models.
- The byte budgets of `ImageMerge`'s input and the fields of its manifests.
- Release tools that check one workflow file, one diff or the runner once
  (`workflow_contracts`, `runner_preflight`,
  `release_provenance`, `change_scope`), and within the pipeline: signatures,
  provenance of binaries, reviewers, the names of assets, policies this repository
  does not choose (final builds, detached provenance, validation workflows per
  channel), and the button that re-runs a single job.
- A power loss that undoes `os.replace` in the settings store.
