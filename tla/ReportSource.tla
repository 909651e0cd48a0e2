---------------------------- MODULE ReportSource ----------------------------
(***************************************************************************)
(* Where a report comes from: what the worker of the report engine does in *)
(* its Fetch and Render steps (ReportEngine), with every process it starts *)
(* on the way.  fetch_snapshot_bounded of igw_google_voice/cast_gateway.py *)
(* asks the gateway in a child process that it reaps at a deadline;        *)
(* render_report_video of igw_google_voice/cast_media.py tries one speech  *)
(* provider after another and encodes the video, each in a process with a  *)
(* timeout of its own.                                                     *)
(*                                                                         *)
(* Any of these processes may hang for ever, die, or exit at any moment,   *)
(* whatever it has written by then.  Contents are abstracted to who made   *)
(* them and whether they are whole.  Names ending in _m are mutants.       *)
(***************************************************************************)
EXTENDS Naturals, Sequences

CONSTANTS
    Deadline,    \* seconds fetch_snapshot_bounded waits, 12
    Endpoints    \* Kitten endpoints configured

ASSUME SourceAssumption ==
    /\ Deadline \in Nat \ {0}
    /\ Endpoints \in {<<>>, <<"kitten_primary">>, <<"kitten_primary", "kitten_secondary">>}

VARIABLES
    provider,  \* config.tts_provider
    pc,        \* where the worker is
    left,      \* seconds until it gives up waiting for the snapshot
    child,     \* the process that fetches
    answers,   \* what became of its requests to the gateway
    pipe,      \* what it has sent to the worker
    fetched,   \* the outcome of the fetch
    turn,      \* the speech provider in turn
    tool,      \* the process that speaks or encodes
    audio, video,  \* speech.wav and report.mp4 of the temporary directory
    output     \* the video given to the engine

fetchVars == <<left, child, answers, pipe, fetched>>
renderVars == <<turn, tool, audio, video, output>>
vars == <<provider, pc, fetchVars, renderVars>>

\* The outcomes of one request, and the category each is reported under.
Category == [snapshot    |-> "ok",
             unavailable |-> "http_failure",       \* 502, 503 or 504
             refused     |-> "http_failure",       \* any other status
             interrupted |-> "transport_failure",  \* timeout, reset, DNS try-again
             broken      |-> "transport_failure",  \* TLS, DNS, no route
             garbled     |-> "invalid_response"]   \* rejected by validate_snapshot

Kinds == DOMAIN Category
Categories == {"ok", "http_failure", "transport_failure", "invalid_response"}

Retryable_m == {"unavailable", "interrupted", "broken"}

\* What is asked a second time.
Retryable == {"unavailable", "interrupted"}

\* The providers _speech tries, in order.
Voices == (CASE provider = "kitten" -> Endpoints
             [] provider = "piper"  -> <<"piper">>
             [] OTHER               -> <<>>) \o <<"espeak">>

Waiting == {"poll", "join", "terminated"}
Ending == {"rendered", "failed"}

\* A file: who spoke in it, and whether it has all of it, a part that looks like
\* all of it by its header, or nothing of use.
Nothing == [by |-> "nobody", has |-> "none"]
Content == [by : {"kitten_primary", "kitten_secondary", "piper", "espeak"},
            has : {"part", "whole", "bad"}] \cup {Nothing}

TypeOK ==
    /\ provider \in {"kitten", "piper", "espeak"}
    /\ pc \in {"idle", "speech", "draw", "encode", "replace"} \cup Waiting \cup Ending
    /\ left \in 0..Deadline
    /\ child \in [at : {"none", "starting", "asking", "open", "sent", "gone"}, left : 0..Deadline]
    /\ answers \in Seq(Kinds)
    /\ pipe \in Categories \cup {"empty"}
    /\ fetched \in Categories \cup {"nothing"}
    /\ turn \in 1..3
    /\ tool \in {"none", "running", "exited", "failed"}
    /\ audio \in Content
    /\ video \in Content
    /\ output \in Content

Init ==
    /\ provider \in {"kitten", "piper", "espeak"}
    /\ pc = "idle"
    /\ left = 0
    /\ child = [at |-> "none", left |-> 0]
    /\ answers = <<>>
    /\ pipe = "empty"
    /\ fetched = "nothing"
    /\ turn = 1
    /\ tool = "none"
    /\ audio = Nothing
    /\ video = Nothing
    /\ output = Nothing

-----------------------------------------------------------------------------
(* The worker: start the child and wait for its answer until the deadline. *)
StartFetch ==
    /\ pc = "idle"
    /\ pc' = "poll"
    /\ left' = Deadline
    /\ child' = [at |-> "starting", left |-> 0]
    /\ answers' = <<>>
    /\ pipe' = "empty"
    /\ fetched' = "nothing"
    /\ turn' = 1
    /\ output' = Nothing
    /\ UNCHANGED <<provider, tool, audio, video>>

\* A second passes, for the worker and for the child.
Tick ==
    /\ pc = "poll"
    /\ left > 0
    /\ left' = left - 1
    /\ child' = [child EXCEPT !.left = IF @ > 0 THEN @ - 1 ELSE 0]
    /\ UNCHANGED <<provider, pc, answers, pipe, fetched, renderVars>>

Fetched(outcome) ==
    /\ pc' = "join"
    /\ fetched' = outcome
    /\ UNCHANGED <<provider, left, child, answers, pipe, renderVars>>

Receive ==
    /\ pc = "poll"
    /\ pipe # "empty"
    /\ Fetched(pipe)

\* The child is gone and has sent nothing: EOFError.
ReceiveNothing ==
    /\ pc = "poll"
    /\ pipe = "empty"
    /\ child.at = "gone"
    /\ Fetched("transport_failure")

GiveUp_m ==
    /\ pc = "poll"
    /\ pipe = "empty"
    /\ left = 0
    /\ child.at = "gone"
    /\ Fetched("transport_failure")

GiveUp ==
    /\ pc = "poll"
    /\ pipe = "empty"
    /\ left = 0
    /\ Fetched("transport_failure")

\* The child is gone: the worker turns to rendering, a report or the fallback.
Reap ==
    /\ pc \in {"join", "terminated"}
    /\ child.at = "gone"
    /\ pc' = "speech"
    /\ UNCHANGED <<provider, fetchVars, renderVars>>

\* It is still there after join(0.1): SIGTERM, and after join(1): SIGKILL.
Terminate ==
    /\ pc = "join"
    /\ child.at # "gone"
    /\ pc' = "terminated"
    /\ UNCHANGED <<provider, fetchVars, renderVars>>

Kill ==
    /\ pc = "terminated"
    /\ child.at # "gone"
    /\ child' = [child EXCEPT !.at = "gone"]
    /\ pc' = "speech"
    /\ UNCHANGED <<provider, left, answers, pipe, fetched, renderVars>>

-----------------------------------------------------------------------------
(* The child, fetch_snapshot: at most two requests within its own deadline. *)
Child(from, to) ==
    /\ child.at = from
    /\ child' = [child EXCEPT !.at = to]
    /\ UNCHANGED <<provider, pc, left, fetched, renderVars>>

Started ==
    /\ child.at = "starting"
    /\ child' = [at |-> "asking", left |-> Deadline]
    /\ UNCHANGED <<provider, pc, left, answers, pipe, fetched, renderVars>>

Open ==
    /\ child.left > 0
    /\ Child("asking", "open")
    /\ UNCHANGED <<answers, pipe>>

TooLate ==
    /\ child.left = 0
    /\ Child("asking", "sent")
    /\ pipe' = "transport_failure"
    /\ UNCHANGED answers

Retry ==
    /\ \E kind \in Retryable : answers' = Append(answers, kind)
    /\ Len(answers) = 0
    /\ Child("open", "asking")
    /\ UNCHANGED pipe

Send ==
    /\ \E kind \in Kinds :
          /\ Len(answers) = 0 => kind \notin Retryable
          /\ answers' = Append(answers, kind)
          /\ pipe' = Category[kind]
    /\ Child("open", "sent")

\* It exits, or dies of itself or of SIGTERM, at any point.
Exit ==
    /\ child.at \notin {"none", "gone"}
    /\ child' = [child EXCEPT !.at = "gone"]
    /\ UNCHANGED <<provider, pc, left, answers, pipe, fetched, renderVars>>

-----------------------------------------------------------------------------
(* The tools: a speech provider that writes speech.wav and the encoder that *)
(* writes report.mp4.                                                       *)
StartTool ==
    /\ pc \in {"speech", "encode"}
    /\ tool = "none"
    /\ tool' = "running"
    /\ UNCHANGED <<provider, pc, fetchVars, turn, audio, video, output>>

\* A speech provider truncates its file and writes a part of it, all of it, or
\* something that is not a wave file or is too long.
Speak ==
    /\ pc = "speech"
    /\ tool = "running"
    /\ \E has \in {"part", "whole", "bad"} : audio' = [by |-> Voices[turn], has |-> has]
    /\ UNCHANGED <<provider, pc, fetchVars, turn, tool, video, output>>

Encode ==
    /\ pc = "encode"
    /\ tool = "running"
    /\ video' \in {[audio EXCEPT !.has = "part"], audio}
    /\ UNCHANGED <<provider, pc, fetchVars, turn, tool, audio, output>>

\* It exits: with 0 only when it has not left its own file half written.
Written == IF pc = "speech" THEN [by |-> Voices[turn], has |-> "part"] # audio
                            ELSE video \in {Nothing, audio}
ToolExits ==
    /\ tool = "running"
    /\ tool' \in (IF Written THEN {"exited", "failed"} ELSE {"failed"})
    /\ UNCHANGED <<provider, pc, fetchVars, turn, audio, video, output>>

\* Its timeout: it is killed and waited for.
ToolTimeout ==
    /\ tool = "running"
    /\ tool' = "failed"
    /\ UNCHANGED <<provider, pc, fetchVars, turn, audio, video, output>>

-----------------------------------------------------------------------------
(* The worker, render_report_video.  Speech is accepted when its provider   *)
(* has exited with 0 and by its header the file is one of a length that     *)
(* fits (_audio_duration), whoever wrote it.                                *)
Usable == audio.has \in {"part", "whole"}

Spoken ==
    /\ pc = "speech"
    /\ tool = "exited"
    /\ Usable
    /\ pc' = "draw"
    /\ tool' = "none"
    /\ UNCHANGED <<provider, fetchVars, turn, audio, video, output>>

NotSpoken ==
    /\ pc = "speech"
    /\ tool = "failed" \/ (tool = "exited" /\ ~Usable)
    /\ tool' = "none"

NextVoice_m ==
    /\ NotSpoken
    /\ turn < Len(Voices)
    /\ turn' = turn + 1
    /\ UNCHANGED <<provider, pc, fetchVars, audio, video, output>>

\* The next provider must not find what this one has left.
NextVoice ==
    /\ NotSpoken
    /\ turn < Len(Voices)
    /\ turn' = turn + 1
    /\ audio' = Nothing
    /\ UNCHANGED <<provider, pc, fetchVars, video, output>>

\* The temporary directory goes, whatever the outcome.
Ends(outcome) ==
    /\ pc' = outcome
    /\ audio' = Nothing
    /\ video' = Nothing
    /\ UNCHANGED <<provider, fetchVars, turn>>

Mute ==
    /\ NotSpoken
    /\ turn = Len(Voices)
    /\ Ends("failed")
    /\ UNCHANGED output

\* The frames, or too many of them.
Draw ==
    /\ pc = "draw"
    /\ pc' = "encode"
    /\ UNCHANGED <<provider, fetchVars, renderVars>>

DrawFails ==
    /\ pc = "draw"
    /\ Ends("failed")
    /\ UNCHANGED <<tool, output>>

Encoded ==
    /\ pc = "encode"
    /\ tool = "exited"
    /\ video # Nothing
    /\ pc' = "replace"
    /\ tool' = "none"
    /\ UNCHANGED <<provider, fetchVars, turn, audio, video, output>>

NotEncoded ==
    /\ pc = "encode"
    /\ tool = "failed" \/ (tool = "exited" /\ video = Nothing)
    /\ tool' = "none"
    /\ Ends("failed")
    /\ UNCHANGED output

Replace ==
    /\ pc = "replace"
    /\ output' = video
    /\ Ends("rendered")
    /\ UNCHANGED tool

\* The worker is done with the report (ReportEngine) and gets another.
Done ==
    /\ pc \in Ending
    /\ pc' = "idle"
    /\ UNCHANGED <<provider, fetchVars, renderVars>>

-----------------------------------------------------------------------------
Worker ==
    \/ Receive \/ ReceiveNothing \/ GiveUp \/ Reap \/ Terminate \/ Kill
    \/ StartTool \/ ToolTimeout \/ Spoken \/ NextVoice \/ Mute
    \/ Draw \/ DrawFails \/ Encoded \/ NotEncoded \/ Replace \/ Done

Next ==
    \/ StartFetch \/ Tick \/ Worker
    \/ Started \/ Open \/ TooLate \/ Retry \/ Send \/ Exit
    \/ Speak \/ Encode \/ ToolExits

Spec == Init /\ [][Next]_vars

\* The worker runs and its timers expire; nothing is owed by any other process.
FairSpec == Spec /\ WF_vars(Worker) /\ WF_vars(Tick)

-----------------------------------------------------------------------------
(* The gateway is asked at most twice for a report, a second time only      *)
(* after an answer that may pass (fetch_snapshot retries "one classified    *)
(* transient GET" and "never" caches); a report is rendered from a snapshot *)
(* only if the last request brought one, and by then the child that fetched *)
(* it is gone, whatever it hung on.                                         *)
FetchBounded ==
    /\ Len(answers) <= 2
    /\ Len(answers) = 2 => answers[1] \in {"unavailable", "interrupted"}
    /\ fetched = "ok" => answers # <<>> /\ answers[Len(answers)] = "snapshot"
    /\ pc \notin Waiting => child.at \in {"none", "gone"}

(* A finished video speaks with one voice, the one it is reported with, and *)
(* to the end: no provider's half written file outlives its failure.        *)
OneVoice ==
    output # Nothing => output = [by |-> Voices[turn], has |-> "whole"]

(* A report ends whatever process hangs: the slot of the engine is freed    *)
(* although neither the fetching child nor any tool need ever take a step.  *)
EveryReportEnds == pc # "idle" ~> pc = "idle"

=============================================================================
