------------------------- MODULE ReportSource_proofs -------------------------
(***************************************************************************)
(* Theorems about ReportSource, for any deadline and any number of         *)
(* endpoints the configuration allows.                                     *)
(***************************************************************************)
EXTENDS ReportSource, SequenceTheorems, TLAPS

-----------------------------------------------------------------------------
(* The inductive invariants.                                                *)

Idling == {"none", "gone"}

(* The child makes a second request only after an answer that may pass, and *)
(* what it sends follows from its last answer; then it asks no more.        *)
FetchInv ==
    /\ Len(answers) <= 2
    /\ child.at = "starting" => Len(answers) = 0
    /\ child.at \in {"asking", "open"} => Len(answers) <= 1
    /\ Len(answers) = 2 \/ child.at \in {"asking", "open"} =>
          (Len(answers) > 0 => answers[1] \in Retryable)
    /\ pipe # "empty" => child.at \in {"sent", "gone"}
    /\ pipe = "ok" => Len(answers) > 0 /\ answers[Len(answers)] = "snapshot"
    /\ fetched = "ok" => pipe = "ok"
    /\ pc \notin Waiting => child.at \in Idling

Voice == Voices[turn]

(* The audio is that of the provider in turn, whole once it is accepted; the *)
(* video is whole once the encoder has ended well; and what no tool of the   *)
(* step in hand makes is not there.                                          *)
RenderInv ==
    /\ turn \in 1..Len(Voices)
    /\ pc \notin {"speech", "encode"} => tool = "none"
    /\ pc \notin {"speech", "draw", "encode", "replace"} => audio = Nothing
    /\ pc \notin {"encode", "replace"} => video = Nothing
    /\ pc \notin {"rendered", "idle"} => output = Nothing
    /\ audio # Nothing => audio.by = Voice
    /\ pc = "speech" /\ tool = "exited" => audio.has # "part"
    /\ pc \in {"draw", "encode", "replace"} => audio = [by |-> Voice, has |-> "whole"]
    /\ pc = "encode" /\ tool = "exited" => video \in {Nothing, audio}
    /\ pc = "replace" => video = audio
    /\ output # Nothing => output = [by |-> Voice, has |-> "whole"]

IInv == TypeOK /\ FetchInv /\ RenderInv

-----------------------------------------------------------------------------
(* The constants of the model.                                              *)

Names == {"kitten_primary", "kitten_secondary", "piper", "espeak"}

\* What a request may bring, and what of it is reported as a snapshot.
LEMMA Reported ==
    /\ Kinds = {"snapshot", "unavailable", "refused", "interrupted", "broken", "garbled"}
    /\ Retryable \subseteq Kinds /\ "snapshot" \notin Retryable
    /\ \A kind \in Kinds : /\ Category[kind] \in Categories
                           /\ Category[kind] = "ok" <=> kind = "snapshot"
    /\ "empty" \notin Categories /\ "nothing" \notin Categories
BY DEF Kinds, Category, Categories, Retryable

\* There is a provider, and there are at most three.
LEMMA SomeVoice ==
    ASSUME provider \in {"kitten", "piper", "espeak"}
    PROVE  /\ Voices \in Seq(Names) /\ Len(Voices) \in 1..3
           /\ \A i \in 1..Len(Voices) : Voices[i] \in Names
<1> DEFINE first == CASE provider = "kitten" -> Endpoints
                      [] provider = "piper"  -> <<"piper">>
                      [] OTHER               -> <<>>
<1>1. /\ first \in Seq(Names) /\ Len(first) \in 0..2
  <2>1. \/ first = <<>> \/ first = <<"piper">> \/ first = <<"kitten_primary">>
        \/ first = <<"kitten_primary", "kitten_secondary">>
    <3>1. CASE provider = "kitten"
      BY <3>1, SourceAssumption
    <3>2. CASE provider = "piper"
      BY <3>2
    <3>3. CASE provider = "espeak"
      BY <3>3
    <3> QED
      BY <3>1, <3>2, <3>3
  <2> HIDE DEF first
  <2>2. CASE first = <<>>
    BY <2>2
  <2>3. CASE first = <<"piper">>
    BY <2>3 DEF Names
  <2>4. CASE first = <<"kitten_primary">>
    BY <2>4 DEF Names
  <2>5. CASE first = <<"kitten_primary", "kitten_secondary">>
    BY <2>5 DEF Names
  <2> QED
    BY <2>1, <2>2, <2>3, <2>4, <2>5
<1>2. <<"espeak">> \in Seq(Names) /\ Len(<<"espeak">>) = 1
  BY DEF Names
<1>3. Voices = first \o <<"espeak">>
  BY DEF Voices
<1> HIDE DEF first
<1>4. Voices \in Seq(Names) /\ Len(Voices) = Len(first) + 1
  BY <1>1, <1>2, <1>3, ConcatProperties
<1>5. \A i \in 1..Len(Voices) : Voices[i] \in Names
  BY <1>4, ElementOfSeq
<1>6. PICK n \in 0..2 : n = Len(first)
  BY <1>1
<1>7. n + 1 \in 1..3 /\ Len(Voices) = n + 1
  BY <1>4, <1>6
<1> QED
  BY <1>4, <1>5, <1>7

\* The seconds left.
LEMMA Deadlines == Deadline \in Nat /\ 0 \in 0..Deadline /\ Deadline \in 0..Deadline
BY SourceAssumption

\* Files are told apart by who made them and by what they have.
LEMMA Contents ==
    /\ Nothing \in Content
    /\ \A by \in Names, has \in {"part", "whole", "bad"} :
          /\ [by |-> by, has |-> has] \in Content
          /\ [by |-> by, has |-> has] # Nothing
    /\ \A f \in Content : f # Nothing => /\ f = [by |-> f.by, has |-> f.has]
                                         /\ f.by \in Names /\ f.has \in {"part", "whole", "bad"}
    /\ Nothing.has = "none"
BY DEF Content, Nothing, Names

-----------------------------------------------------------------------------

\* A step of the fetch.
LEMMA RenderKept ==
    ASSUME RenderInv, UNCHANGED <<provider, renderVars>>,
           pc = pc' \/ (pc \in Waiting /\ pc' \in Waiting \cup {"speech"})
    PROVE  RenderInv'
<1>1. UNCHANGED <<provider, turn, tool, audio, video, output>>
  BY DEF renderVars
<1>2. Voices' = Voices /\ Voice' = Voice
  BY <1>1 DEF Voices, Voice
<1>3. CASE pc = pc'
  BY <1>1, <1>2, <1>3 DEF RenderInv
<1>4. CASE pc \in Waiting /\ pc' \in Waiting \cup {"speech"}
  <2>1. tool = "none" /\ audio = Nothing /\ video = Nothing /\ output = Nothing
    BY <1>4 DEF RenderInv, Waiting
  <2>2. pc' \in {"poll", "join", "terminated", "speech"}
    BY <1>4 DEF Waiting
  <2> QED
    BY <2>1, <2>2, <1>1, <1>2 DEF RenderInv
<1> QED
  BY <1>3, <1>4

\* A step of the rendering.
LEMMA FetchKept ==
    ASSUME FetchInv, UNCHANGED fetchVars, pc \notin Waiting, pc' \notin Waiting
    PROVE  FetchInv'
BY DEF FetchInv, fetchVars

-----------------------------------------------------------------------------
(* The fetch.                                                               *)

\* The worker begins another report.
LEMMA StartFetchInv ==
    ASSUME IInv, StartFetch
    PROVE  IInv'
<1>1. TypeOK'
  BY SomeVoice, Deadlines, Contents DEF IInv, TypeOK, StartFetch, Waiting, Ending
<1>2. FetchInv'
  <2>1. answers' = <<>> /\ Len(<<>>) = 0 /\ child'.at = "starting" /\ pipe' = "empty"
        /\ fetched' = "nothing" /\ pc' \in Waiting
    BY DEF StartFetch, Waiting
  <2> QED
    BY <2>1 DEF FetchInv
<1>3. RenderInv'
  <2>1. /\ tool = "none" /\ audio = Nothing /\ video = Nothing
        /\ UNCHANGED <<provider, tool, audio, video>>
        /\ turn' = 1 /\ output' = Nothing /\ pc' = "poll"
    BY DEF IInv, RenderInv, StartFetch
  <2>2. Voices' = Voices /\ Len(Voices) \in 1..3
    BY <2>1, SomeVoice DEF IInv, TypeOK, Voices
  <2> QED
    BY <2>1, <2>2 DEF RenderInv
<1> QED
  BY <1>1, <1>2, <1>3 DEF IInv

\* The worker waits for the child, until the deadline, and reaps it.
LEMMA WaitInv ==
    ASSUME IInv, Tick \/ Receive \/ ReceiveNothing \/ GiveUp \/ Reap \/ Terminate \/ Kill
    PROVE  IInv'
<1> USE DEF IInv
<1>1. CASE Tick
  <2>1. TypeOK'
    BY <1>1, Deadlines DEF TypeOK, Tick, renderVars
  <2>2. child'.at = child.at /\ UNCHANGED <<pc, answers, pipe, fetched>>
    BY <1>1 DEF Tick, TypeOK
  <2>3. FetchInv'
    BY <2>2 DEF FetchInv
  <2>4. RenderInv'
    BY <1>1, RenderKept DEF Tick
  <2> QED
    BY <2>1, <2>3, <2>4
<1>2. CASE Receive \/ ReceiveNothing \/ GiveUp
  <2>1. PICK outcome \in Categories :
           /\ Fetched(outcome) /\ pc = "poll"
           /\ outcome = "ok" => pipe = "ok"
    <3>1. CASE Receive
      BY <3>1 DEF Receive, TypeOK
    <3>2. CASE ReceiveNothing \/ GiveUp
      BY <3>2 DEF ReceiveNothing, GiveUp, Categories
    <3> QED
      BY <3>1, <3>2, <1>2
  <2>2. TypeOK'
    BY <2>1 DEF TypeOK, Fetched, Waiting, renderVars
  <2>3. FetchInv'
    BY <2>1 DEF FetchInv, Fetched, Waiting
  <2>4. RenderInv'
    BY <2>1, RenderKept DEF Fetched, Waiting
  <2> QED
    BY <2>2, <2>3, <2>4
<1>3. CASE Reap \/ Terminate
  <2>1. /\ pc \in Waiting /\ pc' \in {"terminated", "speech"}
        /\ pc' = "speech" => child.at = "gone"
        /\ UNCHANGED <<provider, fetchVars, renderVars>>
    BY <1>3 DEF Reap, Terminate, Waiting
  <2>2. TypeOK'
    BY <2>1 DEF TypeOK, fetchVars, renderVars, Waiting
  <2>3. FetchInv'
    BY <2>1 DEF FetchInv, fetchVars, Waiting, Idling
  <2>4. RenderInv'
    BY <2>1, RenderKept DEF Waiting
  <2> QED
    BY <2>2, <2>3, <2>4
<1>4. CASE Kill
  <2>1. /\ pc \in Waiting /\ pc' = "speech"
        /\ child' = [child EXCEPT !.at = "gone"]
        /\ UNCHANGED <<provider, left, answers, pipe, fetched, renderVars>>
    BY <1>4 DEF Kill, Waiting
  <2>2. TypeOK'
    BY <2>1 DEF TypeOK, renderVars, Waiting
  <2>3. child'.at = "gone"
    BY <2>1 DEF TypeOK
  <2>4. FetchInv'
    BY <2>1, <2>3 DEF FetchInv, Waiting, Idling
  <2>5. RenderInv'
    BY <2>1, RenderKept
  <2> QED
    BY <2>2, <2>4, <2>5
<1> QED
  BY <1>1, <1>2, <1>3, <1>4

\* The child asks, asks again, sends and exits.
LEMMA ChildInv ==
    ASSUME IInv, Started \/ Open \/ TooLate \/ Retry \/ Send \/ Exit
    PROVE  IInv'
<1> USE DEF IInv
<1>1. pc \in Waiting /\ UNCHANGED <<provider, pc, left, fetched, renderVars>>
  BY DEF Started, Open, TooLate, Retry, Send, Exit, Child, FetchInv, Idling
<1>2. RenderInv'
  BY <1>1, RenderKept
<1>3. /\ answers \in Seq(Kinds) /\ Len(answers) \in Nat
      /\ \A kind \in Kinds :
            LET more == Append(answers, kind)
            IN  /\ more \in Seq(Kinds) /\ Len(more) = Len(answers) + 1
                /\ more[Len(more)] = kind
                /\ Len(answers) > 0 => more[1] = answers[1]
  BY DEF TypeOK
<1>4. CASE Started \/ Open \/ Exit
  <2>1. /\ UNCHANGED <<provider, pc, left, answers, pipe, fetched, turn, tool, audio, video, output>>
        /\ child' \in [at : {"none", "starting", "asking", "open", "sent", "gone"}, left : 0..Deadline]
        /\ \/ child.at = "starting" /\ child'.at = "asking"
           \/ child.at = "asking" /\ child'.at = "open"
           \/ child.at \notin {"none", "gone"} /\ child'.at = "gone"
    BY <1>4, <1>1, Deadlines DEF Started, Open, Exit, Child, TypeOK, renderVars
  <2>2. TypeOK'
    BY <2>1 DEF TypeOK
  <2>3. FetchInv'
    BY <2>1, <1>1 DEF FetchInv
  <2> QED
    BY <2>2, <2>3, <1>2
<1>5. CASE TooLate
  <2>1. /\ UNCHANGED <<provider, pc, left, answers, fetched, turn, tool, audio, video, output>>
        /\ child' = [child EXCEPT !.at = "sent"] /\ child.at = "asking"
        /\ pipe' = "transport_failure"
    BY <1>5 DEF TooLate, Child, renderVars
  <2>2. TypeOK' /\ child'.at = "sent"
    BY <2>1 DEF TypeOK, Categories
  <2>3. fetched # "ok"
    BY <2>1 DEF FetchInv
  <2>4. FetchInv'
    BY <2>1, <2>2, <2>3, <1>1 DEF FetchInv
  <2> QED
    BY <2>2, <2>4, <1>2
<1>6. CASE Retry
  <2>1. PICK kind \in Retryable : answers' = Append(answers, kind)
    BY <1>6 DEF Retry
  <2>2. /\ UNCHANGED <<provider, pc, left, pipe, fetched, turn, tool, audio, video, output>>
        /\ child' = [child EXCEPT !.at = "asking"] /\ child.at = "open" /\ Len(answers) = 0
    BY <1>6 DEF Retry, Child, renderVars
  <2>3. answers' \in Seq(Kinds) /\ Len(answers') = 1 /\ answers'[1] = kind
    BY <2>1, <2>2, <1>3, Reported
  <2>4. TypeOK' /\ child'.at = "asking"
    BY <2>2, <2>3 DEF TypeOK
  <2>5. pipe = "empty" /\ fetched # "ok"
    BY <2>2 DEF FetchInv
  <2>6. FetchInv'
    BY <2>2, <2>3, <2>4, <2>5, <1>1 DEF FetchInv
  <2> QED
    BY <2>4, <2>6, <1>2
<1>7. CASE Send
  <2>1. PICK kind \in Kinds : /\ Len(answers) = 0 => kind \notin Retryable
                              /\ answers' = Append(answers, kind)
                              /\ pipe' = Category[kind]
    BY <1>7 DEF Send
  <2>2. /\ UNCHANGED <<provider, pc, left, fetched, turn, tool, audio, video, output>>
        /\ child' = [child EXCEPT !.at = "sent"] /\ child.at = "open"
    BY <1>7 DEF Send, Child, renderVars
  <2>3. /\ answers' \in Seq(Kinds) /\ Len(answers') = Len(answers) + 1
        /\ answers'[Len(answers')] = kind
        /\ Len(answers) > 0 => answers'[1] = answers[1]
    BY <2>1, <1>3
  <2>4. pipe' \in Categories /\ (pipe' = "ok" <=> kind = "snapshot")
    BY <2>1, Reported
  <2>5. TypeOK' /\ child'.at = "sent"
    BY <2>2, <2>3, <2>4 DEF TypeOK
  <2>6. Len(answers) <= 1 /\ (Len(answers) > 0 => answers[1] \in Retryable) /\ fetched # "ok"
    BY <2>2 DEF FetchInv
  <2>7. FetchInv'
    BY <2>2, <2>3, <2>4, <2>5, <2>6, <1>1, <1>3 DEF FetchInv
  <2> QED
    BY <2>5, <2>7, <1>2
<1> QED
  BY <1>4, <1>5, <1>6, <1>7

-----------------------------------------------------------------------------
(* Rendering.  Its steps leave the fetch, which is over, alone.             *)

LEMMA RenderInvStep ==
    ASSUME IInv, pc \notin Waiting, pc' \notin Waiting, UNCHANGED <<provider, fetchVars>>,
           RenderInv', TypeOK'
    PROVE  IInv'
BY FetchKept DEF IInv

\* What stays while the provider in turn stays.
LEMMA VoiceKept ==
    ASSUME IInv, UNCHANGED <<provider, turn>>
    PROVE  /\ Voices' = Voices /\ Voice' = Voice /\ Voice \in Names
           /\ turn \in 1..Len(Voices)
BY SomeVoice DEF IInv, TypeOK, RenderInv, Voices, Voice

\* A tool starts, writes and ends.
LEMMA ToolInv ==
    ASSUME IInv, StartTool \/ Speak \/ Encode \/ ToolExits \/ ToolTimeout
    PROVE  IInv'
<1> USE DEF IInv
<1>1. /\ pc \in {"speech", "encode"} /\ pc' = pc
      /\ UNCHANGED <<provider, fetchVars, turn, output>>
  BY DEF StartTool, Speak, Encode, ToolExits, ToolTimeout, RenderInv
<1>2. /\ Voices' = Voices /\ Voice' = Voice /\ Voice \in Names
      /\ turn \in 1..Len(Voices)
  BY <1>1, VoiceKept
<1>3. CASE StartTool
  <2>1. tool' = "running" /\ UNCHANGED <<audio, video>>
    BY <1>3 DEF StartTool
  <2>2. TypeOK' /\ RenderInv'
    BY <2>1, <1>1, <1>2 DEF TypeOK, RenderInv, fetchVars
  <2> QED
    BY <2>2, <1>1, RenderInvStep DEF Waiting
<1>4. CASE Speak
  <2>1. PICK has \in {"part", "whole", "bad"} : audio' = [by |-> Voice, has |-> has]
    BY <1>4 DEF Speak, Voice
  <2>2. pc = "speech" /\ tool = "running" /\ UNCHANGED <<tool, video>>
    BY <1>4 DEF Speak
  <2>3. audio' \in Content /\ audio'.by = Voice
    BY <2>1, <1>2, Contents
  <2>4. TypeOK'
    BY <2>2, <2>3, <1>1 DEF TypeOK, fetchVars
  <2>5. RenderInv'
    BY <2>2, <2>3, <1>1, <1>2 DEF RenderInv
  <2> QED
    BY <2>4, <2>5, <1>1, RenderInvStep DEF Waiting
<1>5. CASE Encode
  <2>1. /\ pc = "encode" /\ tool = "running" /\ UNCHANGED <<tool, audio>>
        /\ video' \in {[audio EXCEPT !.has = "part"], audio}
    BY <1>5 DEF Encode
  <2>2. audio = [by |-> Voice, has |-> "whole"]
    BY <2>1 DEF RenderInv
  <2>3. video' \in Content
    <3>1. [audio EXCEPT !.has = "part"] = [by |-> Voice, has |-> "part"]
      BY <2>2
    <3> QED
      BY <3>1, <2>1, <2>2, <1>2, Contents
  <2>4. TypeOK'
    BY <2>1, <2>3, <1>1 DEF TypeOK, fetchVars
  <2>5. RenderInv'
    BY <2>1, <1>1, <1>2 DEF RenderInv
  <2> QED
    BY <2>4, <2>5, <1>1, RenderInvStep DEF Waiting
<1>6. CASE ToolExits \/ ToolTimeout
  <2>1. /\ tool' \in {"exited", "failed"} /\ UNCHANGED <<audio, video>>
        /\ tool' = "exited" => Written
    BY <1>6 DEF ToolExits, ToolTimeout
  <2>2. TypeOK'
    BY <2>1, <1>1 DEF TypeOK, fetchVars
  <2>3. ASSUME pc = "speech" PROVE RenderInv'
    <3>1. tool' = "exited" => audio.has # "part"
      <4> SUFFICES ASSUME tool' = "exited", audio.has = "part" PROVE FALSE
        OBVIOUS
      <4>1. audio # Nothing /\ audio \in Content
        BY Contents DEF TypeOK
      <4>2. audio.by = Voice
        BY <4>1 DEF RenderInv
      <4>3. audio = [by |-> Voice, has |-> "part"]
        BY <4>1, <4>2, Contents
      <4> QED
        BY <4>3, <2>1, <2>3 DEF Written, Voice
    <3> QED
      BY <3>1, <2>1, <2>3, <1>1, <1>2 DEF RenderInv
  <2>4. ASSUME pc = "encode" PROVE RenderInv'
    <3>1. tool' = "exited" => video \in {Nothing, audio}
      BY <2>1, <2>4 DEF Written
    <3> QED
      BY <3>1, <2>1, <2>4, <1>1, <1>2 DEF RenderInv
  <2>5. RenderInv'
    BY <2>3, <2>4, <1>1
  <2> QED
    BY <2>2, <2>5, <1>1, RenderInvStep DEF Waiting
<1> QED
  BY <1>3, <1>4, <1>5, <1>6

\* Speech is accepted, or the next provider is asked.
LEMMA SpeechInv ==
    ASSUME IInv, Spoken \/ NextVoice
    PROVE  IInv'
<1> USE DEF IInv
<1>1. /\ pc = "speech" /\ UNCHANGED <<provider, fetchVars, video, output>>
      /\ video = Nothing /\ output = Nothing
  BY DEF Spoken, NextVoice, NotSpoken, RenderInv
<1>2. CASE Spoken
  <2>1. /\ tool = "exited" /\ Usable /\ pc' = "draw" /\ tool' = "none"
        /\ UNCHANGED <<turn, audio>>
    BY <1>2 DEF Spoken
  <2>2. /\ Voices' = Voices /\ Voice' = Voice /\ turn \in 1..Len(Voices)
    BY <1>1, <2>1, VoiceKept
  <2>3. audio = [by |-> Voice, has |-> "whole"]
    <3>1. audio.has = "whole" /\ audio \in Content /\ audio # Nothing
      BY <1>1, <2>1, Contents DEF RenderInv, Usable, TypeOK
    <3>2. audio.by = Voice
      BY <3>1 DEF RenderInv
    <3> QED
      BY <3>1, <3>2, Contents
  <2>4. TypeOK'
    BY <1>1, <2>1 DEF TypeOK, fetchVars
  <2>5. RenderInv'
    BY <1>1, <2>1, <2>2, <2>3 DEF RenderInv
  <2> QED
    BY <1>1, <2>1, <2>4, <2>5, RenderInvStep DEF Waiting
<1>3. CASE NextVoice
  <2>1. /\ turn < Len(Voices) /\ turn' = turn + 1 /\ audio' = Nothing
        /\ tool' = "none" /\ pc' = pc
    BY <1>3 DEF NextVoice, NotSpoken
  <2>2. Voices' = Voices
    BY <1>1 DEF Voices
  <2>3. PICK n \in 1..3 : n = Len(Voices) /\ turn \in 1..n
    BY SomeVoice DEF TypeOK, RenderInv
  <2>4. turn' \in 1..n /\ turn' \in 1..3
    BY <2>1, <2>3
  <2>5. TypeOK'
    BY <1>1, <2>1, <2>4, Contents DEF TypeOK, fetchVars
  <2>6. RenderInv'
    BY <1>1, <2>1, <2>2, <2>3, <2>4 DEF RenderInv
  <2> QED
    BY <1>1, <2>1, <2>5, <2>6, RenderInvStep DEF Waiting
<1> QED
  BY <1>2, <1>3

\* The frames are drawn, or the video is complete.
LEMMA VideoInv ==
    ASSUME IInv, Draw \/ Encoded
    PROVE  IInv'
<1> USE DEF IInv
<1>1. /\ UNCHANGED <<provider, fetchVars, turn, audio, video, output>>
      /\ \/ pc = "draw" /\ pc' = "encode" /\ tool' = tool
         \/ pc = "encode" /\ pc' = "replace" /\ tool' = "none" /\ tool = "exited" /\ video # Nothing
  BY DEF Draw, Encoded, renderVars
<1>2. /\ Voices' = Voices /\ Voice' = Voice /\ turn \in 1..Len(Voices)
  BY <1>1, VoiceKept
<1>3. TypeOK'
  BY <1>1 DEF TypeOK, fetchVars, Ending, Waiting
<1>4. RenderInv'
  BY <1>1, <1>2 DEF RenderInv
<1> QED
  BY <1>1, <1>3, <1>4, RenderInvStep DEF Waiting

\* Rendering ends, one way or the other, and the worker goes on.
LEMMA EndsInv ==
    ASSUME IInv, Mute \/ DrawFails \/ NotEncoded \/ Replace \/ Done
    PROVE  IInv'
<1> USE DEF IInv
<1>1. /\ pc \notin Waiting /\ pc' \in {"idle", "rendered", "failed"}
      /\ UNCHANGED <<provider, fetchVars, turn>>
      /\ audio' = Nothing /\ video' = Nothing /\ tool' = "none"
  BY DEF Mute, NotSpoken, DrawFails, NotEncoded, Replace, Done, Ends, Ending, renderVars, RenderInv,
         Waiting
<1>2. /\ Voices' = Voices /\ Voice' = Voice /\ Voice \in Names /\ turn \in 1..Len(Voices)
  BY <1>1, VoiceKept
<1>3. output' \in {Nothing, [by |-> Voice, has |-> "whole"]}
      /\ (pc' = "failed" => output' = Nothing)
  <2>1. CASE Replace
    <3>1. output' = video /\ video = audio /\ audio = [by |-> Voice, has |-> "whole"]
          /\ pc' = "rendered"
      BY <2>1 DEF Replace, RenderInv, Ends
    <3> QED
      BY <3>1
  <2>2. CASE Mute \/ DrawFails \/ NotEncoded
    <3>1. output = Nothing /\ output' = output
      BY <2>2 DEF Mute, NotSpoken, DrawFails, NotEncoded, RenderInv
    <3> QED
      BY <3>1
  <2>3. CASE Done
    <3>1. output' = output /\ pc' = "idle"
      BY <2>3 DEF Done, renderVars
    <3> QED
      BY <3>1 DEF RenderInv
  <2> QED
    BY <2>1, <2>2, <2>3
<1>4. TypeOK'
  <2>1. output' \in Content
    BY <1>2, <1>3, Contents
  <2> QED
    BY <2>1, <1>1, Contents DEF TypeOK, fetchVars, Ending
<1>5. RenderInv'
  BY <1>1, <1>2, <1>3 DEF RenderInv
<1> QED
  BY <1>1, <1>4, <1>5, RenderInvStep DEF Waiting

-----------------------------------------------------------------------------
\* The initial states.
LEMMA InitInv == Init => IInv
<1> SUFFICES ASSUME Init PROVE IInv
  OBVIOUS
<1>1. TypeOK
  BY Deadlines, Contents DEF Init, TypeOK
<1>2. FetchInv
  <2>1. answers = <<>> /\ Len(<<>>) = 0
    BY DEF Init
  <2> QED
    BY <2>1 DEF Init, FetchInv, Idling
<1>3. RenderInv
  BY <1>1, SomeVoice DEF Init, RenderInv, TypeOK
<1> QED
  BY <1>1, <1>2, <1>3 DEF IInv

\* Next, by its disjuncts.
LEMMA NextInv == IInv /\ [Next]_vars => IInv'
<1> SUFFICES ASSUME IInv, [Next]_vars PROVE IInv'
  OBVIOUS
<1>1. CASE UNCHANGED vars
  BY <1>1 DEF vars, fetchVars, renderVars, IInv, TypeOK, FetchInv, RenderInv, Voice, Voices
<1>2. CASE StartFetch
  BY <1>2, StartFetchInv
<1>3. CASE Tick \/ Receive \/ ReceiveNothing \/ GiveUp \/ Reap \/ Terminate \/ Kill
  BY <1>3, WaitInv
<1>4. CASE Started \/ Open \/ TooLate \/ Retry \/ Send \/ Exit
  BY <1>4, ChildInv
<1>5. CASE StartTool \/ Speak \/ Encode \/ ToolExits \/ ToolTimeout
  BY <1>5, ToolInv
<1>6. CASE Spoken \/ NextVoice
  BY <1>6, SpeechInv
<1>7. CASE Draw \/ Encoded
  BY <1>7, VideoInv
<1>8. CASE Mute \/ DrawFails \/ NotEncoded \/ Replace \/ Done
  BY <1>8, EndsInv
<1> QED
  BY <1>1, <1>2, <1>3, <1>4, <1>5, <1>6, <1>7, <1>8 DEF Next, Worker

\* The strengthening holds initially and after every step of the worker, of the child
\* that fetches and of the tools.
THEOREM Invariant == Spec => []IInv
<1>1. Init => IInv
  BY InitInv
<1>2. IInv /\ [Next]_vars => IInv'
  BY NextInv
<1> QED
  BY <1>1, <1>2, PTL DEF Spec

\* Every variable keeps its type; in particular turn never leaves the providers.
THEOREM TypeCorrect == Spec => []TypeOK
<1>1. IInv => TypeOK
  BY DEF IInv
<1> QED
  BY <1>1, Invariant, PTL

\* The fetch asks at most twice, and only an answer that may pass makes it ask again;
\* a report is rendered from the snapshot of its last answer, the child being gone.
THEOREM Bounded == Spec => []FetchBounded
<1>1. IInv => FetchBounded
  <2> SUFFICES ASSUME IInv PROVE FetchBounded
    OBVIOUS
  <2>1. answers \in Seq(Kinds) /\ (Len(answers) > 0 => answers # <<>>)
    BY DEF IInv, TypeOK
  <2> QED
    BY <2>1 DEF IInv, FetchInv, FetchBounded, Retryable, Idling
<1> QED
  BY <1>1, Invariant, PTL

\* A finished video is whole and speaks with the voice of the provider in turn.
THEOREM Voiced == Spec => []OneVoice
<1>1. IInv => OneVoice
  BY DEF IInv, RenderInv, OneVoice, Voice
<1> QED
  BY <1>1, Invariant, PTL
=============================================================================
