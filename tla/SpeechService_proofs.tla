------------------------ MODULE SpeechService_proofs ------------------------
(***************************************************************************)
(* Theorems about SpeechService, for any finite set of clients and any     *)
(* bounds: its counters, its lock and the order of what it speaks.         *)
(***************************************************************************)
EXTENDS SpeechService, FiniteSetTheorems, SequenceTheorems, TLAPS

-----------------------------------------------------------------------------
(* The inductive invariant.                                                 *)

Active(r) == r.h \in {"waiting", "unwinding"}

\* May more text come?
More(r) == r.rx \in {"events", "compat"}

(* A request is one sentence, and nothing is received for it.               *)
RequestFine(r) ==
    /\ ~More(r)
    /\ r.tx \notin {"get", "write", "finish"}
    /\ r.said = 1 /\ r.now = 1
    /\ r.tx \in {"prepare", "lock", "infer"} => Len(r.spoken) = 0
    /\ r.tx = "done" => Len(r.spoken) = 1

(* The sentences that a stream has begun to speak.                          *)
Begun(r) == IF r.tx \in {"lock", "infer"} THEN Len(r.spoken) + 1 ELSE Len(r.spoken)

(* What has been said and not begun is in the queue, in order, and Stop     *)
(* follows it once nothing more can be said.                                *)
Upcoming(sentences, said, begun, more) ==
    /\ begun <= said
    /\ \A i \in 1..said - begun : i <= Len(sentences) /\ sentences[i] = begun + i
    /\ \/ Len(sentences) = said - begun
       \/ /\ Len(sentences) = said - begun + 1
          /\ sentences[said - begun + 1] = Stop
          /\ ~more

Pending(r, begun) == Upcoming(r.sentences, r.said, begun, More(r))

StreamFine(r) ==
    /\ r.tx \in {"lock", "infer"} => r.now = Len(r.spoken) + 1
    /\ r.tx \in {"prepare", "get", "lock", "infer", "write"} => Pending(r, Begun(r))
    /\ r.tx \in {"finish", "done"} =>
          Len(r.spoken) = r.said /\ ~More(r)

Fine(r) ==
    /\ Active(r) <=> r.kind # "none"
    /\ ~Active(r) => r.tx = "none"
    /\ r.attempt # None => r.tx = "infer"
    /\ r.ok => r.tx = "done"
    /\ \A i \in 1..Len(r.spoken) : r.spoken[i] = i
    /\ Len(r.spoken) <= r.said
    /\ r.kind = "request" => RequestFine(r)
    /\ r.kind = "stream" => StreamFine(r)

CallInv ==
    /\ client \in [Clients -> Client]
    /\ \A c \in Clients : Fine(client[c])

Has(s, d) == \E i \in 1..Len(s) : s[i] = d
Once(s) == \A i, j \in 1..Len(s) : s[i] = s[j] => i = j

Holder(r) == r.tx \in {"infer", "reap"}
Waiter(r) == r.tx = "lock"

(* The lock is with the one that works or reaps, and the queue holds those  *)
(* that wait for it, once each.                                             *)
LockInv ==
    /\ serial \in Clients \cup {None}
    /\ queue \in Seq(Clients)
    /\ \A c \in Clients : serial = c <=> Holder(client[c])
    /\ \A c \in Clients : Has(queue, c) <=> Waiter(client[c])
    /\ Once(queue)

AdmittedInv ==
    /\ admitted \in 0..MaxAdmitted
    /\ admitted = Cardinality({c \in Clients : InCall(c)})

ConnectionsInv ==
    /\ connections \in 0..MaxConnections
    /\ connections = Cardinality({c \in Clients : client[c].h # "closed"})

EndpointInv ==
    /\ serving \in Attempts \cup {None}
    /\ reloading \in BOOLEAN
    /\ reply \in [Attempts -> {"none", "pending", "busy", "failed"} \cup Attempts]

IInv == CallInv /\ LockInv /\ AdmittedInv /\ ConnectionsInv /\ EndpointInv

-----------------------------------------------------------------------------
(* The fields of a call, and what each change of them leaves alone.         *)

LEMMA Fields ==
    ASSUME NEW r \in Client
    PROVE  /\ r.h \in Handler /\ r.kind \in Kind /\ r.rx \in Receiving /\ r.tx \in Working
           /\ r.attempt \in Attempts \cup {None} /\ r.sentences \in Seq(Text)
           /\ r.now \in Text /\ r.said \in Text /\ r.spoken \in Seq(Text) /\ r.ok \in BOOLEAN
BY DEF Client

\* What the assumptions say of the bounds and of the numbers of sentences.
LEMMA Constants ==
    /\ MaxConnections \in Nat \ {0} /\ MaxAdmitted \in Nat \ {0} /\ MaxSentences \in Nat \ {0}
    /\ Text \subseteq Nat /\ 0 \in Text /\ 1 \in Text /\ Stop \in Text /\ Stop = 0
    /\ \A n \in Text : n < MaxSentences => n + 1 \in Text
BY ServiceAssumption DEF Text, Stop

-----------------------------------------------------------------------------
(* The queue of sentences.                                                  *)

LEMMA NextUpcoming ==
    ASSUME NEW s \in Seq(Nat), s # <<>>, NEW said \in Nat, NEW begun \in Nat, NEW more \in BOOLEAN,
           Upcoming(s, said, begun, more)
    PROVE  IF Head(s) = Stop THEN begun = said /\ ~more
           ELSE Head(s) = begun + 1 /\ Upcoming(Tail(s), said, begun + 1, more)
<1> DEFINE rest == Tail(s)
<1>1. /\ Len(s) \in Nat \ {0} /\ Head(s) = s[1]
      /\ Len(rest) = Len(s) - 1
      /\ \A i \in 1..Len(s) - 1 : rest[i] = s[i + 1]
  BY HeadTailProperties, EmptySeq
<1> HIDE DEF rest
<1>2. CASE begun = said
  BY <1>1, <1>2 DEF Upcoming
<1>3. CASE begun # said
  <2>1. begun + 1 <= said /\ s[1] = begun + 1
    BY <1>3 DEF Upcoming
  <2>2. \A i \in 1..said - (begun + 1) : i <= Len(rest) /\ rest[i] = begun + 1 + i
    <3> SUFFICES ASSUME NEW i \in 1..said - (begun + 1)
                 PROVE  i <= Len(rest) /\ rest[i] = begun + 1 + i
      OBVIOUS
    <3>1. i + 1 \in 1..said - begun
      OBVIOUS
    <3>2. i + 1 <= Len(s) /\ s[i + 1] = begun + (i + 1)
      BY <3>1 DEF Upcoming
    <3> QED
      BY <3>2, <1>1
  <2>3. Len(s) = said - begun => Len(rest) = said - (begun + 1)
    BY <1>1
  <2>4. Len(s) = said - begun + 1 =>
           /\ Len(rest) = said - (begun + 1) + 1
           /\ rest[said - (begun + 1) + 1] = s[said - begun + 1]
    <3> SUFFICES ASSUME Len(s) = said - begun + 1
                 PROVE  /\ Len(rest) = said - (begun + 1) + 1
                        /\ rest[said - (begun + 1) + 1] = s[said - begun + 1]
      OBVIOUS
    <3>1. said - begun \in 1..Len(s) - 1 /\ said - (begun + 1) + 1 = said - begun
      BY <2>1
    <3> QED
      BY <3>1, <1>1
  <2>5. Upcoming(rest, said, begun + 1, more)
    BY <2>1, <2>2, <2>3, <2>4 DEF Upcoming
  <2> QED
    BY <2>1, <2>5, <1>1 DEF rest, Stop
<1> QED
  BY <1>2, <1>3

\* A sentence is received.
LEMMA MoreUpcoming ==
    ASSUME NEW s \in Seq(Nat), NEW said \in Nat, NEW begun \in Nat,
           Upcoming(s, said, begun, TRUE)
    PROVE  Upcoming(Append(s, said + 1), said + 1, begun, TRUE)
<1> DEFINE longer == Append(s, said + 1)
<1>1. /\ Len(s) \in Nat /\ Len(longer) = Len(s) + 1
      /\ \A i \in 1..Len(s) : longer[i] = s[i]
      /\ longer[Len(s) + 1] = said + 1
  BY AppendProperties, LenProperties
<1> HIDE DEF longer
<1>2. Len(s) = said - begun /\ begun <= said
  BY DEF Upcoming
<1>3. \A i \in 1..said - begun : s[i] = begun + i
  BY DEF Upcoming
<1>4. ASSUME NEW i \in 1..said + 1 - begun PROVE i <= Len(longer) /\ longer[i] = begun + i
  <2>1. CASE i = Len(s) + 1
    BY <2>1, <1>1, <1>2
  <2>2. CASE i \in 1..Len(s)
    BY <2>2, <1>1, <1>2, <1>3
  <2> QED
    BY <2>1, <2>2, <1>2
<1>5. Upcoming(longer, said + 1, begun, TRUE)
  BY <1>1, <1>2, <1>4 DEF Upcoming
<1> QED
  BY <1>5 DEF longer

\* The text ends.
LEMMA StopUpcoming ==
    ASSUME NEW s \in Seq(Nat), NEW said \in Nat, NEW begun \in Nat,
           Upcoming(s, said, begun, TRUE)
    PROVE  Upcoming(Append(s, Stop), said, begun, FALSE)
<1> DEFINE longer == Append(s, Stop)
<1>1. /\ Len(s) \in Nat /\ Len(longer) = Len(s) + 1
      /\ \A i \in 1..Len(s) : longer[i] = s[i]
      /\ longer[Len(s) + 1] = Stop
  BY AppendProperties, LenProperties DEF Stop
<1> HIDE DEF longer
<1>2. Len(s) = said - begun /\ begun <= said
  BY DEF Upcoming
<1>3. \A i \in 1..said - begun : i <= Len(longer) /\ longer[i] = begun + i
  BY <1>1, <1>2 DEF Upcoming
<1>4. Upcoming(longer, said, begun, FALSE)
  BY <1>1, <1>2, <1>3 DEF Upcoming
<1> QED
  BY <1>4 DEF longer

\* What stop adds when some of the text is left: a sentence, and Stop.
LEMMA BothAppended ==
    ASSUME NEW S, NEW s \in Seq(S), NEW a \in S, NEW b \in S
    PROVE  s \o <<a, b>> = Append(Append(s, a), b) /\ s \o <<a, b>> \in Seq(S)
<1>1. s \o <<a, b>> = Append(Append(s, a), b)
  OBVIOUS
<1>2. Append(Append(s, a), b) \in Seq(S)
  BY AppendProperties
<1> QED
  BY <1>1, <1>2

-----------------------------------------------------------------------------
\* The fields of a call of which one is set.
LEMMA SetTx ==
    ASSUME NEW r \in Client, NEW tx \in Working, NEW new, new = [r EXCEPT !.tx = tx]
    PROVE  /\ new \in Client
           /\ new.tx = tx
           /\ new.h = r.h /\ new.kind = r.kind /\ new.rx = r.rx /\ new.attempt = r.attempt
           /\ new.sentences = r.sentences /\ new.now = r.now /\ new.said = r.said
           /\ new.spoken = r.spoken /\ new.ok = r.ok
BY DEF Client

LEMMA SetAttempt ==
    ASSUME NEW r \in Client, NEW a \in Attempts \cup {None},
           NEW new, new = [r EXCEPT !.attempt = a]
    PROVE  /\ new \in Client
           /\ new.attempt = a
           /\ new.h = r.h /\ new.kind = r.kind /\ new.rx = r.rx /\ new.tx = r.tx
           /\ new.sentences = r.sentences /\ new.now = r.now /\ new.said = r.said
           /\ new.spoken = r.spoken /\ new.ok = r.ok
BY DEF Client

LEMMA SetRx ==
    ASSUME NEW r \in Client, NEW rx \in Receiving, NEW new, new = [r EXCEPT !.rx = rx]
    PROVE  /\ new \in Client
           /\ new.rx = rx
           /\ new.h = r.h /\ new.kind = r.kind /\ new.tx = r.tx /\ new.attempt = r.attempt
           /\ new.sentences = r.sentences /\ new.now = r.now /\ new.said = r.said
           /\ new.spoken = r.spoken /\ new.ok = r.ok
BY DEF Client

\* Between calls.
LEMMA IdleFields ==
    ASSUME NEW h \in {"closed", "reading", "replying"}, NEW new,
           new = [h |-> h, kind |-> "none", rx |-> "none", tx |-> "none", attempt |-> None,
                  sentences |-> <<>>, now |-> Stop, said |-> 0, spoken |-> <<>>, ok |-> FALSE]
    PROVE  new \in Client /\ Fine(new) /\ new.h = h /\ new.tx = "none"
<1>1. /\ h \in Handler /\ "none" \in Kind /\ "none" \in Receiving /\ "none" \in Working
      /\ None \in Attempts \cup {None} /\ <<>> \in Seq(Text) /\ Stop \in Text /\ 0 \in Text
  BY Constants DEF Handler, Kind, Receiving, Working
<1>2. new \in Client
  BY <1>1 DEF Client
<1>3. Fine(new)
  BY DEF Fine, Active
<1> QED
  BY <1>2, <1>3

LEMMA Idle ==
    ASSUME NEW h \in {"closed", "reading", "replying"}, NEW new,
           new = [NoCall EXCEPT !.h = h]
    PROVE  new \in Client /\ Fine(new) /\ new.h = h /\ new.tx = "none"
<1>1. new = [h |-> h, kind |-> "none", rx |-> "none", tx |-> "none", attempt |-> None,
             sentences |-> <<>>, now |-> Stop, said |-> 0, spoken |-> <<>>, ok |-> FALSE]
  BY DEF NoCall
<1> QED
  BY <1>1, IdleFields

\* A connection that is over.
LEMMA Closed == NoCall \in Client /\ Fine(NoCall) /\ NoCall.h = "closed" /\ NoCall.tx = "none"
<1>1. NoCall = [h |-> "closed", kind |-> "none", rx |-> "none", tx |-> "none", attempt |-> None,
                sentences |-> <<>>, now |-> Stop, said |-> 0, spoken |-> <<>>, ok |-> FALSE]
  BY DEF NoCall
<1> QED
  BY <1>1, IdleFields

\* A call begins.
LEMMA Started ==
    ASSUME NEW kind \in {"request", "stream"}, NEW new, new = Start(kind)
    PROVE  new \in Client /\ Fine(new) /\ new.h = "waiting" /\ new.tx = "prepare"
<1>1. /\ "waiting" \in Handler /\ {"request", "stream"} \subseteq Kind
      /\ {"events", "watch"} \subseteq Receiving /\ "prepare" \in Working
      /\ None \in Attempts \cup {None} /\ <<>> \in Seq(Text)
      /\ Stop \in Text /\ 0 \in Text /\ 1 \in Text /\ Stop = 0
  BY Constants DEF Handler, Kind, Receiving, Working
<1>2. new = [h |-> "waiting", kind |-> kind, rx |-> IF kind = "stream" THEN "events" ELSE "watch",
             tx |-> "prepare", attempt |-> None, sentences |-> <<>>,
             now |-> IF kind = "stream" THEN Stop ELSE 1,
             said |-> IF kind = "stream" THEN 0 ELSE 1, spoken |-> <<>>, ok |-> FALSE]
  BY DEF Start, NoCall
<1>3. new \in Client
  BY <1>1, <1>2 DEF Client
<1>4. CASE kind = "request"
  <2>1. RequestFine(new)
    BY <1>2, <1>4 DEF RequestFine, More
  <2> QED
    BY <2>1, <1>2, <1>3, <1>4 DEF Fine, Active
<1>5. CASE kind = "stream"
  <2>1. Begun(new) = 0 /\ Pending(new, 0)
    BY <1>2, <1>5 DEF Begun, Pending, Upcoming, More
  <2>2. StreamFine(new)
    BY <2>1, <1>2, <1>5 DEF StreamFine, More
  <2> QED
    BY <2>2, <1>2, <1>3, <1>5 DEF Fine, Active
<1> QED
  BY <1>4, <1>5

-----------------------------------------------------------------------------
(* What every step of a call preserves.                                     *)

(* The work is given up, or waits for its killed child.                     *)
Stops(r, new, tx) ==
    /\ new \in Client
    /\ new.tx = tx /\ new.attempt = None
    /\ new.h = r.h /\ new.kind = r.kind /\ new.rx = r.rx
    /\ new.now = r.now /\ new.said = r.said
    /\ new.spoken = r.spoken /\ new.ok = r.ok

LEMMA GivenUp ==
    ASSUME NEW r, Fine(r), Active(r), r.tx \notin {"none", "done"},
           NEW tx \in {"failed", "cancelled", "reap"}, NEW new, Stops(r, new, tx)
    PROVE  Fine(new)
<1>1. ~r.ok
  BY DEF Fine
<1>2. r.kind = "request" => RequestFine(new)
  BY DEF Fine, RequestFine, More, Stops
<1>3. StreamFine(new)
  BY DEF StreamFine, More, Stops
<1> QED
  BY <1>1, <1>2, <1>3 DEF Fine, Active, Stops

\* A stream goes on to its next sentence, or ends after its last.
LEMMA Proceeds ==
    ASSUME NEW r \in Client, Fine(r), Active(r),
           NEW tx, \/ r.tx = "prepare" /\ r.kind = "stream" /\ tx = "get"
                   \/ r.tx = "write" /\ tx = "get"
                   \/ r.tx = "finish" /\ tx = "done",
           NEW new, new = [r EXCEPT !.tx = tx]
    PROVE  new \in Client /\ Fine(new) /\ new.h = r.h /\ new.tx = tx
<1>1. tx \in Working
  BY DEF Working
<1>2. /\ new \in Client
      /\ new.tx = tx
      /\ new.h = r.h /\ new.kind = r.kind /\ new.rx = r.rx /\ new.attempt = r.attempt
      /\ new.sentences = r.sentences /\ new.now = r.now /\ new.said = r.said
      /\ new.spoken = r.spoken /\ new.ok = r.ok
  BY <1>1, SetTx
<1>3. r.kind = "stream"
  BY Fields DEF Fine, RequestFine, Kind, More
<1>4. StreamFine(r) /\ r.attempt = None /\ ~r.ok
  BY <1>3 DEF Fine
<1>5. tx = "get" => Pending(new, Begun(new))
  BY <1>2, <1>4 DEF StreamFine, Pending, Begun, More
<1>6. StreamFine(new)
  BY <1>2, <1>4, <1>5 DEF StreamFine, More
<1> QED
  BY <1>2, <1>3, <1>4, <1>6 DEF Fine, Active

\* A request waits for the lock.
LEMMA Queued ==
    ASSUME NEW r \in Client, Fine(r), Active(r), r.tx = "prepare", r.kind # "stream",
           NEW new, new = [r EXCEPT !.tx = "lock"]
    PROVE  new \in Client /\ Fine(new) /\ new.h = r.h /\ new.tx = "lock"
<1>1. "lock" \in Working
  BY DEF Working
<1>2. /\ new \in Client
      /\ new.tx = "lock"
      /\ new.h = r.h /\ new.kind = r.kind /\ new.rx = r.rx /\ new.attempt = r.attempt
      /\ new.now = r.now /\ new.said = r.said
      /\ new.spoken = r.spoken /\ new.ok = r.ok
  BY <1>1, SetTx
<1>3. r.kind = "request"
  BY Fields DEF Fine, Kind
<1>4. RequestFine(new) /\ r.attempt = None /\ ~r.ok
  BY <1>2, <1>3 DEF Fine, RequestFine, More
<1> QED
  BY <1>2, <1>3, <1>4 DEF Fine, Active

\* The lock is acquired, and an attempt is made or has ended.
LEMMA Infers ==
    ASSUME NEW r \in Client, Fine(r), r.tx \in {"lock", "infer"},
           NEW a \in Attempts \cup {None}, NEW new,
           \/ a = r.attempt /\ new = [r EXCEPT !.tx = "infer"]
           \/ r.tx = "infer" /\ new = [r EXCEPT !.attempt = a]
    PROVE  new \in Client /\ Fine(new) /\ new.h = r.h /\ new.tx = "infer"
<1>1. "infer" \in Working
  BY DEF Working
<1>2. /\ new \in Client
      /\ new.tx = "infer"
      /\ new.h = r.h /\ new.kind = r.kind /\ new.rx = r.rx
      /\ new.sentences = r.sentences /\ new.now = r.now /\ new.said = r.said
      /\ new.spoken = r.spoken /\ new.ok = r.ok
  BY <1>1, SetTx, SetAttempt
<1>3. ~r.ok /\ Active(r)
  BY DEF Fine
<1>4. r.kind = "request" => RequestFine(new)
  BY <1>2 DEF Fine, RequestFine, More
<1>5. r.kind = "stream" => Pending(new, Begun(new))
  BY <1>2 DEF Fine, StreamFine, Pending, Begun, More, Upcoming
<1>6. r.kind = "stream" => StreamFine(new)
  BY <1>2, <1>5 DEF Fine, StreamFine
<1> QED
  BY <1>2, <1>3, <1>4, <1>6 DEF Fine, Active

\* Audio has come.
LEMMA Spoken ==
    ASSUME NEW r \in Client, Fine(r), r.tx = "infer",
           NEW new \in Client, new.attempt = None, new.spoken = Append(r.spoken, r.now),
           new.tx = (IF r.kind = "stream" THEN "write" ELSE "done"),
           new.h = r.h, new.kind = r.kind, new.rx = r.rx, new.sentences = r.sentences,
           new.now = r.now, new.said = r.said, new.ok = r.ok
    PROVE  Fine(new)
<1> DEFINE n == Len(r.spoken)
<1>1. /\ r.now \in Text /\ r.said \in Text /\ r.spoken \in Seq(Text) /\ r.kind \in Kind
      /\ r.now \in Nat /\ r.said \in Nat
  BY Fields, Constants
<1>2. /\ n \in Nat
      /\ Len(new.spoken) = n + 1
      /\ \A i \in 1..n : new.spoken[i] = r.spoken[i]
      /\ new.spoken[n + 1] = r.now
  BY <1>1, AppendProperties, LenProperties
<1>3. Active(r) /\ ~r.ok /\ r.kind # "none"
  BY DEF Fine
<1>4. r.now = n + 1 /\ n + 1 <= r.said
  <2>1. CASE r.kind = "request"
    BY <2>1 DEF Fine, RequestFine, More
  <2>2. CASE r.kind = "stream"
    BY <2>2, <1>1, <1>2 DEF Fine, StreamFine, Pending, Begun, More, Upcoming
  <2> QED
    BY <2>1, <2>2, <1>1, <1>3 DEF Kind
<1>5. /\ \A i \in 1..Len(new.spoken) : new.spoken[i] = i
      /\ Len(new.spoken) <= new.said
  BY <1>1, <1>2, <1>4 DEF Fine
<1>6. r.kind = "request" => RequestFine(new)
  BY <1>2 DEF Fine, RequestFine, More
<1>7. r.kind = "stream" => Pending(new, n + 1)
  BY DEF Fine, StreamFine, Pending, Begun, More, Upcoming
<1>8. r.kind = "stream" => StreamFine(new)
  BY <1>2, <1>7 DEF StreamFine, Begun
<1> QED
  BY <1>3, <1>5, <1>6, <1>8 DEF Fine, Active

\* A stream takes its next sentence, or Stop, from its queue.
LEMMA Taken ==
    ASSUME NEW r \in Client, Fine(r), Active(r), r.tx = "get", r.sentences # <<>>,
           NEW tx, tx = (IF Head(r.sentences) = Stop THEN "finish" ELSE "lock"),
           NEW new, /\ new \in Client
                    /\ new.now = Head(r.sentences) /\ new.sentences = Tail(r.sentences)
                    /\ new.tx = tx
                    /\ new.h = r.h /\ new.kind = r.kind /\ new.rx = r.rx
                    /\ new.attempt = r.attempt /\ new.said = r.said /\ new.spoken = r.spoken
                    /\ new.ok = r.ok
    PROVE  Fine(new)
<1> DEFINE n == Len(r.spoken)
           next == Head(r.sentences)
           rest == Tail(r.sentences)
<1>1. /\ r.said \in Nat /\ r.sentences \in Seq(Nat) /\ n \in Nat
  <2>1. r.sentences \in Seq(Text) /\ Text \subseteq Nat
    BY Fields, Constants
  <2>2. r.sentences \in Seq(Nat)
    BY <2>1, SeqMonotonic
  <2> QED
    BY <2>2, Fields, Constants, LenProperties
<1>2. r.kind = "stream"
  BY Fields DEF Fine, RequestFine, Kind
<1>3. Upcoming(r.sentences, r.said, n, More(r)) /\ r.attempt = None /\ ~r.ok
  BY <1>2 DEF Fine, StreamFine, Begun, Pending
<1>4. More(r) \in BOOLEAN /\ More(new) = More(r)
  BY DEF More
<1>5. IF next = Stop THEN n = r.said /\ ~More(r)
      ELSE next = n + 1 /\ Upcoming(rest, r.said, n + 1, More(r))
  BY <1>1, <1>3, <1>4, NextUpcoming
<1> HIDE DEF n, next, rest
<1>6. CASE next = Stop
  <2>1. StreamFine(new)
    BY <1>4, <1>5, <1>6 DEF StreamFine, n, next
  <2> QED
    BY <2>1, <1>2, <1>3, <1>6 DEF Fine, Active, next
<1>7. CASE next # Stop
  <2>1. new.tx = "lock" /\ Begun(new) = n + 1 /\ Pending(new, n + 1) /\ new.now = n + 1
    BY <1>4, <1>5, <1>7 DEF Begun, Pending, n, next, rest
  <2>2. StreamFine(new)
    BY <2>1 DEF StreamFine, n
  <2> QED
    BY <2>1, <2>2, <1>2, <1>3 DEF Fine, Active
<1> QED
  BY <1>6, <1>7

\* The socket: something that is no part of the text.
LEMMA Noticed ==
    ASSUME NEW r \in Client, Fine(r), Active(r),
           NEW rx, (rx = "compat" /\ r.rx = "events") \/ rx \in {"ended", "cancelled"},
           NEW new, new = [r EXCEPT !.rx = rx]
    PROVE  new \in Client /\ Fine(new) /\ new.h = r.h /\ new.tx = r.tx
<1>1. rx \in Receiving
  BY DEF Receiving
<1>2. /\ new \in Client
      /\ new.rx = rx
      /\ new.h = r.h /\ new.kind = r.kind /\ new.tx = r.tx /\ new.attempt = r.attempt
      /\ new.sentences = r.sentences /\ new.now = r.now /\ new.said = r.said
      /\ new.spoken = r.spoken /\ new.ok = r.ok
  BY <1>1, SetRx
<1>3. More(new) => More(r)
  BY <1>2 DEF More
<1>4. r.kind = "request" => RequestFine(new)
  BY <1>2, <1>3 DEF Fine, RequestFine
<1>5. r.kind = "stream" => StreamFine(new)
  <2> SUFFICES ASSUME r.kind = "stream" PROVE StreamFine(new)
    OBVIOUS
  <2>1. StreamFine(r)
    BY DEF Fine
  <2>2. Begun(new) = Begun(r)
    BY <1>2 DEF Begun
  <2>3. Pending(r, Begun(r)) => Pending(new, Begun(r))
    BY <1>2, <1>3 DEF Pending, Upcoming
  <2> QED
    BY <2>1, <2>2, <2>3, <1>2, <1>3 DEF StreamFine
<1> QED
  BY <1>2, <1>4, <1>5 DEF Fine, Active

\* The socket: a sentence, the end of the text, or both.
LEMMA Received ==
    ASSUME NEW r \in Client, Fine(r), Active(r), More(r),
           NEW new, /\ new \in Client
                    /\ new.h = r.h /\ new.kind = r.kind /\ new.tx = r.tx
                    /\ new.attempt = r.attempt /\ new.now = r.now /\ new.spoken = r.spoken
                    /\ new.ok = r.ok
           , \/ /\ new.said = r.said + 1 /\ new.rx = r.rx
                /\ new.sentences = Append(r.sentences, r.said + 1)
             \/ /\ new.said = r.said /\ new.rx = "watch"
                /\ new.sentences = Append(r.sentences, Stop)
             \/ /\ new.said = r.said + 1 /\ new.rx = "watch"
                /\ new.sentences = Append(Append(r.sentences, r.said + 1), Stop)
    PROVE  Fine(new)
<1>1. /\ r.said \in Nat /\ r.sentences \in Seq(Nat) /\ Len(r.spoken) \in Nat
  <2>1. r.sentences \in Seq(Text) /\ Text \subseteq Nat
    BY Fields, Constants
  <2>2. r.sentences \in Seq(Nat)
    BY <2>1, SeqMonotonic
  <2> QED
    BY <2>2, Fields, Constants, LenProperties
<1>2. r.kind = "stream"
  BY Fields DEF Fine, RequestFine, Active, Kind
<1>3. StreamFine(r) /\ r.tx \notin {"finish", "done"}
  BY <1>2 DEF Fine, StreamFine
<1>4. ASSUME NEW begun \in Nat, Pending(r, begun) PROVE Pending(new, begun)
  <2>1. Upcoming(r.sentences, r.said, begun, TRUE)
    BY <1>4 DEF Pending, Upcoming
  <2>2. CASE /\ new.said = r.said + 1 /\ new.rx = r.rx
             /\ new.sentences = Append(r.sentences, r.said + 1)
    <3>1. Upcoming(new.sentences, new.said, begun, TRUE) /\ More(new)
      BY <2>1, <2>2, <1>1, MoreUpcoming DEF More
    <3> QED
      BY <3>1 DEF Pending, Upcoming
  <2>3. CASE /\ new.said = r.said /\ new.rx = "watch"
             /\ new.sentences = Append(r.sentences, Stop)
    <3>1. Upcoming(new.sentences, new.said, begun, FALSE) /\ ~More(new)
      BY <2>1, <2>3, <1>1, StopUpcoming DEF More
    <3> QED
      BY <3>1 DEF Pending, Upcoming
  <2>4. CASE /\ new.said = r.said + 1 /\ new.rx = "watch"
             /\ new.sentences = Append(Append(r.sentences, r.said + 1), Stop)
    <3> DEFINE longer == Append(r.sentences, r.said + 1)
    <3>1. Upcoming(longer, r.said + 1, begun, TRUE)
      BY <2>1, <1>1, MoreUpcoming
    <3>2. longer \in Seq(Nat) /\ r.said + 1 \in Nat
      BY <1>1, AppendProperties
    <3> HIDE DEF longer
    <3>3. Upcoming(Append(longer, Stop), r.said + 1, begun, FALSE)
      BY <3>1, <3>2, StopUpcoming
    <3>4. new.sentences = Append(longer, Stop) /\ ~More(new)
      BY <2>4 DEF longer, More
    <3> QED
      BY <3>3, <3>4, <2>4 DEF Pending, Upcoming
  <2> QED
    BY <2>2, <2>3, <2>4
<1>5. StreamFine(new)
  <2>1. Begun(new) = Begun(r) /\ Begun(r) \in Nat
    BY <1>1 DEF Begun
  <2> QED
    BY <2>1, <1>3, <1>4 DEF StreamFine
<1>6. Len(r.spoken) <= new.said
  BY <1>1 DEF Fine
<1> QED
  BY <1>2, <1>5, <1>6 DEF Fine, Active

-----------------------------------------------------------------------------
(* The counters.                                                            *)

Others(c) == \A d \in Clients : d # c => client'[d] = client[d]

\* What the counters count is finite.
LEMMA CallsFinite ==
    /\ IsFiniteSet({c \in Clients : InCall(c)})
    /\ Cardinality({c \in Clients : InCall(c)}) \in Nat
    /\ IsFiniteSet({c \in Clients : client[c].h # "closed"})
    /\ Cardinality({c \in Clients : client[c].h # "closed"}) \in Nat
<1>1. /\ {c \in Clients : InCall(c)} \subseteq Clients
      /\ {c \in Clients : client[c].h # "closed"} \subseteq Clients
  OBVIOUS
<1> QED
  BY <1>1, ServiceAssumption, FS_Subset, FS_CardinalityType

\* A step within a call, or outside calls; one that begins a call; one that ends it.
LEMMA AdmittedKept ==
    ASSUME AdmittedInv, NEW c \in Clients, Others(c), UNCHANGED admitted,
           InCall(c) <=> client'[c].h \in {"waiting", "unwinding"}
    PROVE  AdmittedInv'
<1>1. {d \in Clients : InCall(d)}' = {d \in Clients : InCall(d)}
  BY DEF InCall, Others
<1> QED
  BY <1>1 DEF AdmittedInv

LEMMA AdmittedMore ==
    ASSUME AdmittedInv, NEW c \in Clients, Others(c),
           admitted < MaxAdmitted, admitted' = admitted + 1,
           ~InCall(c), client'[c].h \in {"waiting", "unwinding"}
    PROVE  AdmittedInv'
<1> DEFINE Calls == {d \in Clients : InCall(d)}
<1>1. Calls' = Calls \cup {c} /\ c \notin Calls
  BY DEF InCall, Others
<1>2. Cardinality(Calls \cup {c}) = Cardinality(Calls) + 1
  BY <1>1, CallsFinite, FS_AddElement
<1> HIDE DEF Calls
<1>3. admitted' = Cardinality(Calls')
  BY <1>1, <1>2 DEF AdmittedInv, Calls
<1>4. admitted' \in 0..MaxAdmitted
  BY Constants DEF AdmittedInv
<1> QED
  BY <1>3, <1>4 DEF AdmittedInv, Calls

LEMMA AdmittedLess ==
    ASSUME AdmittedInv, NEW c \in Clients, Others(c), admitted' = admitted - 1,
           InCall(c), client'[c].h \notin {"waiting", "unwinding"}
    PROVE  AdmittedInv'
<1> DEFINE Calls == {d \in Clients : InCall(d)}
<1>1. Calls' = Calls \ {c} /\ c \in Calls
  BY DEF InCall, Others
<1>2. /\ Cardinality(Calls \ {c}) = Cardinality(Calls) - 1
      /\ Cardinality(Calls \ {c}) \in Nat
  BY <1>1, CallsFinite, FS_RemoveElement, FS_CardinalityType
<1> HIDE DEF Calls
<1>3. admitted' = Cardinality(Calls') /\ admitted' \in Nat
  BY <1>1, <1>2 DEF AdmittedInv, Calls
<1>4. admitted' \in 0..MaxAdmitted
  BY <1>3, Constants DEF AdmittedInv
<1> QED
  BY <1>3, <1>4 DEF AdmittedInv, Calls

\* The same for connections.
LEMMA ConnectionsKept ==
    ASSUME ConnectionsInv, NEW c \in Clients, Others(c), UNCHANGED connections,
           client[c].h = "closed" <=> client'[c].h = "closed"
    PROVE  ConnectionsInv'
<1>1. {d \in Clients : client[d].h # "closed"}' = {d \in Clients : client[d].h # "closed"}
  BY DEF Others
<1> QED
  BY <1>1 DEF ConnectionsInv

LEMMA ConnectionsMore ==
    ASSUME ConnectionsInv, NEW c \in Clients, Others(c),
           connections < MaxConnections, connections' = connections + 1,
           client[c].h = "closed", client'[c].h # "closed"
    PROVE  ConnectionsInv'
<1> DEFINE Open == {d \in Clients : client[d].h # "closed"}
<1>1. Open' = Open \cup {c} /\ c \notin Open
  BY DEF Others
<1>2. Cardinality(Open \cup {c}) = Cardinality(Open) + 1
  BY <1>1, CallsFinite, FS_AddElement
<1> HIDE DEF Open
<1>3. connections' = Cardinality(Open')
  BY <1>1, <1>2 DEF ConnectionsInv, Open
<1>4. connections' \in 0..MaxConnections
  BY Constants DEF ConnectionsInv
<1> QED
  BY <1>3, <1>4 DEF ConnectionsInv, Open

LEMMA ConnectionsLess ==
    ASSUME ConnectionsInv, NEW c \in Clients, Others(c), connections' = connections - 1,
           client[c].h # "closed", client'[c].h = "closed"
    PROVE  ConnectionsInv'
<1> DEFINE Open == {d \in Clients : client[d].h # "closed"}
<1>1. Open' = Open \ {c} /\ c \in Open
  BY DEF Others
<1>2. /\ Cardinality(Open \ {c}) = Cardinality(Open) - 1
      /\ Cardinality(Open \ {c}) \in Nat
  BY <1>1, CallsFinite, FS_RemoveElement, FS_CardinalityType
<1> HIDE DEF Open
<1>3. connections' = Cardinality(Open') /\ connections' \in Nat
  BY <1>1, <1>2 DEF ConnectionsInv, Open
<1>4. connections' \in 0..MaxConnections
  BY <1>3, Constants DEF ConnectionsInv
<1> QED
  BY <1>3, <1>4 DEF ConnectionsInv, Open

-----------------------------------------------------------------------------
(* The lock and its queue.                                                  *)

LEMMA LockKept ==
    ASSUME LockInv, NEW c \in Clients, Others(c), UNCHANGED lockVars,
           Holder(client[c]) <=> Holder(client'[c]), Waiter(client[c]) <=> Waiter(client'[c])
    PROVE  LockInv'
<1>1. \A d \in Clients : /\ Holder(client[d]) <=> Holder(client'[d])
                         /\ Waiter(client[d]) <=> Waiter(client'[d])
  BY DEF Others
<1>2. serial' = serial /\ queue' = queue
  BY DEF lockVars
<1> QED
  BY <1>1, <1>2 DEF LockInv

\* A newcomer waits for the lock.
LEMMA LockQueued ==
    ASSUME LockInv, NEW c \in Clients, Others(c), UNCHANGED serial, queue' = Append(queue, c),
           ~Holder(client[c]), ~Waiter(client[c]), Waiter(client'[c])
    PROVE  LockInv'
<1>1. /\ queue' \in Seq(Clients) /\ Len(queue') = Len(queue) + 1 /\ Len(queue) \in Nat
      /\ \A i \in 1..Len(queue) : queue'[i] = queue[i]
      /\ queue'[Len(queue) + 1] = c
  BY AppendProperties, LenProperties DEF LockInv
<1>2. ~Holder(client'[c])
  BY DEF Holder, Waiter
<1>3. \A d \in Clients : serial' = d <=> Holder(client'[d])
  BY <1>2 DEF LockInv, Others
<1>4. \A d \in Clients : Has(queue', d) <=> Waiter(client'[d])
  <2> TAKE d \in Clients
  <2>1. CASE d = c
    BY <2>1, <1>1 DEF Has
  <2>2. CASE d # c
    <3>1. Waiter(client'[d]) <=> \E i \in 1..Len(queue) : queue[i] = d
      BY <2>2 DEF LockInv, Others, Has
    <3>2. \A i \in 1..Len(queue') : i \in 1..Len(queue) \/ i = Len(queue) + 1
      BY <1>1
    <3>3. \A i \in 1..Len(queue) : i \in 1..Len(queue')
      BY <1>1
    <3> QED
      BY <2>2, <3>1, <3>2, <3>3, <1>1 DEF Has
  <2> QED
    BY <2>1, <2>2
<1>5. \A i \in 1..Len(queue) : queue[i] # c
  BY DEF LockInv, Has
<1>6. Once(queue')
  BY <1>1, <1>5 DEF LockInv, Once
<1> QED
  BY <1>1, <1>3, <1>4, <1>6 DEF LockInv

\* A sequence without its i-th element.
Without(rest, s, i) ==
    /\ Len(rest) = Len(s) - 1
    /\ \A j \in 1..Len(s) - 1 : rest[j] = IF j < i THEN s[j] ELSE s[j + 1]

\* RemoveAt removes one element.
LEMMA Removed ==
    ASSUME NEW S, NEW s \in Seq(S), NEW i \in 1..Len(s)
    PROVE  RemoveAt(s, i) \in Seq(S) /\ Without(RemoveAt(s, i), s, i)
<1> DEFINE a == SubSeq(s, 1, i - 1)
           b == SubSeq(s, i + 1, Len(s))
<1>1. Len(s) \in Nat /\ \A j \in 1..Len(s) : s[j] \in S
  BY LenProperties, ElementOfSeq
<1>2. /\ a \in Seq(S) /\ Len(a) = i - 1
      /\ \A j \in 1..i - 1 : a[j] = s[j]
  BY <1>1, SubSeqProperties
<1>3. /\ b \in Seq(S) /\ Len(b) = Len(s) - i
      /\ \A j \in 1..Len(s) - i : b[j] = s[j + i]
  BY <1>1, SubSeqProperties
<1> HIDE DEF a, b
<1>4. /\ a \o b \in Seq(S) /\ Len(a \o b) = Len(a) + Len(b)
      /\ \A j \in 1..Len(a) + Len(b) : (a \o b)[j] = IF j <= Len(a) THEN a[j] ELSE b[j - Len(a)]
  BY <1>2, <1>3, ConcatProperties
<1>5. RemoveAt(s, i) = a \o b
  BY DEF RemoveAt, a, b
<1>6. Len(a \o b) = Len(s) - 1
  BY <1>1, <1>2, <1>3, <1>4
<1>7. ASSUME NEW j \in 1..Len(s) - 1 PROVE (a \o b)[j] = IF j < i THEN s[j] ELSE s[j + 1]
  <2>1. CASE j < i
    BY <2>1, <1>1, <1>2, <1>3, <1>4
  <2>2. CASE j >= i
    <3>1. j - (i - 1) \in 1..Len(s) - i /\ (j - (i - 1)) + i = j + 1
      BY <2>2, <1>1
    <3>2. (a \o b)[j] = b[j - (i - 1)]
      BY <2>2, <1>1, <1>2, <1>3, <1>4
    <3> QED
      BY <3>1, <3>2, <2>2, <1>3
  <2>3. j < i \/ j >= i
    BY <1>1
  <2> QED
    BY <2>1, <2>2, <2>3
<1> QED
  BY <1>4, <1>5, <1>6, <1>7 DEF Without

\* If there are no doubles, nothing but that element is gone.
LEMMA Dropped ==
    ASSUME NEW s \in Seq(Clients), NEW rest \in Seq(Clients), NEW i \in 1..Len(s),
           Without(rest, s, i), Once(s)
    PROVE  Once(rest) /\ \A d \in Clients : Has(rest, d) <=> d # s[i] /\ Has(s, d)
<1>1. Len(s) \in Nat
  BY LenProperties
<1>2. \A j \in 1..Len(rest) : \E k \in 1..Len(s) :
         k = (IF j < i THEN j ELSE j + 1) /\ rest[j] = s[k] /\ k # i
  BY <1>1 DEF Without
<1>3. \A j, k \in 1..Len(rest) : rest[j] = rest[k] => j = k
  <2> SUFFICES ASSUME NEW j \in 1..Len(rest), NEW k \in 1..Len(rest), rest[j] = rest[k]
               PROVE  j = k
    OBVIOUS
  <2>1. PICK m \in 1..Len(s) : m = (IF j < i THEN j ELSE j + 1) /\ rest[j] = s[m] /\ m # i
    BY <1>2
  <2>2. PICK n \in 1..Len(s) : n = (IF k < i THEN k ELSE k + 1) /\ rest[k] = s[n] /\ n # i
    BY <1>2
  <2>3. m = n
    BY <2>1, <2>2 DEF Once
  <2> QED
    BY <2>1, <2>2, <2>3, <1>1
<1>4. ASSUME NEW d \in Clients, NEW j \in 1..Len(rest), rest[j] = d
      PROVE  d # s[i] /\ \E k \in 1..Len(s) : s[k] = d
  <2>1. PICK k \in 1..Len(s) : rest[j] = s[k] /\ k # i
    BY <1>2
  <2>2. s[k] # s[i]
    BY <2>1 DEF Once
  <2> QED
    BY <2>1, <2>2, <1>4
<1>5. ASSUME NEW d \in Clients, NEW k \in 1..Len(s), s[k] = d, d # s[i]
      PROVE  \E j \in 1..Len(rest) : rest[j] = d
  <2>1. CASE k < i
    <3>1. k \in 1..Len(rest) /\ rest[k] = s[k]
      BY <2>1, <1>1 DEF Without
    <3> QED
      BY <3>1, <1>5
  <2>2. CASE k > i
    <3>1. k - 1 \in 1..Len(rest) /\ rest[k - 1] = s[k]
      BY <2>2, <1>1 DEF Without
    <3> QED
      BY <3>1, <1>5
  <2>3. k < i \/ k > i
    BY <1>1, <1>5
  <2> QED
    BY <2>1, <2>2, <2>3
<1> QED
  BY <1>3, <1>4, <1>5 DEF Has, Once

\* The lock's queue without one of its clients.
LEMMA QueueLess ==
    ASSUME LockInv, NEW c \in Clients, NEW i \in 1..Len(queue), queue[i] = c,
           queue' \in Seq(Clients), Without(queue', queue, i),
           Others(c), ~Waiter(client'[c])
    PROVE  Once(queue') /\ \A d \in Clients : Has(queue', d) <=> Waiter(client'[d])
<1>1. queue \in Seq(Clients) /\ Once(queue)
  BY DEF LockInv
<1>2. Once(queue') /\ \A d \in Clients : Has(queue', d) <=> d # c /\ Has(queue, d)
  BY <1>1, Dropped
<1>3. \A d \in Clients : d # c => (Waiter(client'[d]) <=> Has(queue, d))
  BY DEF LockInv, Others
<1> QED
  BY <1>2, <1>3

\* The first waiter takes the lock.
LEMMA LockTaken ==
    ASSUME LockInv, NEW c \in Clients, Others(c), serial = None, serial' = c,
           queue # <<>>, Head(queue) = c, queue' = Tail(queue),
           Holder(client'[c])
    PROVE  LockInv'
<1>1. queue \in Seq(Clients) /\ Len(queue) \in Nat \ {0}
  BY EmptySeq DEF LockInv
<1>2. 1 \in 1..Len(queue) /\ queue[1] = c
  BY <1>1, HeadTailProperties
<1>3. queue' \in Seq(Clients) /\ Without(queue', queue, 1)
  BY <1>1, HeadTailProperties DEF Without
<1>4. ~Waiter(client'[c])
  BY DEF Holder, Waiter
<1>5. Once(queue') /\ \A d \in Clients : Has(queue', d) <=> Waiter(client'[d])
  BY <1>2, <1>3, <1>4, QueueLess
<1>6. \A d \in Clients : ~Holder(client[d])
  BY ServiceAssumption DEF LockInv
<1>7. \A d \in Clients : serial' = d <=> Holder(client'[d])
  BY <1>6 DEF Others
<1> QED
  BY <1>3, <1>5, <1>7 DEF LockInv

\* A waiter gives up.
LEMMA LockLeft ==
    ASSUME LockInv, NEW c \in Clients, Others(c), UNCHANGED serial, LeaveQueue(c),
           Waiter(client[c]), ~Holder(client'[c]), ~Waiter(client'[c])
    PROVE  LockInv'
<1>1. queue \in Seq(Clients) /\ DOMAIN queue = 1..Len(queue)
  BY LenProperties DEF LockInv
<1>2. PICK i \in 1..Len(queue) : queue[i] = c /\ queue' = RemoveAt(queue, i)
  BY <1>1 DEF LeaveQueue
<1>3. queue' \in Seq(Clients) /\ Without(queue', queue, i)
  BY <1>1, <1>2, Removed
<1>4. Once(queue') /\ \A d \in Clients : Has(queue', d) <=> Waiter(client'[d])
  BY <1>2, <1>3, QueueLess
<1>5. ~Holder(client[c])
  BY DEF Holder, Waiter
<1>6. \A d \in Clients : serial' = d <=> Holder(client'[d])
  BY <1>5 DEF LockInv, Others
<1> QED
  BY <1>3, <1>4, <1>6 DEF LockInv

\* The holder releases the lock.
LEMMA LockFreed ==
    ASSUME LockInv, NEW c \in Clients, Others(c), serial' = None, UNCHANGED queue,
           Holder(client[c]), ~Holder(client'[c]), ~Waiter(client'[c])
    PROVE  LockInv'
<1>1. serial = c /\ None \notin Clients
  BY ServiceAssumption DEF LockInv
<1>2. \A d \in Clients : ~Holder(client'[d])
  BY <1>1 DEF LockInv, Others
<1>3. \A d \in Clients : Waiter(client[d]) <=> Waiter(client'[d])
  BY DEF Holder, Waiter, Others
<1> QED
  BY <1>1, <1>2, <1>3 DEF LockInv

-----------------------------------------------------------------------------
(* The steps of a handler.                                                  *)

LEMMA Moved ==
    ASSUME CallInv, NEW c \in Clients, NEW new \in Client, Fine(new), Become(c, new)
    PROVE  CallInv' /\ client'[c] = new /\ Others(c)
BY DEF CallInv, Become, Others

\* A step without the endpoint.
LEMMA EndpointKept ==
    ASSUME EndpointInv, UNCHANGED upstream
    PROVE  EndpointInv'
BY DEF EndpointInv, upstream

\* The call of a client.
LEMMA Call ==
    ASSUME IInv, NEW c \in Clients
    PROVE  client[c] \in Client /\ Fine(client[c])
BY DEF IInv, CallInv

\* A client outside the lock stays outside, and whatever counts it follows.
LEMMA Handled ==
    ASSUME IInv, NEW c \in Clients, NEW new \in Client, Fine(new), Become(c, new),
           Holder(client[c]) <=> Holder(new), Waiter(client[c]) <=> Waiter(new),
           UNCHANGED <<lockVars, upstream>>, AdmittedInv', ConnectionsInv'
    PROVE  IInv'
<1>1. CallInv' /\ client'[c] = new /\ Others(c)
  BY Moved DEF IInv
<1>2. LockInv'
  BY <1>1, LockKept DEF IInv
<1>3. EndpointInv'
  BY EndpointKept DEF IInv
<1> QED
  BY <1>1, <1>2, <1>3 DEF IInv

\* A handler that is in no call has no task.
LEMMA NoTask ==
    ASSUME NEW r, Fine(r), r.h \notin {"waiting", "unwinding"}
    PROVE  r.tx = "none" /\ ~Holder(r) /\ ~Waiter(r)
BY DEF Fine, Active, Holder, Waiter

\* Nor has a task that has not begun or is over.
LEMMA NoLock ==
    ASSUME NEW r, r.tx \in {"none", "prepare", "done", "failed", "cancelled"}
    PROVE  ~Holder(r) /\ ~Waiter(r)
BY DEF Holder, Waiter

\* A connection is accepted.
LEMMA ConnectInv ==
    ASSUME IInv, NEW c \in Clients, Connect(c)
    PROVE  IInv'
<1> DEFINE new == [NoCall EXCEPT !.h = "reading"]
<1>1. new \in Client /\ Fine(new) /\ new.h = "reading" /\ new.tx = "none"
  BY Idle
<1>2. client[c].h = "closed" /\ ~Holder(client[c]) /\ ~Waiter(client[c])
  BY Call, NoTask DEF Connect
<1>3. Become(c, new) /\ UNCHANGED <<admitted, lockVars, upstream>>
  BY DEF Connect
<1> HIDE DEF new
<1>4. CallInv' /\ client'[c] = new /\ Others(c)
  BY <1>1, <1>3, Moved DEF IInv
<1>5. AdmittedInv'
  BY <1>1, <1>2, <1>3, <1>4, AdmittedKept DEF IInv, InCall
<1>6. ConnectionsInv'
  BY <1>1, <1>2, <1>4, ConnectionsMore DEF IInv, Connect
<1>7. ~Holder(new) /\ ~Waiter(new)
  BY <1>1, NoLock
<1> QED
  BY <1>1, <1>2, <1>3, <1>5, <1>6, <1>7, Handled

\* The connection ends between calls.
LEMMA LeaveInv ==
    ASSUME IInv, NEW c \in Clients, client[c].h \in {"reading", "replying"}, Leave(c),
           UNCHANGED <<admitted, lockVars, upstream>>
    PROVE  IInv'
<1>1. NoCall \in Client /\ Fine(NoCall) /\ NoCall.h = "closed" /\ NoCall.tx = "none"
  BY Closed
<1>2. ~Holder(client[c]) /\ ~Waiter(client[c])
  BY Call, NoTask
<1>3. CallInv' /\ client'[c] = NoCall /\ Others(c)
  BY <1>1, Moved DEF IInv, Leave
<1>4. AdmittedInv'
  BY <1>1, <1>3, AdmittedKept DEF IInv, InCall
<1>5. ConnectionsInv'
  BY <1>1, <1>3, ConnectionsLess DEF IInv, Leave
<1>6. ~Holder(NoCall) /\ ~Waiter(NoCall)
  BY <1>1, NoLock
<1> QED
  BY <1>1, <1>2, <1>4, <1>5, <1>6, Handled DEF Leave

\* A call is admitted.
LEMMA AdmitInv ==
    ASSUME IInv, NEW c \in Clients, NEW kind \in Kinds(c), Admit(c, kind)
    PROVE  IInv'
<1> DEFINE new == Start(kind)
<1>1. new \in Client /\ Fine(new) /\ new.h = "waiting" /\ new.tx = "prepare"
  BY Started DEF Kinds
<1>2. client[c].h = "reading" /\ ~Holder(client[c]) /\ ~Waiter(client[c])
  BY Call, NoTask DEF Admit
<1>3. Become(c, new) /\ UNCHANGED <<connections, lockVars, upstream>>
  BY DEF Admit
<1> HIDE DEF new
<1>4. CallInv' /\ client'[c] = new /\ Others(c)
  BY <1>1, <1>3, Moved DEF IInv
<1>5. AdmittedInv'
  BY <1>1, <1>2, <1>4, AdmittedMore DEF IInv, InCall, Admit
<1>6. ConnectionsInv'
  BY <1>1, <1>2, <1>3, <1>4, ConnectionsKept DEF IInv
<1>7. ~Holder(new) /\ ~Waiter(new)
  BY <1>1, NoLock
<1> QED
  BY <1>1, <1>2, <1>3, <1>5, <1>6, <1>7, Handled

\* The audio of a request was written.
LEMMA RepliedInv ==
    ASSUME IInv, NEW c \in Clients, Replied(c)
    PROVE  IInv'
<1> DEFINE new == [NoCall EXCEPT !.h = "reading"]
<1>1. new \in Client /\ Fine(new) /\ new.h = "reading" /\ new.tx = "none"
  BY Idle
<1>2. client[c].h = "replying" /\ ~Holder(client[c]) /\ ~Waiter(client[c])
  BY Call, NoTask DEF Replied
<1>3. Become(c, new) /\ UNCHANGED <<counters, lockVars, upstream>>
  BY DEF Replied
<1> HIDE DEF new
<1>4. CallInv' /\ client'[c] = new /\ Others(c)
  BY <1>1, <1>3, Moved DEF IInv
<1>5. AdmittedInv'
  BY <1>1, <1>2, <1>3, <1>4, AdmittedKept DEF IInv, InCall, counters
<1>6. ConnectionsInv'
  BY <1>1, <1>2, <1>3, <1>4, ConnectionsKept DEF IInv, counters
<1>7. ~Holder(new) /\ ~Waiter(new)
  BY <1>1, NoLock
<1> QED
  BY <1>1, <1>2, <1>3, <1>5, <1>6, <1>7, Handled

\* A call whose tasks are over returns its admission, and goes on or leaves.
LEMMA CallReturnsInv ==
    ASSUME IInv, NEW c \in Clients, CallReturns(c)
    PROVE  IInv'
<1> DEFINE new == IF client[c].ok
                  THEN [NoCall EXCEPT !.h = IF client[c].kind = "stream" THEN "reading" ELSE "replying"]
                  ELSE NoCall
<1>1. /\ new \in Client /\ Fine(new) /\ new.tx = "none"
      /\ new.h \in {"closed", "reading", "replying"}
      /\ new.h = "closed" <=> ~client[c].ok
  <2>1. CASE client[c].ok /\ client[c].kind = "stream"
    BY <2>1, Idle
  <2>2. CASE client[c].ok /\ client[c].kind # "stream"
    BY <2>2, Idle
  <2>3. CASE ~client[c].ok
    BY <2>3, Closed
  <2> QED
    BY <2>1, <2>2, <2>3
<1>2. /\ client[c].h = "unwinding" /\ ~Holder(client[c]) /\ ~Waiter(client[c])
      /\ admitted' = admitted - 1
      /\ UNCHANGED <<lockVars, upstream>>
  BY NoLock DEF CallReturns, Over
<1>3. /\ Become(c, new)
      /\ connections' = IF client[c].ok THEN connections ELSE connections - 1
  BY DEF CallReturns, Leave
<1> HIDE DEF new
<1>4. CallInv' /\ client'[c] = new /\ Others(c)
  BY <1>1, <1>3, Moved DEF IInv
<1>5. AdmittedInv'
  BY <1>1, <1>2, <1>4, AdmittedLess DEF IInv, InCall
<1>6. ConnectionsInv'
  <2>1. CASE client[c].ok
    BY <2>1, <1>1, <1>2, <1>3, <1>4, ConnectionsKept DEF IInv
  <2>2. CASE ~client[c].ok
    BY <2>2, <1>1, <1>2, <1>3, <1>4, ConnectionsLess DEF IInv
  <2> QED
    BY <2>1, <2>2
<1>7. ~Holder(new) /\ ~Waiter(new)
  BY <1>1, NoLock
<1> QED
  BY <1>1, <1>2, <1>3, <1>5, <1>6, <1>7, Handled

\* asyncio.wait returns, because a task has ended or the deadline has passed.
LEMMA WaitEndsInv ==
    ASSUME IInv, NEW c \in Clients, CallEnds(c) \/ CallDeadline(c)
    PROVE  IInv'
<1> DEFINE r == client[c]
           ended == [r EXCEPT !.h = "unwinding", !.ok = r.rx # "ended" /\ r.tx = "done"]
           late == [r EXCEPT !.h = "unwinding"]
<1>1. r \in Client /\ Fine(r)
  BY Call
<1>2. PICK ok \in BOOLEAN, new \in {ended, late} :
          /\ Become(c, new)
          /\ ok => r.tx = "done"
          /\ \/ new = [r EXCEPT !.h = "unwinding", !.ok = ok]
             \/ ok = r.ok /\ new = [r EXCEPT !.h = "unwinding"]
  <2>1. CASE CallEnds(c)
    <3>1. Become(c, ended) /\ (r.rx # "ended" /\ r.tx = "done") \in BOOLEAN
      BY <2>1 DEF CallEnds
    <3> QED
      BY <3>1
  <2>2. CASE CallDeadline(c)
    <3>1. Become(c, late) /\ r.ok \in BOOLEAN /\ (r.ok => r.tx = "done")
      BY <2>2, <1>1, Fields DEF CallDeadline, Fine
    <3> QED
      BY <3>1
  <2> QED
    BY <2>1, <2>2
<1>3. r.h = "waiting" /\ UNCHANGED <<counters, lockVars, upstream>>
  BY DEF CallEnds, CallDeadline
<1> HIDE DEF r, ended, late
<1>4. "unwinding" \in Handler
  BY DEF Handler
<1>5. /\ new \in Client
      /\ new.h = "unwinding" /\ new.ok = ok
      /\ new.kind = r.kind /\ new.rx = r.rx /\ new.tx = r.tx /\ new.attempt = r.attempt
      /\ new.sentences = r.sentences /\ new.now = r.now /\ new.said = r.said
      /\ new.spoken = r.spoken
  <2>1. CASE new = [r EXCEPT !.h = "unwinding", !.ok = ok]
    BY <2>1, <1>1, <1>4 DEF Client
  <2>2. CASE ok = r.ok /\ new = [r EXCEPT !.h = "unwinding"]
    BY <2>2, <1>1, <1>4 DEF Client
  <2> QED
    BY <2>1, <2>2, <1>2
<1>6. r.kind = "request" => RequestFine(new)
  BY <1>1, <1>5 DEF Fine, RequestFine, More
<1>7. r.kind = "stream" => StreamFine(new)
  BY <1>1, <1>5 DEF Fine, StreamFine, More, Begun, Pending
<1>8. Fine(new)
  BY <1>1, <1>2, <1>3, <1>5, <1>6, <1>7 DEF Fine, Active
<1>9. CallInv' /\ client'[c] = new /\ Others(c)
  BY <1>2, <1>5, <1>8, Moved DEF IInv
<1>10. AdmittedInv'
  BY <1>3, <1>5, <1>9, AdmittedKept DEF IInv, InCall, counters, r
<1>11. ConnectionsInv'
  BY <1>3, <1>5, <1>9, ConnectionsKept DEF IInv, counters, r
<1>12. (Holder(client[c]) <=> Holder(new)) /\ (Waiter(client[c]) <=> Waiter(new))
  BY <1>5 DEF Holder, Waiter, r
<1> QED
  BY <1>2, <1>3, <1>5, <1>8, <1>10, <1>11, <1>12, Handled

-----------------------------------------------------------------------------
(* The steps of the two tasks of a call.                                    *)

(* What a step of a client does to the lock.                                *)
LockStep(c, new) ==
    \/ /\ UNCHANGED lockVars
       /\ Holder(client[c]) <=> Holder(new)
       /\ Waiter(client[c]) <=> Waiter(new)
    \/ /\ UNCHANGED serial /\ queue' = Append(queue, c)
       /\ ~Holder(client[c]) /\ ~Waiter(client[c]) /\ Waiter(new)
    \/ /\ serial = None /\ serial' = c
       /\ queue # <<>> /\ Head(queue) = c /\ queue' = Tail(queue)
       /\ Holder(new)
    \/ /\ UNCHANGED serial /\ LeaveQueue(c)
       /\ Waiter(client[c]) /\ ~Holder(new) /\ ~Waiter(new)
    \/ /\ serial' = None /\ UNCHANGED queue
       /\ Holder(client[c]) /\ ~Holder(new) /\ ~Waiter(new)

\* A task changes the call and the lock; the handler and its counters stay.
LEMMA Worked ==
    ASSUME IInv, NEW c \in Clients, NEW new \in Client, Fine(new), Become(c, new),
           new.h = client[c].h, UNCHANGED counters, LockStep(c, new), EndpointInv'
    PROVE  IInv'
<1>1. CallInv' /\ client'[c] = new /\ Others(c)
  BY Moved DEF IInv
<1>2. LockInv'
  <2>1. LockInv
    BY DEF IInv
  <2>2. CASE UNCHANGED lockVars /\ (Holder(client[c]) <=> Holder(new))
             /\ (Waiter(client[c]) <=> Waiter(new))
    BY <2>1, <2>2, <1>1, LockKept
  <2>3. CASE /\ UNCHANGED serial /\ queue' = Append(queue, c)
             /\ ~Holder(client[c]) /\ ~Waiter(client[c]) /\ Waiter(new)
    BY <2>1, <2>3, <1>1, LockQueued
  <2>4. CASE /\ serial = None /\ serial' = c
             /\ queue # <<>> /\ Head(queue) = c /\ queue' = Tail(queue)
             /\ Holder(new)
    BY <2>1, <2>4, <1>1, LockTaken
  <2>5. CASE /\ UNCHANGED serial /\ LeaveQueue(c)
             /\ Waiter(client[c]) /\ ~Holder(new) /\ ~Waiter(new)
    BY <2>1, <2>5, <1>1, LockLeft
  <2>6. CASE /\ serial' = None /\ UNCHANGED queue
             /\ Holder(client[c]) /\ ~Holder(new) /\ ~Waiter(new)
    BY <2>1, <2>6, <1>1, LockFreed
  <2> QED
    BY <2>2, <2>3, <2>4, <2>5, <2>6 DEF LockStep
<1>3. AdmittedInv'
  BY <1>1, AdmittedKept DEF IInv, InCall, counters
<1>4. ConnectionsInv'
  BY <1>1, ConnectionsKept DEF IInv, counters
<1> QED
  BY <1>1, <1>2, <1>3, <1>4 DEF IInv

\* The task that reads leaves the lock alone.
LEMMA RxStep ==
    ASSUME IInv, NEW c \in Clients, NEW new \in Client, Fine(new), Become(c, new),
           new.h = client[c].h, new.tx = client[c].tx,
           UNCHANGED <<counters, lockVars, upstream>>
    PROVE  IInv'
<1>1. LockStep(c, new)
  BY DEF LockStep, Holder, Waiter
<1>2. EndpointInv'
  BY EndpointKept DEF IInv
<1> QED
  BY <1>1, <1>2, Worked

\* The socket brings no text: the compatibility event, an end, a cancellation.
LEMMA RxNoticedInv ==
    ASSUME IInv, NEW c \in Clients, RxCompat(c) \/ RxEnds(c) \/ CancelRx(c)
    PROVE  IInv'
<1> DEFINE r == client[c]
<1>1. r \in Client /\ Fine(r) /\ Active(r)
  BY Call DEF RxCompat, RxEnds, CancelRx, Rx, Active
<1>2. UNCHANGED <<counters, lockVars, upstream>>
  BY DEF RxCompat, RxEnds, CancelRx, Rx
<1>3. PICK rx : /\ (rx = "compat" /\ r.rx = "events") \/ rx \in {"ended", "cancelled"}
                /\ Become(c, [r EXCEPT !.rx = rx])
  BY DEF RxCompat, RxEnds, CancelRx, Rx
<1> DEFINE new == [r EXCEPT !.rx = rx]
<1>4. new \in Client /\ Fine(new) /\ new.h = r.h /\ new.tx = r.tx
  BY <1>1, <1>3, Noticed
<1>5. Become(c, new)
  BY <1>3
<1> HIDE DEF new
<1> QED
  BY <1>2, <1>4, <1>5, RxStep

\* What a sentence and the end of the text make of a call.
LEMMA RxTextInv ==
    ASSUME IInv, NEW c \in Clients, client[c].h = "waiting", More(client[c]),
           NEW said \in Text, NEW sentences \in Seq(Text), NEW rx \in Receiving,
           \/ /\ said = client[c].said + 1 /\ rx = client[c].rx
              /\ sentences = Append(client[c].sentences, client[c].said + 1)
           \/ /\ said = client[c].said /\ rx = "watch"
              /\ sentences = Append(client[c].sentences, Stop)
           \/ /\ said = client[c].said + 1 /\ rx = "watch"
              /\ sentences = Append(Append(client[c].sentences, client[c].said + 1), Stop),
           Become(c, [client[c] EXCEPT !.rx = rx, !.said = said, !.sentences = sentences]),
           UNCHANGED <<counters, lockVars, upstream>>
    PROVE  IInv'
<1> DEFINE r == client[c]
           new == [r EXCEPT !.rx = rx, !.said = said, !.sentences = sentences]
<1>1. r \in Client /\ Fine(r) /\ Active(r)
  BY Call DEF Active
<1>2. /\ new \in Client
      /\ new.rx = rx /\ new.said = said /\ new.sentences = sentences
      /\ new.h = r.h /\ new.kind = r.kind /\ new.tx = r.tx /\ new.attempt = r.attempt
      /\ new.now = r.now /\ new.spoken = r.spoken /\ new.ok = r.ok
  BY <1>1 DEF Client
<1>3. Become(c, new) /\ More(r)
  OBVIOUS
<1> HIDE DEF new
<1>4. Fine(new)
  BY <1>1, <1>2, <1>3, Received
<1> QED
  BY <1>2, <1>3, <1>4, RxStep

\* A sentence is received.
LEMMA RxSentenceInv ==
    ASSUME IInv, NEW c \in Clients, RxSentence(c)
    PROVE  IInv'
<1> DEFINE r == client[c]
           said == r.said + 1
           sentences == Append(r.sentences, r.said + 1)
<1>1. /\ r \in Client /\ r.rx \in Receiving /\ r.said \in Text /\ r.sentences \in Seq(Text)
  BY Call, Fields
<1>2. /\ r.said < MaxSentences /\ r.h = "waiting" /\ More(r)
      /\ Become(c, [r EXCEPT !.said = said, !.sentences = sentences])
      /\ UNCHANGED <<counters, lockVars, upstream>>
  BY DEF RxSentence, Rx, More
<1>3. said \in Text /\ sentences \in Seq(Text)
  BY <1>1, <1>2, Constants, AppendProperties
<1>4. [r EXCEPT !.said = said, !.sentences = sentences]
        = [r EXCEPT !.rx = r.rx, !.said = said, !.sentences = sentences]
  BY <1>1 DEF Client
<1> QED
  BY <1>1, <1>2, <1>3, <1>4, RxTextInv

\* synthesize-stop ends the text.
LEMMA RxStopInv ==
    ASSUME IInv, NEW c \in Clients, RxStop(c)
    PROVE  IInv'
<1> DEFINE r == client[c]
           longer == Append(r.sentences, r.said + 1)
<1>1. /\ r \in Client /\ r.said \in Text /\ r.sentences \in Seq(Text)
  BY Call, Fields
<1>2. "watch" \in Receiving /\ Stop \in Text
  BY Constants DEF Receiving
<1>3. /\ r.h = "waiting" /\ More(r)
      /\ UNCHANGED <<counters, lockVars, upstream>>
  BY DEF RxStop, Rx, More
<1>4. CASE Become(c, [r EXCEPT !.rx = "watch", !.sentences = Append(@, Stop)])
  <2>1. [r EXCEPT !.rx = "watch", !.sentences = Append(@, Stop)]
          = [r EXCEPT !.rx = "watch", !.said = r.said, !.sentences = Append(r.sentences, Stop)]
    BY <1>1 DEF Client
  <2>2. Append(r.sentences, Stop) \in Seq(Text)
    BY <1>1, <1>2, AppendProperties
  <2> QED
    BY <2>1, <2>2, <1>1, <1>2, <1>3, <1>4, RxTextInv
<1>5. CASE /\ r.said < MaxSentences
           /\ Become(c, [r EXCEPT !.rx = "watch", !.said = @ + 1,
                           !.sentences = @ \o <<r.said + 1, Stop>>])
  <2>1. r.said + 1 \in Text
    BY <1>1, <1>5, Constants
  <2>2. /\ r.sentences \o <<r.said + 1, Stop>> = Append(longer, Stop)
        /\ Append(longer, Stop) \in Seq(Text)
    BY <2>1, <1>1, <1>2, BothAppended
  <2>3. Become(c, [r EXCEPT !.rx = "watch", !.said = r.said + 1, !.sentences = Append(longer, Stop)])
    BY <2>2, <1>5
  <2> QED
    BY <2>1, <2>2, <2>3, <1>2, <1>3, RxTextInv
<1> QED
  BY <1>4, <1>5 DEF RxStop, Rx

-----------------------------------------------------------------------------
\* A request joins the queue of the lock; a stream waits for a sentence.
LEMMA TxPreparedInv ==
    ASSUME IInv, NEW c \in Clients, TxPrepared(c)
    PROVE  IInv'
<1> DEFINE r == client[c]
<1>1. r \in Client /\ Fine(r)
  BY Call
<1>2. r.h = "waiting" /\ r.tx = "prepare" /\ Active(r) /\ UNCHANGED counters
  BY DEF TxPrepared, Tx, Active
<1>3. ~Holder(r) /\ ~Waiter(r)
  BY <1>2, NoLock
<1>4. UNCHANGED upstream /\ EndpointInv'
  <2>1. UNCHANGED upstream
    BY DEF TxPrepared, Enqueue
  <2> QED
    BY <2>1, EndpointKept DEF IInv
<1>5. CASE r.kind = "stream"
  <2> DEFINE new == [r EXCEPT !.tx = "get"]
  <2>1. new \in Client /\ Fine(new) /\ new.h = r.h /\ new.tx = "get"
    BY <1>1, <1>2, <1>5, Proceeds
  <2>2. Become(c, new) /\ UNCHANGED lockVars
    BY <1>5 DEF TxPrepared, To
  <2> HIDE DEF new
  <2>3. LockStep(c, new)
    BY <2>1, <2>2, <1>3 DEF LockStep, Holder, Waiter
  <2> QED
    BY <2>1, <2>2, <2>3, <1>2, <1>4, Worked
<1>6. CASE r.kind # "stream"
  <2> DEFINE new == [r EXCEPT !.tx = "lock"]
  <2>1. new \in Client /\ Fine(new) /\ new.h = r.h /\ new.tx = "lock"
    BY <1>1, <1>2, <1>6, Queued
  <2>2. Become(c, new) /\ UNCHANGED serial /\ queue' = Append(queue, c)
    BY <1>6 DEF TxPrepared, Enqueue
  <2> HIDE DEF new
  <2>3. LockStep(c, new)
    BY <2>1, <2>2, <1>3 DEF LockStep, Waiter
  <2> QED
    BY <2>1, <2>2, <2>3, <1>2, <1>4, Worked
<1> QED
  BY <1>5, <1>6

\* A stream takes its next sentence.
LEMMA TxGetInv ==
    ASSUME IInv, NEW c \in Clients, TxGet(c)
    PROVE  IInv'
<1> DEFINE r == client[c]
           next == Head(r.sentences)
           rest == Tail(r.sentences)
           tx == IF next = Stop THEN "finish" ELSE "lock"
           new == [[r EXCEPT !.now = next, !.sentences = rest] EXCEPT !.tx = tx]
<1>1. r \in Client /\ Fine(r)
  BY Call
<1>2. /\ r.h = "waiting" /\ r.tx = "get" /\ Active(r) /\ r.sentences # <<>>
      /\ UNCHANGED counters
  BY DEF TxGet, Tx, Active
<1>3. next \in Text /\ rest \in Seq(Text) /\ tx \in Working
  <2>1. r.sentences \in Seq(Text)
    BY <1>1, Fields
  <2> QED
    BY <2>1, <1>2, HeadTailProperties DEF Working
<1>4. Become(c, new) /\ UNCHANGED upstream
  BY DEF TxGet, Enqueue
<1>5. IF next = Stop THEN UNCHANGED lockVars ELSE UNCHANGED serial /\ queue' = Append(queue, c)
  BY DEF TxGet, Enqueue
<1>6. /\ new \in Client
      /\ new.now = next /\ new.sentences = rest /\ new.tx = tx
      /\ new.h = r.h /\ new.kind = r.kind /\ new.rx = r.rx /\ new.attempt = r.attempt
      /\ new.said = r.said /\ new.spoken = r.spoken /\ new.ok = r.ok
  BY <1>1, <1>3 DEF Client
<1> HIDE DEF new
<1>7. Fine(new)
  BY <1>1, <1>2, <1>6, Taken
<1>8. LockStep(c, new)
  <2>1. ~Holder(r) /\ ~Waiter(r)
    BY <1>2 DEF Holder, Waiter
  <2> QED
    BY <2>1, <1>5, <1>6 DEF LockStep, Holder, Waiter
<1>9. EndpointInv'
  BY <1>4, EndpointKept DEF IInv
<1> QED
  BY <1>2, <1>4, <1>6, <1>7, <1>8, <1>9, Worked

\* The lock is acquired.
LEMMA TxAcquireInv ==
    ASSUME IInv, NEW c \in Clients, TxAcquire(c)
    PROVE  IInv'
<1> DEFINE r == client[c]
           new == [r EXCEPT !.tx = "infer"]
<1>1. r \in Client /\ Fine(r) /\ r.attempt \in Attempts \cup {None}
  BY Call, Fields
<1>2. /\ r.tx = "lock" /\ UNCHANGED counters /\ UNCHANGED upstream
      /\ serial = None /\ serial' = c
      /\ queue # <<>> /\ Head(queue) = c /\ queue' = Tail(queue)
      /\ Become(c, new)
  BY DEF TxAcquire, Tx, To
<1>3. new \in Client /\ Fine(new) /\ new.h = r.h /\ new.tx = "infer"
  BY <1>1, <1>2, Infers
<1> HIDE DEF new
<1>4. LockStep(c, new)
  BY <1>2, <1>3 DEF LockStep, Holder
<1>5. EndpointInv'
  BY <1>2, EndpointKept DEF IInv
<1> QED
  BY <1>2, <1>3, <1>4, <1>5, Worked

\* The endpoint keeps its type whatever it does.
LEMMA EndpointActs ==
    ASSUME EndpointInv, NEW a \in Attempts,
           \/ Endpoint!Ask(a) \/ Endpoint!Drop(a) \/ Endpoint!Refuse(a) \/ Endpoint!Serve(a)
           \/ Endpoint!Deliver(a) \/ Endpoint!Fail(a)
    PROVE  EndpointInv'
<1>1. CASE Endpoint!Ask(a)
  BY <1>1 DEF EndpointInv, Endpoint!Ask
<1>2. CASE Endpoint!Drop(a)
  BY <1>2 DEF EndpointInv, Endpoint!Drop
<1>3. CASE Endpoint!Refuse(a)
  BY <1>3 DEF EndpointInv, Endpoint!Refuse
<1>4. CASE Endpoint!Serve(a)
  BY <1>4 DEF EndpointInv, Endpoint!Serve
<1>5. CASE Endpoint!Deliver(a)
  BY <1>5 DEF EndpointInv, Endpoint!Deliver
<1>6. CASE Endpoint!Fail(a)
  BY <1>6 DEF EndpointInv, Endpoint!Fail
<1> QED
  BY <1>1, <1>2, <1>3, <1>4, <1>5, <1>6

\* A child calls the endpoint.
LEMMA TxAttemptInv ==
    ASSUME IInv, NEW c \in Clients, TxAttempt(c)
    PROVE  IInv'
<1> DEFINE r == client[c]
<1>1. r \in Client /\ Fine(r)
  BY Call
<1>2. r.tx = "infer" /\ UNCHANGED counters /\ UNCHANGED lockVars
  BY DEF TxAttempt, Tx
<1>3. PICK a \in Attempts : Endpoint!Ask(a) /\ Become(c, [r EXCEPT !.attempt = a])
  BY DEF TxAttempt
<1> DEFINE new == [r EXCEPT !.attempt = a]
<1>4. new \in Client /\ Fine(new) /\ new.h = r.h /\ new.tx = "infer"
  BY <1>1, <1>2, Infers
<1>5. Become(c, new)
  BY <1>3
<1> HIDE DEF new
<1>6. LockStep(c, new)
  BY <1>2, <1>4 DEF LockStep, Holder, Waiter
<1>7. EndpointInv'
  BY <1>3, EndpointActs DEF IInv
<1> QED
  BY <1>2, <1>4, <1>5, <1>6, <1>7, Worked

\* The endpoint is busy; the lock is kept.
LEMMA TxBusyInv ==
    ASSUME IInv, NEW c \in Clients, TxBusy(c)
    PROVE  IInv'
<1> DEFINE r == client[c]
           new == [r EXCEPT !.attempt = None]
<1>1. r \in Client /\ Fine(r)
  BY Call
<1>2. /\ r.tx = "infer" /\ UNCHANGED counters /\ UNCHANGED <<lockVars, upstream>>
      /\ Become(c, new)
  BY DEF TxBusy, Answered, Tx
<1>3. new \in Client /\ Fine(new) /\ new.h = r.h /\ new.tx = "infer"
  BY <1>1, <1>2, Infers
<1> HIDE DEF new
<1>4. LockStep(c, new)
  BY <1>2, <1>3 DEF LockStep, Holder, Waiter
<1>5. EndpointInv'
  BY <1>2, EndpointKept DEF IInv
<1> QED
  BY <1>2, <1>3, <1>4, <1>5, Worked

\* Audio has come.
LEMMA TxAudioInv ==
    ASSUME IInv, NEW c \in Clients, TxAudio(c)
    PROVE  IInv'
<1> DEFINE r == client[c]
           spoken == Append(r.spoken, r.now)
           tx == IF r.kind = "stream" THEN "write" ELSE "done"
           new == [r EXCEPT !.attempt = None, !.spoken = spoken, !.tx = tx]
<1>1. r \in Client /\ Fine(r)
  BY Call
<1>2. /\ r.tx = "infer" /\ UNCHANGED counters /\ UNCHANGED upstream
      /\ serial' = None /\ UNCHANGED queue
      /\ Become(c, new)
  BY DEF TxAudio, Answered, Tx
<1>3. /\ new \in Client
      /\ new.attempt = None /\ new.spoken = spoken /\ new.tx = tx
      /\ new.h = r.h /\ new.kind = r.kind /\ new.rx = r.rx
      /\ new.sentences = r.sentences /\ new.now = r.now /\ new.said = r.said
      /\ new.ok = r.ok
  <2>1. r.spoken \in Seq(Text) /\ r.now \in Text
    BY <1>1, Fields
  <2>2. spoken \in Seq(Text) /\ tx \in Working
    BY <2>1, AppendProperties DEF Working
  <2> HIDE DEF spoken, tx
  <2> QED
    BY <2>2, <1>1 DEF Client
<1> HIDE DEF new
<1>4. Fine(new)
  BY <1>1, <1>2, <1>3, Spoken
<1>5. LockStep(c, new)
  BY <1>2, <1>3 DEF LockStep, Holder, Waiter
<1>6. EndpointInv'
  BY <1>2, EndpointKept DEF IInv
<1> QED
  BY <1>2, <1>3, <1>4, <1>5, <1>6, Worked

\* The attempt has failed.
LEMMA TxFailsInv ==
    ASSUME IInv, NEW c \in Clients, TxFails(c)
    PROVE  IInv'
<1> DEFINE r == client[c]
           new == [r EXCEPT !.tx = "failed", !.attempt = None]
<1>1. r \in Client /\ Fine(r)
  BY Call
<1>2. /\ r.tx = "infer" /\ Active(r) /\ UNCHANGED counters /\ UNCHANGED upstream
      /\ serial' = None /\ UNCHANGED queue
      /\ Become(c, new)
  BY DEF TxFails, Tx, Active
<1>3. Stops(r, new, "failed") /\ new \in Client /\ new.h = r.h /\ new.tx = "failed"
  BY <1>1 DEF Stops, Client, Working
<1> HIDE DEF new
<1>4. Fine(new)
  BY <1>1, <1>2, <1>3, GivenUp
<1>5. LockStep(c, new)
  BY <1>2, <1>3 DEF LockStep, Holder, Waiter
<1>6. EndpointInv'
  BY <1>2, EndpointKept DEF IInv
<1> QED
  BY <1>2, <1>3, <1>4, <1>5, <1>6, Worked

\* A task outside the lock goes on, or fails, or is cancelled.
LEMMA TxOutsideInv ==
    ASSUME IInv, NEW c \in Clients,
           TxWritten(c) \/ TxFinish(c) \/ TxRaises(c)
             \/ /\ client[c].h = "unwinding"
                /\ client[c].tx \in {"prepare", "get", "write", "finish"}
                /\ Become(c, To(c, "cancelled"))
                /\ UNCHANGED <<counters, lockVars, upstream>>
    PROVE  IInv'
<1> DEFINE r == client[c]
<1>1. r \in Client /\ Fine(r)
  BY Call
<1>2. /\ Active(r) /\ r.tx \in {"prepare", "get", "write", "finish"}
      /\ UNCHANGED <<counters, lockVars, upstream>>
  BY DEF TxWritten, TxFinish, TxRaises, Tx, Active
<1>3. PICK tx : /\ \/ r.tx = "write" /\ tx = "get"
                   \/ r.tx = "finish" /\ tx = "done"
                   \/ tx \in {"failed", "cancelled"}
                /\ Become(c, [r EXCEPT !.tx = tx])
  BY DEF TxWritten, TxFinish, TxRaises, Tx, To
<1> DEFINE new == [r EXCEPT !.tx = tx]
<1>4. r.attempt = None
  BY <1>1, <1>2 DEF Fine
<1>5. new \in Client /\ Fine(new) /\ new.h = r.h /\ new.tx = tx
  <2>1. CASE tx \in {"failed", "cancelled"}
    <3>1. Stops(r, new, tx) /\ new \in Client /\ new.h = r.h /\ new.tx = tx
      BY <2>1, <1>1, <1>4 DEF Stops, Client, Working
    <3> HIDE DEF new
    <3> QED
      BY <3>1, <2>1, <1>1, <1>2, GivenUp
  <2>2. CASE \/ r.tx = "write" /\ tx = "get"
             \/ r.tx = "finish" /\ tx = "done"
    BY <2>2, <1>1, <1>2, Proceeds
  <2> QED
    BY <2>1, <2>2, <1>3
<1>6. Become(c, new)
  BY <1>3
<1> HIDE DEF new
<1>7. LockStep(c, new)
  BY <1>2, <1>3, <1>5 DEF LockStep, Holder, Waiter
<1>8. EndpointInv'
  BY <1>2, EndpointKept DEF IInv
<1> QED
  BY <1>2, <1>5, <1>6, <1>7, <1>8, Worked

\* A timeout or a cancellation inside the lock or its queue.
LEMMA InterruptInv ==
    ASSUME IInv, NEW c \in Clients, Active(client[c]),
           NEW how \in {"failed", "cancelled"}, Interrupt(c, how)
    PROVE  IInv'
<1> DEFINE r == client[c]
<1>1. r \in Client /\ Fine(r)
  BY Call
<1>2. UNCHANGED counters /\ UNCHANGED upstream
  BY DEF Interrupt
<1>3. EndpointInv'
  BY <1>2, EndpointKept DEF IInv
<1>4. CASE /\ r.tx = "lock" /\ LeaveQueue(c) /\ Become(c, [r EXCEPT !.tx = how])
           /\ UNCHANGED serial
  <2> DEFINE new == [r EXCEPT !.tx = how]
  <2>1. r.attempt = None
    BY <1>1, <1>4 DEF Fine
  <2>2. Stops(r, new, how) /\ new \in Client /\ new.h = r.h /\ new.tx = how
    BY <2>1, <1>1 DEF Stops, Client, Working
  <2>3. Become(c, new)
    BY <1>4
  <2> HIDE DEF new
  <2>4. Fine(new)
    BY <2>2, <1>1, <1>4, GivenUp
  <2>5. LockStep(c, new)
    BY <2>2, <1>4 DEF LockStep, Holder, Waiter
  <2> QED
    BY <2>2, <2>3, <2>4, <2>5, <1>2, <1>3, Worked
<1>5. CASE /\ r.tx = "infer" /\ Become(c, [r EXCEPT !.tx = "reap", !.attempt = None])
           /\ UNCHANGED lockVars
  <2> DEFINE new == [r EXCEPT !.tx = "reap", !.attempt = None]
  <2>1. Stops(r, new, "reap") /\ new \in Client /\ new.h = r.h /\ new.tx = "reap"
    BY <1>1, <1>5 DEF Stops, Client, Working
  <2>2. Become(c, new)
    BY <1>5
  <2> HIDE DEF new
  <2>3. Fine(new)
    BY <2>1, <1>1, <1>5, GivenUp
  <2>4. LockStep(c, new)
    BY <2>1, <1>5 DEF LockStep, Holder, Waiter
  <2> QED
    BY <2>1, <2>2, <2>3, <2>4, <1>2, <1>3, Worked
<1>6. CASE /\ r.tx = "infer" /\ r.attempt = None /\ serial' = None
           /\ Become(c, [r EXCEPT !.tx = how]) /\ UNCHANGED queue
  <2> DEFINE new == [r EXCEPT !.tx = how]
  <2>1. Stops(r, new, how) /\ new \in Client /\ new.h = r.h /\ new.tx = how
    BY <1>1, <1>6 DEF Stops, Client, Working
  <2>2. Become(c, new)
    BY <1>6
  <2> HIDE DEF new
  <2>3. Fine(new)
    BY <2>1, <1>1, <1>6, GivenUp
  <2>4. LockStep(c, new)
    BY <2>1, <1>6 DEF LockStep, Holder, Waiter
  <2> QED
    BY <2>1, <2>2, <2>3, <2>4, <1>2, <1>3, Worked
<1> QED
  BY <1>4, <1>5, <1>6 DEF Interrupt, To

\* The killed child is gone.
LEMMA TxReapedInv ==
    ASSUME IInv, NEW c \in Clients, TxReaped(c)
    PROVE  IInv'
<1> DEFINE r == client[c]
           tx == IF r.h = "waiting" THEN "failed" ELSE "cancelled"
           new == [r EXCEPT !.tx = tx]
<1>1. r \in Client /\ Fine(r)
  BY Call
<1>2. /\ r.tx = "reap" /\ UNCHANGED counters /\ UNCHANGED upstream
      /\ serial' = None /\ UNCHANGED queue
      /\ Become(c, new)
  BY DEF TxReaped, To
<1>3. Active(r) /\ r.attempt = None /\ tx \in {"failed", "cancelled"}
  BY <1>1, <1>2 DEF Fine
<1>4. Stops(r, new, tx) /\ new \in Client /\ new.h = r.h /\ new.tx = tx
  BY <1>1, <1>3 DEF Stops, Client, Working
<1> HIDE DEF new, tx
<1>5. Fine(new)
  BY <1>1, <1>2, <1>3, <1>4, GivenUp
<1>6. LockStep(c, new)
  BY <1>2, <1>3, <1>4 DEF LockStep, Holder, Waiter
<1>7. EndpointInv'
  BY <1>2, EndpointKept DEF IInv
<1> QED
  BY <1>2, <1>4, <1>5, <1>6, <1>7, Worked

\* The endpoint, on its own account or for its other callers.
LEMMA EndpointStepInv ==
    ASSUME IInv, EndpointStep
    PROVE  IInv'
<1>1. EndpointInv'
  <2>1. EndpointInv
    BY DEF IInv
  <2>2. CASE Endpoint!Reloaded
    BY <2>1, <2>2 DEF EndpointInv, Endpoint!Reloaded
  <2>3. ASSUME NEW a \in Attempts,
               \/ Endpoint!Ask(a) \/ Endpoint!Drop(a) \/ Endpoint!Refuse(a) \/ Endpoint!Serve(a)
               \/ Endpoint!Deliver(a) \/ Endpoint!Fail(a)
        PROVE  EndpointInv'
    BY <2>1, <2>3, EndpointActs
  <2> QED
    BY <2>2, <2>3 DEF EndpointStep
<1>2. UNCHANGED <<connections, admitted, serial, queue, client>>
  BY DEF EndpointStep, counters, lockVars
<1>3. CallInv' /\ LockInv' /\ AdmittedInv' /\ ConnectionsInv'
  BY <1>2 DEF IInv, CallInv, LockInv, AdmittedInv, ConnectionsInv, InCall
<1> QED
  BY <1>1, <1>3 DEF IInv

-----------------------------------------------------------------------------
\* The initial states.
LEMMA InitInv == Init => IInv
<1> SUFFICES ASSUME Init PROVE IInv
  OBVIOUS
<1>1. NoCall \in Client /\ Fine(NoCall) /\ NoCall.h = "closed" /\ NoCall.tx = "none"
  BY Closed
<1>2. \A c \in Clients : client[c] = NoCall
  BY DEF Init
<1>3. CallInv
  BY <1>1 DEF Init, CallInv
<1>4. LockInv
  <2>1. ~Holder(NoCall) /\ ~Waiter(NoCall)
    BY <1>1, NoLock
  <2>2. serial = None /\ queue = <<>> /\ None \notin Clients
    BY ServiceAssumption DEF Init
  <2>3. <<>> \in Seq(Clients) /\ Len(<<>>) = 0 /\ 1..0 = {}
    OBVIOUS
  <2>4. Once(queue) /\ \A c \in Clients : ~Has(queue, c)
    BY <2>2, <2>3 DEF Once, Has
  <2> QED
    BY <2>1, <2>2, <2>3, <2>4, <1>2 DEF LockInv
<1>5. AdmittedInv
  <2>1. {c \in Clients : InCall(c)} = {}
    BY <1>1, <1>2 DEF InCall
  <2>2. Cardinality({c \in Clients : InCall(c)}) = 0
    BY <2>1, FS_EmptySet
  <2>3. admitted = 0 /\ 0 \in 0..MaxAdmitted
    BY Constants DEF Init
  <2> QED
    BY <2>2, <2>3 DEF AdmittedInv
<1>6. ConnectionsInv
  <2>1. {c \in Clients : client[c].h # "closed"} = {}
    BY <1>1, <1>2
  <2> QED
    BY <2>1, FS_EmptySet, Constants DEF Init, ConnectionsInv
<1>7. EndpointInv
  BY DEF Init, Endpoint!Init, EndpointInv
<1> QED
  BY <1>3, <1>4, <1>5, <1>6, <1>7 DEF IInv

\* Next, by its disjuncts.
LEMMA HandleInv ==
    ASSUME IInv, NEW c \in Clients, Handle(c) \/ Reject(c)
    PROVE  IInv'
<1>1. CASE ReadEnds(c) \/ ReplyFails(c) \/ Reject(c)
  <2>1. /\ client[c].h \in {"reading", "replying"} /\ Leave(c)
        /\ UNCHANGED <<admitted, lockVars, upstream>>
    BY <1>1 DEF ReadEnds, ReplyFails, Reject
  <2> QED
    BY <2>1, LeaveInv
<1>2. CASE CallEnds(c) \/ CallDeadline(c)
  BY <1>2, WaitEndsInv
<1>3. CASE CallReturns(c)
  BY <1>3, CallReturnsInv
<1>4. CASE Replied(c)
  BY <1>4, RepliedInv
<1> QED
  BY <1>1, <1>2, <1>3, <1>4 DEF Handle

LEMMA ReceiveInv ==
    ASSUME IInv, NEW c \in Clients, Receive(c)
    PROVE  IInv'
BY RxSentenceInv, RxStopInv, RxNoticedInv DEF Receive

LEMMA WorkInv ==
    ASSUME IInv, NEW c \in Clients, Work(c)
    PROVE  IInv'
<1>1. CASE TxTimeout(c)
  <2>1. Active(client[c]) /\ Interrupt(c, "failed")
    BY <1>1 DEF TxTimeout, Active
  <2> QED
    BY <2>1, InterruptInv
<1>2. CASE TxRaises(c) \/ TxWritten(c) \/ TxFinish(c)
  BY <1>2, TxOutsideInv
<1>3. CASE TxPrepared(c) \/ TxGet(c) \/ TxAcquire(c) \/ TxAttempt(c)
  BY <1>3, TxPreparedInv, TxGetInv, TxAcquireInv, TxAttemptInv
<1>4. CASE TxBusy(c) \/ TxAudio(c) \/ TxFails(c)
  BY <1>4, TxBusyInv, TxAudioInv, TxFailsInv
<1> QED
  BY <1>1, <1>2, <1>3, <1>4 DEF Work

LEMMA UnwindInv ==
    ASSUME IInv, NEW c \in Clients, Unwind(c)
    PROVE  IInv'
<1>1. CASE CancelRx(c)
  BY <1>1, RxNoticedInv
<1>2. CASE CancelTx(c)
  <2>1. CASE Interrupt(c, "cancelled")
    <3>1. Active(client[c])
      BY <1>2 DEF CancelTx, Active
    <3> QED
      BY <3>1, <2>1, InterruptInv
  <2>2. CASE /\ client[c].h = "unwinding"
             /\ client[c].tx \in {"prepare", "get", "write", "finish"}
             /\ Become(c, To(c, "cancelled"))
             /\ UNCHANGED <<counters, lockVars, upstream>>
    BY <2>2, TxOutsideInv
  <2> QED
    BY <1>2, <2>1, <2>2 DEF CancelTx
<1>3. CASE TxReaped(c)
  BY <1>3, TxReapedInv
<1> QED
  BY <1>1, <1>2, <1>3 DEF Unwind

LEMMA NextInv == IInv /\ [Next]_vars => IInv'
<1> SUFFICES ASSUME IInv, [Next]_vars PROVE IInv'
  OBVIOUS
<1>1. CASE UNCHANGED vars
  <2>1. UNCHANGED <<connections, admitted, serial, queue, client, serving, reloading, reply>>
    BY <1>1 DEF vars, counters, lockVars, upstream
  <2> QED
    BY <2>1 DEF IInv, CallInv, LockInv, AdmittedInv, ConnectionsInv, EndpointInv, InCall
<1>2. CASE EndpointStep
  BY <1>2, EndpointStepInv
<1>3. ASSUME NEW c \in Clients,
             \/ Connect(c) \/ (\E kind \in Kinds(c) : Admit(c, kind)) \/ Reject(c)
             \/ Handle(c) \/ Receive(c) \/ Work(c) \/ Unwind(c)
      PROVE  IInv'
  <2>1. CASE Connect(c)
    BY <2>1, ConnectInv
  <2>2. CASE \E kind \in Kinds(c) : Admit(c, kind)
    BY <2>2, AdmitInv
  <2>3. CASE Handle(c) \/ Reject(c)
    BY <2>3, HandleInv
  <2>4. CASE Receive(c)
    BY <2>4, ReceiveInv
  <2>5. CASE Work(c)
    BY <2>5, WorkInv
  <2>6. CASE Unwind(c)
    BY <2>6, UnwindInv
  <2> QED
    BY <1>3, <2>1, <2>2, <2>3, <2>4, <2>5, <2>6
<1> QED
  BY <1>1, <1>2, <1>3 DEF Next

\* The strengthening holds in every state: initially, and after every step of a
\* handler, of the tasks of a call, and of the endpoint.
THEOREM Invariant == Spec => []IInv
<1>1. Init => IInv
  BY InitInv
<1>2. IInv /\ [Next]_vars => IInv'
  BY NextInv
<1> QED
  BY <1>1, <1>2, PTL DEF Spec

-----------------------------------------------------------------------------
(* The properties.                                                          *)

\* The counters stay within their limits, and every other variable keeps its type.
THEOREM TypeCorrect == Spec => []TypeOK
<1>1. IInv => TypeOK
  BY DEF IInv, TypeOK, CallInv, LockInv, AdmittedInv, ConnectionsInv, EndpointInv
<1> QED
  BY <1>1, Invariant, PTL

\* The counters that admit clients and calls are exact in every state.
THEOREM Counted == Spec => []CountersExact
<1>1. IInv => CountersExact
  BY DEF IInv, CountersExact, AdmittedInv, ConnectionsInv
<1> QED
  BY <1>1, Invariant, PTL

\* Those that hold the lock or wait for it are calls, each once, and there are at
\* most MaxAdmitted calls.
LEMMA LockBounded ==
    ASSUME IInv
    PROVE  Len(queue) + (IF serial = None THEN 0 ELSE 1) <= MaxAdmitted
<1> DEFINE Calls == {c \in Clients : InCall(c)}
           waiters == Calls \ {serial}
           n == Len(queue)
<1>1. /\ IsFiniteSet(Calls) /\ Cardinality(Calls) \in Nat
      /\ Cardinality(Calls) = admitted /\ admitted <= MaxAdmitted
      /\ n \in Nat /\ MaxAdmitted \in Nat
  BY CallsFinite, Constants, LenProperties DEF IInv, AdmittedInv, LockInv
<1>2. \A c \in Clients : Holder(client[c]) \/ Waiter(client[c]) => c \in Calls
  BY Call, NoTask DEF InCall
<1>3. /\ IsFiniteSet(waiters)
      /\ Cardinality(waiters) + (IF serial = None THEN 0 ELSE 1) <= MaxAdmitted
  <2>1. CASE serial = None
    <3>1. waiters = Calls
      BY <2>1, ServiceAssumption
    <3> HIDE DEF waiters, Calls
    <3> QED
      BY <3>1, <2>1, <1>1
  <2>2. CASE serial # None
    <3>1. serial \in Calls
      BY <2>2, <1>2 DEF IInv, LockInv
    <3>2. IsFiniteSet(waiters) /\ Cardinality(waiters) = Cardinality(Calls) - 1
      BY <3>1, <1>1, FS_RemoveElement
    <3> QED
      BY <3>2, <2>2, <1>1
  <2> QED
    BY <2>1, <2>2
<1>4. queue \in [1..n -> waiters]
  <2>1. queue \in [1..n -> Clients]
    BY LenProperties DEF IInv, LockInv
  <2>2. ASSUME NEW i \in 1..n PROVE queue[i] \in waiters
    <3>1. queue[i] \in Clients /\ Has(queue, queue[i])
      BY <2>1 DEF Has
    <3>2. Waiter(client[queue[i]])
      BY <3>1 DEF IInv, LockInv
    <3>3. ~Holder(client[queue[i]])
      BY <3>2 DEF Holder, Waiter
    <3>4. serial # queue[i]
      BY <3>1, <3>3 DEF IInv, LockInv
    <3> QED
      BY <3>1, <3>2, <3>4, <1>2
  <2> QED
    BY <2>1, <2>2
<1>5. IsFiniteSet(1..n) /\ Cardinality(1..n) = n
  <2> HIDE DEF n
  <2>1. 1 \in Int /\ n \in Int
    BY <1>1
  <2>2. IsFiniteSet(1..n) /\ Cardinality(1..n) = IF 1 > n THEN 0 ELSE n - 1 + 1
    BY <2>1, FS_Interval
  <2> QED
    BY <2>2, <1>1
<1>6. Cardinality(waiters) \in Nat
  BY <1>3, FS_CardinalityType
<1>7. ~(Cardinality(waiters) < n)
  <2> SUFFICES ASSUME Cardinality(waiters) < n PROVE FALSE
    OBVIOUS
  <2> HIDE DEF waiters
  <2>1. \E i, j \in 1..n : i # j /\ queue[i] = queue[j]
    BY <1>3, <1>4, <1>5, FS_PigeonHole
  <2> QED
    BY <2>1 DEF IInv, LockInv, Once
<1> HIDE DEF waiters, n
<1>8. n + (IF serial = None THEN 0 ELSE 1) <= MaxAdmitted
  BY <1>1, <1>3, <1>6, <1>7
<1> QED
  BY <1>8 DEF n

\* At most one call has a child process and the other one waits, for any number of
\* clients: the lock is never lost, and never kept by a call that is over.
THEOREM OneActive == Spec => []OneActiveOneWaiting
<1>1. IInv => OneActiveOneWaiting
  <2> SUFFICES ASSUME IInv PROVE OneActiveOneWaiting
    OBVIOUS
  <2>1. \A c \in Clients : serial = c <=> client[c].tx \in {"infer", "reap"}
    BY DEF IInv, LockInv, Holder
  <2>2. DOMAIN queue = 1..Len(queue)
    BY LenProperties DEF IInv, LockInv
  <2>3. \A c \in Clients : (\E i \in DOMAIN queue : queue[i] = c) <=> client[c].tx = "lock"
    BY <2>2 DEF IInv, LockInv, Has, Waiter
  <2> QED
    BY <2>1, <2>3, LockBounded DEF OneActiveOneWaiting
<1> QED
  BY <1>1, Invariant, PTL

\* No sentence of a stream is lost, repeated or overtaken, however long the stream
\* is, and a call that succeeds has spoken all of them.
THEOREM InOrder == Spec => []SpokenInOrder
<1>1. IInv => SpokenInOrder
  <2> SUFFICES ASSUME IInv, NEW c \in Clients
               PROVE  /\ \A i \in DOMAIN client[c].spoken : client[c].spoken[i] = i
                      /\ Len(client[c].spoken) <= client[c].said
                      /\ client[c].ok => Len(client[c].spoken) = client[c].said
    BY DEF SpokenInOrder
  <2> DEFINE r == client[c]
  <2>1. r \in Client /\ Fine(r)
    BY Call
  <2>2. r.kind \in Kind /\ r.spoken \in Seq(Text) /\ DOMAIN r.spoken = 1..Len(r.spoken)
    BY <2>1, Fields, LenProperties
  <2> HIDE DEF r
  <2>3. (\A i \in DOMAIN r.spoken : r.spoken[i] = i) /\ Len(r.spoken) <= r.said
    BY <2>1, <2>2 DEF Fine
  <2>4. r.ok => Len(r.spoken) = r.said
    <3> SUFFICES ASSUME r.ok PROVE Len(r.spoken) = r.said
      OBVIOUS
    <3>1. r.tx = "done" /\ r.kind \in {"request", "stream"}
      BY <2>1, <2>2 DEF Fine, Kind
    <3>2. CASE r.kind = "request"
      BY <2>1, <3>1, <3>2 DEF Fine, RequestFine
    <3>3. CASE r.kind = "stream"
      BY <2>1, <3>1, <3>3 DEF Fine, StreamFine
    <3> QED
      BY <3>1, <3>2, <3>3
  <2> QED
    BY <2>3, <2>4 DEF r
<1> QED
  BY <1>1, Invariant, PTL
=============================================================================
