---------------------------- MODULE SettingsStore ---------------------------
(***************************************************************************)
(* The Silero settings of the Russian speech service: SettingsStore of     *)
(* igw_google_voice/speech_settings.py under the threads of                *)
(* igw_google_voice/speech_api.py, one per request (GET and PATCH          *)
(* /v1/settings, and POST /v1/speech, which lays its options over them).   *)
(*                                                                         *)
(* A step is what a thread does between two points where another can run   *)
(* or the process can die: every system call on the temporary file is one. *)
(* The process may be killed at any step and started again: it then reads  *)
(* the settings file and nothing else.  The service is configured with     *)
(* such a file (without one a restart gives the defaults again).           *)
(* Names ending in _m are mutants.                                         *)
(***************************************************************************)

CONSTANTS
    Threads,      \* requests served at a time
    Keys, Level,  \* the settings and their values
    Default,      \* DEFAULTS, with the voice the service is started with
    None          \* no file, no lock holder, no answer

Settings == [Keys -> Level]
Patches == UNION {[keys -> Level] : keys \in SUBSET Keys}
NoPatch == [k \in {} |-> {}]

ASSUME SettingsAssumption ==
    /\ Default \in Settings
    /\ None \notin Threads \cup Settings

VARIABLES
    values,   \* store.values; None while the process is down
    lock,     \* the holder of store.lock
    file,     \* the settings file
    thread    \* per thread: the request it serves

vars == <<values, lock, file, thread>>

Up == values # None

\* at: where the thread is; patch: the validated patch; new: the settings it is
\* about to store; temporary: what its temporary file holds; status and shown:
\* the answer
Stage == {"idle", "update", "create", "write", "replace", "publish", "show", "answer"}
Status == {0, 200, 400, 503}
Maybe == Settings \cup {None}
Thread == [at : Stage, patch : Patches, new : Settings, temporary : Maybe,
           status : Status, shown : Maybe]

Idle == [at |-> "idle", patch |-> NoPatch, new |-> Default, temporary |-> None,
         status |-> 0, shown |-> None]

\* What a service reads when it starts.
Loaded == IF file = None THEN Default ELSE file

Patched(s, patch) == [k \in Keys |-> IF k \in DOMAIN patch THEN patch[k] ELSE s[k]]

TypeOK ==
    /\ values \in Settings \cup {None}
    /\ lock \in Threads \cup {None}
    /\ file \in Settings \cup {None}
    /\ thread \in [Threads -> Thread]

Init ==
    /\ values = Default
    /\ lock = None
    /\ file = None
    /\ thread = [t \in Threads |-> Idle]

-----------------------------------------------------------------------------
(* A request arrives, is authorized, and its patch or its options are      *)
(* validated; a GET brings none.                                           *)
Receive(t) ==
    /\ Up
    /\ thread[t].at = "idle"
    /\ \E patch \in Patches, at \in {"update", "show"} :
          thread' = [thread EXCEPT ![t].at = at, ![t].patch = patch]
    /\ UNCHANGED <<values, lock, file>>

(* An invalid one is answered without touching the store.                  *)
Reject(t) ==
    /\ Up
    /\ thread[t].at = "idle"
    /\ thread' = [thread EXCEPT ![t].at = "answer", ![t].status = 400]
    /\ UNCHANGED <<values, lock, file>>

(* update: the lock, and the patch laid over the values of that moment.    *)
Lock_m(t) ==
    /\ thread[t].at = "update"
    /\ lock' = t
    /\ thread' = [thread EXCEPT ![t].at = "create",
                                ![t].new = Patched(values, thread[t].patch)]
    /\ UNCHANGED <<values, file>>

Lock(t) ==
    /\ thread[t].at = "update"
    /\ lock = None
    /\ lock' = t
    /\ thread' = [thread EXCEPT ![t].at = "create",
                                ![t].new = Patched(values, thread[t].patch)]
    /\ UNCHANGED <<values, file>>

(* The temporary file, empty.                                              *)
Create(t) ==
    /\ thread[t].at = "create"
    /\ thread' = [thread EXCEPT ![t].at = "write"]
    /\ UNCHANGED <<values, lock, file>>

(* write, flush and fsync.                                                 *)
Write(t) ==
    /\ thread[t].at = "write"
    /\ thread' = [thread EXCEPT ![t].at = "replace", ![t].temporary = thread[t].new]
    /\ UNCHANGED <<values, lock, file>>

(* os.replace, and the unlink that then has nothing to remove.             *)
Replace(t) ==
    /\ thread[t].at = "replace"
    /\ file' = thread[t].temporary
    /\ thread' = [thread EXCEPT ![t].at = "publish", ![t].temporary = None]
    /\ UNCHANGED <<values, lock>>

(* A call on the temporary file raises OSError: it is unlinked, the lock   *)
(* is released, the values stay and the answer is 503.                     *)
Refuse_m(t) ==
    /\ thread[t].at \in {"create", "write", "replace"}
    /\ values' = thread[t].new
    /\ lock' = None
    /\ thread' = [thread EXCEPT ![t] = [Idle EXCEPT !.at = "answer", !.status = 503]]
    /\ UNCHANGED file

Refuse(t) ==
    /\ thread[t].at \in {"create", "write", "replace"}
    /\ lock' = None
    /\ thread' = [thread EXCEPT ![t] = [Idle EXCEPT !.at = "answer", !.status = 503]]
    /\ UNCHANGED <<values, file>>

(* The new values are published and the lock is released.                  *)
Publish(t) ==
    /\ thread[t].at = "publish"
    /\ values' = thread[t].new
    /\ lock' = None
    /\ thread' = [thread EXCEPT ![t] = [Idle EXCEPT !.at = "show"]]
    /\ UNCHANGED file

(* snapshot: the lock is taken and released around one copy.  describe     *)
(* calls it for a GET and, once update has released the lock, for a PATCH. *)
Snapshot(t) ==
    /\ thread[t].at = "show"
    /\ lock = None
    /\ thread' = [thread EXCEPT ![t] = [Idle EXCEPT
           !.at = "answer", !.status = 200, !.shown = Patched(values, thread[t].patch)]]
    /\ UNCHANGED <<values, lock, file>>

Answer(t) ==
    /\ thread[t].at = "answer"
    /\ thread' = [thread EXCEPT ![t] = Idle]
    /\ UNCHANGED <<values, lock, file>>

-----------------------------------------------------------------------------
(* The process is killed: its threads are gone.  A temporary file may stay *)
(* behind, which nothing ever reads.                                       *)
Crash ==
    /\ Up
    /\ values' = None
    /\ lock' = None
    /\ thread' = [t \in Threads |-> Idle]
    /\ UNCHANGED file

Restart ==
    /\ ~Up
    /\ values' = Loaded
    /\ UNCHANGED <<lock, file, thread>>

Next ==
    \/ \E t \in Threads :
          \/ Receive(t) \/ Reject(t) \/ Lock(t) \/ Create(t) \/ Write(t)
          \/ Replace(t) \/ Refuse(t) \/ Publish(t) \/ Snapshot(t) \/ Answer(t)
    \/ Crash
    \/ Restart

Spec == Init /\ [][Next]_vars

-----------------------------------------------------------------------------
Storing == {"create", "write", "replace", "publish"}

(* Whatever the interleaving of updates, failures and restarts: while no    *)
(* update is being stored, what requests are served from is what a restart  *)
(* would load ("never publish unpersisted values"), and a temporary file    *)
(* about to replace the settings was made by the one update in progress     *)
(* from the values still being served.                                      *)
ServedIsStored ==
    /\ Up /\ lock = None => values = Loaded
    /\ \A t \in Threads : thread[t].at \in Storing => lock = t
    /\ \A t \in Threads :
          thread[t].at \in Storing =>
              thread[t].new = Patched(values, thread[t].patch)

\* The request a thread serves, as a caller sees it: an update takes effect
\* when its file replaces the settings file.
Seen(t) ==
    LET request(kind, patch, settings) ==
            [kind |-> kind, patch |-> patch, settings |-> settings]
        r == thread[t]
    IN  CASE r.at \in {"update", "create", "write", "replace"} ->
                request("update", r.patch, Default)
          [] r.at = "publish" -> request("read", NoPatch, Default)
          [] r.at = "show" -> request("read", r.patch, Default)
          [] r.at = "answer" /\ r.status = 200 -> request("shown", NoPatch, r.shown)
          [] r.at = "answer" /\ r.status = 503 -> request("refused", NoPatch, Default)
          [] OTHER -> request("none", NoPatch, Default)

Register == INSTANCE SettingsRegister
    WITH Clients <- Threads, value <- Loaded, request <- [t \in Threads |-> Seen(t)]

(* The settings are one register that survives restarts: an update answered *)
(* 200 has replaced the file exactly once, its answer is not older than its *)
(* own effect although the lock was released in between, one answered 503   *)
(* or cut short before the replacement left no trace, and no two updates    *)
(* overwrite each other's keys.                                             *)
RegisterSpec == Register!Spec

=============================================================================
