-------------------------- MODULE SettingsRegister --------------------------
(***************************************************************************)
(* What the speech settings promise their callers: one register that       *)
(* outlives the service.  An update either takes effect whole, once, or is *)
(* refused and leaves no trace; a reader, and the answer to an update,     *)
(* shows a value the register had while the request was served, never one  *)
(* from before the update it answers.  SettingsStore implements it.        *)
(***************************************************************************)

CONSTANTS
    Clients,    \* the requests served at a time
    Default,    \* the settings before any update
    Patches     \* the updates and the options of a synthesis request

VARIABLES
    value,      \* the settings
    request     \* per client: the request being served

vars == <<value, request>>

\* Settings s with a patch laid over them.
Patched(s, patch) == [k \in DOMAIN s |-> IF k \in DOMAIN patch THEN patch[k] ELSE s[k]]

NoPatch == [k \in {} |-> {}]

Request(kind, patch, settings) == [kind |-> kind, patch |-> patch, settings |-> settings]
NoRequest == Request("none", NoPatch, Default)

Init ==
    /\ value = Default
    /\ request = [c \in Clients |-> NoRequest]

(* An update that has yet to take effect, or a request for the current     *)
(* settings with options laid over them.                                   *)
Ask(c, kind, patch) ==
    /\ request[c].kind = "none"
    /\ request' = [request EXCEPT ![c] = Request(kind, patch, Default)]
    /\ UNCHANGED value

(* An update takes effect; what remains is to show the result.             *)
Commit(c) ==
    /\ request[c].kind = "update"
    /\ value' = Patched(value, request[c].patch)
    /\ request' = [request EXCEPT ![c] = Request("read", NoPatch, Default)]

Show(c) ==
    /\ request[c].kind = "read"
    /\ request' = [request EXCEPT ![c] =
           Request("shown", NoPatch, Patched(value, request[c].patch))]
    /\ UNCHANGED value

Refuse(c) ==
    /\ request[c].kind = "update"
    /\ request' = [request EXCEPT ![c] = Request("refused", NoPatch, Default)]
    /\ UNCHANGED value

Answer(c) ==
    /\ request[c].kind \in {"shown", "refused"}
    /\ request' = [request EXCEPT ![c] = NoRequest]
    /\ UNCHANGED value

(* The service stops; the settings stay.                                   *)
Stop ==
    /\ request' = [c \in Clients |-> NoRequest]
    /\ UNCHANGED value

Next ==
    \/ \E c \in Clients :
          \/ \E kind \in {"update", "read"}, patch \in Patches : Ask(c, kind, patch)
          \/ Commit(c) \/ Show(c) \/ Refuse(c) \/ Answer(c)
    \/ Stop

Spec == Init /\ [][Next]_vars

=============================================================================
