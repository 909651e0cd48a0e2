--------------------------- MODULE MCSpeechService --------------------------
(* Small instances of SpeechService for TLC: the .cfg files SpeechService_*. *)
EXTENDS SpeechService, TLC

\* Clients that may not stream are alike; used without liveness only.
Alike == Permutations(Clients \ Streaming)
=============================================================================
