--------------------------- MODULE MCSynthesizer ----------------------------
(* Small instances of Synthesizer for TLC: the .cfg files Synthesizer_*. *)
EXTENDS Synthesizer, TLC
=============================================================================
