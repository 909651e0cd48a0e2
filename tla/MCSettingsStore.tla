-------------------------- MODULE MCSettingsStore ---------------------------
(* Three requests at a time on two settings of two values.                 *)
EXTENDS SettingsStore, TLC

BothOff == [k \in Keys |-> "off"]

Interchangeable == Permutations(Threads) \union Permutations(Keys)

=============================================================================
