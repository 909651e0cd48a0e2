------------------------ MODULE MCVersionPreparation ------------------------
(* Two operators who may change places.                                    *)
EXTENDS VersionPreparation, TLC

Interchangeable == Permutations(Operators)

=============================================================================
