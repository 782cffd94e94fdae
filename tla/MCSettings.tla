---- MODULE MCSettings ----
(* Settings for TLC.  Instances are interchangeable: nothing orders them. *)
EXTENDS Settings, TLC

Symmetry == Permutations(Instances)

====
