---------------------------- MODULE MCLifecycle -----------------------------
(* Instances of Lifecycle for TLC. *)
EXTENDS Lifecycle, TLC

\* The goroutines are interchangeable, and so are the objects of each kind.
Symmetry == Permutations(Goroutines) \cup Permutations(Devices)
                \cup Permutations(Configs) \cup Permutations(Interfaces)
=============================================================================
