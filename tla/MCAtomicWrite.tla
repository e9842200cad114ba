---------------------------- MODULE MCAtomicWrite ----------------------------
(***************************************************************************)
(* AtomicWrite for TLC.                                                    *)
(***************************************************************************)
EXTENDS AtomicWrite, TLC

\* Writers are interchangeable, and so are values.
Symmetry == Permutations(Writer) \cup Permutations(Value)
=============================================================================
