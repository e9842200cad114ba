----------------------------- MODULE MCLocalTLS -----------------------------
(***************************************************************************)
(* LocalTLS for TLC.  One unit of time is 30 days, so that a server        *)
(* certificate lives three and is renewed in the last; the CA lives four,  *)
(* so that the second server certificate is already capped by it.          *)
(***************************************************************************)
EXTENDS LocalTLSInvariants, TLC

\* The calling processes are interchangeable.
Symmetry == Permutations(Proc)
=============================================================================
