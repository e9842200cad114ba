--------------------------- MODULE TrustIsArgument ---------------------------
(***************************************************************************)
(* The verification command with the argument of -trust-is as it is typed: *)
(* what Fingerprint reads there decides whether the invocation of          *)
(* VerifyCommand ends at once or asks the Root store.                      *)
(***************************************************************************)
EXTENDS VerifyCommand, Fingerprint

TypedInit == Init /\ arg = <<>>

\* Bound: only the argument of the first invocation is typed.
Typing == runs = 0 /\ Type /\ UNCHANGED vars

\* A malformed fingerprint is wrong usage, any other is looked for.
RunTrustIs(p) ==
  /\ arg # <<>> /\ arg' = <<>>
  /\ readArgument(p) /\ Observe
  /\ IF trustIsFingerprint(arg) = Error THEN exit'[p] = 2
                                        ELSE command'[p] = "-trust-is"

TypedNext ==
  \/ Typing
  \/ \E p \in Proc : RunTrustIs(p)
  \/ arg = <<>> /\ Next /\ UNCHANGED arg

TypedSpec == TypedInit /\ [][TypedNext]_<<vars, arg>>
=============================================================================
