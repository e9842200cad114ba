---------------------------- MODULE MCTrustStore ----------------------------
(***************************************************************************)
(* TrustStoreWindows for TLC.  The production CA and the smoke-test CA     *)
(* have the same name; a third certificate has no name, but an             *)
(* organization that is called the same, in capitals.                      *)
(***************************************************************************)
EXTENDS TrustStoreWindows, TLC

CONSTANTS production, smoke, unnamed

MCcn == [c \in Cert |-> IF c = unnamed THEN << >> ELSE <<"Local", "CA">>]

\* The organization and the name.
MCsubject == [c \in Cert |->
  (IF c = unnamed THEN <<"LOCAL", "CA">> ELSE <<"Org">>) \o MCcn[c]]

MClower == [w \in {"Org", "Local", "LOCAL", "CA"} |->
  CASE w = "LOCAL" -> "Local" [] OTHER -> w]

\* The callers are interchangeable.
Symmetry == Permutations(Proc)
=============================================================================
