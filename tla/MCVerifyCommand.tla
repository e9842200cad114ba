--------------------------- MODULE MCVerifyCommand ---------------------------
(***************************************************************************)
(* VerifyCommand for TLC: an administrator, an ordinary user and the       *)
(* service, two test names and a production name, two certificates of the  *)
(* same name; fingerprints of two bytes instead of 32, in arguments of up  *)
(* to two characters more than their four digits.                          *)
(***************************************************************************)
EXTENDS TrustIsArgument, TLC

MCProc == {"admin", "ordinary", "local"}
MCwho  == "admin" :> "administrator" @@ "ordinary" :> "user" @@ "local" :> "service"

MCCert    == {"production CA", "other CA"}
MCSimilar == [c \in MCCert |-> MCCert \ {c}]

MCChar  == {"a", "F", "g", " ", "NBSP"}
MCSpace == {" ", "NBSP"}
MCWide  == {"NBSP"}
MChex   == "a" :> 10 @@ "F" :> 15
=============================================================================
