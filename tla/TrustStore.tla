----------------------------- MODULE TrustStore -----------------------------
(***************************************************************************)
(* What the package's calls rely on in the TrustStore interface            *)
(* (truststore.go): each operation takes effect, and finds its answer, at  *)
(* one moment between its call and its return, and one that returns an     *)
(* error has changed nothing.  MachineStores takes each operation to be    *)
(* one such moment; TrustStoreWindows implements them.                     *)
(***************************************************************************)
CONSTANTS
  Proc,     \* the callers
  Cert,     \* the certificates
  EmptyDER, \* no certificate at all, an argument every operation refuses
  Similar   \* Similar[c]: the certificates that count as conflicting with c

VARIABLES
  anchors,  \* what is in the Root store
  op,       \* the operation each process has called
  cert,     \* the certificate it is about
  phase,    \* "called", then "known" (answered) or "done" (changed), then "idle"
  answer    \* what the operation returns

vars == <<anchors, op, cert, phase, answer>>

Reading == {"VerifyTrust", "IsTrustedSHA256"}
Removal == {"RemoveTrust", "RemoveTrustBySHA256"}
Operation == {"InstallTrust"} \cup Removal \cup Reading
Verdict == {"ok", "notFound", "error", "true", "false", "healthy", "conflict", "absent"}

Init ==
  /\ anchors \in SUBSET Cert
  /\ op = [p \in Proc |-> "none"] /\ cert = [p \in Proc |-> EmptyDER]
  /\ phase = [p \in Proc |-> "idle"]
  /\ answer = [p \in Proc |-> "none"]

Call(p) ==
  /\ phase[p] = "idle"
  /\ \E o \in Operation, c \in Cert \cup {EmptyDER} :
       op' = [op EXCEPT ![p] = o] /\ cert' = [cert EXCEPT ![p] = c]
  /\ phase' = [phase EXCEPT ![p] = "called"]
  /\ UNCHANGED <<anchors, answer>>

\* The state of trust of c.
Trust(c) == IF c = EmptyDER THEN "error"
            ELSE IF c \in anchors THEN "healthy"
            ELSE IF Similar[c] \cap anchors # {} THEN "conflict" ELSE "absent"

\* What an operation can answer at this moment without a change.
Right(o, c, a) ==
  \/ o = "VerifyTrust" /\ a = Trust(c)
  \/ o = "IsTrustedSHA256" /\ a = (IF c \in anchors THEN "true" ELSE "false")
  \/ o = "InstallTrust" /\ c \in anchors /\ a = "ok"
  \/ o \in Removal /\ c \notin anchors /\ a = "notFound"
  \/ a = "error"

Know(p) ==
  /\ phase[p] = "called"
  /\ \E a \in Verdict : Right(op[p], cert[p], a) /\ answer' = [answer EXCEPT ![p] = a]
  /\ phase' = [phase EXCEPT ![p] = "known"]
  /\ UNCHANGED <<anchors, op, cert>>

\* Exactly the one certificate goes in or out.
Change(p) ==
  /\ phase[p] = "called" /\ op[p] \notin Reading /\ cert[p] \in Cert
  /\ anchors' = IF op[p] = "InstallTrust" THEN anchors \cup {cert[p]}
                                          ELSE anchors \ {cert[p]}
  /\ phase' = [phase EXCEPT ![p] = "done"]
  /\ answer' = [answer EXCEPT ![p] = "ok"]
  /\ UNCHANGED <<op, cert>>

\* An operation that has changed nothing may fail even after its moment.
Lose(p) ==
  /\ phase[p] = "known"
  /\ answer' = [answer EXCEPT ![p] = "error"]
  /\ UNCHANGED <<anchors, op, cert, phase>>

Return(p) ==
  /\ phase[p] \in {"known", "done"}
  /\ phase' = [phase EXCEPT ![p] = "idle"]
  /\ op' = [op EXCEPT ![p] = "none"] /\ cert' = [cert EXCEPT ![p] = EmptyDER]
  /\ answer' = [answer EXCEPT ![p] = "none"]
  /\ UNCHANGED anchors

Next == \E p \in Proc : Call(p) \/ Know(p) \/ Change(p) \/ Lose(p) \/ Return(p)

Spec == Init /\ [][Next]_vars
=============================================================================
