-------------------------- MODULE TrustStoreWindows --------------------------
(***************************************************************************)
(* windowsTrustStore (truststore_windows.go): the operations of TrustStore *)
(* as sequences of CryptoAPI calls on LocalMachine\Root.  Each operation   *)
(* opens the store, enumerates it for the certificate with the fingerprint *)
(* it looks for, and owns the contexts that the calls hand out.            *)
(*                                                                         *)
(* Named assumption: a handle sees the store as it was when it was opened  *)
(* (the provider reads a system store from the registry then); a change    *)
(* goes to the registry.  A fingerprint stands for its certificate.        *)
(***************************************************************************)
EXTENDS Integers, Sequences

CONSTANTS
  Proc,       \* the callers
  Cert,       \* the certificates
  EmptyDER,   \* an argument of length zero
  cn,         \* the name of each certificate, a sequence of words
  subject,    \* everything its subject says, a sequence of words
  lower,      \* each word in lower case
  MaxFaults   \* bound: calls of the system that fail

ASSUME CertAssumption ==
  /\ EmptyDER \notin Cert
  /\ cn \in [Cert -> Seq(DOMAIN lower)] /\ subject \in [Cert -> Seq(DOMAIN lower)]
  /\ MaxFaults \in Nat

VARIABLES
  anchors,   \* the certificates in LocalMachine\Root
  op, cert,  \* the operation each process has called and its argument
  pc,        \* its next call of the system
  view,      \* what its store handle sees
  todo,      \* what its enumeration has not come to yet
  store,     \* number of store handles it holds,
  existing,  \* of contexts from the enumeration,
  certCtx,   \* and of contexts it created
  deferred,  \* what it releases when it returns
  answer,    \* what it returns
  faults     \* how much of MaxFaults is used

locals == <<op, cert, view>>
refs   == <<store, existing, certCtx>>
vars   == <<anchors, locals, pc, todo, refs, deferred, answer, faults>>

Reading == {"VerifyTrust", "IsTrustedSHA256"}
Removal == {"RemoveTrust", "RemoveTrustBySHA256"}
Operation == {"InstallTrust"} \cup Removal \cup Reading

Init ==
  /\ anchors \in SUBSET Cert
  /\ op = [p \in Proc |-> "none"] /\ cert = [p \in Proc |-> EmptyDER]
  /\ pc = [p \in Proc |-> "idle"]
  /\ view = [p \in Proc |-> {}] /\ todo = [p \in Proc |-> {}]
  /\ store = [p \in Proc |-> 0] /\ existing = [p \in Proc |-> 0]
  /\ certCtx = [p \in Proc |-> 0]
  /\ deferred = [p \in Proc |-> {}]
  /\ answer = [p \in Proc |-> "none"]
  /\ faults = 0

Goto(p, step) == pc' = [pc EXCEPT ![p] = step] /\ UNCHANGED answer

\* The operation returns this; its deferred releases come first.
Answer(p, a) == pc' = [pc EXCEPT ![p] = "close"] /\ answer' = [answer EXCEPT ![p] = a]

Fault == faults < MaxFaults /\ faults' = faults + 1

Defer(p, kind) == deferred' = [deferred EXCEPT ![p] = @ \cup {kind}]

\* EnsureTrusted is InstallTrust.
Call(p) ==
  /\ pc[p] = "idle"
  /\ \E o \in Operation, c \in Cert \cup {EmptyDER} :
       /\ c = EmptyDER => o \notin {"RemoveTrustBySHA256", "IsTrustedSHA256"}
       /\ op' = [op EXCEPT ![p] = o] /\ cert' = [cert EXCEPT ![p] = c]
  /\ pc' = [pc EXCEPT ![p] = "open"]
  /\ UNCHANGED <<anchors, view, todo, refs, deferred, answer, faults>>

\* openMachineRootStore, or its read-only form.
Open(p) ==
  /\ pc[p] = "open"
  /\ \/ /\ cert[p] # EmptyDER
        /\ view' = [view EXCEPT ![p] = anchors]
        /\ todo' = [todo EXCEPT ![p] = anchors]
        /\ store' = [store EXCEPT ![p] = @ + 1] /\ Defer(p, "store")
        /\ Goto(p, IF op[p] = "VerifyTrust" THEN "create" ELSE "search")
        /\ UNCHANGED faults
     \/ /\ \/ cert[p] = EmptyDER /\ UNCHANGED faults
           \/ Fault
        /\ Answer(p, "error")
        /\ UNCHANGED <<view, todo, store, deferred>>
  /\ UNCHANGED <<anchors, op, cert, existing, certCtx>>

\* Mutant: the release of the context is not deferred.
CreateContext_undeferred(p) ==
  /\ pc[p] = "create"
  /\ certCtx' = [certCtx EXCEPT ![p] = @ + 1]
  /\ Goto(p, IF op[p] = "VerifyTrust" THEN "search" ELSE "add")
  /\ UNCHANGED <<anchors, locals, todo, store, existing, deferred, faults>>

\* CertCreateCertificateContext: VerifyTrust does it to learn the name,
\* InstallTrust to add it.
CreateContext(p) ==
  /\ pc[p] = "create"
  /\ \/ /\ certCtx' = [certCtx EXCEPT ![p] = @ + 1] /\ Defer(p, "certCtx")
        /\ Goto(p, IF op[p] = "VerifyTrust" THEN "search" ELSE "add")
        /\ UNCHANGED faults
     \/ Fault /\ Answer(p, "error") /\ UNCHANGED <<certCtx, deferred>>
  /\ UNCHANGED <<anchors, locals, todo, store, existing>>

\* The context that the enumeration came to last, if any: the next call of
\* CertEnumCertificatesInStore frees it.
Previous(p) == IF todo[p] = view[p] THEN 0 ELSE 1

\* What each operation does with the certificate found.
Found(p) ==
  \/ op[p] \in Removal /\ Goto(p, "delete")
  \/ op[p] = "InstallTrust" /\ Answer(p, "ok")
  \/ op[p] = "VerifyTrust" /\ Answer(p, "healthy")
  \/ op[p] = "IsTrustedSHA256" /\ Answer(p, "true")

\* The context found is the caller's, who frees it at once or deletes it.
NextCertificate(p, c) ==
  /\ todo' = [todo EXCEPT ![p] = @ \ {c}]
  /\ \/ c = cert[p] /\ Found(p)
     \/ c # cert[p] /\ Goto(p, "search")
  /\ existing' = [existing EXCEPT ![p] =
       @ - Previous(p) + (IF c = cert[p] /\ op[p] \notin Removal THEN 0 ELSE 1)]

\* ... and what without it.
NotFound(p) ==
  /\ \/ op[p] \in Removal /\ Answer(p, "notFound")
     \/ op[p] = "InstallTrust" /\ Goto(p, "create")
     \/ op[p] = "VerifyTrust" /\ Goto(p, "conflict")
     \/ op[p] = "IsTrustedSHA256" /\ Answer(p, "false")
  /\ existing' = [existing EXCEPT ![p] = @ - Previous(p)]
  /\ UNCHANGED todo

\* Mutant: the previous context is freed by hand as well.
Search_freesPrevious(p) ==
  /\ pc[p] = "search"
  /\ \/ \E c \in todo[p] :
          /\ todo' = [todo EXCEPT ![p] = @ \ {c}] /\ c # cert[p]
          /\ Goto(p, "search") /\ existing' = [existing EXCEPT ![p] = @ - Previous(p)]
     \/ cert[p] \in todo[p] /\ NextCertificate(p, cert[p])
     \/ todo[p] = {} /\ NotFound(p)
  /\ UNCHANGED <<anchors, locals, store, certCtx, deferred, faults>>

\* findCertBySHA256: one certificate after the other, in the store's order.
Search(p) ==
  /\ pc[p] = "search"
  /\ \/ (\E c \in todo[p] : NextCertificate(p, c)) /\ UNCHANGED faults
     \/ todo[p] = {} /\ NotFound(p) /\ UNCHANGED faults
     \/ /\ Fault /\ Answer(p, "error")
        /\ existing' = [existing EXCEPT ![p] = @ - Previous(p)]
        /\ UNCHANGED todo
  /\ UNCHANGED <<anchors, locals, store, certCtx, deferred>>

\* CERT_STORE_ADD_REPLACE_EXISTING: a certificate that has got into the
\* store meanwhile is replaced by itself.
Add(p) ==
  /\ pc[p] = "add"
  /\ \/ anchors' = anchors \cup {cert[p]} /\ Answer(p, "ok") /\ UNCHANGED faults
     \/ Fault /\ Answer(p, "error") /\ UNCHANGED anchors
  /\ UNCHANGED <<locals, todo, refs, deferred>>

\* Mutant: deletes whatever has the name.
Delete_byName(p) ==
  /\ pc[p] = "delete"
  /\ anchors' = {c \in anchors : cn[c] # cn[cert[p]]} /\ Answer(p, "ok")
  /\ existing' = [existing EXCEPT ![p] = @ - 1]
  /\ UNCHANGED <<locals, todo, store, certCtx, deferred, faults>>

\* CertDeleteCertificateFromStore frees the context whatever happens.  When
\* the certificate has gone from the registry meanwhile it may say either.
Delete(p) ==
  /\ pc[p] = "delete"
  /\ \/ anchors' = anchors \ {cert[p]} /\ Answer(p, "ok") /\ UNCHANGED faults
     \/ Fault /\ Answer(p, "error") /\ UNCHANGED anchors
     \/ cert[p] \notin anchors /\ Answer(p, "error") /\ UNCHANGED <<anchors, faults>>
  /\ existing' = [existing EXCEPT ![p] = @ - 1]
  /\ UNCHANGED <<locals, todo, store, certCtx, deferred>>

\* CERT_FIND_SUBJECT_STR_A: the words of s are somewhere in t, in either case.
Lower(s) == [i \in DOMAIN s |-> lower[s[i]]]
Occurs(s, t) ==
  \E i \in 0..(Len(t) - Len(s)) : SubSeq(Lower(t), i + 1, i + Len(s)) = Lower(s)

\* The certificates whose subject has c's name in it; c without a name has none.
Similar == [c \in Cert |-> {d \in Cert : cn[c] # << >> /\ Occurs(cn[c], subject[d])}]

\* findCertByCN; the context it finds is freed at once.
FindConflict(p) ==
  /\ pc[p] = "conflict"
  /\ \/ /\ Answer(p, IF Similar[cert[p]] \cap view[p] # {} THEN "conflict" ELSE "absent")
        /\ UNCHANGED faults
     \/ cn[cert[p]] # << >> /\ Fault /\ Answer(p, "error")
  /\ UNCHANGED <<anchors, locals, todo, refs, deferred>>

\* The deferred calls of CertFreeCertificateContext and CertCloseStore.
Close(p) ==
  /\ pc[p] = "close"
  /\ pc' = [pc EXCEPT ![p] = "idle"]
  /\ store' = [store EXCEPT ![p] = IF "store" \in deferred[p] THEN @ - 1 ELSE @]
  /\ certCtx' = [certCtx EXCEPT ![p] = IF "certCtx" \in deferred[p] THEN @ - 1 ELSE @]
  /\ op' = [op EXCEPT ![p] = "none"] /\ cert' = [cert EXCEPT ![p] = EmptyDER]
  /\ view' = [view EXCEPT ![p] = {}] /\ todo' = [todo EXCEPT ![p] = {}]
  /\ deferred' = [deferred EXCEPT ![p] = {}]
  /\ answer' = [answer EXCEPT ![p] = "none"]
  /\ UNCHANGED <<anchors, existing, faults>>

Next == \E p \in Proc :
  \/ Call(p) \/ Open(p) \/ CreateContext(p) \/ Search(p) \/ Add(p)
  \/ Delete(p) \/ FindConflict(p) \/ Close(p)

Spec == Init /\ [][Next]_vars

--------------------------------------------------------------------------
(* Properties *)

Verdict == {"ok", "notFound", "error", "true", "false", "healthy", "conflict", "absent"}

\* Every variable has its type; in particular no count is negative, as it
\* would be after a second release.
TypeOK ==
  /\ anchors \in SUBSET Cert
  /\ op \in [Proc -> Operation \cup {"none"}] /\ cert \in [Proc -> Cert \cup {EmptyDER}]
  /\ pc \in [Proc -> {"idle", "open", "create", "search", "add", "delete", "conflict", "close"}]
  /\ view \in [Proc -> SUBSET Cert] /\ todo \in [Proc -> SUBSET Cert]
  /\ store \in [Proc -> Nat] /\ existing \in [Proc -> Nat] /\ certCtx \in [Proc -> Nat]
  /\ deferred \in [Proc -> SUBSET {"store", "certCtx"}]
  /\ answer \in [Proc -> Verdict \cup {"none"}]
  /\ faults \in Nat

\* On no path is a handle or context released twice or left behind when the
\* operation has returned: the enumeration frees the one before, a deletion
\* frees what it deletes, the deferred calls free the rest.
ContextsOwned ==
  \A p \in Proc :
    /\ store[p] <= 1 /\ existing[p] <= 1 /\ certCtx[p] <= 1
    /\ pc[p] = "idle" => store[p] = 0 /\ existing[p] = 0 /\ certCtx[p] = 0

--------------------------------------------------------------------------
(* Refinement *)

\* The operation of p needs no change, by what it saw when it opened the store.
Settled(p) ==
  \/ op[p] \in Reading
  \/ op[p] = "InstallTrust" /\ cert[p] \in view[p]
  \/ op[p] \in Removal /\ cert[p] \notin view[p]

Trust(p) == IF cert[p] \in view[p] THEN "healthy"
            ELSE IF Similar[cert[p]] \cap view[p] # {} THEN "conflict" ELSE "absent"

\* What it will answer then, unless a call of the system fails.
Coming(p) ==
  CASE op[p] = "VerifyTrust"     -> Trust(p)
    [] op[p] = "IsTrustedSHA256" -> IF cert[p] \in view[p] THEN "true" ELSE "false"
    [] op[p] = "InstallTrust"    -> "ok"
    [] op[p] \in Removal         -> "notFound"

Searching(p) == pc[p] \in {"create", "search", "add", "delete", "conflict"}

Phase(p) ==
  CASE pc[p] = "idle" -> "idle"
    [] pc[p] = "close" -> IF answer[p] = "ok" /\ ~Settled(p) THEN "done" ELSE "known"
    [] OTHER -> IF Searching(p) /\ Settled(p) THEN "known" ELSE "called"

Told(p) == IF Searching(p) /\ Settled(p) THEN Coming(p) ELSE answer[p]

phaseBar  == [p \in Proc |-> Phase(p)]
answerBar == [p \in Proc |-> Told(p)]

Abstract == INSTANCE TrustStore WITH phase <- phaseBar, answer <- answerBar

\* Each operation finds its answer at the one moment at which it opens the
\* store, or makes its change, of its own certificate and no other, at the
\* one moment at which it adds or deletes; an error means no change.
ImplementsTrustStore == Abstract!Spec
=============================================================================
