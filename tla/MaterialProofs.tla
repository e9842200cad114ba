---------------------------- MODULE MaterialProofs ----------------------------
(***************************************************************************)
(* Who owns the key handles, and what a returned Material is, proved of    *)
(* LocalTLS for every set of processes and entry points, every kind of     *)
(* fault and every bound: also when elevated calls overlap and others      *)
(* damage the machine.                                                     *)
(***************************************************************************)
EXTENDS LocalTLSProofs

--------------------------------------------------------------------------
(* The key handles *)

\* What HandlesOwned says, with what makes it inductive: which call is at
\* which step, and which handles are open there.
OwnershipInv == StepsOfCalls /\ HandlesInv /\ HandlesOwned

\* A call that fails closes exactly the handles that are open where it fails.
LEMMA FailOwned ==
  ASSUME TypeInv, OwnershipInv, NEW p \in Proc, NEW caHandle, NEW serverHandle,
         Running(p), pc[p] \notin CleaningStep,
         caHandle = NoKey \/ "ca" \in ClosedOnError(p),
         serverHandle = NoKey \/ "server" \in ClosedOnError(p),
         Fail(p, caHandle, serverHandle), UNCHANGED op
  PROVE  OwnershipInv'
BY DEF TypeInv, TypeOK, OwnershipInv, StepsOfCalls, HandlesInv, HandlesOwned, Fail, Goto,
       Running, Outcome, CallStep, ProvisioningStep, LoadingStep, CleaningStep, HoldsServer,
       Provisioning, Loading, Cleaning, NoKey

\* Where the call holds no handle but those it closes on an error.
LEMMA HeldIsClosed ==
  ASSUME OwnershipInv, NEW p \in Proc, pc[p] \in ProvisioningStep \cup LoadingStep
  PROVE  /\ caSigner[p] = NoKey \/ "ca" \in ClosedOnError(p)
         /\ serverSigner[p] = NoKey \/ "server" \in ClosedOnError(p)
BY DEF OwnershipInv, StepsOfCalls, HandlesInv, HandlesOwned, ClosedOnError, Running, CallStep,
       ProvisioningStep, LoadingStep, CleaningStep, HoldsServer, Provisioning, Loading,
       Cleaning, NoKey

\* So a failure that adds no handle keeps the ownership.
LEMMA HeldFailOwned ==
  ASSUME TypeInv, OwnershipInv, NEW p \in Proc, pc[p] \in ProvisioningStep \cup LoadingStep,
         Fail(p, caSigner[p], serverSigner[p]), UNCHANGED op
  PROVE  OwnershipInv'
<1>1. Running(p) /\ pc[p] \notin CleaningStep
  BY DEF Running, CallStep, ProvisioningStep, LoadingStep, CleaningStep
<1> QED
  BY <1>1, HeldIsClosed, FailOwned

\* Every step of a provisioning call keeps the ownership.
LEMMA ProvisioningOwned ==
  ASSUME TypeInv, OwnershipInv, NEW p \in Proc, ProvisioningNext(p), UNCHANGED op
  PROVE  OwnershipInv'
<1> SUFFICES ASSUME \A kind : ~CallFails(p, kind),
                    ~Fail(p, caSigner[p], serverSigner[p]),
                    pc[p] \in ProvisioningStep
             PROVE  OwnershipInv'
  <2>1. pc[p] \in ProvisioningStep
    BY DEF ProvisioningNext, StatCA, StatServer, ProbeCA, ProbeServer, ChooseCA, ChooseServer,
           MakeDir, CreateCA, CreateServer, WriteCA, WriteServer, Install, ProvisioningStep
  <2> QED
    BY <2>1, HeldFailOwned DEF CallFails
<1> USE DEF OwnershipInv, StepsOfCalls, HandlesInv, HandlesOwned, Goto, Running, Outcome,
            CallStep, ProvisioningStep, LoadingStep, CleaningStep, HoldsServer,
            Provisioning, Loading, Cleaning, NoKey, TypeInv, TypeOK, signers
<1>1. CASE StatCA(p)
  BY <1>1 DEF StatCA
<1>2. CASE StatServer(p)
  BY <1>2 DEF StatServer
<1>3. CASE ProbeCA(p)
  BY <1>3 DEF ProbeCA
<1>4. CASE ProbeServer(p)
  BY <1>4 DEF ProbeServer
<1>5. CASE ChooseCA(p)
  BY <1>5 DEF ChooseCA
<1>6. CASE ChooseServer(p)
  BY <1>6 DEF ChooseServer
<1>7. CASE MakeDir(p)
  BY <1>7 DEF MakeDir
<1>8. CASE CreateCA(p)
  <2>1. "ca" \in ClosedOnError(p) /\ "server" \in ClosedOnError(p)
    BY <1>8 DEF CreateCA, ClosedOnError
  <2>2. CASE Fail(p, caKey', serverSigner[p])
    BY <1>8, <2>1, <2>2, FailOwned DEF CreateCA
  <2>3. CASE /\ caSigner' = [caSigner EXCEPT ![p] = caKey']
             /\ Goto(p, "createServer")
             /\ UNCHANGED serverSigner
    BY <1>8, <2>3 DEF CreateCA
  <2> QED
    BY <1>8, <2>2, <2>3 DEF CreateCA
<1>9. CASE CreateServer(p)
  <2>1. "ca" \in ClosedOnError(p) /\ "server" \in ClosedOnError(p)
    BY <1>9 DEF CreateServer, ClosedOnError
  <2>2. CASE Fail(p, caSigner[p], serverKey')
    BY <1>9, <2>1, <2>2, FailOwned DEF CreateServer
  <2>3. CASE /\ serverSigner' = [serverSigner EXCEPT ![p] = serverKey']
             /\ Goto(p, "writeCA")
             /\ UNCHANGED caSigner
    <3>1. serverKey' # 0
      BY <1>9 DEF CreateServer, LoadOrCreateServerKey, StoresTypeOK
    <3> QED
      BY <1>9, <2>3, <3>1 DEF CreateServer
  <2> QED
    BY <1>9, <2>2, <2>3 DEF CreateServer
<1>10. CASE WriteCA(p)
  BY <1>10 DEF WriteCA, WriteFails
<1>11. CASE WriteServer(p)
  BY <1>11 DEF WriteServer, WriteFails
<1>12. CASE Install(p)
  BY <1>12 DEF Install, ReturnMaterial
<1> QED
  BY <1>1, <1>2, <1>3, <1>4, <1>5, <1>6, <1>7, <1>8, <1>9, <1>10, <1>11, <1>12
     DEF ProvisioningNext

\* Every step that loads or renews existing material keeps the ownership.
LEMMA LoadingOwned ==
  ASSUME TypeInv, OwnershipInv, NEW p \in Proc, LoadingNext(p), UNCHANGED op
  PROVE  OwnershipInv'
<1> SUFFICES ASSUME \A kind : ~CallFails(p, kind),
                    ~Fail(p, caSigner[p], serverSigner[p]),
                    pc[p] \in LoadingStep
             PROVE  OwnershipInv'
  <2>1. pc[p] \in LoadingStep
    BY DEF LoadingNext, ReadCA, OpenCA, ReadServer, OpenServer, VerifyAnchor, Reinstall,
           Reverify, Renew, WriteRenewed, LoadingStep
  <2> QED
    BY <2>1, HeldFailOwned DEF CallFails
<1> USE DEF OwnershipInv, StepsOfCalls, HandlesInv, HandlesOwned, Goto, Running, Outcome,
            CallStep, ProvisioningStep, LoadingStep, CleaningStep, HoldsServer,
            Provisioning, Loading, Cleaning, NoKey, TypeInv, TypeOK, signers
<1>1. CASE ReadCA(p)
  BY <1>1 DEF ReadCA
<1>2. CASE OpenCA(p)
  <2>1. op[p] \notin Cleaning \cup {"LoadServingMaterial"}
    BY <1>2 DEF OpenCA
  <2>2. CASE Fail(p, caKey', serverSigner[p])
    <3>1. "ca" \in ClosedOnError(p)
      BY <1>2, <2>1 DEF OpenCA, ClosedOnError
    <3>2. serverSigner[p] = 0
      BY <1>2 DEF OpenCA
    <3> QED
      BY <1>2, <2>2, <3>1, <3>2, FailOwned DEF OpenCA
  <2>3. CASE /\ caSigner' = [caSigner EXCEPT ![p] = caKey']
             /\ Goto(p, "readServer")
             /\ UNCHANGED serverSigner
    BY <1>2, <2>1, <2>3 DEF OpenCA
  <2> QED
    BY <1>2, <2>2, <2>3 DEF OpenCA
<1>3. CASE ReadServer(p)
  BY <1>3 DEF ReadServer
<1>4. CASE OpenServer(p)
  <2>1. caSigner[p] = NoKey \/ "ca" \in ClosedOnError(p)
    BY HeldIsClosed
  <2>2. "server" \in ClosedOnError(p)
    BY <1>4 DEF OpenServer, ClosedOnError
  <2>3. CASE Fail(p, caSigner[p], serverKey')
    BY <1>4, <2>1, <2>2, <2>3, FailOwned DEF OpenServer
  <2>4. CASE /\ serverSigner' = [serverSigner EXCEPT ![p] = serverKey']
             /\ Goto(p, "verify")
             /\ UNCHANGED caSigner
             /\ IF op[p] \in Loading THEN openServerKey ELSE LoadOrCreateServerKey
    <3>1. serverKey' # 0
      BY <2>4 DEF openServerKey, LoadOrCreateServerKey, StoresTypeOK, keys
    <3> QED
      BY <1>4, <2>4, <3>1 DEF OpenServer
  <2> QED
    BY <1>4, <2>3, <2>4 DEF OpenServer
<1>5. CASE VerifyAnchor(p)
  BY <1>5 DEF VerifyAnchor, ReturnMaterial
<1>6. CASE Reinstall(p)
  BY <1>6 DEF Reinstall
<1>7. CASE Reverify(p)
  BY <1>7 DEF Reverify
<1>8. CASE Renew(p)
  BY <1>8 DEF Renew, ReturnMaterial
<1>9. CASE WriteRenewed(p)
  BY <1>9 DEF WriteRenewed, WriteFails, ReturnMaterial
<1> QED
  BY <1>1, <1>2, <1>3, <1>4, <1>5, <1>6, <1>7, <1>8, <1>9 DEF LoadingNext

\* Every step of a cleanup call keeps the ownership: it holds no handle.
LEMMA CleaningOwned ==
  ASSUME TypeInv, OwnershipInv, NEW p \in Proc, CleaningNext(p), UNCHANGED op
  PROVE  OwnershipInv'
<1>1. /\ pc[p] \in CleaningStep
      /\ UNCHANGED signers
      /\ \E step \in CleaningStep \cup {"ok", "err"} : Goto(p, step)
  <2>1. \A kind : \A step \in CleaningStep \cup {"ok", "err"} : \A error :
          \/ GoOn(p, step, error)
          \/ Report(p, error)
          \/ Collected(p, kind, step)
          => UNCHANGED signers /\ \E s \in CleaningStep \cup {"ok", "err"} : Goto(p, s)
    BY DEF GoOn, Report, Collected
  <2>2. CASE ReadDER(p) \/ RemoveAnchor(p) \/ DeleteKeyOfCA(p) \/ DeleteKeyOfServer(p)
    BY <2>1, <2>2 DEF ReadDER, RemoveAnchor, DeleteKeyOfCA, DeleteKeyOfServer, CleaningStep
  <2>3. CASE StatDir(p) \/ UnlinkCA(p) \/ UnlinkServer(p) \/ RemoveDir(p)
    BY <2>1, <2>3 DEF StatDir, UnlinkCA, UnlinkServer, RemoveDir, CleaningStep
  <2> QED
    BY <2>2, <2>3 DEF CleaningNext
<1> QED
  BY <1>1 DEF OwnershipInv, StepsOfCalls, HandlesInv, HandlesOwned, Goto, Running, Outcome,
              CallStep, ProvisioningStep, LoadingStep, CleaningStep, HoldsServer,
              Provisioning, Loading, Cleaning, NoKey, TypeInv, TypeOK, signers

\* Calls that begin or end, crashes, the clock and damage keep the ownership.
LEMMA SurroundingOwned ==
  ASSUME TypeInv, OwnershipInv,
         SetClock \/ Damaged \/ \E p \in Proc : Begin(p) \/ Finish(p) \/ Crash(p)
  PROVE  OwnershipInv'
<1> USE DEF OwnershipInv, StepsOfCalls, HandlesInv, HandlesOwned, Goto, Running, Outcome,
            CallStep, ProvisioningStep, LoadingStep, CleaningStep, HoldsServer,
            Provisioning, Loading, Cleaning, NoKey, TypeInv, TypeOK, signers
<1>1. CASE SetClock
  BY <1>1 DEF SetClock
<1>2. CASE Damaged
  BY <1>2 DEF Damaged
<1>3. ASSUME NEW p \in Proc, Begin(p)
      PROVE  OwnershipInv'
  <2>1. PICK entry \in Entry : /\ op' = [op EXCEPT ![p] = entry]
                               /\ pc' = [pc EXCEPT ![p] = FirstStep(entry)]
    BY <1>3 DEF Begin
  <2>2. entry \in Provisioning \cup Cleaning \cup Loading
    BY ParameterAssumption DEF Elevated
  <2>3. \/ entry \in Provisioning /\ FirstStep(entry) \in {"statCA", "chooseCA"}
        \/ entry \in Loading /\ FirstStep(entry) = "readCA"
        \/ entry \in Cleaning /\ FirstStep(entry) \in {"readDER", "removeAnchor"}
    BY <2>2 DEF FirstStep
  <2> QED
    BY <1>3, <2>1, <2>3 DEF Begin
<1>4. ASSUME NEW p \in Proc, Finish(p)
      PROVE  OwnershipInv'
  BY <1>4 DEF Finish, Idle
<1>5. ASSUME NEW p \in Proc, Crash(p)
      PROVE  OwnershipInv'
  BY <1>5 DEF Crash, Idle
<1> QED
  BY <1>1, <1>2, <1>3, <1>4, <1>5

\* Who owns which handle, between all steps of all calls.
THEOREM Ownership == Spec => []OwnershipInv
<1>1. Init => OwnershipInv
  BY DEF Init, OwnershipInv, StepsOfCalls, HandlesInv, HandlesOwned, Running, Outcome,
         CallStep, ProvisioningStep, LoadingStep, CleaningStep, HoldsServer, Provisioning,
         Loading, Cleaning, NoKey
<1>2. TypeInv /\ OwnershipInv /\ [Next]_vars => OwnershipInv'
  <2>1. ASSUME OwnershipInv, UNCHANGED vars
        PROVE  OwnershipInv'
    BY <2>1 DEF OwnershipInv, StepsOfCalls, HandlesInv, HandlesOwned, Running, vars, signers
  <2>2. ASSUME TypeInv, OwnershipInv, NEW p \in Proc, Step(p)
        PROVE  OwnershipInv'
    BY <2>2, ProvisioningOwned, LoadingOwned, CleaningOwned DEF Step
  <2> QED
    BY <2>1, <2>2, SurroundingOwned DEF Next
<1> QED
  BY <1>1, <1>2, TypeCorrect, PTL DEF Spec

\* No interleaving, fault or crash leaks a key handle: a call that returned
\* an error left none open, and one that returned a Material left only the
\* serving handle, which is then its caller's.
THEOREM HandlesAreOwned == Spec => []HandlesOwned
<1>1. OwnershipInv => HandlesOwned
  BY DEF OwnershipInv
<1> QED
  BY <1>1, Ownership, PTL

--------------------------------------------------------------------------
(* The Material *)

\* What MaterialCoherent says, with what makes it inductive: the call's
\* certificates fit the handles it holds, whatever is on disk by now.
CoherenceInv == MaterialInv /\ MaterialCoherent

\* A call that fails has no Material.
LEMMA FailCoherent ==
  ASSUME TypeInv, CoherenceInv, NEW p \in Proc, NEW caHandle, NEW serverHandle,
         Fail(p, caHandle, serverHandle), UNCHANGED <<op, ca>>,
         \A q \in Proc \ {p} : server'[q] = server[q]
  PROVE  CoherenceInv'
BY DEF TypeInv, TypeOK, CoherenceInv, MaterialInv, MaterialCoherent, Fail, Goto, HasCA,
       HoldsServer, LoadingStep, Cleaning

\* What a certificate for these keys says.
LEMMA CertificateFields ==
  /\ \A serial, t, signer : createCACertSelfSigned(serial, t, signer).key = signer
  /\ \A t, cert, signer, pub :
       LET leaf == createServerCertWithPub(t, cert, signer, pub) IN
       leaf.key = pub /\ leaf.issuer = signer /\ leaf.localSAN
BY DEF createCACertSelfSigned, createServerCertWithPub

\* Every step of a provisioning call keeps the coherence.
LEMMA ProvisioningCoherent ==
  ASSUME TypeInv, OwnershipInv, CoherenceInv,
         NEW p \in Proc, ProvisioningNext(p), UNCHANGED op
  PROVE  CoherenceInv'
<1> SUFFICES ASSUME \A kind : ~CallFails(p, kind),
                    \A caHandle, serverHandle :
                      Fail(p, caHandle, serverHandle) /\ UNCHANGED <<ca, server>> => FALSE
             PROVE  CoherenceInv'
  BY FailCoherent DEF CallFails, working
<1> USE DEF CoherenceInv, MaterialInv, MaterialCoherent, Goto, HasCA, HoldsServer,
            LoadingStep, Cleaning, TypeInv, TypeOK, signers, working
<1>1. CASE StatCA(p)
  BY <1>1 DEF StatCA
<1>2. CASE StatServer(p)
  BY <1>2 DEF StatServer
<1>3. CASE ProbeCA(p)
  BY <1>3 DEF ProbeCA
<1>4. CASE ProbeServer(p)
  BY <1>4 DEF ProbeServer
<1>5. CASE ChooseCA(p)
  BY <1>5 DEF ChooseCA
<1>6. CASE ChooseServer(p)
  BY <1>6 DEF ChooseServer
<1>7. CASE MakeDir(p)
  BY <1>7 DEF MakeDir
<1>8. CASE CreateCA(p)
  <2>1. CASE /\ caSigner' = [caSigner EXCEPT ![p] = caKey']
             /\ ca' = [ca EXCEPT ![p] =
                  createCACertSelfSigned(certsMade + 1, at[p], caKey')]
             /\ Goto(p, "createServer")
             /\ UNCHANGED serverSigner
    BY <1>8, <2>1, CertificateFields DEF CreateCA
  <2> QED
    BY <1>8, <2>1 DEF CreateCA
<1>9. CASE CreateServer(p)
  <2>1. CASE /\ serverSigner' = [serverSigner EXCEPT ![p] = serverKey']
             /\ server' = [server EXCEPT ![p] =
                  createServerCertWithPub(at[p], ca[p], caSigner[p], serverKey')]
             /\ Goto(p, "writeCA")
             /\ UNCHANGED caSigner
    <3>1. op[p] # "LoadServingMaterial" /\ ca[p].key = caSigner[p]
      BY <1>9 DEF CreateServer, OwnershipInv, StepsOfCalls, ProvisioningStep, Provisioning
    <3>2. /\ server'[p].key = serverSigner'[p]
          /\ server'[p].issuer = ca[p].key
          /\ server'[p].localSAN
      BY <2>1, <3>1, CertificateFields
    <3> QED
      BY <1>9, <2>1, <3>1, <3>2 DEF CreateServer
  <2> QED
    BY <1>9, <2>1 DEF CreateServer
<1>10. CASE WriteCA(p)
  BY <1>10 DEF WriteCA, WriteFails
<1>11. CASE WriteServer(p)
  BY <1>11 DEF WriteServer, WriteFails
<1>12. CASE Install(p)
  BY <1>12 DEF Install, ReturnMaterial, CertificatesParsed, HasServer
<1> QED
  BY <1>1, <1>2, <1>3, <1>4, <1>5, <1>6, <1>7, <1>8, <1>9, <1>10, <1>11, <1>12
     DEF ProvisioningNext

\* Every step that loads or renews existing material keeps the coherence.
LEMMA LoadingCoherent ==
  ASSUME TypeInv, OwnershipInv, CoherenceInv,
         NEW p \in Proc, LoadingNext(p), UNCHANGED op
  PROVE  CoherenceInv'
<1> SUFFICES ASSUME \A kind : ~CallFails(p, kind),
                    \A caHandle, serverHandle :
                      Fail(p, caHandle, serverHandle) /\ UNCHANGED <<ca, server>> => FALSE
             PROVE  CoherenceInv'
  BY FailCoherent DEF CallFails, working
<1> USE DEF CoherenceInv, MaterialInv, MaterialCoherent, Goto, HasCA, HoldsServer,
            LoadingStep, Cleaning, TypeInv, TypeOK, signers, working
<1>1. CASE ReadCA(p)
  BY <1>1 DEF ReadCA
<1>2. CASE OpenCA(p)
  BY <1>2 DEF OpenCA, verifyPublicKeyMatch
<1>3. CASE ReadServer(p)
  BY <1>3 DEF ReadServer
<1>4. CASE OpenServer(p)
  BY <1>4 DEF OpenServer, serverCertValid, verifyPublicKeyMatch, CheckSignatureFrom,
              validateSAN
<1>5. CASE VerifyAnchor(p)
  BY <1>5 DEF VerifyAnchor, ReturnMaterial, CertificatesParsed, HasServer
<1>6. CASE Reinstall(p)
  BY <1>6 DEF Reinstall
<1>7. CASE Reverify(p)
  BY <1>7 DEF Reverify
<1>8. CASE Renew(p)
  <2>1. CASE ReturnMaterial(p) /\ UNCHANGED <<ca, server>>
    BY <1>8, <2>1 DEF Renew, ReturnMaterial, CertificatesParsed, HasServer
  <2>2. CASE /\ server' = [server EXCEPT ![p] =
                  createServerCertWithPub(now, ca[p], caSigner[p], serverSigner[p])]
             /\ Goto(p, "writeRenewed")
             /\ UNCHANGED <<ca, signers>>
    <3>1. op[p] # "LoadServingMaterial" /\ ca[p].key = caSigner[p]
      BY <1>8 DEF Renew, OwnershipInv, StepsOfCalls
    <3>2. /\ server'[p].key = serverSigner'[p]
          /\ server'[p].issuer = ca[p].key
          /\ server'[p].localSAN
      BY <2>2, <3>1, CertificateFields
    <3> QED
      BY <1>8, <2>2, <3>1, <3>2 DEF Renew
  <2> QED
    BY <1>8, <2>1, <2>2 DEF Renew
<1>9. CASE WriteRenewed(p)
  BY <1>9 DEF WriteRenewed, WriteFails, ReturnMaterial, CertificatesParsed, HasServer
<1> QED
  BY <1>1, <1>2, <1>3, <1>4, <1>5, <1>6, <1>7, <1>8, <1>9 DEF LoadingNext

\* What is common to the steps of a cleanup: the call stays at a cleanup
\* step or returns, holds the handles it held, and only its own view of the
\* CA certificate may change.
LEMMA CleaningFrame ==
  ASSUME TypeInv, NEW p \in Proc, CleaningNext(p)
  PROVE  /\ pc[p] \in CleaningStep
         /\ UNCHANGED <<server, signers>>
         /\ \E step \in CleaningStep \cup {"ok", "err"} : Goto(p, step)
         /\ \A q \in Proc \ {p} : ca'[q] = ca[q]
<1>1. \A kind : \A step \in CleaningStep \cup {"ok", "err"} : \A error :
        /\ GoOn(p, step, error) \/ Report(p, error)
           => UNCHANGED signers /\ \E s \in CleaningStep \cup {"ok", "err"} : Goto(p, s)
        /\ Collected(p, kind, step)
           => /\ UNCHANGED <<ca, server, signers>>
              /\ \E s \in CleaningStep \cup {"ok", "err"} : Goto(p, s)
  BY DEF GoOn, Report, Collected
<1>2. CASE ReadDER(p)
  BY <1>1, <1>2 DEF ReadDER, CleaningStep, TypeInv, TypeOK
<1>3. CASE RemoveAnchor(p) \/ DeleteKeyOfCA(p) \/ DeleteKeyOfServer(p)
  BY <1>1, <1>3 DEF RemoveAnchor, DeleteKeyOfCA, DeleteKeyOfServer, CleaningStep
<1>4. CASE StatDir(p) \/ UnlinkCA(p) \/ UnlinkServer(p) \/ RemoveDir(p)
  BY <1>1, <1>4 DEF StatDir, UnlinkCA, UnlinkServer, RemoveDir, CleaningStep
<1> QED
  BY <1>2, <1>3, <1>4 DEF CleaningNext

\* A cleanup call has no Material.
LEMMA CleaningCoherent ==
  ASSUME TypeInv, OwnershipInv, CoherenceInv,
         NEW p \in Proc, CleaningNext(p), UNCHANGED op
  PROVE  CoherenceInv'
<1>1. op[p] \in Cleaning
  BY CleaningFrame DEF OwnershipInv, StepsOfCalls
<1> QED
  BY <1>1, CleaningFrame
     DEF CoherenceInv, MaterialInv, MaterialCoherent, Goto, HasCA, HoldsServer, LoadingStep,
         CleaningStep, Cleaning, TypeInv, TypeOK, signers

\* Calls that begin or end, crashes, the clock and damage keep the coherence.
LEMMA SurroundingCoherent ==
  ASSUME TypeInv, CoherenceInv,
         SetClock \/ Damaged \/ \E p \in Proc : Begin(p) \/ Finish(p) \/ Crash(p)
  PROVE  CoherenceInv'
<1> USE DEF CoherenceInv, MaterialInv, MaterialCoherent, Goto, HasCA, HoldsServer,
            LoadingStep, Cleaning, TypeInv, TypeOK, signers, working
<1>1. CASE SetClock
  BY <1>1 DEF SetClock
<1>2. CASE Damaged
  BY <1>2 DEF Damaged
<1>3. ASSUME NEW p \in Proc, Begin(p)
      PROVE  CoherenceInv'
  <2>1. PICK entry \in Entry : /\ op' = [op EXCEPT ![p] = entry]
                               /\ pc' = [pc EXCEPT ![p] = FirstStep(entry)]
    BY <1>3 DEF Begin
  <2>2. FirstStep(entry) \in {"statCA", "chooseCA", "readCA", "readDER", "removeAnchor"}
    BY DEF FirstStep
  <2> QED
    BY <1>3, <2>1, <2>2 DEF Begin
<1>4. ASSUME NEW p \in Proc, Finish(p)
      PROVE  CoherenceInv'
  BY <1>4 DEF Finish, Idle
<1>5. ASSUME NEW p \in Proc, Crash(p)
      PROVE  CoherenceInv'
  BY <1>5 DEF Crash, Idle
<1> QED
  BY <1>1, <1>2, <1>3, <1>4, <1>5

\* The coherence of what the calls work on is inductive.
THEOREM Coherence == Spec => []CoherenceInv
<1>1. Init => CoherenceInv
  BY DEF Init, CoherenceInv, MaterialInv, MaterialCoherent, HasCA, HoldsServer, LoadingStep
<1>2. TypeInv /\ OwnershipInv /\ CoherenceInv /\ [Next]_vars => CoherenceInv'
  <2>1. ASSUME CoherenceInv, UNCHANGED vars
        PROVE  CoherenceInv'
    BY <2>1 DEF CoherenceInv, MaterialInv, MaterialCoherent, vars, working, signers
  <2>2. ASSUME TypeInv, OwnershipInv, CoherenceInv, NEW p \in Proc, Step(p)
        PROVE  CoherenceInv'
    BY <2>2, ProvisioningCoherent, LoadingCoherent, CleaningCoherent DEF Step
  <2> QED
    BY <2>1, <2>2, SurroundingCoherent DEF Next
<1> QED
  BY <1>1, <1>2, TypeCorrect, Ownership, PTL DEF Spec

\* Every Material a call returns is coherent: its certificate is for the
\* key its signer holds, the CA it names issued it, and its names are local.
\* No coordination of the callers is assumed.
THEOREM MaterialIsCoherent == Spec => []MaterialCoherent
<1>1. CoherenceInv => MaterialCoherent
  BY DEF CoherenceInv
<1> QED
  BY <1>1, Coherence, PTL
=============================================================================
