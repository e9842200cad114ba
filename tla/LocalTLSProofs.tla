--------------------------- MODULE LocalTLSProofs ---------------------------
(***************************************************************************)
(* Theorems about LocalTLS, for every set of processes and entry points,   *)
(* every kind of fault and every bound.                                    *)
(***************************************************************************)
EXTENDS LocalTLSInvariants, TLAPS

(***************************************************************************)
(* Type correctness.                                                       *)
(***************************************************************************)

\* What the certificate constructors return are certificates.
LEMMA CertificateTypes ==
  /\ \A serial, signer, t \in Nat : createCACertSelfSigned(serial, t, signer) \in CACert
  /\ \A cert \in CACert : \A signer, pub, t \in Nat :
       createServerCertWithPub(t, cert, signer, pub) \in ServerCert
BY ValidityAssumption
   DEF createCACertSelfSigned, createServerCertWithPub, cappedServerNotAfter,
       CACert, ServerCert

\* A call that fails without changing anything keeps the types.
LEMMA CallFailsTypes ==
  ASSUME TypeInv, NEW p \in Proc, NEW kind, CallFails(p, kind),
         UNCHANGED <<now, op, calls>>
  PROVE  TypeInv'
BY DEF TypeInv, TypeOK, StoresTypeOK, CertificatesParsed, CallFails, Fail, Goto, Fault,
       stores, files, keys, working, Outcome, NoKey, HasCA, HasServer, HoldsServer,
       LoadingStep

\* A cleanup that collects an error and goes on keeps the types.
LEMMA CollectedTypes ==
  ASSUME TypeInv, NEW p \in Proc, NEW kind, NEW step \in CleaningStep,
         Collected(p, kind, step), UNCHANGED <<now, op, calls>>
  PROVE  TypeInv'
BY DEF TypeInv, TypeOK, StoresTypeOK, CertificatesParsed, Collected, GoOn, Goto, Fault,
       stores, files, keys, signers, CallStep, CleaningStep, HasCA, HasServer, HoldsServer,
       LoadingStep

\* The report of a cleanup has a type, and is an outcome.
LEMMA ReportTypes ==
  ASSUME TypeInv, NEW p \in Proc, NEW error \in BOOLEAN, Report(p, error)
  PROVE  /\ pc' \in [Proc -> Outcome \cup CallStep]
         /\ failed' \in [Proc -> BOOLEAN]
         /\ UNCHANGED signers
         /\ \A q \in Proc : pc'[q] = pc[q] \/ pc'[q] \in Outcome
BY DEF TypeInv, TypeOK, Report, GoOn, Goto, Outcome

\* Every step of a provisioning call keeps the types.
LEMMA ProvisioningTypes ==
  ASSUME TypeInv, NEW p \in Proc, ProvisioningNext(p), UNCHANGED <<now, op, calls>>
  PROVE  TypeInv'
<1> SUFFICES ASSUME \A kind : ~CallFails(p, kind)
             PROVE  TypeInv'
  BY CallFailsTypes
<1> USE DEF TypeInv, TypeOK, StoresTypeOK, CertificatesParsed, stores, files, keys,
            working, signers, Goto, Fail, Fault, Outcome, CallStep, ProvisioningStep,
            LoadingStep, CleaningStep, HasCA, HasServer, HoldsServer, NoKey
<1>1. CASE StatCA(p)
  BY <1>1 DEF StatCA, fileExists
<1>2. CASE StatServer(p)
  BY <1>2 DEF StatServer, fileExists
<1>3. CASE ProbeCA(p)
  BY <1>3 DEF ProbeCA
<1>4. CASE ProbeServer(p)
  BY <1>4 DEF ProbeServer
<1>5. CASE ChooseCA(p)
  BY <1>5 DEF ChooseCA, fileExists
<1>6. CASE ChooseServer(p)
  BY <1>6 DEF ChooseServer, fileExists
<1>7. CASE MakeDir(p)
  <2>1. tlsDir' \in BOOLEAN
    BY <1>7 DEF MakeDir
  <2>2. at' \in [Proc -> Nat] /\ pc' \in [Proc -> Outcome \cup CallStep]
    BY <1>7 DEF MakeDir
  <2>3. /\ UNCHANGED <<caDER, serverDER, caKey, serverKey, keysMade, root, certsMade>>
        /\ UNCHANGED <<seen, ca, server, failed, caSigner, serverSigner, faults>>
    BY <1>7 DEF MakeDir
  <2>4. CertificatesParsed'
    BY <1>7, <2>3 DEF MakeDir
  <2> QED
    BY <2>1, <2>2, <2>3, <2>4
<1>8. CASE CreateCA(p)
  <2>1. /\ caKey' \in Nat /\ keysMade' \in Nat
        /\ UNCHANGED <<tlsDir, caDER, serverDER, serverKey, root, seen, server, at, failed>>
    BY <1>8 DEF CreateCA, LoadOrCreateCAKey
  <2>2. CASE Fault("sign") /\ Fail(p, caKey', serverSigner[p]) /\ UNCHANGED <<certsMade, ca>>
    BY <2>1, <2>2
  <2>3. CASE /\ certsMade' = certsMade + 1
             /\ caSigner' = [caSigner EXCEPT ![p] = caKey']
             /\ ca' = [ca EXCEPT ![p] =
                  createCACertSelfSigned(certsMade + 1, at[p], caKey')]
             /\ Goto(p, "createServer")
             /\ UNCHANGED <<serverSigner, faults>>
    <3>1. createCACertSelfSigned(certsMade + 1, at[p], caKey') \in CACert
      BY <2>1, CertificateTypes
    <3> QED
      BY <2>1, <2>3, <3>1
  <2> QED
    BY <1>8, <2>2, <2>3 DEF CreateCA
<1>9. CASE CreateServer(p)
  <2>1. /\ serverKey' \in Nat /\ keysMade' \in Nat
        /\ UNCHANGED <<tlsDir, caDER, serverDER, caKey, root, certsMade, seen, ca, at, failed>>
    BY <1>9 DEF CreateServer, LoadOrCreateServerKey
  <2>2. CASE Fault("sign") /\ Fail(p, caSigner[p], serverKey') /\ UNCHANGED server
    BY <2>1, <2>2
  <2>3. CASE /\ serverSigner' = [serverSigner EXCEPT ![p] = serverKey']
             /\ server' = [server EXCEPT ![p] =
                  createServerCertWithPub(at[p], ca[p], caSigner[p], serverKey')]
             /\ Goto(p, "writeCA")
             /\ UNCHANGED <<caSigner, faults>>
    <3>1. ca[p] \in CACert
      BY <1>9 DEF CreateServer
    <3>2. createServerCertWithPub(at[p], ca[p], caSigner[p], serverKey') \in ServerCert
      BY <2>1, <3>1, CertificateTypes
    <3> QED
      BY <2>1, <2>3, <3>1, <3>2
  <2> QED
    BY <1>9, <2>2, <2>3 DEF CreateServer
<1>10. CASE WriteCA(p)
  BY <1>10 DEF WriteCA, WriteFails, atomicWriteCA
<1>11. CASE WriteServer(p)
  BY <1>11 DEF WriteServer, WriteFails, atomicWriteServer
<1>12. CASE Install(p)
  BY <1>12 DEF Install, InstallTrust, ReturnMaterial
<1> QED
  BY <1>1, <1>2, <1>3, <1>4, <1>5, <1>6, <1>7, <1>8, <1>9, <1>10, <1>11, <1>12 DEF ProvisioningNext

\* Every step that loads or renews existing material keeps the types.
LEMMA LoadingTypes ==
  ASSUME TypeInv, NEW p \in Proc, LoadingNext(p), UNCHANGED <<now, op, calls>>
  PROVE  TypeInv'
<1> SUFFICES ASSUME \A kind : ~CallFails(p, kind)
             PROVE  TypeInv'
  BY CallFailsTypes
<1> USE DEF TypeInv, TypeOK, StoresTypeOK, CertificatesParsed, stores, files, keys,
            working, signers, Goto, Fail, Fault, Outcome, CallStep, ProvisioningStep,
            LoadingStep, CleaningStep, HasCA, HasServer, HoldsServer, NoKey
<1>1. CASE ReadCA(p)
  BY <1>1 DEF ReadCA
<1>2. CASE OpenCA(p)
  BY <1>2 DEF OpenCA, LoadOrCreateCAKey, openCAKey
<1>3. CASE ReadServer(p)
  BY <1>3 DEF ReadServer
<1>4. CASE OpenServer(p)
  BY <1>4 DEF OpenServer, LoadOrCreateServerKey, openServerKey
<1>5. CASE VerifyAnchor(p)
  BY <1>5 DEF VerifyAnchor, ReturnMaterial
<1>6. CASE Reinstall(p)
  BY <1>6 DEF Reinstall, InstallTrust
<1>7. CASE Reverify(p)
  BY <1>7 DEF Reverify
<1>8. CASE Renew(p)
  <2>1. /\ at' = [at EXCEPT ![p] = now] /\ ca[p] \in CACert
        /\ UNCHANGED <<stores, seen, ca, failed>>
    BY <1>8 DEF Renew
  <2>2. CASE Fail(p, caSigner[p], serverSigner[p]) /\ UNCHANGED server /\ faults' \in Nat
    BY <2>1, <2>2
  <2>3. CASE ReturnMaterial(p) /\ UNCHANGED <<server, faults>>
    BY <2>1, <2>3 DEF ReturnMaterial
  <2>4. CASE /\ server' = [server EXCEPT ![p] =
                  createServerCertWithPub(now, ca[p], caSigner[p], serverSigner[p])]
             /\ Goto(p, "writeRenewed")
             /\ UNCHANGED <<signers, faults>>
    <3>1. createServerCertWithPub(now, ca[p], caSigner[p], serverSigner[p]) \in ServerCert
      BY <2>1, CertificateTypes
    <3> QED
      BY <2>1, <2>4, <3>1
  <2> QED
    BY <1>8, <2>2, <2>3, <2>4 DEF Renew
<1>9. CASE WriteRenewed(p)
  BY <1>9 DEF WriteRenewed, WriteFails, atomicWriteServer, ReturnMaterial
<1> QED
  BY <1>1, <1>2, <1>3, <1>4, <1>5, <1>6, <1>7, <1>8, <1>9 DEF LoadingNext

\* Every step of a cleanup call keeps the types.
LEMMA CleaningTypes ==
  ASSUME TypeInv, NEW p \in Proc, CleaningNext(p), UNCHANGED <<now, op, calls>>
  PROVE  TypeInv'
<1> SUFFICES ASSUME \A kind : \A step \in CleaningStep : ~Collected(p, kind, step)
             PROVE  TypeInv'
  BY CollectedTypes
<1> USE DEF TypeInv, TypeOK, StoresTypeOK, CertificatesParsed, stores, files, keys,
            working, signers, Goto, Fail, Fault, Outcome, CallStep, ProvisioningStep,
            LoadingStep, CleaningStep, HasCA, HasServer, HoldsServer, NoKey
<1>1. CASE ReadDER(p)
  <2>1. CASE caDER # None /\ GoOn(p, "removeAnchor", FALSE)
    BY <1>1, <2>1 DEF ReadDER, GoOn
  <2>2. CASE caDER = None /\ GoOn(p, "deleteCAKey", TRUE)
    BY <1>1, <2>2 DEF ReadDER, GoOn
  <2> QED
    BY <1>1, <2>1, <2>2 DEF ReadDER
<1>2. CASE RemoveAnchor(p)
  BY <1>2 DEF RemoveAnchor, GoOn, Report, RemoveTrust
<1>3. CASE DeleteKeyOfCA(p)
  BY <1>3 DEF DeleteKeyOfCA, GoOn, Report, DeleteCAKey
<1>4. CASE DeleteKeyOfServer(p)
  BY <1>4 DEF DeleteKeyOfServer, GoOn, Report, DeleteServerKey
<1>5. CASE StatDir(p)
  <2>1. UNCHANGED <<stores, seen, ca, server, at>>
    BY <1>5 DEF StatDir
  <2>2. faults' \in Nat
    <3>1. UNCHANGED faults \/ Fault("stat")
      BY <1>5, Zenon DEF StatDir
    <3> QED
      BY <3>1
  <2>3. CASE GoOn(p, "unlinkCA", FALSE)
    BY <2>1, <2>2, <2>3 DEF GoOn
  <2>4. CASE \E error \in BOOLEAN : Report(p, error)
    BY <2>1, <2>2, <2>4, ReportTypes
  <2> QED
    BY <1>5, <2>3, <2>4 DEF StatDir
<1>6. CASE UnlinkCA(p)
  BY <1>6 DEF UnlinkCA, GoOn, Report
<1>7. CASE UnlinkServer(p)
  BY <1>7 DEF UnlinkServer, GoOn, Report
<1>8. CASE RemoveDir(p)
  <2>1. UNCHANGED <<caDER, serverDER, keys, root, certsMade, seen, ca, server, at>>
    BY <1>8 DEF RemoveDir
  <2>2. faults' \in Nat
    <3>1. UNCHANGED faults \/ Fault("file")
      BY <1>8, Zenon DEF RemoveDir
    <3> QED
      BY <3>1
  <2>3. tlsDir' \in BOOLEAN
    <3>1. tlsDir' = FALSE \/ tlsDir' = tlsDir
      BY <1>8, Zenon DEF RemoveDir
    <3> QED
      BY <3>1
  <2>4. CASE GoOn(p, "unlinkCA", FALSE)
    BY <2>1, <2>2, <2>3, <2>4 DEF GoOn
  <2>5. CASE \E error \in BOOLEAN : Report(p, error)
    <3>1. /\ pc' \in [Proc -> Outcome \cup CallStep]
          /\ failed' \in [Proc -> BOOLEAN]
          /\ UNCHANGED signers
          /\ \A q \in Proc : pc'[q] = pc[q] \/ pc'[q] \in Outcome
      BY <2>5, ReportTypes
    <3>2. CertificatesParsed'
      BY <2>1, <3>1
    <3>3. TypeOK'
      BY <2>1, <2>2, <2>3, <3>1
    <3> QED
      BY <3>2, <3>3
  <2> QED
    BY <1>8, <2>4, <2>5 DEF RemoveDir
<1> QED
  BY <1>1, <1>2, <1>3, <1>4, <1>5, <1>6, <1>7, <1>8 DEF CleaningNext

\* Calls that begin or end, crashes, the clock and damage keep the types.
LEMMA SurroundingTypes ==
  ASSUME TypeInv,
         SetClock \/ Damaged \/ \E p \in Proc : Begin(p) \/ Finish(p) \/ Crash(p)
  PROVE  TypeInv'
<1> USE DEF TypeInv, TypeOK, StoresTypeOK, CertificatesParsed, stores, files, keys,
            working, signers, budget, Goto, Fault, Outcome, CallStep, ProvisioningStep,
            LoadingStep, CleaningStep, HasCA, HasServer, HoldsServer, NoKey
<1>1. CASE SetClock
  BY <1>1, ParameterAssumption DEF SetClock
<1>2. CASE Damaged
  <2>1. /\ UNCHANGED <<tlsDir, keysMade, certsMade, now, pc, op>>
        /\ UNCHANGED <<working, signers, calls>>
    BY <1>2 DEF Damaged
  <2>2. CASE DamageFile /\ UNCHANGED <<caKey, serverKey, root>>
    <3>1. faults' \in Nat
      BY <2>2 DEF DamageFile
    <3>2. caDER' \in CACert \cup {None, Corrupt}
      <4>1. caDER \in CACert => [caDER EXCEPT !.key = 0] \in CACert
        BY DEF CACert
      <4> QED
        BY <2>2, <4>1 DEF DamageFile
    <3>3. serverDER' \in ServerCert \cup {None, Corrupt}
      <4> SUFFICES ASSUME serverDER \in ServerCert, UNCHANGED caDER
                   PROVE  serverDER' \in ServerCert \cup {None, Corrupt}
        BY <2>2 DEF DamageFile
      <4>1. [serverDER EXCEPT !.key = 0] \in ServerCert
        BY DEF ServerCert
      <4>2. [serverDER EXCEPT !.issuer = 0] \in ServerCert
        BY DEF ServerCert
      <4>3. [serverDER EXCEPT !.localSAN = FALSE] \in ServerCert
        BY FALSE \in BOOLEAN DEF ServerCert
      <4> QED
        BY <2>2, <4>1, <4>2, <4>3 DEF DamageFile
    <3> QED
      BY <2>1, <2>2, <3>1, <3>2, <3>3
  <2>3. CASE DamageKey /\ UNCHANGED <<caDER, serverDER, root>>
    BY <2>1, <2>3 DEF DamageKey
  <2>4. CASE DamageRoot /\ UNCHANGED <<caDER, serverDER, caKey, serverKey>>
    BY <2>1, <2>4 DEF DamageRoot
  <2> QED
    BY <1>2, <2>2, <2>3, <2>4 DEF Damaged
<1>3. ASSUME NEW p \in Proc, Begin(p)
      PROVE  TypeInv'
  BY <1>3 DEF Begin, FirstStep, Named
<1>4. ASSUME NEW p \in Proc, Finish(p)
      PROVE  TypeInv'
  <2>1. PICK caHandle \in Nat, serverHandle \in Nat : Idle(p, caHandle, serverHandle)
    BY <1>4 DEF Finish
  <2>2. UNCHANGED faults
    BY <1>4 DEF Finish
  <2> QED
    BY <2>1, <2>2 DEF Idle
<1>5. ASSUME NEW p \in Proc, Crash(p)
      PROVE  TypeInv'
  BY <1>5 DEF Crash, Idle
<1> QED
  BY <1>1, <1>2, <1>3, <1>4, <1>5

\* Every variable always has its type, and a call that has got past reading
\* or making a certificate works on one that parsed.
THEOREM TypeCorrect == Spec => []TypeInv
<1>1. Init => TypeInv
  <2> SUFFICES ASSUME Init PROVE TypeInv
    OBVIOUS
  <2>1. CertificatesParsed
    BY DEF Init, CertificatesParsed, HasCA, HasServer, HoldsServer, LoadingStep
  <2>2. StoresTypeOK
    BY DEF Init, StoresInit, StoresTypeOK, NoKey
  <2>3. failed \in [Proc -> BOOLEAN]
    BY Zenon DEF Init
  <2> QED
    BY <2>1, <2>2, <2>3 DEF Init, TypeInv, TypeOK, Outcome, NoKey
<1>2. TypeInv /\ [Next]_vars => TypeInv'
  <2>1. ASSUME TypeInv, UNCHANGED vars
        PROVE  TypeInv'
    BY <2>1 DEF TypeInv, TypeOK, StoresTypeOK, CertificatesParsed, vars, stores, files,
                keys, working, signers, budget
  <2>2. ASSUME TypeInv, NEW p \in Proc, Step(p)
        PROVE  TypeInv'
    BY <2>2, ProvisioningTypes, LoadingTypes, CleaningTypes DEF Step
  <2> QED
    BY <2>1, <2>2, SurroundingTypes DEF Next
<1> QED
  BY <1>1, <1>2, PTL DEF Spec
=============================================================================
