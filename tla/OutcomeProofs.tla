---------------------------- MODULE OutcomeProofs ----------------------------
(***************************************************************************)
(* What calls leave behind and what they return: no anchor loses its       *)
(* certificate, the files fit the keys, a cleanup tells the truth,         *)
(* ProvisionMachine leaves a complete machine, and what is returned is     *)
(* valid.  Each theorem names the conditions it needs.  The last one takes *)
(* them all to a machine whose operator recovers from errors.              *)
(***************************************************************************)
EXTENDS IdentityProofs, Recovery

\* Where a call is when it begins, and where the process is after it.
LEMMA FirstSteps ==
  ASSUME TypeInv, NEW p \in Proc, Begin(p) \/ Finish(p) \/ Crash(p)
  PROVE  pc'[p] \in {"idle", "statCA", "chooseCA", "readCA", "readDER", "removeAnchor"}
<1>1. CASE Begin(p)
  <2>1. PICK entry \in Entry : pc' = [pc EXCEPT ![p] = FirstStep(entry)]
    BY <1>1 DEF Begin, Goto
  <2>2. FirstStep(entry) \in {"statCA", "chooseCA", "readCA", "readDER", "removeAnchor"}
    BY DEF FirstStep
  <2> QED
    BY <2>1, <2>2 DEF TypeInv, TypeOK
<1>2. CASE Finish(p) \/ Crash(p)
  BY <1>2 DEF Finish, Crash, Idle, Goto, TypeInv, TypeOK
<1> QED
  BY <1>1, <1>2

\* A step leaves the certificates and the clock reading of the other calls
\* alone.
LEMMA OtherCertificates ==
  ASSUME TypeInv, NEW p \in Proc, Step(p)
  PROVE  \A q \in Proc \ {p} :
           ca'[q] = ca[q] /\ server'[q] = server[q] /\ at'[q] = at[q]
<1> USE DEF TypeInv, TypeOK, working
<1>1. CASE ProvisioningNext(p)
  BY <1>1, StepFrame
     DEF ProvisioningNext, StatCA, StatServer, ProbeCA, ProbeServer, ChooseCA, ChooseServer,
         MakeDir, CreateCA, CreateServer, WriteCA, WriteServer, Install, WriteFails, CallFails
<1>2. CASE LoadingNext(p)
  BY <1>2, StepFrame
     DEF LoadingNext, ReadCA, OpenCA, ReadServer, OpenServer, VerifyAnchor, Reinstall,
         Reverify, Renew, WriteRenewed, WriteFails, CallFails
<1>3. CASE CleaningNext(p)
  BY <1>3, StepFrame
     DEF CleaningNext, ReadDER, RemoveAnchor, DeleteKeyOfCA, DeleteKeyOfServer, StatDir,
         UnlinkCA, UnlinkServer, RemoveDir, Collected
<1> QED
  BY <1>1, <1>2, <1>3 DEF Step

--------------------------------------------------------------------------
(* No anchor without its certificate *)

\* Nobody cleans up, and nobody else touches the files and the keys.
Undamaged ==
  /\ Entry \cap Cleaning = {}
  /\ Faults \cap Damage \subseteq {"dropAnchor", "addForeign"}

\* Then a step belongs to provisioning or to loading, and damage leaves the
\* files and the keys alone.
LEMMA UndamagedSteps ==
  ASSUME Undamaged, TypeInv, OwnershipInv
  PROVE  /\ \A p \in Proc : ~CleaningNext(p)
         /\ Damaged => UNCHANGED <<files, keys, signers, pc, ca, server, op>>
<1>1. ASSUME NEW p \in Proc, CleaningNext(p)
      PROVE  FALSE
  <2>1. op[p] \in Cleaning
    BY <1>1, CleaningFrame DEF OwnershipInv, StepsOfCalls
  <2>2. op[p] \in Entry
    BY <2>1 DEF TypeInv, TypeOK, Cleaning
  <2> QED
    BY <2>1, <2>2 DEF Undamaged
<1>2. ASSUME Damaged
      PROVE  UNCHANGED <<files, keys, signers, pc, ca, server, op>>
  <2>1. ~DamageFile /\ ~DamageKey
    BY DEF DamageFile, DamageKey, Fault, Damage, Undamaged
  <2> QED
    BY <1>2, <2>1 DEF Damaged, files, keys, signers, working
<1> QED
  BY <1>1, <1>2

\* A CA certificate is written but never removed.
LEMMA CertificateStays ==
  ASSUME Undamaged, TypeInv, OwnershipInv, Next, caDER' # caDER
  PROVE  caDER' \in CACert /\ \E p \in Proc : Step(p)
<1> USE DEF stores, files
<1>1. ASSUME NEW p \in Proc, ProvisioningNext(p)
      PROVE  caDER' = caDER \/ caDER' \in CACert
  <2>1. CASE WriteCA(p)
    <3>1. ca[p] \in CACert
      BY <2>1 DEF WriteCA, TypeInv, CertificatesParsed, HasCA
    <3> QED
      BY <2>1, <3>1 DEF WriteCA, WriteFails, CallFails, atomicWriteCA
  <2>2. CASE ~WriteCA(p)
    BY <1>1, <2>2
       DEF ProvisioningNext, StatCA, StatServer, ProbeCA, ProbeServer, ChooseCA, ChooseServer,
           MakeDir, CreateCA, CreateServer, WriteServer, Install, CallFails, WriteFails,
           LoadOrCreateCAKey, LoadOrCreateServerKey, atomicWriteServer, InstallTrust
  <2> QED
    BY <2>1, <2>2
<1>2. ASSUME NEW p \in Proc, LoadingNext(p)
      PROVE  caDER' = caDER
  BY <1>2
     DEF LoadingNext, ReadCA, OpenCA, ReadServer, OpenServer, VerifyAnchor, Reinstall,
         Reverify, Renew, WriteRenewed, CallFails, WriteFails, LoadOrCreateCAKey, openCAKey,
         LoadOrCreateServerKey, openServerKey, InstallTrust, atomicWriteServer
<1>3. ASSUME NEW p \in Proc, Begin(p) \/ Finish(p) \/ Crash(p)
      PROVE  caDER' = caDER
  BY <1>3 DEF Begin, Finish, Crash, Idle
<1>4. SetClock \/ Damaged => caDER' = caDER
  BY UndamagedSteps DEF SetClock
<1> QED
  BY <1>1, <1>2, <1>3, <1>4, UndamagedSteps DEF Next, Step

\* For coordinated callers that do not clean up, every anchor of the
\* package in the Root store is the CA certificate on disk.
THEOREM AnchorsAreKnown ==
  Coordinated /\ Undamaged => (Spec => []NoOrphanAnchor)
<1> SUFFICES ASSUME Coordinated, Undamaged
             PROVE  Spec => []NoOrphanAnchor
  OBVIOUS
<1>1. Init => NoOrphanAnchor
  BY DEF Init, StoresInit, NoOrphanAnchor
<1>2. TypeInv /\ TypeInv' /\ OwnershipInv /\ SerialInv /\ NoOrphanAnchor /\ [Next]_vars
      => NoOrphanAnchor'
  <2> SUFFICES ASSUME TypeInv, TypeInv', OwnershipInv, SerialInv, NoOrphanAnchor, [Next]_vars
               PROVE  NoOrphanAnchor'
    OBVIOUS
  <2>1. CASE UNCHANGED vars
    BY <2>1 DEF NoOrphanAnchor, vars, stores, files
  <2>2. CASE Next
    <3>1. root' \subseteq root \cup {caDER, Foreign}
      BY <2>2, StepChanges, SurroundingChanges DEF Next
    <3>2. caDER' # caDER => caDER = None
      BY <2>2, CertificateStays, StepChanges, DistinctAssumption
    <3>3. root' \subseteq CACert \cup {Foreign}
      BY DEF TypeInv, TypeOK, StoresTypeOK
    <3> QED
      BY <3>1, <3>2, <3>3, DistinctAssumption DEF NoOrphanAnchor
  <2> QED
    BY <2>1, <2>2
<1> QED
  BY <1>1, <1>2, TypeCorrect, Ownership, Serialised, PTL DEF Spec

--------------------------------------------------------------------------
(* The files fit the keys *)

\* A call that fails keeps CAHandleInv.
LEMMA FailCAHandle ==
  ASSUME TypeInv, CAHandleInv, NEW p \in Proc, NEW caHandle, NEW serverHandle,
         Fail(p, caHandle, serverHandle), UNCHANGED <<op, ca>>
  PROVE  CAHandleInv'
BY DEF TypeInv, TypeOK, CAHandleInv, Fail, Goto, HasCA, LoadingStep

\* A call that works with a CA certificate keeps a CA key for it.
THEOREM CAHandles == Spec => []CAHandleInv
<1> USE DEF HasCA, LoadingStep, Goto
<1>1. Init => CAHandleInv
  BY DEF Init, CAHandleInv
<1>2. ASSUME TypeInv, OwnershipInv, CoherenceInv, CAHandleInv, NEW p \in Proc, Step(p)
      PROVE  CAHandleInv'
  <2>1. UNCHANGED op
    BY <1>2 DEF Step
  <2>2. CASE \/ \E kind : CallFails(p, kind)
             \/ \E c, s : Fail(p, c, s) /\ UNCHANGED ca
    BY <1>2, <2>1, <2>2, FailCAHandle DEF CallFails, working
  <2> SUFFICES ASSUME \A kind : ~CallFails(p, kind),
                      \A c, s : Fail(p, c, s) /\ UNCHANGED ca => FALSE
               PROVE  CAHandleInv'
    BY <2>2
  <2>3. /\ op[p] \in Provisioning \cup {"ReloadMachine"}
        /\ pc[p] \in {"install", "renew", "writeRenewed"}
        => ca[p].key # NoKey
    BY <1>2 DEF CoherenceInv, MaterialInv, CAHandleInv, Provisioning
  <2> USE <1>2, <2>1 DEF CAHandleInv, TypeInv, TypeOK, signers, working
  <2>4. CASE CleaningNext(p)
    <3>1. op[p] \notin Provisioning \cup {"ReloadMachine"}
      BY <2>4, CleaningFrame DEF OwnershipInv, StepsOfCalls, Cleaning, Provisioning
    <3>2. \A q \in Proc \ {p} : pc'[q] = pc[q] /\ ca'[q] = ca[q]
      BY StepFrame
    <3> QED
      BY <2>4, <3>1, <3>2, CleaningFrame
  <2>5. CASE ProvisioningNext(p)
    <3>1. CASE StatCA(p) \/ StatServer(p) \/ ProbeCA(p) \/ ProbeServer(p)
      BY <3>1 DEF StatCA, StatServer, ProbeCA, ProbeServer
    <3>2. CASE ChooseCA(p) \/ ChooseServer(p) \/ MakeDir(p)
      BY <3>2 DEF ChooseCA, ChooseServer, MakeDir
    <3>3. CASE CreateCA(p)
      <4>1. caKey' # NoKey
        BY <3>3 DEF CreateCA, LoadOrCreateCAKey, StoresTypeOK, NoKey
      <4> QED
        BY <3>3, <4>1 DEF CreateCA
    <3>4. CASE CreateServer(p)
      BY <3>4 DEF CreateServer
    <3>5. CASE WriteCA(p) \/ WriteServer(p)
      BY <3>5 DEF WriteCA, WriteServer, WriteFails
    <3>6. CASE Install(p)
      BY <2>3, <3>6 DEF Install, ReturnMaterial
    <3> QED
      BY <2>5, <3>1, <3>2, <3>3, <3>4, <3>5, <3>6 DEF ProvisioningNext
  <2>6. CASE LoadingNext(p)
    <3>1. CASE ReadCA(p)
      BY <3>1 DEF ReadCA, Provisioning
    <3>7. CASE ReadServer(p)
      BY <3>7 DEF ReadServer
    <3>8. CASE OpenServer(p)
      BY <3>8 DEF OpenServer
    <3>2. CASE OpenCA(p)
      <4>1. caKey' # NoKey
        BY <3>2 DEF OpenCA, openCAKey, LoadOrCreateCAKey, StoresTypeOK, keys, NoKey
      <4> QED
        BY <3>2, <4>1 DEF OpenCA
    <3>3. CASE VerifyAnchor(p)
      BY <3>3 DEF VerifyAnchor, ReturnMaterial, Provisioning
    <3>4. CASE Reinstall(p) \/ Reverify(p)
      BY <3>4 DEF Reinstall, Reverify
    <3>5. CASE Renew(p)
      BY <2>3, <3>5 DEF Renew, ReturnMaterial
    <3>6. CASE WriteRenewed(p)
      BY <2>3, <3>6 DEF WriteRenewed, WriteFails, ReturnMaterial
    <3> QED
      BY <2>6, <3>1, <3>2, <3>3, <3>4, <3>5, <3>6, <3>7, <3>8 DEF LoadingNext
  <2> QED
    BY <2>4, <2>5, <2>6 DEF Step
<1>3. ASSUME TypeInv, CAHandleInv,
             SetClock \/ Damaged \/ \E p \in Proc : Begin(p) \/ Finish(p) \/ Crash(p)
      PROVE  CAHandleInv'
  <2> USE <1>3 DEF CAHandleInv, TypeInv, TypeOK, signers, working
  <2>1. CASE SetClock \/ Damaged
    BY <2>1 DEF SetClock, Damaged
  <2>2. ASSUME NEW p \in Proc, Begin(p)
        PROVE  CAHandleInv'
    <3>1. pc'[p] \in {"idle", "statCA", "chooseCA", "readCA", "readDER", "removeAnchor"}
      BY <2>2, FirstSteps
    <3> QED
      BY <2>2, <3>1 DEF Begin
  <2>3. ASSUME NEW p \in Proc, Finish(p) \/ Crash(p)
        PROVE  CAHandleInv'
    BY <2>3 DEF Finish, Crash, Idle
  <2> QED
    BY <2>1, <2>2, <2>3
<1>4. CAHandleInv /\ UNCHANGED vars => CAHandleInv'
  BY DEF CAHandleInv, vars, working, signers
<1>5. TypeInv /\ OwnershipInv /\ CoherenceInv /\ CAHandleInv /\ [Next]_vars => CAHandleInv'
  BY <1>2, <1>3, <1>4 DEF Next
<1> QED
  BY <1>1, <1>5, TypeCorrect, Ownership, Coherence, PTL DEF Spec

\* What a step of a call that is no cleanup may do to the stores and the
\* handles: a key is only made where there was none, a handle is to the key
\* in the store, and what is written is for the handles of the writer.
StoresStep(p) ==
  /\ \/ caKey' = caKey
     \/ caKey = NoKey /\ caKey' # NoKey
  /\ \/ serverKey' = serverKey
     \/ serverKey = NoKey /\ serverKey' # NoKey
  /\ caSigner'[p] \in {caSigner[p], NoKey, caKey'}
  /\ serverSigner'[p] \in {serverSigner[p], NoKey, serverKey'}
  /\ \/ caDER' = caDER
     \/ /\ caDER' \in CACert
        /\ caDER'.key = caSigner[p] /\ caSigner[p] # NoKey
  /\ \/ serverDER' = serverDER
     \/ /\ serverDER' \in ServerCert
        /\ serverDER'.key = serverSigner[p] /\ serverSigner[p] # NoKey
        /\ serverDER'.issuer = caSigner[p] /\ caSigner[p] # NoKey

\* A step leaves the handles of the other calls alone.
LEMMA OtherHandles ==
  ASSUME TypeInv, NEW p \in Proc, Step(p)
  PROVE  \A q \in Proc \ {p} :
           caSigner'[q] = caSigner[q] /\ serverSigner'[q] = serverSigner[q]
<1> USE DEF TypeInv, TypeOK, signers
<1>1. \A c, s : Fail(p, c, s) =>
        \A q \in Proc \ {p} : caSigner'[q] = caSigner[q] /\ serverSigner'[q] = serverSigner[q]
  BY DEF Fail
<1>2. ReturnMaterial(p) =>
        \A q \in Proc \ {p} : caSigner'[q] = caSigner[q] /\ serverSigner'[q] = serverSigner[q]
  BY DEF ReturnMaterial
<1>3. CASE ProvisioningNext(p)
  BY <1>1, <1>2, <1>3
     DEF ProvisioningNext, StatCA, StatServer, ProbeCA, ProbeServer, ChooseCA, ChooseServer,
         MakeDir, CreateCA, CreateServer, WriteCA, WriteServer, Install, WriteFails, CallFails
<1>4. CASE LoadingNext(p)
  BY <1>1, <1>2, <1>4
     DEF LoadingNext, ReadCA, OpenCA, ReadServer, OpenServer, VerifyAnchor, Reinstall,
         Reverify, Renew, WriteRenewed, WriteFails, CallFails
<1>5. CASE CleaningNext(p)
  BY <1>5, CleaningFrame
<1> QED
  BY <1>3, <1>4, <1>5 DEF Step

\* Every step that is not one of a cleanup is a StoresStep.
LEMMA StepIsStoresStep ==
  ASSUME TypeInv, OwnershipInv, CoherenceInv, CAHandleInv,
         NEW p \in Proc, Step(p), ~CleaningNext(p)
  PROVE  StoresStep(p)
<1> USE DEF StoresStep, TypeInv, TypeOK, StoresTypeOK, stores, files, keys, signers, NoKey
<1>1. \A c, s : Fail(p, c, s) => caSigner'[p] \in {c, NoKey} /\ serverSigner'[p] \in {s, NoKey}
  BY DEF Fail
<1>2. ReturnMaterial(p) => caSigner'[p] = NoKey /\ UNCHANGED serverSigner
  BY DEF ReturnMaterial
<1>3. \A kind : CallFails(p, kind) => StoresStep(p)
  BY <1>1 DEF CallFails
<1>4. WriteFails(p) => StoresStep(p)
  BY <1>1 DEF WriteFails
<1>5. /\ pc[p] \in {"writeCA", "writeServer", "writeRenewed"}
      => /\ ca[p] \in CACert /\ ca[p].key = caSigner[p] /\ caSigner[p] # NoKey
         /\ server[p] \in ServerCert
         /\ server[p].key = serverSigner[p] /\ serverSigner[p] # NoKey
         /\ server[p].issuer = caSigner[p]
  <2>1. pc[p] \in {"writeCA", "writeServer", "writeRenewed"} =>
          op[p] \in Provisioning \cup {"ReloadMachine"}
    BY DEF OwnershipInv, StepsOfCalls, ProvisioningStep, LoadingStep, Loading
  <2> QED
    BY <2>1 DEF CertificatesParsed, CoherenceInv, MaterialInv, CAHandleInv, OwnershipInv,
                HandlesInv, HasCA, HasServer, HoldsServer, LoadingStep, Provisioning
<1>6. ASSUME LoadOrCreateCAKey \/ openCAKey
      PROVE  /\ caKey' = caKey \/ (caKey = NoKey /\ caKey' # NoKey)
             /\ UNCHANGED <<caDER, serverDER, serverKey>>
  BY <1>6 DEF LoadOrCreateCAKey, openCAKey
<1>7. ASSUME LoadOrCreateServerKey \/ openServerKey
      PROVE  /\ serverKey' = serverKey \/ (serverKey = NoKey /\ serverKey' # NoKey)
             /\ UNCHANGED <<caDER, serverDER, caKey>>
  BY <1>7 DEF LoadOrCreateServerKey, openServerKey
<1>8. CASE ProvisioningNext(p)
  <2>1. CASE StatCA(p) \/ StatServer(p) \/ ProbeCA(p) \/ ProbeServer(p)
    BY <2>1, <1>1, <1>3 DEF StatCA, StatServer, ProbeCA, ProbeServer
  <2>2. CASE ChooseCA(p) \/ ChooseServer(p) \/ MakeDir(p)
    BY <2>2, <1>3 DEF ChooseCA, ChooseServer, MakeDir
  <2>3. CASE CreateCA(p)
    BY <2>3, <1>1, <1>3, <1>6 DEF CreateCA
  <2>4. CASE CreateServer(p)
    BY <2>4, <1>1, <1>3, <1>7 DEF CreateServer
  <2>5. CASE WriteCA(p)
    BY <2>5, <1>3, <1>4, <1>5 DEF WriteCA, atomicWriteCA
  <2>6. CASE WriteServer(p)
    BY <2>6, <1>3, <1>4, <1>5 DEF WriteServer, atomicWriteServer
  <2>7. CASE Install(p)
    BY <2>7, <1>2, <1>3 DEF Install, InstallTrust
  <2> QED
    BY <1>8, <2>1, <2>2, <2>3, <2>4, <2>5, <2>6, <2>7 DEF ProvisioningNext
<1>9. CASE LoadingNext(p)
  <2>1. CASE ReadCA(p) \/ ReadServer(p)
    BY <2>1, <1>1, <1>3 DEF ReadCA, ReadServer
  <2>2. CASE OpenCA(p)
    BY <2>2, <1>1, <1>3, <1>6 DEF OpenCA
  <2>3. CASE OpenServer(p)
    BY <2>3, <1>1, <1>3, <1>7 DEF OpenServer
  <2>4. CASE VerifyAnchor(p) \/ Reinstall(p) \/ Reverify(p)
    BY <2>4, <1>1, <1>2, <1>3 DEF VerifyAnchor, Reinstall, Reverify, InstallTrust
  <2>5. CASE Renew(p)
    BY <2>5, <1>1, <1>2 DEF Renew
  <2>6. CASE WriteRenewed(p)
    BY <2>6, <1>2, <1>3, <1>4, <1>5 DEF WriteRenewed, atomicWriteServer
  <2> QED
    BY <1>9, <2>1, <2>2, <2>3, <2>4, <2>5, <2>6 DEF LoadingNext
<1> QED
  BY <1>8, <1>9 DEF Step

\* Undamaged certificates are for the keys in the store and for the handles
\* of the calls.
THEOREM DiskInvariant == Undamaged => (Spec => []DiskInv)
<1> SUFFICES ASSUME Undamaged
             PROVE  Spec => []DiskInv
  OBVIOUS
<1>1. Init => DiskInv
  BY DistinctAssumption DEF Init, StoresInit, DiskInv
<1>2. ASSUME TypeInv, OwnershipInv, CoherenceInv, CAHandleInv, DiskInv, NEW p \in Proc, Step(p)
      PROVE  DiskInv'
  <2>1. StoresStep(p)
    BY <1>2, StepIsStoresStep, UndamagedSteps
  <2>2. \A q \in Proc : caSigner'[q] \in {NoKey, caKey'}
    BY <1>2, <2>1, OtherHandles DEF StoresStep, DiskInv
  <2>3. \A q \in Proc : serverSigner'[q] \in {NoKey, serverKey'}
    BY <1>2, <2>1, OtherHandles DEF StoresStep, DiskInv
  <2>4. caDER' # Corrupt /\ (caDER' \in CACert => caKey' # NoKey /\ caDER'.key = caKey')
    BY <1>2, <2>1, DistinctAssumption DEF StoresStep, DiskInv
  <2>5. /\ serverDER' # Corrupt
        /\ serverDER' \in ServerCert =>
             /\ caKey' # NoKey /\ serverDER'.issuer = caKey'
             /\ serverKey' # NoKey /\ serverDER'.key = serverKey'
    BY <1>2, <2>1, DistinctAssumption DEF StoresStep, DiskInv
  <2> QED
    BY <2>2, <2>3, <2>4, <2>5 DEF DiskInv
<1>3. ASSUME TypeInv, OwnershipInv, DiskInv,
             SetClock \/ Damaged \/ \E p \in Proc : Begin(p) \/ Finish(p) \/ Crash(p)
      PROVE  DiskInv'
  <2>1. UNCHANGED <<caDER, serverDER, caKey, serverKey>>
    BY <1>3, UndamagedSteps DEF SetClock, Begin, Finish, Crash, Idle, stores, files, keys
  <2>2. \A p \in Proc : /\ caSigner'[p] \in {caSigner[p], NoKey}
                        /\ serverSigner'[p] \in {serverSigner[p], NoKey}
    <3>1. CASE SetClock \/ Damaged \/ \E p \in Proc : Begin(p)
      BY <3>1 DEF SetClock, Damaged, Begin, signers
    <3>2. CASE \E p \in Proc : Finish(p) \/ Crash(p)
      BY <1>3, <3>2 DEF Finish, Crash, Idle, TypeInv, TypeOK
    <3> QED
      BY <1>3, <3>1, <3>2
  <2> QED
    BY <1>3, <2>1, <2>2 DEF DiskInv
<1>4. DiskInv /\ UNCHANGED vars => DiskInv'
  BY DEF DiskInv, vars, stores, files, keys, signers
<1>5. TypeInv /\ OwnershipInv /\ CoherenceInv /\ CAHandleInv /\ DiskInv /\ [Next]_vars
      => DiskInv'
  BY <1>2, <1>3, <1>4 DEF Next
<1> QED
  BY <1>1, <1>5, TypeCorrect, Ownership, Coherence, CAHandles, PTL DEF Spec

\* While nobody cleans up and nobody else touches the files and the keys,
\* the certificates on disk are for the keys in the store and fit each
\* other, even when elevated calls overlap, fail and crash.
THEOREM DiskIsCoherent == Undamaged => (Spec => []DiskCoherent)
<1>1. DiskInv => DiskCoherent
  BY DEF DiskInv, DiskCoherent
<1> QED
  BY <1>1, DiskInvariant, PTL

--------------------------------------------------------------------------
(* What a cleanup that returns nil has removed *)

\* The callers never let two elevated calls overlap.
ElevatedExclude == Entry \cap Elevated \subseteq Exclusive

\* Then at most one elevated call runs.
THEOREM ElevatedCallsExclude == ElevatedExclude => (Spec => []ElevatedAlone)
<1> SUFFICES ASSUME ElevatedExclude
             PROVE  Spec => []ElevatedAlone
  OBVIOUS
<1>1. Init => ElevatedAlone
  BY DEF Init, ElevatedAlone, Running, CallStep, ProvisioningStep, LoadingStep, CleaningStep
<1>2. ASSUME TypeInv, ElevatedAlone, NEW p \in Proc, Step(p) \/ Finish(p) \/ Crash(p)
      PROVE  ElevatedAlone'
  <2>1. \A q \in Proc : Running(q)' => Running(q) /\ op'[q] = op[q]
    <3>1. CASE Step(p)
      BY <1>2, <3>1, StepFrame DEF Running
    <3>2. CASE Finish(p) \/ Crash(p)
      BY <1>2, <3>2 DEF Finish, Crash, Idle, Goto, TypeInv, TypeOK, Running, CallStep,
                        ProvisioningStep, LoadingStep, CleaningStep
    <3> QED
      BY <1>2, <3>1, <3>2
  <2> QED
    BY <1>2, <2>1 DEF ElevatedAlone
<1>3. ASSUME TypeInv, ElevatedAlone, NEW p \in Proc, Begin(p)
      PROVE  ElevatedAlone'
  <2>1. PICK entry \in Entry :
          /\ entry \in Exclusive => \A q \in Proc : Running(q) => op[q] \notin Exclusive
          /\ op' = [op EXCEPT ![p] = entry]
    BY <1>3 DEF Begin
  <2>2. \A q \in Proc \ {p} : (Running(q)' <=> Running(q)) /\ op'[q] = op[q]
    BY <1>3, <2>1 DEF Begin, Goto, TypeInv, TypeOK, Running
  <2>3. op'[p] = entry
    BY <1>3, <2>1 DEF TypeInv, TypeOK
  <2>4. ASSUME NEW q \in Proc \ {p}, Running(q), op[q] \in Elevated
        PROVE  entry \notin Elevated
    <3>1. op[q] \in Entry
      BY <1>3, <2>4 DEF TypeInv, TypeOK, Elevated, Provisioning, Cleaning
    <3> QED
      BY <2>1, <2>4, <3>1 DEF ElevatedExclude
  <2> QED
    BY <1>3, <2>2, <2>3, <2>4 DEF ElevatedAlone
<1>4. ElevatedAlone /\ (SetClock \/ Damaged \/ UNCHANGED vars) => ElevatedAlone'
  BY DEF ElevatedAlone, Running, SetClock, Damaged, vars
<1>5. TypeInv /\ ElevatedAlone /\ [Next]_vars => ElevatedAlone'
  BY <1>2, <1>3, <1>4 DEF Next
<1> QED
  BY <1>1, <1>5, TypeCorrect, PTL DEF Spec

\* The directory goes when it is empty, and files are written into it only.
THEOREM FilesInDirectory == Spec => []DirInv
<1> USE DEF DirInv, stores, files
<1>1. Init => DirInv
  BY DEF Init, StoresInit
<1>2. ASSUME DirInv, NEW p \in Proc, ProvisioningNext(p)
      PROVE  DirInv'
  BY <1>2
     DEF ProvisioningNext, StatCA, StatServer, ProbeCA, ProbeServer, ChooseCA, ChooseServer,
         MakeDir, CreateCA, CreateServer, WriteCA, WriteServer, Install, CallFails, WriteFails,
         LoadOrCreateCAKey, LoadOrCreateServerKey, atomicWriteCA, atomicWriteServer,
         InstallTrust
<1>3. ASSUME DirInv, NEW p \in Proc, LoadingNext(p)
      PROVE  DirInv'
  BY <1>3
     DEF LoadingNext, ReadCA, OpenCA, ReadServer, OpenServer, VerifyAnchor, Reinstall,
         Reverify, Renew, WriteRenewed, CallFails, WriteFails, LoadOrCreateCAKey, openCAKey,
         LoadOrCreateServerKey, openServerKey, InstallTrust, atomicWriteServer
<1>4. ASSUME DirInv, NEW p \in Proc, CleaningNext(p)
      PROVE  DirInv'
  BY <1>4
     DEF CleaningNext, ReadDER, RemoveAnchor, DeleteKeyOfCA, DeleteKeyOfServer, StatDir,
         UnlinkCA, UnlinkServer, RemoveDir, Collected, RemoveTrust, DeleteCAKey,
         DeleteServerKey
<1>5. ASSUME DirInv, NEW p \in Proc, Begin(p) \/ Finish(p) \/ Crash(p)
      PROVE  DirInv'
  BY <1>5 DEF Begin, Finish, Crash, Idle
<1>6. DirInv /\ Damaged => DirInv'
  BY DistinctAssumption DEF Damaged, DamageFile
<1>7. DirInv /\ (SetClock \/ UNCHANGED vars) => DirInv'
  BY DEF SetClock, vars
<1>8. DirInv /\ [Next]_vars => DirInv'
  BY <1>2, <1>3, <1>4, <1>5, <1>6, <1>7 DEF Next, Step
<1> QED
  BY <1>1, <1>8, PTL DEF Spec

\* How a cleanup goes on after a step, with or without an error.
LEMMA CleanupGoesOn ==
  ASSUME TypeInv, NEW p \in Proc
  PROVE  /\ \A step : GoOn(p, step, FALSE) => pc'[p] = step /\ (~failed'[p] => ~failed[p])
         /\ \A kind, step : Collected(p, kind, step) => pc'[p] = step /\ failed'[p]
         /\ Report(p, FALSE) => pc'[p] = IF failed[p] THEN "err" ELSE "ok"
         /\ Report(p, TRUE) => pc'[p] = "err"
BY DEF GoOn, Goto, Collected, Report, TypeInv, TypeOK

\* What a cleanup without an error has removed stays removed by its steps.
LEMMA CleanupProceeds ==
  ASSUME TypeInv, NEW p \in Proc, CleaningNext(p),
         pc[p] \in CleaningStep /\ ~failed[p] => CleanedSoFar(p),
         pc'[p] \in CleaningStep, ~failed'[p]
  PROVE  CleanedSoFar(p)'
<1> USE DEF CleanedSoFar, CleaningStep, stores, keys
<1>1. CASE ReadDER(p)
  <2>1. pc'[p] = "removeAnchor"
    BY <1>1, CleanupGoesOn DEF ReadDER, GoOn, TypeInv, TypeOK
  <2> QED
    BY <2>1
<1>2. CASE RemoveAnchor(p)
  <2>1. /\ pc'[p] = "deleteCAKey"
        /\ root' = root \ {ca[p]} /\ ca' = ca
    BY <1>2, CleanupGoesOn DEF RemoveAnchor, RemoveTrust
  <2> QED
    BY <2>1
<1>3. CASE DeleteKeyOfCA(p)
  <2>1. /\ pc'[p] = "deleteServerKey" /\ ~failed[p]
        /\ caKey' = NoKey /\ UNCHANGED <<root, ca>>
    BY <1>3, CleanupGoesOn DEF DeleteKeyOfCA, DeleteCAKey
  <2> QED
    BY <1>3, <2>1 DEF DeleteKeyOfCA
<1>4. CASE DeleteKeyOfServer(p)
  <2>1. /\ pc'[p] \in {"unlinkCA", "statDir"} /\ ~failed[p]
        /\ serverKey' = NoKey /\ UNCHANGED <<root, ca, caKey>>
    BY <1>4, CleanupGoesOn DEF DeleteKeyOfServer, DeleteServerKey
  <2> QED
    BY <1>4, <2>1 DEF DeleteKeyOfServer
<1>5. CASE StatDir(p) \/ UnlinkCA(p) \/ UnlinkServer(p) \/ RemoveDir(p)
  <2>1. UNCHANGED <<root, ca, caKey, serverKey>>
    BY <1>5 DEF StatDir, UnlinkCA, UnlinkServer, RemoveDir
  <2>2. pc[p] \in {"statDir", "unlinkCA", "unlinkServer", "rmdir"}
    BY <1>5 DEF StatDir, UnlinkCA, UnlinkServer, RemoveDir
  <2>3. ~failed[p]
    BY <1>5, CleanupGoesOn DEF StatDir, UnlinkCA, UnlinkServer, RemoveDir
  <2> QED
    BY <2>1, <2>2, <2>3
<1> QED
  BY <1>1, <1>2, <1>3, <1>4, <1>5 DEF CleaningNext

\* A cleanup returns nil without an error, from one of its last steps.
LEMMA CleanupEnds ==
  ASSUME TypeInv, NEW p \in Proc, CleaningNext(p), pc'[p] = "ok"
  PROVE  /\ pc[p] \in {"statDir", "rmdir"} /\ ~failed[p]
         /\ UNCHANGED <<root, caKey, serverKey>>
         /\ ~tlsDir'
<1>1. \A step, error : GoOn(p, step, error) => step = "ok"
  BY DEF GoOn, Goto, TypeInv, TypeOK
<1>2. \A kind, step : Collected(p, kind, step) => step = "ok"
  BY CleanupGoesOn
<1>3. ~Report(p, TRUE) /\ (Report(p, FALSE) => ~failed[p])
  BY CleanupGoesOn
<1>4. CASE StatDir(p)
  <2>1. ~tlsDir /\ ~failed[p]
    BY <1>1, <1>3, <1>4 DEF StatDir
  <2>2. UNCHANGED <<tlsDir, root, caKey, serverKey>>
    BY <1>4 DEF StatDir, stores, files, keys
  <2>3. pc[p] = "statDir"
    BY <1>4 DEF StatDir
  <2> QED
    BY <2>1, <2>2, <2>3
<1>5. CASE RemoveDir(p)
  <2>1. ~tlsDir' /\ ~failed[p]
    BY <1>1, <1>3, <1>5 DEF RemoveDir
  <2>2. UNCHANGED <<root, caKey, serverKey>>
    BY <1>5 DEF RemoveDir, keys
  <2>3. pc[p] = "rmdir"
    BY <1>5 DEF RemoveDir
  <2> QED
    BY <2>1, <2>2, <2>3
<1>6. ~(ReadDER(p) \/ RemoveAnchor(p) \/ DeleteKeyOfCA(p) \/ DeleteKeyOfServer(p))
  BY <1>1, <1>2 DEF ReadDER, RemoveAnchor, DeleteKeyOfCA, DeleteKeyOfServer
<1>7. ~(UnlinkCA(p) \/ UnlinkServer(p))
  BY <1>1 DEF UnlinkCA, UnlinkServer
<1> QED
  BY <1>4, <1>5, <1>6, <1>7 DEF CleaningNext

\* What a call of ReloadMachine or LoadServingMaterial leaves alone.
LEMMA LoaderKeepsRoot ==
  ASSUME TypeInv, OwnershipInv, NEW p \in Proc, Step(p), op[p] \in Loading
  PROVE  UNCHANGED root
<1>1. pc[p] \in LoadingStep \ {"reinstall", "reverify"}
  BY StepFrame DEF OwnershipInv, StepsOfCalls, Running, CallStep, Loading, Provisioning,
                   Cleaning
<1> USE DEF stores, keys, LoadingStep
<1>2. CASE LoadingNext(p)
  BY <1>1, <1>2
     DEF LoadingNext, ReadCA, OpenCA, ReadServer, OpenServer, VerifyAnchor, Reinstall,
         Reverify, Renew, WriteRenewed, CallFails, WriteFails, LoadOrCreateCAKey, openCAKey,
         LoadOrCreateServerKey, openServerKey, atomicWriteServer
<1>3. ~ProvisioningNext(p)
  BY <1>1 DEF ProvisioningNext, StatCA, StatServer, ProbeCA, ProbeServer, ChooseCA,
              ChooseServer, MakeDir, CreateCA, CreateServer, WriteCA, WriteServer, Install
<1>4. ~CleaningNext(p)
  BY <1>1, CleaningFrame DEF CleaningStep
<1> QED
  BY <1>2, <1>3, <1>4 DEF Step

\* A step of a call at a cleanup step is a cleanup's, and only such a step
\* gets there or changes what a cleanup has collected.
LEMMA CleanersClean ==
  ASSUME TypeInv, OwnershipInv, NEW p \in Proc, Step(p)
  PROVE  /\ pc[p] \in CleaningStep => CleaningNext(p)
         /\ pc'[p] \in CleaningStep => CleaningNext(p)
         /\ ~CleaningNext(p) => UNCHANGED failed
<1> SUFFICES ASSUME ~CleaningNext(p)
             PROVE  /\ pc[p] \notin CleaningStep /\ pc'[p] \notin CleaningStep
                    /\ UNCHANGED failed
  OBVIOUS
<1> USE DEF CleaningStep, TypeInv, TypeOK, working, Goto
<1>1. \A c, s : Fail(p, c, s) => pc'[p] = "err"
  BY DEF Fail
<1>2. ReturnMaterial(p) => pc'[p] = "ok"
  BY DEF ReturnMaterial
<1>3. CASE ProvisioningNext(p)
  BY <1>1, <1>2, <1>3
     DEF ProvisioningNext, StatCA, StatServer, ProbeCA, ProbeServer, ChooseCA, ChooseServer,
         MakeDir, CreateCA, CreateServer, WriteCA, WriteServer, Install, WriteFails, CallFails
<1>4. CASE LoadingNext(p)
  BY <1>1, <1>2, <1>4
     DEF LoadingNext, ReadCA, OpenCA, ReadServer, OpenServer, VerifyAnchor, Reinstall,
         Reverify, Renew, WriteRenewed, WriteFails, CallFails
<1> QED
  BY <1>3, <1>4 DEF Step

\* A cleanup without an error has removed what it has come by.
THEOREM CleanupAdvances == ElevatedExclude => (Spec => []CleanInv)
<1> SUFFICES ASSUME ElevatedExclude
             PROVE  Spec => []CleanInv
  OBVIOUS
<1>1. Init => CleanInv
  BY DEF Init, CleanInv, CleaningStep
<1>2. ASSUME TypeInv, OwnershipInv, ElevatedAlone, CleanInv, NEW p \in Proc, Step(p)
      PROVE  CleanInv'
  <2>1. ASSUME NEW q \in Proc \ {p}, pc'[q] \in CleaningStep, ~failed'[q]
        PROVE  CleanedSoFar(q)'
    <3>1. pc'[q] = pc[q] /\ ca'[q] = ca[q] /\ Running(p)
      BY <1>2, StepFrame
    <3>2. Running(q) /\ op[q] \in Cleaning
      BY <1>2, <2>1, <3>1 DEF Running, CallStep, OwnershipInv, StepsOfCalls
    <3>3. op[p] \in Loading
      BY <1>2, <3>1, <3>2, OtherIsLoader DEF Elevated
    <3>4. UNCHANGED <<caKey, serverKey, root>>
      BY <1>2, <3>3, LoaderFrame, LoaderKeepsRoot
    <3>5. ~failed[q]
      <4>1. ~CleaningNext(p)
        BY <1>2, <3>3, CleaningFrame DEF OwnershipInv, StepsOfCalls, Loading, Cleaning
      <4> QED
        BY <1>2, <2>1, <4>1, CleanersClean
    <3> QED
      BY <1>2, <2>1, <3>1, <3>4, <3>5 DEF CleanInv, CleanedSoFar
  <2>2. ASSUME pc'[p] \in CleaningStep, ~failed'[p]
        PROVE  CleanedSoFar(p)'
    <3>1. CleaningNext(p)
      BY <1>2, <2>2, CleanersClean
    <3> QED
      BY <1>2, <2>2, <3>1, CleanupProceeds DEF CleanInv
  <2> QED
    BY <2>1, <2>2 DEF CleanInv
<1>3. ASSUME TypeInv, CleanInv, NEW p \in Proc, Begin(p) \/ Finish(p) \/ Crash(p)
      PROVE  CleanInv'
  <2>1. ASSUME NEW q \in Proc \ {p}
        PROVE  pc'[q] = pc[q] /\ ca'[q] = ca[q] /\ failed'[q] = failed[q]
    BY <1>3 DEF Begin, Finish, Crash, Idle, Goto, TypeInv, TypeOK
  <2>2. UNCHANGED stores
    BY <1>3 DEF Begin, Finish, Crash, Idle
  <2>3. pc'[p] \notin CleaningStep \ {"readDER", "removeAnchor"}
    BY <1>3, FirstSteps DEF CleaningStep
  <2> QED
    BY <1>3, <2>1, <2>2, <2>3 DEF CleanInv, CleanedSoFar, CleaningStep, stores, keys
<1>4. ASSUME OwnershipInv, CleanInv, Damaged
      PROVE  CleanInv'
  <2>1. \A p \in Proc : pc[p] \notin CleaningStep
    BY <1>4 DEF Damaged, Undisturbed, OwnershipInv, StepsOfCalls, Running, CallStep, Elevated
  <2> QED
    BY <1>4, <2>1 DEF Damaged, CleanInv
<1>5. CleanInv /\ (SetClock \/ UNCHANGED vars) => CleanInv'
  BY DEF CleanInv, CleanedSoFar, SetClock, vars, stores, keys, working
<1>6. TypeInv /\ OwnershipInv /\ ElevatedAlone /\ CleanInv /\ [Next]_vars => CleanInv'
  BY <1>2, <1>3, <1>4, <1>5 DEF Next
<1> QED
  BY <1>1, <1>6, TypeCorrect, Ownership, ElevatedCallsExclude, PTL DEF Spec

\* When a cleanup returns nil, the anchor it was to remove is not in the
\* Root store, and no key, file or directory is left.
THEOREM CleanupTellsTheTruth == ElevatedExclude => (Spec => CleanupVerdict)
<1> SUFFICES ASSUME ElevatedExclude
             PROVE  Spec => CleanupVerdict
  OBVIOUS
<1> DEFINE Verdict ==
      \A p \in Proc :
        /\ Running(p) /\ op[p] \in Cleaning /\ pc'[p] = "ok"
        => /\ ca[p] \notin root'
           /\ caKey' = NoKey /\ serverKey' = NoKey
           /\ ~tlsDir' /\ caDER' = None /\ serverDER' = None
<1>1. TypeInv /\ OwnershipInv /\ CleanInv /\ DirInv /\ DirInv' /\ [Next]_vars => [Verdict]_vars
  <2> SUFFICES ASSUME TypeInv, OwnershipInv, CleanInv, DirInv, DirInv', Next,
                      NEW p \in Proc, Running(p), op[p] \in Cleaning, pc'[p] = "ok"
               PROVE  /\ ca[p] \notin root'
                      /\ caKey' = NoKey /\ serverKey' = NoKey
                      /\ ~tlsDir' /\ caDER' = None /\ serverDER' = None
    OBVIOUS
  <2>1. pc[p] # "ok" /\ pc[p] \in CleaningStep
    BY DEF Running, CallStep, ProvisioningStep, LoadingStep, CleaningStep, OwnershipInv,
           StepsOfCalls, Provisioning, Loading, Cleaning
  <2>2. CleaningNext(p)
    <3>1. \A q \in Proc : ~(Begin(q) \/ Finish(q) \/ Crash(q))
      BY <2>1 DEF Begin, Finish, Crash, Idle, Goto, FirstStep, TypeInv, TypeOK
    <3>2. ~(SetClock \/ Damaged)
      BY <2>1 DEF SetClock, Damaged
    <3>3. Step(p)
      BY <2>1, <3>1, <3>2, StepFrame DEF Next
    <3> QED
      BY <2>1, <3>3, CleanersClean
  <2>3. CleanedSoFar(p)
    BY <2>1, <2>2, CleanupEnds DEF CleanInv
  <2> QED
    BY <2>2, <2>3, CleanupEnds DEF CleanedSoFar, DirInv
<1> QED
  BY <1>1, TypeCorrect, Ownership, CleanupAdvances, FilesInDirectory, PTL
     DEF Spec, CleanupVerdict

--------------------------------------------------------------------------
(* What ProvisionMachine leaves *)

\* The own steps of ProvisionMachine.
LEMMA OwnCompletion ==
  ASSUME TypeInv, OwnershipInv, CompletionInv, NEW p \in Proc, Step(p), Running(p)',
         op[p] = "ProvisionMachine"
  PROVE  /\ pc'[p] \in {"renew", "writeRenewed"} => ca'[p] \in root'
         /\ pc'[p] \in {"install"} \cup (LoadingStep \ {"readCA", "openCA", "readServer"})
            => serverDER' \in ServerCert
<1> USE DEF Goto, LoadingStep, TypeInv, TypeOK, stores, files, working
<1> SUFFICES ASSUME \A c, s : ~Fail(p, c, s)
             PROVE  /\ pc'[p] \in {"renew", "writeRenewed"} => ca'[p] \in root'
                    /\ pc'[p] \in {"install"} \cup (LoadingStep \ {"readCA", "openCA", "readServer"})
                       => serverDER' \in ServerCert
  BY FailStops
<1>1. Running(p) /\ ~ReturnMaterial(p) /\ ~CleaningNext(p)
  <2>1. ~ReturnMaterial(p)
    BY DEF ReturnMaterial, Running, CallStep, ProvisioningStep, CleaningStep
  <2> QED
    BY <2>1, StepFrame, CleaningFrame DEF OwnershipInv, StepsOfCalls, Cleaning
<1>2. CASE ProvisioningNext(p)
  <2>1. CASE WriteServer(p)
    <3>1. server[p] \in ServerCert
      BY <2>1 DEF WriteServer, CertificatesParsed, HasServer, HoldsServer
    <3> QED
      BY <2>1, <3>1 DEF WriteServer, WriteFails, CallFails, atomicWriteServer
  <2>2. CASE ~WriteServer(p)
    BY <1>1, <1>2, <2>2
       DEF ProvisioningNext, StatCA, StatServer, ProbeCA, ProbeServer, ChooseCA, ChooseServer,
           MakeDir, CreateCA, CreateServer, WriteCA, Install, WriteFails, CallFails
  <2> QED
    BY <2>1, <2>2
<1>3. CASE LoadingNext(p)
  <2>1. CASE ReadCA(p) \/ ReadServer(p)
    BY <2>1 DEF ReadCA, ReadServer, CallFails
  <2>2. CASE OpenCA(p)
    BY <2>2 DEF OpenCA, CallFails
  <2>3. CASE OpenServer(p)
    BY <1>1, <2>3 DEF OpenServer, CallFails, CompletionInv, LoadOrCreateServerKey, openServerKey
  <2>4. CASE VerifyAnchor(p) \/ Reverify(p)
    BY <1>1, <2>4 DEF VerifyAnchor, Reverify, VerifyTrust, CallFails, CompletionInv
  <2>5. CASE Reinstall(p)
    BY <1>1, <2>5 DEF Reinstall, InstallTrust, CallFails, CompletionInv
  <2>6. CASE Renew(p)
    BY <1>1, <2>6 DEF Renew, CompletionInv
  <2>7. CASE WriteRenewed(p)
    BY <1>1, <2>7 DEF WriteRenewed, WriteFails, CallFails
  <2> QED
    BY <1>3, <2>1, <2>2, <2>3, <2>4, <2>5, <2>6, <2>7 DEF LoadingNext
<1> QED
  BY <1>1, <1>2, <1>3 DEF Step

\* Nothing takes from ProvisionMachine what it has read or written.
LEMMA StepCompletion ==
  ASSUME TypeInv, TypeInv', OwnershipInv, SerialInv, CompletionInv, DiskInv',
         NEW p \in Proc, Step(p)
  PROVE  CompletionInv'
<1> SUFFICES ASSUME NEW q \in Proc, Running(q)', op'[q] = "ProvisionMachine"
             PROVE  /\ pc'[q] \in {"renew", "writeRenewed"} => ca'[q] \in root'
                    /\ pc'[q] \in {"install"} \cup
                         (LoadingStep \ {"readCA", "openCA", "readServer"})
                       => serverDER' \in ServerCert
  BY DEF CompletionInv
<1>1. op[q] = "ProvisionMachine"
  BY StepFrame
<1>2. CASE q = p
  BY <1>1, <1>2, OwnCompletion
<1>3. CASE q # p
  <2>1. Running(q) /\ Running(p) /\ pc'[q] = pc[q] /\ ca'[q] = ca[q]
    BY <1>3, StepFrame DEF Running
  <2>2. op[p] \in Loading
    BY <1>1, <1>3, <2>1, OtherIsLoader DEF SerialInv, Elevated, Provisioning
  <2>3. UNCHANGED root /\ (serverDER # None => serverDER' # None)
    BY <2>2, LoaderFrame, LoaderKeepsRoot
  <2>4. serverDER \in ServerCert => serverDER' \in ServerCert
    BY <2>3, DistinctAssumption DEF DiskInv, TypeInv, TypeOK, StoresTypeOK
  <2> QED
    BY <1>1, <2>1, <2>3, <2>4 DEF CompletionInv
<1> QED
  BY <1>2, <1>3

\* Calls that begin or end, crashes, the clock and damage keep CompletionInv.
LEMMA SurroundingCompletion ==
  ASSUME TypeInv, CompletionInv,
         SetClock \/ Damaged \/ \E p \in Proc : Begin(p) \/ Finish(p) \/ Crash(p)
  PROVE  CompletionInv'
<1>1. CASE SetClock
  BY <1>1 DEF SetClock, CompletionInv, Running, stores, files, working
<1>2. CASE Damaged
  <2>1. UNCHANGED <<pc, op>> /\ \A p \in Proc : Running(p) => op[p] \notin Elevated
    BY <1>2 DEF Damaged, Undisturbed
  <2> QED
    BY <2>1 DEF CompletionInv, Running, Elevated, Provisioning
<1>3. ASSUME NEW p \in Proc, Begin(p) \/ Finish(p) \/ Crash(p)
      PROVE  CompletionInv'
  <2>1. UNCHANGED <<root, serverDER>>
    BY <1>3 DEF Begin, Finish, Crash, Idle, stores, files
  <2>2. \A q \in Proc \ {p} : pc'[q] = pc[q] /\ op'[q] = op[q] /\ ca'[q] = ca[q]
    BY <1>3 DEF Begin, Finish, Crash, Idle, Goto, TypeInv, TypeOK
  <2>3. pc'[p] \in {"idle", "statCA", "chooseCA", "readCA", "readDER", "removeAnchor"}
    BY <1>3, FirstSteps
  <2> QED
    BY <1>3, <2>1, <2>2, <2>3 DEF CompletionInv, Running, LoadingStep
<1> QED
  BY <1>1, <1>2, <1>3

\* ProvisionMachine returns a Material from one of three steps.
LEMMA StepReturns ==
  ASSUME TypeInv, OwnershipInv, NEW p \in Proc, Step(p), op[p] = "ProvisionMachine",
         pc'[p] = "ok"
  PROVE  Install(p) \/ Renew(p) \/ WriteRenewed(p)
<1> USE DEF Goto, TypeInv, TypeOK
<1>1. \A c, s : ~Fail(p, c, s)
  BY DEF Fail
<1>2. ~CleaningNext(p)
  BY CleaningFrame DEF OwnershipInv, StepsOfCalls, Cleaning
<1>3. CASE ProvisioningNext(p)
  BY <1>1, <1>3
     DEF ProvisioningNext, StatCA, StatServer, ProbeCA, ProbeServer, ChooseCA, ChooseServer,
         MakeDir, CreateCA, CreateServer, WriteCA, WriteServer, WriteFails, CallFails
<1>4. CASE LoadingNext(p)
  BY <1>1, <1>4
     DEF LoadingNext, ReadCA, OpenCA, ReadServer, OpenServer, VerifyAnchor, Reinstall,
         Reverify, CallFails
<1> QED
  BY <1>2, <1>3, <1>4 DEF Step

\* When ProvisionMachine returns a Material to coordinated callers on a
\* machine that nobody damages, the machine is complete: certificates and
\* keys fit, and the CA on disk is the one returned and trusted.
THEOREM ProvisioningCompletes ==
  Coordinated /\ Undamaged => (Spec => ProvisionCompletes)
<1> SUFFICES ASSUME Coordinated, Undamaged
             PROVE  Spec => ProvisionCompletes
  OBVIOUS
<1> DEFINE Complete ==
      \A p \in Proc :
       /\ Running(p) /\ op[p] = "ProvisionMachine" /\ pc'[p] = "ok"
       => /\ caDER' = ca'[p] /\ caDER' \in root'
          /\ serverDER' \in ServerCert
          /\ caKey' = caDER'.key /\ serverKey' = serverDER'.key
          /\ serverDER'.issuer = caDER'.key
<1>1. Init => CompletionInv
  BY DEF Init, CompletionInv, Running, CallStep, ProvisioningStep, LoadingStep, CleaningStep
<1>2. /\ TypeInv /\ TypeInv' /\ OwnershipInv /\ SerialInv /\ CompletionInv /\ DiskInv'
      /\ [Next]_vars
      => CompletionInv'
  <2>1. CompletionInv /\ UNCHANGED vars => CompletionInv'
    BY DEF CompletionInv, Running, vars, stores, files, working
  <2> QED
    BY <2>1, StepCompletion, SurroundingCompletion DEF Next
<1>3. TypeInv /\ OwnershipInv /\ SerialInv /\ CompletionInv /\ DiskInv' /\ [Next]_vars
      => [Complete]_vars
  <2> SUFFICES ASSUME TypeInv, OwnershipInv, SerialInv, CompletionInv, DiskInv', Next,
                      NEW p \in Proc, Running(p), op[p] = "ProvisionMachine", pc'[p] = "ok"
               PROVE  /\ caDER' = ca'[p] /\ caDER' \in root'
                      /\ serverDER' \in ServerCert
                      /\ caKey' = caDER'.key /\ serverKey' = serverDER'.key
                      /\ serverDER'.issuer = caDER'.key
    OBVIOUS
  <2>1. pc[p] # "ok" /\ PreCheckHolds(p)
    BY DEF Running, CallStep, ProvisioningStep, LoadingStep, CleaningStep, SerialInv
  <2>2. Step(p)
    <3>1. \A q \in Proc : ~(Begin(q) \/ Finish(q) \/ Crash(q))
      BY <2>1 DEF Begin, Finish, Crash, Idle, Goto, FirstStep, TypeInv, TypeOK
    <3>2. ~(SetClock \/ Damaged)
      BY <2>1 DEF SetClock, Damaged
    <3> QED
      BY <2>1, <3>1, <3>2, StepFrame DEF Next
  <2>3. Install(p) \/ Renew(p) \/ WriteRenewed(p)
    BY <2>2, StepReturns
  <2>4. caDER = ca[p] /\ ca[p] \in CACert
    BY <2>1, <2>3 DEF PreCheckHolds, LoadingStep, Install, Renew, WriteRenewed, TypeInv,
                      CertificatesParsed, HasCA
  <2>5. UNCHANGED <<caDER, ca>>
    BY <2>3 DEF Install, InstallTrust, Renew, WriteRenewed, WriteFails, atomicWriteServer,
                CallFails, stores, files, working
  <2>6. ca[p] \in root' /\ serverDER' \in ServerCert
    <3>1. \A c, s : ~Fail(p, c, s)
      BY DEF Fail, Goto, TypeInv, TypeOK
    <3>2. CASE Install(p)
      BY <3>1, <3>2 DEF Install, InstallTrust, CallFails, CompletionInv, stores, files
    <3>3. CASE Renew(p)
      BY <3>1, <3>3 DEF Renew, CompletionInv, LoadingStep, stores, files
    <3>4. CASE WriteRenewed(p)
      <4>1. server[p] \in ServerCert
        BY <3>4 DEF WriteRenewed, TypeInv, CertificatesParsed, HasServer, HoldsServer
      <4> QED
        BY <3>1, <3>4, <4>1 DEF WriteRenewed, WriteFails, atomicWriteServer, CallFails,
                                CompletionInv
    <3> QED
      BY <2>3, <3>2, <3>3, <3>4
  <2> QED
    BY <2>4, <2>5, <2>6 DEF DiskInv
<1> QED
  BY <1>1, <1>2, <1>3, TypeCorrect, Ownership, Serialised, DiskInvariant, PTL
     DEF Spec, ProvisionCompletes

--------------------------------------------------------------------------
(* Validity *)

\* A certificate that was just issued is not due, unless its CA ends soon.
LEMMA IssuedIsFresh ==
  ASSUME NEW t \in Nat, NEW c \in CACert, t < c.notAfter, NEW signer, NEW pub
  PROVE  LET leaf == createServerCertWithPub(t, c, signer, pub) IN
         /\ t < leaf.notAfter /\ leaf.notAfter <= c.notAfter
         /\ needsRenewal(leaf, t) => leaf.notAfter = c.notAfter
BY ValidityAssumption
   DEF createServerCertWithPub, cappedServerNotAfter, needsRenewal, CACert

\* A server certificate that is about to be returned had not ended when the
\* call read the clock.
THEOREM IssuedFresh == Spec => []FreshInv
<1> USE DEF Goto, Decided
<1>1. Init => FreshInv
  BY DEF Init, FreshInv
<1>2. ASSUME TypeInv, OwnershipInv, FreshInv, NEW p \in Proc, Step(p)
      PROVE  FreshInv'
  <2> DEFINE Fresh == /\ at[p] < server[p].notAfter
                      /\ needsRenewal(server[p], at[p]) => server[p].notAfter = ca[p].notAfter
             Returned == pc[p] = "ok" /\ op[p] \in Provisioning \cup {"ReloadMachine"}
             Held == pc[p] \in {"writeCA", "writeServer", "install", "writeRenewed"}
             Made == pc[p] = "createServer" => ca[p].notAfter = at[p] + caValidity
  <2>1. UNCHANGED op /\ \A q \in Proc \ {p} : pc'[q] = pc[q]
    BY <1>2, StepFrame
  <2>2. SUFFICES Made' /\ (Held' \/ Returned' => Fresh')
    BY <1>2, <2>1, OtherCertificates DEF FreshInv
  <2>3. Made /\ (Held \/ Returned => Fresh)
    BY <1>2 DEF FreshInv
  <2> USE <1>2 DEF TypeInv, TypeOK, working
  <2>4. \A c, s : Fail(p, c, s) => pc'[p] = "err"
    BY DEF Fail
  <2>5. ReturnMaterial(p) => pc'[p] = "ok"
    BY DEF ReturnMaterial
  <2>6. CASE pc'[p] \notin {"createServer", "writeCA", "writeServer", "install",
                            "writeRenewed", "ok"}
    BY <2>6
  <2>7. CASE MakeDir(p) \/ CreateCA(p)
    BY <2>4, <2>6, <2>7, ValidityAssumption
       DEF MakeDir, CreateCA, CallFails, createCACertSelfSigned
  <2>8. CASE CreateServer(p)
    <3>1. at[p] < ca[p].notAfter /\ ca[p] \in CACert
      BY <2>3, <2>8, ValidityAssumption DEF CreateServer, CertificatesParsed, HasCA
    <3>2. \/ pc'[p] = "err"
          \/ /\ pc'[p] = "writeCA" /\ UNCHANGED <<ca, at>>
             /\ server'[p] =
                  createServerCertWithPub(at[p], ca[p], caSigner[p], serverKey')
      BY <2>4, <2>8 DEF CreateServer, CallFails
    <3> QED
      BY <2>6, <3>1, <3>2, IssuedIsFresh
  <2>9. CASE WriteCA(p) \/ WriteServer(p)
    BY <2>3, <2>4, <2>6, <2>9 DEF WriteCA, WriteServer, WriteFails, CallFails
  <2>10. CASE Install(p) \/ WriteRenewed(p)
    BY <2>3, <2>4, <2>5, <2>6, <2>10 DEF Install, WriteRenewed, WriteFails, CallFails
  <2>11. CASE Renew(p)
    <3>1. ca[p] \in CACert /\ server[p] \in ServerCert
      BY <2>11 DEF Renew, CertificatesParsed, HasCA, HasServer, HoldsServer, LoadingStep
    <3>2. UNCHANGED ca /\ at'[p] = now
      BY <2>11 DEF Renew
    <3>3. CASE ~needsRenewal(server[p], now) /\ ReturnMaterial(p) /\ UNCHANGED server
      <4>1. now < server[p].notAfter
        BY <3>1, <3>3, ValidityAssumption DEF needsRenewal, ServerCert
      <4> QED
        BY <2>5, <3>2, <3>3, <4>1
    <3>4. CASE /\ validateCALifetime(ca[p], now) /\ pc'[p] = "writeRenewed"
               /\ server'[p] =
                    createServerCertWithPub(now, ca[p], caSigner[p], serverSigner[p])
      <4>1. now < ca[p].notAfter
        BY <3>4 DEF validateCALifetime
      <4> QED
        BY <3>1, <3>2, <3>4, <4>1, IssuedIsFresh
    <3> QED
      BY <2>4, <2>6, <2>11, <3>3, <3>4 DEF Renew
  <2>12. CASE VerifyAnchor(p)
    <3>1. \/ pc'[p] \in {"renew", "reinstall", "err"}
          \/ pc'[p] = "ok" /\ op[p] = "LoadServingMaterial"
      BY <2>4, <2>5, <2>12 DEF VerifyAnchor, CallFails
    <3> QED
      BY <2>1, <2>6, <3>1 DEF Provisioning
  <2>13. CASE CleaningNext(p)
    <3>1. pc'[p] \in CleaningStep \cup {"ok", "err"}
      BY <2>13, CleaningFrame
    <3>2. op[p] \notin Provisioning \cup {"ReloadMachine"}
      BY <2>13, CleaningFrame DEF OwnershipInv, StepsOfCalls, Cleaning, Provisioning
    <3> QED
      BY <2>1, <3>1, <3>2 DEF CleaningStep
  <2>14. CASE \/ StatCA(p) \/ StatServer(p) \/ ProbeCA(p) \/ ProbeServer(p)
              \/ ChooseCA(p) \/ ChooseServer(p)
    BY <2>4, <2>6, <2>14
       DEF StatCA, StatServer, ProbeCA, ProbeServer, ChooseCA, ChooseServer, CallFails
  <2>15. CASE \/ ReadCA(p) \/ OpenCA(p) \/ ReadServer(p) \/ OpenServer(p)
              \/ Reinstall(p) \/ Reverify(p)
    BY <2>4, <2>6, <2>15
       DEF ReadCA, OpenCA, ReadServer, OpenServer, Reinstall, Reverify, CallFails
  <2> QED
    BY <1>2, <2>7, <2>8, <2>9, <2>10, <2>11, <2>12, <2>13, <2>14, <2>15
       DEF Step, ProvisioningNext, LoadingNext
<1>3. ASSUME TypeInv, FreshInv, NEW p \in Proc, Begin(p) \/ Finish(p) \/ Crash(p)
      PROVE  FreshInv'
  <2>1. \A q \in Proc \ {p} : /\ pc'[q] = pc[q] /\ op'[q] = op[q] /\ ca'[q] = ca[q]
                              /\ server'[q] = server[q] /\ at'[q] = at[q]
    BY <1>3 DEF Begin, Finish, Crash, Idle, TypeInv, TypeOK
  <2>2. pc'[p] \in {"idle", "statCA", "chooseCA", "readCA", "readDER", "removeAnchor"}
    BY <1>3, FirstSteps
  <2> QED
    BY <1>3, <2>1, <2>2 DEF FreshInv
<1>4. FreshInv /\ (SetClock \/ Damaged \/ UNCHANGED vars) => FreshInv'
  BY DEF FreshInv, SetClock, Damaged, vars, working
<1>5. TypeInv /\ OwnershipInv /\ FreshInv /\ [Next]_vars => FreshInv'
  BY <1>2, <1>3, <1>4 DEF Next
<1> QED
  BY <1>1, <1>5, TypeCorrect, Ownership, PTL DEF Spec

--------------------------------------------------------------------------
(* What a CA key has issued *)

\* A certificate authority with a new key, a server certificate that ends no
\* later than its CA, and certificates that were damaged keep LineageInv.
LEMMA LineageGrows ==
  ASSUME TypeInv, LineageInv, keysMade' \in Nat, keysMade <= keysMade', NEW new,
         LiveCA' \subseteq CACert, LiveServer' \subseteq ServerCert,
         \A c \in LiveCA' : \/ c \in LiveCA
                            \/ c.key = NoKey
                            \/ c = new /\ keysMade < new.key /\ new.key <= keysMade',
         \A s \in LiveServer' :
            \/ s.issuer = NoKey
            \/ \E t \in LiveServer : s.issuer = t.issuer /\ s.notAfter = t.notAfter
            \/ \E c \in LiveCA : s.issuer = c.key /\ s.notAfter <= c.notAfter
  PROVE  LineageInv'
<1>1. LiveCA \subseteq CACert /\ LiveServer \subseteq ServerCert /\ keysMade \in Nat
  BY DEF LiveCA, LiveServer, TypeInv, TypeOK, StoresTypeOK
<1>2. \A c \in CACert : c.key \in Nat /\ c.notAfter \in Int
  BY DEF CACert
<1>3. \A s \in ServerCert : s.issuer \in Nat /\ s.notAfter \in Int
  BY DEF ServerCert
<1>4. \A c \in LiveCA' : c.key <= keysMade'
  BY <1>1, <1>2 DEF LineageInv, NoKey
<1>5. \A s \in LiveServer' : s.issuer <= keysMade
  BY <1>1, <1>2, <1>3 DEF LineageInv, NoKey
<1>6. \A c, d \in LiveCA' : c.key = d.key /\ c.key # NoKey => c = d
  BY <1>1, <1>2 DEF LineageInv
<1>7. ASSUME NEW s \in LiveServer', NEW c \in LiveCA', s.issuer = c.key, c.key # NoKey
      PROVE  s.notAfter <= c.notAfter
  <2>1. c \in LiveCA
    BY <1>1, <1>2, <1>5, <1>7
  <2>2. CASE \E t \in LiveServer : s.issuer = t.issuer /\ s.notAfter = t.notAfter
    BY <1>7, <2>1, <2>2 DEF LineageInv
  <2>3. CASE \E d \in LiveCA : s.issuer = d.key /\ s.notAfter <= d.notAfter
    BY <1>7, <2>1, <2>3 DEF LineageInv
  <2> QED
    BY <1>7, <2>2, <2>3
<1>8. \A s \in LiveServer' : s.issuer <= keysMade'
  BY <1>1, <1>3, <1>5
<1> QED
  BY <1>4, <1>6, <1>7, <1>8 DEF LineageInv

\* ProvisionMachine makes a CA certificate only where there is no CA key.
THEOREM NewCAsHaveNewKeys == Coordinated => (Spec => []NewKeyInv)
<1> SUFFICES ASSUME Coordinated
             PROVE  Spec => []NewKeyInv
  OBVIOUS
<1>1. Init => NewKeyInv
  BY DEF Init, NewKeyInv, Running, CallStep, ProvisioningStep, LoadingStep, CleaningStep
<1>2. ASSUME TypeInv, OwnershipInv, SerialInv, NewKeyInv, NEW p \in Proc, Step(p)
      PROVE  NewKeyInv'
  <2> SUFFICES ASSUME NEW q \in Proc, Running(q)', op'[q] = "ProvisionMachine",
                      pc'[q] \in {"chooseCA", "mkdir", "createCA"}, caDER' = None
               PROVE  caKey' = NoKey
    BY DEF NewKeyInv
  <2>1. op[q] = "ProvisionMachine" /\ Running(p)
    BY <1>2, StepFrame
  <2>2. CASE q # p
    <3>1. Running(q) /\ pc'[q] = pc[q]
      BY <1>2, <2>2, StepFrame DEF Running
    <3>2. UNCHANGED <<caDER, caKey>>
      BY <1>2, <2>1, <2>2, <3>1, OtherIsLoader, LoaderFrame
         DEF SerialInv, Elevated, Provisioning
    <3> QED
      BY <1>2, <2>1, <3>1, <3>2 DEF NewKeyInv
  <2>3. CASE q = p
    <3>1. PreCheckHolds(p) /\ ~CleaningNext(p)
      BY <1>2, <2>1, <2>3, CleaningFrame
         DEF SerialInv, OwnershipInv, StepsOfCalls, Cleaning
    <3> USE <2>3, TypeInv DEF Goto, TypeInv, TypeOK, stores, keys, files
    <3>2. \A c, s : ~Fail(p, c, s)
      BY DEF Fail
    <3>3. \A der, exists : fileExists(der, exists) => exists = (der # None)
      BY DEF fileExists, Fault, Coordinated
    <3>4. CASE ProbeServer(p)
      BY <1>2, <3>1, <3>2, <3>4
         DEF ProbeServer, CallFails, provisionStateInconsistent, PreCheckHolds
    <3>5. CASE ChooseCA(p)
      BY <1>2, <2>1, <3>5 DEF ChooseCA, NewKeyInv
    <3>6. CASE ChooseServer(p)
      BY <1>2, <3>1, <3>3, <3>6 DEF ChooseServer, PreCheckHolds
    <3>7. CASE MakeDir(p)
      BY <1>2, <2>1, <3>2, <3>7 DEF MakeDir, CallFails, NewKeyInv
    <3>8. CASE StatCA(p)
      BY <1>2, <2>1, <3>8 DEF StatCA
    <3>9. CASE ProbeCA(p)
      BY <1>2, <2>1, <3>2, <3>9 DEF ProbeCA, CallFails
    <3>10. CASE StatServer(p) \/ CreateCA(p) \/ CreateServer(p) \/ WriteCA(p) \/ WriteServer(p)
      BY <1>2, <3>2, <3>10
         DEF StatServer, CreateCA, CreateServer, WriteCA, WriteServer, WriteFails, CallFails
    <3>11. CASE Install(p) \/ LoadingNext(p)
      BY <1>2, <3>2, <3>11
         DEF Install, LoadingNext, ReadCA, OpenCA, ReadServer, OpenServer, VerifyAnchor,
             Reinstall, Reverify, Renew, WriteRenewed, ReturnMaterial, WriteFails, CallFails
    <3> QED
      BY <1>2, <3>1, <3>4, <3>5, <3>6, <3>7, <3>8, <3>9, <3>10, <3>11
         DEF Step, ProvisioningNext
  <2> QED
    BY <2>2, <2>3
<1>3. ASSUME TypeInv, NewKeyInv, NEW p \in Proc, Begin(p) \/ Finish(p) \/ Crash(p)
      PROVE  NewKeyInv'
  <2>1. UNCHANGED <<caDER, caKey>>
    BY <1>3 DEF Begin, Finish, Crash, Idle, stores, files, keys
  <2>2. \A q \in Proc \ {p} : pc'[q] = pc[q] /\ op'[q] = op[q]
    BY <1>3 DEF Begin, Finish, Crash, Idle, Goto, TypeInv, TypeOK
  <2>3. ~(Running(p)' /\ op'[p] = "ProvisionMachine" /\ pc'[p] = "chooseCA")
    <3>1. CASE Begin(p)
      BY <1>3, <3>1 DEF Begin, Goto, FirstStep, TypeInv, TypeOK
    <3>2. CASE Finish(p) \/ Crash(p)
      BY <1>3, <3>2 DEF Finish, Crash, Idle, Goto, TypeInv, TypeOK
    <3> QED
      BY <1>3, <3>1, <3>2
  <2>4. pc'[p] \notin {"mkdir", "createCA"}
    BY <1>3, FirstSteps
  <2> QED
    BY <1>3, <2>1, <2>2, <2>3, <2>4 DEF NewKeyInv, Running
<1>4. NewKeyInv /\ Damaged => NewKeyInv'
  BY DEF NewKeyInv, Damaged, Undisturbed, Running, Elevated, Provisioning
<1>5. NewKeyInv /\ (SetClock \/ UNCHANGED vars) => NewKeyInv'
  BY DEF NewKeyInv, Running, SetClock, vars, stores, files, keys
<1>6. TypeInv /\ OwnershipInv /\ SerialInv /\ NewKeyInv /\ [Next]_vars => NewKeyInv'
  BY <1>2, <1>3, <1>4, <1>5 DEF Next
<1> QED
  BY <1>1, <1>6, TypeCorrect, Ownership, Serialised, PTL DEF Spec

\* Keys are counted up.
LEMMA StepKeys ==
  ASSUME TypeInv, NEW p \in Proc, Step(p)
  PROVE  keysMade <= keysMade'
<1> SUFFICES keysMade' \in {keysMade, keysMade + 1}
  BY DEF TypeInv, TypeOK, StoresTypeOK
<1> USE DEF stores, keys
<1>1. CASE ProvisioningNext(p)
  BY <1>1
     DEF ProvisioningNext, StatCA, StatServer, ProbeCA, ProbeServer, ChooseCA, ChooseServer,
         MakeDir, CreateCA, CreateServer, WriteCA, WriteServer, Install, CallFails, WriteFails,
         LoadOrCreateCAKey, LoadOrCreateServerKey, atomicWriteCA, atomicWriteServer,
         InstallTrust
<1>2. CASE LoadingNext(p)
  BY <1>2
     DEF LoadingNext, ReadCA, OpenCA, ReadServer, OpenServer, VerifyAnchor, Reinstall,
         Reverify, Renew, WriteRenewed, CallFails, WriteFails, LoadOrCreateCAKey, openCAKey,
         LoadOrCreateServerKey, openServerKey, InstallTrust, atomicWriteServer
<1>3. CASE CleaningNext(p)
  BY <1>3
     DEF CleaningNext, ReadDER, RemoveAnchor, DeleteKeyOfCA, DeleteKeyOfServer, StatDir,
         UnlinkCA, UnlinkServer, RemoveDir, Collected, RemoveTrust, DeleteCAKey,
         DeleteServerKey
<1> QED
  BY <1>1, <1>2, <1>3 DEF Step

\* What a step of a call does to the CA certificates: it moves them about,
\* or makes one for the CA key.
LEMMA StepCA ==
  ASSUME TypeInv, NEW p \in Proc, Step(p)
  PROVE  /\ root' \subseteq root \cup {ca[p]}
         /\ caDER' \in {caDER, ca[p], None}
         /\ \/ ca'[p] \in {ca[p], caDER}
            \/ pc[p] = "createCA" /\ LoadOrCreateCAKey /\ ca'[p].key = caKey'
<1> USE DEF TypeInv, TypeOK, stores, files, working
<1>1. CASE CreateCA(p)
  BY <1>1, CertificateFields DEF CreateCA, LoadOrCreateCAKey, CallFails
<1>2. CASE ProvisioningNext(p) /\ ~CreateCA(p)
  BY <1>2
     DEF ProvisioningNext, StatCA, StatServer, ProbeCA, ProbeServer, ChooseCA, ChooseServer,
         MakeDir, CreateServer, WriteCA, WriteServer, Install, CallFails, WriteFails,
         LoadOrCreateServerKey, atomicWriteCA, atomicWriteServer, InstallTrust
<1>3. CASE LoadingNext(p)
  BY <1>3
     DEF LoadingNext, ReadCA, OpenCA, ReadServer, OpenServer, VerifyAnchor, Reinstall,
         Reverify, Renew, WriteRenewed, CallFails, WriteFails, LoadOrCreateCAKey, openCAKey,
         LoadOrCreateServerKey, openServerKey, InstallTrust, atomicWriteServer
<1>4. CASE CleaningNext(p)
  BY <1>4
     DEF CleaningNext, ReadDER, RemoveAnchor, DeleteKeyOfCA, DeleteKeyOfServer, StatDir,
         UnlinkCA, UnlinkServer, RemoveDir, Collected, RemoveTrust, DeleteCAKey,
         DeleteServerKey
<1> QED
  BY <1>1, <1>2, <1>3, <1>4 DEF Step

\* What a step of a call does to the server certificates: it moves them
\* about, or issues one for the CA certificate it has.
LEMMA StepLeaf ==
  ASSUME TypeInv, NEW p \in Proc, Step(p)
  PROVE  /\ serverDER' \in {serverDER, server[p], None}
         /\ \/ server'[p] \in {server[p], serverDER}
            \/ /\ pc[p] \in {"createServer", "renew"}
               /\ server'[p].issuer = caSigner[p]
               /\ server'[p].notAfter <= ca[p].notAfter
               /\ server'[p].notBefore <= at'[p]
<1> USE DEF TypeInv, TypeOK, stores, files, working
<1>1. \A t \in Nat : \A c \in CACert : \A signer, pub :
        LET leaf == createServerCertWithPub(t, c, signer, pub) IN
        leaf.issuer = signer /\ leaf.notAfter <= c.notAfter /\ leaf.notBefore <= t
  BY ValidityAssumption DEF createServerCertWithPub, cappedServerNotAfter, CACert
<1>2. pc[p] \in {"createServer", "renew"} => ca[p] \in CACert
  BY DEF CertificatesParsed, HasCA, LoadingStep
<1>3. CASE CreateServer(p)
  BY <1>1, <1>2, <1>3 DEF CreateServer, LoadOrCreateServerKey, CallFails
<1>4. CASE Renew(p)
  BY <1>1, <1>2, <1>4 DEF Renew
<1>5. CASE ProvisioningNext(p) /\ ~CreateServer(p)
  BY <1>5
     DEF ProvisioningNext, StatCA, StatServer, ProbeCA, ProbeServer, ChooseCA, ChooseServer,
         MakeDir, CreateCA, WriteCA, WriteServer, Install, CallFails, WriteFails,
         LoadOrCreateCAKey, atomicWriteCA, atomicWriteServer, InstallTrust
<1>6. CASE LoadingNext(p) /\ ~Renew(p)
  BY <1>6
     DEF LoadingNext, ReadCA, OpenCA, ReadServer, OpenServer, VerifyAnchor, Reinstall,
         Reverify, WriteRenewed, CallFails, WriteFails, LoadOrCreateCAKey, openCAKey,
         LoadOrCreateServerKey, openServerKey, InstallTrust, atomicWriteServer
<1>7. CASE CleaningNext(p)
  BY <1>7
     DEF CleaningNext, ReadDER, RemoveAnchor, DeleteKeyOfCA, DeleteKeyOfServer, StatDir,
         UnlinkCA, UnlinkServer, RemoveDir, Collected, RemoveTrust, DeleteCAKey,
         DeleteServerKey
<1> QED
  BY <1>3, <1>4, <1>5, <1>6, <1>7 DEF Step

\* Every step keeps LineageInv.
LEMMA StepLineage ==
  ASSUME Coordinated, TypeInv, TypeInv', OwnershipInv, SerialInv, CoherenceInv, NewKeyInv,
         LineageInv, NEW p \in Proc, Step(p)
  PROVE  LineageInv'
<1>1. /\ LiveCA' \subseteq CACert /\ LiveServer' \subseteq ServerCert
      /\ keysMade' \in Nat
  BY DEF LiveCA, LiveServer, TypeInv, TypeOK, StoresTypeOK
<1>2. keysMade <= keysMade'
  BY StepKeys
<1>3. ASSUME NEW c \in LiveCA'
      PROVE  \/ c \in LiveCA
             \/ c = ca'[p] /\ keysMade < c.key /\ c.key <= keysMade'
  <2>1. c \in LiveCA \/ c = ca'[p]
    BY <1>3, StepCA, OtherCertificates, DistinctAssumption DEF LiveCA
  <2>2. ca'[p] \in {ca[p], caDER} /\ c = ca'[p] => c \in LiveCA
    BY <1>1, <1>3 DEF LiveCA
  <2>3. ASSUME pc[p] = "createCA", LoadOrCreateCAKey, ca'[p].key = caKey'
        PROVE  keysMade < ca'[p].key /\ ca'[p].key <= keysMade'
    <3>1. op[p] = "ProvisionMachine" /\ Running(p)
      BY <2>3, StepFrame
         DEF OwnershipInv, StepsOfCalls, ProvisioningStep, TypeInv, TypeOK, Coordinated,
             Provisioning
    <3>2. caKey = NoKey
      BY <2>3, <3>1 DEF SerialInv, PreCheckHolds, NewKeyInv
    <3>3. caKey' = keysMade + 1 /\ keysMade' = keysMade + 1
      BY <2>3, <3>2 DEF LoadOrCreateCAKey
    <3> QED
      BY <2>3, <3>3 DEF TypeInv, TypeOK, StoresTypeOK
  <2> QED
    BY <2>1, <2>2, <2>3, StepCA
<1>4. ASSUME NEW s \in LiveServer'
      PROVE  \/ s \in LiveServer
             \/ \E c \in LiveCA : s.issuer = c.key /\ s.notAfter <= c.notAfter
  <2>1. s \in LiveServer \/ s = server'[p]
    BY <1>4, StepLeaf, OtherCertificates, DistinctAssumption DEF LiveServer
  <2>2. server'[p] \in {server[p], serverDER} /\ s = server'[p] => s \in LiveServer
    BY <1>1, <1>4 DEF LiveServer
  <2>3. pc[p] \in {"createServer", "renew"} => ca[p] \in LiveCA /\ ca[p].key = caSigner[p]
    BY DEF TypeInv, CertificatesParsed, HasCA, LoadingStep, LiveCA, CoherenceInv,
           MaterialInv, OwnershipInv, StepsOfCalls, ProvisioningStep, Provisioning
  <2> QED
    BY <2>1, <2>2, <2>3, StepLeaf
<1> QED
  BY <1>1, <1>2, <1>3, <1>4, LineageGrows

\* Damage to a server certificate leaves its validity alone.
LEMMA DamagedLeaf ==
  ASSUME Damaged
  PROVE  \/ serverDER' \in {serverDER, None, Corrupt}
         \/ /\ serverDER \in ServerCert
            /\ serverDER'.issuer \in {serverDER.issuer, NoKey}
            /\ serverDER'.notBefore = serverDER.notBefore
            /\ serverDER'.notAfter = serverDER.notAfter
<1>1. CASE DamageFile
  BY <1>1 DEF DamageFile, ServerCert
<1> QED
  BY <1>1 DEF Damaged

\* Calls that begin or end, crashes, the clock and damage keep LineageInv.
LEMMA SurroundingLineage ==
  ASSUME TypeInv, TypeInv', LineageInv,
         SetClock \/ Damaged \/ \E p \in Proc : Begin(p) \/ Finish(p) \/ Crash(p)
  PROVE  LineageInv'
<1> USE DEF stores, files, keys, working
<1>1. /\ LiveCA' \subseteq CACert /\ LiveServer' \subseteq ServerCert
      /\ keysMade' \in Nat
  BY DEF LiveCA, LiveServer, TypeInv, TypeOK, StoresTypeOK
<1>2. keysMade <= keysMade'
  BY SurroundingChanges DEF TypeInv, TypeOK, StoresTypeOK
<1>3. \A c \in LiveCA' : c \in LiveCA \/ c.key = NoKey
  <2>1. CASE SetClock
    BY <2>1 DEF SetClock, LiveCA
  <2>2. CASE Damaged
    <3>1. UNCHANGED ca
      BY <2>2 DEF Damaged
    <3>2. root' \subseteq root \cup {Foreign}
      BY <2>2, SurroundingChanges
    <3>3. caDER' \in {caDER, None, Corrupt} \/ (caDER \in CACert /\ caDER'.key = NoKey)
      BY <2>2 DEF Damaged, DamageFile, CACert
    <3> QED
      BY <3>1, <3>2, <3>3, DistinctAssumption DEF LiveCA
  <2>3. ASSUME NEW p \in Proc, Begin(p)
        PROVE  \A c \in LiveCA' : c \in LiveCA
    <3>1. UNCHANGED <<root, caDER>>
      BY <2>3 DEF Begin
    <3>2. PICK entry \in Entry : \E anchor \in Named(entry) : ca' = [ca EXCEPT ![p] = anchor]
      BY <2>3 DEF Begin
    <3>3. Named(entry) \subseteq root \cup {caDER, None}
      BY DEF Named
    <3>4. \A q \in Proc : ca'[q] \in {ca[q], caDER, None} \cup root
      BY <3>2, <3>3 DEF TypeInv, TypeOK
    <3> QED
      BY <3>1, <3>4, DistinctAssumption DEF LiveCA
  <2>4. ASSUME NEW p \in Proc, Finish(p) \/ Crash(p)
        PROVE  \A c \in LiveCA' : c \in LiveCA
    <3>1. UNCHANGED <<root, caDER>>
      BY <2>4 DEF Finish, Crash, Idle
    <3>2. \A q \in Proc : ca'[q] \in {ca[q], None}
      BY <2>4 DEF Finish, Crash, Idle, TypeInv, TypeOK
    <3> QED
      BY <3>1, <3>2, DistinctAssumption DEF LiveCA
  <2> QED
    BY <2>1, <2>2, <2>3, <2>4
<1>4. ASSUME NEW s \in LiveServer'
      PROVE  \/ s.issuer = NoKey
             \/ \E t \in LiveServer : s.issuer = t.issuer /\ s.notAfter = t.notAfter
  <2>1. CASE Damaged
    <3>1. UNCHANGED server
      BY <2>1 DEF Damaged
    <3> QED
      BY <1>4, <2>1, <3>1, DamagedLeaf, DistinctAssumption DEF LiveServer
  <2>2. CASE SetClock
    BY <1>4, <2>2 DEF SetClock, LiveServer
  <2>3. CASE \E p \in Proc : Begin(p) \/ Finish(p) \/ Crash(p)
    <3>1. UNCHANGED serverDER /\ \A q \in Proc : server'[q] \in {server[q], None}
      BY <2>3 DEF Begin, Finish, Crash, Idle, TypeInv, TypeOK
    <3> QED
      BY <1>4, <3>1, DistinctAssumption DEF LiveServer
  <2> QED
    BY <2>1, <2>2, <2>3
<1> QED
  BY <1>1, <1>2, <1>3, <1>4, LineageGrows

\* A CA key has issued itself one certificate, and nothing that outlives it.
THEOREM Lineage == Coordinated => (Spec => []LineageInv)
<1> SUFFICES ASSUME Coordinated
             PROVE  Spec => []LineageInv
  OBVIOUS
<1>1. Init => LineageInv
  BY DistinctAssumption DEF Init, StoresInit, LineageInv, LiveCA, LiveServer
<1>2. LineageInv /\ UNCHANGED vars => LineageInv'
  BY DEF LineageInv, LiveCA, LiveServer, vars, stores, files, keys, working
<1>3. /\ TypeInv /\ TypeInv' /\ OwnershipInv /\ SerialInv /\ CoherenceInv /\ NewKeyInv
      /\ LineageInv /\ [Next]_vars
      => LineageInv'
  BY <1>2, StepLineage, SurroundingLineage DEF Next
<1> QED
  BY <1>1, <1>3, TypeCorrect, Ownership, Serialised, Coherence, NewCAsHaveNewKeys, PTL DEF Spec

--------------------------------------------------------------------------
(* The clock is not set back *)

\* A call that has decided on what it returns keeps to it, or decides now.
LEMMA DecidesOnce ==
  ASSUME TypeInv, OwnershipInv, NEW p \in Proc, Step(p), Decided(p)'
  PROVE  /\ at'[p] \in {at[p], now}
         /\ \/ Decided(p) /\ server'[p] = server[p] /\ at'[p] = at[p]
            \/ server[p] \in ServerCert /\ server'[p] = server[p] /\ at'[p] = now
            \/ server'[p].notBefore <= at'[p]
<1> USE DEF Goto, Decided, TypeInv, TypeOK, working
<1>1. UNCHANGED op
  BY StepFrame
<1>2. \A c, s : Fail(p, c, s) => pc'[p] = "err"
  BY DEF Fail
<1>3. ReturnMaterial(p) => pc'[p] = "ok"
  BY DEF ReturnMaterial
<1>4. \A t \in Nat : \A c, signer, pub :
        createServerCertWithPub(t, c, signer, pub).notBefore <= t
  BY ValidityAssumption DEF createServerCertWithPub
<1>5. CASE CreateServer(p)
  <2>1. /\ server'[p] = createServerCertWithPub(at[p], ca[p], caSigner[p], serverKey')
        /\ UNCHANGED at
    BY <1>2, <1>5 DEF CreateServer, CallFails
  <2> QED
    BY <1>4, <2>1
<1>6. CASE WriteCA(p) \/ WriteServer(p)
  BY <1>1, <1>2, <1>6 DEF WriteCA, WriteServer, WriteFails, CallFails
<1>7. CASE Install(p) \/ WriteRenewed(p)
  BY <1>1, <1>2, <1>7 DEF Install, WriteRenewed, WriteFails, CallFails
<1>8. CASE Renew(p)
  <2>1. server[p] \in ServerCert /\ at'[p] = now
    BY <1>8 DEF Renew, CertificatesParsed, HasServer, HoldsServer
  <2>2. \/ server'[p] = server[p]
        \/ server'[p] = createServerCertWithPub(now, ca[p], caSigner[p], serverSigner[p])
    BY <1>2, <1>8 DEF Renew
  <2> QED
    BY <1>4, <2>1, <2>2
<1>9. CASE VerifyAnchor(p)
  <2>1. \/ pc'[p] \in {"renew", "reinstall", "err"}
        \/ pc'[p] = "ok" /\ op[p] = "LoadServingMaterial"
    BY <1>2, <1>3, <1>9 DEF VerifyAnchor, CallFails
  <2> QED
    BY <1>1, <2>1 DEF Provisioning
<1>10. CASE CleaningNext(p)
  BY <1>1, <1>10, CleaningFrame DEF OwnershipInv, StepsOfCalls, Cleaning, Provisioning, CleaningStep
<1>11. CASE \/ StatCA(p) \/ StatServer(p) \/ ProbeCA(p) \/ ProbeServer(p)
            \/ ChooseCA(p) \/ ChooseServer(p) \/ MakeDir(p) \/ CreateCA(p)
  BY <1>2, <1>11
     DEF StatCA, StatServer, ProbeCA, ProbeServer, ChooseCA, ChooseServer, MakeDir, CreateCA,
         CallFails
<1>12. CASE \/ ReadCA(p) \/ OpenCA(p) \/ ReadServer(p) \/ OpenServer(p)
            \/ Reinstall(p) \/ Reverify(p)
  BY <1>2, <1>12 DEF ReadCA, OpenCA, ReadServer, OpenServer, Reinstall, Reverify, CallFails
<1> QED
  BY <1>5, <1>6, <1>7, <1>8, <1>9, <1>10, <1>11, <1>12
     DEF Step, ProvisioningNext, LoadingNext

\* A step leaves the clock reading of its call alone or takes a new one.
LEMMA StepReadsClock ==
  ASSUME TypeInv, NEW p \in Proc, Step(p)
  PROVE  at'[p] \in {at[p], now}
<1> USE DEF TypeInv, TypeOK, working
<1>1. CASE ProvisioningNext(p)
  BY <1>1
     DEF ProvisioningNext, StatCA, StatServer, ProbeCA, ProbeServer, ChooseCA, ChooseServer,
         MakeDir, CreateCA, CreateServer, WriteCA, WriteServer, Install, WriteFails, CallFails
<1>2. CASE LoadingNext(p)
  BY <1>2
     DEF LoadingNext, ReadCA, OpenCA, ReadServer, OpenServer, VerifyAnchor, Reinstall,
         Reverify, Renew, WriteRenewed, WriteFails, CallFails
<1>3. CASE CleaningNext(p)
  BY <1>3
     DEF CleaningNext, ReadDER, RemoveAnchor, DeleteKeyOfCA, DeleteKeyOfServer, StatDir,
         UnlinkCA, UnlinkServer, RemoveDir, Collected
<1> QED
  BY <1>1, <1>2, <1>3 DEF Step

\* Unless the clock is set back, no call meets a server certificate that has
\* not begun.
THEOREM Begun == "setBack" \notin Faults => (Spec => []BegunInv)
<1> SUFFICES ASSUME "setBack" \notin Faults
             PROVE  Spec => []BegunInv
  OBVIOUS
<1>1. Init => BegunInv
  BY DistinctAssumption DEF Init, StoresInit, BegunInv, Decided, LiveServer
<1>2. ASSUME TypeInv, TypeInv', OwnershipInv, BegunInv, NEW p \in Proc, Step(p)
      PROVE  BegunInv'
  <2>1. /\ UNCHANGED <<now, op>>
        /\ \A q \in Proc \ {p} : pc'[q] = pc[q] /\ server'[q] = server[q] /\ at'[q] = at[q]
    BY <1>2, StepFrame, OtherCertificates DEF Step
  <2>2. at'[p] \in {at[p], now} /\ at[p] \in Nat /\ now \in Nat
    BY <1>2, StepReadsClock DEF TypeInv, TypeOK
  <2>3. \A q \in Proc : at'[q] <= now'
    BY <1>2, <2>1, <2>2 DEF BegunInv
  <2>4. ASSUME server'[p] \in ServerCert
        PROVE  server'[p].notBefore <= now
    <3>1. server'[p].notBefore \in Int
      BY <2>4 DEF ServerCert
    <3>2. CASE server'[p] \in {server[p], serverDER}
      BY <1>2, <2>4, <3>2 DEF BegunInv, LiveServer
    <3>3. CASE server'[p].notBefore <= at'[p]
      BY <2>1, <2>2, <2>3, <3>1, <3>3
    <3> QED
      BY <1>2, <3>2, <3>3, StepLeaf
  <2>5. \A s \in LiveServer' : s.notBefore <= now'
    <3> SUFFICES ASSUME NEW s \in LiveServer'
                 PROVE  s.notBefore <= now
      BY <2>1
    <3>1. s \in LiveServer \/ s = server'[p]
      BY <1>2, <2>1, StepLeaf, DistinctAssumption DEF LiveServer
    <3> QED
      BY <1>2, <2>4, <3>1 DEF BegunInv, LiveServer
  <2>6. Decided(p)' => server'[p].notBefore <= at'[p]
    <3>1. server[p] \in ServerCert => server[p].notBefore <= now
      BY <1>2 DEF BegunInv, LiveServer
    <3> QED
      BY <1>2, <3>1, DecidesOnce DEF BegunInv
  <2>7. \A q \in Proc \ {p} : Decided(q)' => server'[q].notBefore <= at'[q]
    BY <1>2, <2>1 DEF BegunInv, Decided
  <2> QED
    BY <2>3, <2>5, <2>6, <2>7 DEF BegunInv
<1>3. ASSUME TypeInv, BegunInv, NEW p \in Proc, Begin(p) \/ Finish(p) \/ Crash(p)
      PROVE  BegunInv'
  <2>1. /\ UNCHANGED <<now, serverDER>>
        /\ \A q \in Proc : server'[q] \in {server[q], None} /\ at'[q] \in {at[q], 0}
        /\ \A q \in Proc \ {p} : /\ pc'[q] = pc[q] /\ op'[q] = op[q]
                                 /\ server'[q] = server[q] /\ at'[q] = at[q]
    BY <1>3 DEF Begin, Finish, Crash, Idle, Goto, TypeInv, TypeOK, stores, files
  <2>2. ~Decided(p)'
    BY <1>3, FirstSteps DEF Decided
  <2>3. \A q \in Proc : at'[q] <= now'
    BY <1>3, <2>1 DEF BegunInv, TypeInv, TypeOK
  <2>4. LiveServer' \subseteq LiveServer
    BY <2>1, DistinctAssumption DEF LiveServer
  <2> QED
    BY <1>3, <2>1, <2>2, <2>3, <2>4 DEF BegunInv, Decided
<1>4. ASSUME BegunInv, Damaged
      PROVE  BegunInv'
  <2>1. UNCHANGED <<now, pc, op, server, at>>
    BY <1>4 DEF Damaged, working
  <2>2. \A s \in LiveServer' : \E t \in LiveServer : s.notBefore = t.notBefore
    BY <1>4, <2>1, DamagedLeaf, DistinctAssumption DEF LiveServer
  <2> QED
    BY <1>4, <2>1, <2>2 DEF BegunInv, Decided
<1>5. ASSUME TypeInv, BegunInv, SetClock
      PROVE  BegunInv'
  <2>1. now <= now' /\ now \in Nat /\ now' \in Nat
    BY <1>5, ParameterAssumption DEF SetClock, TypeInv, TypeOK
  <2>2. /\ UNCHANGED <<pc, op, server, at>>
        /\ LiveServer' = LiveServer
    BY <1>5 DEF SetClock, working, stores, files, LiveServer
  <2>3. \A s \in LiveServer : s.notBefore \in Int
    BY DEF LiveServer, ServerCert
  <2> QED
    BY <1>5, <2>1, <2>2, <2>3 DEF BegunInv, Decided, TypeInv, TypeOK
<1>6. BegunInv /\ UNCHANGED vars => BegunInv'
  BY DEF BegunInv, Decided, LiveServer, vars, working, stores, files
<1>7. TypeInv /\ TypeInv' /\ OwnershipInv /\ BegunInv /\ [Next]_vars => BegunInv'
  BY <1>2, <1>3, <1>4, <1>5, <1>6 DEF Next
<1> QED
  BY <1>1, <1>7, TypeCorrect, Ownership, PTL DEF Spec

\* The certificate that provisioning or ReloadMachine returns to coordinated
\* callers had not ended when the call read the clock, does not outlive its
\* CA, and was not due for renewal unless its CA ends that soon: also when
\* others have damaged files, keys or anchors before.  Unless the clock is
\* set back it had begun, too.
THEOREM ReturnsFresh == Coordinated => (Spec => []FreshOnReturn)
<1> SUFFICES ASSUME Coordinated
             PROVE  Spec => []FreshOnReturn
  OBVIOUS
<1>1. /\ CoherenceInv /\ CAHandleInv /\ LineageInv /\ FreshInv
      /\ "setBack" \in Faults \/ BegunInv
      => FreshOnReturn
  <2> SUFFICES ASSUME CoherenceInv, CAHandleInv, LineageInv, FreshInv,
                      "setBack" \in Faults \/ BegunInv,
                      NEW p \in Proc,
                      pc[p] = "ok", op[p] \in Provisioning \cup {"ReloadMachine"}
               PROVE  /\ at[p] < server[p].notAfter
                      /\ server[p].notAfter <= ca[p].notAfter
                      /\ needsRenewal(server[p], at[p]) => server[p].notAfter = ca[p].notAfter
                      /\ "setBack" \notin Faults => server[p].notBefore <= at[p]
    BY DEF FreshOnReturn
  <2>1. /\ ca[p] \in LiveCA /\ server[p] \in LiveServer
        /\ server[p].issuer = ca[p].key
    BY DEF CoherenceInv, MaterialCoherent, LiveCA, LiveServer, Provisioning, Cleaning
  <2>2. ca[p].key # NoKey
    BY DEF CAHandleInv
  <2>3. server[p].notAfter <= ca[p].notAfter
    BY <2>1, <2>2 DEF LineageInv
  <2>4. Decided(p)
    BY DEF Decided
  <2> QED
    BY <2>3, <2>4 DEF FreshInv, BegunInv
<1>2. CASE "setBack" \notin Faults
  <2>1. Spec => []BegunInv
    BY <1>2, Begun
  <2> QED
    BY <1>1, <2>1, Coherence, CAHandles, Lineage, IssuedFresh, PTL
<1>3. CASE "setBack" \in Faults
  <2>1. CoherenceInv /\ CAHandleInv /\ LineageInv /\ FreshInv => FreshOnReturn
    BY <1>1, <1>3
  <2> QED
    BY <2>1, Coherence, CAHandles, Lineage, IssuedFresh, PTL
<1> QED
  BY <1>2, <1>3

\* The processes that call beside the operator are processes of LocalTLS.
LEMMA OthersAreProcesses == RecoverySpec => [](others \subseteq Proc)
<1>1. RecoveryInit => others \subseteq Proc
  BY DEF RecoveryInit
<1>2. others \subseteq Proc /\ [RecoveryNext]_rvars => (others \subseteq Proc)'
  BY DEF RecoveryNext, rvars
<1> QED
  BY <1>1, <1>2, PTL DEF RecoverySpec

\* What the operator and the others do are calls as LocalTLS has them: every
\* theorem about Spec, with its conditions, holds of a machine whose operator
\* answers errors with cleanup and another attempt.
THEOREM RecoveryIsCalls == RecoverySpec => Spec
<1>1. RecoveryInit => Init
  BY DEF RecoveryInit
<1>2. others \subseteq Proc /\ [RecoveryNext]_rvars => [Next]_vars
  <2> SUFFICES ASSUME others \subseteq Proc, RecoveryNext
               PROVE  Next \/ UNCHANGED vars
    BY DEF rvars
  <2>1. Operator \in Proc
    BY OperatorAssumption
  <2>2. CASE OperatorBegins \/ OperatorFinishes \/ OperatorCalls
    BY <2>1, <2>2 DEF OperatorBegins, OperatorFinishes, OperatorCalls, Next
  <2>3. CASE OperatorReturns
    BY <2>3 DEF OperatorReturns
  <2>4. CASE \E p \in others : OtherProcess(p)
    BY <2>4 DEF OtherProcess, Next
  <2>5. CASE Outside
    BY <2>5 DEF Outside, Next
  <2> QED
    BY <2>2, <2>3, <2>4, <2>5 DEF RecoveryNext
<1> QED
  BY <1>1, <1>2, OthersAreProcesses, PTL DEF RecoverySpec, Spec
=============================================================================
