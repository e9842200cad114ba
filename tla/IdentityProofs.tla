---------------------------- MODULE IdentityProofs ----------------------------
(***************************************************************************)
(* The CA identity and the keys of a machine survive every interleaving,   *)
(* failed call, crash and damage, provided that elevated calls do not      *)
(* overlap and os.Stat fails for absent files only.  None of the three     *)
(* conditions can be dropped: the counterexample of v_stat_error is one    *)
(* case, and the README describes the other two.                           *)
(***************************************************************************)
EXTENDS MaterialProofs

\* The callers never let two elevated calls overlap, os.Stat reports no
\* error but absence, and the machine is provisioned by ProvisionMachine,
\* not by the seam below it that has no pre-check.
Coordinated ==
  /\ Entry \cap Elevated \subseteq Exclusive
  /\ "stat" \notin Faults
  /\ Entry \cap Provisioning \subseteq {"ProvisionMachine"}

\* A step belongs to a running call and leaves the other calls where they are.
LEMMA StepFrame ==
  ASSUME TypeInv, NEW p \in Proc, Step(p)
  PROVE  /\ Running(p) /\ UNCHANGED op
         /\ \A q \in Proc \ {p} : pc'[q] = pc[q] /\ seen'[q] = seen[q] /\ ca'[q] = ca[q]
<1>1. UNCHANGED op
  BY DEF Step
<1>2. Running(p)
  <2>1. ProvisioningNext(p) => pc[p] \in ProvisioningStep
    BY DEF ProvisioningNext, StatCA, StatServer, ProbeCA, ProbeServer, ChooseCA,
           ChooseServer, MakeDir, CreateCA, CreateServer, WriteCA, WriteServer, Install,
           ProvisioningStep
  <2>2. LoadingNext(p) => pc[p] \in LoadingStep
    BY DEF LoadingNext, ReadCA, OpenCA, ReadServer, OpenServer, VerifyAnchor, Reinstall,
           Reverify, Renew, WriteRenewed, LoadingStep
  <2>3. CleaningNext(p) => pc[p] \in CleaningStep
    BY DEF CleaningNext, ReadDER, RemoveAnchor, DeleteKeyOfCA, DeleteKeyOfServer, StatDir,
           UnlinkCA, UnlinkServer, RemoveDir, CleaningStep
  <2> QED
    BY <2>1, <2>2, <2>3 DEF Step, Running, CallStep
<1>3. ASSUME NEW q \in Proc \ {p}
      PROVE  pc'[q] = pc[q] /\ seen'[q] = seen[q] /\ ca'[q] = ca[q]
  <2> DEFINE Same == pc'[q] = pc[q]
  <2> DEFINE Frame == Same /\ seen'[q] = seen[q] /\ ca'[q] = ca[q]
  <2>1. \A step : Goto(p, step) => Same
    BY DEF TypeInv, TypeOK, Goto
  <2>2. \A c, s : Fail(p, c, s) => Same
    BY <2>1 DEF Fail
  <2>3. \A kind : CallFails(p, kind) => Frame
    BY <2>2 DEF CallFails, working
  <2>4. \A step, error : GoOn(p, step, error) => Same
    BY <2>1 DEF GoOn
  <2>5. \A error : Report(p, error) => Same
    BY <2>4 DEF Report
  <2>6. \A kind, step : Collected(p, kind, step) => Frame
    BY <2>4 DEF Collected
  <2>7. ReturnMaterial(p) => Same
    BY <2>1 DEF ReturnMaterial
  <2>8. /\ UNCHANGED working => seen' = seen /\ ca' = ca
        /\ UNCHANGED seen => seen'[q] = seen[q]
        /\ UNCHANGED ca => ca'[q] = ca[q]
    BY DEF working
  <2>9. \A value : /\ seen' = [seen EXCEPT ![p] = value] => seen'[q] = seen[q]
                   /\ ca' = [ca EXCEPT ![p] = value] => ca'[q] = ca[q]
    BY DEF TypeInv, TypeOK
  <2> SUFFICES Frame
    OBVIOUS
  <2> HIDE DEF Same
  <2>10. CASE ProvisioningNext(p)
    <3>1. CASE StatCA(p)
      BY <3>1, <2>1, <2>8, <2>9 DEF StatCA
    <3>2. CASE StatServer(p)
      BY <3>2, <2>1, <2>2, <2>8 DEF StatServer
    <3>3. CASE ProbeCA(p)
      BY <3>3, <2>1, <2>2, <2>3, <2>8, <2>9 DEF ProbeCA
    <3>4. CASE ProbeServer(p)
      BY <3>4, <2>1, <2>2, <2>3, <2>8 DEF ProbeServer
    <3>5. CASE ChooseCA(p) \/ ChooseServer(p)
      BY <3>5, <2>1, <2>8 DEF ChooseCA, ChooseServer
    <3>6. CASE MakeDir(p)
      BY <3>6, <2>1, <2>3, <2>8 DEF MakeDir
    <3>7. CASE CreateCA(p)
      BY <3>7, <2>1, <2>2, <2>3, <2>8, <2>9 DEF CreateCA
    <3>8. CASE CreateServer(p)
      BY <3>8, <2>1, <2>2, <2>3, <2>8 DEF CreateServer
    <3>9. CASE WriteCA(p) \/ WriteServer(p)
      BY <3>9, <2>1, <2>2, <2>3, <2>8 DEF WriteCA, WriteServer, WriteFails
    <3>10. CASE Install(p)
      BY <3>10, <2>3, <2>7, <2>8 DEF Install
    <3> QED
      BY <2>10, <3>1, <3>2, <3>3, <3>4, <3>5, <3>6, <3>7, <3>8, <3>9, <3>10
         DEF ProvisioningNext
  <2>11. CASE LoadingNext(p)
    <3>1. CASE ReadCA(p) \/ ReadServer(p)
      BY <3>1, <2>1, <2>2, <2>3, <2>8, <2>9 DEF ReadCA, ReadServer
    <3>2. CASE OpenCA(p)
      BY <3>2, <2>1, <2>2, <2>3, <2>8 DEF OpenCA
    <3>3. CASE OpenServer(p)
      BY <3>3, <2>1, <2>2, <2>3, <2>8 DEF OpenServer
    <3>4. CASE VerifyAnchor(p) \/ Reinstall(p) \/ Reverify(p)
      BY <3>4, <2>1, <2>2, <2>3, <2>7, <2>8 DEF VerifyAnchor, Reinstall, Reverify
    <3>5. CASE Renew(p)
      BY <3>5, <2>1, <2>2, <2>7, <2>8 DEF Renew
    <3>6. CASE WriteRenewed(p)
      BY <3>6, <2>2, <2>3, <2>7, <2>8 DEF WriteRenewed, WriteFails
    <3> QED
      BY <2>11, <3>1, <3>2, <3>3, <3>4, <3>5, <3>6 DEF LoadingNext
  <2>12. CASE CleaningNext(p)
    <3>1. CASE ReadDER(p) \/ RemoveAnchor(p) \/ DeleteKeyOfCA(p) \/ DeleteKeyOfServer(p)
      BY <3>1, <2>4, <2>6, <2>8, <2>9
         DEF ReadDER, RemoveAnchor, DeleteKeyOfCA, DeleteKeyOfServer
    <3>2. CASE StatDir(p) \/ RemoveDir(p)
      BY <3>2, <2>4, <2>5, <2>8 DEF StatDir, RemoveDir
    <3>3. CASE UnlinkCA(p) \/ UnlinkServer(p)
      BY <3>3, <2>4, <2>8, <2>9 DEF UnlinkCA, UnlinkServer
    <3> QED
      BY <2>12, <3>1, <3>2, <3>3 DEF CleaningNext
  <2> QED
    BY <2>10, <2>11, <2>12 DEF Step
<1> QED
  BY <1>1, <1>2, <1>3

\* ReloadMachine and LoadServingMaterial change neither the CA certificate
\* nor a key, and at most replace the server certificate.
LEMMA LoaderFrame ==
  ASSUME TypeInv, OwnershipInv, NEW p \in Proc, Step(p), op[p] \in Loading
  PROVE  /\ UNCHANGED <<caDER, caKey, serverKey, keysMade>>
         /\ serverDER # None => serverDER' # None
<1>1. LoadingNext(p)
  <2>1. pc[p] \notin ProvisioningStep /\ pc[p] \notin CleaningStep
    BY DEF OwnershipInv, StepsOfCalls, Loading, Provisioning, Cleaning
  <2>2. ~ProvisioningNext(p)
    BY <2>1 DEF ProvisioningNext, StatCA, StatServer, ProbeCA, ProbeServer, ChooseCA,
                ChooseServer, MakeDir, CreateCA, CreateServer, WriteCA, WriteServer,
                Install, ProvisioningStep
  <2>3. ~CleaningNext(p)
    BY <2>1 DEF CleaningNext, ReadDER, RemoveAnchor, DeleteKeyOfCA, DeleteKeyOfServer,
                StatDir, UnlinkCA, UnlinkServer, RemoveDir, CleaningStep
  <2> QED
    BY <2>2, <2>3 DEF Step
<1>2. SUFFICES ASSUME \A kind : ~CallFails(p, kind)
               PROVE  /\ UNCHANGED <<caDER, caKey, serverKey, keysMade>>
                      /\ serverDER # None => serverDER' # None
  BY DEF CallFails, stores, files, keys
<1> USE DEF stores, files, keys
<1>3. CASE ReadCA(p) \/ ReadServer(p) \/ VerifyAnchor(p) \/ Reinstall(p)
           \/ Reverify(p) \/ Renew(p)
  BY <1>2, <1>3 DEF ReadCA, ReadServer, VerifyAnchor, Reinstall, InstallTrust, Reverify, Renew
<1>4. CASE OpenCA(p)
  <2>1. op[p] = "ReloadMachine"
    BY <1>4 DEF OpenCA, OwnershipInv, StepsOfCalls, LoadingStep, Loading
  <2> QED
    BY <1>2, <1>4, <2>1 DEF OpenCA, openCAKey
<1>5. CASE OpenServer(p)
  BY <1>2, <1>5 DEF OpenServer, openServerKey
<1>6. CASE WriteRenewed(p)
  <2>1. server[p] # None
    BY <1>6, DistinctAssumption
       DEF WriteRenewed, TypeInv, CertificatesParsed, HasServer, HoldsServer
  <2> QED
    BY <1>2, <1>6, <2>1 DEF WriteRenewed, WriteFails, atomicWriteServer
<1> QED
  BY <1>1, <1>3, <1>4, <1>5, <1>6 DEF LoadingNext

\* A call that returned an error does not run.
LEMMA FailStops ==
  ASSUME TypeInv, NEW p \in Proc, NEW caHandle, NEW serverHandle,
         Fail(p, caHandle, serverHandle)
  PROVE  ~Running(p)'
BY DEF TypeInv, TypeOK, Fail, Goto, Running, CallStep, ProvisioningStep, LoadingStep,
       CleaningStep

\* ProvisionMachine's own steps: what its pre-check found is still true.
LEMMA OwnStep ==
  ASSUME Coordinated, TypeInv, OwnershipInv, NEW p \in Proc,
         op[p] = "ProvisionMachine", PreCheckHolds(p), Step(p)
  PROVE  Running(p)' => PreCheckHolds(p)'
<1> SUFFICES ASSUME Running(p)',
                    \A c, s : ~Fail(p, c, s),
                    \A kind : ~CallFails(p, kind),
                    \A der, exists : fileExists(der, exists) => exists = (der # None)
             PROVE  PreCheckHolds(p)'
  BY FailStops DEF CallFails, fileExists, Fault, Coordinated
<1>1. ~CleaningNext(p)
  BY DEF CleaningNext, ReadDER, RemoveAnchor, DeleteKeyOfCA, DeleteKeyOfServer, StatDir,
         UnlinkCA, UnlinkServer, RemoveDir, CleaningStep, OwnershipInv, StepsOfCalls, Cleaning
<1> USE DEF PreCheckHolds, Goto, LoadingStep, TypeInv, TypeOK, stores, files, keys, working,
            signers
<1>2. CASE StatCA(p)
  BY <1>2 DEF StatCA
<1>3. CASE StatServer(p)
  BY <1>3 DEF StatServer
<1>4. CASE ProbeCA(p)
  <2>1. /\ seen' = [seen EXCEPT ![p] = IF caKey = NoKey THEN @ ELSE @ \cup {"caKey"}]
        /\ pc' = [pc EXCEPT ![p] = "probeServer"]
        /\ UNCHANGED stores
    BY <1>4 DEF ProbeCA
  <2>2. /\ "ca" \in seen'[p] <=> "ca" \in seen[p]
        /\ "caKey" \in seen'[p] <=> caKey # NoKey \/ "caKey" \in seen[p]
    BY <2>1
  <2> QED
    BY <1>4, <2>1, <2>2 DEF ProbeCA
<1>5. CASE ProbeServer(p)
  BY <1>5 DEF ProbeServer, provisionStateInconsistent
<1>6. CASE ChooseCA(p)
  BY <1>6 DEF ChooseCA
<1>7. CASE ChooseServer(p)
  BY <1>7 DEF ChooseServer
<1>8. CASE MakeDir(p)
  BY <1>8 DEF MakeDir
<1>9. CASE CreateCA(p)
  BY <1>9 DEF CreateCA, LoadOrCreateCAKey
<1>10. CASE CreateServer(p)
  BY <1>10 DEF CreateServer, LoadOrCreateServerKey
<1>11. CASE WriteCA(p)
  BY <1>11 DEF WriteCA, WriteFails, atomicWriteCA
<1>12. CASE WriteServer(p)
  BY <1>12 DEF WriteServer, WriteFails, atomicWriteServer
<1>13. CASE Install(p)
  BY <1>13 DEF Install, ReturnMaterial, Running, CallStep, ProvisioningStep, CleaningStep
<1>14. CASE LoadingNext(p)
  <2>1. pc[p] \in LoadingStep
    BY <1>14 DEF LoadingNext, ReadCA, OpenCA, ReadServer, OpenServer, VerifyAnchor,
                 Reinstall, Reverify, Renew, WriteRenewed
  <2>2. pc'[p] \in LoadingStep \/ ReturnMaterial(p)
    BY <1>14 DEF LoadingNext, ReadCA, OpenCA, ReadServer, OpenServer, VerifyAnchor,
                 Reinstall, Reverify, Renew, WriteRenewed, WriteFails
  <2>3. caKey' # NoKey /\ serverKey' # NoKey
    BY <1>14, <2>1
       DEF LoadingNext, ReadCA, OpenCA, ReadServer, OpenServer, VerifyAnchor, Reinstall,
           Reverify, Renew, WriteRenewed, WriteFails, LoadOrCreateCAKey, openCAKey,
           LoadOrCreateServerKey, openServerKey, InstallTrust, atomicWriteServer
  <2>4. pc'[p] \in LoadingStep
    BY <2>2 DEF ReturnMaterial, Running, CallStep, ProvisioningStep, CleaningStep
  <2>5. CASE ReadCA(p)
    BY <2>3, <2>4, <2>5 DEF ReadCA
  <2>6. CASE ~ReadCA(p)
    <3>1. pc[p] # "readCA" /\ UNCHANGED <<caDER, ca>>
      BY <1>14, <2>6
         DEF LoadingNext, OpenCA, ReadServer, OpenServer, VerifyAnchor, Reinstall, Reverify,
             Renew, WriteRenewed, WriteFails, LoadOrCreateCAKey, openCAKey,
             LoadOrCreateServerKey, openServerKey, InstallTrust, atomicWriteServer
    <3> QED
      BY <2>1, <2>3, <2>4, <3>1
  <2> QED
    BY <2>5, <2>6
<1> QED
  BY <1>1, <1>2, <1>3, <1>4, <1>5, <1>6, <1>7, <1>8, <1>9, <1>10, <1>11, <1>12, <1>13, <1>14
     DEF Step, ProvisioningNext

\* Two calls of which one is elevated do not run at once unless the other is
\* one of ReloadMachine and LoadServingMaterial.
LEMMA OtherIsLoader ==
  ASSUME TypeInv, OwnershipInv, ElevatedAlone, NEW p \in Proc, NEW q \in Proc \ {p},
         Running(p), Running(q), op[q] \in Elevated
  PROVE  op[p] \in Loading
<1>1. op[p] \notin Elevated
  BY DEF ElevatedAlone
<1> QED
  BY <1>1 DEF OwnershipInv, StepsOfCalls, Running, CallStep, Elevated

\* Every step of a call keeps SerialInv.
LEMMA StepSerial ==
  ASSUME Coordinated, TypeInv, OwnershipInv, SerialInv, NEW p \in Proc, Step(p)
  PROVE  SerialInv'
<1>1. ASSUME NEW q \in Proc, Running(q)'
      PROVE  Running(q) /\ op'[q] = op[q]
  BY <1>1, StepFrame DEF Running
<1>2. ASSUME NEW q \in Proc, Running(q)', op'[q] = "ProvisionMachine"
      PROVE  PreCheckHolds(q)'
  <2>1. Running(q) /\ op[q] = "ProvisionMachine" /\ PreCheckHolds(q)
    BY <1>1, <1>2 DEF SerialInv, ElevatedAlone
  <2>2. CASE q = p
    BY <1>2, <2>1, <2>2, OwnStep
  <2>3. CASE q # p
    <3>1. op[p] \in Loading
      BY <2>1, <2>3, StepFrame, OtherIsLoader DEF Elevated, Provisioning, SerialInv
    <3>2. /\ UNCHANGED <<caDER, caKey, serverKey>>
          /\ serverDER # None => serverDER' # None
      BY <3>1, LoaderFrame
    <3>3. pc'[q] = pc[q] /\ seen'[q] = seen[q] /\ ca'[q] = ca[q]
      BY <2>3, StepFrame
    <3> QED
      BY <2>1, <3>2, <3>3 DEF PreCheckHolds
  <2> QED
    BY <2>2, <2>3
<1> QED
  BY <1>1, <1>2 DEF SerialInv, ElevatedAlone

\* Calls that begin or end, crashes, the clock and damage keep SerialInv.
LEMMA SurroundingSerial ==
  ASSUME Coordinated, TypeInv, SerialInv,
         SetClock \/ Damaged \/ \E p \in Proc : Begin(p) \/ Finish(p) \/ Crash(p)
  PROVE  SerialInv'
<1>1. CASE SetClock
  BY <1>1 DEF SetClock, SerialInv, ElevatedAlone, PreCheckHolds, Running, stores, files, keys, working
<1>2. CASE Damaged
  <2>1. UNCHANGED <<pc, op>> /\ \A p \in Proc : Running(p) => op[p] \notin Elevated
    BY <1>2 DEF Damaged, Undisturbed
  <2> QED
    BY <2>1 DEF SerialInv, ElevatedAlone, Running, Elevated, Provisioning
<1>3. ASSUME NEW p \in Proc, Begin(p)
      PROVE  SerialInv'
  <2>1. PICK entry \in Entry :
          /\ entry \in Exclusive => \A q \in Proc : Running(q) => op[q] \notin Exclusive
          /\ op' = [op EXCEPT ![p] = entry]
          /\ pc' = [pc EXCEPT ![p] = FirstStep(entry)]
    BY <1>3 DEF Begin, Goto
  <2>2. UNCHANGED <<stores, seen>>
    BY <1>3 DEF Begin
  <2>3. \A q \in Proc \ {p} : pc'[q] = pc[q] /\ op'[q] = op[q] /\ ca'[q] = ca[q]
    BY <1>3, <2>1 DEF Begin, TypeInv, TypeOK
  <2>4. pc'[p] = FirstStep(entry) /\ op'[p] = entry
    BY <2>1 DEF TypeInv, TypeOK
  <2>5. ASSUME NEW q \in Proc \ {p}, Running(q), op[q] \in Elevated
        PROVE  entry \notin Elevated
    <3>1. op[q] \in Entry
      BY <2>5 DEF TypeInv, TypeOK, Elevated, Provisioning, Cleaning
    <3> QED
      BY <2>1, <2>5, <3>1 DEF Coordinated
  <2>6. entry = "ProvisionMachine" => PreCheckHolds(p)'
    <3>1. FirstStep("ProvisionMachine") = "statCA"
      BY DEF FirstStep, Loading
    <3> QED
      BY <2>4, <3>1 DEF PreCheckHolds, LoadingStep
  <2>7. ASSUME NEW q \in Proc \ {p}, PreCheckHolds(q)
        PROVE  PreCheckHolds(q)'
    BY <2>2, <2>3, <2>7 DEF PreCheckHolds, stores, files, keys
  <2> QED
    BY <2>3, <2>4, <2>5, <2>6, <2>7 DEF SerialInv, ElevatedAlone, Running
<1>4. ASSUME NEW p \in Proc, Finish(p) \/ Crash(p)
      PROVE  SerialInv'
  <2>1. /\ pc' = [pc EXCEPT ![p] = "idle"]
        /\ op' = [op EXCEPT ![p] = "none"]
        /\ seen' = [seen EXCEPT ![p] = {}]
        /\ ca' = [ca EXCEPT ![p] = None]
        /\ UNCHANGED stores
    BY <1>4 DEF Finish, Crash, Idle, Goto
  <2>2. ~Running(p)'
    BY <2>1 DEF TypeInv, TypeOK, Running, CallStep, ProvisioningStep, LoadingStep,
                CleaningStep
  <2>3. ASSUME NEW q \in Proc \ {p}
        PROVE  /\ pc'[q] = pc[q] /\ op'[q] = op[q]
               /\ PreCheckHolds(q) => PreCheckHolds(q)'
    BY <2>1 DEF TypeInv, TypeOK, PreCheckHolds, stores, files, keys
  <2> QED
    BY <2>2, <2>3 DEF SerialInv, ElevatedAlone, Running
<1> QED
  BY <1>1, <1>2, <1>3, <1>4

\* While ProvisionMachine runs, what its pre-check found stays true until it
\* acts on it.
THEOREM Serialised == Coordinated => (Spec => []SerialInv)
<1> SUFFICES ASSUME Coordinated
             PROVE  Spec => []SerialInv
  OBVIOUS
<1>1. Init => SerialInv
  BY DEF Init, SerialInv, ElevatedAlone, Running, CallStep, ProvisioningStep, LoadingStep, CleaningStep
<1>2. TypeInv /\ OwnershipInv /\ SerialInv /\ [Next]_vars => SerialInv'
  <2>1. ASSUME SerialInv, UNCHANGED vars
        PROVE  SerialInv'
    BY <2>1 DEF SerialInv, ElevatedAlone, PreCheckHolds, Running, vars, stores, files, keys, working
  <2> QED
    BY <2>1, StepSerial, SurroundingSerial DEF Next
<1> QED
  BY <1>1, <1>2, TypeCorrect, Ownership, PTL DEF Spec

\* What changes the CA certificate on disk, a key or the Root store.
LEMMA StepChanges ==
  ASSUME Coordinated, TypeInv, OwnershipInv, SerialInv, NEW p \in Proc, Step(p)
  PROVE  /\ caDER' # caDER => caDER = None \/ caDER' = None
         /\ keysMade' # keysMade => caDER = None
         /\ \A anchor \in root' \ root : anchor = caDER
<1> USE DEF stores, files, keys
<1>1. Running(p)
  BY StepFrame
<1>2. ASSUME pc[p] \in ProvisioningStep \/ op[p] \notin Loading \cup Cleaning
      PROVE  op[p] = "ProvisionMachine" /\ PreCheckHolds(p)
  <2>1. op[p] \in Provisioning /\ op[p] \in Entry
    BY <1>1, <1>2 DEF OwnershipInv, StepsOfCalls, Running, CallStep, TypeInv, TypeOK,
                      Provisioning
  <2> QED
    BY <1>1, <2>1 DEF Coordinated, SerialInv
<1>3. CASE ProvisioningNext(p)
  <2>1. CASE StatCA(p) \/ StatServer(p) \/ ProbeCA(p) \/ ProbeServer(p)
    BY <2>1 DEF StatCA, StatServer, ProbeCA, ProbeServer, CallFails
  <2>2. CASE ChooseCA(p) \/ ChooseServer(p) \/ MakeDir(p)
    BY <2>2 DEF ChooseCA, ChooseServer, MakeDir, CallFails
  <2>3. CASE CreateCA(p)
    BY <1>2, <2>3 DEF CreateCA, CallFails, LoadOrCreateCAKey, PreCheckHolds, ProvisioningStep
  <2>4. CASE CreateServer(p)
    BY <1>2, <2>4 DEF CreateServer, CallFails, LoadOrCreateServerKey, PreCheckHolds,
                      ProvisioningStep
  <2>5. CASE WriteCA(p)
    BY <1>2, <2>5 DEF WriteCA, WriteFails, CallFails, atomicWriteCA, PreCheckHolds,
                      ProvisioningStep
  <2>6. CASE WriteServer(p)
    BY <2>6 DEF WriteServer, WriteFails, CallFails, atomicWriteServer
  <2>7. CASE Install(p)
    BY <1>2, <2>7 DEF Install, CallFails, InstallTrust, PreCheckHolds, ProvisioningStep
  <2> QED
    BY <1>3, <2>1, <2>2, <2>3, <2>4, <2>5, <2>6, <2>7 DEF ProvisioningNext
<1>4. CASE LoadingNext(p)
  <2>1. op[p] \in Loading \/ (op[p] = "ProvisionMachine" /\ PreCheckHolds(p))
    <3>1. op[p] \notin Cleaning
      BY <1>4 DEF LoadingNext, ReadCA, OpenCA, ReadServer, OpenServer, VerifyAnchor,
                  Reinstall, Reverify, Renew, WriteRenewed, LoadingStep, OwnershipInv,
                  StepsOfCalls, Provisioning, Loading, Cleaning
    <3> QED
      BY <1>2, <3>1
  <2>2. CASE ReadCA(p) \/ ReadServer(p) \/ VerifyAnchor(p) \/ Reverify(p) \/ Renew(p)
    BY <2>2 DEF ReadCA, ReadServer, VerifyAnchor, Reverify, Renew, CallFails
  <2>3. CASE OpenCA(p)
    <3>1. op[p] \in Loading => op[p] = "ReloadMachine"
      BY <2>3 DEF OpenCA, OwnershipInv, StepsOfCalls, LoadingStep, Loading
    <3> QED
      BY <2>1, <2>3, <3>1 DEF OpenCA, CallFails, openCAKey, LoadOrCreateCAKey,
                              PreCheckHolds, LoadingStep
  <2>4. CASE OpenServer(p)
    BY <2>1, <2>4 DEF OpenServer, CallFails, openServerKey, LoadOrCreateServerKey,
                      PreCheckHolds, LoadingStep
  <2>5. CASE Reinstall(p)
    <3>1. op[p] = "ProvisionMachine" /\ PreCheckHolds(p)
      <4>1. op[p] = "ProvisionMachine"
        BY <2>5 DEF Reinstall, OwnershipInv, StepsOfCalls
      <4> QED
        BY <2>1, <4>1 DEF Loading
    <3> QED
      BY <2>5, <3>1 DEF Reinstall, CallFails, InstallTrust, PreCheckHolds, LoadingStep
  <2>6. CASE WriteRenewed(p)
    BY <2>6 DEF WriteRenewed, WriteFails, CallFails, atomicWriteServer
  <2> QED
    BY <1>4, <2>2, <2>3, <2>4, <2>5, <2>6 DEF LoadingNext
<1>5. CASE CleaningNext(p)
  <2>1. CASE ReadDER(p) \/ RemoveAnchor(p) \/ DeleteKeyOfCA(p) \/ DeleteKeyOfServer(p)
    BY <2>1 DEF ReadDER, RemoveAnchor, DeleteKeyOfCA, DeleteKeyOfServer, Collected,
                RemoveTrust, DeleteCAKey, DeleteServerKey
  <2>2. CASE StatDir(p) \/ UnlinkCA(p) \/ UnlinkServer(p) \/ RemoveDir(p)
    BY <2>2 DEF StatDir, UnlinkCA, UnlinkServer, RemoveDir
  <2> QED
    BY <1>5, <2>1, <2>2 DEF CleaningNext
<1> QED
  BY <1>3, <1>4, <1>5 DEF Step

\* What the surroundings of the calls change.
LEMMA SurroundingChanges ==
  ASSUME SetClock \/ Damaged \/ \E p \in Proc : Begin(p) \/ Finish(p) \/ Crash(p)
  PROVE  /\ caDER' # caDER => UNCHANGED pc
         /\ UNCHANGED keysMade
         /\ root' \subseteq root \cup {Foreign}
<1>1. CASE SetClock
  BY <1>1 DEF SetClock, stores, keys
<1>2. CASE Damaged
  BY <1>2 DEF Damaged, DamageRoot
<1>3. CASE \E p \in Proc : Begin(p) \/ Finish(p) \/ Crash(p)
  BY <1>3 DEF Begin, Finish, Crash, Idle, stores, files, keys
<1> QED
  BY <1>1, <1>2, <1>3

\* The three promises about a machine's identity, of one step of coordinated
\* callers; each theorem below takes one of them.
LEMMA StepKeepsIdentity ==
  ASSUME Coordinated, TypeInv, OwnershipInv, SerialInv, [Next]_vars
  PROVE  /\ pc' # pc /\ caDER \in CACert /\ caDER' \in CACert => caDER' = caDER
         /\ keysMade' # keysMade => caDER = None
         /\ \A anchor \in root' \ root : anchor \in CACert => anchor = caDER
<1>1. ASSUME NEW p \in Proc, Step(p)
      PROVE  /\ caDER \in CACert /\ caDER' \in CACert => caDER' = caDER
             /\ keysMade' # keysMade => caDER = None
             /\ \A anchor \in root' \ root : anchor \in CACert => anchor = caDER
  BY <1>1, StepChanges, DistinctAssumption
<1>2. ASSUME SetClock \/ Damaged \/ \E p \in Proc : Begin(p) \/ Finish(p) \/ Crash(p)
      PROVE  /\ caDER' # caDER => UNCHANGED pc
             /\ UNCHANGED keysMade
             /\ \A anchor \in root' \ root : anchor \in CACert => anchor = caDER
  BY <1>2, SurroundingChanges, DistinctAssumption
<1>3. CASE UNCHANGED vars
  BY <1>3 DEF vars, stores, keys, files
<1> QED
  BY <1>1, <1>2, <1>3 DEF Next

\* For coordinated callers, no step of a call replaces one CA certificate by
\* another.
THEOREM IdentityPreserved == Coordinated => (Spec => CAIdentityPreserved)
<1> SUFFICES ASSUME Coordinated
             PROVE  Spec => CAIdentityPreserved
  OBVIOUS
<1>1. TypeInv /\ OwnershipInv /\ SerialInv /\ [Next]_vars =>
        [pc' # pc /\ caDER \in CACert /\ caDER' \in CACert => caDER' = caDER]_vars
  BY StepKeepsIdentity
<1> QED
  BY <1>1, TypeCorrect, Ownership, Serialised, PTL DEF Spec, CAIdentityPreserved

\* For coordinated callers, no key is created while there is a CA certificate:
\* a key that was lost is reported, not replaced under what it signed.
THEOREM KeysAreNotReplaced == Coordinated => (Spec => NoReplacementKey)
<1> SUFFICES ASSUME Coordinated
             PROVE  Spec => NoReplacementKey
  OBVIOUS
<1>1. TypeInv /\ OwnershipInv /\ SerialInv /\ [Next]_vars =>
        [keysMade' # keysMade => caDER = None]_vars
  BY StepKeepsIdentity
<1> QED
  BY <1>1, TypeCorrect, Ownership, Serialised, PTL DEF Spec, NoReplacementKey

\* For coordinated callers, an anchor of the package that appears in the Root
\* store is the CA certificate that is on disk at that moment, whatever the
\* installing call read some steps earlier.
THEOREM AnchorsHaveCertificates == Coordinated => (Spec => AnchorHasCertificate)
<1> SUFFICES ASSUME Coordinated
             PROVE  Spec => AnchorHasCertificate
  OBVIOUS
<1>1. TypeInv /\ OwnershipInv /\ SerialInv /\ [Next]_vars =>
        [\A anchor \in root' \ root : anchor \in CACert => anchor = caDER]_vars
  BY StepKeepsIdentity
<1> QED
  BY <1>1, TypeCorrect, Ownership, Serialised, PTL DEF Spec, AnchorHasCertificate
=============================================================================
