------------------------------ MODULE LocalTLS ------------------------------
(***************************************************************************)
(* The lifecycle of a machine's TLS material: processes call the entry     *)
(* points of the package (composition_windows.go, cleanup_windows.go,      *)
(* smoke_windows.go, provision.go), and the steps of the calls interleave. *)
(* A step makes at most one call into the file system, the key store or    *)
(* the trust store, and the process-local work that follows it.            *)
(*                                                                         *)
(* The same module describes the production material (the Machine entry    *)
(* points) and the smoke-test material (the Smoke ones), which has its own *)
(* directory and key names: one instance has one or the other.             *)
(***************************************************************************)
EXTENDS MachineStores

CONSTANTS
  Proc,       \* the calling processes
  Entry,      \* the entry points they call
  Exclusive,  \* entry points the callers never let overlap
  Faults,     \* what may go wrong, see FaultKind
  MaxCalls,   \* bound: calls in a behaviour
  MaxFaults,  \* bound: faults in a behaviour (the clock may be set back
              \* without being counted)
  MaxTime     \* bound: the clock shows 0..MaxTime

Provisioning == {"ProvisionMachine", "ProvisionWithKeyStore", "ProvisionSmoke"}
Loading      == {"ReloadMachine", "LoadServingMaterial"}
Cleaning     == {"CleanupMachine", "CleanupMachineBySHA256", "CleanupSmoke"}

\* The entry points that need Administrator.
Elevated == Provisioning \cup Cleaning

\* Calls that fail, a process that dies, damage done by others, and a clock
\* that is set back.
CallFault == {"stat", "file", "openKey", "deleteKey", "sign", "trust"}
Damage    == {"loseCA", "loseServer", "loseCAKey", "loseServerKey", "corruptCA",
              "corruptServer", "swapCA", "swapServer", "dropAnchor", "addForeign"}
FaultKind == CallFault \cup {"crash", "setBack"} \cup Damage

ASSUME ParameterAssumption ==
  /\ Entry \subseteq Elevated \cup Loading
  /\ Exclusive \subseteq Entry
  /\ Faults \subseteq FaultKind
  /\ MaxCalls \in Nat /\ MaxFaults \in Nat /\ MaxTime \in Nat

VARIABLES
  now,           \* the wall clock
  pc,            \* next step of each process's call, or its outcome
  op,            \* the entry point each process has called
  seen,          \* what the call's probes found
  ca, server,    \* the certificates the call works on
  caSigner,      \* the CA key handle the process holds
  serverSigner,  \* the server key handle the process holds
  at,            \* the time the call read from the clock
  failed,        \* has the cleanup an error to report?
  calls, faults  \* how much of MaxCalls and MaxFaults is used

signers == <<caSigner, serverSigner>>
working == <<seen, ca, server, at, failed>>
budget  == <<calls, faults>>
vars    == <<stores, now, pc, op, working, signers, budget>>

Outcome == {"idle", "ok", "err"}
ProvisioningStep == {"statCA", "statServer", "probeCA", "probeServer",
                     "chooseCA", "chooseServer", "mkdir", "createCA",
                     "createServer", "writeCA", "writeServer", "install"}
LoadingStep == {"readCA", "openCA", "readServer", "openServer", "verify",
                "reinstall", "reverify", "renew", "writeRenewed"}
CleaningStep == {"readDER", "removeAnchor", "deleteCAKey", "deleteServerKey",
                 "statDir", "unlinkCA", "unlinkServer", "rmdir"}
CallStep == ProvisioningStep \cup LoadingStep \cup CleaningStep

Init ==
  /\ StoresInit
  /\ now = 0
  /\ pc = [p \in Proc |-> "idle"]
  /\ op = [p \in Proc |-> "none"]
  /\ seen = [p \in Proc |-> {}]
  /\ ca = [p \in Proc |-> None]
  /\ server = [p \in Proc |-> None]
  /\ caSigner = [p \in Proc |-> NoKey]
  /\ serverSigner = [p \in Proc |-> NoKey]
  /\ at = [p \in Proc |-> 0]
  /\ failed = [p \in Proc |-> FALSE]
  /\ calls = 0 /\ faults = 0

Running(p) == pc[p] \in CallStep

--------------------------------------------------------------------------
(* How a step ends *)

Goto(p, step) == pc' = [pc EXCEPT ![p] = step]

\* A fault of this kind happens now.
Fault(kind) == kind \in Faults /\ faults < MaxFaults /\ faults' = faults + 1

\* Mutant: no error path releases the serving handle.
ClosedOnError_onlyCA(p) == {"ca"}

\* The handles released when a call of p returns an error.  Provisioning
\* defers the close of each handle; ReloadMachine closes them by hand, on
\* each path those it has opened by then; LoadServingMaterial has only one.
ClosedOnError(p) ==
  IF op[p] = "LoadServingMaterial" THEN {"server"}
  ELSE IF op[p] = "ReloadMachine" /\ pc[p] \in {"readCA", "openCA", "readServer"}
       THEN {"ca"}
       ELSE {"ca", "server"}

\* The call of p returns an error; it held these handles.
Fail(p, caHandle, serverHandle) ==
  /\ Goto(p, "err")
  /\ caSigner' = [caSigner EXCEPT ![p] =
       IF "ca" \in ClosedOnError(p) THEN NoKey ELSE caHandle]
  /\ serverSigner' = [serverSigner EXCEPT ![p] =
       IF "server" \in ClosedOnError(p) THEN NoKey ELSE serverHandle]

\* The call of p returns the Material: the CA handle is released, the
\* serving handle becomes the caller's.
ReturnMaterial(p) ==
  /\ Goto(p, "ok")
  /\ caSigner' = [caSigner EXCEPT ![p] = NoKey]
  /\ UNCHANGED serverSigner

\* A call that fails with an error of its own, having changed nothing.
CallFails(p, kind) ==
  /\ Fault(kind)
  /\ Fail(p, caSigner[p], serverSigner[p])
  /\ UNCHANGED <<stores, working>>

\* fileExists: every error of os.Stat reads as an absent file.
fileExists(der, exists) ==
  \/ exists = (der # None) /\ UNCHANGED faults
  \/ der # None /\ ~exists /\ Fault("stat")

--------------------------------------------------------------------------
(* Entry *)

FirstStep(entry) ==
  CASE entry \in {"ProvisionMachine", "ProvisionSmoke"}   -> "statCA"
    [] entry = "ProvisionWithKeyStore"                    -> "chooseCA"
    [] entry \in Loading                                  -> "readCA"
    [] entry = "CleanupMachine"                           -> "readDER"
    [] OTHER                                              -> "removeAnchor"

\* The anchor a caller can name: one of the package's own that is or was
\* installed, or (None) one that is in no store any more.
Named(entry) == IF entry \in {"CleanupMachineBySHA256", "CleanupSmoke"}
                THEN (root \cup {caDER, None}) \ {Foreign, Corrupt}
                ELSE {None}

Begin(p) ==
  /\ pc[p] = "idle" /\ calls < MaxCalls
  /\ calls' = calls + 1
  /\ \E entry \in Entry :
       /\ entry \in Exclusive => \A q \in Proc : Running(q) => op[q] \notin Exclusive
       /\ op' = [op EXCEPT ![p] = entry]
       /\ Goto(p, FirstStep(entry))
       /\ \E anchor \in Named(entry) : ca' = [ca EXCEPT ![p] = anchor]
  /\ UNCHANGED <<stores, now, seen, server, at, failed, signers, faults>>

--------------------------------------------------------------------------
(* The pre-check of provisioning *)

\* Mutant: the keys are not looked at.
provisionStateInconsistent_filesOnly(hasCA, hasServer, hasCAKey, hasServerKey) ==
  hasCA # hasServer

provisionStateInconsistent(hasCA, hasServer, hasCAKey, hasServerKey) ==
  \/ hasCA # hasServer
  \/ ~hasCA /\ (hasCAKey \/ hasServerKey)
  \/ hasCA /\ ~(hasCAKey /\ hasServerKey)

\* checkInconsistentMachineState looks for both files; preflightSmokeState
\* looks for the CA certificate and, when there is none, for the CA key.
StatCA(p) ==
  /\ pc[p] = "statCA"
  /\ \E exists \in BOOLEAN :
       /\ fileExists(caDER, exists)
       /\ seen' = [seen EXCEPT ![p] = IF exists THEN {"ca"} ELSE {}]
       /\ Goto(p, IF op[p] # "ProvisionSmoke" THEN "statServer"
                  ELSE IF exists THEN "chooseCA" ELSE "probeCA")
  /\ UNCHANGED <<stores, ca, server, at, failed, signers>>

\* Mutant: one certificate without the other is let through.
StatServer_unchecked(p) ==
  /\ pc[p] = "statServer"
  /\ \E exists \in BOOLEAN : fileExists(serverDER, exists)
  /\ Goto(p, "probeCA")
  /\ UNCHANGED <<stores, working, signers>>

StatServer(p) ==
  /\ pc[p] = "statServer"
  /\ \E exists \in BOOLEAN :
       /\ fileExists(serverDER, exists)
       /\ IF exists = ("ca" \in seen[p])
          THEN Goto(p, "probeCA") /\ UNCHANGED signers
          ELSE Fail(p, caSigner[p], serverSigner[p])
  /\ UNCHANGED <<stores, working>>

\* probeKey opens a key and closes it again; an absent key is no error.
ProbeCA(p) ==
  /\ pc[p] = "probeCA"
  /\ \/ /\ seen' = [seen EXCEPT ![p] = IF caKey = NoKey THEN @ ELSE @ \cup {"caKey"}]
        /\ IF op[p] = "ProvisionSmoke"
           THEN IF caKey = NoKey THEN Goto(p, "chooseCA") /\ UNCHANGED signers
                                 ELSE Fail(p, caSigner[p], serverSigner[p])
           ELSE Goto(p, "probeServer") /\ UNCHANGED signers
        /\ UNCHANGED <<stores, ca, server, at, failed, faults>>
     \/ CallFails(p, "openKey")

ProbeServer(p) ==
  /\ pc[p] = "probeServer"
  /\ \/ /\ IF provisionStateInconsistent("ca" \in seen[p], "ca" \in seen[p],
                                         "caKey" \in seen[p], serverKey # NoKey)
           THEN Fail(p, caSigner[p], serverSigner[p])
           ELSE Goto(p, "chooseCA") /\ UNCHANGED signers
        /\ UNCHANGED <<stores, working, faults>>
     \/ CallFails(p, "openKey")

--------------------------------------------------------------------------
(* First provisioning *)

\* provisionWithKeyStore looks for the two files again: without both of them
\* it provisions, with both it reloads.
ChooseCA(p) ==
  /\ pc[p] = "chooseCA"
  /\ \E exists \in BOOLEAN :
       /\ fileExists(caDER, exists)
       /\ Goto(p, IF exists THEN "chooseServer" ELSE "mkdir")
  /\ UNCHANGED <<stores, working, signers>>

ChooseServer(p) ==
  /\ pc[p] = "chooseServer"
  /\ \E exists \in BOOLEAN :
       /\ fileExists(serverDER, exists)
       /\ Goto(p, IF exists THEN "readCA" ELSE "mkdir")
  /\ UNCHANGED <<stores, working, signers>>

MakeDir(p) ==
  /\ pc[p] = "mkdir"
  /\ \/ /\ tlsDir' = TRUE
        /\ at' = [at EXCEPT ![p] = now]
        /\ Goto(p, "createCA")
        /\ UNCHANGED <<caDER, serverDER, keys, root, certsMade>>
        /\ UNCHANGED <<seen, ca, server, failed, signers, faults>>
     \/ CallFails(p, "file")

\* The key is persisted before the certificate is signed: when signing
\* fails, the key stays.
CreateCA(p) ==
  /\ pc[p] = "createCA"
  /\ \/ /\ LoadOrCreateCAKey
        /\ \/ /\ certsMade' = certsMade + 1
              /\ caSigner' = [caSigner EXCEPT ![p] = caKey']
              /\ ca' = [ca EXCEPT ![p] =
                   createCACertSelfSigned(certsMade + 1, at[p], caKey')]
              /\ Goto(p, "createServer")
              /\ UNCHANGED <<serverSigner, faults>>
           \/ /\ Fault("sign")
              /\ Fail(p, caKey', serverSigner[p])
              /\ UNCHANGED <<certsMade, ca>>
        /\ UNCHANGED <<seen, server, at, failed>>
     \/ CallFails(p, "openKey")

CreateServer(p) ==
  /\ pc[p] = "createServer"
  /\ \/ /\ LoadOrCreateServerKey
        /\ \/ /\ serverSigner' = [serverSigner EXCEPT ![p] = serverKey']
              /\ server' = [server EXCEPT ![p] =
                   createServerCertWithPub(at[p], ca[p], caSigner[p], serverKey')]
              /\ Goto(p, "writeCA")
              /\ UNCHANGED <<caSigner, faults>>
           \/ /\ Fault("sign")
              /\ Fail(p, caSigner[p], serverKey')
              /\ UNCHANGED server
        /\ UNCHANGED <<certsMade, seen, ca, at, failed>>
     \/ CallFails(p, "openKey")

\* A write is refused when the directory is gone.
WriteFails(p) ==
  /\ ~tlsDir
  /\ Fail(p, caSigner[p], serverSigner[p])
  /\ UNCHANGED <<stores, working, faults>>

WriteCA(p) ==
  /\ pc[p] = "writeCA"
  /\ \/ /\ atomicWriteCA(ca[p])
        /\ Goto(p, "writeServer")
        /\ UNCHANGED <<working, signers, faults>>
     \/ WriteFails(p)
     \/ CallFails(p, "file")

WriteServer(p) ==
  /\ pc[p] = "writeServer"
  /\ \/ /\ atomicWriteServer(server[p])
        /\ Goto(p, "install")
        /\ UNCHANGED <<working, signers, faults>>
     \/ WriteFails(p)
     \/ CallFails(p, "file")

Install(p) ==
  /\ pc[p] = "install"
  /\ \/ /\ InstallTrust(ca[p])
        /\ ReturnMaterial(p)
        /\ UNCHANGED <<working, faults>>
     \/ CallFails(p, "trust")

--------------------------------------------------------------------------
(* Reloading and serving: existing material, checked and perhaps renewed *)

ReadCA(p) ==
  /\ pc[p] = "readCA"
  /\ \/ /\ caDER \in CACert
        /\ ca' = [ca EXCEPT ![p] = caDER]
        /\ Goto(p, IF op[p] = "LoadServingMaterial" THEN "readServer" ELSE "openCA")
        /\ UNCHANGED <<stores, seen, server, at, failed, signers, faults>>
     \/ /\ caDER \in {None, Corrupt}
        /\ Fail(p, caSigner[p], serverSigner[p])
        /\ UNCHANGED <<stores, working, faults>>
     \/ CallFails(p, "file")

\* Provisioning opens the key or creates one, ReloadMachine only opens it.
OpenCA(p) ==
  /\ pc[p] = "openCA"
  /\ \/ /\ IF op[p] = "ReloadMachine" THEN openCAKey ELSE LoadOrCreateCAKey
        /\ \/ /\ verifyPublicKeyMatch(ca[p], caKey')
              /\ caSigner' = [caSigner EXCEPT ![p] = caKey']
              /\ Goto(p, "readServer")
              /\ UNCHANGED serverSigner
           \/ /\ ~verifyPublicKeyMatch(ca[p], caKey')
              /\ Fail(p, caKey', serverSigner[p])
        /\ UNCHANGED <<certsMade, working, faults>>
     \/ /\ op[p] = "ReloadMachine" /\ caKey = NoKey
        /\ Fail(p, caSigner[p], serverSigner[p])
        /\ UNCHANGED <<stores, working, faults>>
     \/ CallFails(p, "openKey")

\* Mutant: the errors of reading and parsing the file are dropped.
ReadServer_errorsDropped(p) ==
  /\ pc[p] = "readServer"
  /\ server' = [server EXCEPT ![p] = serverDER]
  /\ Goto(p, "openServer")
  /\ UNCHANGED <<stores, seen, ca, at, failed, signers, faults>>

ReadServer(p) ==
  /\ pc[p] = "readServer"
  /\ \/ /\ serverDER \in ServerCert
        /\ server' = [server EXCEPT ![p] = serverDER]
        /\ Goto(p, "openServer")
        /\ UNCHANGED <<stores, seen, ca, at, failed, signers, faults>>
     \/ /\ serverDER \in {None, Corrupt}
        /\ Fail(p, caSigner[p], serverSigner[p])
        /\ UNCHANGED <<stores, working, faults>>
     \/ CallFails(p, "file")

\* What is checked of a server certificate once its key is open.
serverCertValid(cert, issuer, pub) ==
  /\ verifyPublicKeyMatch(cert, pub)
  /\ CheckSignatureFrom(cert, issuer)
  /\ validateSAN(cert)

OpenServer(p) ==
  /\ pc[p] = "openServer"
  /\ \/ /\ IF op[p] \in Loading THEN openServerKey ELSE LoadOrCreateServerKey
        /\ \/ /\ serverCertValid(server[p], ca[p], serverKey')
              /\ serverSigner' = [serverSigner EXCEPT ![p] = serverKey']
              /\ Goto(p, "verify")
              /\ UNCHANGED caSigner
           \/ /\ ~serverCertValid(server[p], ca[p], serverKey')
              /\ Fail(p, caSigner[p], serverKey')
        /\ UNCHANGED <<certsMade, working, faults>>
     \/ /\ op[p] \in Loading /\ serverKey = NoKey
        /\ Fail(p, caSigner[p], serverSigner[p])
        /\ UNCHANGED <<stores, working, faults>>
     \/ CallFails(p, "openKey")

\* repairTrust is passed by ProvisionMachine only.
VerifyAnchor(p) ==
  /\ pc[p] = "verify"
  /\ \/ /\ VerifyTrust(ca[p]) = "healthy"
        /\ IF op[p] = "LoadServingMaterial" THEN ReturnMaterial(p)
           ELSE Goto(p, "renew") /\ UNCHANGED signers
        /\ UNCHANGED <<stores, working, faults>>
     \/ /\ VerifyTrust(ca[p]) = "absent" /\ op[p] = "ProvisionMachine"
        /\ Goto(p, "reinstall")
        /\ UNCHANGED <<stores, working, signers, faults>>
     \/ /\ VerifyTrust(ca[p]) # "healthy"
        /\ VerifyTrust(ca[p]) = "conflict" \/ op[p] # "ProvisionMachine"
        /\ Fail(p, caSigner[p], serverSigner[p])
        /\ UNCHANGED <<stores, working, faults>>
     \/ CallFails(p, "trust")

\* Mutant: the repair signs a new CA certificate with the persisted key.
Reinstall_regenerated(p) ==
  /\ pc[p] = "reinstall"
  /\ InstallTrust(createCACertSelfSigned(certsMade + 1, now, caSigner[p]))
  /\ Goto(p, "reverify")
  /\ UNCHANGED <<working, signers, faults>>

Reinstall(p) ==
  /\ pc[p] = "reinstall"
  /\ \/ /\ InstallTrust(ca[p])
        /\ Goto(p, "reverify")
        /\ UNCHANGED <<working, signers, faults>>
     \/ CallFails(p, "trust")

Reverify(p) ==
  /\ pc[p] = "reverify"
  /\ \/ /\ VerifyTrust(ca[p]) = "healthy"
        /\ Goto(p, "renew")
        /\ UNCHANGED <<stores, working, signers, faults>>
     \/ /\ VerifyTrust(ca[p]) # "healthy"
        /\ Fail(p, caSigner[p], serverSigner[p])
        /\ UNCHANGED <<stores, working, faults>>
     \/ CallFails(p, "trust")

\* The clock is read once, for the decision and for the new certificate.
Renew(p) ==
  /\ pc[p] = "renew"
  /\ at' = [at EXCEPT ![p] = now]
  /\ \/ /\ ~needsRenewal(server[p], now)
        /\ ReturnMaterial(p)
        /\ UNCHANGED <<server, faults>>
     \/ /\ needsRenewal(server[p], now) /\ ~validateCALifetime(ca[p], now)
        /\ Fail(p, caSigner[p], serverSigner[p])
        /\ UNCHANGED <<server, faults>>
     \/ /\ needsRenewal(server[p], now) /\ validateCALifetime(ca[p], now)
        /\ \/ /\ server' = [server EXCEPT ![p] =
                   createServerCertWithPub(now, ca[p], caSigner[p], serverSigner[p])]
              /\ Goto(p, "writeRenewed")
              /\ UNCHANGED <<signers, faults>>
           \/ /\ Fault("sign")
              /\ Fail(p, caSigner[p], serverSigner[p])
              /\ UNCHANGED server
  /\ UNCHANGED <<stores, seen, ca, failed>>

WriteRenewed(p) ==
  /\ pc[p] = "writeRenewed"
  /\ \/ /\ atomicWriteServer(server[p])
        /\ ReturnMaterial(p)
        /\ UNCHANGED <<working, faults>>
     \/ WriteFails(p)
     \/ CallFails(p, "file")

--------------------------------------------------------------------------
(* Cleanup: every artifact is tried, errors are reported at the end *)

\* What the step of a cleanup call does to the shared state and whether the
\* call has an error to report then; the call goes on either way.
GoOn(p, step, error) ==
  /\ Goto(p, step)
  /\ failed' = [failed EXCEPT ![p] = @ \/ error]
  /\ UNCHANGED signers

\* Mutant: a later success hides an earlier error.
Report_lastOnly(p, error) == GoOn(p, IF error THEN "err" ELSE "ok", error)

\* The call returns: nil exactly when no error was collected.
Report(p, error) == GoOn(p, IF failed[p] \/ error THEN "err" ELSE "ok", error)

\* Mutant: the error is not collected.
Collected_swallowed(p, kind, step) ==
  Fault(kind) /\ GoOn(p, step, FALSE) /\ UNCHANGED <<stores, seen, ca, server, at>>

\* appendCleanupError: an unexpected error is collected; "already absent" is
\* not an error.
Collected(p, kind, step) ==
  Fault(kind) /\ GoOn(p, step, TRUE) /\ UNCHANGED <<stores, seen, ca, server, at>>

\* Mutant: without the certificate, cleanup gives up.
ReadDER_givesUp(p) ==
  /\ pc[p] = "readDER"
  /\ IF caDER # None
     THEN ca' = [ca EXCEPT ![p] = caDER] /\ GoOn(p, "removeAnchor", FALSE)
     ELSE UNCHANGED ca /\ Report(p, TRUE)
  /\ UNCHANGED <<stores, seen, server, at, faults>>

\* CleanupMachine identifies the anchor by the certificate on disk.  Without
\* the file it cannot, and says so.
ReadDER(p) ==
  /\ pc[p] = "readDER"
  /\ \/ /\ caDER # None
        /\ ca' = [ca EXCEPT ![p] = caDER]
        /\ GoOn(p, "removeAnchor", FALSE)
        /\ UNCHANGED <<stores, seen, server, at, faults>>
     \/ /\ caDER = None
        /\ GoOn(p, "deleteCAKey", TRUE)
        /\ UNCHANGED <<stores, seen, ca, server, at, faults>>
     \/ Collected(p, "file", "deleteCAKey")

RemoveAnchor(p) ==
  /\ pc[p] = "removeAnchor"
  /\ \/ /\ RemoveTrust(ca[p])
        /\ GoOn(p, "deleteCAKey", FALSE)
        /\ UNCHANGED <<seen, ca, server, at, faults>>
     \/ Collected(p, "trust", "deleteCAKey")

DeleteKeyOfCA(p) ==
  /\ pc[p] = "deleteCAKey"
  /\ \/ /\ DeleteCAKey
        /\ GoOn(p, "deleteServerKey", FALSE)
        /\ UNCHANGED <<seen, ca, server, at, faults>>
     \/ Collected(p, "deleteKey", "deleteServerKey")

\* CleanupSmoke does not look whether the directory is there.
DeleteKeyOfServer(p) ==
  LET next == IF op[p] = "CleanupSmoke" THEN "unlinkCA" ELSE "statDir" IN
  /\ pc[p] = "deleteServerKey"
  /\ \/ /\ DeleteServerKey
        /\ GoOn(p, next, FALSE)
        /\ UNCHANGED <<seen, ca, server, at, faults>>
     \/ Collected(p, "deleteKey", next)

\* removeStateDir: an absent directory is fine, another error of os.Stat is not.
StatDir(p) ==
  /\ pc[p] = "statDir"
  /\ \/ /\ IF tlsDir THEN GoOn(p, "unlinkCA", FALSE) ELSE Report(p, FALSE)
        /\ UNCHANGED faults
     \/ Fault("stat") /\ Report(p, TRUE)
  /\ UNCHANGED <<stores, seen, ca, server, at>>

\* os.RemoveAll removes entry after entry and goes on past one it cannot
\* remove (remembered in seen); then it removes the directory.
UnlinkCA(p) ==
  /\ pc[p] = "unlinkCA"
  /\ \/ /\ caDER' = None
        /\ UNCHANGED <<seen, faults>>
     \/ /\ caDER # None /\ Fault("file")
        /\ seen' = [seen EXCEPT ![p] = {"undeleted"}]
        /\ UNCHANGED caDER
  /\ GoOn(p, "unlinkServer", FALSE)
  /\ UNCHANGED <<tlsDir, serverDER, keys, root, certsMade, ca, server, at>>

UnlinkServer(p) ==
  /\ pc[p] = "unlinkServer"
  /\ \/ /\ serverDER' = None
        /\ UNCHANGED <<seen, faults>>
     \/ /\ serverDER # None /\ Fault("file")
        /\ seen' = [seen EXCEPT ![p] = {"undeleted"}]
        /\ UNCHANGED serverDER
  /\ GoOn(p, "rmdir", FALSE)
  /\ UNCHANGED <<tlsDir, caDER, keys, root, certsMade, ca, server, at>>

\* Mutant: the error of os.RemoveAll is dropped.
RemoveDir_unreported(p) ==
  /\ pc[p] = "rmdir" /\ Report(p, FALSE)
  /\ tlsDir' = (caDER # None \/ serverDER # None)
  /\ UNCHANGED <<caDER, serverDER, keys, root, certsMade, seen, ca, server, at, faults>>

\* When a file has been written meanwhile, the directory is not empty
\* although every entry was removed: os.RemoveAll lists it again or reports
\* an error, by the version of the library.
RemoveDir(p) ==
  /\ pc[p] = "rmdir"
  /\ \/ /\ caDER = None /\ serverDER = None
        /\ \/ tlsDir' = FALSE /\ Report(p, FALSE) /\ UNCHANGED faults
           \/ tlsDir /\ Fault("file") /\ Report(p, TRUE) /\ UNCHANGED tlsDir
     \/ /\ caDER # None \/ serverDER # None
        /\ \/ Report(p, TRUE)
           \/ "undeleted" \notin seen[p] /\ GoOn(p, "unlinkCA", FALSE)
        /\ UNCHANGED <<tlsDir, faults>>
  /\ UNCHANGED <<caDER, serverDER, keys, root, certsMade, seen, ca, server, at>>

--------------------------------------------------------------------------
(* After the call, and what the package does not control *)

\* The process is back where it was before the call, with no handle open
\* but those the call leaked.
Idle(p, caHandle, serverHandle) ==
  /\ Goto(p, "idle")
  /\ op' = [op EXCEPT ![p] = "none"]
  /\ caSigner' = [caSigner EXCEPT ![p] = caHandle]
  /\ serverSigner' = [serverSigner EXCEPT ![p] = serverHandle]
  /\ seen' = [seen EXCEPT ![p] = {}]
  /\ ca' = [ca EXCEPT ![p] = None]
  /\ server' = [server EXCEPT ![p] = None]
  /\ at' = [at EXCEPT ![p] = 0]
  /\ failed' = [failed EXCEPT ![p] = FALSE]
  /\ UNCHANGED <<stores, now, calls>>

\* The caller has the outcome; the owner of a Material closes it.
Finish(p) ==
  /\ \/ pc[p] = "ok" /\ Idle(p, caSigner[p], NoKey)
     \/ pc[p] = "err" /\ Idle(p, caSigner[p], serverSigner[p])
  /\ UNCHANGED faults

\* The process dies; the system closes its handles.
Crash(p) == Running(p) /\ Fault("crash") /\ Idle(p, NoKey, NoKey)

\* Time passes, or someone sets the clock.
SetClock ==
  /\ now' \in 0..MaxTime
  /\ "setBack" \in Faults \/ now' >= now
  /\ UNCHANGED <<stores, pc, op, working, signers, budget>>

\* Others damage the material, never while an elevated call runs (named
\* assumption: the administrator does not do both at once).
Undisturbed == \A p \in Proc : Running(p) => op[p] \notin Elevated

DamageFile ==
  \/ /\ caDER \in CACert
     /\ \/ Fault("loseCA") /\ caDER' = None
        \/ Fault("corruptCA") /\ caDER' = Corrupt
        \/ Fault("swapCA") /\ caDER' = [caDER EXCEPT !.key = NoKey]
     /\ UNCHANGED serverDER
  \/ /\ serverDER \in ServerCert
     /\ \/ Fault("loseServer") /\ serverDER' = None
        \/ Fault("corruptServer") /\ serverDER' = Corrupt
        \/ /\ Fault("swapServer")
           /\ serverDER' \in {[serverDER EXCEPT !.key = NoKey],
                              [serverDER EXCEPT !.issuer = NoKey],
                              [serverDER EXCEPT !.localSAN = FALSE]}
     /\ UNCHANGED caDER

DamageKey ==
  \/ caKey # NoKey /\ Fault("loseCAKey") /\ caKey' = NoKey /\ UNCHANGED serverKey
  \/ serverKey # NoKey /\ Fault("loseServerKey") /\ serverKey' = NoKey /\ UNCHANGED caKey

DamageRoot ==
  \/ Fault("dropAnchor") /\ \E anchor \in root : root' = root \ {anchor}
  \/ Foreign \notin root /\ Fault("addForeign") /\ root' = root \cup {Foreign}

Damaged ==
  /\ Undisturbed
  /\ \/ DamageFile /\ UNCHANGED <<caKey, serverKey, root>>
     \/ DamageKey /\ UNCHANGED <<caDER, serverDER, root>>
     \/ DamageRoot /\ UNCHANGED <<caDER, serverDER, caKey, serverKey>>
  /\ UNCHANGED <<tlsDir, keysMade, certsMade, now, pc, op, working, signers, calls>>

--------------------------------------------------------------------------

ProvisioningNext(p) ==
  \/ StatCA(p) \/ StatServer(p) \/ ProbeCA(p) \/ ProbeServer(p)
  \/ ChooseCA(p) \/ ChooseServer(p) \/ MakeDir(p) \/ CreateCA(p)
  \/ CreateServer(p) \/ WriteCA(p) \/ WriteServer(p) \/ Install(p)

LoadingNext(p) ==
  \/ ReadCA(p) \/ OpenCA(p) \/ ReadServer(p) \/ OpenServer(p) \/ VerifyAnchor(p)
  \/ Reinstall(p) \/ Reverify(p) \/ Renew(p) \/ WriteRenewed(p)

CleaningNext(p) ==
  \/ ReadDER(p) \/ RemoveAnchor(p) \/ DeleteKeyOfCA(p) \/ DeleteKeyOfServer(p)
  \/ StatDir(p) \/ UnlinkCA(p) \/ UnlinkServer(p) \/ RemoveDir(p)

\* A step of the call of p.
Step(p) ==
  /\ ProvisioningNext(p) \/ LoadingNext(p) \/ CleaningNext(p)
  /\ UNCHANGED <<now, op, calls>>

Next ==
  \/ \E p \in Proc : Begin(p) \/ Step(p) \/ Finish(p) \/ Crash(p)
  \/ SetClock \/ Damaged

Spec == Init /\ [][Next]_vars

--------------------------------------------------------------------------
(* Properties *)

\* Every variable has its type.
TypeOK ==
  /\ StoresTypeOK
  /\ now \in Nat
  /\ pc \in [Proc -> Outcome \cup CallStep]
  /\ op \in [Proc -> Entry \cup {"none"}]
  /\ seen \in [Proc -> SUBSET {"ca", "caKey", "undeleted"}]
  /\ ca \in [Proc -> CACert \cup {None, Corrupt}]
  /\ server \in [Proc -> ServerCert \cup {None}]
  /\ caSigner \in [Proc -> Nat] /\ serverSigner \in [Proc -> Nat]
  /\ at \in [Proc -> Nat]
  /\ failed \in [Proc -> BOOLEAN]
  /\ calls \in Nat /\ faults \in Nat

\* "The module owns the signer handles and closes every handle it opens on
\* error paths": a call that returned an error left no key handle open, and
\* one that returned a Material left only the serving handle, to its owner.
HandlesOwned ==
  \A p \in Proc :
    /\ pc[p] \in Outcome => caSigner[p] = NoKey
    /\ pc[p] \in {"idle", "err"} => serverSigner[p] = NoKey
    /\ pc[p] = "ok" => (serverSigner[p] # NoKey <=> op[p] \notin Cleaning)

\* A Material is coherent however the calls, faults and damage interleave:
\* its certificate is for the key its signer holds, was issued by the key of
\* the CA it names, and has the local names.
MaterialCoherent ==
  \A p \in Proc : pc[p] = "ok" /\ op[p] \notin Cleaning =>
    /\ ca[p] \in CACert /\ server[p] \in ServerCert
    /\ server[p].key = serverSigner[p]
    /\ server[p].issuer = ca[p].key
    /\ server[p].localSAN

\* "Automatic CA regeneration is forbidden": no call replaces one CA
\* certificate on disk by another.
CAIdentityPreserved ==
  [][(pc' # pc /\ caDER \in CACert /\ caDER' \in CACert) => caDER' = caDER]_vars

\* A key is created only where there is no CA certificate yet: a
\* certificate whose key is gone never gets a replacement key.
NoReplacementKey ==
  [][keysMade' # keysMade => caDER = None]_vars

\* The certificates on disk fit the keys in the store and each other.
DiskCoherent ==
  /\ caDER \in CACert /\ caKey # NoKey => caDER.key = caKey
  /\ serverDER \in ServerCert /\ serverKey # NoKey => serverDER.key = serverKey
  /\ caDER \in CACert /\ serverDER \in ServerCert => serverDER.issuer = caDER.key

\* As long as nobody cleans up, the package never has two anchors in the Root
\* store, nor one it has no certificate for any more.
NoOrphanAnchor == root \subseteq {caDER, Foreign}

\* An anchor is installed only for the CA certificate that is on disk at
\* that moment, whoever dies, fails or cleans up around it.
AnchorHasCertificate ==
  [][\A anchor \in root' \ root : anchor \in CACert => anchor = caDER]_vars

\* A nil return of cleanup means that nothing is left: neither the anchor
\* it was to remove, nor a key, nor a file.  Told by a file that does not parse
\* it was to remove what no store holds: CleanupLeavesNoAnchor is about that.
CleanupVerdict ==
  [][\A p \in Proc :
       /\ Running(p) /\ op[p] \in Cleaning /\ pc'[p] = "ok"
       => /\ ca[p] \notin root'
          /\ caKey' = NoKey /\ serverKey' = NoKey
          /\ ~tlsDir' /\ caDER' = None /\ serverDER' = None]_vars

\* When ProvisionMachine returns a Material and nobody cleans up meanwhile, the
\* machine is complete: both certificates on disk fit the keys, the CA on disk
\* is the one returned, and it is trusted.
ProvisionCompletes ==
  [][\A p \in Proc :
       /\ Running(p) /\ op[p] = "ProvisionMachine" /\ pc'[p] = "ok"
       => /\ caDER' = ca'[p] /\ caDER' \in root'
          /\ serverDER' \in ServerCert
          /\ caKey' = caDER'.key /\ serverKey' = serverDER'.key
          /\ serverDER'.issuer = caDER'.key]_vars

\* The certificate that provisioning or ReloadMachine returns had not ended
\* when the call read the clock, does not outlive its CA, and was not due
\* for renewal unless its CA ends that soon.  Unless the clock is ever set
\* back it had also begun: no call checks that, every call relies on it.
FreshOnReturn ==
  \A p \in Proc : pc[p] = "ok" /\ op[p] \in Provisioning \cup {"ReloadMachine"} =>
    /\ at[p] < server[p].notAfter
    /\ server[p].notAfter <= ca[p].notAfter
    /\ needsRenewal(server[p], at[p]) => server[p].notAfter = ca[p].notAfter
    /\ "setBack" \notin Faults => server[p].notBefore <= at[p]

\* The package never leaves two CAs of its own trusted: "automatic CA
\* regeneration is forbidden to prevent duplicate trust anchors".
NoDuplicateAnchor ==
  \A a, b \in root : a \in CACert /\ b \in CACert => a = b

\* "A security-sensitive artifact failure is never silently reported as
\* success": when CleanupMachine returns nil, no anchor of the package is
\* left in the Root store.
CleanupLeavesNoAnchor ==
  [][\A p \in Proc :
       Running(p) /\ op[p] = "CleanupMachine" /\ pc'[p] = "ok"
       => root' \cap CACert = {}]_vars
=============================================================================
