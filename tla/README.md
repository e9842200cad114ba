# A TLA+ model of local-tls

local-tls gives a Windows machine the TLS material of a localhost service: a
self-signed CA and a server certificate in a state directory, their private
keys in the machine's CNG key store, and the CA as a trust anchor in
`LocalMachine\Root`. There is no daemon and no lock: any process may call any
entry point, each call is a sequence of operations on three stores that fail
and persist independently, and the machine may be left anywhere in the middle.
What the package promises is about those middles: it must fail closed on a
partial machine, never make a second CA beside one that is trusted, leak no key
handle on any error path, and never call a failed cleanup a success. This
directory models that, model-checks it and proves most of it.

## 1. Inventory

| part | source | state | operations |
|---|---|---|---|
| certificates | `certificate.go` | none (values) | create CA and server certificate, cap at the CA's end, renewal test, key, signature, SAN and lifetime checks |
| production composition | `composition_windows.go` | the call's locals: parsed certificates, two key handles | `ProvisionMachine`, `ReloadMachine`, `LoadServingMaterial` |
| key-store provisioning seam | `provision.go` | as above; `Material` | `ProvisionWithKeyStore`, first provisioning, reload, anchor repair, renewal, `Material.Close` |
| cleanup | `cleanup.go`, `cleanup_windows.go` | the collected errors | `CleanupMachine`, `CleanupMachineBySHA256`, removal of the directory |
| smoke-test lifecycle | `smoke_windows.go` | as production, own directory and key names | `ProvisionSmoke`, `CleanupSmoke`, anchor helpers |
| key store adapter | `keystore.go`, `keystore_windows.go` | persisted CA and server key | open, open or create, delete |
| trust store adapter | `truststore.go`, `truststore_windows.go` | anchors of `LocalMachine\Root`; store handles and certificate contexts of a call | install, remove (by certificate or fingerprint), verify, is trusted |
| atomic file write | `provision.go` (`atomicWrite`) | temporary file | create, write, sync, close, chmod, rename, remove on error |
| legacy provisioning | `provision.go`, `protector.go`, `certificate.go` | four files, two of them keys under a `Protector` | `Provision`: first provisioning, reload, renewal |
| fingerprints | `truststore.go`, `cmd/verify/main.go` | none | two parsers of a SHA-256 fingerprint |
| verification command, test key helpers | `cmd/verify/main.go`, `verify_windows.go` | none of its own: test keys, anchors, exit codes | four key and four trust operations |
| paths, identity, stubs, examples | the rest | none | |

How they interact. A composition entry point resolves the directory and key
names, opens the stores and calls the seam; the seam calls the key store for
signer handles, the file functions for the two DER files and the trust adapter
for the anchor. Cleanup calls the same three stores in the opposite order of
importance: anchor, keys, directory. Calls of different processes meet only in
the stores. The only values that cross a call's end are the returned `Material`
(with the serving handle, which its owner must close) and a fingerprint that
the caller may later hand to `CleanupMachineBySHA256`. The legacy path uses the
same certificates, atomic files and trust store, but no key store and no
pre-check. The verification command uses the key store, under the prefix of
test keys, and the trust store.

What is hard, and what makes each part correct:

- **Composition and seam.** A pre-check decides whether the machine is new,
  complete or partial; the decision is acted on many store calls later, and the
  files are looked at a second time in between (`provision.go:108`). Correct
  means: an existing CA certificate is not replaced (`CAIdentityPreserved`), a
  lost key is not replaced under a living certificate (`NoReplacementKey`), an
  anchor goes in only when its certificate is on disk (`AnchorHasCertificate`)
  and stays identified (`NoOrphanAnchor`), what is returned fits together
  (`MaterialCoherent`) and is fresh (`FreshOnReturn`), and a successful
  `ProvisionMachine` has really completed the machine (`ProvisionCompletes`).
- **Handles.** Provisioning defers its closes, `ReloadMachine` closes by hand on
  thirteen error paths (`HandlesOwned`).
- **Renewal.** Two processes renew from what each read before (`DiskCoherent`);
  a certificate capped by its CA is due at once; a reload looks at the end of a
  server certificate and not at its beginning, so that it has begun is owed to
  the clock alone (`FreshOnReturn`).
- **Cleanup.** Four independent removals, each of which may fail while the
  others go on; "not found" is not an error; `os.RemoveAll` races with a renewal
  that writes into the directory (`CleanupVerdict`).
- **Crashes and damage.** Every store call can be the last one; the next call
  sees what is left. Some of it is refused, and then the error says to clean up
  and provision again: that has to lead out of every state (`OperatorSucceeds`).
- **Atomic files.** Overlapping writers, readers and a cleanup of the directory
  meet at one name, and data that is written is not yet data that survives a
  power failure (`TargetWhole`, `TempIsPrivate`, `NoLitter`).
- **Trust store.** An operation is an enumeration with contexts that the next
  system call, or nobody, frees (`ContextsOwned`), against a store that others
  change meanwhile (`ImplementsTrustStore`).
- **Legacy provisioning.** Four files written one after the other, the anchor
  last, and a renewal that replaces certificate and key in two steps
  (`TornOnlyByRenewal`, `AnchorsPersisted`, `Recovers`).
- **Verification command.** Its exit codes are a manual proof of access rights,
  so they must mean what they say while other invocations run
  (`VerdictsEarned`), and no test key may be left under a name nobody knows
  (`NoUnnamedKey`).

`PROJECT.json` lists the hazards one by one with their lines and properties.

## 2. Modules

    Certificates               certificates as records, and the checks on them
      MachineStores            directory, two files, two keys, Root store; one operator per store call
        LocalTLS               the calls: one action per step; faults; the properties
          Recovery             an operator around LocalTLS who answers errors as they say
          LocalTLSInvariants   strengthenings used by the proofs
            MCLocalTLS         symmetry
            LocalTLSProofs     TypeCorrect
              MaterialProofs   HandlesAreOwned, MaterialIsCoherent
                IdentityProofs Serialised, and what becomes of CA, keys and anchor
                  OutcomeProofs  what calls leave and return; extends Recovery too
      LegacyProvision          the four-file provisioning
        LegacyInvariants       strengthenings used by the proofs
                               (MCLegacyProvision, LegacyProofs)
    AtomicFile                 what callers of atomicWrite rely on
      AtomicWrite              its steps, shown to implement it     (MCAtomicWrite, AtomicWriteProofs)
    TrustStore                 what callers of the trust store rely on
      TrustStoreWindows        its CryptoAPI calls, shown to implement it  (MCTrustStore, TrustStoreProofs)
      VerifyCommand            the command, on the interface of TrustStore
    Fingerprint                both parsers of a fingerprint
        TrustIsArgument        the command with its -trust-is argument as typed
                               (extends both; MCVerifyCommand, VerifyCommandProofs)

**Certificates.** A CA certificate keeps its serial, key and validity, a server
certificate its key, the key that signed it, its validity and whether its names
are the three local ones: what the checks in the code can tell apart, and the
server certificate's NotBefore, which they leave to whoever uses it.
`CheckSignatureFrom` compares keys, as X.509 verification does. A random serial
is a fresh number, so two CA certificates are equal exactly when their DER is.

**MachineStores.** `caDER` and `serverDER` are a certificate, `None` or
`Corrupt` (bytes that do not parse); `caKey` and `serverKey` a number, 0 for
none; `root` the anchors with the CA's common name, `Foreign` being someone
else's. Each operator is one call of the adapter and is atomic, because the
system call behind it is, or because a module of its own shows it: `AtomicWrite`
for the two files, `TrustStoreWindows` for the anchors. `keysMade` and
`certsMade` make new values distinct.

**LocalTLS.** `pc[p]` is the next store call of the call that process `p` is in,
`op[p]` the entry point; `ca`, `server`, `caSigner`, `serverSigner` and `at` are
the locals of the Go functions (certificates, handles, `time.Now()`), `seen`
what the pre-check found, `failed` whether cleanup has collected an error. An
action is one store call with the process-local work up to the next one: all
checks, early returns and deferred or manual closes included.

| actions | code |
|---|---|
| `StatCA` `StatServer` `ProbeCA` `ProbeServer` | `checkInconsistentMachineState`, `probeKey`, `preflightSmokeState` |
| `ChooseCA` `ChooseServer` | the second look of `provisionWithKeyStore` |
| `MakeDir` `CreateCA` `CreateServer` `WriteCA` `WriteServer` `Install` | `firstProvisionWithKeyStore` |
| `ReadCA` `OpenCA` `ReadServer` `OpenServer` `Renew` `WriteRenewed` | `reloadWithKeyStore`, `ReloadMachine`, `LoadServingMaterial`, the renewal |
| `VerifyAnchor` `Reinstall` `Reverify` | the trust check and the anchor repair |
| `ReadDER` `RemoveAnchor` `DeleteKeyOfCA` `DeleteKeyOfServer` | `CleanupMachine`, `cleanupLocalTLS` |
| `StatDir` `UnlinkCA` `UnlinkServer` `RemoveDir` | `removeStateDir` and `os.RemoveAll` behind it, one entry at a time; what that does when the directory is not empty at its end, list it again or give up, depends on the version of Go, and both may happen |
| `Begin` `Finish` `Crash` `SetClock` `Damaged` | the caller, the system, the clock and third parties |

Production and smoke material live in different directories under different key
names, so an instance of the module is one of the two worlds, chosen by `Entry`.
They do meet in `LocalMachine\Root`: the smoke-test CA has the production common
name, so `Foreign`, the anchor of someone else with that name, may be it.

`Faults` says which kinds an instance may meet and `MaxFaults` how many: a store
call that fails (`stat`, `file`, `openKey`, `deleteKey`, `sign`, `trust`), a
process that dies, and damage by others (files lost, corrupted or replaced, keys
lost, anchors dropped or added).

Named assumptions:

- `Exclusive` is the set of entry points the callers keep from overlapping. The
  package has no lock; an installer is usually the only elevated caller.
  Theorems without a condition on `Exclusive` hold for any overlap.
- `Undisturbed`: damage happens between elevated calls, or during
  `ReloadMachine` and `LoadServingMaterial`, not during an elevated call.
- A caller of `CleanupMachineBySHA256` or `CleanupSmoke` names an anchor the
  package made, or one that is gone, or none.
- The clock takes any later value at any time, and an earlier one where `Faults`
  has `setBack`; setting it is not counted among the `MaxFaults`.

**Recovery.** One process is the operator who keeps the machine provisioned:
`todo` says whether to provision, to clean up or to serve. An error of
`ProvisionMachine` calls for a cleanup, as its message says; a cleanup, whatever
it reports, for another attempt; a call that dies is repeated. `others` are the
processes that call beside the operator.

**AtomicWrite.** A file is a number; `cached` is its content for the system and
`stored` what is on the disk, and the same goes for the file that has the
target's name. A writer creates, writes, syncs, renames (close and mode are part
of that step, each may fail) and discards on every error path. Others read,
remove the target, and remove temporary files, as the cleanup of the directory
does. A writer may die at any step, and a power failure leaves what is stored.
The directory is not synced, so a nil return may be undone by a power failure;
`AtomicFile` says so with its `kept` value. Assumption: a rename reaches the
disk as a whole.

**TrustStoreWindows.** `view` is what the store handle of a call sees, `todo`
what its enumeration has not reached, `store`, `existing` and `certCtx` count
the handles and contexts it holds, `deferred` what it releases on return. One
action per CryptoAPI call. The search for a conflict is a comparison of words
in lower case within the subject, as `CERT_FIND_SUBJECT_STR_A` does it.
Assumption: a handle sees the store as it was opened. `TrustStore` is the
interface: an operation finds its answer or takes effect at one moment, and an
error means that nothing changed.

**LegacyProvision.** `file` holds the four files, `mem` what a call has read or
made, `rest` the files it has still to read or write, in the code's order,
`torn` whether a renewal was interrupted between its two writes, `overlooked`
whether a call has taken files that exist for none. Protection is
undone by `Unprotect`, so a protected key is its key. `Situation` bundles who
calls and what goes wrong, and one of them is chosen at the start. Assumptions:
the directory is removed only between calls, and only when the last call's error
says that this helps (`Advice`); a new key differs from those in use; `os.Stat`
of the four files is one look, which fails for one file or, in a directory that
cannot be accessed, for all, and counts as one fault.

**Fingerprint, TrustIsArgument.** Strings are sequences of characters, one of
which has two bytes, since `len` counts bytes. The argument is typed one
character at a time; then a `-trust-is` invocation of `VerifyCommand` reads it.

**VerifyCommand.** Invocations by principals with different rights, as the
usage text and the access list of the keys have it (`MayUse`, `MayManage`). Key
store calls are one step each; trust operations go through the actions of
`TrustStore`, so another invocation can change the store between the call and
its answer. Assumptions: a random name is unused; that a key is absent is told
to everyone.

## 3. Runs

In the runs of `MCLocalTLS` one unit of time is 30 days: a server certificate
lives 3 units and is due in its last one; the CA lives 4 instead of about 61,
so that the second server certificate is already capped and both the ordinary
and the capped renewal, and the end of the CA, lie within `MaxTime = 4`.
`backdate`, five minutes, rounds to 0. The clock can always be set, also to
what it says, so no state is a deadlock. In `recovery` the CA lives 2 units and
the server 1, due at its end; in `legacy` 3 and 2, due in the last: fewer
instants, in which renewal, cap and end still occur. Deadlock is not checked in
`recovery` and `verify_command`, whose bounded numbers of calls end.

| run | instance | checks |
|---|---|---|
| `one_caller` | 1 process, 4 calls of the five production entry points, 2 failures, crashes or damages of 16 kinds, the clock set back | `TypeInv` `HandlesOwned` `MaterialCoherent` `CAIdentityPreserved` `NoReplacementKey` `ProvisionCompletes` `CleanupVerdict` |
| `elevated_serialised` | 2 processes, 4 calls, 1 fault, elevated calls do not overlap, the clock set back | `SerialInv` `MaterialCoherent` `CAIdentityPreserved` `AnchorHasCertificate` `CleanupVerdict` |
| `renewal_race` | 2 processes, provisioning and loading, 5 calls, 1 fault, the clock only advances | `DiskCoherent` `NoOrphanAnchor` `FreshOnReturn` `ProvisionCompletes` |
| `smoke` | 1 process, smoke entry points and the exported seam, 4 calls, 2 faults, `os.Stat` among them, the clock set back | `HandlesOwned` `FreshOnReturn` `CleanupVerdict` |
| `recovery` | the operator alone with 2 faults of all 17 kinds and the clock set back, or beside a process that may reload, with 1 | `OperatorSucceeds` |
| `atomic_write` | 2 writers, 1 reader, 2 values, 3 temporary files, 2 faults of call, crash, power, removal | `TypeOK` `TempIsPrivate` `TargetWhole` `NoLitter` `ImplementsAtomicFile` |
| `trust_store` | 2 callers, two CAs of one name and a certificate without one, 1 failing system call, any Root store at the start | `TypeOK` `ContextsOwned` `ImplementsTrustStore` |
| `legacy` | 1 process, 3 failures or crashes, to the end of its CA; the same with `os.Stat` failing, to its first renewal; or 2 at once, 1 failure, crash or damaged file | `TypeOK` `LegacyMaterialCoherent` `TornOnlyByRenewal` `CAPreserved` `AnchorsPersisted` `Recovers` |
| `verify_command` | administrator, user and service, 2 test names and a production one, 2 certificates, 3 invocations, 1 fault; `-trust-is` arguments of up to 6 of 5 characters | `TypeOK` `NoUnnamedKey` `NamespaceOnly` `VerdictsEarned` `ReadsTheFingerprint` |

Why the bounds are enough. The stores are shared by any number of processes,
but every hazard listed is a race of two; a third process repeats the part of
one of them. Four calls are enough for one process to provision, be interrupted
in a cleanup, provision again and load or clean up; two processes can each run
twice, enough for a load that overlaps cleanup and a new provisioning.
`renewal_race` has no cleanup and takes five: two provisionings and three
renewals, or the other way round. One fault reaches every error path and every
partial machine; two let a recovery fail as well. The CA's and the server's
expiry, a clock set back and a capped renewal all fit in five instants. In
`recovery`, `FreeCalls` bounds the calls that answer no error; those that do
are bounded by `MaxCalls`, which no behaviour reaches. A third temporary file
lets a write follow two that died; a fingerprint of two bytes has arguments
that are too short, too long, odd and of the right number of bytes but not
characters.

What each shows:

- `one_caller`: whatever sequence of calls, failures, crashes and damage a
  single caller goes through, no handle stays open after an error, what is
  returned fits, a success of `ProvisionMachine` is a complete machine, lost or
  exchanged material is refused and never regenerated over, and a nil return of
  cleanup means that anchor, keys and files are gone.
- `elevated_serialised`: with elevated calls one at a time, readers and
  renewals around them cannot make the pre-check stale before it is acted on,
  so the CA is never replaced and an anchor never appears without its
  certificate; a load that overlaps a cleanup and a new provisioning returns no
  mixture of both; a renewal that writes into the directory while it is removed
  turns the cleanup into an error, never into a success that left a file.
- `renewal_race`: concurrent renewals and a concurrent repair leave a
  certificate that fits, and return certificates that have begun and not ended.
  `DiskCoherent` is not claimed when cleanup overlaps `ReloadMachine`: a reload
  that has read the old generation writes its renewed certificate into the new
  one, and later loads fail closed.
- `smoke`: the weaker pre-check of the smoke path and the exported seam without
  one still own their handles and return certificates that have not ended; with
  the clock set back nothing is claimed about their beginning.
  `CAIdentityPreserved` is not claimed there, see below.
- `recovery`: no state is a dead end for cleanup followed by `ProvisionMachine`,
  and the two do not chase each other.
- `atomic_write`: a certificate file is nothing or one whole value at any
  moment, for readers and after a power failure; overlapping writes, dying
  writers and a cleanup underneath do not change that, and a temporary file
  stays behind only when a writer dies or its removal fails.
- `trust_store`: each operation finds its answer, or makes its change, at one
  moment and for its own certificate; an error has changed nothing; no handle or
  context is leaked or freed twice. What counts as a conflict is the same
  relation `Similar` in the module and in its specification, so a wrong choice
  of that relation is not what this run would find.
- `legacy`: what a call returns fits, also when calls overlap; for a single
  caller the files are torn apart only by an interrupted renewal, and a trusted
  CA is replaced only when a directory could not be accessed (section 4); a call
  that fails is followed by one that returns material when people do what the
  errors say, except from the two dead ends of section 4.
- `verify_command`: the command stays in its namespace, leaves no key under an
  unprinted name, and its exit code 0 is true of some moment of its run; both
  parsers accept exactly the digits of a fingerprint between spaces, and read
  them for what they are. The classes of errors are given; which texts
  `isAccessDenied` takes for which class is not looked at.

Fairness. `RecoverySpec` has weak fairness of each process's steps: the
operating system runs every process and each store call returns; and of the
operator's beginning and finishing calls, as the operator does not give up.
Nobody else is obliged to begin a call, and nobody to crash, to suffer a fault
or to move the clock. Faults are bounded, so from some moment on nothing fails;
that is the premise of "in the end". `os.RemoveAll` may list the directory again
only when a renewal has written into it, so as often as there are calls.
`LiveSpec` of the legacy path has weak fairness of calling again and of each
step, and strong fairness of `RemoveDirectory`: it is possible only between
calls, and the error keeps asking for it until it is done.

## 4. Disagreements the model shows

Three runs state what a comment or message of the code says and show a behaviour
of the code that violates it (expected `violation`).

- `v_stat_error` (`CAIdentityPreserved`): `fileExists` reads any error of
  `os.Stat` as "absent", and the seam asks it again after the pre-check; one
  passing error on a complete machine replaces the CA certificate.
- `v_failed_removal` (`NoDuplicateAnchor`): cleanup whose anchor removal failed
  deletes the certificate all the same; the next provisioning is a first
  install beside a trusted anchor nothing identifies any more.
- `v_corrupt_cleanup` (`CleanupLeavesNoAnchor`): with a corrupt CA file the
  anchor is "not found", which is suppressed: nil is returned, the anchor stays.

Others follow from the modules as directly and have no run of their own:

- Two first installs at once pass the pre-check together and install two CAs; no
  lock spans check and action (`composition_windows.go:51`). `Exclusive = {}` in
  `v_failed_removal.cfg`, with two processes, shows it.
- The smoke pre-check does not look at the server certificate, and a lost one
  leads to a new CA (`smoke_windows.go:75`, whose comment says "same as
  production"). `ProvisionSmoke` with the fault `loseServer` violates
  `CAIdentityPreserved`.
- `findCertByCN` finds the name anywhere in the subject and in any letter case
  (`truststore_windows.go:299`), `docs/README.md:360` speaks of the same CN:
  `Similar` in `TrustStoreWindows` is the code's relation, and in `trust_store`
  a certificate without a name, whose organization is called so, is in conflict
  with the CA.
- The smoke-test CA has the production common name, so its anchor makes
  `VerifyTrust` report a conflict for a production CA whose own anchor is
  missing, and `ProvisionMachine` does not repair it
  (`truststore_windows.go:212`; `internal/identity/identity.go:16-17` calls
  smoke identities isolated).
- With the clock set back, `ReloadMachine` and provisioning return a server
  certificate that is not yet valid: the renewal test looks at its end only
  (`composition_windows.go:171`, `provision.go:228`), and the lifetime of the CA
  is looked at only when a renewal is due. `FreshOnReturn` therefore claims the
  beginning only for a clock that is never set back; without that condition
  `smoke` violates it.
- The legacy path looks for its files twice (`provision.go:312`,
  `provision.go:329`), but one inaccessible directory fails both looks. When it
  is accessible again for the writes, a new CA replaces the trusted one, and
  four writes one of which fails leave a mixture. `overlooked` marks such a
  call; `CAPreserved` and `TornOnlyByRenewal` hold without one.
- The legacy path has two dead ends that none of its errors leads out of
  (`DeadEnd`). When only the anchor is missing, because the installation failed
  or the process died before it, `Provision` fails with "elevated
  provisioning/repair required" for ever (`provision.go:397`), but has no
  repair. When a renewal was torn, it fails with a key mismatch for ever
  (`provision.go:490`). Removing the directory would help in both, and no
  message says so. `Recovers` names both and shows that there is no third.

## 5. Proofs

All theorems hold for every set of processes and entry points, every fault set
and every bound, under the named assumptions of the modules, which say only what
the durations, `None`, `Corrupt`, `Foreign`, `Nothing`, the certificates and the
characters are, and of the legacy path also that a machine runs finitely many
processes, so that there is always a key not in use.

| theorem | statement | inductive invariant |
|---|---|---|
| `TypeCorrect` | `Spec => []TypeInv` | `TypeInv`: the types, and that a call past a read holds a parsed certificate. Without the second part, field accesses in the checks are not typed. |
| `HandlesAreOwned` | `Spec => []HandlesOwned` | `OwnershipInv`: `HandlesOwned` with `HandlesInv` (which handle is open at which step) and `StepsOfCalls` (which entry point can be at which step). `HandlesOwned` speaks only of finished calls; the step that ends one needs to know what was open. |
| `MaterialIsCoherent` | `Spec => []MaterialCoherent` | `CoherenceInv`: with `MaterialInv`, the certificates of a running call fit the handles it holds. It mentions no store, which is why no interleaving can disturb it. |
| `Serialised` | `Coordinated => (Spec => []SerialInv)` | `SerialInv`: at most one elevated call runs (`ElevatedAlone`), and at each of its steps what its pre-check found is still so (`PreCheckHolds`). |
| `IdentityPreserved` | `Coordinated => (Spec => CAIdentityPreserved)` | `SerialInv` again: the CA file changes only at a step where `PreCheckHolds` says there was no CA certificate. |
| `KeysAreNotReplaced` | `Coordinated => (Spec => NoReplacementKey)` | the same, of the step that creates a key. |
| `AnchorsHaveCertificates` | `Coordinated => (Spec => AnchorHasCertificate)` | the same: the CA held at an install or repair is the one on disk. |
| `DiskIsCoherent` | `Undamaged => (Spec => []DiskCoherent)` | `DiskInv`: certificates and open handles are for the keys in the store; on `CoherenceInv` and `CAHandleInv` (a call that made or matched a CA has a key for it). |
| `AnchorsAreKnown` | `Coordinated /\ Undamaged => (Spec => []NoOrphanAnchor)` | `NoOrphanAnchor` with `SerialInv`: the CA certificate on disk is not replaced once it exists. |
| `CleanupTellsTheTruth` | `ElevatedExclude => (Spec => CleanupVerdict)` | `CleanInv` (what a cleanup without an error has come by is gone), on `ElevatedAlone` (nobody puts it back) and `DirInv` (files are in the directory). |
| `ProvisioningCompletes` | `Coordinated /\ Undamaged => (Spec => ProvisionCompletes)` | `CompletionInv` (what the call has read or written is still there), with `DiskInv` and `SerialInv`. |
| `Begun` | `"setBack" \notin Faults => (Spec => []BegunInv)` | `BegunInv`: certificates are issued for a moment that is past, and the decision to return one is taken at a later reading of the clock, by the same or another process. It needs no coordination. |
| `ReturnsFresh` | `Coordinated => (Spec => []FreshOnReturn)` | `BegunInv` for the beginning, `FreshInv` for the end, and for the CA's end `LineageInv`: a CA key has issued itself one certificate only, and nothing that outlives it. That rests on `NewKeyInv`: `ProvisionMachine` signs a CA for a new key only. |
| `RecoveryIsCalls` | `RecoverySpec => Spec` | `others \subseteq Proc`. Every theorem above therefore holds of a machine whose operator answers errors with cleanup and another attempt. |
| `WriteTypes`, `TempFilesArePrivate`, `FilesAreWhole` | `Spec => []TypeOK`, `[]TempIsPrivate`, `[]TargetWhole` | `FilesInv`, the conjunction: a target is whole because the temporary file it was is private to its writer and synced before the rename. |
| `NothingIsLeft` | `Spec => NoLitter` | `FilesInv` and `NoneYet` (a write that has created nothing remembers no file): a call ends at the rename, at a failing create, or at the removal, whose failure is a fault of its own. |
| `AtomicWriteImplements` | `Spec => ImplementsAtomicFile` | `FilesInv`; the rename is `Replace`, a failing step `Fail`, write-back `Keep`. |
| `StoreTypes` | `Spec => []TypeOK` | `StoreInv`, below: a count that is decremented was 1. |
| `ContextsAreOwned` | `Spec => []ContextsOwned` | `StoreInv`: `Holding` (which handles and contexts a call has at which step, and what it has deferred) and `Knowing` (what its search has found so far). |
| `TrustStoreImplements` | `Spec => ImplementsTrustStore` | `StoreInv`; an operation that needs no change has its answer when it opens the store, another at its add or delete. |
| `KeysNamed` | `Spec => []NoUnnamedKey` | with `Named`: an invocation works on a name of the namespace it has printed. |
| `StaysInNamespace` | `Spec => NamespaceOnly` | the same. |
| `CommandTypes` | `Spec => []TypeOK` | with `VerdictInv`, below. |
| `ZeroIsEarned` | `Spec => VerdictsEarned` | `VerdictInv`: who signs has opened a key that it may use (`Signing`); a trust command's call of the Root store is its own, and what it is answered it has met during the call (`Trusting`). |
| `TypedIsCommand` | `TypedSpec => Spec` | none; the three theorems on the command hold with typed arguments. |
| `FingerprintIsRead` | `TypedSpec => []ReadsTheFingerprint` | none but the type of `arg`; lemmas on what `TrimSpace` leaves and on a byte and its two digits. Both parsers make the same checks in the same order, so one argument serves for both. |
| `LegacyTypes` | `Spec => []TypeOK` | `CallInv`, next. |
| `LegacyMaterialFits` | `Spec => []LegacyMaterialCoherent` | `CallInv`: what a call has read so far parsed and fits (`Fitting`), and past the renewal test it is current (`Current`). Like `CoherenceInv` it mentions of the stores only `root`, which nobody takes anchors from. |
| `FilesFit` | `Spec => []TornOnlyByRenewal` | `SoloInv`: a single caller holds what is on disk, up to what it has still to write (`Written`, `Reload`); files come into being in one order, the server key last (`OrderInv`); a first provisioning begins without the server key (`FirstCall`); four files fit unless torn (`FilesInv`). |
| `CAStays` | `Spec => CAPreserved` | `SoloInv`: a trusted CA certificate has all four files, and with four files nobody provisions. |
| `AnchorsAfterFiles` | `Spec => AnchorsPersisted` | the part `Written` of `SoloInv`, which holds also after files were overlooked. |

The conditions:

- `Coordinated`: elevated entry points are in `Exclusive`, `os.Stat` does not
  fail on an existing file, and `ProvisionMachine` is the only provisioning
  entry point of the instance. Section 4 has the counterexample to each part.
- `Undamaged`: nobody cleans up, and nobody else touches files and keys; anchors
  may come and go. `DiskIsCoherent` needs no coordination besides: even
  overlapping first installs leave certificates that fit the keys, because both
  open the same two keys.
- `ElevatedExclude`: only the first part of `Coordinated`.
- `setBack`: `FreshOnReturn` itself has the condition for its last part.
- `Undisturbed`, one caller and no damage, and `~overlooked` are part of the
  three legacy properties themselves.

The argument for `Serialised` splits a step by who takes it. Of two processes
in calls, at most one is elevated. `StepFrame` and `LoaderFrame` say what a step
of another process, necessarily a `ReloadMachine` or `LoadServingMaterial`, can
change of what the call relies on: neither the CA certificate nor a key, and a
server certificate only to another one; `OwnStep` shows
that each step of `ProvisionMachine` establishes `PreCheckHolds` at its next
step. Damage is excluded by `Undisturbed`.

The legacy path has two invariants because it makes two kinds of promise.
`CallInv` is about what one call has read and holds while others do as they
like; `SoloInv` relates the files to the memory of the only caller, and its
parts hold under different conditions, so that `AnchorsAfterFiles` needs no
word about overlooked files.

Proofs are laid out per group of actions: one lemma for the provisioning, the
loading and the cleaning steps, and one for what surrounds a call; each has one
step per action. The refinement proofs have one lemma per action, or group of
actions that map alike, that names the abstract action or the stutter.

Only model-checked: `OperatorSucceeds` and `Recovers`, as liveness
under fairness and `ENABLED` are outside what the prover handles. Every other
property of a passing run is a theorem. `CleanupLeavesNoAnchor` and
`NoDuplicateAnchor` of section 4 are false. No module has a `RECURSIVE`
operator. That the theorems of `LocalTLS` rest on atomic files and an atomic
trust store is justified by the two refinements; the composition of the modules
into one is not carried out.

## 6. What is not modelled

- X.509 encoding, key usages, subject names and cryptography: the checks are
  modelled by what they decide.
- `LoadServingMaterial` does not look at the validity of what it serves
  (`composition_windows.go:275`). That is documented, so `FreshOnReturn` leaves
  this entry point out and nothing is claimed.
- Access control, except in `VerifyCommand`, whose subject it is: which rights a
  caller has is not state of the package; a refused access is a failed call.
- Path construction and identity constants, the stubs for other systems
  and the examples: no state.
- Two certificate files are the only entries of the directory in `LocalTLS`;
  the temporary files beside them are in `AtomicWrite`.

## 7. Plan

Done: the core with its faults, type correctness, handles, material, identity
and outcomes; the atomic file and the trust store with their refinements; the
legacy path, recovery, the parsers and the command, with their safety proved.

What could follow: an `Installation` module, the machine as its owner sees it
(absent, partial, complete), with `LocalTLS` under coordination shown to
implement it; what a load returns while coordinated calls surround it (the
certificates of one generation) as a theorem; the steps of `Recovery` that
lead to a complete machine as safety lemmas under `OperatorSucceeds`.
