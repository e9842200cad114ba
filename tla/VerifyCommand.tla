---------------------------- MODULE VerifyCommand ----------------------------
(***************************************************************************)
(* The verification command (cmd/verify/main.go) and the test key helpers  *)
(* under it (verify_windows.go), run by an administrator, an ordinary user *)
(* and a service side by side.  The command has no state of its own: what  *)
(* it leaves are test keys, anchors and exit codes, and exit codes are     *)
(* what the manual proof of the access rules consists of.                  *)
(*                                                                         *)
(* An invocation works on the Root store through the interface of          *)
(* TrustStore, and on the key store through calls that are one step each.  *)
(***************************************************************************)
EXTENDS Integers

CONSTANTS
  Proc,       \* the shells the command is run from
  who,        \* the principal each shell runs as
  TestName,   \* key names in the namespace Keppin.Test.
  OtherName,  \* other key names, those of the production keys among them
  NoName,     \* the environment variable is not set
  Cert,       \* certificates
  Unreadable, \* an argument that is missing, no certificate or no fingerprint
  Similar,    \* Similar[c]: the certificates that count as conflicting with c
  MaxRuns,    \* bound: invocations in a behaviour
  MaxFaults   \* bound: failures in a behaviour

ASSUME VerifyAssumption ==
  /\ who \in [Proc -> {"administrator", "user", "service"}]
  /\ TestName \cap OtherName = {} /\ NoName \notin TestName \cup OtherName
  /\ Unreadable \notin Cert
  /\ MaxRuns \in Nat /\ MaxFaults \in Nat

VARIABLES
  keys,       \* the persisted key under each name, NoKey where there is none
  keysMade,   \* number of keys ever created
  printed,    \* the names that invocations have printed
  command,    \* the operation each invocation performs
  name,       \* the key it is about
  handle,     \* the key the invocation has open
  signature,  \* the key whose signature it has
  pc, exit,   \* its next step, and its exit code
  runs, faults,
  anchors, operation, argument, phase, answer,  \* of TrustStore
  met         \* history: the truths met since the invocation began

Root == INSTANCE TrustStore WITH op <- operation, cert <- argument, EmptyDER <- Unreadable

trust == <<anchors, operation, argument, phase, answer>>
local == <<command, name, handle, signature>>
vars  == <<keys, keysMade, printed, local, pc, exit, runs, faults, trust, met>>

NoKey == 0

\* It runs, or was interrupted.
NoCode == -1

KeyCommand   == {"-create", "-open", "-sign", "-delete"}
TrustCommand == {"-trust-install", "-trust-verify", "-trust-remove", "-trust-is"}

\* The operation of the store that each trust command calls.
Operation == [c \in TrustCommand |->
                CASE c = "-trust-install" -> "InstallTrust"
                  [] c = "-trust-verify"  -> "VerifyTrust"
                  [] c = "-trust-remove"  -> "RemoveTrust"
                  [] c = "-trust-is"      -> "IsTrustedSHA256"]

Init ==
  /\ keysMade = 1
  /\ keys = [n \in TestName \cup OtherName |-> IF n \in OtherName THEN 1 ELSE NoKey]
  /\ printed = {}
  /\ command = [p \in Proc |-> "none"] /\ name = [p \in Proc |-> NoName]
  /\ handle = [p \in Proc |-> NoKey] /\ signature = [p \in Proc |-> NoKey]
  /\ pc = [p \in Proc |-> "exited"] /\ exit = [p \in Proc |-> NoCode]
  /\ runs = 0 /\ faults = 0
  /\ Root!Init
  /\ met = [p \in Proc |-> {}]

Fault == faults < MaxFaults /\ faults' = faults + 1

--------------------------------------------------------------------------
(* The principals, as the access list of the keys and the Root store have it *)

MayUse(p)    == who[p] \in {"administrator", "service"}
MayManage(p) == who[p] = "administrator"

Errors == {"none", "not found", "access denied", "wrong name", "other"}

\* The error of opening a key: that it is absent is told to everyone.
OpenError(p) == IF keys[name[p]] = NoKey THEN "not found"
                ELSE IF ~MayUse(p) THEN "access denied" ELSE "none"

--------------------------------------------------------------------------
(* An invocation *)

\* The process ends with this code and the deferred closes have run.
Exit(p, code) ==
  /\ pc' = [pc EXCEPT ![p] = "exited"]
  /\ exit' = [exit EXCEPT ![p] = code]
  /\ command' = [command EXCEPT ![p] = "none"] /\ name' = [name EXCEPT ![p] = NoName]
  /\ handle' = [handle EXCEPT ![p] = NoKey] /\ signature' = [signature EXCEPT ![p] = NoKey]

Goto(p, step) == pc' = [pc EXCEPT ![p] = step] /\ UNCHANGED exit

Begin(p, c, n, step) ==
  /\ pc' = [pc EXCEPT ![p] = step]
  /\ exit' = [exit EXCEPT ![p] = NoCode]
  /\ command' = [command EXCEPT ![p] = c] /\ name' = [name EXCEPT ![p] = n]
  /\ UNCHANGED <<handle, signature>>

\* Mutant: a name in the environment is taken as it is.
HasPrefix_unchecked(n) == TRUE

HasPrefix(n) == n \in TestName

\* Without a name in the environment the suffix is random: no key has it.
RandomName == {n \in TestName : keys[n] = NoKey /\ n \notin printed}

\* Mutant: the name is printed with the result.
Announce_late(n) == UNCHANGED printed

\* Every handler of a key command prints the name before it does anything.
Announce(n) == printed' = printed \cup {n}

\* keyName takes the name from the environment, where whoever sits at the
\* shell has put a printed name or any other, and leaves with 2 when it is
\* outside the namespace, with 1 when it needs a random name and gets none.
keyName(p) ==
  /\ pc[p] = "exited" /\ runs < MaxRuns /\ runs' = runs + 1
  /\ \/ /\ \E n \in TestName \cup OtherName : ~HasPrefix(n)
        /\ Exit(p, 2) /\ UNCHANGED <<printed, faults>>
     \/ /\ \E n \in {m \in TestName \cup OtherName : HasPrefix(m)} \cup RandomName,
             c \in KeyCommand :
             Announce(n) /\ Begin(p, c, n, "key")
        /\ UNCHANGED faults
     \/ Fault /\ Exit(p, 1) /\ UNCHANGED printed
  /\ UNCHANGED <<keys, keysMade, trust>>

\* TestCreateKey: LoadOrCreate under a checked name; the handle is closed
\* again.
handleCreate(p) ==
  /\ pc[p] = "key" /\ command[p] = "-create"
  /\ \/ /\ HasPrefix(name[p]) /\ MayManage(p)
        /\ IF keys[name[p]] = NoKey
           THEN /\ keysMade' = keysMade + 1
                /\ keys' = [keys EXCEPT ![name[p]] = keysMade + 1]
           ELSE UNCHANGED <<keys, keysMade>>
        /\ Exit(p, 0) /\ UNCHANGED faults
     \/ /\ ~(HasPrefix(name[p]) /\ MayManage(p)) /\ Exit(p, 1)
        /\ UNCHANGED <<keys, keysMade, faults>>
     \/ Fault /\ Exit(p, 1) /\ UNCHANGED <<keys, keysMade>>
  /\ UNCHANGED <<printed, runs, trust>>

\* TestOpenKey.
Opened(p, error) ==
  \/ error = (IF HasPrefix(name[p]) THEN OpenError(p) ELSE "wrong name") /\ UNCHANGED faults
  \/ error = "other" /\ Fault

\* Mutant: whatever keeps the key shut is taken for the access list.
isAccessDenied_anyError(error) == error # "none"

isAccessDenied(error) == error = "access denied"

\* A key that opens fails the test, and so does any error but one.
handleOpen(p) ==
  /\ pc[p] = "key" /\ command[p] = "-open"
  /\ \E error \in Errors : Opened(p, error) /\ Exit(p, IF isAccessDenied(error) THEN 0 ELSE 1)
  /\ UNCHANGED <<keys, keysMade, printed, runs, trust>>

OpenToSign(p) ==
  /\ pc[p] = "key" /\ command[p] = "-sign"
  /\ \E error \in Errors :
       /\ Opened(p, error)
       /\ IF error = "none"
          THEN /\ handle' = [handle EXCEPT ![p] = keys[name[p]]]
               /\ Goto(p, "sign") /\ UNCHANGED <<command, name, signature>>
          ELSE Exit(p, 1)
  /\ UNCHANGED <<keys, keysMade, printed, runs, trust>>

\* By now the key may be deleted: the provider then signs with it or refuses.
Sign(p) ==
  /\ pc[p] = "sign"
  /\ \/ /\ signature' = [signature EXCEPT ![p] = handle[p]]
        /\ Goto(p, "verify") /\ UNCHANGED <<command, name, handle, faults>>
     \/ /\ Fault
        /\ Goto(p, "verify") /\ UNCHANGED local
     \/ /\ \/ keys[name[p]] # handle[p] /\ UNCHANGED faults
           \/ Fault
        /\ Exit(p, 1)
  /\ UNCHANGED <<keys, keysMade, printed, runs, trust>>

\* Mutant: the signature is not verified.
VerifyASN1_unverified(p) == TRUE

\* The signature verifies under the public key of the handle.
VerifyASN1(p) == signature[p] = handle[p]

handleSign(p) ==
  /\ pc[p] = "verify"
  /\ Exit(p, IF VerifyASN1(p) THEN 0 ELSE 1)
  /\ UNCHANGED <<keys, keysMade, printed, runs, faults, trust>>

\* TestDeleteKey: that the key is absent is an error here.
handleDelete(p) ==
  /\ pc[p] = "key" /\ command[p] = "-delete"
  /\ \/ /\ HasPrefix(name[p]) /\ MayManage(p) /\ keys[name[p]] # NoKey
        /\ keys' = [keys EXCEPT ![name[p]] = NoKey]
        /\ Exit(p, 0) /\ UNCHANGED faults
     \/ /\ ~(HasPrefix(name[p]) /\ MayManage(p) /\ keys[name[p]] # NoKey)
        /\ Exit(p, 1) /\ UNCHANGED <<keys, faults>>
     \/ Fault /\ Exit(p, 1) /\ UNCHANGED keys
  /\ UNCHANGED <<keysMade, printed, runs, trust>>

\* A file that holds no certificate is an error, a missing argument and a
\* malformed fingerprint are wrong usage.
readArgument(p) ==
  /\ pc[p] = "exited" /\ runs < MaxRuns /\ runs' = runs + 1
  /\ \E c \in TrustCommand :
       \/ /\ Root!Call(p)
          /\ operation'[p] = Operation[c] /\ argument'[p] \in Cert
          /\ Begin(p, c, NoName, "trust")
       \/ /\ \E code \in IF c = "-trust-is" THEN {2} ELSE {1, 2} : Exit(p, code)
          /\ UNCHANGED trust
  /\ UNCHANGED <<keys, keysMade, printed, faults>>

\* The call of the store proceeds; opening the store to change it takes an
\* administrator.
StoreStep(p) ==
  /\ pc[p] = "trust"
  /\ \/ Root!Know(p) /\ (MayManage(p) \/ operation[p] \in Root!Reading \/ answer'[p] = "error")
     \/ Root!Change(p) /\ MayManage(p)
     \/ Root!Lose(p)
  /\ UNCHANGED <<keys, keysMade, printed, local, pc, exit, runs, faults>>

\* The command exits with 0 on these answers.
Answered(p, c, successes) ==
  /\ pc[p] = "trust" /\ command[p] = c
  /\ Root!Return(p)
  /\ Exit(p, IF answer[p] \in successes THEN 0 ELSE 1)
  /\ UNCHANGED <<keys, keysMade, printed, runs, faults>>

\* Mutant: a conflicting anchor is good enough.
handleTrustVerify_notAbsent(p) == Answered(p, "-trust-verify", {"healthy", "conflict"})

handleTrustInstall(p)  == Answered(p, "-trust-install", {"ok"})
handleTrustVerify(p)   == Answered(p, "-trust-verify", {"healthy"})
handleTrustRemove(p)   == Answered(p, "-trust-remove", {"ok"})
handleTrustIsSHA256(p) == Answered(p, "-trust-is", {"true"})

--------------------------------------------------------------------------
(* Around the invocations *)

\* An invocation is interrupted: no exit code, and the system closes what it
\* had open.
Interrupt(p) ==
  /\ pc[p] # "exited" /\ Fault /\ Exit(p, NoCode)
  /\ operation' = [operation EXCEPT ![p] = "none"] /\ argument' = [argument EXCEPT ![p] = Unreadable]
  /\ phase' = [phase EXCEPT ![p] = "idle"] /\ answer' = [answer EXCEPT ![p] = "none"]
  /\ UNCHANGED <<keys, keysMade, printed, runs, anchors>>

\* What has been true of the certificate since the call began.
Observe ==
  met' = [p \in Proc |->
            IF argument'[p] \notin Cert THEN {}
            ELSE met[p] \cup {IF argument'[p] \in anchors' THEN "present" ELSE "absent"}]

Invocation(p) ==
  \/ keyName(p) \/ handleCreate(p) \/ handleOpen(p) \/ handleDelete(p)
  \/ OpenToSign(p) \/ Sign(p) \/ handleSign(p)
  \/ readArgument(p) \/ StoreStep(p)
  \/ handleTrustInstall(p) \/ handleTrustVerify(p) \/ handleTrustRemove(p)
  \/ handleTrustIsSHA256(p)

Next == (\E p \in Proc : Invocation(p) \/ Interrupt(p)) /\ Observe

Spec == Init /\ [][Next]_vars

--------------------------------------------------------------------------
(* Properties *)

\* Every variable has its type.
TypeOK ==
  /\ keys \in [TestName \cup OtherName -> Nat] /\ keysMade \in Nat
  /\ printed \subseteq TestName
  /\ command \in [Proc -> KeyCommand \cup TrustCommand \cup {"none"}]
  /\ name \in [Proc -> TestName \cup {NoName}]
  /\ handle \in [Proc -> Nat] /\ signature \in [Proc -> Nat]
  /\ pc \in [Proc -> {"exited", "key", "sign", "verify", "trust"}]
  /\ exit \in [Proc -> {NoCode, 0, 1, 2}]
  /\ \A p \in Proc : pc[p] \in {"key", "sign", "verify"} => name[p] \in TestName
  /\ anchors \subseteq Cert /\ argument \in [Proc -> Cert \cup {Unreadable}]

\* "The name must stay in the test namespace": whatever name is asked for, no
\* key outside the namespace comes, goes or is replaced.
NamespaceOnly == [][\A n \in OtherName : keys'[n] = keys[n]]_vars

\* No key that an invocation created has a name nobody was told, even when it
\* was interrupted: every one of them can be deleted.
NoUnnamedKey == \A n \in TestName : keys[n] # NoKey => n \in printed

\* An exit code of 0 says what it is taken for, whatever other invocations do
\* meanwhile: a key was there and the principal may not use it; a principal
\* that may use the key has a valid signature of it; a certificate was in, or
\* had left, the Root store at some moment while the command ran.
VerdictsEarned ==
  [][\A p \in Proc : pc[p] # "exited" /\ pc'[p] = "exited" /\ exit'[p] = 0 =>
       CASE command[p] = "-create" -> keys'[name[p]] # NoKey
         [] command[p] = "-open"   -> keys[name[p]] # NoKey /\ ~MayUse(p)
         [] command[p] = "-sign"   -> signature[p] = handle[p] /\ handle[p] # NoKey /\ MayUse(p)
         [] command[p] = "-delete" -> keys'[name[p]] = NoKey
         [] command[p] = "-trust-remove" -> "absent" \in met[p]
         [] OTHER -> "present" \in met[p]]_vars
=============================================================================
