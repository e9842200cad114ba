------------------------- MODULE VerifyCommandProofs -------------------------
(***************************************************************************)
(* The verification command stays inside the test namespace, leaves no key *)
(* that cannot be found again and exits with 0 only when that is earned,   *)
(* for any number of shells and names; the argument of -trust-is is read   *)
(* as the fingerprint it spells, for any size of fingerprint.              *)
(***************************************************************************)
EXTENDS TrustIsArgument, FiniteSetTheorems, WellFoundedInduction, TLAPS

\* An invocation that works on a key has printed its name, and it is a test
\* name; this and the types of what the proofs look at make the rest hold.
Named ==
  /\ keys \in [TestName \cup OtherName -> Nat] /\ keysMade \in Nat
  /\ printed \subseteq TestName
  /\ pc \in [Proc -> {"exited", "key", "sign", "verify", "trust"}]
  /\ name \in [Proc -> TestName \cup {NoName}]
  /\ \A p \in Proc : pc[p] \in {"key", "sign", "verify"} => name[p] \in printed

Inv == Named /\ NoUnnamedKey

\* What one invocation does to the keys: it makes or deletes at most the one
\* it has named.
LEMMA KeysStep ==
  ASSUME Named, NEW p \in Proc, Invocation(p) \/ Interrupt(p)
  PROVE  \/ UNCHANGED <<keys, keysMade>>
         \/ /\ name[p] \in printed
            /\ \/ keys' = [keys EXCEPT ![name[p]] = keysMade + 1] /\ keysMade' = keysMade + 1
               \/ keys' = [keys EXCEPT ![name[p]] = NoKey] /\ UNCHANGED keysMade
<1>1. CASE handleCreate(p)
  BY <1>1 DEF handleCreate, Named
<1>2. CASE handleDelete(p)
  BY <1>2 DEF handleDelete, Named
<1>3. CASE ~handleCreate(p) /\ ~handleDelete(p)
  BY <1>3 DEF Invocation, Interrupt, keyName, handleOpen, OpenToSign, Sign, handleSign,
              readArgument, StoreStep, handleTrustInstall, handleTrustVerify,
              handleTrustRemove, handleTrustIsSHA256, Answered
<1> QED
  BY <1>1, <1>2, <1>3

\* A name is printed before the step that works on it, and is never forgotten.
LEMMA NamesStep ==
  ASSUME Named, NEW p \in Proc, Invocation(p) \/ Interrupt(p)
  PROVE  /\ printed \subseteq printed' /\ printed' \subseteq TestName
         /\ pc' \in [Proc -> {"exited", "key", "sign", "verify", "trust"}]
         /\ name' \in [Proc -> TestName \cup {NoName}]
         /\ \A q \in Proc : pc'[q] \in {"key", "sign", "verify"} => name'[q] \in printed'
<1> USE DEF Named
<1> DEFINE Goal == /\ printed \subseteq printed' /\ printed' \subseteq TestName
                   /\ pc' \in [Proc -> {"exited", "key", "sign", "verify", "trust"}]
                   /\ name' \in [Proc -> TestName \cup {NoName}]
                   /\ \A q \in Proc : pc'[q] \in {"key", "sign", "verify"}
                                      => name'[q] \in printed'
<1>1. ASSUME NEW code, Exit(p, code), UNCHANGED printed
      PROVE  Goal
  BY <1>1 DEF Exit
<1>2. ASSUME NEW step \in {"key", "sign", "verify", "trust"}, Goto(p, step),
             pc[p] \in {"key", "sign", "verify"}, UNCHANGED <<name, printed>>
      PROVE  Goal
  BY <1>2 DEF Goto
<1>3. ASSUME NEW c, NEW n \in TestName, Announce(n), Begin(p, c, n, "key")
      PROVE  Goal
  BY <1>3 DEF Announce, Begin
<1>4. ASSUME NEW c, Begin(p, c, NoName, "trust"), UNCHANGED printed
      PROVE  Goal
  BY <1>4 DEF Begin
<1> SUFFICES Goal
  OBVIOUS
<1>5. UNCHANGED <<pc, name, printed>> => Goal
  OBVIOUS
<1> HIDE DEF Goal, Named
<1>6. CASE keyName(p)
  BY <1>6, <1>1, <1>3 DEF keyName, HasPrefix, RandomName
<1>7. CASE handleCreate(p) \/ handleOpen(p) \/ handleDelete(p)
  BY <1>7, <1>1 DEF handleCreate, handleOpen, handleDelete
<1>8. CASE OpenToSign(p)
  BY <1>8, <1>1, <1>2 DEF OpenToSign
<1>9. CASE Sign(p)
  BY <1>9, <1>1, <1>2 DEF Sign, local
<1>10. CASE handleSign(p)
  BY <1>10, <1>1 DEF handleSign
<1>11. CASE readArgument(p)
  BY <1>11, <1>1, <1>4 DEF readArgument
<1>12. CASE StoreStep(p)
  BY <1>12, <1>5 DEF StoreStep, local
<1>13. CASE \/ handleTrustInstall(p) \/ handleTrustVerify(p) \/ handleTrustRemove(p)
            \/ handleTrustIsSHA256(p)
  BY <1>13, <1>1 DEF handleTrustInstall, handleTrustVerify, handleTrustRemove,
                     handleTrustIsSHA256, Answered
<1>14. CASE Interrupt(p)
  BY <1>14, <1>1 DEF Interrupt
<1> QED
  BY <1>6, <1>7, <1>8, <1>9, <1>10, <1>11, <1>12, <1>13, <1>14 DEF Invocation

LEMMA InvInit == Init => Inv
BY VerifyAssumption DEF Init, Inv, Named, NoUnnamedKey, NoKey

LEMMA InvStep == Inv /\ [Next]_vars => Inv'
<1> SUFFICES ASSUME Inv, [Next]_vars
             PROVE  Inv'
  OBVIOUS
<1>1. CASE UNCHANGED vars
  BY <1>1 DEF Inv, Named, NoUnnamedKey, vars, local
<1>2. ASSUME NEW p \in Proc, Invocation(p) \/ Interrupt(p)
      PROVE  Inv'
  <2>1. Named
    BY DEF Inv
  <2>2. Named'
    <3>1. keys' \in [TestName \cup OtherName -> Nat] /\ keysMade' \in Nat
      BY <1>2, <2>1, KeysStep DEF Named, NoKey
    <3> QED
      BY <1>2, <2>1, <3>1, NamesStep DEF Named
  <2>3. NoUnnamedKey'
    <3>1. printed \subseteq printed'
      BY <1>2, <2>1, NamesStep
    <3> QED
      BY <1>2, <2>1, <3>1, KeysStep DEF Inv, NoUnnamedKey, Named, NoKey
  <2> QED
    BY <2>2, <2>3 DEF Inv
<1> QED
  BY <1>1, <1>2 DEF Next

\* No test key that the command made has a name nobody was told.
THEOREM KeysNamed == Spec => []NoUnnamedKey
<1>1. Inv => NoUnnamedKey
  BY DEF Inv
<1> QED
  BY InvInit, InvStep, <1>1, PTL DEF Spec

\* No invocation touches a key outside the test namespace.
THEOREM StaysInNamespace == Spec => NamespaceOnly
<1>1. ASSUME Inv, [Next]_vars, NEW n \in OtherName
      PROVE  keys'[n] = keys[n]
  <2>1. CASE UNCHANGED vars
    BY <2>1 DEF vars
  <2>2. ASSUME NEW p \in Proc, Invocation(p) \/ Interrupt(p)
        PROVE  keys'[n] = keys[n]
    <3>1. Named /\ printed \subseteq TestName /\ n \notin TestName
      BY <1>1, VerifyAssumption DEF Inv, Named
    <3> QED
      BY <2>2, <3>1, KeysStep DEF Named
  <2> QED
    BY <1>1, <2>1, <2>2 DEF Next
<1>2. Inv /\ [Next]_vars => [\A n \in OtherName : keys'[n] = keys[n]]_vars
  BY <1>1
<1> QED
  BY InvInit, InvStep, <1>2, PTL DEF Spec, NamespaceOnly

--------------------------------------------------------------------------
(* The types, and what an exit code of 0 says *)

\* The types of what belongs to a process and to its call of the Root store.
LocalTypes ==
  /\ command \in [Proc -> KeyCommand \cup TrustCommand \cup {"none"}]
  /\ handle \in [Proc -> Nat] /\ signature \in [Proc -> Nat]
  /\ exit \in [Proc -> {NoCode, 0, 1, 2}]

TrustTypes ==
  /\ anchors \subseteq Cert /\ argument \in [Proc -> Cert \cup {Unreadable}]
  /\ operation \in [Proc -> Root!Operation \cup {"none"}]
  /\ phase \in [Proc -> {"idle", "called", "known", "done"}]
  /\ answer \in [Proc -> Root!Verdict \cup {"none"}]
  /\ met \in [Proc -> SUBSET {"present", "absent"}]

\* What the call of the Root store has answered was true at a moment of it.
Earned(p) ==
  /\ operation[p] = "InstallTrust" /\ answer[p] = "ok" => "present" \in met[p]
  /\ operation[p] = "RemoveTrust" /\ answer[p] = "ok" => "absent" \in met[p]
  /\ operation[p] = "VerifyTrust" /\ answer[p] = "healthy" => "present" \in met[p]
  /\ operation[p] = "IsTrustedSHA256" /\ answer[p] = "true" => "present" \in met[p]

\* An invocation of a trust command is in a call of the Root store of its own.
Trusting(p) ==
  /\ pc[p] = "trust" <=> phase[p] # "idle"
  /\ phase[p] \in {"idle", "called"} => answer[p] = "none"
  /\ pc[p] = "trust" => /\ command[p] \in TrustCommand
                        /\ operation[p] = Operation[command[p]]
                        /\ argument[p] \in Cert
  /\ Earned(p)

\* Whoever signs has opened a key that was there and may use it.
Signing(p) ==
  pc[p] \in {"sign", "verify"} => command[p] = "-sign" /\ handle[p] # NoKey /\ MayUse(p)

VerdictInv ==
  LocalTypes /\ TrustTypes /\ \A p \in Proc : Trusting(p) /\ Signing(p)

\* What a step of p leaves to the others.
Aside(p) ==
  \A q \in Proc \ {p} :
    /\ pc'[q] = pc[q] /\ command'[q] = command[q] /\ handle'[q] = handle[q]
    /\ operation'[q] = operation[q] /\ argument'[q] = argument[q]
    /\ phase'[q] = phase[q] /\ answer'[q] = answer[q]

LEMMA ExitStep ==
  ASSUME Named, LocalTypes, NEW p \in Proc, NEW code \in {NoCode, 0, 1, 2}, Exit(p, code)
  PROVE  /\ LocalTypes' /\ pc'[p] = "exited" /\ Signing(p)'
         /\ \A q \in Proc \ {p} : pc'[q] = pc[q] /\ command'[q] = command[q] /\ handle'[q] = handle[q]
BY DEF Named, LocalTypes, Exit, Signing, NoKey

LEMMA BeginStep ==
  ASSUME Named, LocalTypes, NEW p \in Proc, NEW c \in KeyCommand \cup TrustCommand, NEW n,
         NEW step \in {"key", "trust"}, Begin(p, c, n, step)
  PROVE  /\ LocalTypes' /\ pc'[p] = step /\ command'[p] = c /\ Signing(p)'
         /\ \A q \in Proc \ {p} : pc'[q] = pc[q] /\ command'[q] = command[q] /\ handle'[q] = handle[q]
BY DEF Named, LocalTypes, Begin, Signing

\* A step that works on a key.
KeyStep(p) ==
  \/ keyName(p) \/ handleCreate(p) \/ handleOpen(p) \/ handleDelete(p)
  \/ OpenToSign(p) \/ Sign(p) \/ handleSign(p)

LEMMA KeySteps ==
  ASSUME Named, LocalTypes, NEW p \in Proc, Signing(p), KeyStep(p)
  PROVE  /\ LocalTypes' /\ Signing(p)' /\ pc[p] # "trust" /\ pc'[p] # "trust" /\ UNCHANGED trust
         /\ \A q \in Proc \ {p} : pc'[q] = pc[q] /\ command'[q] = command[q] /\ handle'[q] = handle[q]
<1>1. pc[p] # "trust" /\ UNCHANGED trust
  BY DEF KeyStep, keyName, handleCreate, handleOpen, handleDelete, OpenToSign, Sign, handleSign
<1>2. CASE \E code \in {NoCode, 0, 1, 2} : Exit(p, code)
  BY <1>1, <1>2, ExitStep
<1>3. CASE keyName(p)
  <2>1. ASSUME NEW c \in KeyCommand, NEW n, Begin(p, c, n, "key") PROVE LocalTypes' /\ Signing(p)'
    BY <2>1, BeginStep
  <2> QED
    BY <1>1, <1>2, <1>3, BeginStep DEF keyName
<1>4. CASE handleCreate(p) \/ handleOpen(p) \/ handleDelete(p) \/ handleSign(p)
  BY <1>2, <1>4 DEF handleCreate, handleOpen, handleDelete, handleSign
<1>5. CASE OpenToSign(p)
  <2>1. PICK error \in Errors :
          /\ Opened(p, error)
          /\ IF error = "none"
             THEN /\ handle' = [handle EXCEPT ![p] = keys[name[p]]]
                  /\ Goto(p, "sign") /\ UNCHANGED <<command, name, signature>>
             ELSE Exit(p, 1)
    BY <1>5 DEF OpenToSign
  <2>2. CASE error = "none"
    <3>1. /\ handle' = [handle EXCEPT ![p] = keys[name[p]]]
          /\ Goto(p, "sign") /\ UNCHANGED <<command, name, signature>>
      BY <2>1, <2>2
    <3>2. name[p] \in TestName
      BY <1>5 DEF OpenToSign, Named
    <3>3. keys[name[p]] \in Nat
      BY <3>2 DEF Named
    <3>4. keys[name[p]] # NoKey /\ MayUse(p)
      BY <2>1, <2>2 DEF Opened, OpenError
    <3>5. command[p] = "-sign"
      BY <1>5 DEF OpenToSign
    <3> QED
      BY <1>1, <3>1, <3>3, <3>4, <3>5 DEF Named, LocalTypes, Goto, Signing
  <2> QED
    BY <1>2, <2>1, <2>2
<1>6. CASE Sign(p)
  <2>1. CASE Goto(p, "verify")
    <3>1. UNCHANGED <<command, handle>> /\ signature' \in [Proc -> Nat]
      BY <1>6, <2>1, <1>1 DEF Sign, Goto, local, LocalTypes, Exit, Named
    <3> QED
      BY <1>1, <1>6, <2>1, <3>1 DEF Sign, Named, LocalTypes, Goto, Signing
  <2> QED
    BY <1>2, <1>6, <2>1 DEF Sign
<1> QED
  BY <1>3, <1>4, <1>5, <1>6 DEF KeyStep

\* What has been met is remembered while the call is about its certificate.
LEMMA ObserveStep ==
  ASSUME TrustTypes, Observe
  PROVE  /\ met' \in [Proc -> SUBSET {"present", "absent"}]
         /\ \A p \in Proc : argument'[p] \in Cert =>
              /\ met[p] \subseteq met'[p]
              /\ argument'[p] \in anchors' => "present" \in met'[p]
              /\ argument'[p] \notin anchors' => "absent" \in met'[p]
BY DEF TrustTypes, Observe

LEMMA OthersEarn ==
  ASSUME TrustTypes, Observe, NEW p \in Proc, Aside(p), NEW q \in Proc \ {p},
         Trusting(q), Signing(q)
  PROVE  Trusting(q)' /\ Signing(q)'
<1>1. CASE pc[q] = "trust"
  <2>1. met[q] \subseteq met'[q]
    BY <1>1, ObserveStep DEF Aside, Trusting
  <2> QED
    BY <1>1, <2>1 DEF Aside, Trusting, Earned, Signing
<1>2. CASE pc[q] # "trust"
  BY <1>2 DEF Aside, Trusting, Earned, Signing
<1> QED
  BY <1>1, <1>2

\* No call, or one that has no answer, claims nothing.
LEMMA NoAnswer ==
  ASSUME NEW p \in Proc, answer[p] = "none"
  PROVE  Earned(p)
BY DEF Earned

\* The call of a trust command begins.
LEMMA CallSteps ==
  ASSUME Named, LocalTypes, TrustTypes, Observe, NEW p \in Proc, Trusting(p), readArgument(p)
  PROVE  LocalTypes' /\ TrustTypes' /\ Trusting(p)' /\ Signing(p)' /\ Aside(p)
<1> USE DEF Root!Operation, Root!Verdict, Root!Reading, Root!Removal
<1>1. PICK c \in TrustCommand :
        \/ /\ Root!Call(p)
           /\ operation'[p] = Operation[c] /\ argument'[p] \in Cert
           /\ Begin(p, c, NoName, "trust")
        \/ /\ \E code \in IF c = "-trust-is" THEN {2} ELSE {1, 2} : Exit(p, code)
           /\ UNCHANGED trust
  BY DEF readArgument
<1>2. met' \in [Proc -> SUBSET {"present", "absent"}]
  BY ObserveStep
<1>3. pc[p] = "exited" /\ phase[p] = "idle" /\ answer[p] = "none"
  BY DEF readArgument, Trusting, TrustTypes
<1>4. CASE /\ Root!Call(p)
           /\ operation'[p] = Operation[c] /\ argument'[p] \in Cert
           /\ Begin(p, c, NoName, "trust")
  <2>1. /\ LocalTypes' /\ Signing(p)' /\ pc'[p] = "trust" /\ command'[p] = c
        /\ \A q \in Proc \ {p} : pc'[q] = pc[q] /\ command'[q] = command[q] /\ handle'[q] = handle[q]
    BY <1>4, BeginStep
  <2>2. PICK o \in Root!Operation, a \in Cert \cup {Unreadable} :
          operation' = [operation EXCEPT ![p] = o] /\ argument' = [argument EXCEPT ![p] = a]
    BY <1>4 DEF Root!Call
  <2>3. phase' = [phase EXCEPT ![p] = "called"] /\ UNCHANGED <<anchors, answer>>
    BY <1>4 DEF Root!Call
  <2>4. TrustTypes'
    BY <1>2, <2>2, <2>3 DEF TrustTypes
  <2>5. Trusting(p)'
    BY <1>3, <1>4, <2>1, <2>3, NoAnswer DEF TrustTypes, Trusting, Earned
  <2>6. Aside(p)
    BY <2>1, <2>2, <2>3 DEF TrustTypes, Aside
  <2> QED
    BY <2>1, <2>4, <2>5, <2>6
<1>5. CASE /\ \E code \in IF c = "-trust-is" THEN {2} ELSE {1, 2} : Exit(p, code)
           /\ UNCHANGED trust
  <2>1. /\ LocalTypes' /\ Signing(p)' /\ pc'[p] = "exited"
        /\ \A q \in Proc \ {p} : pc'[q] = pc[q] /\ command'[q] = command[q] /\ handle'[q] = handle[q]
    BY <1>5, ExitStep
  <2>2. TrustTypes' /\ Trusting(p)' /\ Aside(p)
    BY <1>2, <1>3, <1>5, <2>1 DEF trust, TrustTypes, Trusting, Earned, Aside
  <2> QED
    BY <2>1, <2>2
<1> QED
  BY <1>1, <1>4, <1>5

\* An answer is what is true when the call looks, or makes its change.
LEMMA StoreSteps ==
  ASSUME Named, LocalTypes, TrustTypes, Observe, NEW p \in Proc, Trusting(p), StoreStep(p)
  PROVE  LocalTypes' /\ TrustTypes' /\ Trusting(p)' /\ Signing(p)' /\ Aside(p)
<1> USE DEF Root!Operation, Root!Verdict, Root!Reading, Root!Removal
<1>1. /\ pc[p] = "trust" /\ UNCHANGED <<pc, exit, command, name, handle, signature>>
      /\ Root!Know(p) \/ Root!Change(p) \/ Root!Lose(p)
  BY DEF StoreStep, local
<1>2. UNCHANGED <<operation, argument>>
  BY <1>1 DEF Root!Know, Root!Change, Root!Lose
<1>3. /\ operation[p] = Operation[command[p]] /\ command[p] \in TrustCommand
      /\ argument[p] \in Cert /\ argument'[p] \in Cert
  BY <1>1, <1>2 DEF Trusting
<1>4. /\ met' \in [Proc -> SUBSET {"present", "absent"}]
      /\ met[p] \subseteq met'[p]
      /\ argument'[p] \in anchors' => "present" \in met'[p]
      /\ argument'[p] \notin anchors' => "absent" \in met'[p]
  BY <1>3, ObserveStep
<1>5. LocalTypes' /\ Signing(p)'
  BY <1>1 DEF LocalTypes, Signing
<1>6. operation[p] \in {"InstallTrust", "RemoveTrust", "VerifyTrust", "IsTrustedSHA256"}
  BY <1>3 DEF Operation, TrustCommand
<1>7. CASE Root!Know(p)
  <2>1. PICK a \in Root!Verdict : /\ Root!Right(operation[p], argument[p], a)
                                  /\ answer' = [answer EXCEPT ![p] = a]
    BY <1>7 DEF Root!Know
  <2>2. phase' = [phase EXCEPT ![p] = "known"] /\ UNCHANGED anchors
    BY <1>7 DEF Root!Know
  <2>3. TrustTypes' /\ Aside(p)
    BY <1>1, <1>2, <1>4, <2>1, <2>2 DEF TrustTypes, Aside
  <2>4. answer'[p] = a /\ phase'[p] = "known"
    BY <2>1, <2>2 DEF TrustTypes
  <2>5. argument[p] \in anchors' => "present" \in met'[p]
    BY <1>2, <1>4
  <2>6. Earned(p)'
    <3>1. CASE operation[p] = "InstallTrust"
      BY <1>2, <2>1, <2>2, <2>4, <2>5, <3>1 DEF Root!Right, Earned
    <3>2. CASE operation[p] = "RemoveTrust"
      BY <1>2, <2>1, <2>4, <3>2 DEF Root!Right, Earned
    <3>3. CASE operation[p] = "VerifyTrust"
      BY <1>2, <2>1, <2>2, <2>4, <2>5, <3>3 DEF Root!Right, Root!Trust, Earned
    <3>4. CASE operation[p] = "IsTrustedSHA256"
      BY <1>2, <2>1, <2>2, <2>4, <2>5, <3>4 DEF Root!Right, Earned
    <3> QED
      BY <1>6, <3>1, <3>2, <3>3, <3>4
  <2>7. Trusting(p)'
    BY <1>1, <1>2, <1>3, <2>4, <2>6 DEF Trusting
  <2> QED
    BY <1>5, <2>3, <2>7
<1>8. CASE Root!Change(p)
  <2>1. /\ anchors' = IF operation[p] = "InstallTrust" THEN anchors \cup {argument[p]}
                                                       ELSE anchors \ {argument[p]}
        /\ operation[p] \notin {"VerifyTrust", "IsTrustedSHA256"}
        /\ phase' = [phase EXCEPT ![p] = "done"] /\ answer' = [answer EXCEPT ![p] = "ok"]
    BY <1>8 DEF Root!Change
  <2>2. TrustTypes' /\ Aside(p)
    BY <1>1, <1>2, <1>3, <1>4, <2>1 DEF TrustTypes, Aside
  <2>3. answer'[p] = "ok" /\ phase'[p] = "done"
    BY <2>1 DEF TrustTypes
  <2>4. Earned(p)'
    BY <1>2, <1>4, <2>1, <2>3 DEF Earned
  <2>5. Trusting(p)'
    BY <1>1, <1>2, <1>3, <2>3, <2>4 DEF Trusting
  <2> QED
    BY <1>5, <2>2, <2>5
<1>9. CASE Root!Lose(p)
  <2>1. phase[p] = "known" /\ answer' = [answer EXCEPT ![p] = "error"] /\ UNCHANGED <<anchors, phase>>
    BY <1>9 DEF Root!Lose
  <2>2. TrustTypes' /\ Aside(p)
    BY <1>1, <1>2, <1>4, <2>1 DEF TrustTypes, Aside
  <2>3. answer'[p] = "error"
    BY <2>1 DEF TrustTypes
  <2>4. Trusting(p)'
    BY <1>1, <1>2, <1>3, <2>1, <2>3 DEF Trusting, Earned
  <2> QED
    BY <1>5, <2>2, <2>4
<1> QED
  BY <1>1, <1>7, <1>8, <1>9

\* A call of the Root store ends with the invocation, if there is one.
LEMMA EndSteps ==
  ASSUME Named, LocalTypes, TrustTypes, Observe, NEW p \in Proc, Trusting(p),
         \/ handleTrustInstall(p) \/ handleTrustVerify(p) \/ handleTrustRemove(p)
         \/ handleTrustIsSHA256(p) \/ Interrupt(p)
  PROVE  LocalTypes' /\ TrustTypes' /\ Trusting(p)' /\ Signing(p)' /\ Aside(p)
<1>1. /\ operation' = [operation EXCEPT ![p] = "none"]
      /\ argument' = [argument EXCEPT ![p] = Unreadable]
      /\ phase' = [phase EXCEPT ![p] = "idle"] /\ answer' = [answer EXCEPT ![p] = "none"]
      /\ UNCHANGED anchors
  BY DEF handleTrustInstall, handleTrustVerify, handleTrustRemove, handleTrustIsSHA256, Answered,
         Root!Return, Interrupt
<1>2. PICK code \in {NoCode, 0, 1, 2} : Exit(p, code)
  BY DEF handleTrustInstall, handleTrustVerify, handleTrustRemove, handleTrustIsSHA256, Answered,
         Interrupt
<1>3. /\ LocalTypes' /\ Signing(p)' /\ pc'[p] = "exited"
      /\ \A q \in Proc \ {p} : pc'[q] = pc[q] /\ command'[q] = command[q] /\ handle'[q] = handle[q]
  BY <1>2, ExitStep
<1>4. TrustTypes' /\ Aside(p)
  BY <1>1, <1>3, ObserveStep DEF TrustTypes, Aside
<1>5. Trusting(p)'
  BY <1>1, <1>3 DEF TrustTypes, Trusting, Earned
<1> QED
  BY <1>3, <1>4, <1>5

LEMMA KeysLeaveTrust ==
  ASSUME Named, LocalTypes, TrustTypes, Observe, NEW p \in Proc, Trusting(p), Signing(p), KeyStep(p)
  PROVE  LocalTypes' /\ TrustTypes' /\ Trusting(p)' /\ Signing(p)' /\ Aside(p)
<1>1. /\ LocalTypes' /\ Signing(p)' /\ pc[p] # "trust" /\ pc'[p] # "trust" /\ UNCHANGED trust
      /\ \A q \in Proc \ {p} : pc'[q] = pc[q] /\ command'[q] = command[q] /\ handle'[q] = handle[q]
  BY KeySteps
<1> QED
  BY <1>1, ObserveStep DEF trust, TrustTypes, Trusting, Earned, Aside

LEMMA VerdictInit == Init => VerdictInv
BY DEF Init, VerdictInv, LocalTypes, TrustTypes, Trusting, Earned, Signing, Root!Init, NoKey

LEMMA VerdictStep == Inv /\ VerdictInv /\ [Next]_vars => VerdictInv'
<1> SUFFICES ASSUME Inv, VerdictInv, [Next]_vars PROVE VerdictInv'
  OBVIOUS
<1>1. CASE UNCHANGED vars
  BY <1>1 DEF vars, local, trust, VerdictInv, LocalTypes, TrustTypes, Trusting, Earned, Signing
<1>2. ASSUME NEW p \in Proc, Invocation(p) \/ Interrupt(p), Observe PROVE VerdictInv'
  <2>1. Named /\ LocalTypes /\ TrustTypes /\ \A q \in Proc : Trusting(q) /\ Signing(q)
    BY DEF Inv, VerdictInv
  <2>2. LocalTypes' /\ TrustTypes' /\ Trusting(p)' /\ Signing(p)' /\ Aside(p)
    BY <1>2, <2>1, KeysLeaveTrust, CallSteps, StoreSteps, EndSteps DEF Invocation, KeyStep
  <2>3. \A q \in Proc \ {p} : Trusting(q)' /\ Signing(q)'
    BY <1>2, <2>1, <2>2, OthersEarn
  <2> QED
    BY <2>2, <2>3 DEF VerdictInv
<1> QED
  BY <1>1, <1>2 DEF Next

LEMMA VerdictInvariant == Spec => [](Inv /\ VerdictInv)
BY InvInit, InvStep, VerdictInit, VerdictStep, PTL DEF Spec

\* Every variable has its type; an invocation works on a key under a test name.
THEOREM CommandTypes == Spec => []TypeOK
<1>1. Inv /\ VerdictInv => TypeOK
  BY DEF Inv, VerdictInv, Named, LocalTypes, TrustTypes, TypeOK
<1> QED
  BY <1>1, VerdictInvariant, PTL

\* An invocation that ends with 0 is one whose handler succeeded.
LEMMA Succeeds ==
  ASSUME Named, NEW p \in Proc, Invocation(p) \/ Interrupt(p),
         pc[p] # "exited", pc'[p] = "exited", exit'[p] = 0, exit \in [Proc -> {NoCode, 0, 1, 2}]
  PROVE  \/ handleCreate(p) \/ handleOpen(p) \/ handleDelete(p) \/ handleSign(p)
         \/ handleTrustInstall(p) \/ handleTrustVerify(p) \/ handleTrustRemove(p)
         \/ handleTrustIsSHA256(p)
<1>1. \A code : Exit(p, code) => exit'[p] = code
  BY DEF Exit
<1>2. \A step : Goto(p, step) => pc'[p] = step
  BY DEF Goto, Named
<1>3. ~Interrupt(p)
  BY <1>1 DEF Interrupt, NoCode
<1>4. ~keyName(p) /\ ~readArgument(p)
  BY DEF keyName, readArgument
<1>5. ~OpenToSign(p)
  BY <1>1, <1>2 DEF OpenToSign
<1>6. ~Sign(p)
  BY <1>1, <1>2 DEF Sign
<1>7. ~StoreStep(p)
  BY DEF StoreStep
<1> QED
  BY <1>3, <1>4, <1>5, <1>6, <1>7 DEF Invocation

\* An exit code of 0 is earned: the key or the certificate was as it says at
\* some moment while the command ran.
THEOREM ZeroIsEarned == Spec => VerdictsEarned
<1> DEFINE Right(p) ==
             CASE command[p] = "-create" -> keys'[name[p]] # NoKey
               [] command[p] = "-open"   -> keys[name[p]] # NoKey /\ ~MayUse(p)
               [] command[p] = "-sign"   -> signature[p] = handle[p] /\ handle[p] # NoKey /\ MayUse(p)
               [] command[p] = "-delete" -> keys'[name[p]] = NoKey
               [] command[p] = "-trust-remove" -> "absent" \in met[p]
               [] OTHER -> "present" \in met[p]
           Ends(p) == pc[p] # "exited" /\ pc'[p] = "exited" /\ exit'[p] = 0
<1>1. ASSUME Inv, VerdictInv, [Next]_vars, NEW p \in Proc, Ends(p) PROVE Right(p)
  <2>1. Named /\ LocalTypes /\ TrustTypes /\ Trusting(p) /\ Signing(p)
    BY <1>1 DEF Inv, VerdictInv
  <2>2. Invocation(p) \/ Interrupt(p)
    <3>1. PICK q \in Proc : (Invocation(q) \/ Interrupt(q)) /\ Observe
      BY <1>1 DEF Next, vars
    <3>2. Aside(q)
      BY <1>1, <2>1, <3>1, KeysLeaveTrust, CallSteps, StoreSteps, EndSteps
         DEF Invocation, KeyStep, VerdictInv
    <3> QED
      BY <1>1, <3>1, <3>2 DEF Aside
  <2>3. \A code : Exit(p, code) => code = 0
    BY <1>1, <2>1 DEF Exit, LocalTypes
  <2>4. \/ handleCreate(p) \/ handleOpen(p) \/ handleDelete(p) \/ handleSign(p)
        \/ handleTrustInstall(p) \/ handleTrustVerify(p) \/ handleTrustRemove(p)
        \/ handleTrustIsSHA256(p)
    BY <1>1, <2>1, <2>2, Succeeds DEF LocalTypes
  <2>5. CASE handleCreate(p)
    <3>1. name[p] \in TestName /\ keysMade \in Nat /\ command[p] = "-create"
      BY <2>1, <2>5 DEF handleCreate, Named
    <3>2. keys'[name[p]] # NoKey
      BY <2>1, <2>3, <2>5, <3>1 DEF handleCreate, Named, NoKey
    <3> QED
      BY <3>1, <3>2
  <2>6. CASE handleOpen(p)
    <3>1. PICK error \in Errors : Opened(p, error) /\ isAccessDenied(error)
      BY <2>3, <2>6 DEF handleOpen
    <3>2. keys[name[p]] # NoKey /\ ~MayUse(p) /\ command[p] = "-open"
      BY <2>6, <3>1 DEF handleOpen, Opened, OpenError, isAccessDenied
    <3> QED
      BY <3>2
  <2>7. CASE handleDelete(p)
    <3>1. keys' = [keys EXCEPT ![name[p]] = NoKey] /\ name[p] \in TestName
          /\ command[p] = "-delete"
      BY <2>1, <2>3, <2>7 DEF handleDelete, Named
    <3> QED
      BY <2>1, <3>1 DEF Named
  <2>8. CASE handleSign(p)
    BY <2>1, <2>3, <2>8 DEF handleSign, VerifyASN1, Signing
  <2>9. ASSUME NEW c, NEW successes, Answered(p, c, successes)
        PROVE  answer[p] \in successes /\ command[p] = c /\ operation[p] = Operation[c]
    BY <2>1, <2>3, <2>9 DEF Answered, Trusting
    <2>0. /\ Operation["-trust-install"] = "InstallTrust" /\ Operation["-trust-verify"] = "VerifyTrust"
        /\ Operation["-trust-remove"] = "RemoveTrust" /\ Operation["-trust-is"] = "IsTrustedSHA256"
    BY DEF Operation, TrustCommand
  <2>10. CASE handleTrustInstall(p)
    <3>1. operation[p] = "InstallTrust" /\ answer[p] = "ok" /\ command[p] = "-trust-install"
      <4>1. Answered(p, "-trust-install", {"ok"})
        BY <2>10 DEF handleTrustInstall
      <4> QED
        BY <2>0, <2>9, <4>1
    <3> QED
      BY <2>1, <3>1 DEF Trusting, Earned
  <2>11. CASE handleTrustVerify(p)
    <3>1. operation[p] = "VerifyTrust" /\ answer[p] = "healthy" /\ command[p] = "-trust-verify"
      <4>1. Answered(p, "-trust-verify", {"healthy"})
        BY <2>11 DEF handleTrustVerify
      <4> QED
        BY <2>0, <2>9, <4>1
    <3> QED
      BY <2>1, <3>1 DEF Trusting, Earned
  <2>12. CASE handleTrustRemove(p)
    <3>1. operation[p] = "RemoveTrust" /\ answer[p] = "ok" /\ command[p] = "-trust-remove"
      <4>1. Answered(p, "-trust-remove", {"ok"})
        BY <2>12 DEF handleTrustRemove
      <4> QED
        BY <2>0, <2>9, <4>1
    <3> QED
      BY <2>1, <3>1 DEF Trusting, Earned
  <2>13. CASE handleTrustIsSHA256(p)
    <3>1. operation[p] = "IsTrustedSHA256" /\ answer[p] = "true" /\ command[p] = "-trust-is"
      <4>1. Answered(p, "-trust-is", {"true"})
        BY <2>13 DEF handleTrustIsSHA256
      <4> QED
        BY <2>0, <2>9, <4>1
    <3> QED
      BY <2>1, <3>1 DEF Trusting, Earned
  <2> QED
    BY <2>4, <2>5, <2>6, <2>7, <2>8, <2>10, <2>11, <2>12, <2>13
<1>2. Inv /\ VerdictInv /\ [Next]_vars => [\A p \in Proc : Ends(p) => Right(p)]_vars
  BY <1>1
<1> QED
  BY <1>2, VerdictInvariant, PTL DEF Spec, VerdictsEarned

--------------------------------------------------------------------------
(* The argument of -trust-is *)

\* The command with its argument is the command: what holds of every
\* behaviour of the one holds of those of the other.
THEOREM TypedIsCommand == TypedSpec => Spec
<1>1. TypedInit => Init
  BY DEF TypedInit
<1>2. [TypedNext]_<<vars, arg>> => [Next]_vars
  <2>1. ASSUME NEW p \in Proc, RunTrustIs(p) PROVE Next
    BY <2>1 DEF RunTrustIs, Next, Invocation
  <2>2. Typing => UNCHANGED vars
    BY DEF Typing
  <2> QED
    BY <2>1, <2>2 DEF TypedNext
<1> QED
  BY <1>1, <1>2, PTL DEF TypedSpec, Spec
--------------------------------------------------------------------------
(* What the parsers read *)

\* A set of natural numbers has a least element, and a greatest if it is
\* bounded.
LEMMA Extremes ==
  ASSUME NEW n \in Nat, NEW S \in SUBSET (1..n), S # {}
  PROVE  /\ Min(S) \in S /\ \A x \in S : Min(S) <= x
         /\ Max(S) \in S /\ \A x \in S : x <= Max(S)
<1>1. ASSUME NEW T \in SUBSET Nat, T # {}
      PROVE  \E x \in T : \A y \in T : x <= y
  <2>1. PICK x \in T : \A y \in T : ~(<<y, x>> \in OpToRel(<, Nat))
    BY <1>1, NatLessThanWellFounded, WFMin
  <2>2. \A y \in T : ~(y < x)
    BY <2>1 DEF OpToRel
  <2> QED
    BY <2>2
<1>2. \E x \in S : \A y \in S : x <= y
  BY <1>1
<1>3. \E x \in S : \A y \in S : y <= x
  <2> DEFINE T == {n - x : x \in S}
  <2>1. \A x \in S : n - x \in Nat
    OBVIOUS
  <2>0. T \in SUBSET Nat /\ T # {}
    BY <2>1
  <2>2. PICK t \in T : \A u \in T : t <= u
    BY <1>1, <2>0
  <2>3. PICK x \in S : t = n - x
    OBVIOUS
  <2>4. \A y \in S : n - x <= n - y
    BY <2>2, <2>3
  <2>5. \A y \in S : y <= x
    BY <2>4
  <2> QED
    BY <2>5
<1> QED
  BY <1>2, <1>3 DEF Min, Max

\* What is left of an argument without the space around it.
LEMMA Trimmed ==
  ASSUME NEW s \in Seq(Char), NEW ink, ink = {i \in DOMAIN s : s[i] \notin Space}
  PROVE  /\ ink = {} => TrimSpace(s) = << >>
         /\ ink # {} =>
              /\ Min(ink) \in DOMAIN s /\ Max(ink) \in DOMAIN s /\ Min(ink) <= Max(ink)
              /\ \A i \in DOMAIN s : i \notin Min(ink)..Max(ink) => s[i] \in Space
              /\ TrimSpace(s) \in Seq(Char) /\ Len(TrimSpace(s)) = Max(ink) - Min(ink) + 1
              /\ \A j \in 1..(Max(ink) - Min(ink) + 1) : TrimSpace(s)[j] = s[Min(ink) + j - 1]
<1>1. CASE ink = {}
  BY <1>1 DEF TrimSpace
<1>2. CASE ink # {}
  <2>0. Len(s) \in Nat /\ ink \in SUBSET (1..Len(s))
    OBVIOUS
  <2>1. /\ Min(ink) \in ink /\ Max(ink) \in ink
        /\ \A x \in ink : Min(ink) <= x /\ x <= Max(ink)
    BY <1>2, <2>0, Extremes
  <2>2. TrimSpace(s) = SubSeq(s, Min(ink), Max(ink))
    BY <1>2 DEF TrimSpace
  <2>3. Min(ink) \in 1..Len(s) /\ Max(ink) \in 1..Len(s) /\ Min(ink) <= Max(ink)
    BY <2>1
  <2>4. \A i \in DOMAIN s : i \notin Min(ink)..Max(ink) => s[i] \in Space
    BY <2>1, <2>3
  <2> DEFINE i == Min(ink)
             j == Max(ink)
  <2>5. i \in 1..Len(s) /\ j \in 1..Len(s) /\ i <= j /\ TrimSpace(s) = SubSeq(s, i, j)
    BY <2>2, <2>3
  <2> HIDE DEF i, j
  <2>6. /\ TrimSpace(s) \in Seq(Char) /\ Len(TrimSpace(s)) = j - i + 1
        /\ \A k \in 1..(j - i + 1) : TrimSpace(s)[k] = s[i + k - 1]
    BY <2>5
  <2> QED
    BY <1>2, <2>3, <2>4, <2>6 DEF i, j
<1> QED
  BY <1>1, <1>2

\* Hex digits are characters of one byte.
LEMMA DigitsAreBytes ==
  ASSUME NEW s \in Seq(Char), isHex(s)
  PROVE  len(s) = Len(s)
<1>1. {i \in DOMAIN s : s[i] \in Wide} = {}
  BY CharAssumption DEF isHex
<1>2. Cardinality({}) = 0 /\ Len(s) \in Nat
  BY FS_EmptySet
<1>3. Cardinality({i \in DOMAIN s : s[i] \in Wide}) = 0
  BY <1>1, <1>2
<1>4. len(s) = Len(s) + 0
  BY <1>3 DEF len
<1> QED
  BY <1>2, <1>4

\* Two digits make a byte, and are the digits of that byte.
LEMMA DigitsOfByte ==
  ASSUME NEW h \in 0..15, NEW l \in 0..15
  PROVE  /\ 16 * h + l \in 0..255
         /\ (16 * h + l) \div 16 = h /\ (16 * h + l) % 16 = l
OBVIOUS

LEMMA Decoded ==
  ASSUME NEW s \in Seq(Char), isHex(s), Len(s) = 2 * Size,
         NEW fp, fp = fingerprint(DecodeString(s))
  PROVE  /\ fp \in [1..Size -> 0..255]
         /\ \A j \in 1..(2 * Size) : hex[s[j]] = Digits(fp)[j]
<1>1. \A j \in 1..(2 * Size) : hex[s[j]] \in 0..15
  BY CharAssumption DEF isHex
<1>2. Size \in Nat /\ (2 * Size) \div 2 = Size
  BY CharAssumption
<1>3. \A i \in 1..Size : fp[i] = 16 * hex[s[2 * i - 1]] + hex[s[2 * i]]
  BY <1>2 DEF fingerprint, DecodeString
<1>4. \A i \in 1..Size : /\ fp[i] \in 0..255
                         /\ fp[i] \div 16 = hex[s[2 * i - 1]] /\ fp[i] % 16 = hex[s[2 * i]]
  <2> TAKE i \in 1..Size
  <2>1. 2 * i - 1 \in 1..(2 * Size) /\ 2 * i \in 1..(2 * Size)
    BY <1>2
  <2>2. hex[s[2 * i - 1]] \in 0..15 /\ hex[s[2 * i]] \in 0..15
    BY <1>1, <2>1
  <2> DEFINE h == hex[s[2 * i - 1]]
             l == hex[s[2 * i]]
  <2>3. fp[i] = 16 * h + l
    BY <1>3
  <2> HIDE DEF h, l
  <2>4. 16 * h + l \in 0..255 /\ (16 * h + l) \div 16 = h /\ (16 * h + l) % 16 = l
    BY <2>2, DigitsOfByte DEF h, l
  <2> QED
    BY <2>3, <2>4 DEF h, l
<1>5. fp = [i \in 1..Size |-> fp[i]]
  BY DEF fingerprint
<1>6. ASSUME NEW j \in 1..(2 * Size) PROVE hex[s[j]] = Digits(fp)[j]
  <2>1. CASE j % 2 = 1
    <3>1. (j + 1) \div 2 \in 1..Size /\ 2 * ((j + 1) \div 2) - 1 = j
      BY <1>2, <2>1
    <3> QED
      BY <1>4, <2>1, <3>1 DEF Digits
  <2>2. CASE j % 2 # 1
    <3>1. j \div 2 \in 1..Size /\ 2 * (j \div 2) = j
      BY <1>2, <2>2
    <3> QED
      BY <1>4, <2>2, <3>1 DEF Digits
  <2> QED
    BY <2>1, <2>2
<1> QED
  BY <1>4, <1>5, <1>6

\* What the package accepts.
LEMMA Accepted ==
  LET s == TrimSpace(arg)
      fp == ParseSHA256Fingerprint(arg)
  IN  /\ fp # Error <=> len(s) = 2 * Size /\ isHex(s)
      /\ fp # Error => fp = fingerprint(DecodeString(s))
<1> DEFINE s == TrimSpace(arg)
           fp == ParseSHA256Fingerprint(arg)
<1>1. fingerprint(DecodeString(s)) # Error
  <2>1. DOMAIN fingerprint(DecodeString(s)) = 1..Size
    BY DEF fingerprint
  <2>2. 1 \in 1..Size /\ DOMAIN << >> = {}
    BY CharAssumption
  <2> QED
    BY <2>1, <2>2 DEF Error
<1> QED
  BY <1>1 DEF ParseSHA256Fingerprint

\* Digits that stand somewhere are what TrimSpace leaves.
LEMMA SpelledIsAccepted ==
  ASSUME arg \in Seq(Char), NEW i \in DOMAIN arg, SpelledAt(i)
  PROVE  len(TrimSpace(arg)) = 2 * Size /\ isHex(TrimSpace(arg))
<1> DEFINE ink == {k \in DOMAIN arg : arg[k] \notin Space}
           last == i + 2 * Size - 1
<1>1. Size \in Nat /\ Size >= 1 /\ i \in Nat /\ i >= 1 /\ Len(arg) \in Nat /\ DOMAIN arg = 1..Len(arg)
  BY CharAssumption
<1>2. \A k \in i..last : k \in DOMAIN arg /\ arg[k] \in DOMAIN hex
  <2> TAKE k \in i..last
  <2>1. k - i + 1 \in 1..(2 * Size) /\ i + (k - i + 1) - 1 = k
    BY <1>1
  <2> QED
    BY <2>1 DEF SpelledAt
<1>3. \A k \in DOMAIN arg : k \in ink <=> k \in i..last
  BY <1>2, CharAssumption DEF SpelledAt
<1>4. i \in ink /\ last \in ink /\ ink \in SUBSET (1..Len(arg))
  BY <1>1, <1>2, <1>3
<1>5. Min(ink) = i /\ Max(ink) = last
  <2>1. /\ Min(ink) \in ink /\ \A x \in ink : Min(ink) <= x
        /\ Max(ink) \in ink /\ \A x \in ink : x <= Max(ink)
    <3> HIDE DEF ink
    <3> QED
      BY <1>1, <1>4, Extremes
  <2>2. Min(ink) \in i..last /\ Max(ink) \in i..last
    BY <1>3, <2>1
  <2>3. Min(ink) <= i /\ last <= Max(ink)
    BY <1>4, <2>1
  <2> HIDE DEF ink
  <2> QED
    BY <1>1, <2>2, <2>3
<1>6. /\ TrimSpace(arg) \in Seq(Char) /\ Len(TrimSpace(arg)) = last - i + 1
      /\ \A j \in 1..(last - i + 1) : TrimSpace(arg)[j] = arg[i + j - 1]
  <2>1. ink # {} /\ ink = {k \in DOMAIN arg : arg[k] \notin Space}
    BY <1>4
  <2> HIDE DEF ink, last
  <2>2. /\ TrimSpace(arg) \in Seq(Char) /\ Len(TrimSpace(arg)) = Max(ink) - Min(ink) + 1
        /\ \A j \in 1..(Max(ink) - Min(ink) + 1) : TrimSpace(arg)[j] = arg[Min(ink) + j - 1]
    BY <2>1, Trimmed
  <2> QED
    BY <1>5, <2>2
<1>7. last - i + 1 = 2 * Size
  BY <1>1
<1>8. isHex(TrimSpace(arg))
  BY <1>6, <1>7 DEF isHex, SpelledAt
<1> QED
  BY <1>6, <1>7, <1>8, DigitsAreBytes

\* What TrimSpace leaves stands somewhere.
LEMMA AcceptedIsSpelled ==
  ASSUME arg \in Seq(Char), len(TrimSpace(arg)) = 2 * Size, isHex(TrimSpace(arg))
  PROVE  /\ TrimSpace(arg) \in Seq(Char) /\ Len(TrimSpace(arg)) = 2 * Size
         /\ \E i \in DOMAIN arg : /\ SpelledAt(i)
                                  /\ \A j \in 1..(2 * Size) : TrimSpace(arg)[j] = arg[i + j - 1]
<1> DEFINE ink == {k \in DOMAIN arg : arg[k] \notin Space}
           s   == TrimSpace(arg)
<1>1. Size \in Nat /\ Size >= 1 /\ Len(arg) \in Nat /\ DOMAIN arg = 1..Len(arg)
  BY CharAssumption
<1>2. ink # {}
  <2> SUFFICES ASSUME ink = {} PROVE FALSE
    OBVIOUS
  <2>1. s = << >>
    BY Trimmed
  <2>2. << >> \in Seq(Char) /\ Len(<< >>) = 0
    OBVIOUS
  <2>3. len(s) = 0
    BY <2>1, <2>2, DigitsAreBytes
  <2> QED
    BY <1>1, <2>3
<1> DEFINE first == Min(ink)
           last  == Max(ink)
<1>3. /\ first \in DOMAIN arg /\ last \in DOMAIN arg
      /\ \A k \in DOMAIN arg : k \notin first..last => arg[k] \in Space
      /\ s \in Seq(Char) /\ Len(s) = last - first + 1
      /\ \A j \in 1..(last - first + 1) : s[j] = arg[first + j - 1]
  BY <1>2, Trimmed
<1> HIDE DEF ink, s, first, last
<1>4. Len(s) = 2 * Size
  BY <1>3, DigitsAreBytes DEF s
<1>5. first \in Nat /\ last \in Nat /\ last = first + 2 * Size - 1 /\ last <= Len(arg) /\ first >= 1
  BY <1>1, <1>3, <1>4
<1>6. \A j \in 1..(2 * Size) : first + j - 1 \in DOMAIN arg /\ s[j] = arg[first + j - 1]
  BY <1>1, <1>3, <1>5
<1>7. \A j \in 1..(2 * Size) : s[j] \in DOMAIN hex
  BY <1>3, <1>4 DEF isHex, s
<1>8. SpelledAt(first)
  BY <1>3, <1>5, <1>6, <1>7 DEF SpelledAt
<1> QED
  BY <1>3, <1>4, <1>6, <1>8 DEF s

LEMMA Reads == arg \in Seq(Char) => Means(ParseSHA256Fingerprint(arg))
<1> SUFFICES ASSUME arg \in Seq(Char) PROVE Means(ParseSHA256Fingerprint(arg))
  OBVIOUS
<1> DEFINE s == TrimSpace(arg)
           fp == ParseSHA256Fingerprint(arg)
<1>1. fp # Error <=> \E i \in DOMAIN arg : SpelledAt(i)
  BY Accepted, SpelledIsAccepted, AcceptedIsSpelled
<1>2. ASSUME fp # Error
      PROVE  /\ fp \in [1..Size -> 0..255]
             /\ \E i \in DOMAIN arg :
                  SpelledAt(i) /\ \A j \in 1..(2 * Size) : hex[arg[i + j - 1]] = Digits(fp)[j]
  <2>1. isHex(s) /\ len(s) = 2 * Size /\ fp = fingerprint(DecodeString(s))
    BY <1>2, Accepted
  <2>2. PICK i \in DOMAIN arg : /\ SpelledAt(i)
                                /\ \A j \in 1..(2 * Size) : s[j] = arg[i + j - 1]
    BY <2>1, AcceptedIsSpelled
  <2>3. s \in Seq(Char) /\ Len(s) = 2 * Size
    BY <2>1, AcceptedIsSpelled
  <2>4. /\ fp \in [1..Size -> 0..255]
        /\ \A j \in 1..(2 * Size) : hex[s[j]] = Digits(fp)[j]
    <3> HIDE DEF s, fp
    <3> QED
      BY <2>1, <2>3, Decoded
  <2> QED
    BY <2>2, <2>4
<1> HIDE DEF fp
<1> QED
  BY <1>1, <1>2 DEF Means, fp

\* The argument is a string of characters.
Typed == arg \in Seq(Char)

LEMMA ArgumentTypes == TypedSpec => []Typed
<1>1. TypedInit => Typed
  BY DEF TypedInit, Typed
<1>2. ASSUME Typed, [TypedNext]_<<vars, arg>> PROVE Typed'
  <2>1. CASE Type
    BY <1>2, <2>1 DEF Type, Typed
  <2>2. CASE arg' = << >>
    BY <2>2 DEF Typed
  <2>3. CASE UNCHANGED arg
    BY <1>2, <2>3 DEF Typed
  <2> QED
    BY <1>2, <2>1, <2>2, <2>3 DEF TypedNext, Typing, RunTrustIs
<1> QED
  BY <1>1, <1>2, PTL DEF TypedSpec

\* An argument of any length and any characters is accepted, by the package and
\* by the command, exactly when it spells a fingerprint, and for that one.
THEOREM FingerprintIsRead == TypedSpec => []ReadsTheFingerprint
<1>1. trustIsFingerprint(arg) = ParseSHA256Fingerprint(arg)
  BY DEF trustIsFingerprint, ParseSHA256Fingerprint
<1>2. Typed => ReadsTheFingerprint
  BY <1>1, Reads DEF Typed, ReadsTheFingerprint
<1> QED
  BY <1>2, ArgumentTypes, PTL
=============================================================================
