-------------------------- MODULE TrustStoreProofs --------------------------
(***************************************************************************)
(* windowsTrustStore owns its contexts and implements the TrustStore       *)
(* interface, for any number of callers, certificates and failures.        *)
(***************************************************************************)
EXTENDS TrustStoreWindows, TLAPS

\* Which handles and contexts an operation holds at each step.
HoldsStore(p) ==
  /\ store[p] = (IF "store" \in deferred[p] THEN 1 ELSE 0)
  /\ pc[p] \in {"idle", "open"} => deferred[p] = {}
  /\ Searching(p) => "store" \in deferred[p]

HoldsCertCtx(p) ==
  /\ certCtx[p] = (IF "certCtx" \in deferred[p] THEN 1 ELSE 0)
  /\ pc[p] = "create" => "certCtx" \notin deferred[p]
  /\ pc[p] = "search" => ("certCtx" \in deferred[p] <=> op[p] = "VerifyTrust")

HoldsExisting(p) ==
  /\ existing[p] \in {0, 1}
  /\ existing[p] = 1 <=> pc[p] = "delete" \/ (pc[p] = "search" /\ todo[p] # view[p])

Holding(p) == HoldsStore(p) /\ HoldsCertCtx(p) /\ HoldsExisting(p)

\* What an operation knows of its certificate at each step.
Knowing(p) ==
  /\ pc[p] # "idle" => op[p] \in Operation
  /\ pc[p] = "idle" => cert[p] = EmptyDER /\ op[p] = "none"
  /\ Searching(p) => cert[p] \in Cert
  /\ todo[p] \subseteq view[p]
  /\ pc[p] = "search" /\ cert[p] \in view[p] => cert[p] \in todo[p]
  /\ pc[p] = "create" => \/ todo[p] = {} /\ op[p] = "InstallTrust"
                         \/ todo[p] = view[p] /\ op[p] = "VerifyTrust"
  /\ pc[p] = "create" /\ op[p] = "InstallTrust" => cert[p] \notin view[p]
  /\ pc[p] = "add" => op[p] = "InstallTrust" /\ cert[p] \notin view[p]
  /\ pc[p] = "delete" => op[p] \in Removal /\ cert[p] \in view[p]
  /\ pc[p] = "conflict" => op[p] = "VerifyTrust" /\ cert[p] \notin view[p]
  /\ pc[p] # "close" <=> answer[p] = "none"

StoreInv == TypeOK /\ \A p \in Proc : Holding(p) /\ Knowing(p)

USE DEF Reading, Removal, Operation, Verdict, Searching

LEMMA InitStore == Init => StoreInv
BY DEF Init, StoreInv, TypeOK, Holding, HoldsStore, HoldsCertCtx, HoldsExisting, Knowing

\* The step of one operation leaves the others where they are.
Others(p) ==
  \A q \in Proc \ {p} :
    /\ op'[q] = op[q] /\ cert'[q] = cert[q] /\ view'[q] = view[q] /\ pc'[q] = pc[q]
    /\ todo'[q] = todo[q] /\ deferred'[q] = deferred[q] /\ answer'[q] = answer[q]
    /\ store'[q] = store[q] /\ existing'[q] = existing[q] /\ certCtx'[q] = certCtx[q]

LEMMA OthersStay ==
  ASSUME StoreInv, NEW p \in Proc,
         Call(p) \/ Open(p) \/ CreateContext(p) \/ Search(p) \/ Add(p)
         \/ Delete(p) \/ FindConflict(p) \/ Close(p)
  PROVE  Others(p)
<1> USE DEF StoreInv, TypeOK, Others, locals, refs, Goto, Answer, Defer
<1>1. CASE Call(p)
  BY <1>1 DEF Call
<1>2. CASE Open(p)
  BY <1>2 DEF Open
<1>3. CASE CreateContext(p)
  BY <1>3 DEF CreateContext
<1>4. CASE Add(p)
  BY <1>4 DEF Add
<1>5. CASE Delete(p)
  BY <1>5 DEF Delete
<1>6. CASE FindConflict(p)
  BY <1>6 DEF FindConflict
<1>7. CASE Close(p)
  BY <1>7 DEF Close
<1>8. CASE Search(p)
  <2>1. ASSUME NEW c \in todo[p], NextCertificate(p, c) PROVE Others(p)
    BY <1>8, <2>1 DEF Search, NextCertificate, Found
  <2>2. CASE NotFound(p)
    BY <1>8, <2>2 DEF Search, NotFound
  <2>3. CASE Answer(p, "error") /\ UNCHANGED todo /\ existing' = [existing EXCEPT ![p] = @ - Previous(p)]
    BY <1>8, <2>3 DEF Search
  <2> QED
    BY <1>8, <2>1, <2>2, <2>3 DEF Search
<1> QED
  BY <1>1, <1>2, <1>3, <1>4, <1>5, <1>6, <1>7, <1>8

LEMMA OneSteps ==
  ASSUME StoreInv, NEW p \in Proc, Others(p), TypeOK', Holding(p)', Knowing(p)'
  PROVE  StoreInv'
<1>1. ASSUME NEW q \in Proc, q # p PROVE Holding(q)' /\ Knowing(q)'
  <2>1. Holding(q) /\ Knowing(q)
    BY DEF StoreInv
  <2>2. Holding(q)'
    BY <1>1, <2>1 DEF Others, Holding, HoldsStore, HoldsCertCtx, HoldsExisting
  <2>3. Knowing(q)'
    BY <1>1, <2>1 DEF Others, Knowing
  <2> QED
    BY <2>2, <2>3
<1> QED
  BY <1>1 DEF StoreInv

LEMMA StepOfSearch ==
  ASSUME StoreInv, NEW p \in Proc, Search(p)
  PROVE  StoreInv'
<1> USE DEF StoreInv, locals
<1>1. pc[p] = "search" /\ Holding(p) /\ Knowing(p) /\ TypeOK
      /\ UNCHANGED <<anchors, locals, store, certCtx, deferred>>
  BY DEF Search
<1>2. Others(p)
  BY OthersStay
<1>3. existing[p] - Previous(p) = 0 /\ \A n \in {0, 1} : existing[p] - Previous(p) + n = n
  <2>1. Previous(p) = existing[p] /\ existing[p] \in {0, 1}
    BY <1>1 DEF Holding, HoldsExisting, Previous
  <2> QED
    BY <2>1
<1>4. ASSUME NEW c \in todo[p], NextCertificate(p, c), UNCHANGED faults
      PROVE  StoreInv'
  <2>1. CASE c # cert[p]
    <3>1. /\ todo' = [todo EXCEPT ![p] = @ \ {c}] /\ todo'[p] # view[p]
          /\ pc' = [pc EXCEPT ![p] = "search"]
          /\ UNCHANGED answer
      BY <1>1, <1>4, <2>1 DEF NextCertificate, Goto, Knowing, TypeOK
    <3>2. existing' = [existing EXCEPT ![p] = 1]
      <4>1. existing' = [existing EXCEPT ![p] = existing[p] - Previous(p) + 1]
        BY <1>4, <2>1 DEF NextCertificate
      <4> QED
        BY <1>3, <4>1
    <3>3. TypeOK'
      BY <1>1, <1>4, <3>1, <3>2 DEF TypeOK
    <3>4. HoldsStore(p)' /\ HoldsCertCtx(p)'
      BY <1>1, <3>1 DEF TypeOK, Holding, HoldsStore, HoldsCertCtx
    <3>5. HoldsExisting(p)'
      BY <1>1, <3>1, <3>2 DEF TypeOK, HoldsExisting
    <3>6. Knowing(p)'
      BY <1>1, <2>1, <3>1 DEF TypeOK, Knowing
    <3> QED
      BY <1>2, <3>3, <3>4, <3>5, <3>6, OneSteps DEF Holding
  <2>2. CASE c = cert[p] /\ op[p] \in Removal
    <3>1. /\ todo' = [todo EXCEPT ![p] = @ \ {c}]
          /\ pc' = [pc EXCEPT ![p] = "delete"]
          /\ UNCHANGED answer
      BY <1>1, <1>4, <2>2 DEF NextCertificate, Found, Goto
    <3>2. existing' = [existing EXCEPT ![p] = 1]
      <4>1. existing' = [existing EXCEPT ![p] = existing[p] - Previous(p) + 1]
        BY <1>4, <2>2 DEF NextCertificate
      <4> QED
        BY <1>3, <4>1
    <3>3. TypeOK'
      BY <1>1, <1>4, <3>1, <3>2 DEF TypeOK
    <3>4. HoldsStore(p)' /\ HoldsCertCtx(p)'
      BY <1>1, <3>1 DEF TypeOK, Holding, HoldsStore, HoldsCertCtx
    <3>5. HoldsExisting(p)'
      BY <1>1, <3>1, <3>2 DEF TypeOK, HoldsExisting
    <3>6. Knowing(p)'
      BY <1>1, <2>2, <3>1 DEF TypeOK, Knowing
    <3> QED
      BY <1>2, <3>3, <3>4, <3>5, <3>6, OneSteps DEF Holding
  <2>3. CASE c = cert[p] /\ op[p] \notin Removal
    <3>1. /\ todo' = [todo EXCEPT ![p] = @ \ {c}]
          /\ pc' = [pc EXCEPT ![p] = "close"]
          /\ \E a \in {"ok", "healthy", "true"} : answer' = [answer EXCEPT ![p] = a]
      BY <1>1, <1>4, <2>3 DEF NextCertificate, Found, Answer
    <3>2. existing' = [existing EXCEPT ![p] = 0]
      <4>1. existing' = [existing EXCEPT ![p] = existing[p] - Previous(p) + 0]
        BY <1>4, <2>3 DEF NextCertificate
      <4> QED
        BY <1>3, <4>1
    <3>3. TypeOK'
      BY <1>1, <1>4, <3>1, <3>2 DEF TypeOK
    <3>4. HoldsStore(p)' /\ HoldsCertCtx(p)'
      BY <1>1, <3>1 DEF TypeOK, Holding, HoldsStore, HoldsCertCtx
    <3>5. HoldsExisting(p)'
      BY <1>1, <3>1, <3>2 DEF TypeOK, HoldsExisting
    <3>6. Knowing(p)'
      BY <1>1, <2>3, <3>1 DEF TypeOK, Knowing
    <3> QED
      BY <1>2, <3>3, <3>4, <3>5, <3>6, OneSteps DEF Holding
  <2> QED
    BY <2>1, <2>2, <2>3
<1>5. ASSUME todo[p] = {}, NotFound(p), UNCHANGED faults
      PROVE  StoreInv'
  <2>1. existing' = [existing EXCEPT ![p] = 0]
    <3>1. existing' = [existing EXCEPT ![p] = existing[p] - Previous(p)]
      BY <1>5 DEF NotFound
    <3> QED
      BY <1>3, <3>1
  <2>2. /\ UNCHANGED todo
        /\ \/ op[p] = "InstallTrust" /\ pc' = [pc EXCEPT ![p] = "create"] /\ UNCHANGED answer
           \/ op[p] = "VerifyTrust" /\ pc' = [pc EXCEPT ![p] = "conflict"] /\ UNCHANGED answer
           \/ /\ pc' = [pc EXCEPT ![p] = "close"]
              /\ \E a \in {"notFound", "false"} : answer' = [answer EXCEPT ![p] = a]
    BY <1>5 DEF NotFound, Goto, Answer
  <2>3. TypeOK'
    BY <1>1, <1>5, <2>1, <2>2 DEF TypeOK
  <2>4. HoldsStore(p)'
    BY <1>1, <2>2 DEF TypeOK, Holding, HoldsStore
  <2>5. HoldsCertCtx(p)'
    BY <1>1, <2>2 DEF TypeOK, Holding, HoldsCertCtx
  <2>6. HoldsExisting(p)'
    BY <1>1, <2>1, <2>2 DEF TypeOK, HoldsExisting
  <2>7. Knowing(p)'
    <3>1. cert[p] \notin view[p] /\ UNCHANGED <<op, cert, view>>
      BY <1>1, <1>5 DEF Knowing
    <3>2. CASE op[p] = "InstallTrust" /\ pc' = [pc EXCEPT ![p] = "create"] /\ UNCHANGED answer
      <4>1. pc'[p] = "create" /\ todo'[p] = {} /\ op'[p] = "InstallTrust"
            /\ cert'[p] \notin view'[p] /\ answer'[p] = "none"
        BY <1>1, <1>5, <2>2, <3>1, <3>2 DEF TypeOK, Knowing
      <4>2. cert'[p] \in Cert
        BY <1>1, <3>1 DEF Knowing
      <4> QED
        BY <4>1, <4>2 DEF Knowing
    <3>3. CASE op[p] = "VerifyTrust" /\ pc' = [pc EXCEPT ![p] = "conflict"] /\ UNCHANGED answer
      BY <1>1, <1>5, <2>2, <3>1, <3>3 DEF TypeOK, Knowing
    <3>4. ASSUME pc' = [pc EXCEPT ![p] = "close"],
                 \E a \in {"notFound", "false"} : answer' = [answer EXCEPT ![p] = a]
          PROVE  Knowing(p)'
      BY <1>1, <1>5, <2>2, <3>1, <3>4 DEF TypeOK, Knowing
    <3> QED
      BY <2>2, <3>2, <3>3, <3>4
  <2> QED
    BY <1>2, <2>3, <2>4, <2>5, <2>6, <2>7, OneSteps DEF Holding
<1>6. ASSUME Fault, Answer(p, "error"), UNCHANGED todo,
             existing' = [existing EXCEPT ![p] = @ - Previous(p)]
      PROVE  StoreInv'
  <2>1. existing' = [existing EXCEPT ![p] = 0]
    <3>1. existing' = [existing EXCEPT ![p] = existing[p] - Previous(p)]
      BY <1>6
    <3> QED
      BY <1>3, <3>1
  <2>2. TypeOK'
    BY <1>1, <1>6, <2>1 DEF TypeOK, Answer, Fault
  <2>3. HoldsStore(p)' /\ HoldsCertCtx(p)'
    BY <1>1, <1>6 DEF TypeOK, Holding, HoldsStore, HoldsCertCtx, Answer
  <2>4. HoldsExisting(p)'
    BY <1>1, <1>6, <2>1 DEF TypeOK, HoldsExisting, Answer
  <2>5. Knowing(p)'
    BY <1>1, <1>6 DEF TypeOK, Knowing, Answer
  <2> QED
    BY <1>2, <2>2, <2>3, <2>4, <2>5, OneSteps DEF Holding
<1> QED
  BY <1>4, <1>5, <1>6 DEF Search

LEMMA StoreStep ==
  ASSUME StoreInv, NEW p \in Proc,
         Call(p) \/ Open(p) \/ CreateContext(p) \/ Search(p) \/ Add(p)
         \/ Delete(p) \/ FindConflict(p) \/ Close(p)
  PROVE  StoreInv'
<1> USE DEF locals, refs
<1>1. Others(p)
  BY OthersStay
<1>2. TypeOK /\ Holding(p) /\ Knowing(p)
  BY DEF StoreInv
<1>3. CASE Call(p)
  <2>1. TypeOK'
    BY <1>2, <1>3 DEF Call, TypeOK, Holding
  <2>2. Holding(p)'
    <3>1. HoldsStore(p)'
      BY <1>2, <1>3 DEF Call, TypeOK, Holding, HoldsStore
    <3>2. HoldsCertCtx(p)'
      BY <1>2, <1>3 DEF Call, TypeOK, Holding, HoldsCertCtx
    <3>3. HoldsExisting(p)'
      BY <1>2, <1>3 DEF Call, TypeOK, Holding, Knowing, HoldsExisting
    <3> QED
      BY <3>1, <3>2, <3>3 DEF Holding
  <2>3. Knowing(p)'
    BY <1>2, <1>3 DEF Call, TypeOK, Knowing
  <2> QED
    BY <1>1, <2>1, <2>2, <2>3, OneSteps
<1>4. CASE Open(p)
  <2>1. TypeOK'
    BY <1>2, <1>4 DEF Open, TypeOK, Holding, Goto, Answer, Defer, Fault
  <2>2. Holding(p)'
    <3>1. HoldsStore(p)'
      BY <1>2, <1>4 DEF Open, TypeOK, Holding, HoldsStore, Goto, Answer, Defer, Fault
    <3>2. HoldsCertCtx(p)'
      <4>1. deferred'[p] \subseteq deferred[p] \cup {"store"}
        <5>1. CASE Defer(p, "store")
          BY <1>2, <5>1 DEF Defer, TypeOK
        <5>2. CASE UNCHANGED deferred
          BY <5>2
        <5> QED
          BY <1>4, <5>1, <5>2 DEF Open
      <4>2. "certCtx" \notin deferred[p] /\ "certCtx" \notin deferred'[p]
        BY <1>2, <1>4, <4>1 DEF Open, TypeOK, Holding, HoldsStore
      <4>3. certCtx'[p] = 0 /\ pc'[p] \in {"create", "search", "close"}
            /\ (pc'[p] = "search" => op'[p] # "VerifyTrust")
        BY <1>2, <1>4, <4>2 DEF Open, TypeOK, Holding, HoldsCertCtx, Goto, Answer
      <4> QED
        BY <4>2, <4>3 DEF HoldsCertCtx
    <3>3. HoldsExisting(p)'
      BY <1>2, <1>4 DEF Open, TypeOK, Holding, Knowing, HoldsExisting, Goto, Answer, Defer, Fault
    <3> QED
      BY <3>1, <3>2, <3>3 DEF Holding
  <2>3. Knowing(p)'
    BY <1>2, <1>4 DEF Open, TypeOK, Knowing, Goto, Answer, Defer, Fault
  <2> QED
    BY <1>1, <2>1, <2>2, <2>3, OneSteps
<1>5. CASE CreateContext(p)
  <2>1. TypeOK'
    BY <1>2, <1>5 DEF CreateContext, TypeOK, Holding, Goto, Answer, Defer, Fault
  <2>2. Holding(p)'
    <3>1. HoldsStore(p)'
      BY <1>2, <1>5 DEF CreateContext, TypeOK, Holding, HoldsStore, Knowing, Goto, Answer, Defer, Fault
    <3>2. HoldsCertCtx(p)'
      BY <1>2, <1>5 DEF CreateContext, TypeOK, Holding, HoldsCertCtx, Knowing, Goto, Answer, Defer, Fault
    <3>3. HoldsExisting(p)'
      BY <1>2, <1>5 DEF CreateContext, TypeOK, Holding, Knowing, HoldsExisting, Knowing, Goto, Answer, Defer, Fault
    <3> QED
      BY <3>1, <3>2, <3>3 DEF Holding
  <2>3. Knowing(p)'
    BY <1>2, <1>5 DEF CreateContext, TypeOK, Knowing, Goto, Answer, Defer, Fault
  <2> QED
    BY <1>1, <2>1, <2>2, <2>3, OneSteps
<1>6. CASE Add(p)
  <2>1. TypeOK'
    <3>1. cert[p] \in Cert
      BY <1>2, <1>6 DEF Add, Knowing
    <3>2. anchors' \in SUBSET Cert /\ faults' \in Nat
      BY <1>2, <1>6, <3>1 DEF Add, TypeOK, Fault
    <3>3. /\ pc' = [pc EXCEPT ![p] = "close"]
          /\ \E a \in {"ok", "error"} : answer' = [answer EXCEPT ![p] = a]
      BY <1>6 DEF Add, Answer
    <3> QED
      BY <1>2, <1>6, <3>2, <3>3 DEF Add, TypeOK
  <2>2. Holding(p)'
    <3>1. HoldsStore(p)'
      BY <1>2, <1>6 DEF Add, TypeOK, Holding, HoldsStore, Answer, Fault
    <3>2. HoldsCertCtx(p)'
      BY <1>2, <1>6 DEF Add, TypeOK, Holding, HoldsCertCtx, Answer, Fault
    <3>3. HoldsExisting(p)'
      BY <1>2, <1>6 DEF Add, TypeOK, Holding, Knowing, HoldsExisting, Answer, Fault
    <3> QED
      BY <3>1, <3>2, <3>3 DEF Holding
  <2>3. Knowing(p)'
    BY <1>2, <1>6 DEF Add, TypeOK, Knowing, Answer, Fault
  <2> QED
    BY <1>1, <2>1, <2>2, <2>3, OneSteps
<1>7. CASE Delete(p)
  <2>1. TypeOK'
    BY <1>2, <1>7 DEF Delete, TypeOK, Holding, HoldsExisting, Answer, Fault
  <2>2. Holding(p)'
    <3>1. HoldsStore(p)'
      BY <1>2, <1>7 DEF Delete, TypeOK, Holding, HoldsStore, Answer, Fault
    <3>2. HoldsCertCtx(p)'
      BY <1>2, <1>7 DEF Delete, TypeOK, Holding, HoldsCertCtx, Answer, Fault
    <3>3. HoldsExisting(p)'
      BY <1>2, <1>7 DEF Delete, TypeOK, Holding, Knowing, HoldsExisting, Answer, Fault
    <3> QED
      BY <3>1, <3>2, <3>3 DEF Holding
  <2>3. Knowing(p)'
    BY <1>2, <1>7 DEF Delete, TypeOK, Knowing, Answer, Fault
  <2> QED
    BY <1>1, <2>1, <2>2, <2>3, OneSteps
<1>8. CASE FindConflict(p)
  <2>1. TypeOK'
    <3>1. /\ pc' = [pc EXCEPT ![p] = "close"] /\ faults' \in Nat
          /\ \E a \in Verdict : answer' = [answer EXCEPT ![p] = a]
      BY <1>2, <1>8 DEF FindConflict, Answer, TypeOK, Fault
    <3> QED
      BY <1>2, <1>8, <3>1 DEF FindConflict, TypeOK
  <2>2. Holding(p)'
    <3>1. HoldsStore(p)'
      BY <1>2, <1>8 DEF FindConflict, TypeOK, Holding, HoldsStore, Answer, Fault
    <3>2. HoldsCertCtx(p)'
      BY <1>2, <1>8 DEF FindConflict, TypeOK, Holding, HoldsCertCtx, Answer, Fault
    <3>3. HoldsExisting(p)'
      BY <1>2, <1>8 DEF FindConflict, TypeOK, Holding, Knowing, HoldsExisting, Answer, Fault
    <3> QED
      BY <3>1, <3>2, <3>3 DEF Holding
  <2>3. Knowing(p)'
    BY <1>2, <1>8 DEF FindConflict, TypeOK, Knowing, Answer, Fault
  <2> QED
    BY <1>1, <2>1, <2>2, <2>3, OneSteps
<1>9. CASE Close(p)
  <2>1. TypeOK'
    BY <1>2, <1>9 DEF Close, TypeOK, Holding, HoldsStore, HoldsCertCtx
  <2>2. Holding(p)'
    <3>1. HoldsStore(p)'
      BY <1>2, <1>9 DEF Close, TypeOK, Holding, HoldsStore
    <3>2. HoldsCertCtx(p)'
      BY <1>2, <1>9 DEF Close, TypeOK, Holding, HoldsCertCtx
    <3>3. HoldsExisting(p)'
      BY <1>2, <1>9 DEF Close, TypeOK, Holding, Knowing, HoldsExisting
    <3> QED
      BY <3>1, <3>2, <3>3 DEF Holding
  <2>3. Knowing(p)'
    BY <1>2, <1>9 DEF Close, TypeOK, Knowing
  <2> QED
    BY <1>1, <2>1, <2>2, <2>3, OneSteps
<1> QED
  BY <1>3, <1>4, <1>5, <1>6, <1>7, <1>8, <1>9, StepOfSearch

LEMMA StoreInvariant == Spec => []StoreInv
<1>1. StoreInv /\ UNCHANGED vars => StoreInv'
  BY DEF StoreInv, TypeOK, Holding, HoldsStore, HoldsCertCtx, HoldsExisting, Knowing, vars, locals, refs
<1>2. StoreInv /\ [Next]_vars => StoreInv'
  BY <1>1, StoreStep DEF Next
<1> QED
  BY InitStore, <1>2, PTL DEF Spec

\* Every variable has its type: no count of handles or contexts, for one, goes
\* below zero, as it would when one is released twice.
THEOREM StoreTypes == Spec => []TypeOK
<1>1. StoreInv => TypeOK
  BY DEF StoreInv
<1> QED
  BY <1>1, StoreInvariant, PTL

\* No operation releases a handle or context twice, or leaves one behind.
THEOREM ContextsAreOwned == Spec => []ContextsOwned
<1>1. ASSUME StoreInv, NEW p \in Proc
      PROVE  /\ store[p] <= 1 /\ existing[p] <= 1 /\ certCtx[p] <= 1
             /\ pc[p] = "idle" => store[p] = 0 /\ existing[p] = 0 /\ certCtx[p] = 0
  <2>1. HoldsStore(p) /\ HoldsCertCtx(p) /\ HoldsExisting(p)
    BY <1>1 DEF StoreInv, Holding
  <2>2. store[p] <= 1 /\ (pc[p] = "idle" => store[p] = 0)
    BY <2>1 DEF HoldsStore
  <2>3. certCtx[p] <= 1 /\ (pc[p] = "idle" => certCtx[p] = 0)
    BY <2>1 DEF HoldsStore, HoldsCertCtx
  <2>4. existing[p] <= 1 /\ (pc[p] = "idle" => existing[p] = 0)
    BY <2>1 DEF HoldsExisting
  <2> QED
    BY <2>2, <2>3, <2>4
<1>2. StoreInv => ContextsOwned
  BY <1>1 DEF ContextsOwned
<1> QED
  BY <1>2, StoreInvariant, PTL

--------------------------------------------------------------------------
(* Refinement: an operation whose answer was settled when it opened the    *)
(* store knew it then; any other changes the store when it adds or deletes.*)

\* What p does to the abstract operation: nothing but its own.
LEMMA Bars ==
  ASSUME NEW p \in Proc, Others(p), NEW ph, NEW an, Phase(p)' = ph, Told(p)' = an
  PROVE  /\ phaseBar' = [phaseBar EXCEPT ![p] = ph]
         /\ answerBar' = [answerBar EXCEPT ![p] = an]
<1>1. ASSUME NEW q \in Proc \ {p} PROVE Phase(q)' = Phase(q) /\ Told(q)' = Told(q)
  <2>1. Settled(q)' = Settled(q) /\ Coming(q)' = Coming(q)
    BY <1>1 DEF Others, Settled, Coming, Trust
  <2> QED
    BY <1>1, <2>1 DEF Others, Phase, Told
<1> QED
  BY <1>1 DEF phaseBar, answerBar

LEMMA Stutters ==
  ASSUME NEW p \in Proc, Others(p), Phase(p)' = Phase(p), Told(p)' = Told(p)
  PROVE  UNCHANGED <<phaseBar, answerBar>>
BY Bars DEF phaseBar, answerBar

USE DEF Abstract!Reading, Abstract!Removal, Abstract!Operation, Abstract!Verdict

LEMMA InitMaps == Init => Abstract!Init
BY DEF Init, Abstract!Init, phaseBar, answerBar, Phase, Told

LEMMA CallMaps ==
  ASSUME StoreInv, NEW p \in Proc, Call(p)
  PROVE  Abstract!Call(p)
<1>1. Others(p) /\ TypeOK /\ Knowing(p)
  BY OthersStay DEF StoreInv
<1>2. phaseBar[p] = "idle"
  BY DEF Call, phaseBar, Phase
<1>3. Phase(p)' = "called" /\ Told(p)' = Told(p)
  BY <1>1 DEF Call, Phase, Told, TypeOK
<1>4. phaseBar' = [phaseBar EXCEPT ![p] = "called"] /\ answerBar' = answerBar
  BY <1>1, <1>3, Bars DEF answerBar
<1> QED
  BY <1>2, <1>4 DEF Call, Abstract!Call

LEMMA OpenMaps ==
  ASSUME StoreInv, NEW p \in Proc, Open(p)
  PROVE  Abstract!Know(p) \/ UNCHANGED Abstract!vars
<1>1. Others(p) /\ TypeOK /\ Knowing(p) /\ pc[p] = "open"
  BY OthersStay DEF StoreInv, Open
<1>2. phaseBar[p] = "called" /\ Phase(p) = "called" /\ Told(p) = "none"
  BY <1>1 DEF phaseBar, Phase, Told, Knowing
<1>3. op[p] \in Operation /\ UNCHANGED <<anchors, op, cert>>
  BY <1>1 DEF Open, Knowing
<1>4. ASSUME cert[p] \in Cert, view' = [view EXCEPT ![p] = anchors], NEW step \in {"create", "search"},
             pc' = [pc EXCEPT ![p] = step], UNCHANGED answer
      PROVE  Abstract!Know(p) \/ UNCHANGED Abstract!vars
  <2>1. view'[p] = anchors /\ Searching(p)'
    BY <1>1, <1>4 DEF TypeOK
  <2>2. CASE Settled(p)'
    <3>1. Phase(p)' = "known" /\ Told(p)' = Coming(p)'
      BY <2>1, <2>2 DEF Phase, Told
    <3>2. Abstract!Right(op[p], cert[p], Coming(p)') /\ Coming(p)' \in Verdict
      BY <1>3, <1>4, <2>1, <2>2, CertAssumption
      DEF Abstract!Right, Abstract!Trust, Coming, Trust, Settled
    <3> QED
      BY <1>1, <1>2, <1>3, <3>1, <3>2, Bars DEF Abstract!Know
  <2>3. CASE ~Settled(p)'
    <3>1. Phase(p)' = "called" /\ Told(p)' = "none"
      BY <1>1, <1>4, <2>1, <2>3 DEF Phase, Told, Knowing
    <3> QED
      BY <1>1, <1>2, <1>3, <3>1, Stutters DEF Abstract!vars
  <2> QED
    BY <2>2, <2>3
<1>5. CASE Answer(p, "error")
  <2>1. Phase(p)' = "known" /\ Told(p)' = "error"
    BY <1>1, <1>5 DEF Answer, Phase, Told, TypeOK
  <2> QED
    BY <1>1, <1>2, <1>3, <2>1, Bars DEF Abstract!Know, Abstract!Right
<1> QED
  BY <1>1, <1>4, <1>5 DEF Open, Goto, TypeOK

\* The three ways in which an operation goes on once the store is open: it
\* fails, it goes on, or it answers what it knew.
LEMMA FailureMaps ==
  ASSUME StoreInv, NEW p \in Proc, Others(p), Searching(p), Answer(p, "error"),
         UNCHANGED <<anchors, op, cert, view>>
  PROVE  Abstract!Know(p) \/ Abstract!Lose(p)
<1>1. TypeOK /\ Knowing(p)
  BY DEF StoreInv
<1>2. Phase(p)' = "known" /\ Told(p)' = "error"
  BY <1>1 DEF Answer, Phase, Told, TypeOK
<1>3. CASE Settled(p)
  <2>1. phaseBar[p] = "known"
    BY <1>3 DEF phaseBar, Phase
  <2>2. phaseBar' = phaseBar /\ answerBar' = [answerBar EXCEPT ![p] = "error"]
    BY <1>2, <2>1, Bars DEF phaseBar
  <2> QED
    BY <2>1, <2>2 DEF Abstract!Lose
<1>4. CASE ~Settled(p)
  <2>1. phaseBar[p] = "called"
    BY <1>4 DEF phaseBar, Phase
  <2> QED
    BY <1>2, <2>1, Bars DEF Abstract!Know, Abstract!Right
<1> QED
  BY <1>3, <1>4

LEMMA GoingOnMaps ==
  ASSUME NEW p \in Proc, Others(p), Searching(p), Searching(p)',
         UNCHANGED <<anchors, op, cert, view, answer>>
  PROVE  UNCHANGED Abstract!vars
<1>1. Settled(p)' = Settled(p) /\ Coming(p)' = Coming(p)
  BY DEF Settled, Coming, Trust
<1>2. Phase(p)' = Phase(p) /\ Told(p)' = Told(p)
  BY <1>1 DEF Phase, Told
<1> QED
  BY <1>2, Stutters DEF Abstract!vars

LEMMA AnswerMaps ==
  ASSUME StoreInv, NEW p \in Proc, Others(p), Searching(p), Settled(p), NEW a, a = Coming(p),
         Answer(p, a), UNCHANGED <<anchors, op, cert, view>>
  PROVE  UNCHANGED Abstract!vars
<1>1. pc'[p] = "close" /\ answer'[p] = Coming(p)
  BY DEF StoreInv, TypeOK, Answer
<1>2. Settled(p)' = Settled(p)
  BY DEF Settled
<1>3. Phase(p)' = Phase(p) /\ Told(p)' = Told(p)
  BY <1>1, <1>2 DEF Phase, Told
<1> QED
  BY <1>3, Stutters DEF Abstract!vars

\* The change comes with the answer.
LEMMA ChangeMaps ==
  ASSUME StoreInv, NEW p \in Proc, Others(p), Searching(p), ~Settled(p), Answer(p, "ok"),
         anchors' = IF op[p] = "InstallTrust" THEN anchors \cup {cert[p]} ELSE anchors \ {cert[p]},
         UNCHANGED <<op, cert, view>>
  PROVE  Abstract!Change(p)
<1>1. TypeOK /\ Knowing(p)
  BY DEF StoreInv
<1>2. phaseBar[p] = "called" /\ cert[p] \in Cert /\ op[p] \notin Reading
  BY <1>1 DEF phaseBar, Phase, Knowing, Settled
<1>3. Settled(p)' = Settled(p)
  BY DEF Settled
<1>4. Phase(p)' = "done" /\ Told(p)' = "ok"
  BY <1>1, <1>3 DEF Answer, Phase, Told, TypeOK
<1> QED
  BY <1>2, <1>4, Bars DEF Abstract!Change

LEMMA SearchMaps ==
  ASSUME StoreInv, NEW p \in Proc, Search(p)
  PROVE  [Abstract!Next]_Abstract!vars
<1>1. Others(p) /\ TypeOK /\ Knowing(p) /\ pc[p] = "search" /\ UNCHANGED <<anchors, op, cert, view>>
  BY OthersStay DEF StoreInv, Search, locals
<1>2. Searching(p) /\ op[p] \in Operation
  BY <1>1 DEF Knowing
<1>3. ASSUME NEW step \in {"search", "delete", "create", "conflict"}, Goto(p, step)
      PROVE  UNCHANGED Abstract!vars
  <2>1. Searching(p)'
    BY <1>1, <1>3 DEF Goto, TypeOK
  <2> QED
    BY <1>1, <1>2, <1>3, <2>1, GoingOnMaps DEF Goto
<1>4. ASSUME NEW c \in todo[p], NextCertificate(p, c)
      PROVE  UNCHANGED Abstract!vars
  <2>1. CASE Goto(p, "search")
    BY <1>3, <2>1
  <2>2. ASSUME c = cert[p], Found(p) PROVE UNCHANGED Abstract!vars
    <3>1. cert[p] \in view[p]
      BY <1>1, <1>4, <2>2 DEF Knowing
    <3>2. CASE Goto(p, "delete")
      BY <1>3, <3>2
    <3>3. ASSUME NEW a, Answer(p, a), a = Coming(p), Settled(p) PROVE UNCHANGED Abstract!vars
      BY <1>1, <1>2, <3>3, AnswerMaps
    <3> QED
      BY <2>2, <3>1, <3>2, <3>3 DEF Found, Coming, Settled, Trust
  <2> QED
    BY <1>4, <2>1, <2>2 DEF NextCertificate
<1>5. ASSUME todo[p] = {}, NotFound(p) PROVE UNCHANGED Abstract!vars
  <2>1. cert[p] \notin view[p]
    BY <1>1, <1>5 DEF Knowing
  <2>2. CASE Goto(p, "create") \/ Goto(p, "conflict")
    BY <1>3, <2>2
  <2>3. ASSUME NEW a, Answer(p, a), a = Coming(p), Settled(p) PROVE UNCHANGED Abstract!vars
    BY <1>1, <1>2, <2>3, AnswerMaps
  <2> QED
    BY <1>5, <2>1, <2>2, <2>3 DEF NotFound, Coming, Settled
<1>6. CASE Answer(p, "error")
  BY <1>1, <1>2, <1>6, FailureMaps DEF Abstract!Next
<1> QED
  BY <1>4, <1>5, <1>6 DEF Search

LEMMA CloseMaps ==
  ASSUME StoreInv, NEW p \in Proc, Close(p)
  PROVE  Abstract!Return(p)
<1>1. Others(p) /\ TypeOK /\ Knowing(p)
  BY OthersStay DEF StoreInv
<1>2. phaseBar[p] \in {"known", "done"}
  BY DEF Close, phaseBar, Phase
<1>3. Phase(p)' = "idle" /\ Told(p)' = "none"
  BY <1>1 DEF Close, Phase, Told, TypeOK
<1> QED
  BY <1>1, <1>2, <1>3, Bars DEF Close, Abstract!Return

LEMMA StepMaps ==
  ASSUME StoreInv, NEW p \in Proc,
         Call(p) \/ Open(p) \/ CreateContext(p) \/ Search(p) \/ Add(p)
         \/ Delete(p) \/ FindConflict(p) \/ Close(p)
  PROVE  [Abstract!Next]_Abstract!vars
<1>1. Others(p) /\ TypeOK /\ Knowing(p)
  BY OthersStay DEF StoreInv
<1>2. CASE Call(p)
  BY <1>2, CallMaps DEF Abstract!Next
<1>3. CASE Open(p)
  BY <1>3, OpenMaps DEF Abstract!Next
<1>4. CASE CreateContext(p)
  <2>1. Searching(p) /\ UNCHANGED <<anchors, op, cert, view>>
    BY <1>4 DEF CreateContext, locals
  <2>2. CASE Answer(p, "error")
    BY <1>1, <2>1, <2>2, FailureMaps DEF Abstract!Next
  <2>3. ASSUME NEW step \in {"search", "add"}, Goto(p, step) PROVE UNCHANGED Abstract!vars
    <3>1. Searching(p)' /\ UNCHANGED answer
      BY <1>1, <2>3 DEF Goto, TypeOK
    <3> QED
      BY <1>1, <2>1, <3>1, GoingOnMaps
  <2> QED
    BY <1>4, <2>2, <2>3 DEF CreateContext
<1>5. CASE Search(p)
  BY <1>5, SearchMaps
<1>6. CASE Add(p)
  <2>1. Searching(p) /\ ~Settled(p) /\ op[p] = "InstallTrust" /\ UNCHANGED <<op, cert, view>>
    BY <1>1, <1>6 DEF Add, locals, Knowing, Settled
  <2>2. CASE anchors' = anchors \cup {cert[p]} /\ Answer(p, "ok")
    BY <1>1, <2>1, <2>2, ChangeMaps DEF Abstract!Next
  <2>3. CASE Answer(p, "error") /\ UNCHANGED anchors
    BY <1>1, <2>1, <2>3, FailureMaps DEF Abstract!Next
  <2> QED
    BY <1>6, <2>2, <2>3 DEF Add
<1>7. CASE Delete(p)
  <2>1. Searching(p) /\ ~Settled(p) /\ op[p] \in Removal /\ UNCHANGED <<op, cert, view>>
    BY <1>1, <1>7 DEF Delete, locals, Knowing, Settled
  <2>2. CASE anchors' = anchors \ {cert[p]} /\ Answer(p, "ok")
    BY <1>1, <2>1, <2>2, ChangeMaps DEF Abstract!Next
  <2>3. CASE Answer(p, "error") /\ UNCHANGED anchors
    BY <1>1, <2>1, <2>3, FailureMaps DEF Abstract!Next
  <2> QED
    BY <1>7, <2>2, <2>3 DEF Delete
<1>8. CASE FindConflict(p)
  <2>1. Searching(p) /\ Settled(p) /\ UNCHANGED <<anchors, op, cert, view>>
    BY <1>1, <1>8 DEF FindConflict, locals, Knowing, Settled
  <2>2. CASE Answer(p, "error")
    BY <1>1, <2>1, <2>2, FailureMaps DEF Abstract!Next
  <2>3. ASSUME NEW a, Answer(p, a), a = Coming(p) PROVE UNCHANGED Abstract!vars
    BY <1>1, <2>1, <2>3, AnswerMaps
  <2>4. Coming(p) = IF Similar[cert[p]] \cap view[p] # {} THEN "conflict" ELSE "absent"
    BY <1>1, <1>8 DEF FindConflict, Knowing, Coming, Trust
  <2> QED
    BY <1>8, <2>2, <2>3, <2>4 DEF FindConflict
<1>9. CASE Close(p)
  BY <1>9, CloseMaps DEF Abstract!Next
<1> QED
  BY <1>2, <1>3, <1>4, <1>5, <1>6, <1>7, <1>8, <1>9

\* windowsTrustStore implements the TrustStore interface: whatever the
\* interleaving of the callers' CryptoAPI calls and whichever of them fail,
\* each operation takes effect at one moment, on its own certificate only,
\* and an error means that it has changed nothing.
THEOREM TrustStoreImplements == Spec => ImplementsTrustStore
<1>1. ASSUME UNCHANGED vars PROVE UNCHANGED Abstract!vars
  <2>1. \A p \in Proc : Settled(p)' = Settled(p) /\ Coming(p)' = Coming(p)
    BY <1>1 DEF vars, locals, Settled, Coming, Trust
  <2>2. \A p \in Proc : Phase(p)' = Phase(p) /\ Told(p)' = Told(p)
    BY <1>1, <2>1 DEF vars, locals, Phase, Told
  <2> QED
    BY <1>1, <2>2 DEF vars, locals, Abstract!vars, phaseBar, answerBar
<1>2. StoreInv /\ [Next]_vars => [Abstract!Next]_Abstract!vars
  BY <1>1, StepMaps DEF Next
<1> QED
  BY InitMaps, StoreInvariant, <1>2, PTL DEF Spec, ImplementsTrustStore, Abstract!Spec
=============================================================================
