---------------------------- MODULE LegacyProofs ----------------------------
(***************************************************************************)
(* What the older Provision returns and leaves on disk, for every set of   *)
(* callers, faults and bounds.                                             *)
(***************************************************************************)
EXTENDS LegacyInvariants, FiniteSetTheorems, TLAPS

USE DEF File, caCertFile, caKeyFile, serverCertFile, serverKeyFile

--------------------------------------------------------------------------
(* The lists of files *)

\* Of the four files: the head comes before what is left, in this order.
LEMMA ListOfFiles ==
  ASSUME NEW r \in Remaining
  PROVE  /\ r \in Seq(File) /\ r # << >> /\ Head(r) \in File /\ serverKeyFile \in Ahead(r)
         /\ Head(r) \in Ahead(r) /\ Ahead(r) \subseteq File
         /\ Head(r) # caCertFile => caCertFile \notin Ahead(r)
         /\ Head(r) = serverKeyFile => Ahead(r) = {serverKeyFile}
         /\ Head(r) = serverCertFile => Ahead(r) = {serverCertFile, serverKeyFile}
         /\ caKeyFile \notin Ahead(r) => Head(r) \in {serverCertFile, serverKeyFile}
         /\ Tail(r) \in Seq(File) /\ (Tail(r) = << >> <=> Head(r) = serverKeyFile)
         /\ Tail(r) # << >> => Tail(r) \in Remaining /\ Ahead(Tail(r)) = Ahead(r) \ {Head(r)}
<1>1. CASE r = AllFiles
  BY <1>1 DEF AllFiles, Remaining, Ahead
<1>2. CASE r = <<caKeyFile, serverCertFile, serverKeyFile>>
  BY <1>2 DEF Remaining, Ahead
<1>3. CASE r = <<serverCertFile, serverKeyFile>>
  BY <1>3 DEF Remaining, Ahead
<1>4. CASE r = <<serverKeyFile>>
  BY <1>4 DEF Remaining, Ahead
<1> QED
  BY <1>1, <1>2, <1>3, <1>4 DEF Remaining

--------------------------------------------------------------------------
(* Keys and certificates *)

\* There is always a new key.
LEMMA KeyIsNew ==
  ASSUME NEW used, IsFiniteSet(used)
  PROVE  NewKey(used) \in Nat \ {0} /\ NewKey(used) \notin used
<1> DEFINE n == Cardinality(used)
<1>1. n \in Nat
  BY FS_CardinalityType
<1>2. \E k \in 1..(n + 1) : k \notin used
  <2>1. Cardinality(1..(n + 1)) = n + 1
    BY <1>1, FS_Interval
  <2>2. 1..(n + 1) \subseteq used => Cardinality(1..(n + 1)) <= n
    BY FS_Subset
  <2> QED
    BY <1>1, <2>1, <2>2
<1>3. NewKey(used) \in 1..(n + 1) /\ NewKey(used) \notin used
  BY <1>2 DEF NewKey
<1> QED
  BY <1>1, <1>3

\* The image of a finite set is finite.
LEMMA ImageIsFinite ==
  ASSUME NEW S, IsFiniteSet(S), NEW f, f = [x \in S |-> f[x]]
  PROVE  IsFiniteSet({f[x] : x \in S})
<1>1. f \in Surjection(S, {f[x] : x \in S})
  BY DEF Surjection
<1> QED
  BY <1>1, FS_Surjection

\* The keys in use are finitely many, and those of the anchors among them.
LEMMA KeysInUse ==
  ASSUME IsFiniteSet(root)
  PROVE  IsFiniteSet(UsedKeys) /\ \A c \in root : c.key \in UsedKeys
<1>1. \A f \in File : IsFiniteSet(Held(f))
  <2>1. ASSUME NEW f \in File
        PROVE  IsFiniteSet(Held(f))
    <3> DEFINE g == [p \in Proc |-> mem[p][f]]
    <3>1. IsFiniteSet({g[p] : p \in Proc})
      <4>1. IsFiniteSet(Proc) /\ g = [p \in Proc |-> g[p]]
        BY ContentAssumption
      <4> HIDE DEF g
      <4> QED
        BY <4>1, ImageIsFinite
    <3>2. {g[p] : p \in Proc} = {mem[p][f] : p \in Proc}
      OBVIOUS
    <3> HIDE DEF g
    <3>3. IsFiniteSet({file[f]} \cup {mem[p][f] : p \in Proc})
      BY <3>1, <3>2, FS_Union, FS_Singleton
    <3> QED
      BY <3>3, FS_Difference DEF Held
  <2> QED
    BY <2>1
<1>2. ASSUME NEW S, IsFiniteSet(S)
      PROVE  IsFiniteSet({c.key : c \in S}) /\ IsFiniteSet({c.issuer : c \in S})
  <2> DEFINE g == [c \in S |-> c.key]
             h == [c \in S |-> c.issuer]
  <2>1. IsFiniteSet({g[c] : c \in S}) /\ IsFiniteSet({h[c] : c \in S})
    BY <1>2, ImageIsFinite
  <2>2. {g[c] : c \in S} = {c.key : c \in S} /\ {h[c] : c \in S} = {c.issuer : c \in S}
    OBVIOUS
  <2> QED
    BY <2>1, <2>2
<1>3. IsFiniteSet(root \cup Held(caCertFile))
  BY <1>1, FS_Union
<1>4. /\ IsFiniteSet({c.key : c \in root \cup Held(caCertFile)})
      /\ IsFiniteSet({c.key : c \in Held(serverCertFile)})
      /\ IsFiniteSet({c.issuer : c \in Held(serverCertFile)})
  BY <1>1, <1>2, <1>3
<1>5. IsFiniteSet(UsedKeys)
  BY <1>1, <1>4, FS_Union DEF UsedKeys
<1> QED
  BY <1>5 DEF UsedKeys

\* What createCACertSelfSigned and createServerCertWithPub return: the server
\* certificate of a CA that is not past its end is current.
LEMMA CACertificate ==
  ASSUME NEW serial \in Nat, NEW t \in Nat, NEW key \in Nat
  PROVE  LET ca == createCACertSelfSigned(serial, t, key)
         IN  ca \in CACert /\ ca.key = key /\ t < ca.notAfter
BY ValidityAssumption DEF createCACertSelfSigned, CACert

LEMMA ServerCertificate ==
  ASSUME NEW ca \in CACert, NEW signer \in Nat, NEW pub \in Nat, NEW t \in Nat
  PROVE  LET server == createServerCertWithPub(t, ca, signer, pub)
         IN  /\ server \in ServerCert /\ server.key = pub /\ server.issuer = signer
             /\ server.localSAN
             /\ t < ca.notAfter =>
                  /\ t < server.notAfter
                  /\ ~needsRenewal(server, t) \/ server.notAfter = ca.notAfter
BY ValidityAssumption
   DEF createServerCertWithPub, cappedServerNotAfter, needsRenewal, CACert, ServerCert

--------------------------------------------------------------------------
(* Types *)

\* What a call does to the others, and to the anchors.
Frame(p) ==
  /\ \A q \in Proc \ {p} :
       /\ pc'[q] = pc[q] /\ mem'[q] = mem[q] /\ rest'[q] = rest[q] /\ at'[q] = at[q]
       /\ result'[q] = result[q]
  /\ root \subseteq root' /\ UNCHANGED sit

\* What may be in a file.
Value == {None, Corrupt} \cup CACert \cup ServerCert \cup Nat

\* The types of what belongs to a process, and of what all share.
WorkOK ==
  /\ pc \in [Proc -> Step] /\ result \in [Proc -> {"none", "ok"} \cup Failure]
  /\ mem \in [Proc -> [File -> Value]]
  /\ \A p \in Proc, f \in File : mem[p][f] \in {None} \cup Content(f)
  /\ rest \in [Proc -> Seq(File)] /\ at \in [Proc -> 0..sit.maxTime]

StoreOK ==
  /\ file \in [File -> Value]
  /\ \A f \in File : file[f] \in {None, Corrupt} \cup Content(f)
  /\ root \in SUBSET CACert /\ IsFiniteSet(root) /\ now \in 0..sit.maxTime
  /\ torn \in BOOLEAN /\ overlooked \in BOOLEAN
  /\ faults \in 0..sit.maxFaults /\ sit \in Situation

LEMMA TypesSplit == TypeOK /\ IsFiniteSet(root) <=> WorkOK /\ StoreOK
<1>1. ASSUME TypeOK PROVE file \in [File -> Value] /\ mem \in [Proc -> [File -> Value]]
  BY <1>1 DEF TypeOK, Value, Content
<1>2. ASSUME WorkOK, StoreOK
      PROVE  file = [f \in File |-> file[f]] /\ mem = [p \in Proc |-> [f \in File |-> mem[p][f]]]
  BY <1>2 DEF WorkOK, StoreOK
<1> QED
  BY <1>1, <1>2 DEF TypeOK, WorkOK, StoreOK

LEMMA Bounds == StoreOK => sit.maxFaults \in Nat /\ sit.maxTime \in Nat /\ now \in Nat
BY LegacyAssumption DEF StoreOK

LEMMA ReturnFrame ==
  ASSUME WorkOK, StoreOK, NEW p \in Proc, NEW r \in {"none", "ok"} \cup Failure, Return(p, r),
         UNCHANGED <<root, sit>>
  PROVE  Frame(p) /\ WorkOK' /\ pc'[p] = "idle"
<1>1. Nothing \in [File -> Value] /\ \A f \in File : Nothing[f] = None
  BY DEF Nothing, Value
<1>2. 0 \in 0..sit.maxTime
  BY Bounds
<1>3. << >> \in Seq(File)
  OBVIOUS
<1> QED
  BY <1>1, <1>2, <1>3 DEF Return, Frame, WorkOK, Step

LEMMA GotoFrame ==
  ASSUME WorkOK, NEW p \in Proc, NEW step \in Step, Goto(p, step), UNCHANGED <<mem, rest, at, sit>>,
         root \subseteq root'
  PROVE  Frame(p) /\ WorkOK' /\ pc'[p] = step
BY DEF Goto, Frame, WorkOK

LEMMA FaultOK ==
  ASSUME StoreOK, NEW kind, Fault(kind)
  PROVE  faults' \in 0..sit.maxFaults /\ kind \in sit.faults
BY Bounds DEF Fault, StoreOK

--------------------------------------------------------------------------
(* What a call holds, however calls overlap *)

Sound(p) ==
  /\ Listed(p) /\ Fitting(p)
  /\ pc[p] \in Using \ {"check", "renew"} => Current(p)

\* A step of p keeps the types and the soundness of what p holds.
Advances(p) == Frame(p) /\ WorkOK' /\ StoreOK' /\ Sound(p)'

\* A call holds nothing before it reads or makes something.
LEMMA NothingHeld ==
  ASSUME NEW p \in Proc, Frame(p), WorkOK', StoreOK',
         pc'[p] \in {"idle", "all", "any", "generate"}
  PROVE  Advances(p)
BY DEF Advances, Sound, Listed, Fitting, Using

\* A call that ends, in error or by the death of its process, holds nothing.
LEMMA EndAdvances ==
  ASSUME WorkOK, StoreOK, NEW p \in Proc, NEW r \in {"none", "ok"} \cup Failure, Return(p, r),
         UNCHANGED <<root, sit>>, StoreOK'
  PROVE  Advances(p)
<1>1. Frame(p) /\ WorkOK' /\ pc'[p] = "idle"
  BY ReturnFrame
<1> QED
  BY <1>1, NothingHeld

Fails(p) == \E r \in Failure : Return(p, r)

\* What StoreOK needs to know of a step that leaves the files and the root.
LEMMA StoreKept ==
  ASSUME StoreOK, UNCHANGED <<file, root, now, sit>>,
         torn' \in BOOLEAN, overlooked' \in BOOLEAN, UNCHANGED faults \/ \E kind : Fault(kind)
  PROVE  StoreOK'
BY FaultOK DEF StoreOK

\* Where a call begins and looks for the files.
LEMMA BeginAdvances ==
  ASSUME WorkOK, StoreOK, UNCHANGED sit, NEW p \in Proc,
         Call(p) \/ allFilesExist(p) \/ anyFileExists(p)
  PROVE  Advances(p)
<1>1. CASE Call(p)
  <2>1. Frame(p) /\ WorkOK' /\ pc'[p] = "all"
    BY <1>1 DEF Call, Frame, WorkOK, Step
  <2>2. StoreOK'
    BY <1>1 DEF Call, StoreOK
  <2> QED
    BY <2>1, <2>2, NothingHeld
<1>2. CASE allFilesExist(p)
  <2>1. StoreOK'
    BY <1>2, StoreKept DEF allFilesExist, StoreOK
  <2>2. CASE Goto(p, "any") /\ UNCHANGED rest
    BY <1>2, <2>1, <2>2, GotoFrame, NothingHeld DEF allFilesExist, Step
  <2>3. CASE Goto(p, "read") /\ rest' = [rest EXCEPT ![p] = AllFiles]
    <3>1. Frame(p) /\ WorkOK'
      BY <1>2, <2>3 DEF allFilesExist, Goto, Frame, WorkOK, Step, AllFiles
    <3>2. AllFiles \in Remaining /\ Ahead(AllFiles) = File
      BY DEF AllFiles, Ahead, Remaining
    <3>3. Sound(p)'
      BY <1>2, <2>3, <3>2 DEF allFilesExist, Goto, Sound, Listed, Fitting, Pending, Using, WorkOK
    <3> QED
      BY <2>1, <3>1, <3>3 DEF Advances
  <2> QED
    BY <1>2, <2>2, <2>3 DEF allFilesExist
<1>3. CASE anyFileExists(p)
  <2>1. StoreOK'
    BY <1>3, StoreKept DEF anyFileExists, StoreOK
  <2>2. CASE Return(p, "incomplete")
    BY <1>3, <2>1, <2>2, EndAdvances DEF anyFileExists, Failure, Advice
  <2>3. CASE Goto(p, "generate") /\ UNCHANGED <<mem, rest, at>>
    BY <1>3, <2>1, <2>3, GotoFrame, NothingHeld DEF anyFileExists, Step
  <2> QED
    BY <1>3, <2>2, <2>3 DEF anyFileExists
<1> QED
  BY <1>1, <1>2, <1>3

\* A first provisioning makes two pairs that fit.
LEMMA GenerateAdvances ==
  ASSUME WorkOK, StoreOK, UNCHANGED sit, NEW p \in Proc, generate(p)
  PROVE  Advances(p)
<1>1. StoreOK'
  BY StoreKept DEF generate, StoreOK
<1>2. CASE Fault("file") /\ Return(p, "error")
  BY <1>1, <1>2, EndAdvances DEF generate, Failure
<1>3. CASE ~(Fault("file") /\ Return(p, "error"))
  <2> DEFINE caKey     == NewKey(UsedKeys)
             serverKey == NewKey(UsedKeys \cup {caKey})
             ca        == createCACertSelfSigned(caKey, now, caKey)
             server    == createServerCertWithPub(now, ca, caKey, serverKey)
  <2>1. caKey \in Nat /\ serverKey \in Nat
    BY KeysInUse, KeyIsNew, FS_AddElement DEF StoreOK
  <2>2. /\ mem' = [mem EXCEPT ![p][caCertFile] = ca, ![p][caKeyFile] = caKey,
                              ![p][serverCertFile] = server, ![p][serverKeyFile] = serverKey]
        /\ at' = [at EXCEPT ![p] = now]
        /\ rest' = [rest EXCEPT ![p] = AllFiles] /\ Goto(p, "write") /\ UNCHANGED root
    BY <1>3 DEF generate
  <2> HIDE DEF caKey, serverKey
  <2>3. ca \in CACert /\ ca.key = caKey /\ now < ca.notAfter
    BY <2>1, Bounds, CACertificate
  <2> HIDE DEF ca
  <2>4. /\ server \in ServerCert /\ server.key = serverKey /\ server.issuer = caKey
        /\ server.localSAN /\ now < server.notAfter
        /\ ~needsRenewal(server, now) \/ server.notAfter = ca.notAfter
    BY <2>1, <2>3, Bounds, ServerCertificate
  <2> HIDE DEF server
  <2>5. /\ mem'[p][caCertFile] = ca /\ mem'[p][caKeyFile] = caKey
        /\ mem'[p][serverCertFile] = server /\ mem'[p][serverKeyFile] = serverKey
        /\ pc'[p] = "write" /\ rest'[p] = AllFiles /\ at'[p] = now
        /\ \A q \in Proc \ {p} : mem'[q] = mem[q]
    BY <2>2 DEF WorkOK, Goto
  <2>6. AllFiles \in Remaining /\ AllFiles \in Seq(File)
    BY ListOfFiles DEF Remaining
  <2>7. Frame(p) /\ WorkOK'
    <3>1. mem' \in [Proc -> [File -> Value]]
      BY <2>1, <2>2, <2>3, <2>4 DEF WorkOK, Value
    <3>2. \A f \in File : mem'[p][f] \in Content(f)
      BY <2>1, <2>3, <2>4, <2>5 DEF Content
    <3>3. pc' \in [Proc -> Step] /\ UNCHANGED result
      BY <2>2 DEF WorkOK, Goto, Step
    <3>4. rest' \in [Proc -> Seq(File)] /\ at' \in [Proc -> 0..sit.maxTime]
      BY <2>2, <2>6 DEF WorkOK, StoreOK
    <3> QED
      BY <2>2, <2>5, <3>1, <3>2, <3>3, <3>4 DEF Frame, WorkOK, Goto
  <2>8. Sound(p)'
    BY <2>1, <2>3, <2>4, <2>5, <2>6, ContentAssumption
       DEF Sound, Listed, Fitting, Using, Current, CAPair, ServerPair, Issued, verifyKeyMatch,
           CheckSignatureFrom, validateSAN
  <2> QED
    BY <1>1, <2>7, <2>8 DEF Advances
<1> QED
  BY <1>2, <1>3

\* Every file that is read parses, and a key fits the certificate before it.
LEMMA ReadAdvances ==
  ASSUME WorkOK, StoreOK, UNCHANGED sit, NEW p \in Proc, Sound(p), Read(p)
  PROVE  Advances(p)
<1>1. StoreOK'
  BY StoreKept DEF Read, StoreOK
<1>2. CASE Return(p, "error")
  BY <1>1, <1>2, EndAdvances DEF Read, Failure
<1> DEFINE f    == Head(rest[p])
           held == [mem[p] EXCEPT ![f] = file[f]]
<1>3. CASE ~Return(p, "error")
  <2>1. pc[p] = "read" /\ rest[p] \in Remaining /\ f \in File
    BY ListOfFiles DEF Read, Sound, Listed
  <2>2. /\ Loads(held, f) /\ mem' = [mem EXCEPT ![p] = held]
        /\ rest' = [rest EXCEPT ![p] = Tail(@)]
        /\ Goto(p, IF Tail(rest[p]) = << >> THEN "check" ELSE "read")
        /\ UNCHANGED <<at, root>>
    BY <1>3 DEF Read
  <2>3. /\ mem'[p] = held /\ rest'[p] = Tail(rest[p])
        /\ \A q \in Proc \ {p} : mem'[q] = mem[q] /\ rest'[q] = rest[q]
        /\ pc'[p] = IF Tail(rest[p]) = << >> THEN "check" ELSE "read"
    BY <2>2 DEF WorkOK, Goto
  <2>4. held \in [File -> Value] /\ held[f] = file[f] /\ held[f] \in Content(f)
        /\ \A g \in File \ {f} : held[g] = mem[p][g]
    BY <2>1, <2>2 DEF WorkOK, StoreOK, Loads
  <2> HIDE DEF held, f
  <2>5. Frame(p) /\ WorkOK'
    <3>1. mem' \in [Proc -> [File -> Value]]
      BY <2>2, <2>4 DEF WorkOK
    <3>2. \A q \in Proc, g \in File : mem'[q][g] \in {None} \cup Content(g)
      BY <2>1, <2>3, <2>4 DEF WorkOK
    <3>3. pc' \in [Proc -> Step] /\ UNCHANGED result
      BY <2>2 DEF WorkOK, Goto, Step
    <3>4. rest' \in [Proc -> Seq(File)] /\ at' \in [Proc -> 0..sit.maxTime]
      <4>1. Tail(rest[p]) \in Seq(File)
        BY <2>1, ListOfFiles
      <4> QED
        BY <2>2, <4>1 DEF WorkOK
    <3> QED
      BY <2>2, <2>3, <3>1, <3>2, <3>3, <3>4 DEF Frame, WorkOK, Goto
  <2>6. /\ \A g \in File \ Ahead(rest[p]) : mem[p][g] # None
        /\ caKeyFile \notin Ahead(rest[p]) => CAPair(mem[p])
    BY <2>1 DEF Sound, Fitting, Pending
  <2>7. held[f] # None
    BY <2>2 DEF Loads
  <2>8. CASE Tail(rest[p]) = << >>
    <3>1. f = serverKeyFile /\ Ahead(rest[p]) = {serverKeyFile}
      BY <2>1, <2>8, ListOfFiles DEF f
    <3>2. \A g \in File : held[g] # None
      BY <2>4, <2>6, <2>7, <3>1
    <3>3. CAPair(held) /\ ServerPair(held)
      BY <2>2, <2>4, <2>6, <3>1 DEF CAPair, ServerPair, Loads
    <3>4. Sound(p)'
      BY <2>3, <2>8, <3>2, <3>3 DEF Sound, Listed, Fitting, Using, CAPair, ServerPair
    <3> QED
      BY <1>1, <2>5, <3>4 DEF Advances
  <2>9. CASE Tail(rest[p]) # << >>
    <3>1. /\ Tail(rest[p]) \in Remaining /\ Ahead(Tail(rest[p])) = Ahead(rest[p]) \ {f}
          /\ caKeyFile \notin Ahead(rest[p]) => f # caCertFile /\ f # caKeyFile
          /\ f \in Ahead(rest[p])
      BY <2>1, <2>9, ListOfFiles DEF f
    <3>2. \A g \in File \ Ahead(Tail(rest[p])) : held[g] # None
      BY <2>4, <2>6, <2>7, <3>1
    <3>3. caKeyFile \notin Ahead(Tail(rest[p])) => CAPair(held)
      BY <2>2, <2>4, <2>6, <3>1 DEF CAPair, Loads
    <3>4. Sound(p)'
      BY <2>3, <2>9, <3>1, <3>2, <3>3 DEF Sound, Listed, Fitting, Using, CAPair, Pending
    <3> QED
      BY <1>1, <2>5, <3>4 DEF Advances
  <2> QED
    BY <2>8, <2>9
<1> QED
  BY <1>2, <1>3

\* What passes the checks is from the CA, which is trusted.
LEMMA CheckAdvances ==
  ASSUME WorkOK, StoreOK, UNCHANGED sit, NEW p \in Proc, Sound(p), Check(p)
  PROVE  Advances(p)
<1>1. StoreOK'
  BY StoreKept DEF Check, StoreOK
<1>2. CASE Fails(p)
  BY <1>1, <1>2, EndAdvances DEF Check, Fails
<1>3. CASE ~Fails(p)
  <2>1. /\ Goto(p, "renew") /\ UNCHANGED <<mem, rest, at, root>> /\ pc[p] = "check"
        /\ Issued(mem[p]) /\ validateSAN(mem[p][serverCertFile]) /\ mem[p][caCertFile] \in root
    BY <1>3 DEF Check, Issued, Fails, Failure, Advice
  <2>2. Frame(p) /\ WorkOK' /\ pc'[p] = "renew"
    BY <2>1, GotoFrame DEF Step
  <2>3. Sound(p)'
    BY <2>1, <2>2 DEF Sound, Listed, Fitting, Using, CAPair, ServerPair, Issued
  <2> QED
    BY <1>1, <2>2, <2>3 DEF Advances
<1> QED
  BY <1>2, <1>3

\* A renewal makes another pair under the CA it has checked.
LEMMA RenewAdvances ==
  ASSUME WorkOK, StoreOK, UNCHANGED sit, NEW p \in Proc, Sound(p), Renew(p)
  PROVE  Advances(p)
<1> DEFINE ca  == mem[p][caCertFile]
           old == mem[p][serverCertFile]
           key == NewKey(UsedKeys)
           new == createServerCertWithPub(now, ca, mem[p][caKeyFile], key)
<1>1. StoreOK'
  BY StoreKept DEF Renew, StoreOK
<1>2. CASE Fails(p)
  BY <1>1, <1>2, EndAdvances DEF Renew, Fails
<1>3. /\ pc[p] = "renew" /\ ca \in CACert /\ old \in ServerCert /\ ca \in root
      /\ mem[p][caKeyFile] \in Nat /\ CAPair(mem[p]) /\ Issued(mem[p]) /\ ServerPair(mem[p])
      /\ validateSAN(old) /\ \A f \in File : mem[p][f] # None
  BY DEF Renew, Sound, Fitting, Using, WorkOK, Content
<1>4. CASE Goto(p, "done") /\ ~needsRenewal(old, now)
  <2>1. /\ UNCHANGED <<mem, rest, root>> /\ at' = [at EXCEPT ![p] = now]
    BY <1>4 DEF Renew, Goto
  <2>2. Frame(p) /\ WorkOK' /\ pc'[p] = "done" /\ at'[p] = now
    BY <1>4, <2>1 DEF Goto, Frame, WorkOK, StoreOK, Step
  <2>3. now < old.notAfter
    BY <1>3, <1>4, Bounds, ValidityAssumption DEF needsRenewal, ServerCert
  <2>4. Sound(p)'
    BY <1>3, <1>4, <2>1, <2>2, <2>3
       DEF Sound, Listed, Fitting, Using, Current, CAPair, ServerPair, Issued
  <2> QED
    BY <1>1, <2>2, <2>4 DEF Advances
<1>5. CASE ~Fails(p) /\ ~(Goto(p, "done") /\ ~needsRenewal(old, now))
  <2>1. /\ validateCALifetime(ca, now) /\ UNCHANGED root
        /\ mem' = [mem EXCEPT ![p][serverCertFile] = new, ![p][serverKeyFile] = key]
        /\ rest' = [rest EXCEPT ![p] = RenewedFiles]
        /\ Goto(p, "rewrite") /\ at' = [at EXCEPT ![p] = now]
    BY <1>5 DEF Renew, Fails, Failure, Advice
  <2>2. key \in Nat
    BY KeysInUse, KeyIsNew DEF StoreOK
  <2> HIDE DEF key
  <2>3. /\ new \in ServerCert /\ new.key = key /\ new.issuer = mem[p][caKeyFile]
        /\ new.localSAN /\ now < new.notAfter
        /\ ~needsRenewal(new, now) \/ new.notAfter = ca.notAfter
    <3>1. now < ca.notAfter
      BY <2>1 DEF validateCALifetime
    <3>2. ca \in CACert /\ mem[p][caKeyFile] \in Nat /\ now \in Nat
      BY <1>3, Bounds
    <3> HIDE DEF ca
    <3> QED
      BY <2>2, <3>1, <3>2, ServerCertificate
  <2> HIDE DEF new
  <2>4. /\ mem'[p][serverCertFile] = new /\ mem'[p][serverKeyFile] = key
        /\ mem'[p][caCertFile] = ca /\ mem'[p][caKeyFile] = mem[p][caKeyFile]
        /\ pc'[p] = "rewrite" /\ rest'[p] = RenewedFiles /\ at'[p] = now
        /\ \A q \in Proc \ {p} : mem'[q] = mem[q]
    BY <2>1 DEF WorkOK, Goto
  <2>5. Frame(p) /\ WorkOK'
    <3>1. mem' \in [Proc -> [File -> Value]]
      BY <2>1, <2>2, <2>3 DEF WorkOK, Value
    <3>2. \A f \in File : mem'[p][f] \in Content(f)
      BY <1>3, <2>2, <2>3, <2>4 DEF Content
    <3>3. pc' \in [Proc -> Step] /\ UNCHANGED result
      BY <2>1 DEF WorkOK, Goto, Step
    <3>4. rest' \in [Proc -> Seq(File)] /\ at' \in [Proc -> 0..sit.maxTime]
      BY <2>1 DEF WorkOK, StoreOK, RenewedFiles
    <3> QED
      BY <2>1, <2>4, <3>1, <3>2, <3>3, <3>4 DEF Frame, WorkOK, Goto
  <2>6. \A f \in File : mem'[p][f] # None
    BY <1>3, <2>2, <2>3, <2>4, ContentAssumption
  <2>7. Fitting(p)'
    BY <1>3, <2>1, <2>3, <2>4, <2>6
       DEF Fitting, Using, CAPair, ServerPair, Issued, verifyKeyMatch, CheckSignatureFrom,
           validateSAN
  <2>8. Sound(p)'
    BY <2>3, <2>4, <2>7 DEF Sound, Listed, Using, Current
  <2> QED
    BY <1>1, <2>5, <2>8 DEF Advances
<1> QED
  BY <1>2, <1>4, <1>5

\* A write changes nothing of what the call holds.
LEMMA WriteAdvances ==
  ASSUME WorkOK, StoreOK, UNCHANGED sit, NEW p \in Proc, Sound(p), Write(p)
  PROVE  Advances(p)
<1> DEFINE Failed == /\ Fault("file") /\ Return(p, "error")
                     /\ torn' = (torn \/ Between(p)) /\ UNCHANGED file
<1>1. CASE Failed
  <2>1. torn' \in BOOLEAN
    BY <1>1
  <2>2. StoreOK'
    BY <1>1, <2>1, StoreKept DEF Write, StoreOK
  <2> QED
    BY <1>1, <2>2, EndAdvances DEF Write, Failure
<1>2. CASE ~Failed
  <2> DEFINE next == IF Tail(rest[p]) # << >> THEN pc[p]
                     ELSE IF pc[p] = "write" THEN "install" ELSE "done"
  <2>1. /\ file' = [file EXCEPT ![Head(rest[p])] = mem[p][Head(rest[p])]]
        /\ rest' = [rest EXCEPT ![p] = Tail(@)] /\ Goto(p, next)
        /\ UNCHANGED <<mem, at, torn, overlooked, faults, root, now>>
    BY <1>2 DEF Write
  <2>2. /\ rest[p] \in Remaining \cup {RenewedFiles}
        /\ pc[p] = "write" => rest[p] \in Remaining
        /\ pc[p] = "rewrite" => rest[p] \in {RenewedFiles, <<serverKeyFile>>}
    BY DEF Write, Sound, Listed, Remaining
  <2>3. /\ Head(rest[p]) \in File /\ Tail(rest[p]) \in Seq(File)
        /\ Tail(rest[p]) = << >> \/ Tail(rest[p]) \in Remaining
    BY <2>2, ListOfFiles DEF Remaining, RenewedFiles
  <2>4. StoreOK'
    BY <2>1, <2>3 DEF StoreOK, WorkOK
  <2>5. Frame(p) /\ WorkOK' /\ pc'[p] = next /\ rest'[p] = Tail(rest[p])
    <3>1. next \in Step
      BY DEF Write, Step
    <3> HIDE DEF next
    <3> QED
      BY <2>1, <2>3, <3>1 DEF Frame, WorkOK, Goto
  <2>6. pc[p] = "rewrite" /\ Tail(rest[p]) # << >> => Tail(rest[p]) = <<serverKeyFile>>
    <3>1. Tail(RenewedFiles) = <<serverKeyFile>> /\ Tail(<<serverKeyFile>>) = << >>
      BY DEF RenewedFiles
    <3> QED
      BY <2>2, <3>1
  <2>7. Sound(p)'
    BY <2>1, <2>3, <2>5, <2>6
       DEF Write, Sound, Listed, Fitting, Using, Current, CAPair, ServerPair, Issued
  <2> QED
    BY <2>4, <2>5, <2>7 DEF Advances
<1> QED
  BY <1>1, <1>2

LEMMA EndingAdvances ==
  ASSUME WorkOK, StoreOK, UNCHANGED sit, NEW p \in Proc, Sound(p),
         InstallTrust(p) \/ Finish(p) \/ Crash(p)
  PROVE  Advances(p)
<1>1. CASE Finish(p) \/ Crash(p)
  <2>1. StoreOK'
    BY <1>1, StoreKept DEF Finish, Crash, StoreOK
  <2> QED
    BY <1>1, <2>1, EndAdvances DEF Finish, Crash
<1>2. CASE InstallTrust(p) /\ Return(p, "error")
  <2>1. UNCHANGED root
    BY <1>2 DEF InstallTrust, Return, Goto, WorkOK
  <2>2. StoreOK'
    BY <1>2, <2>1, StoreKept DEF InstallTrust, StoreOK
  <2> QED
    BY <1>2, <2>1, <2>2, EndAdvances DEF InstallTrust, Failure
<1>3. CASE InstallTrust(p) /\ ~Return(p, "error")
  <2>1. /\ pc[p] = "install" /\ root' = root \cup {mem[p][caCertFile]}
        /\ Goto(p, "done") /\ UNCHANGED <<mem, rest, at, faults, file, now, torn, overlooked>>
    BY <1>3 DEF InstallTrust
  <2>2. mem[p][caCertFile] \in CACert
    BY <2>1 DEF Sound, Fitting, Using, WorkOK, Content
  <2>3. StoreOK'
    BY <2>1, <2>2, FS_AddElement DEF StoreOK
  <2>4. Frame(p) /\ WorkOK' /\ pc'[p] = "done"
    BY <2>1, GotoFrame DEF Step
  <2>5. Sound(p)'
    BY <2>1, <2>4
       DEF Sound, Listed, Fitting, Using, Current, CAPair, ServerPair, Issued
  <2> QED
    BY <2>3, <2>4, <2>5 DEF Advances
<1> QED
  BY <1>1, <1>2, <1>3

\* CallInv, part by part.
Parts == WorkOK /\ StoreOK /\ \A p \in Proc : Sound(p)

LEMMA CallInvParts == CallInv <=> Parts
BY TypesSplit DEF CallInv, Sound, Parts

LEMMA CallInvNext == Parts' => CallInv'
BY CallInvParts, PTL

LEMMA ProvisionAdvances ==
  ASSUME CallInv, UNCHANGED sit, NEW p \in Proc, Call(p) \/ Provision(p) \/ Crash(p)
  PROVE  Advances(p)
<1> WorkOK /\ StoreOK /\ Sound(p)
  BY CallInvParts DEF Parts
<1> QED
  BY BeginAdvances, GenerateAdvances, ReadAdvances, CheckAdvances, RenewAdvances,
     WriteAdvances, EndingAdvances DEF Provision

\* What a call holds depends on nobody else.
LEMMA OthersSound ==
  ASSUME NEW p \in Proc, Frame(p), NEW q \in Proc \ {p}, Sound(q)
  PROVE  Sound(q)'
BY DEF Frame, Sound, Listed, Fitting, Using, Current, CAPair, ServerPair, Issued, Pending

\* The surroundings keep the types and what the calls hold.
LEMMA SurroundingsKeep ==
  ASSUME CallInv, UNCHANGED sit, RemoveDirectory \/ Tick \/ Damage \/ UNCHANGED vars
  PROVE  CallInv'
<1> WorkOK /\ StoreOK /\ \A p \in Proc : Sound(p)
  BY CallInvParts DEF Parts
<1>1. UNCHANGED <<root, work>>
  BY DEF RemoveDirectory, Tick, Damage, vars
<1>2. WorkOK' /\ \A p \in Proc : Sound(p)'
  BY <1>1 DEF work, WorkOK, Sound, Listed, Fitting, Using, Current, CAPair, ServerPair,
              Issued, Pending
<1>3. StoreOK'
  <2>1. CASE RemoveDirectory
    BY <2>1 DEF RemoveDirectory, StoreOK, Nothing, Value
  <2>2. CASE Tick
    BY <2>2, Bounds DEF Tick, StoreOK
  <2>3. CASE Damage
    <3>1. PICK f \in Existing :
            \/ file' = [file EXCEPT ![f] = Corrupt]
            \/ /\ f = serverCertFile /\ file[f] # Corrupt
               /\ file' = [file EXCEPT ![f].localSAN = FALSE]
      BY <2>3 DEF Damage
    <3>2. faults' \in 0..sit.maxFaults /\ UNCHANGED <<now, torn, overlooked>>
      BY <2>3, FaultOK DEF Damage
    <3>3. file' \in [File -> Value] /\ \A g \in File : file'[g] \in {None, Corrupt} \cup Content(g)
      <4>1. CASE file' = [file EXCEPT ![f] = Corrupt]
        BY <3>1, <4>1 DEF StoreOK, Value
      <4>2. CASE f = serverCertFile /\ file[f] # Corrupt
                 /\ file' = [file EXCEPT ![f].localSAN = FALSE]
        <5>1. file[f] \in ServerCert
          BY <4>2 DEF StoreOK, Existing, Content
        <5>2. [file[f] EXCEPT !.localSAN = FALSE] \in ServerCert
          BY <5>1 DEF ServerCert
        <5>3. /\ file' \in [File -> Value]
              /\ file'[f] \in ServerCert /\ \A g \in File \ {f} : file'[g] = file[g]
          BY <4>2, <5>2 DEF StoreOK, Value
        <5> QED
          BY <4>2, <5>3 DEF StoreOK, Content
      <4> QED
        BY <3>1, <4>1, <4>2
    <3> QED
      BY <1>1, <3>2, <3>3 DEF StoreOK
  <2>4. CASE UNCHANGED vars
    BY <2>4 DEF vars, StoreOK
  <2> QED
    BY <2>1, <2>2, <2>3, <2>4
<1> QED
  BY <1>2, <1>3, CallInvNext DEF Parts

LEMMA CallInvInit == Init => CallInv
<1> SUFFICES ASSUME Init PROVE WorkOK /\ StoreOK /\ \A p \in Proc : Sound(p)
  BY CallInvParts DEF Parts
<1>1. StoreOK
  <2>1. sit \in Situation /\ 0 \in 0..sit.maxTime /\ 0 \in 0..sit.maxFaults
    BY LegacyAssumption DEF Init
  <2>2. file \in [File -> Value] /\ \A f \in File : file[f] = None
    BY DEF Init, Nothing, Value
  <2> QED
    BY <2>1, <2>2, FS_EmptySet DEF Init, StoreOK
<1>2. WorkOK
  BY <1>1, Bounds DEF Init, WorkOK, Nothing, Value, Step
<1> QED
  BY <1>1, <1>2 DEF Init, Sound, Listed, Fitting, Using

LEMMA CallInvStep == CallInv /\ [Next]_vars => CallInv'
<1> SUFFICES ASSUME CallInv, [Next]_vars PROVE CallInv'
  OBVIOUS
<1>1. UNCHANGED sit
  BY DEF Next, vars
<1>2. ASSUME NEW p \in Proc, Call(p) \/ Provision(p) \/ Crash(p)
      PROVE  CallInv'
  <2>1. Frame(p) /\ WorkOK' /\ StoreOK' /\ Sound(p)'
    BY <1>1, <1>2, ProvisionAdvances DEF Advances
  <2>2. \A q \in Proc \ {p} : Sound(q)'
    BY <2>1, OthersSound, CallInvParts DEF Parts
  <2> QED
    BY <2>1, <2>2, CallInvNext DEF Parts
<1> QED
  BY <1>1, <1>2, SurroundingsKeep DEF Next

LEMMA CallsHold == Spec => []CallInv
BY CallInvInit, CallInvStep, PTL DEF Spec

\* The types: in particular, a call works on what it could parse, and every
\* key that is generated is a new one.
THEOREM LegacyTypes == Spec => []TypeOK
<1>1. CallInv => TypeOK
  BY DEF CallInv
<1> QED
  BY <1>1, CallsHold, PTL

\* What Provision returns belongs together, is trusted, for localhost and
\* current, however calls overlap, fail, die or find damaged files.
THEOREM LegacyMaterialFits == Spec => []LegacyMaterialCoherent
<1>1. CallInv => LegacyMaterialCoherent
  BY DEF CallInv, LegacyMaterialCoherent, Fitting, Current, Using
<1> QED
  BY <1>1, CallsHold, PTL

--------------------------------------------------------------------------
(* A single caller and its files *)

LEMMA OneCaller ==
  ASSUME Undisturbed, NEW p \in sit.callers, NEW q \in sit.callers, StoreOK
  PROVE  p = q
<1>1. sit.callers \subseteq Proc /\ IsFiniteSet(Proc)
  BY LegacyAssumption, ContentAssumption DEF StoreOK
<1>2. IsFiniteSet(sit.callers) /\ Cardinality(sit.callers) = 1
  BY <1>1, FS_Subset DEF Undisturbed
<1>3. PICK c : sit.callers = {c}
  BY <1>2, FS_Singleton
<1> QED
  BY <1>3

\* A process in a call is the caller, and all others are idle.
Caller(p) == p \in sit.callers /\ \A q \in Proc \ {p} : pc[q] = "idle"

LEMMA CallerAlone ==
  ASSUME StoreOK, SoloInv, Undisturbed, NEW p \in sit.callers
  PROVE  Caller(p)
BY OneCaller DEF SoloInv, Caller

LEMMA StepOfCaller ==
  ASSUME SoloInv, NEW p \in Proc, Call(p) \/ Provision(p) \/ Crash(p)
  PROVE  p \in sit.callers
BY DEF SoloInv, Call, Provision, Crash, allFilesExist, anyFileExists, generate, Read, Check,
       Renew, Write, InstallTrust, Finish

\* A step that is not a write leaves the files, and only an installation
\* changes the root.
LEMMA Untouched ==
  ASSUME NEW p \in Proc, Call(p) \/ Provision(p) \/ Crash(p)
  PROVE  /\ Write(p) \/ UNCHANGED file
         /\ InstallTrust(p) \/ UNCHANGED root
         /\ Write(p) \/ Crash(p) \/ UNCHANGED torn
         /\ overlooked => overlooked'
         /\ UNCHANGED now
<1>1. CASE Call(p) \/ Crash(p) \/ allFilesExist(p) \/ generate(p) \/ Read(p) \/ Check(p)
           \/ Renew(p) \/ Finish(p)
  BY <1>1 DEF Call, Crash, allFilesExist, generate, Read, Check, Renew, Finish
<1>2. CASE anyFileExists(p) \/ Write(p) \/ InstallTrust(p)
  BY <1>2 DEF anyFileExists, Write, InstallTrust
<1> QED
  BY <1>1, <1>2 DEF Provision

\* A write that succeeds, and one that does not.
WriteDone(p) ==
  /\ file' = [file EXCEPT ![Head(rest[p])] = mem[p][Head(rest[p])]]
  /\ rest'[p] = Tail(rest[p]) /\ UNCHANGED <<mem, torn, faults>>
  /\ pc'[p] = IF Tail(rest[p]) # << >> THEN pc[p]
              ELSE IF pc[p] = "write" THEN "install" ELSE "done"

WriteFailed(p) ==
  pc'[p] = "idle" /\ torn' = (torn \/ Between(p)) /\ UNCHANGED file

LEMMA WriteCases ==
  ASSUME WorkOK, NEW p \in Proc, Write(p)
  PROVE  WriteDone(p) \/ WriteFailed(p)
BY DEF Write, WriteDone, WriteFailed, WorkOK, Goto, Return

\* What the list of a writing call says.
LEMMA WriteList ==
  ASSUME Parts, NEW p \in Proc, Write(p)
  PROVE  /\ pc[p] \in {"write", "rewrite"} /\ Head(rest[p]) \in File
         /\ \A f \in File : mem[p][f] \in Content(f) /\ mem[p][f] # None
         /\ CAPair(mem[p]) /\ ServerPair(mem[p]) /\ Issued(mem[p])
         /\ pc[p] = "write" => rest[p] \in Remaining
         /\ pc[p] = "rewrite" =>
              \/ /\ rest[p] = RenewedFiles /\ Head(rest[p]) = serverCertFile
                 /\ Tail(rest[p]) = <<serverKeyFile>>
              \/ rest[p] = <<serverKeyFile>> /\ Head(rest[p]) = serverKeyFile /\ Tail(rest[p]) = << >>
<1>1. Sound(p) /\ WorkOK /\ pc[p] \in {"write", "rewrite"}
  BY DEF Parts, Write
<1>2. /\ Head(RenewedFiles) = serverCertFile /\ Tail(RenewedFiles) = <<serverKeyFile>>
      /\ Head(<<serverKeyFile>>) = serverKeyFile /\ Tail(<<serverKeyFile>>) = << >>
  BY DEF RenewedFiles
<1>3. Listed(p) /\ Fitting(p)
  BY <1>1 DEF Sound
<1>4. \A f \in File : mem[p][f] # None
  BY <1>1, <1>3 DEF Fitting, Using
<1>5. \A f \in File : mem[p][f] \in Content(f)
  BY <1>1, <1>4 DEF WorkOK
<1>6. CAPair(mem[p]) /\ ServerPair(mem[p]) /\ Issued(mem[p])
  BY <1>1, <1>3 DEF Fitting, Using
<1>7. pc[p] = "write" => rest[p] \in Remaining
  BY <1>3 DEF Listed
<1>8. pc[p] = "rewrite" => rest[p] \in {RenewedFiles, <<serverKeyFile>>}
  BY <1>3 DEF Listed
<1>9. Head(rest[p]) \in File
  BY <1>1, <1>2, <1>7, <1>8, ListOfFiles
<1> QED
  BY <1>1, <1>2, <1>4, <1>5, <1>6, <1>7, <1>8, <1>9

\* Files are all there when all are of their content.
LEMMA AllThere ==
  ASSUME NEW content, \A f \in File : content[f] \in Content(f)
  PROVE  \A f \in File : content[f] # None /\ content[f] # Corrupt
BY ContentAssumption DEF Content

\* What a first provisioning has written is what it holds.
LEMMA WrittenStep ==
  ASSUME Parts, Parts', SoloInv, Undisturbed, NEW p \in Proc,
         Call(p) \/ Provision(p) \/ Crash(p), Written(p), Frame(p)
  PROVE  Written(p)'
<1> WorkOK /\ StoreOK /\ WorkOK' /\ StoreOK' /\ Sound(p)
  BY DEF Parts
<1>1. CASE Write(p)
  <2>1. CASE WriteFailed(p)
    BY <2>1 DEF WriteFailed, Written
  <2>2. CASE WriteDone(p) /\ pc[p] = "rewrite"
    BY <1>1, <2>2 DEF WriteDone, Written
  <2>3. CASE WriteDone(p) /\ pc[p] = "write"
    <3> DEFINE f == Head(rest[p])
    <3>1. /\ f \in File /\ rest[p] \in Remaining
          /\ \A g \in File \ Ahead(rest[p]) : file[g] = mem[p][g]
      BY <1>1, <2>3, WriteList DEF Written, Pending
    <3>2. \A g \in File \ (Ahead(rest[p]) \ {f}) : file'[g] = mem[p][g]
      BY <2>3, <3>1 DEF WriteDone, StoreOK
    <3>3. CASE Tail(rest[p]) = << >>
      <4>1. Ahead(rest[p]) = {f}
        BY <3>1, <3>3, ListOfFiles
      <4>2. \A g \in File : file'[g] = mem'[p][g]
        BY <2>3, <3>2, <4>1 DEF WriteDone
      <4>3. file' \in [File -> Value] /\ mem'[p] \in [File -> Value]
        BY DEF WorkOK, StoreOK
      <4>4. file' = mem'[p]
        BY <4>2, <4>3
      <4> QED
        BY <2>3, <3>3, <4>4 DEF WriteDone, Written
    <3>4. CASE Tail(rest[p]) # << >>
      <4>1. Ahead(Tail(rest[p])) = Ahead(rest[p]) \ {f}
        BY <3>1, <3>4, ListOfFiles
      <4> HIDE DEF f
      <4> QED
        BY <2>3, <3>2, <3>4, <4>1 DEF WriteDone, Written, Pending
    <3> QED
      BY <3>3, <3>4
  <2> QED
    BY <1>1, <2>1, <2>2, <2>3, WriteCases, WriteList
<1>2. CASE generate(p)
  <2>1. pc'[p] = "write" => rest'[p] = AllFiles
    BY <1>2 DEF generate, Goto, Return, WorkOK
  <2>2. Ahead(AllFiles) = File
    BY DEF Ahead, AllFiles
  <2>3. pc'[p] # "install"
    BY <1>2 DEF generate, Goto, Return, WorkOK
  <2> QED
    BY <2>1, <2>2, <2>3 DEF Written, Pending
<1>3. CASE ~Write(p) /\ ~generate(p)
  <2>1. pc'[p] \notin {"write", "install"}
    BY <1>3 DEF Call, Provision, Crash, allFilesExist, anyFileExists, Read, Check,
                Renew, InstallTrust, Finish, Goto, Return, WorkOK
  <2> QED
    BY <2>1 DEF Written
<1> QED
  BY <1>1, <1>2, <1>3

\* What holds of the files and of the caller between two of its steps.
Settled(p) == OrderInv /\ FilesInv /\ FirstCall(p) /\ Reload(p)

\* While nothing is written, the files keep what holds of them, unless a
\* renewal ends between its writes and this is not recorded.
LEMMA FilesUntouched ==
  ASSUME NEW p \in Proc, Caller(p), Frame(p), OrderInv, FilesInv, UNCHANGED <<file, root>>,
         torn => torn', Between(p) => torn' \/ Between(p)'
  PROVE  OrderInv' /\ FilesInv'
<1>1. ASSUME NEW q \in Proc, Between(q) PROVE q = p
  BY <1>1 DEF Caller, Between
<1>2. (\E q \in Proc : Between(q)) => torn' \/ \E q \in Proc : Between(q)'
  BY <1>1
<1>3. UNCHANGED Existing
  BY DEF Existing
<1>4. OrderInv'
  BY <1>3 DEF OrderInv
<1>5. (CAPair(file) /\ Issued(file))' <=> CAPair(file) /\ Issued(file)
  BY DEF CAPair, Issued
<1>6. ServerPair(file)' <=> ServerPair(file)
  BY DEF ServerPair
<1> QED
  BY <1>2, <1>3, <1>4, <1>5, <1>6 DEF FilesInv

\* A call that takes the files for none, and overlooks nothing, is right.
LEMMA LookingSettles ==
  ASSUME Parts, Parts', ~overlooked', NEW p \in Proc, Caller(p), Frame(p), Settled(p),
         Call(p) \/ allFilesExist(p) \/ anyFileExists(p)
  PROVE  Settled(p)'
<1> WorkOK /\ StoreOK
  BY DEF Parts
<1>1. UNCHANGED <<file, root, torn>> /\ ~Between(p)
  BY DEF Call, allFilesExist, anyFileExists, Between
<1>2. OrderInv' /\ FilesInv'
  BY <1>1, FilesUntouched DEF Settled
<1>3. CASE Call(p)
  BY <1>2, <1>3 DEF Call, Settled, FirstCall, Reload, WorkOK
<1>4. CASE allFilesExist(p)
  <2>1. CASE Goto(p, "any") /\ UNCHANGED rest
    <3>1. pc'[p] = "any"
      BY <2>1 DEF Goto, WorkOK
    <3> QED
      BY <1>2, <3>1 DEF Settled, FirstCall, Reload
  <2>2. CASE Goto(p, "read") /\ rest' = [rest EXCEPT ![p] = AllFiles]
    <3>1. pc'[p] = "read" /\ rest'[p] = AllFiles
      BY <2>2 DEF Goto, WorkOK
    <3>2. Ahead(AllFiles) = File
      BY DEF AllFiles, Ahead
    <3> QED
      BY <1>2, <3>1, <3>2 DEF Settled, FirstCall, Reload, Pending
  <2> QED
    BY <1>4, <2>1, <2>2 DEF allFilesExist
<1>5. CASE anyFileExists(p)
  <2>1. CASE Return(p, "incomplete")
    <3>1. pc'[p] = "idle"
      BY <2>1 DEF Return, WorkOK
    <3> QED
      BY <1>2, <3>1 DEF Settled, FirstCall, Reload
  <2>2. CASE Existing = {} /\ Goto(p, "generate")
    <3>1. pc'[p] = "generate"
      BY <2>2 DEF Goto, WorkOK
    <3>2. file'[serverKeyFile] = None
      BY <1>1, <2>2 DEF Existing
    <3> QED
      BY <1>2, <3>1, <3>2 DEF Settled, FirstCall, Reload
  <2> QED
    BY <1>5, <2>1, <2>2 DEF anyFileExists
<1> QED
  BY <1>3, <1>4, <1>5

\* The CA of a first provisioning is a new one.
LEMMA GenerateSettles ==
  ASSUME Parts, Parts', NEW p \in Proc, Caller(p), Frame(p), Settled(p), generate(p)
  PROVE  Settled(p)'
<1> WorkOK /\ StoreOK
  BY DEF Parts
<1>1. UNCHANGED <<file, root, torn>> /\ ~Between(p) /\ pc[p] = "generate"
  BY DEF generate, Between
<1>2. OrderInv' /\ FilesInv'
  BY <1>1, FilesUntouched DEF Settled
<1>3. CASE Return(p, "error")
  <2>1. pc'[p] = "idle"
    BY <1>3 DEF Return, WorkOK
  <2> QED
    BY <1>2, <2>1 DEF Settled, FirstCall, Reload
<1>4. CASE ~Return(p, "error")
  <2> DEFINE caKey     == NewKey(UsedKeys)
             serverKey == NewKey(UsedKeys \cup {caKey})
             ca        == createCACertSelfSigned(caKey, now, caKey)
             server    == createServerCertWithPub(now, ca, caKey, serverKey)
  <2>1. caKey \in Nat /\ caKey \notin UsedKeys /\ \A c \in root : c.key \in UsedKeys
    BY KeysInUse, KeyIsNew DEF StoreOK
  <2>2. /\ mem' = [mem EXCEPT ![p][caCertFile] = ca, ![p][caKeyFile] = caKey,
                              ![p][serverCertFile] = server, ![p][serverKeyFile] = serverKey]
        /\ Goto(p, "write")
    BY <1>4 DEF generate
  <2> HIDE DEF caKey, serverKey
  <2>3. ca.key = caKey
    BY <2>1, Bounds, CACertificate
  <2> HIDE DEF ca, server
  <2>4. mem'[p][caCertFile] = ca /\ pc'[p] = "write"
    BY <2>2 DEF WorkOK, Goto
  <2>5. ca \notin root'
    BY <1>1, <2>1, <2>3
  <2>6. file'[serverKeyFile] = None
    BY <1>1 DEF Settled, FirstCall
  <2> QED
    BY <1>2, <2>4, <2>5, <2>6 DEF Settled, FirstCall, Reload
<1> QED
  BY <1>3, <1>4

\* What a call reads is what is on disk.
LEMMA ReadSettles ==
  ASSUME Parts, Parts', NEW p \in Proc, Caller(p), Frame(p), Settled(p), Read(p)
  PROVE  Settled(p)'
<1> WorkOK /\ StoreOK /\ WorkOK' /\ StoreOK' /\ Listed(p)
  BY DEF Parts, Sound
<1>1. UNCHANGED <<file, root, torn>> /\ ~Between(p) /\ pc[p] = "read"
  BY DEF Read, Between
<1>2. OrderInv' /\ FilesInv'
  BY <1>1, FilesUntouched DEF Settled
<1>3. CASE Return(p, "error")
  <2>1. pc'[p] = "idle"
    BY <1>3 DEF Return, WorkOK
  <2> QED
    BY <1>2, <2>1 DEF Settled, FirstCall, Reload
<1>4. CASE ~Return(p, "error")
  <2> DEFINE f == Head(rest[p])
  <2>1. rest[p] \in Remaining /\ f \in File
    BY <1>1, ListOfFiles DEF Listed
  <2>2. /\ mem' = [mem EXCEPT ![p] = [mem[p] EXCEPT ![f] = file[f]]]
        /\ rest' = [rest EXCEPT ![p] = Tail(@)]
        /\ Goto(p, IF Tail(rest[p]) = << >> THEN "check" ELSE "read")
    BY <1>4 DEF Read
  <2>3. \A g \in File \ Ahead(rest[p]) : file[g] = mem[p][g]
    BY <1>1 DEF Settled, Reload, Pending
  <2>4. /\ Tail(rest[p]) = << >> => Ahead(rest[p]) = {f}
        /\ Tail(rest[p]) # << >> => Ahead(Tail(rest[p])) = Ahead(rest[p]) \ {f}
    BY <2>1, ListOfFiles
  <2> HIDE DEF f
  <2>5. mem'[p] = [mem[p] EXCEPT ![f] = file[f]] /\ rest'[p] = Tail(rest[p])
    BY <2>2 DEF WorkOK
  <2>6. mem'[p] \in [File -> Value] /\ mem[p] \in [File -> Value] /\ file' \in [File -> Value]
    BY DEF WorkOK, StoreOK
  <2>7. \A g \in File \ (Ahead(rest[p]) \ {f}) : file'[g] = mem'[p][g]
    BY <1>1, <2>1, <2>3, <2>5, <2>6
  <2>8. CASE Tail(rest[p]) = << >>
    <3>1. \A g \in File : file'[g] = mem'[p][g]
      BY <2>4, <2>7, <2>8
    <3>2. file' = mem'[p]
      BY <2>6, <3>1
    <3>3. pc'[p] = "check"
      BY <2>2, <2>8 DEF Goto, WorkOK
    <3> QED
      BY <1>2, <3>2, <3>3 DEF Settled, FirstCall, Reload
  <2>9. CASE Tail(rest[p]) # << >>
    <3>1. pc'[p] = "read"
      BY <2>2, <2>9 DEF Goto, WorkOK
    <3>2. \A g \in File \ Ahead(rest'[p]) : file'[g] = mem'[p][g]
      BY <2>4, <2>5, <2>7, <2>9
    <3> QED
      BY <1>2, <3>1, <3>2 DEF Settled, FirstCall, Reload, Pending
  <2> QED
    BY <2>8, <2>9
<1> QED
  BY <1>3, <1>4

LEMMA CheckSettles ==
  ASSUME Parts, Parts', NEW p \in Proc, Caller(p), Frame(p), Settled(p), Check(p)
  PROVE  Settled(p)'
<1> WorkOK /\ StoreOK
  BY DEF Parts
<1>1. UNCHANGED <<file, root, torn>> /\ ~Between(p) /\ pc[p] = "check"
  BY DEF Check, Between
<1>2. OrderInv' /\ FilesInv'
  BY <1>1, FilesUntouched DEF Settled
<1>3. CASE Fails(p)
  <2>1. pc'[p] = "idle"
    BY <1>3 DEF Fails, Return, WorkOK
  <2> QED
    BY <1>2, <2>1 DEF Settled, FirstCall, Reload
<1>4. CASE ~Fails(p)
  <2>1. pc'[p] = "renew" /\ UNCHANGED mem
    BY <1>4 DEF Check, Goto, WorkOK, Fails, Failure, Advice
  <2> QED
    BY <1>1, <1>2, <2>1 DEF Settled, FirstCall, Reload
<1> QED
  BY <1>3, <1>4

\* A renewal starts from four files, and keeps the CA.
LEMMA RenewSettles ==
  ASSUME Parts, Parts', NEW p \in Proc, Caller(p), Frame(p), Settled(p), Renew(p)
  PROVE  Settled(p)'
<1> WorkOK /\ StoreOK /\ Fitting(p)
  BY DEF Parts, Sound
<1>1. UNCHANGED <<file, root, torn>> /\ ~Between(p) /\ pc[p] = "renew"
  BY DEF Renew, Between
<1>2. OrderInv' /\ FilesInv'
  BY <1>1, FilesUntouched DEF Settled
<1>3. CASE Fails(p)
  <2>1. pc'[p] = "idle"
    BY <1>3 DEF Fails, Return, WorkOK
  <2> QED
    BY <1>2, <2>1 DEF Settled, FirstCall, Reload
<1>4. CASE Goto(p, "done")
  <2>1. pc'[p] = "done"
    BY <1>4 DEF Goto, WorkOK
  <2> QED
    BY <1>2, <2>1 DEF Settled, FirstCall, Reload
<1>5. CASE ~Fails(p) /\ ~Goto(p, "done")
  <2> DEFINE new == createServerCertWithPub(now, mem[p][caCertFile], mem[p][caKeyFile],
                                            NewKey(UsedKeys))
             key == NewKey(UsedKeys)
  <2>1. /\ mem' = [mem EXCEPT ![p][serverCertFile] = new, ![p][serverKeyFile] = key]
        /\ rest' = [rest EXCEPT ![p] = RenewedFiles] /\ Goto(p, "rewrite")
    BY <1>5 DEF Renew, Fails, Failure, Advice
  <2> HIDE DEF new, key
  <2>2. /\ mem'[p][caCertFile] = mem[p][caCertFile] /\ mem'[p][caKeyFile] = mem[p][caKeyFile]
        /\ pc'[p] = "rewrite" /\ rest'[p] = RenewedFiles
    BY <2>1 DEF WorkOK, Goto
  <2>3. rest'[p] # <<serverKeyFile>>
    BY <2>2 DEF RenewedFiles
  <2>4. file = mem[p] /\ \A f \in File : mem[p][f] # None
    BY <1>1 DEF Settled, Reload, Fitting, Using
  <2>5. Existing' = File
    BY <1>1, <2>4 DEF Existing
  <2> QED
    BY <1>1, <1>2, <2>2, <2>3, <2>4, <2>5 DEF Settled, FirstCall, Reload, Between
<1> QED
  BY <1>3, <1>4, <1>5

\* A call that ends may leave a renewal torn.
LEMMA EndSettles ==
  ASSUME Parts, NEW p \in Proc, Caller(p), Frame(p), Settled(p),
         Finish(p) \/ Crash(p)
  PROVE  Settled(p)'
<1> WorkOK /\ StoreOK
  BY DEF Parts
<1>1. UNCHANGED <<file, root>> /\ pc'[p] = "idle"
  BY DEF Finish, Crash, Return, WorkOK
<1>2. (torn => torn') /\ (Between(p) => torn')
  <2>1. CASE Finish(p)
    <3>1. UNCHANGED torn /\ ~Between(p)
      BY <2>1 DEF Finish, Between
    <3> QED
      BY <3>1
  <2>2. CASE Crash(p)
    <3>1. torn' = (torn \/ Between(p))
      BY <2>2 DEF Crash
    <3> QED
      BY <3>1
  <2> QED
    BY <2>1, <2>2
<1>3. OrderInv' /\ FilesInv'
  BY <1>1, <1>2, FilesUntouched DEF Settled
<1> QED
  BY <1>1, <1>3 DEF Settled, FirstCall, Reload

\* The anchor is installed after the files, which are all there and fit.
LEMMA InstallSettles ==
  ASSUME Parts, NEW p \in Proc, Caller(p), Frame(p), Settled(p), Written(p), InstallTrust(p)
  PROVE  Settled(p)'
<1> WorkOK /\ StoreOK /\ Fitting(p)
  BY DEF Parts, Sound
<1>1. UNCHANGED <<file, torn>> /\ pc[p] = "install" /\ ~Between(p)
  BY DEF InstallTrust, Between
<1>2. pc'[p] \in {"done", "idle"} /\ (UNCHANGED root \/ root' = root \cup {mem[p][caCertFile]})
  BY DEF InstallTrust, Goto, Return, WorkOK
<1>3. file = mem[p] /\ (\A f \in File : mem[p][f] # None)
  BY <1>1 DEF Written, Fitting, Using
<1>4. Existing = File
  BY <1>3 DEF Existing
<1>5. ~\E q \in Proc : Between(q)
  BY <1>1 DEF Caller, Between
<1>6. OrderInv' /\ FilesInv'
  <2>1. Existing' = File
    BY <1>1, <1>4 DEF Existing
  <2>2. CAPair(file') /\ Issued(file') /\ (torn' \/ ServerPair(file'))
    BY <1>1, <1>4, <1>5 DEF Settled, FilesInv
  <2>3. Corrupt \notin {file'[f] : f \in File}
    BY <1>1, <1>4 DEF Settled, FilesInv
  <2> QED
    BY <2>1, <2>2, <2>3 DEF OrderInv, FilesInv, CAPair, Issued, ServerPair
<1> QED
  BY <1>2, <1>6 DEF Settled, FirstCall, Reload

\* The last file of a first provisioning completes a set that fits; before it
\* no trusted CA is on disk.
LEMMA FirstWriteSettles ==
  ASSUME Parts, NEW p \in Proc, Caller(p), Frame(p), Settled(p), Written(p), Write(p),
         WriteDone(p), pc[p] = "write"
  PROVE  Settled(p)'
<1> DEFINE f == Head(rest[p])
<1>1. /\ f \in File /\ rest[p] \in Remaining
      /\ \A g \in File : mem[p][g] \in Content(g) /\ mem[p][g] # None
      /\ CAPair(mem[p]) /\ ServerPair(mem[p]) /\ Issued(mem[p])
  BY WriteList
<1>2. /\ Tail(rest[p]) = << >> <=> f = serverKeyFile
      /\ f = serverKeyFile => Ahead(rest[p]) = {serverKeyFile}
  BY <1>1, ListOfFiles
<1>3. /\ \A g \in File \ Ahead(rest[p]) : file[g] = mem[p][g]
      /\ file[serverKeyFile] = None /\ mem[p][caCertFile] \notin root /\ UNCHANGED root
  BY DEF Written, Pending, Settled, FirstCall, Write
<1>4. file \in [File -> Value]
  BY DEF Parts, StoreOK
<1> HIDE DEF f
<1>5. /\ file'[f] = mem[p][f] /\ \A g \in File \ {f} : file'[g] = file[g]
  BY <1>1, <1>4 DEF WriteDone, f
<1>6. file[caCertFile] \notin root
  BY <1>3 DEF Settled, FilesInv, Existing
<1>7. CASE f = serverKeyFile
  <2>1. \A g \in File : file'[g] = mem[p][g]
    BY <1>2, <1>3, <1>5, <1>7
  <2>2. Existing' = File
    BY <1>1, <2>1 DEF Existing
  <2>3. Corrupt \notin {file'[g] : g \in File}
    BY <1>1, <2>1, AllThere
  <2>4. CAPair(file') /\ Issued(file') /\ ServerPair(file')
    BY <1>1, <2>1 DEF CAPair, Issued, ServerPair
  <2>5. pc'[p] = "install"
    BY <1>2, <1>7 DEF WriteDone, f
  <2>6. OrderInv' /\ FilesInv'
    BY <2>2, <2>3, <2>4 DEF OrderInv, FilesInv, CAPair, Issued, ServerPair
  <2> QED
    BY <2>5, <2>6 DEF Settled, FirstCall, Reload
<1>8. CASE f # serverKeyFile
  <2>1. file'[serverKeyFile] = None
    BY <1>3, <1>5, <1>8
  <2>2. file'[caCertFile] \notin root'
    BY <1>3, <1>5, <1>6
  <2>3. OrderInv' /\ FilesInv'
    BY <2>1, <2>2 DEF OrderInv, FilesInv, Existing
  <2>4. pc'[p] = "write" /\ UNCHANGED mem
    BY <1>2, <1>8 DEF WriteDone, f
  <2> QED
    BY <1>3, <2>1, <2>3, <2>4 DEF Settled, FirstCall, Reload
<1> QED
  BY <1>7, <1>8

\* A renewal replaces the server's certificate and then its key.
LEMMA RenewalWriteSettles ==
  ASSUME Parts, NEW p \in Proc, Caller(p), Frame(p), Settled(p), Write(p),
         WriteDone(p), pc[p] = "rewrite"
  PROVE  Settled(p)'
<1>1. /\ \A g \in File : mem[p][g] \in Content(g) /\ mem[p][g] # None
      /\ CAPair(mem[p]) /\ ServerPair(mem[p]) /\ Issued(mem[p])
  BY WriteList
<1>2. /\ Existing = File /\ UNCHANGED <<root, mem>>
      /\ file[caCertFile] = mem[p][caCertFile] /\ file[caKeyFile] = mem[p][caKeyFile]
      /\ Between(p) => file[serverCertFile] = mem[p][serverCertFile]
  BY DEF Settled, Reload, Write, WriteDone
<1>3. file \in [File -> Value] /\ Corrupt \notin {file[g] : g \in File}
  BY <1>2 DEF Parts, StoreOK, Settled, FilesInv
<1>4. CASE Head(rest[p]) = serverCertFile /\ Tail(rest[p]) = <<serverKeyFile>>
  <2>1. /\ file'[serverCertFile] = mem[p][serverCertFile]
        /\ \A g \in File \ {serverCertFile} : file'[g] = file[g]
    BY <1>3, <1>4 DEF WriteDone
  <2>2. Existing' = File
    BY <1>1, <1>2, <2>1 DEF Existing
  <2>3. Corrupt \notin {file'[g] : g \in File}
    <3>1. mem[p][serverCertFile] # Corrupt
      BY <1>1, AllThere
    <3> QED
      BY <1>3, <2>1, <3>1
  <2>4. CAPair(file') /\ Issued(file')
    BY <1>1, <1>2, <2>1 DEF CAPair, Issued
  <2>5. pc'[p] = "rewrite" /\ rest'[p] = <<serverKeyFile>>
    <3>1. <<serverKeyFile>> # << >>
      OBVIOUS
    <3> QED
      BY <1>4, <3>1 DEF WriteDone
  <2>6. Between(p)'
    BY <2>5 DEF Between
  <2>7. OrderInv' /\ FilesInv'
    BY <2>2, <2>3, <2>4, <2>6 DEF OrderInv, FilesInv, CAPair, Issued
  <2>8. Reload(p)'
    BY <1>2, <2>1, <2>2, <2>5 DEF Reload
  <2> QED
    BY <2>5, <2>7, <2>8 DEF Settled, FirstCall
<1>5. CASE /\ rest[p] = <<serverKeyFile>> /\ Head(rest[p]) = serverKeyFile
           /\ Tail(rest[p]) = << >>
  <2>1. /\ file'[serverKeyFile] = mem[p][serverKeyFile]
        /\ \A g \in File \ {serverKeyFile} : file'[g] = file[g]
    BY <1>3, <1>5 DEF WriteDone
  <2>2. \A g \in File : file'[g] = mem[p][g]
    BY <1>2, <1>5, <2>1 DEF Between
  <2>3. Existing' = File
    BY <1>1, <2>2 DEF Existing
  <2>4. Corrupt \notin {file'[g] : g \in File}
    BY <1>1, <2>2, AllThere
  <2>5. CAPair(file') /\ Issued(file') /\ ServerPair(file')
    BY <1>1, <2>2 DEF CAPair, Issued, ServerPair
  <2>6. OrderInv' /\ FilesInv'
    BY <2>3, <2>4, <2>5 DEF OrderInv, FilesInv, CAPair, Issued, ServerPair
  <2>7. pc'[p] = "done"
    BY <1>5 DEF WriteDone
  <2> QED
    BY <2>6, <2>7 DEF Settled, FirstCall, Reload
<1> QED
  BY <1>4, <1>5, WriteList

LEMMA WriteSettles ==
  ASSUME Parts, NEW p \in Proc, Caller(p), Frame(p), Settled(p), Written(p), Write(p)
  PROVE  Settled(p)'
<1> WorkOK /\ StoreOK
  BY DEF Parts
<1>1. CASE WriteFailed(p)
  <2>1. UNCHANGED <<file, root>> /\ pc'[p] = "idle"
    BY <1>1 DEF Write, WriteFailed
  <2>2. (torn => torn') /\ (Between(p) => torn')
    BY <1>1 DEF WriteFailed
  <2>3. OrderInv' /\ FilesInv'
    BY <2>1, <2>2, FilesUntouched DEF Settled
  <2> QED
    BY <2>1, <2>3 DEF Settled, FirstCall, Reload
<1> QED
  BY <1>1, WriteCases, WriteList, FirstWriteSettles, RenewalWriteSettles

\* An idle process claims nothing about the files.
LEMMA IdleClaimsNothing ==
  ASSUME NEW p \in Proc, pc[p] = "idle"
  PROVE  Written(p) /\ FirstCall(p) /\ Reload(p) /\ ~Between(p)
BY DEF Written, FirstCall, Reload, Between

\* SoloInv is kept by what a caller does ...
LEMMA CallerKeepsSolo ==
  ASSUME Parts, Parts', SoloInv, UNCHANGED sit, NEW p \in Proc,
         Call(p) \/ Provision(p) \/ Crash(p), Frame(p)
  PROVE  SoloInv'
<1> StoreOK
  BY DEF Parts
<1>1. p \in sit.callers
  BY StepOfCaller
<1>2. \A q \in Proc : pc'[q] # "idle" => q \in sit'.callers
  BY <1>1 DEF Frame, SoloInv
<1>3. Undisturbed' <=> Undisturbed
  BY DEF Undisturbed
<1>4. ASSUME Undisturbed PROVE \A q \in Proc : Written(q)'
  <2>1. Caller(p) /\ Written(p)
    BY <1>1, <1>4, CallerAlone DEF SoloInv
  <2>2. Written(p)'
    BY <1>4, <2>1, WrittenStep
  <2>3. ASSUME NEW q \in Proc \ {p} PROVE Written(q)'
    BY <2>1, <2>3 DEF Caller, Frame, Written
  <2> QED
    BY <2>2, <2>3
<1>5. ASSUME Undisturbed, ~overlooked'
      PROVE  (OrderInv /\ FilesInv /\ \A q \in Proc : FirstCall(q) /\ Reload(q))'
  <2> ~overlooked
    BY <1>5, Untouched
  <2>1. Caller(p) /\ Written(p) /\ Settled(p)
    BY <1>1, <1>5, CallerAlone DEF SoloInv, Settled
  <2>2. Settled(p)'
    BY <1>5, <2>1, LookingSettles, GenerateSettles, ReadSettles, CheckSettles, RenewSettles,
       WriteSettles, InstallSettles, EndSettles DEF Provision
  <2>3. ASSUME NEW q \in Proc \ {p} PROVE FirstCall(q)' /\ Reload(q)'
    BY <2>1, <2>3 DEF Caller, Frame, FirstCall, Reload
  <2> QED
    BY <2>2, <2>3 DEF Settled
<1> QED
  BY <1>2, <1>3, <1>4, <1>5 DEF SoloInv

\* ... and by the surroundings, which remove the files only between calls.
LEMMA SurroundingsKeepSolo ==
  ASSUME Parts, SoloInv, UNCHANGED sit, RemoveDirectory \/ Tick \/ Damage \/ UNCHANGED vars
  PROVE  SoloInv'
<1> WorkOK /\ StoreOK
  BY DEF Parts
<1>1. UNCHANGED <<root, pc, mem, rest>>
  BY DEF RemoveDirectory, Tick, Damage, vars, work
<1>2. \A q \in Proc : pc'[q] # "idle" => q \in sit'.callers
  BY <1>1 DEF SoloInv
<1>3. Undisturbed' <=> Undisturbed
  BY DEF Undisturbed
<1>4. CASE UNCHANGED <<file, torn, overlooked>>
  <2>1. UNCHANGED Existing /\ \A q \in Proc : UNCHANGED Between(q)
    BY <1>1, <1>4 DEF Existing, Between
  <2>2. \A q \in Proc : Written(q) => Written(q)'
    BY <1>1, <1>4 DEF Written, Pending
  <2>3. \A q \in Proc : FirstCall(q) => FirstCall(q)'
    BY <1>1, <1>4 DEF FirstCall
  <2>4. \A q \in Proc : Reload(q) => Reload(q)'
    BY <1>1, <1>4, <2>1 DEF Reload, Pending
  <2>5. OrderInv => OrderInv'
    BY <1>4, <2>1 DEF OrderInv
  <2>6. FilesInv => FilesInv'
    <3>1. \A q \in Proc : Between(q)' <=> Between(q)
      BY <1>1 DEF Between
    <3>2. /\ CAPair(file)' <=> CAPair(file)
          /\ Issued(file)' <=> Issued(file)
          /\ ServerPair(file)' <=> ServerPair(file)
      BY <1>4 DEF CAPair, Issued, ServerPair
    <3> QED
      BY <1>1, <1>4, <2>1, <3>1, <3>2 DEF FilesInv
  <2> QED
    BY <1>2, <1>3, <1>4, <2>2, <2>3, <2>4, <2>5, <2>6 DEF SoloInv
<1>5. CASE RemoveDirectory
  <2>1. \A q \in Proc : pc'[q] = "idle"
    BY <1>1, <1>5 DEF RemoveDirectory
  <2>2. \A q \in Proc : (Written(q) /\ FirstCall(q) /\ Reload(q))'
    BY <2>1 DEF Written, FirstCall, Reload
  <2>3. \A f \in File : file'[f] = None
    BY <1>5 DEF RemoveDirectory, Nothing
  <2>4. None \notin root'
    BY <1>1, ContentAssumption DEF StoreOK
  <2>5. OrderInv' /\ FilesInv'
    BY <2>3, <2>4 DEF OrderInv, FilesInv, Existing
  <2> QED
    BY <1>2, <2>2, <2>5 DEF SoloInv
<1>6. CASE Damage
  <2>1. ~Undisturbed'
    BY <1>6 DEF Damage, Fault, Undisturbed
  <2> QED
    BY <1>2, <2>1 DEF SoloInv
<1>7. CASE Tick \/ UNCHANGED vars
  BY <1>4, <1>7 DEF Tick, vars
<1> QED
  BY <1>5, <1>6, <1>7

LEMMA SoloInit == Init => SoloInv
<1> SUFFICES ASSUME Init PROVE SoloInv
  OBVIOUS
<1>1. \A p \in Proc : pc[p] = "idle"
  BY DEF Init
<1>2. OrderInv /\ FilesInv
  BY DEF Init, Nothing, OrderInv, FilesInv, Existing
<1> QED
  BY <1>1, <1>2, IdleClaimsNothing DEF SoloInv

LEMMA SoloStep == CallInv /\ CallInv' /\ SoloInv /\ [Next]_vars => SoloInv'
<1> SUFFICES ASSUME Parts, Parts', SoloInv, [Next]_vars PROVE SoloInv'
  <2>1. CallInv' => Parts'
    BY CallInvParts, PTL
  <2> QED
    BY <2>1, CallInvParts
<1>1. UNCHANGED sit
  BY DEF Next, vars
<1>2. ASSUME NEW p \in Proc, Call(p) \/ Provision(p) \/ Crash(p)
      PROVE  SoloInv'
  <2>1. Frame(p)
    BY <1>1, <1>2, ProvisionAdvances, CallInvParts DEF Advances
  <2> QED
    BY <1>1, <1>2, <2>1, CallerKeepsSolo
<1> QED
  BY <1>1, <1>2, SurroundingsKeepSolo DEF Next

LEMMA SoloHolds == Spec => []SoloInv
BY CallsHold, SoloInit, SoloStep, PTL DEF Spec

\* A single caller and a directory whose files no call has overlooked: four
\* files are a set that fits; only a renewal that was interrupted between its
\* two writes leaves the server key of another generation.
THEOREM FilesFit == Spec => []TornOnlyByRenewal
<1>1. SoloInv => TornOnlyByRenewal
  BY DEF SoloInv, FilesInv, TornOnlyByRenewal
<1> QED
  BY <1>1, SoloHolds, PTL

\* The one file that a successful write replaces.
LEMMA OnlyHeadWritten ==
  ASSUME Parts, NEW p \in Proc, Write(p), NEW f \in File \ {Head(rest[p])}
  PROVE  file'[f] = file[f]
BY DEF Parts, StoreOK, Write

\* With a single caller, and unless a call has overlooked the files, a CA
\* certificate that is on disk and trusted is not replaced: it stays until
\* somebody removes the directory.
THEOREM CAStays == Spec => CAPreserved
<1> DEFINE Kept == Undisturbed /\ ~overlooked /\ file[caCertFile] \in root
                     => file'[caCertFile] \in {file[caCertFile], None}
<1>1. ASSUME CallInv, SoloInv, [Next]_vars PROVE Kept
  <2> SUFFICES ASSUME Undisturbed, ~overlooked, file[caCertFile] \in root
               PROVE  file'[caCertFile] \in {file[caCertFile], None}
    OBVIOUS
  <2>1. Parts
    BY <1>1, CallInvParts
  <2>2. ASSUME NEW p \in Proc, Call(p) \/ Provision(p) \/ Crash(p)
        PROVE  file'[caCertFile] = file[caCertFile]
    <3>1. Write(p) \/ UNCHANGED file
      BY <2>2, Untouched
    <3>2. CASE Write(p)
      <4>1. file[serverKeyFile] # None
        BY <1>1 DEF SoloInv, FilesInv, Existing
      <4>2. pc[p] = "rewrite"
        BY <1>1, <2>1, <3>2, <4>1, WriteList DEF SoloInv, FirstCall
      <4>3. Head(rest[p]) # caCertFile
        BY <2>1, <3>2, <4>2, WriteList
      <4> QED
        BY <2>1, <3>2, <4>3, OnlyHeadWritten
    <3> QED
      BY <3>1, <3>2
  <2>3. CASE RemoveDirectory
    BY <2>3 DEF RemoveDirectory, Nothing
  <2>4. ~Damage
    BY DEF Damage, Fault, Undisturbed
  <2>5. CASE Tick \/ UNCHANGED vars
    BY <2>5 DEF Tick, vars
  <2> QED
    BY <1>1, <2>2, <2>3, <2>4, <2>5 DEF Next
<1>2. CallInv /\ SoloInv /\ [Next]_vars => [Kept]_vars
  BY <1>1
<1> QED
  BY <1>2, CallsHold, SoloHolds, PTL DEF Spec, CAPreserved

\* An anchor is installed after the four files that identify and serve it, and
\* by nothing but a first provisioning.
THEOREM AnchorsAfterFiles == Spec => AnchorsPersisted
<1> DEFINE Persisted == Undisturbed => \A ca \in root' \ root :
                          Existing = File /\ file[caCertFile] = ca /\ ServerPair(file)
<1>1. ASSUME CallInv, SoloInv, [Next]_vars PROVE Persisted
  <2> SUFFICES ASSUME Undisturbed, NEW ca \in root' \ root
               PROVE  Existing = File /\ file[caCertFile] = ca /\ ServerPair(file)
    OBVIOUS
  <2>1. PICK p \in Proc : InstallTrust(p)
    <3>1. ~UNCHANGED root
      OBVIOUS
    <3>2. UNCHANGED root \/ \E p \in Proc : Call(p) \/ Provision(p) \/ Crash(p)
      BY <1>1 DEF Next, RemoveDirectory, Tick, Damage, vars
    <3> QED
      BY <3>1, <3>2, Untouched
  <2>2. root' = root \cup {mem[p][caCertFile]} /\ pc[p] = "install"
    BY <2>1 DEF InstallTrust
  <2>3. file = mem[p]
    BY <1>1, <2>2 DEF SoloInv, Written
  <2>4. (\A f \in File : file[f] # None) /\ ServerPair(file)
    BY <1>1, <2>2, <2>3 DEF CallInv, Fitting, Using
  <2> QED
    BY <2>2, <2>3, <2>4 DEF Existing
<1>2. CallInv /\ SoloInv /\ [Next]_vars => [Persisted]_vars
  BY <1>1
<1> QED
  BY <1>2, CallsHold, SoloHolds, PTL DEF Spec, AnchorsPersisted
=============================================================================
