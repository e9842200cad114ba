-------------------------- MODULE LegacyProvision --------------------------
(***************************************************************************)
(* Provision (provision.go), the older path in which private keys are      *)
(* exported, protected by a Protector and kept in two files beside the two *)
(* certificates.  It provisions when all four files are missing, reloads   *)
(* when all four are there, and refuses what lies between.                 *)
(*                                                                         *)
(* Protection is undone by Unprotect, so a protected key is its key.       *)
(* Outside a call somebody may do what an error asks for, and remove the   *)
(* directory.  New keys differ from every key still in use.                *)
(***************************************************************************)
EXTENDS Certificates, Sequences, FiniteSets

CONSTANTS
  Proc,         \* the processes
  None,         \* an absent file
  Corrupt,      \* a file whose content does not parse, or cannot be unprotected
  Situation     \* who calls, which failures occur, and the bounds: maxFaults
                \* for failed calls, crashes and damaged files, maxTime for the
                \* clock, and the directory is removed while there are fewer
                \* than maxAnchors anchors

ASSUME LegacyAssumption ==
  Situation \subseteq
    [callers : SUBSET Proc, faults : SUBSET {"stat", "file", "trust", "crash", "damage"},
     maxFaults : Nat, maxTime : Nat, maxAnchors : Nat]

\* None and Corrupt are no content of a file, and a machine runs finitely
\* many processes.
ASSUME ContentAssumption ==
  /\ None # Corrupt /\ {None, Corrupt} \cap (CACert \cup ServerCert) = {}
  /\ {None, Corrupt} \cap Nat = {} /\ IsFiniteSet(Proc)

caCertFile     == "ca-cert.der"
caKeyFile      == "ca-key.enc"
serverCertFile == "server-cert.der"
serverKeyFile  == "server-key.enc"
AllFiles       == <<caCertFile, caKeyFile, serverCertFile, serverKeyFile>>
File           == {caCertFile, caKeyFile, serverCertFile, serverKeyFile}

\* Mutant: a renewal writes the key first.
RenewedFiles_keyFirst == <<serverKeyFile, serverCertFile>>

\* What a renewal writes, in this order.
RenewedFiles == <<serverCertFile, serverKeyFile>>

VARIABLES
  file,    \* the content of each file
  root,    \* the anchors in LocalMachine\Root
  now,     \* the clock
  pc,      \* what each process does next
  mem,     \* what it has read or made, by the file it belongs to
  rest,    \* the files it has still to read or write
  at,      \* the time it has read
  result,  \* what its last call returned
  torn,    \* has a renewal written the certificate and not the key?
  overlooked, \* has a call taken files that exist for none?
  faults,  \* how many of them there have been
  sit      \* the situation, which does not change

work == <<pc, mem, rest, at, result>>
vars == <<file, root, now, work, torn, overlooked, faults, sit>>

Nothing == [f \in File |-> None]

Init ==
  /\ file = Nothing /\ root = {} /\ now = 0
  /\ pc = [p \in Proc |-> "idle"] /\ mem = [p \in Proc |-> Nothing]
  /\ rest = [p \in Proc |-> << >>] /\ at = [p \in Proc |-> 0]
  /\ result = [p \in Proc |-> "none"]
  /\ torn = FALSE /\ overlooked = FALSE /\ faults = 0
  /\ sit \in Situation

Fault(kind) == kind \in sit.faults /\ faults < sit.maxFaults /\ faults' = faults + 1

\* The errors that say what to do, those that say what this path cannot do,
\* and the others.
Advice  == {"incomplete", "expired"}
Failure == Advice \cup {"untrusted", "error"}

Goto(p, step) == pc' = [pc EXCEPT ![p] = step] /\ UNCHANGED result

Return(p, r) ==
  /\ pc' = [pc EXCEPT ![p] = "idle"] /\ result' = [result EXCEPT ![p] = r]
  /\ mem' = [mem EXCEPT ![p] = Nothing] /\ rest' = [rest EXCEPT ![p] = << >>]
  /\ at' = [at EXCEPT ![p] = 0]

\* The keys in use, on disk, in memory and in the certificates.
Held(f) == ({file[f]} \cup {mem[p][f] : p \in Proc}) \ {None, Corrupt}
UsedKeys ==
  Held(caKeyFile) \cup Held(serverKeyFile)
    \cup {c.key : c \in root \cup Held(caCertFile)}
    \cup {c.key : c \in Held(serverCertFile)} \cup {c.issuer : c \in Held(serverCertFile)}

\* ecdsa.GenerateKey.
NewKey(used) == CHOOSE k \in 1..(Cardinality(used) + 1) : k \notin used

verifyKeyMatch(cert, key) == cert.key = key

Call(p) ==
  /\ pc[p] = "idle" /\ p \in sit.callers
  /\ pc' = [pc EXCEPT ![p] = "all"] /\ result' = [result EXCEPT ![p] = "none"]
  /\ UNCHANGED <<file, root, now, mem, rest, at, torn, overlooked, faults>>

\* The files whose names are in the directory.
Existing == {f \in File : file[f] # None}

\* Mutant: only the certificates are looked for.
allFilesExist_certificates(p) ==
  /\ pc[p] = "all"
  /\ IF {caCertFile, serverCertFile} \subseteq Existing
     THEN Goto(p, "read") /\ rest' = [rest EXCEPT ![p] = AllFiles]
     ELSE Goto(p, "any") /\ UNCHANGED rest
  /\ UNCHANGED <<file, root, now, mem, at, torn, overlooked, faults>>

\* allFilesExist stops at the first os.Stat that fails, for whatever reason.
allFilesExist(p) ==
  /\ pc[p] = "all"
  /\ \/ /\ Existing = File
        /\ Goto(p, "read") /\ rest' = [rest EXCEPT ![p] = AllFiles] /\ UNCHANGED faults
     \/ /\ \/ Existing # File /\ UNCHANGED faults
           \/ Fault("stat")
        /\ Goto(p, "any") /\ UNCHANGED rest
  /\ UNCHANGED <<file, root, now, mem, at, torn, overlooked>>

\* Mutant: what is incomplete is provisioned anew.
anyFileExists_unchecked(p) ==
  /\ pc[p] = "any" /\ Goto(p, "generate")
  /\ UNCHANGED <<file, root, now, mem, rest, at, torn, overlooked, faults>>

\* anyFileExists finds nothing when there is nothing, or when os.Stat fails
\* for what there is, as it does for all files of an inaccessible directory.
anyFileExists(p) ==
  /\ pc[p] = "any"
  /\ \/ Existing # {} /\ Return(p, "incomplete") /\ UNCHANGED <<overlooked, faults>>
     \/ /\ \/ Existing = {} /\ UNCHANGED <<overlooked, faults>>
           \/ Existing # {} /\ Fault("stat") /\ overlooked' = TRUE
        /\ Goto(p, "generate") /\ UNCHANGED <<mem, rest, at>>
  /\ UNCHANGED <<file, root, now, torn>>

\* Both pairs are made, and both keys protected, before the first write.
generate(p) ==
  /\ pc[p] = "generate"
  /\ \/ LET caKey     == NewKey(UsedKeys)
            serverKey == NewKey(UsedKeys \cup {caKey})
            ca        == createCACertSelfSigned(caKey, now, caKey)
            server    == createServerCertWithPub(now, ca, caKey, serverKey)
        IN /\ mem' = [mem EXCEPT
                ![p][caCertFile] = ca, ![p][caKeyFile] = caKey,
                ![p][serverCertFile] = server, ![p][serverKeyFile] = serverKey]
           /\ at' = [at EXCEPT ![p] = now]
           /\ rest' = [rest EXCEPT ![p] = AllFiles] /\ Goto(p, "write")
           /\ UNCHANGED faults
     \/ Fault("file") /\ Return(p, "error")
  /\ UNCHANGED <<file, root, now, torn, overlooked>>

\* Mutant: the loaded key is not compared with its certificate.
Loads_unmatched(held, f) == held[f] \notin {None, Corrupt}

\* Mutant: what does not parse is used as it is.
Loads_unparsed(held, f) == held[f] # None

\* loadCA and loadServer: what is read parses, and a key fits the certificate
\* that was read before it.
Loads(held, f) ==
  /\ held[f] \notin {None, Corrupt}
  /\ f = caKeyFile => verifyKeyMatch(held[caCertFile], held[f])
  /\ f = serverKeyFile => verifyKeyMatch(held[serverCertFile], held[f])

Read(p) ==
  /\ pc[p] = "read"
  /\ LET f    == Head(rest[p])
         held == [mem[p] EXCEPT ![f] = file[f]]
     IN \/ /\ Loads(held, f)
           /\ mem' = [mem EXCEPT ![p] = held]
           /\ rest' = [rest EXCEPT ![p] = Tail(@)]
           /\ Goto(p, IF Tail(rest[p]) = << >> THEN "check" ELSE "read")
           /\ UNCHANGED <<at, faults>>
        \/ ~Loads(held, f) /\ Return(p, "error") /\ UNCHANGED faults
        \/ Fault("file") /\ Return(p, "error")
  /\ UNCHANGED <<file, root, now, torn, overlooked>>

\* The server certificate is from this CA, for localhost, and the CA is
\* trusted.  "elevated provisioning/repair required" it says when the anchor
\* is missing, but this path repairs nothing.
Check(p) ==
  /\ pc[p] = "check"
  /\ LET ca     == mem[p][caCertFile]
         server == mem[p][serverCertFile]
         fits   == CheckSignatureFrom(server, ca) /\ validateSAN(server)
     IN \/ fits /\ ca \in root /\ Goto(p, "renew") /\ UNCHANGED <<mem, rest, at, faults>>
        \/ fits /\ ca \notin root /\ Return(p, "untrusted") /\ UNCHANGED faults
        \/ ~fits /\ Return(p, "error") /\ UNCHANGED faults
        \/ Fault("trust") /\ Return(p, "error")
  /\ UNCHANGED <<file, root, now, torn, overlooked>>

\* A renewal makes a new key, unlike the one with a key store.
Renew(p) ==
  /\ pc[p] = "renew"
  /\ LET ca  == mem[p][caCertFile]
         due == needsRenewal(mem[p][serverCertFile], now)
         key == NewKey(UsedKeys)
     IN \/ /\ ~due
           /\ Goto(p, "done") /\ at' = [at EXCEPT ![p] = now]
           /\ UNCHANGED <<mem, rest, faults>>
        \/ /\ due /\ validateCALifetime(ca, now)
           /\ mem' = [mem EXCEPT
                ![p][serverCertFile] = createServerCertWithPub(now, ca, mem[p][caKeyFile], key),
                ![p][serverKeyFile] = key]
           /\ rest' = [rest EXCEPT ![p] = RenewedFiles]
           /\ Goto(p, "rewrite") /\ at' = [at EXCEPT ![p] = now]
           /\ UNCHANGED faults
        \/ due /\ ~validateCALifetime(ca, now) /\ Return(p, "expired") /\ UNCHANGED faults
        \/ due /\ Fault("file") /\ Return(p, "error")
  /\ UNCHANGED <<file, root, now, torn, overlooked>>

\* The certificate of a renewal is on disk and its key is not.
Between(p) == pc[p] = "rewrite" /\ rest[p] = <<serverKeyFile>>

\* Mutant: the error of a write is ignored.
Write_unchecked(p) ==
  /\ pc[p] \in {"write", "rewrite"}
  /\ \/ file' = [file EXCEPT ![Head(rest[p])] = mem[p][Head(rest[p])]] /\ UNCHANGED faults
     \/ Fault("file") /\ UNCHANGED file
  /\ rest' = [rest EXCEPT ![p] = Tail(@)]
  /\ Goto(p, IF Tail(rest[p]) # << >> THEN pc[p]
             ELSE IF pc[p] = "write" THEN "install" ELSE "done")
  /\ UNCHANGED <<root, now, mem, at, torn, overlooked>>

\* One atomicWrite.  A first provisioning goes on to install its CA.
Write(p) ==
  /\ pc[p] \in {"write", "rewrite"}
  /\ \/ /\ file' = [file EXCEPT ![Head(rest[p])] = mem[p][Head(rest[p])]]
        /\ rest' = [rest EXCEPT ![p] = Tail(@)]
        /\ Goto(p, IF Tail(rest[p]) # << >> THEN pc[p]
                   ELSE IF pc[p] = "write" THEN "install" ELSE "done")
        /\ UNCHANGED <<mem, at, torn, faults>>
     \/ /\ Fault("file") /\ Return(p, "error")
        /\ torn' = (torn \/ Between(p)) /\ UNCHANGED file
  /\ UNCHANGED <<root, now, overlooked>>

InstallTrust(p) ==
  /\ pc[p] = "install"
  /\ \/ /\ root' = root \cup {mem[p][caCertFile]}
        /\ Goto(p, "done") /\ UNCHANGED <<mem, rest, at, faults>>
     \/ Fault("trust") /\ Return(p, "error") /\ UNCHANGED root
  /\ UNCHANGED <<file, now, torn, overlooked>>

Finish(p) ==
  /\ pc[p] = "done" /\ Return(p, "ok")
  /\ UNCHANGED <<file, root, now, torn, overlooked, faults>>

\* The process dies and is started again.
Crash(p) ==
  /\ pc[p] # "idle" /\ Fault("crash") /\ Return(p, "none")
  /\ torn' = (torn \/ Between(p))
  /\ UNCHANGED <<file, root, now, overlooked>>

--------------------------------------------------------------------------
(* The environment *)

\* Somebody does what an error says: "incomplete local TLS material ...;
\* remove directory or restore all files", or "CA certificate has expired
\* ...: CA recovery/reprovisioning required".
RemoveDirectory ==
  /\ \A p \in Proc : pc[p] = "idle"
  /\ \E p \in Proc : result[p] \in Advice
  /\ Cardinality(root) < sit.maxAnchors
  /\ file' = Nothing /\ torn' = FALSE /\ overlooked' = FALSE
  /\ UNCHANGED <<root, now, work, faults>>

Tick == now < sit.maxTime /\ now' = now + 1
        /\ UNCHANGED <<file, root, work, torn, overlooked, faults>>

\* A file is damaged, or the server certificate replaced by one for another name.
Damage ==
  /\ Fault("damage")
  /\ \E f \in Existing :
       \/ file' = [file EXCEPT ![f] = Corrupt]
       \/ /\ f = serverCertFile /\ file[f] # Corrupt
          /\ file' = [file EXCEPT ![f].localSAN = FALSE]
  /\ UNCHANGED <<root, now, work, torn, overlooked>>

Provision(p) ==
  \/ allFilesExist(p) \/ anyFileExists(p) \/ generate(p) \/ Read(p) \/ Check(p)
  \/ Renew(p) \/ Write(p) \/ InstallTrust(p) \/ Finish(p)

Next ==
  /\ \/ \E p \in Proc : Call(p) \/ Provision(p) \/ Crash(p)
     \/ RemoveDirectory \/ Tick \/ Damage
  /\ UNCHANGED sit

Spec == Init /\ [][Next]_vars

\* A call proceeds, people call again, and when the errors they get keep
\* saying what to do, sooner or later they do it.
LiveSpec ==
  /\ Spec
  /\ \A p \in Proc : /\ WF_vars(Call(p) /\ UNCHANGED sit)
                     /\ WF_vars(Provision(p) /\ UNCHANGED sit)
  /\ SF_vars(RemoveDirectory /\ UNCHANGED sit)

--------------------------------------------------------------------------
(* Properties *)

Step == {"idle", "all", "any", "generate", "read", "check", "renew", "write", "rewrite",
         "install", "done"}

\* What is in a file that is neither absent nor damaged.
Content(f) == CASE f = caCertFile     -> CACert
                [] f = serverCertFile -> ServerCert
                [] OTHER              -> Nat

\* Every variable has its type; what a call uses is never a damaged file.
TypeOK ==
  /\ file = [f \in File |-> file[f]]
  /\ \A f \in File : file[f] \in {None, Corrupt} \cup Content(f)
  /\ root \in SUBSET CACert /\ now \in 0..sit.maxTime
  /\ pc \in [Proc -> Step] /\ result \in [Proc -> {"none", "ok"} \cup Failure]
  /\ mem = [p \in Proc |-> [f \in File |-> mem[p][f]]]
  /\ \A p \in Proc, f \in File : mem[p][f] \in {None} \cup Content(f)
  /\ rest \in [Proc -> Seq(File)] /\ at \in [Proc -> 0..sit.maxTime]
  /\ torn \in BOOLEAN /\ overlooked \in BOOLEAN /\ faults \in 0..sit.maxFaults /\ sit \in Situation

\* The pairs fit and the server certificate is from this CA.
CAPair(content)     == verifyKeyMatch(content[caCertFile], content[caKeyFile])
Issued(content)     == CheckSignatureFrom(content[serverCertFile], content[caCertFile])
ServerPair(content) == verifyKeyMatch(content[serverCertFile], content[serverKeyFile])

\* However calls overlap, fail, die and read damaged files, what a call
\* returns belongs together, is trusted, is for localhost, and was neither
\* past its end nor due for renewal, except where the CA's end caps it.
LegacyMaterialCoherent ==
  \A p \in Proc : pc[p] = "done" =>
    LET m == mem[p] IN
    /\ CAPair(m) /\ Issued(m) /\ ServerPair(m)
    /\ m[caCertFile] \in root /\ validateSAN(m[serverCertFile])
    /\ at[p] < m[serverCertFile].notAfter
    /\ \/ ~needsRenewal(m[serverCertFile], at[p])
       \/ m[serverCertFile].notAfter = m[caCertFile].notAfter

\* Calls do not overlap, and nobody damages files.
Undisturbed == Cardinality(sit.callers) = 1 /\ "damage" \notin sit.faults

\* When calls do not overlap, four files are always a set that fits, unless a
\* renewal was interrupted between its two writes; then it is the server key
\* alone that is of another generation.  It takes a call that overlooks what
\* is in an inaccessible directory to write one set over another.
TornOnlyByRenewal ==
  Undisturbed /\ ~overlooked /\ Existing = File /\ (\A p \in Proc : ~Between(p)) =>
    CAPair(file) /\ Issued(file) /\ (torn \/ ServerPair(file))

\* A trusted CA certificate on disk is replaced only by a call that has
\* overlooked it; it goes only when somebody removes the directory.  In
\* particular one failing os.Stat does not replace it.
CAPreserved ==
  [][Undisturbed /\ ~overlooked /\ file[caCertFile] \in root
       => file'[caCertFile] \in {file[caCertFile], None}]_vars

\* The anchor is installed only when all that identifies and serves it is on
\* disk.
AnchorsPersisted ==
  [][Undisturbed => \A ca \in root' \ root :
       Existing = File /\ file[caCertFile] = ca /\ ServerPair(file)]_vars

\* What no call gets out of, and no error of this path tells how to: a
\* renewal was torn, or the anchor of four files is not installed.
DeadEnd == torn \/ (Existing = File /\ file[caCertFile] \notin root)

\* A call that fails is followed by one that returns material when people
\* call again and do what the errors say, unless the machine gets into one
\* of those two dead ends.
Recovers ==
  \A p \in Proc :
    (Undisturbed /\ result[p] \in Failure) ~> (result[p] = "ok" \/ DeadEnd \/ overlooked)
=============================================================================
