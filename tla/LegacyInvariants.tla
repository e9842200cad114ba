-------------------------- MODULE LegacyInvariants --------------------------
(***************************************************************************)
(* Inductive invariants of LegacyProvision: what holds between the steps   *)
(* of a call, and between a single caller and its four files.              *)
(***************************************************************************)
EXTENDS LegacyProvision

(* Of every call, however calls overlap *)

\* The files of a list, and those p has still to read or write.
Ahead(r)   == {r[i] : i \in DOMAIN r}
Pending(p) == Ahead(rest[p])

\* What is left of AllFiles while it is gone through.
Remaining == {AllFiles, <<caKeyFile, serverCertFile, serverKeyFile>>,
              <<serverCertFile, serverKeyFile>>, <<serverKeyFile>>}

Listed(p) ==
  /\ pc[p] \in {"read", "write"} => rest[p] \in Remaining
  /\ pc[p] = "rewrite" => rest[p] \in {RenewedFiles, <<serverKeyFile>>}

Using == {"check", "renew", "write", "install", "rewrite", "done"}

\* What a call has read, or made, fits as far as it has been looked at.
Fitting(p) ==
  /\ pc[p] = "read" =>
       /\ \A f \in File \ Pending(p) : mem[p][f] # None
       /\ caKeyFile \notin Pending(p) => CAPair(mem[p])
  /\ pc[p] \in Using =>
       /\ \A f \in File : mem[p][f] # None
       /\ CAPair(mem[p]) /\ ServerPair(mem[p])
  /\ pc[p] \in Using \ {"check"} => Issued(mem[p]) /\ validateSAN(mem[p][serverCertFile])
  /\ pc[p] \in {"renew", "rewrite", "done"} => mem[p][caCertFile] \in root

\* What it is about to return is not past its end, nor due for renewal
\* unless it ends with its CA.
Current(p) ==
  LET ca     == mem[p][caCertFile]
      server == mem[p][serverCertFile]
  IN  /\ at[p] < server.notAfter
      /\ ~needsRenewal(server, at[p]) \/ server.notAfter = ca.notAfter

CallInv ==
  /\ TypeOK /\ IsFiniteSet(root)
  /\ \A p \in Proc :
       /\ Listed(p) /\ Fitting(p)
       /\ pc[p] \in Using \ {"check", "renew"} => Current(p)

--------------------------------------------------------------------------
(* Of a single caller and its files, which nobody damages *)

\* Files come into being in the order of AllFiles, the last one completes them.
OrderInv == file[serverKeyFile] # None => Existing = File

\* What a first provisioning has written is what it holds.
Written(p) ==
  /\ pc[p] = "write" => \A f \in File \ Pending(p) : file[f] = mem[p][f]
  /\ pc[p] = "install" => file = mem[p]

\* It has found no files, and its CA is a new one.
FirstCall(p) ==
  /\ pc[p] \in {"generate", "write"} => file[serverKeyFile] = None
  /\ pc[p] = "write" => mem[p][caCertFile] \notin root

\* A call that reloads holds what is on disk, up to what it renews.
Reload(p) ==
  /\ pc[p] = "read" => \A f \in File \ Pending(p) : file[f] = mem[p][f]
  /\ pc[p] \in {"check", "renew"} => file = mem[p]
  /\ pc[p] = "rewrite" =>
       /\ Existing = File
       /\ file[caCertFile] = mem[p][caCertFile] /\ file[caKeyFile] = mem[p][caKeyFile]
       /\ Between(p) => file[serverCertFile] = mem[p][serverCertFile]

\* A trusted CA certificate on disk has all four files, and four files fit.
FilesInv ==
  /\ file[caCertFile] \in root => Existing = File
  /\ Existing = File =>
       /\ Corrupt \notin {file[f] : f \in File}
       /\ CAPair(file) /\ Issued(file)
       /\ torn \/ ServerPair(file) \/ \E p \in Proc : Between(p)

SoloInv ==
  /\ \A p \in Proc : pc[p] # "idle" => p \in sit.callers
  /\ Undisturbed => \A p \in Proc : Written(p)
  /\ Undisturbed /\ ~overlooked =>
       OrderInv /\ FilesInv /\ \A p \in Proc : FirstCall(p) /\ Reload(p)
=============================================================================
