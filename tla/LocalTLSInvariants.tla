------------------------- MODULE LocalTLSInvariants -------------------------
(***************************************************************************)
(* Inductive invariants of LocalTLS: what holds between the steps of the   *)
(* calls and makes the properties of LocalTLS hold.                        *)
(***************************************************************************)
EXTENDS LocalTLS

\* Which entry point a call can be in when it is at a step.
StepsOfCalls ==
  \A p \in Proc :
    /\ pc[p] \in ProvisioningStep => op[p] \in Provisioning
    /\ pc[p] \in CleaningStep => op[p] \in Cleaning
    /\ pc[p] \in LoadingStep => op[p] \in Provisioning \cup Loading
    /\ pc[p] \in LoadingStep \ {"readCA", "readServer", "openServer", "verify"}
       => op[p] # "LoadServingMaterial"
    /\ pc[p] \in {"reinstall", "reverify"} => op[p] = "ProvisionMachine"
    /\ pc[p] = "ok" => op[p] \in Provisioning \cup Loading \cup Cleaning

\* The steps between which a call holds the serving key.
HoldsServer == {"writeCA", "writeServer", "install", "verify", "reinstall",
                "reverify", "renew", "writeRenewed"}

\* Which handles are open at which step.
HandlesInv ==
  \A p \in Proc :
    /\ pc[p] \in HoldsServer <=> Running(p) /\ serverSigner[p] # NoKey
    /\ op[p] \in Cleaning \cup {"LoadServingMaterial"} => caSigner[p] = NoKey
    /\ op[p] \in Cleaning => serverSigner[p] = NoKey

\* The steps between which a call has read, or made, the certificates.
HasCA == {"createServer", "writeCA", "writeServer", "install"} \cup
         (LoadingStep \ {"readCA"})
HasServer == HoldsServer \cup {"openServer"}

\* A call works on certificates that were parsed.
CertificatesParsed ==
  \A p \in Proc :
    /\ pc[p] \in HasCA => ca[p] \in CACert
    /\ pc[p] \in HasServer => server[p] \in ServerCert

\* The types, and what makes them inductive.
TypeInv == TypeOK /\ CertificatesParsed

\* The CA certificate of a call is for the CA key it holds, and its server
\* certificate for the serving key it holds.
MaterialInv ==
  \A p \in Proc :
    /\ pc[p] \in HasCA \ {"openCA"} /\ op[p] # "LoadServingMaterial"
       => ca[p].key = caSigner[p]
    /\ pc[p] \in HoldsServer =>
       /\ server[p].key = serverSigner[p]
       /\ server[p].issuer = ca[p].key
       /\ server[p].localSAN

\* While ProvisionMachine runs and no other elevated call does, what its
\* pre-check found stays true until it acts on it, and the CA certificate it
\* wrote or read stays the one on disk.
PreCheckHolds(p) ==
  /\ pc[p] \in {"statServer", "probeCA", "probeServer"} =>
     ("ca" \in seen[p] <=> caDER # None)
  /\ pc[p] \in {"statServer", "probeCA"} => "caKey" \notin seen[p]
  /\ pc[p] \in {"probeCA", "probeServer"} /\ caDER # None => serverDER # None
  /\ pc[p] = "probeServer" => ("caKey" \in seen[p] <=> caKey # NoKey)
  /\ pc[p] \in {"chooseCA", "chooseServer"} /\ caDER # None =>
     serverDER # None /\ caKey # NoKey /\ serverKey # NoKey
  /\ pc[p] = "chooseServer" => caDER # None
  /\ pc[p] \in {"mkdir", "createCA", "createServer", "writeCA"} => caDER = None
  /\ pc[p] \in LoadingStep => caKey # NoKey /\ serverKey # NoKey
  /\ pc[p] \in {"writeServer", "install"} \cup (LoadingStep \ {"readCA"}) => caDER = ca[p]

\* At most one elevated call runs.
ElevatedAlone ==
  \A p, q \in Proc :
    Running(p) /\ Running(q) /\ op[p] \in Elevated /\ op[q] \in Elevated => p = q

\* That call can rely on its pre-check.
SerialInv ==
  /\ ElevatedAlone
  /\ \A p \in Proc : Running(p) /\ op[p] = "ProvisionMachine" => PreCheckHolds(p)

\* A call that made or matched a CA certificate had a CA key for it.
CAHandleInv ==
  \A p \in Proc : op[p] \in Provisioning \cup {"ReloadMachine"} =>
    /\ pc[p] \in HasCA \ {"openCA"} => caSigner[p] # NoKey
    /\ pc[p] = "ok" => ca[p].key # NoKey

\* While nobody cleans up and nothing is damaged, the keys in the store are
\* those the certificates and the open handles are for.
DiskInv ==
  /\ caDER # Corrupt /\ serverDER # Corrupt
  /\ caDER \in CACert => caKey # NoKey /\ caDER.key = caKey
  /\ serverDER \in ServerCert =>
       /\ caKey # NoKey /\ serverDER.issuer = caKey
       /\ serverKey # NoKey /\ serverDER.key = serverKey
  /\ \A p \in Proc : caSigner[p] \in {NoKey, caKey} /\ serverSigner[p] \in {NoKey, serverKey}

\* The certificates that are stored, trusted or in the hands of a call.
LiveCA     == (root \cup {caDER} \cup {ca[p] : p \in Proc}) \cap CACert
LiveServer == ({serverDER} \cup {server[p] : p \in Proc}) \cap ServerCert

\* A CA key has issued itself one certificate only, and what it issued to the
\* server does not outlive that.
LineageInv ==
  /\ \A c \in LiveCA : c.key <= keysMade
  /\ \A s \in LiveServer : s.issuer <= keysMade
  /\ \A c, d \in LiveCA : c.key = d.key /\ c.key # NoKey => c = d
  /\ \A s \in LiveServer, c \in LiveCA :
       s.issuer = c.key /\ c.key # NoKey => s.notAfter <= c.notAfter

\* ProvisionMachine makes a CA certificate for a new key only.
NewKeyInv ==
  \A p \in Proc : Running(p) /\ op[p] = "ProvisionMachine" =>
    (pc[p] \in {"chooseCA", "mkdir", "createCA"} /\ caDER = None => caKey = NoKey)

\* The call has read the clock and decided on the server certificate that it
\* is about to return.
Decided(p) ==
  \/ pc[p] \in {"writeCA", "writeServer", "install", "writeRenewed"}
  \/ pc[p] = "ok" /\ op[p] \in Provisioning \cup {"ReloadMachine"}

\* What a call is about to return had not ended when it read the clock.
FreshInv ==
  \A p \in Proc :
    /\ pc[p] = "createServer" => ca[p].notAfter = at[p] + caValidity
    /\ Decided(p) =>
       /\ at[p] < server[p].notAfter
       /\ needsRenewal(server[p], at[p]) => server[p].notAfter = ca[p].notAfter

\* While the clock is not set back, every server certificate there is has
\* begun, and what a call is about to return had when it read the clock.
BegunInv ==
  /\ \A p \in Proc : at[p] <= now
  /\ \A s \in LiveServer : s.notBefore <= now
  /\ \A p \in Proc : Decided(p) => server[p].notBefore <= at[p]

\* Files are in the directory.
DirInv == caDER # None \/ serverDER # None => tlsDir

\* How far a cleanup that has no error to report has come.
CleanedSoFar(p) ==
  LET rest == {"statDir", "unlinkCA", "unlinkServer", "rmdir"} IN
  /\ pc[p] \in {"deleteCAKey", "deleteServerKey"} \cup rest => ca[p] \notin root
  /\ pc[p] \in {"deleteServerKey"} \cup rest => caKey = NoKey
  /\ pc[p] \in rest => serverKey = NoKey

CleanInv == \A p \in Proc : pc[p] \in CleaningStep /\ ~failed[p] => CleanedSoFar(p)

\* What ProvisionMachine has read or written is still there when it returns.
CompletionInv ==
  \A p \in Proc : Running(p) /\ op[p] = "ProvisionMachine" =>
    /\ pc[p] \in {"renew", "writeRenewed"} => ca[p] \in root
    /\ pc[p] \in {"install"} \cup (LoadingStep \ {"readCA", "openCA", "readServer"})
       => serverDER \in ServerCert
=============================================================================
