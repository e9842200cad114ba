---------------------------- MODULE MachineStores ----------------------------
(***************************************************************************)
(* What the calls of the package share: the TLS state directory with its   *)
(* two certificate files, the two persisted keys of the machine key store, *)
(* and the anchors of LocalMachine\Root.  Each operator is one call into   *)
(* the file system, the key store or the trust store.  Two counters make   *)
(* every new key and every new CA certificate distinct from all before it. *)
(***************************************************************************)
EXTENDS Certificates

CONSTANTS
  None,      \* no certificate: the file is absent
  Corrupt,   \* a file whose content does not parse
  Foreign    \* an anchor of someone else with the CA's common name

\* An absent file, an unparsable one and a certificate are different things,
\* and so are the package's own anchors and a foreign one.
ASSUME DistinctAssumption ==
  /\ None \notin CACert /\ None \notin ServerCert
  /\ Corrupt \notin CACert /\ Corrupt \notin ServerCert
  /\ None # Corrupt /\ Foreign # None /\ Foreign # Corrupt
  /\ Foreign \notin CACert

VARIABLES
  tlsDir,     \* does the state directory exist?
  caDER,      \* content of ca-cert.der
  serverDER,  \* content of server-cert.der
  caKey,      \* the persisted CA key
  serverKey,  \* the persisted server key
  root,       \* the anchors in LocalMachine\Root with the CA's common name
  keysMade,   \* number of keys ever created
  certsMade   \* number of CA certificates ever issued

files  == <<tlsDir, caDER, serverDER>>
keys   == <<caKey, serverKey, keysMade>>
stores == <<files, keys, root, certsMade>>

StoresTypeOK ==
  /\ tlsDir \in BOOLEAN
  /\ caDER \in CACert \cup {None, Corrupt}
  /\ serverDER \in ServerCert \cup {None, Corrupt}
  /\ caKey \in Nat /\ serverKey \in Nat
  /\ root \in SUBSET (CACert \cup {Foreign})
  /\ keysMade \in Nat /\ certsMade \in Nat

\* A machine that has never been provisioned.
StoresInit ==
  /\ tlsDir = FALSE /\ caDER = None /\ serverDER = None
  /\ caKey = NoKey /\ serverKey = NoKey
  /\ root = {}
  /\ keysMade = 0 /\ certsMade = 0

--------------------------------------------------------------------------
(* Files *)

\* The rename of atomicWrite: the file has its old content or the whole of
\* the new one.  It needs the directory, where the temporary file is created.
atomicWriteCA(cert) ==
  tlsDir /\ caDER' = cert /\ UNCHANGED <<tlsDir, serverDER, keys, root, certsMade>>

atomicWriteServer(cert) ==
  tlsDir /\ serverDER' = cert /\ UNCHANGED <<tlsDir, caDER, keys, root, certsMade>>

--------------------------------------------------------------------------
(* Keys *)

\* Open the named key, or create it when there is none.
LoadOrCreateCAKey ==
  /\ \/ caKey # NoKey /\ UNCHANGED <<caKey, keysMade>>
     \/ caKey = NoKey /\ keysMade' = keysMade + 1 /\ caKey' = keysMade + 1
  /\ UNCHANGED <<files, serverKey, root>>

LoadOrCreateServerKey ==
  /\ \/ serverKey # NoKey /\ UNCHANGED <<serverKey, keysMade>>
     \/ serverKey = NoKey /\ keysMade' = keysMade + 1 /\ serverKey' = keysMade + 1
  /\ UNCHANGED <<files, caKey, root>>

\* Open the named key; there must be one.
openCAKey     == caKey # NoKey /\ UNCHANGED <<files, keys, root>>
openServerKey == serverKey # NoKey /\ UNCHANGED <<files, keys, root>>

\* Deleting a key that is not there is ErrKeyNotFound, which cleanup ignores.
DeleteCAKey ==
  caKey' = NoKey /\ UNCHANGED <<files, serverKey, keysMade, root, certsMade>>
DeleteServerKey ==
  serverKey' = NoKey /\ UNCHANGED <<files, caKey, keysMade, root, certsMade>>

--------------------------------------------------------------------------
(* Trust *)

\* Mutant: no conflicting anchor is taken for a trusted one.
VerifyTrust_noConflict(ca) == IF root \ {ca} = {} THEN "healthy" ELSE "conflict"

\* Exact match first; any other anchor with the common name is a conflict.
VerifyTrust(ca) == IF ca \in root THEN "healthy"
                   ELSE IF root # {} THEN "conflict" ELSE "absent"

InstallTrust(ca) == root' = root \cup {ca} /\ UNCHANGED <<files, keys, certsMade>>

\* Removing an anchor that is not there is ErrTrustAnchorNotFound, which
\* cleanup ignores.
RemoveTrust(ca) == root' = root \ {ca} /\ UNCHANGED <<files, keys, certsMade>>
=============================================================================
