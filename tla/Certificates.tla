---------------------------- MODULE Certificates ----------------------------
(***************************************************************************)
(* The certificates of certificate.go and the checks provision.go makes of *)
(* them.  A certificate keeps what the checks can tell apart: whose key it *)
(* certifies, whose key signed it, its validity, and whether its subject   *)
(* alternative names are exactly localhost, 127.0.0.1 and ::1.             *)
(***************************************************************************)
EXTENDS Integers

CONSTANTS
  caValidity,        \* lifetime of a CA certificate (5 years)
  serverValidity,    \* nominal lifetime of a server certificate (90 days)
  RenewalThreshold,  \* a server certificate this close to its end is renewed
  backdate           \* NotBefore lies this far in the past (5 minutes)

\* The relations between the four durations that the code's values have.
ASSUME ValidityAssumption ==
  /\ caValidity \in Nat /\ serverValidity \in Nat
  /\ RenewalThreshold \in Nat /\ backdate \in Nat
  /\ RenewalThreshold < serverValidity
  /\ serverValidity <= caValidity

\* A key is a number; NoKey stands for the absence of one.
NoKey == 0

\* The random serial is a number no other CA certificate has: two CA
\* certificates are the same certificate exactly when their DER is.
CACert == [serial: Nat, key: Nat, notBefore: Int, notAfter: Int]

\* A server certificate.  issuer is the key whose signature it carries.
ServerCert == [key: Nat, issuer: Nat, notBefore: Int, notAfter: Int, localSAN: BOOLEAN]

createCACertSelfSigned(serial, now, signer) ==
  [serial    |-> serial,
   key       |-> signer,
   notBefore |-> now - backdate,
   notAfter  |-> now + caValidity]

\* Mutant: the cap at the end of the CA is forgotten.
cappedServerNotAfter_uncapped(now, ca) == now + serverValidity

\* A leaf never outlives the CA that signs it.
cappedServerNotAfter(now, ca) ==
  IF now + serverValidity > ca.notAfter THEN ca.notAfter
                                        ELSE now + serverValidity

\* Mutant: the leaf is signed by its own key.
createServerCertWithPub_selfSigned(now, ca, caSigner, pub) ==
  [key |-> pub, issuer |-> pub, notBefore |-> now - backdate,
   notAfter |-> cappedServerNotAfter(now, ca), localSAN |-> TRUE]

createServerCertWithPub(now, ca, caSigner, pub) ==
  [key       |-> pub,
   issuer    |-> caSigner,
   notBefore |-> now - backdate,
   notAfter  |-> cappedServerNotAfter(now, ca),
   localSAN  |-> TRUE]

\* Mutant: only a certificate that has ended is renewed.
needsRenewal_onlyAfterEnd(cert, now) == now > cert.notAfter

\* nowTime.After(NotAfter) || NotAfter.Sub(nowTime) <= RenewalThreshold: the
\* NotBefore of a certificate is never looked at.
needsRenewal(cert, now) ==
  \/ now > cert.notAfter
  \/ cert.notAfter - now <= RenewalThreshold

validateCALifetime(ca, now) == ca.notBefore <= now /\ now < ca.notAfter

\* Mutant: any key will do.
verifyPublicKeyMatch_anyKey(cert, pub) == pub # NoKey

verifyPublicKeyMatch(cert, pub) == cert.key = pub

\* Mutant: the certificate need only be signed by someone else.
CheckSignatureFrom_anyIssuer(cert, ca) == cert.issuer # cert.key

\* CheckSignatureFrom looks at the parent's key, not at its name or serial.
CheckSignatureFrom(cert, ca) == cert.issuer = ca.key

validateSAN(cert) == cert.localSAN
=============================================================================
