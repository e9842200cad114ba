----------------------------- MODULE Fingerprint -----------------------------
(***************************************************************************)
(* How the package and its verification command read a SHA-256 fingerprint *)
(* that was typed or pasted: ParseSHA256Fingerprint (truststore.go) and    *)
(* the parser of its own that -trust-is has (cmd/verify/main.go).  What is *)
(* read here decides which certificate is removed from, or looked for in,  *)
(* the Root store.                                                         *)
(*                                                                         *)
(* A string is a sequence of characters; Go's len counts their bytes.      *)
(***************************************************************************)
EXTENDS Integers, Sequences, FiniteSets, FiniteSetsExt

CONSTANTS
  Char,    \* the characters an argument is made of
  Space,   \* those that unicode.IsSpace accepts
  Wide,    \* those of two bytes
  hex,     \* the value of the characters that are hex digits, in either case
  Size,    \* bytes of a fingerprint (32)
  MaxLen   \* bound: characters of an argument

ASSUME CharAssumption ==
  /\ Space \subseteq Char /\ Wide \subseteq Char
  /\ hex \in [DOMAIN hex -> 0..15] /\ DOMAIN hex \subseteq Char \ (Space \cup Wide)
  /\ Size \in Nat \ {0} /\ MaxLen \in Nat

VARIABLE arg  \* what has been typed so far

Type == Len(arg) < MaxLen /\ \E c \in Char : arg' = Append(arg, c)

--------------------------------------------------------------------------

TrimSpace(s) ==
  LET ink == {i \in DOMAIN s : s[i] \notin Space}
  IN  IF ink = {} THEN <<>> ELSE SubSeq(s, Min(ink), Max(ink))

len(s) == Len(s) + Cardinality({i \in DOMAIN s : s[i] \in Wide})

isHex(s) == \A i \in DOMAIN s : s[i] \in DOMAIN hex

\* hex.DecodeString: two digits make a byte.
DecodeString(s) == [i \in 1..(Len(s) \div 2) |-> 16 * hex[s[2 * i - 1]] + hex[s[2 * i]]]

\* copy into an array of Size bytes, the rest of which stays zero.
fingerprint(bytes) == [i \in 1..Size |-> IF i \in DOMAIN bytes THEN bytes[i] ELSE 0]

\* No fingerprint: an error is returned instead.
Error == <<>>

\* Mutant: the length is left to the decoder.
ParseSHA256Fingerprint_anyLength(hexFP) ==
  LET s == TrimSpace(hexFP)
  IN  IF ~isHex(s) \/ len(s) % 2 = 1 THEN Error ELSE fingerprint(DecodeString(s))

ParseSHA256Fingerprint(hexFP) ==
  LET s == TrimSpace(hexFP)
  IN  IF len(s) # 2 * Size \/ ~isHex(s) THEN Error ELSE fingerprint(DecodeString(s))

\* What handleTrustIsSHA256 looks for: its own copy of the same checks, in the
\* same order.  Error is exit code 2.
trustIsFingerprint(hexStr) ==
  LET s == TrimSpace(hexStr)
  IN  IF len(s) # 2 * Size \/ ~isHex(s) THEN Error ELSE fingerprint(DecodeString(s))

--------------------------------------------------------------------------
(* Properties *)

\* The digits of a fingerprint, as %x prints them.
Digits(fp) == [i \in 1..(2 * Size) |-> IF i % 2 = 1 THEN fp[(i + 1) \div 2] \div 16
                                                   ELSE fp[i \div 2] % 16]

\* The digits of a fingerprint stand at i in the argument, between spaces.
SpelledAt(i) ==
  /\ \A j \in DOMAIN arg : j \notin i..(i + 2 * Size - 1) => arg[j] \in Space
  /\ \A j \in 1..(2 * Size) : i + j - 1 \in DOMAIN arg /\ arg[i + j - 1] \in DOMAIN hex

\* The argument spells fp, or fp is Error and it spells nothing.
Means(fp) ==
  /\ fp # Error <=> \E i \in DOMAIN arg : SpelledAt(i)
  /\ fp # Error => /\ fp \in [1..Size -> 0..255]
                   /\ \E i \in DOMAIN arg :
                        /\ SpelledAt(i)
                        /\ \A j \in 1..(2 * Size) : hex[arg[i + j - 1]] = Digits(fp)[j]

\* The package and the command accept an argument exactly when it is the digits
\* of a fingerprint, in either case, between spaces; each takes it for that
\* fingerprint and no other.  Nothing shorter is padded, nothing longer is cut.
ReadsTheFingerprint == Means(ParseSHA256Fingerprint(arg)) /\ Means(trustIsFingerprint(arg))
=============================================================================
