------------------------- MODULE MCLegacyProvision -------------------------
(***************************************************************************)
(* LegacyProvision for TLC.  A server certificate lives two units of time  *)
(* and is renewed in the last, the CA lives three.                         *)
(***************************************************************************)
EXTENDS LegacyInvariants

CONSTANTS p1, p2

MCProc == {p1, p2}

\* One process alone, through many failures and to the end of its CA, then
\* with directories that cannot be accessed, or two processes at once, with
\* a failure, a crash or a damaged file.
MCSituation ==
  {[callers |-> {p1}, faults |-> {"file", "trust", "crash"},
    maxFaults |-> 3, maxTime |-> 4, maxAnchors |-> 9],
   [callers |-> {p1}, faults |-> {"stat", "file", "trust", "crash"},
    maxFaults |-> 3, maxTime |-> 2, maxAnchors |-> 9],
   [callers |-> {p1, p2}, faults |-> {"file", "crash", "damage"},
    maxFaults |-> 1, maxTime |-> 1, maxAnchors |-> 2]}
=============================================================================
