----------------------------- MODULE AtomicFile -----------------------------
(***************************************************************************)
(* What the callers of atomicWrite and os.ReadFile rely on: a named file   *)
(* that holds nothing or the whole of one value at any time, through       *)
(* failed writes, dying processes and power failures.  MachineStores takes *)
(* each certificate file to be one; AtomicWrite implements it.             *)
(***************************************************************************)
CONSTANTS
  Writer, Reader,  \* the processes that write and read the file
  Value,           \* what is written
  Nothing          \* the file is absent

VARIABLES
  value,  \* what a reader finds
  kept,   \* what a reader would find after a power failure
  want,   \* the value each writer writes
  phase,  \* how far each write is
  view    \* what each reader has found last

vars == <<value, kept, want, phase, view>>

Init ==
  /\ value = Nothing /\ kept = Nothing
  /\ want = [w \in Writer |-> Nothing]
  /\ phase = [w \in Writer |-> "idle"]
  /\ view = [r \in Reader |-> Nothing]

Start(w) ==
  /\ phase[w] = "idle"
  /\ \E v \in Value : want' = [want EXCEPT ![w] = v]
  /\ phase' = [phase EXCEPT ![w] = "writing"]
  /\ UNCHANGED <<value, kept, view>>

\* The write takes effect at once and as a whole, and succeeds by that.
Replace(w) ==
  /\ phase[w] = "writing"
  /\ value' = want[w]
  /\ phase' = [phase EXCEPT ![w] = "ok"]
  /\ UNCHANGED <<kept, want, view>>

\* A write that fails changes nothing.
Fail(w) ==
  /\ phase[w] = "writing"
  /\ phase' = [phase EXCEPT ![w] = "err"]
  /\ UNCHANGED <<value, kept, want, view>>

\* The caller has the outcome, or has died; a dead writer changes nothing.
End(w) ==
  /\ phase' = [phase EXCEPT ![w] = "idle"]
  /\ UNCHANGED <<value, kept, want, view>>

Read(r) ==
  /\ view' = [view EXCEPT ![r] = value]
  /\ UNCHANGED <<value, kept, want, phase>>

\* The file is deleted.
Remove == value' = Nothing /\ UNCHANGED <<kept, want, phase, view>>

\* What is there now survives power failures from now on.
Keep == kept' = value /\ UNCHANGED <<value, want, phase, view>>

PowerFailure ==
  /\ value' = kept
  /\ phase' = [w \in Writer |-> "idle"]
  /\ view' = [r \in Reader |-> Nothing]
  /\ UNCHANGED <<kept, want>>

Next ==
  \/ \E w \in Writer : Start(w) \/ Replace(w) \/ Fail(w) \/ End(w)
  \/ \E r \in Reader : Read(r)
  \/ Remove \/ Keep \/ PowerFailure

Spec == Init /\ [][Next]_vars
=============================================================================
