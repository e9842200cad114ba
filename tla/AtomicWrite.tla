----------------------------- MODULE AtomicWrite -----------------------------
(***************************************************************************)
(* atomicWrite (provision.go) on a file system that writes back lazily:    *)
(* the data goes to a temporary file, which is synced and then renamed to  *)
(* the target.  Several processes write the same target, as concurrent     *)
(* renewals do, others read it, and the cleanup of the directory deletes   *)
(* what it finds.                                                          *)
(*                                                                         *)
(* A file is a number.  Its content is known to the system (cached) and    *)
(* partly or not at all on the disk (stored); the same goes for the file   *)
(* the target's name stands for.  A power failure leaves what is stored.   *)
(***************************************************************************)
EXTENDS Naturals, FiniteSets

CONSTANTS
  Writer, Reader, Value, Nothing,  \* as in AtomicFile
  Faults,     \* what may go wrong: "call", "crash", "power", "unlink"
  MaxFiles,   \* bound: temporary files ever created
  MaxFaults   \* bound: faults in a behaviour

ASSUME BoundAssumption == MaxFiles \in Nat /\ MaxFaults \in Nat
ASSUME NothingAssumption == Nothing \notin Value

NoFile == 0
File   == 1..MaxFiles

\* A file is empty, or has some or the whole of a value.
Empty    == [of |-> Nothing, whole |-> FALSE]
Content  == [of : Value \cup {Nothing}, whole : BOOLEAN]

VARIABLES
  target,        \* the file that has the target's name
  temps,         \* the files that have temporary names
  cached,        \* content of each file
  storedTarget,  \* the file that has the target's name on the disk
  stored,        \* content of each file on the disk
  created,       \* number of files created
  pc, data, tmp, \* of each writer: next step, value, temporary file
  reading,       \* the file each reader has open
  view,          \* what each reader has read last
  faults         \* how much of MaxFaults is used

files   == <<target, temps, cached, storedTarget, stored, created>>
writers == <<pc, data, tmp>>
readers == <<reading, view>>
vars    == <<files, writers, readers, faults>>

Init ==
  /\ target = NoFile /\ temps = {} /\ storedTarget = NoFile /\ created = 0
  /\ cached = [f \in File |-> Empty] /\ stored = [f \in File |-> Empty]
  /\ pc = [w \in Writer |-> "idle"]
  /\ data = [w \in Writer |-> Nothing]
  /\ tmp = [w \in Writer |-> NoFile]
  /\ reading = [r \in Reader |-> NoFile]
  /\ view = [r \in Reader |-> Nothing]
  /\ faults = 0

\* The steps of a write, and those at which it has a temporary file.
HasTemp == {"write", "sync", "rename", "discard"}
Writing == {"create"} \cup HasTemp

Fault(kind) == kind \in Faults /\ faults < MaxFaults /\ faults' = faults + 1

Goto(w, step) == pc' = [pc EXCEPT ![w] = step] /\ UNCHANGED <<data, tmp>>

--------------------------------------------------------------------------
(* A write *)

Begin(w) ==
  /\ pc[w] = "idle"
  /\ pc' = [pc EXCEPT ![w] = "create"]
  /\ \E v \in Value : data' = [data EXCEPT ![w] = v]
  /\ tmp' = [tmp EXCEPT ![w] = NoFile]
  /\ UNCHANGED <<files, readers, faults>>

\* Mutant: the temporary name is always the same.
CreateTemp_fixedName(w) ==
  /\ pc[w] = "create"
  /\ created' = 1 /\ temps' = temps \cup {1}
  /\ tmp' = [tmp EXCEPT ![w] = 1]
  /\ pc' = [pc EXCEPT ![w] = "write"]
  /\ UNCHANGED <<target, cached, storedTarget, stored, data, readers, faults>>

\* os.CreateTemp: a name that no file has.
CreateTemp(w) ==
  /\ pc[w] = "create"
  /\ \/ /\ created < MaxFiles
        /\ created' = created + 1
        /\ temps' = temps \cup {created'}
        /\ tmp' = [tmp EXCEPT ![w] = created']
        /\ pc' = [pc EXCEPT ![w] = "write"]
        /\ UNCHANGED <<target, cached, storedTarget, stored, data, faults>>
     \/ Fault("call") /\ Goto(w, "err") /\ UNCHANGED files
  /\ UNCHANGED readers

\* Mutant: the error of the write is dropped.
WriteTemp_unchecked(w) ==
  /\ pc[w] = "write"
  /\ \/ /\ cached' = [cached EXCEPT ![tmp[w]] = [of |-> data[w], whole |-> TRUE]]
        /\ UNCHANGED faults
     \/ /\ Fault("call")
        /\ cached' = [cached EXCEPT ![tmp[w]] = [of |-> data[w], whole |-> FALSE]]
  /\ Goto(w, "sync")
  /\ UNCHANGED <<target, temps, storedTarget, stored, created, readers>>

\* A write that fails may have written a part.
WriteTemp(w) ==
  /\ pc[w] = "write"
  /\ \/ /\ cached' = [cached EXCEPT ![tmp[w]] = [of |-> data[w], whole |-> TRUE]]
        /\ Goto(w, "sync")
        /\ UNCHANGED faults
     \/ /\ Fault("call")
        /\ \/ UNCHANGED cached
           \/ cached' = [cached EXCEPT ![tmp[w]] = [of |-> data[w], whole |-> FALSE]]
        /\ Goto(w, "discard")
  /\ UNCHANGED <<target, temps, storedTarget, stored, created, readers>>

\* Mutant: nothing is synced.
Sync_unsynced(w) ==
  /\ pc[w] = "sync"
  /\ Goto(w, "rename")
  /\ UNCHANGED <<files, readers, faults>>

Sync(w) ==
  /\ pc[w] = "sync"
  /\ \/ /\ stored' = [stored EXCEPT ![tmp[w]] = cached[tmp[w]]]
        /\ Goto(w, "rename")
        /\ UNCHANGED faults
     \/ Fault("call") /\ Goto(w, "discard") /\ UNCHANGED stored
  /\ UNCHANGED <<target, temps, cached, storedTarget, created, readers>>

\* Mutant: a failed rename leaves the temporary file.
Rename_kept(w) ==
  /\ pc[w] = "rename"
  /\ \/ /\ tmp[w] \in temps
        /\ target' = tmp[w] /\ temps' = temps \ {tmp[w]}
        /\ Goto(w, "ok")
        /\ UNCHANGED faults
     \/ tmp[w] \notin temps /\ Goto(w, "err") /\ UNCHANGED <<target, temps, faults>>
     \/ Fault("call") /\ Goto(w, "err") /\ UNCHANGED <<target, temps>>
  /\ UNCHANGED <<cached, storedTarget, stored, created, readers>>

\* The file is closed, its mode is set, and the target's name goes over to
\* it; each of the three may fail.  There is no file to rename when the
\* directory has been cleaned meanwhile.
Rename(w) ==
  /\ pc[w] = "rename"
  /\ \/ /\ tmp[w] \in temps
        /\ target' = tmp[w] /\ temps' = temps \ {tmp[w]}
        /\ Goto(w, "ok")
        /\ UNCHANGED faults
     \/ tmp[w] \notin temps /\ Goto(w, "discard") /\ UNCHANGED <<target, temps, faults>>
     \/ Fault("call") /\ Goto(w, "discard") /\ UNCHANGED <<target, temps>>
  /\ UNCHANGED <<cached, storedTarget, stored, created, readers>>

\* Every error path removes the temporary file; whether that succeeds is
\* not looked at.
Discard(w) ==
  /\ pc[w] = "discard"
  /\ \/ temps' = temps \ {tmp[w]} /\ UNCHANGED faults
     \/ Fault("call") /\ UNCHANGED temps
  /\ Goto(w, "err")
  /\ UNCHANGED <<target, cached, storedTarget, stored, created, readers>>

\* The caller has the outcome.
Finish(w) ==
  /\ pc[w] \in {"ok", "err"}
  /\ Goto(w, "idle")
  /\ UNCHANGED <<files, readers, faults>>

--------------------------------------------------------------------------
(* A reader: os.ReadFile opens the file and reads what it opened *)

OpenRead(r) ==
  /\ reading[r] = NoFile
  /\ \/ target # NoFile /\ reading' = [reading EXCEPT ![r] = target] /\ UNCHANGED view
     \/ target = NoFile /\ view' = [view EXCEPT ![r] = Nothing] /\ UNCHANGED reading
  /\ UNCHANGED <<files, writers, faults>>

\* What a reader makes of a content: the value if it is the whole of one.
Seen(content) == IF content.whole THEN content.of ELSE content

FinishRead(r) ==
  /\ reading[r] # NoFile
  /\ view' = [view EXCEPT ![r] = Seen(cached[reading[r]])]
  /\ reading' = [reading EXCEPT ![r] = NoFile]
  /\ UNCHANGED <<files, writers, faults>>

--------------------------------------------------------------------------
(* The system, and what goes wrong *)

\* The system writes back a file's content, or the directory, when it likes.
WriteBack ==
  /\ \/ \E f \in File : stored' = [stored EXCEPT ![f] = cached[f]] /\ UNCHANGED storedTarget
     \/ storedTarget' = target /\ UNCHANGED stored
  /\ UNCHANGED <<target, temps, cached, created, writers, readers, faults>>

\* os.RemoveAll of a cleanup deletes the target or a temporary file.
Unlink ==
  /\ Fault("unlink")
  /\ \/ target # NoFile /\ target' = NoFile /\ UNCHANGED temps
     \/ \E f \in temps : temps' = temps \ {f} /\ UNCHANGED target
  /\ UNCHANGED <<cached, storedTarget, stored, created, writers, readers>>

\* The process dies during a write.
Crash(w) ==
  /\ pc[w] \in Writing
  /\ Fault("crash")
  /\ Goto(w, "idle")
  /\ UNCHANGED <<files, readers>>

\* Everything not stored is lost.  A rename that is lost gives the file its
\* temporary name back, or the file is lost too.
PowerFailure ==
  /\ Fault("power")
  /\ target' = storedTarget
  /\ temps' \in SUBSET ((temps \cup {target}) \ {storedTarget, NoFile})
  /\ cached' = stored
  /\ pc' = [w \in Writer |-> "idle"]
  /\ reading' = [r \in Reader |-> NoFile]
  /\ view' = [r \in Reader |-> Nothing]
  /\ UNCHANGED <<storedTarget, stored, created, data, tmp>>

--------------------------------------------------------------------------

WriterNext(w) ==
  \/ Begin(w) \/ CreateTemp(w) \/ WriteTemp(w) \/ Sync(w)
  \/ Rename(w) \/ Discard(w) \/ Finish(w) \/ Crash(w)

Next ==
  \/ \E w \in Writer : WriterNext(w)
  \/ \E r \in Reader : OpenRead(r) \/ FinishRead(r)
  \/ WriteBack \/ Unlink \/ PowerFailure

Spec == Init /\ [][Next]_vars

--------------------------------------------------------------------------
(* Properties *)

\* Every variable has its type.
TypeOK ==
  /\ target \in 0..created /\ storedTarget \in 0..created
  /\ temps \in SUBSET (1..created)
  /\ created \in 0..MaxFiles
  /\ cached \in [File -> Content] /\ stored \in [File -> Content]
  /\ pc \in [Writer -> {"idle", "ok", "err"} \cup Writing]
  /\ data \in [Writer -> Value \cup {Nothing}]
  /\ tmp \in [Writer -> 0..created]
  /\ reading \in [Reader -> 0..created]
  /\ view \in [Reader -> Value \cup {Nothing}]
  /\ faults \in Nat

\* A write in progress has its temporary file for itself: no other write
\* uses it, no reader has it open, and no name but its own stands for it.
TempIsPrivate ==
  \A w \in Writer : pc[w] \in HasTemp =>
    /\ tmp[w] # NoFile /\ tmp[w] # target /\ tmp[w] # storedTarget
    /\ \A r \in Reader : reading[r] # tmp[w]
    /\ \A v \in Writer \ {w} : pc[v] \in HasTemp => tmp[v] # tmp[w]

\* What can be opened under the target's name, now or after a power failure,
\* is the whole of a value, in the cache and on the disk.
IsWhole(f) ==
  /\ cached[f].whole /\ stored[f] = cached[f] /\ cached[f].of \in Value

TargetWhole ==
  /\ \A f \in {target, storedTarget} \cup {reading[r] : r \in Reader} :
       f # NoFile => IsWhole(f)
  /\ \A w \in Writer :
       /\ pc[w] \in Writing => data[w] \in Value
       /\ pc[w] \in {"sync", "rename"}
          => cached[tmp[w]] = [of |-> data[w], whole |-> TRUE]
       /\ pc[w] = "rename" => stored[tmp[w]] = cached[tmp[w]]

\* A write leaves its temporary file behind only when the process dies, or
\* when removing it fails after an error: a successful write leaves none.
NoLitter ==
  [][\A w \in Writer :
       pc[w] \in Writing /\ pc'[w] \in {"ok", "err"} /\ tmp[w] \in temps'
       => pc[w] = "discard" /\ faults' > faults]_vars

--------------------------------------------------------------------------
(* Refinement: the target is an atomic file *)

Holds(file, content) == IF file = NoFile THEN Nothing ELSE Seen(content[file])

Atomic == INSTANCE AtomicFile WITH
  value <- Holds(target, cached),
  kept  <- Holds(storedTarget, stored),
  want  <- data,
  phase <- [w \in Writer |-> IF pc[w] \in Writing THEN "writing" ELSE pc[w]],
  view  <- [r \in Reader |-> IF reading[r] = NoFile THEN view[r]
                                                    ELSE Seen(cached[reading[r]])]

\* The target behaves as an atomic file: readers find nothing or the whole
\* of one written value, a write takes effect exactly when it returns nil,
\* and a power failure brings back a value that was there before.
ImplementsAtomicFile == Atomic!Spec
=============================================================================
