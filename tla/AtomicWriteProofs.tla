-------------------------- MODULE AtomicWriteProofs --------------------------
(***************************************************************************)
(* atomicWrite implements an atomic file, for any number of writers,       *)
(* readers, values, files and faults.                                      *)
(***************************************************************************)
EXTENDS AtomicWrite, TLAPS

\* The types, whose file is whose, and which files are whole.
FilesInv == TypeOK /\ TempIsPrivate /\ TargetWhole

USE BoundAssumption, NothingAssumption DEF File, NoFile, Writing, HasTemp

LEMMA InitFiles == Init => FilesInv
BY DEF Init, FilesInv, TypeOK, TempIsPrivate, TargetWhole, Content, Empty

\* What a write puts into a file is a content.
LEMMA Contents ==
  ASSUME TypeOK
  PROVE  /\ \A w \in Writer, b \in BOOLEAN : [of |-> data[w], whole |-> b] \in Content
         /\ \A f \in File : cached[f] \in Content /\ stored[f] \in Content
BY DEF TypeOK, Content

\* A step of a write keeps the types.
LEMMA WriterTypes ==
  ASSUME FilesInv, NEW w \in Writer, WriterNext(w)
  PROVE  TypeOK'
<1> USE DEF files, writers, readers
<1>0. TypeOK /\ (pc[w] \in HasTemp => tmp[w] \in File)
  BY DEF FilesInv, TypeOK, TempIsPrivate
<1>1. ASSUME UNCHANGED <<target, storedTarget, created, cached, stored, reading, view>>,
             temps' \subseteq temps, faults' \in Nat,
             NEW step \in {"idle", "ok", "err"} \cup Writing, Goto(w, step)
      PROVE  TypeOK'
  BY <1>0, <1>1 DEF TypeOK, Goto
<1>2. CASE Begin(w)
  BY <1>0, <1>2 DEF Begin, TypeOK
<1>3. CASE CreateTemp(w)
  <2>1. CASE Fault("call") /\ Goto(w, "err") /\ UNCHANGED <<files, readers>>
    BY <1>0, <1>1, <2>1 DEF Fault, TypeOK
  <2>2. CASE ~(Fault("call") /\ Goto(w, "err") /\ UNCHANGED <<files, readers>>)
    <3>1. /\ created' = created + 1 /\ created' \in 0..MaxFiles
          /\ 0..created \subseteq 0..created' /\ 1..created \subseteq 1..created'
          /\ created' \in 0..created' /\ created' \in 1..created'
      BY <1>0, <1>3, <2>2 DEF CreateTemp, TypeOK
    <3>2. /\ UNCHANGED <<target, cached, storedTarget, stored, data, faults, reading, view>>
          /\ temps' = temps \cup {created'}
          /\ tmp' = [tmp EXCEPT ![w] = created']
          /\ pc' = [pc EXCEPT ![w] = "write"]
      BY <1>3, <2>2 DEF CreateTemp
    <3> QED
      BY <1>0, <3>1, <3>2 DEF TypeOK
  <2> QED
    BY <2>1, <2>2
<1>4. CASE WriteTemp(w)
  <2>1. cached' \in [File -> Content]
    BY <1>0, <1>4, Contents DEF WriteTemp, TypeOK
  <2>2. /\ UNCHANGED <<target, storedTarget, temps, created, stored, reading, view, data, tmp>>
        /\ \E step \in {"sync", "discard"} : pc' = [pc EXCEPT ![w] = step]
        /\ faults' \in Nat
    BY <1>0, <1>4 DEF WriteTemp, Goto, Fault, TypeOK
  <2> QED
    BY <1>0, <2>1, <2>2 DEF TypeOK
<1>5. CASE Sync(w)
  <2>1. stored' \in [File -> Content]
    BY <1>0, <1>5, Contents DEF Sync, TypeOK
  <2> QED
    BY <1>0, <1>5, <2>1 DEF Sync, Goto, Fault, TypeOK
<1>6. CASE Rename(w)
  <2>1. target' \in 0..created /\ temps' \subseteq temps
    BY <1>0, <1>6 DEF Rename, TypeOK
  <2>2. /\ UNCHANGED <<storedTarget, created, cached, stored, reading, view, data, tmp>>
        /\ \E step \in {"ok", "discard"} : pc' = [pc EXCEPT ![w] = step]
        /\ faults' \in Nat
    BY <1>0, <1>6 DEF Rename, Goto, Fault, TypeOK
  <2> QED
    BY <1>0, <2>1, <2>2 DEF TypeOK
<1>7. CASE Discard(w)
  BY <1>0, <1>1, <1>7 DEF Discard, Fault, TypeOK
<1>8. CASE Finish(w)
  BY <1>0, <1>1, <1>8 DEF Finish, TypeOK
<1>9. CASE Crash(w)
  BY <1>0, <1>1, <1>9 DEF Crash, Fault, TypeOK
<1> QED
  BY <1>2, <1>3, <1>4, <1>5, <1>6, <1>7, <1>8, <1>9 DEF WriterNext

\* A step of a write keeps its temporary file its own.
LEMMA WriterPrivate ==
  ASSUME FilesInv, NEW w \in Writer, WriterNext(w)
  PROVE  TempIsPrivate'
<1> USE DEF FilesInv, TypeOK, TempIsPrivate, files, writers, readers
<1>2. CASE Begin(w)
  BY <1>2 DEF Begin
<1>3. CASE CreateTemp(w)
  BY <1>3 DEF CreateTemp, Goto, Fault
<1>4. CASE WriteTemp(w)
  BY <1>4 DEF WriteTemp, Goto, Fault
<1>5. CASE Sync(w)
  BY <1>5 DEF Sync, Goto, Fault
<1>6. CASE Rename(w)
  BY <1>6 DEF Rename, Goto, Fault
<1>7. CASE Discard(w)
  BY <1>7 DEF Discard, Goto, Fault
<1>8. CASE Finish(w)
  BY <1>8 DEF Finish, Goto
<1>9. CASE Crash(w)
  BY <1>9 DEF Crash, Goto, Fault
<1> QED
  BY <1>2, <1>3, <1>4, <1>5, <1>6, <1>7, <1>8, <1>9 DEF WriterNext

\* What changes at most a write's own temporary file leaves the rest whole.
LEMMA WholeFrame ==
  ASSUME FilesInv, NEW w \in Writer, pc[w] \in HasTemp,
         UNCHANGED <<target, storedTarget, reading, data, tmp>>,
         \A f \in File : f # tmp[w] => cached'[f] = cached[f] /\ stored'[f] = stored[f],
         \A v \in Writer : v # w => pc'[v] = pc[v],
         pc'[w] \in {"sync", "rename"} => cached'[tmp[w]] = [of |-> data[w], whole |-> TRUE],
         pc'[w] = "rename" => stored'[tmp[w]] = cached'[tmp[w]]
  PROVE  TargetWhole'
<1>1. \A f \in {target, storedTarget} \cup {reading[r] : r \in Reader} :
        f # NoFile => f \in File /\ f # tmp[w]
  BY DEF FilesInv, TypeOK, TempIsPrivate
<1>2. \A f \in {target, storedTarget} \cup {reading[r] : r \in Reader} :
        f # NoFile => IsWhole(f)'
  BY <1>1 DEF FilesInv, TargetWhole, IsWhole
<1>3. ASSUME NEW v \in Writer, v # w, pc[v] \in HasTemp
      PROVE  cached'[tmp[v]] = cached[tmp[v]] /\ stored'[tmp[v]] = stored[tmp[v]]
  BY <1>3 DEF FilesInv, TypeOK, TempIsPrivate
<1>4. ASSUME NEW v \in Writer
      PROVE  /\ pc'[v] \in Writing => data[v] \in Value
             /\ pc'[v] \in {"sync", "rename"}
                => cached'[tmp[v]] = [of |-> data[v], whole |-> TRUE]
             /\ pc'[v] = "rename" => stored'[tmp[v]] = cached'[tmp[v]]
  BY <1>3 DEF FilesInv, TargetWhole
<1> QED
  BY <1>2, <1>4 DEF TargetWhole

\* A step of a write leaves what can be opened whole: it changes only the
\* content of its own temporary file, and renames it when that is whole.
LEMMA WriterWhole ==
  ASSUME FilesInv, NEW w \in Writer, WriterNext(w)
  PROVE  TargetWhole'
<1> USE DEF files, writers, readers
<1>1. pc \in [Writer -> {"idle", "ok", "err"} \cup Writing]
      /\ (pc[w] \in HasTemp => tmp[w] \in File)
      /\ DOMAIN cached = File /\ DOMAIN stored = File
  BY DEF FilesInv, TypeOK, TempIsPrivate
<1>2. CASE Begin(w)
  BY <1>2 DEF Begin, FilesInv, TypeOK, TempIsPrivate, TargetWhole, IsWhole
<1>3. CASE CreateTemp(w)
  BY <1>3 DEF CreateTemp, Goto, Fault, FilesInv, TypeOK, TempIsPrivate, TargetWhole, IsWhole
<1>4. CASE WriteTemp(w)
  <2>1. /\ \A f \in File : f # tmp[w] => cached'[f] = cached[f]
        /\ pc'[w] \in {"sync", "discard"}
        /\ pc'[w] = "sync" => cached'[tmp[w]] = [of |-> data[w], whole |-> TRUE]
    BY <1>1, <1>4 DEF WriteTemp, Goto, Fault
  <2>2. pc[w] \in HasTemp /\ UNCHANGED <<target, storedTarget, stored, reading, data, tmp>>
        /\ \A v \in Writer : v # w => pc'[v] = pc[v]
    BY <1>1, <1>4 DEF WriteTemp, Goto
  <2> QED
    BY <2>1, <2>2, WholeFrame
<1>5. CASE Sync(w)
  <2>1. /\ \A f \in File : f # tmp[w] => stored'[f] = stored[f]
        /\ pc'[w] \in {"rename", "discard"}
        /\ pc'[w] = "rename" => stored'[tmp[w]] = cached[tmp[w]]
    BY <1>1, <1>5 DEF Sync, Goto, Fault
  <2>2. pc[w] \in HasTemp /\ UNCHANGED <<target, storedTarget, cached, reading, data, tmp>>
        /\ (\A v \in Writer : v # w => pc'[v] = pc[v])
        /\ cached[tmp[w]] = [of |-> data[w], whole |-> TRUE]
    BY <1>1, <1>5 DEF Sync, Goto, FilesInv, TargetWhole
  <2> QED
    BY <2>1, <2>2, WholeFrame
<1>6. CASE Rename(w)
  <2>1. /\ target' \in {target, tmp[w]}
        /\ UNCHANGED <<storedTarget, cached, stored, reading, data, tmp>>
        /\ \A v \in Writer : v # w => pc'[v] = pc[v]
        /\ pc'[w] \in {"ok", "discard"}
    BY <1>1, <1>6 DEF Rename, Goto, Fault
  <2>2. cached[tmp[w]] = [of |-> data[w], whole |-> TRUE] /\ stored[tmp[w]] = cached[tmp[w]]
        /\ tmp[w] \in File
    BY <1>1, <1>6 DEF Rename, FilesInv, TargetWhole
  <2>3. data[w] \in Value
    BY <1>6 DEF Rename, FilesInv, TargetWhole
  <2> QED
    BY <1>1, <2>1, <2>2, <2>3 DEF FilesInv, TargetWhole, IsWhole
<1>7. CASE Discard(w)
  BY <1>7 DEF Discard, Goto, Fault, FilesInv, TypeOK, TempIsPrivate, TargetWhole, IsWhole
<1>8. CASE Finish(w)
  BY <1>8 DEF Finish, Goto, FilesInv, TypeOK, TempIsPrivate, TargetWhole, IsWhole
<1>9. CASE Crash(w)
  BY <1>9 DEF Crash, Goto, Fault, FilesInv, TypeOK, TempIsPrivate, TargetWhole, IsWhole
<1> QED
  BY <1>2, <1>3, <1>4, <1>5, <1>6, <1>7, <1>8, <1>9 DEF WriterNext

\* So do readers, the system and what goes wrong.
LEMMA SurroundingFiles ==
  ASSUME FilesInv
  PROVE  /\ (\E r \in Reader : OpenRead(r) \/ FinishRead(r)) => FilesInv'
         /\ WriteBack \/ Unlink \/ PowerFailure \/ UNCHANGED vars => FilesInv'
<1> USE DEF files, writers, readers
<1>1. ASSUME NEW r \in Reader, OpenRead(r) PROVE FilesInv'
  <2>1. \A q \in Reader : reading'[q] \in {reading[q], target}
    BY <1>1 DEF OpenRead, FilesInv, TypeOK
  <2>2. TypeOK'
    BY <1>1 DEF OpenRead, FilesInv, TypeOK
  <2>3. TempIsPrivate'
    BY <1>1, <2>1 DEF OpenRead, FilesInv, TempIsPrivate
  <2>4. TargetWhole'
    BY <1>1, <2>1 DEF OpenRead, FilesInv, TargetWhole, IsWhole
  <2> QED
    BY <2>2, <2>3, <2>4 DEF FilesInv
<1>2. ASSUME NEW r \in Reader, FinishRead(r) PROVE FilesInv'
  BY <1>2 DEF FinishRead, Seen, FilesInv, TypeOK, TempIsPrivate, TargetWhole, IsWhole
<1>3. ASSUME WriteBack PROVE FilesInv'
  <2>1. stored' \in [File -> Content] /\ storedTarget' \in {storedTarget, target}
        /\ \A f \in File : stored'[f] \in {stored[f], cached[f]}
    BY <1>3 DEF WriteBack, FilesInv, TypeOK
  <2>2. TypeOK'
    BY <1>3, <2>1 DEF WriteBack, FilesInv, TypeOK
  <2>3. TempIsPrivate'
    BY <1>3, <2>1 DEF WriteBack, FilesInv, TempIsPrivate
  <2>4. \A f \in File : IsWhole(f) => IsWhole(f)'
    BY <1>3, <2>1 DEF WriteBack, IsWhole
  <2>5. ASSUME NEW w \in Writer, pc[w] = "rename"
        PROVE  stored'[tmp[w]] = cached'[tmp[w]]
    <3>1. tmp[w] \in File
      BY <2>5 DEF FilesInv, TypeOK, TempIsPrivate
    <3>2. stored[tmp[w]] = cached[tmp[w]]
      BY <2>5 DEF FilesInv, TargetWhole
    <3> QED
      BY <1>3, <2>1, <3>1, <3>2 DEF WriteBack
  <2>6. TargetWhole'
    BY <1>3, <2>1, <2>4, <2>5 DEF WriteBack, FilesInv, TypeOK, TargetWhole
  <2> QED
    BY <2>2, <2>3, <2>6 DEF FilesInv
<1>4. ASSUME Unlink PROVE FilesInv'
  <2>1. target' \in {target, NoFile} /\ temps' \subseteq temps /\ faults' \in Nat
        /\ UNCHANGED <<cached, storedTarget, stored, created, pc, data, tmp, reading, view>>
    BY <1>4 DEF Unlink, Fault, FilesInv, TypeOK
  <2>2. TypeOK'
    BY <2>1 DEF FilesInv, TypeOK
  <2>3. TempIsPrivate'
    BY <2>1 DEF FilesInv, TempIsPrivate
  <2>4. TargetWhole'
    BY <2>1 DEF FilesInv, TargetWhole, IsWhole
  <2> QED
    BY <2>2, <2>3, <2>4 DEF FilesInv
<1>5. ASSUME PowerFailure PROVE FilesInv'
  BY <1>5 DEF PowerFailure, Fault, FilesInv, TypeOK, TempIsPrivate, TargetWhole, IsWhole
<1>6. ASSUME UNCHANGED vars PROVE FilesInv'
  BY <1>6 DEF vars, FilesInv, TypeOK, TempIsPrivate, TargetWhole, IsWhole
<1> QED
  BY <1>1, <1>2, <1>3, <1>4, <1>5, <1>6

LEMMA FilesInvariant == Spec => []FilesInv
<1>1. FilesInv /\ [Next]_vars => FilesInv'
  BY WriterTypes, WriterPrivate, WriterWhole, SurroundingFiles DEF Next, FilesInv
<1> QED
  BY InitFiles, <1>1, PTL DEF Spec

\* Every variable has its type: in particular no more files are made than
\* the bound, and every name stands for a file that was made.
THEOREM WriteTypes == Spec => []TypeOK
<1>1. FilesInv => TypeOK
  BY DEF FilesInv
<1> QED
  BY <1>1, FilesInvariant, PTL

\* No two writes in progress use the same temporary file, and nobody reads it.
THEOREM TempFilesArePrivate == Spec => []TempIsPrivate
<1>1. FilesInv => TempIsPrivate
  BY DEF FilesInv
<1> QED
  BY <1>1, FilesInvariant, PTL

\* What can be opened under the target's name is whole, whoever writes,
\* dies or loses power when.
THEOREM FilesAreWhole == Spec => []TargetWhole
<1>1. FilesInv => TargetWhole
  BY DEF FilesInv
<1> QED
  BY <1>1, FilesInvariant, PTL

\* A write that has made no temporary file remembers none.
NoneYet == \A w \in Writer : pc[w] = "create" => tmp[w] = NoFile

LEMMA NoneYetInvariant == Spec => []NoneYet
<1>1. Init => NoneYet
  BY DEF Init, NoneYet
<1>2. ASSUME FilesInv, NoneYet, [Next]_vars PROVE NoneYet'
  <2> USE DEF NoneYet, files, writers, readers
  <2>1. pc \in [Writer -> {"idle", "ok", "err"} \cup Writing] /\ tmp \in [Writer -> 0..created]
    BY <1>2 DEF FilesInv, TypeOK
  <2>2. ASSUME NEW w \in Writer, WriterNext(w) PROVE NoneYet'
    BY <1>2, <2>1, <2>2
       DEF WriterNext, Begin, CreateTemp, WriteTemp, Sync, Rename, Discard, Finish, Crash, Goto
  <2>3. CASE PowerFailure
    BY <2>3 DEF PowerFailure
  <2>4. CASE \/ \E r \in Reader : OpenRead(r) \/ FinishRead(r)
             \/ WriteBack \/ Unlink \/ UNCHANGED vars
    BY <1>2, <2>4 DEF OpenRead, FinishRead, WriteBack, Unlink, vars
  <2> QED
    BY <1>2, <2>2, <2>3, <2>4 DEF Next
<1>3. FilesInv /\ NoneYet /\ [Next]_vars => NoneYet'
  BY <1>2
<1> QED
  BY <1>1, <1>3, FilesInvariant, PTL DEF Spec

\* A write that returns has removed or renamed its temporary file, unless
\* removing it failed after an error.
THEOREM NothingIsLeft == Spec => NoLitter
<1> DEFINE Clean == \A w \in Writer :
                      pc[w] \in Writing /\ pc'[w] \in {"ok", "err"} /\ tmp[w] \in temps'
                      => pc[w] = "discard" /\ faults' > faults
<1>1. ASSUME FilesInv, NoneYet, [Next]_vars PROVE Clean
  <2> SUFFICES ASSUME NEW w \in Writer, pc[w] \in Writing, pc'[w] \in {"ok", "err"},
                      tmp[w] \in temps'
               PROVE  pc[w] = "discard" /\ faults' > faults
    OBVIOUS
  <2> USE DEF files, writers, readers
  <2>1. /\ pc \in [Writer -> {"idle", "ok", "err"} \cup Writing]
        /\ temps \in SUBSET (1..created) /\ created \in Nat /\ faults \in Nat
    BY <1>1 DEF FilesInv, TypeOK
  <2>2. WriterNext(w)
    <3>1. ASSUME NEW v \in Writer, v # w, WriterNext(v) PROVE pc'[w] = pc[w]
      BY <2>1, <3>1
         DEF WriterNext, Begin, CreateTemp, WriteTemp, Sync, Rename, Discard, Finish, Crash, Goto
    <3>2. CASE PowerFailure
      BY <3>2 DEF PowerFailure
    <3>3. CASE \/ \E r \in Reader : OpenRead(r) \/ FinishRead(r)
               \/ WriteBack \/ Unlink \/ UNCHANGED vars
      BY <3>3 DEF OpenRead, FinishRead, WriteBack, Unlink, vars
    <3> QED
      BY <1>1, <3>1, <3>2, <3>3 DEF Next
  <2>3. CASE CreateTemp(w)
    <3>1. tmp[w] = NoFile /\ UNCHANGED temps
      BY <1>1, <2>1, <2>3 DEF CreateTemp, Goto, NoneYet
    <3> QED
      BY <2>1, <3>1
  <2>4. CASE Rename(w)
    BY <2>1, <2>4 DEF Rename, Goto
  <2>5. CASE Discard(w)
    BY <2>1, <2>5 DEF Discard, Goto, Fault
  <2>6. CASE Begin(w) \/ WriteTemp(w) \/ Sync(w) \/ Finish(w) \/ Crash(w)
    BY <2>1, <2>6 DEF Begin, WriteTemp, Sync, Finish, Crash, Goto
  <2> QED
    BY <2>2, <2>3, <2>4, <2>5, <2>6 DEF WriterNext
<1>2. FilesInv /\ NoneYet /\ [Next]_vars => [Clean]_vars
  BY <1>1
<1> QED
  BY <1>2, FilesInvariant, NoneYetInvariant, PTL DEF Spec, NoLitter

--------------------------------------------------------------------------
(* The refinement *)

phaseBar == [w \in Writer |-> IF pc[w] \in Writing THEN "writing" ELSE pc[w]]
viewBar  == [r \in Reader |-> IF reading[r] = NoFile THEN view[r]
                                                    ELSE Seen(cached[reading[r]])]

\* What no reader sees is a stutter: the value, the value kept, what is
\* written, the phases and the views are as they were.
LEMMA Unseen ==
  ASSUME FilesInv,
         UNCHANGED <<target, storedTarget, data, reading, view>>,
         phaseBar' = phaseBar,
         \A f \in File : IsWhole(f) =>
            \/ cached'[f] = cached[f] /\ stored'[f] = stored[f]
            \/ f # target /\ f # storedTarget /\ \A r \in Reader : reading[r] # f
  PROVE  UNCHANGED Atomic!vars
<1>1. target # NoFile => IsWhole(target) /\ target \in File
  BY DEF FilesInv, TypeOK, TargetWhole
<1>2. storedTarget # NoFile => IsWhole(storedTarget) /\ storedTarget \in File
  BY DEF FilesInv, TypeOK, TargetWhole
<1>3. \A r \in Reader : reading[r] # NoFile => IsWhole(reading[r]) /\ reading[r] \in File
  BY DEF FilesInv, TypeOK, TargetWhole
<1>4. Holds(target, cached)' = Holds(target, cached)
  BY <1>1 DEF Holds, Seen
<1>5. Holds(storedTarget, stored)' = Holds(storedTarget, stored)
  BY <1>2 DEF Holds, Seen
<1>6. viewBar' = viewBar
  BY <1>3 DEF viewBar, Seen
<1> QED
  BY <1>4, <1>5, <1>6 DEF Atomic!vars, phaseBar, viewBar
\* Each step of a write is a step of an atomic write, or no step of one.
LEMMA WriterImplements ==
  ASSUME FilesInv, NEW w \in Writer, WriterNext(w)
  PROVE  [Atomic!Next]_Atomic!vars
<1> USE DEF files, writers, readers
<1>1. pc \in [Writer -> {"idle", "ok", "err"} \cup Writing]
      /\ (pc[w] \in HasTemp => tmp[w] \in File)
      /\ DOMAIN cached = File /\ DOMAIN stored = File
  BY DEF FilesInv, TypeOK, TempIsPrivate
<1>2. ASSUME NEW step \in {"idle", "ok", "err"} \cup Writing, pc' = [pc EXCEPT ![w] = step]
      PROVE  phaseBar' = [phaseBar EXCEPT ![w] = IF step \in Writing THEN "writing" ELSE step]
  BY <1>1, <1>2 DEF phaseBar
<1>3. ASSUME pc[w] \in Writing, Goto(w, "err"), UNCHANGED <<target, cached, storedTarget, stored, reading, view>>
      PROVE  Atomic!Next
  <2>1. phaseBar[w] = "writing" /\ phaseBar' = [phaseBar EXCEPT ![w] = "err"]
    BY <1>2, <1>3 DEF phaseBar, Goto
  <2>2. Atomic!Fail(w)
    BY <1>3, <2>1 DEF Atomic!Fail, phaseBar, Goto, Holds
  <2> QED
    BY <2>2 DEF Atomic!Next
<1>4. CASE Begin(w)
  <2>1. phaseBar[w] = "idle" /\ phaseBar' = [phaseBar EXCEPT ![w] = "writing"]
    BY <1>1, <1>2, <1>4 DEF Begin, phaseBar
  <2>2. Atomic!Start(w)
    BY <1>4, <2>1 DEF Begin, Atomic!Start, phaseBar, Holds
  <2> QED
    BY <2>2 DEF Atomic!Next
<1>5. CASE CreateTemp(w)
  <2>1. CASE Goto(w, "err") /\ UNCHANGED <<files, readers>>
    BY <1>3, <1>5, <2>1 DEF CreateTemp
  <2>2. CASE pc' = [pc EXCEPT ![w] = "write"] /\ UNCHANGED <<target, cached, storedTarget, stored, data, reading, view>>
    <3>1. phaseBar' = phaseBar
      BY <1>1, <1>2, <1>5, <2>2 DEF CreateTemp, phaseBar
    <3> QED
      BY <2>2, <3>1, Unseen
  <2> QED
    BY <1>5, <2>1, <2>2 DEF CreateTemp, Goto
<1>6. CASE WriteTemp(w)
  <2>1. phaseBar' = phaseBar
    BY <1>1, <1>2, <1>6 DEF WriteTemp, Goto, phaseBar
  <2>2. \A f \in File : \/ cached'[f] = cached[f] /\ stored'[f] = stored[f]
                        \/ f = tmp[w]
    BY <1>1, <1>6 DEF WriteTemp
  <2>3. tmp[w] # target /\ tmp[w] # storedTarget /\ \A r \in Reader : reading[r] # tmp[w]
    BY <1>6 DEF WriteTemp, FilesInv, TempIsPrivate
  <2> QED
    BY <1>6, <2>1, <2>2, <2>3, Unseen DEF WriteTemp, Goto
<1>7. CASE Sync(w)
  <2>1. phaseBar' = phaseBar
    BY <1>1, <1>2, <1>7 DEF Sync, Goto, phaseBar
  <2>2. \A f \in File : \/ cached'[f] = cached[f] /\ stored'[f] = stored[f]
                        \/ f = tmp[w]
    BY <1>1, <1>7 DEF Sync
  <2>3. tmp[w] # target /\ tmp[w] # storedTarget /\ \A r \in Reader : reading[r] # tmp[w]
    BY <1>7 DEF Sync, FilesInv, TempIsPrivate
  <2> QED
    BY <1>7, <2>1, <2>2, <2>3, Unseen DEF Sync, Goto
<1>8. CASE Rename(w)
  <2>1. CASE pc' = [pc EXCEPT ![w] = "ok"] /\ target' = tmp[w]
    <3>1. phaseBar[w] = "writing" /\ phaseBar' = [phaseBar EXCEPT ![w] = "ok"]
      BY <1>1, <1>2, <1>8, <2>1 DEF Rename, phaseBar
    <3>2. cached[tmp[w]] = [of |-> data[w], whole |-> TRUE] /\ tmp[w] # NoFile
      BY <1>8 DEF Rename, FilesInv, TargetWhole, TempIsPrivate
    <3>3. Atomic!Replace(w)
      BY <1>8, <2>1, <3>1, <3>2 DEF Rename, Goto, Atomic!Replace, phaseBar, Holds, Seen
    <3> QED
      BY <3>3 DEF Atomic!Next
  <2>2. CASE pc' = [pc EXCEPT ![w] = "discard"] /\ UNCHANGED target
    <3>1. phaseBar' = phaseBar
      BY <1>1, <1>2, <1>8, <2>2 DEF Rename, phaseBar
    <3> QED
      BY <1>8, <2>2, <3>1, Unseen DEF Rename, Goto
  <2> QED
    BY <1>8, <2>1, <2>2 DEF Rename, Goto
<1>9. CASE Discard(w)
  BY <1>3, <1>9 DEF Discard
<1>10. CASE Finish(w) \/ Crash(w)
  <2>1. Goto(w, "idle") /\ UNCHANGED <<target, cached, storedTarget, stored, reading, view>>
    BY <1>10 DEF Finish, Crash
  <2>2. phaseBar' = [phaseBar EXCEPT ![w] = "idle"]
    BY <1>2, <2>1 DEF Goto
  <2>3. Atomic!End(w)
    BY <2>1, <2>2 DEF Goto, Atomic!End, phaseBar, Holds
  <2> QED
    BY <2>3 DEF Atomic!Next
<1> QED
  BY <1>4, <1>5, <1>6, <1>7, <1>8, <1>9, <1>10 DEF WriterNext

\* A reader sees the value of the moment at which it opens the file; a lost
\* directory brings back the value kept.
LEMMA SurroundingsImplement ==
  ASSUME FilesInv
  PROVE  /\ (\E r \in Reader : OpenRead(r) \/ FinishRead(r)) => [Atomic!Next]_Atomic!vars
         /\ WriteBack \/ Unlink \/ PowerFailure \/ UNCHANGED vars => [Atomic!Next]_Atomic!vars
<1> USE DEF files, writers, readers
<1>1. ASSUME NEW r \in Reader, OpenRead(r) PROVE Atomic!Next
  <2>1. /\ UNCHANGED <<target, cached, storedTarget, stored, pc, data>>
        /\ \A q \in Reader : q # r => reading'[q] = reading[q] /\ view'[q] = view[q]
    BY <1>1 DEF OpenRead, FilesInv, TypeOK
  <2>2. viewBar'[r] = Holds(target, cached)
    BY <1>1 DEF OpenRead, viewBar, Holds, FilesInv, TypeOK
  <2>3. viewBar' = [viewBar EXCEPT ![r] = Holds(target, cached)]
    BY <2>1, <2>2 DEF viewBar
  <2>4. Atomic!Read(r)
    BY <2>1, <2>3 DEF Atomic!Read, viewBar, Holds
  <2> QED
    BY <2>4 DEF Atomic!Next
<1>2. ASSUME NEW r \in Reader, FinishRead(r) PROVE UNCHANGED Atomic!vars
  <2>1. viewBar' = viewBar
    BY <1>2 DEF FinishRead, viewBar, FilesInv, TypeOK
  <2> QED
    BY <1>2, <2>1 DEF FinishRead, Atomic!vars, viewBar, Holds
<1>3. ASSUME WriteBack PROVE [Atomic!Next]_Atomic!vars
  <2>1. CASE UNCHANGED storedTarget
    <3>1. \A f \in File : IsWhole(f) => cached'[f] = cached[f] /\ stored'[f] = stored[f]
      BY <1>3 DEF WriteBack, IsWhole, FilesInv, TypeOK
    <3>2. phaseBar' = phaseBar
      BY <1>3 DEF WriteBack, phaseBar
    <3> QED
      BY <1>3, <2>1, <3>1, <3>2, Unseen DEF WriteBack
  <2>2. CASE storedTarget' = target /\ UNCHANGED stored
    <3>1. Holds(storedTarget, stored)' = Holds(target, cached)
      BY <2>2 DEF Holds, FilesInv, TargetWhole, IsWhole
    <3>2. Atomic!Keep
      BY <1>3, <3>1 DEF WriteBack, Atomic!Keep, Holds
    <3> QED
      BY <3>2 DEF Atomic!Next
  <2> QED
    BY <1>3, <2>1, <2>2 DEF WriteBack
<1>4. ASSUME Unlink PROVE [Atomic!Next]_Atomic!vars
  <2>1. CASE target' = NoFile
    <3>1. Atomic!Remove
      BY <1>4, <2>1 DEF Unlink, Atomic!Remove, Holds
    <3> QED
      BY <3>1 DEF Atomic!Next
  <2>2. CASE UNCHANGED target
    BY <1>4, <2>2 DEF Unlink, Atomic!vars, Holds
  <2> QED
    BY <1>4, <2>1, <2>2 DEF Unlink
<1>5. ASSUME PowerFailure PROVE Atomic!Next
  <2>1. Holds(target, cached)' = Holds(storedTarget, stored)
        /\ Holds(storedTarget, stored)' = Holds(storedTarget, stored) /\ data' = data
    BY <1>5 DEF PowerFailure, Holds, Seen
  <2>2. phaseBar' = [w \in Writer |-> "idle"]
    BY <1>5 DEF PowerFailure, phaseBar
  <2>3. viewBar' = [r \in Reader |-> Nothing]
    BY <1>5 DEF PowerFailure, viewBar
  <2>4. Atomic!PowerFailure
    BY <2>1, <2>2, <2>3 DEF Atomic!PowerFailure, phaseBar, viewBar
  <2> QED
    BY <2>4 DEF Atomic!Next
<1>6. ASSUME UNCHANGED vars PROVE UNCHANGED Atomic!vars
  BY <1>6 DEF vars, Atomic!vars, Holds
<1> QED
  BY <1>1, <1>2, <1>3, <1>4, <1>5, <1>6

\* The target of atomicWrite is an atomic file: a write takes effect as a
\* whole, exactly when atomicWrite returns nil.
THEOREM AtomicWriteImplements == Spec => ImplementsAtomicFile
<1>1. Init => Atomic!Init
  BY DEF Init, Atomic!Init, Holds
<1>2. FilesInv /\ [Next]_vars => [Atomic!Next]_Atomic!vars
  BY WriterImplements, SurroundingsImplement DEF Next
<1> QED
  BY <1>1, <1>2, FilesInvariant, PTL DEF Spec, FilesInv, ImplementsAtomicFile, Atomic!Spec
=============================================================================
