----------------------------- MODULE ToolProofs -----------------------------
(***************************************************************************)
(* What the tools never do.  For any number of edits and writes of any     *)
(* files, whatever fails or is dropped: the mutations of one file exclude  *)
(* each other although its lock is made and forgotten again and again, and *)
(* no edit is lost.  The heart of MutationInv is LocksInv: every call that *)
(* waits for a lock, or has not looked at the registry again, finds its    *)
(* own lock there.                                                         *)
(*                                                                         *)
(* For a command of the shell, whatever it writes: what is shown of it.    *)
(* ShellInv follows the bytes from the pipes to the capture; it rests on   *)
(* what is known of texts: their decoding, their last bytes and lines.     *)
(***************************************************************************)
EXTENDS FileMutations, ShellRuns, SequenceTheorems, FiniteSetTheorems,
        WellFoundedInduction, TLAPS

Contents == Seq(Calls) \cup {NoCall}

Stages == {"new", "keyed", "waiting", "leaving", "gone"} \cup Holding

TypeInv ==
    /\ path \in [Calls -> Paths]
    /\ stage \in [Calls -> Stages]
    /\ key \in [Calls -> Paths]
    /\ lock \in [Calls -> Calls \cup {NoCall}]
    /\ queues \in [Paths -> Calls \cup {NoCall}]
    /\ seen \in [Calls -> Contents]
    /\ text \in [Paths -> Contents]
    /\ serial \in [Paths -> Contents]

\* The key of a call is the file that it changes.
KeysInv ==
    /\ \A c \in Calls : Target(c) \in Missing => path[c] = Target(c)
    /\ \A f \in Paths : f \notin Missing => text[f] # NoCall
    /\ \A c \in Calls : stage[c] # "new" => key[c] = Target(c)

\* Stages of a call whose clone of the lock counts for the others.
Attached == {"waiting", "operated"} \cup Operating

LocksInv ==
    /\ \A c \in Calls : stage[c] \in Attached => (lock[c] # NoCall /\ queues[Target(c)] = lock[c])
    /\ \A c, d \in Calls :
           (stage[c] \in Holding /\ stage[d] \in Holding /\ lock[c] = lock[d]) => c = d

\* What an edit has read is what the file holds until it writes.
TextsInv ==
    /\ EditsNotLost
    /\ \A c \in Calls :
           stage[c] = "read" => (c \in Edits /\ seen[c] = text[Target(c)] /\ seen[c] # NoCall)
    /\ \A c \in Calls :
           stage[c] = "writing" =>
               /\ text[Target(c)] = <<>> /\ serial[Target(c)] # NoCall
               /\ c \in Edits => seen[c] = serial[Target(c)]

MutationInv == TypeInv /\ KeysInv /\ LocksInv /\ TextsInv

-----------------------------------------------------------------------------
LEMMA NotNoCall ==
    /\ <<>> \in Seq(Calls) /\ <<>> # NoCall
    /\ \A c \in Calls : <<c>> \in Seq(Calls) /\ <<c>> # NoCall
<1>1. \A S : <<>> \in Seq(S)
    OBVIOUS
<1>2. \A S, e : e \in S => <<e>> \in Seq(S)
    OBVIOUS
<1> QED BY <1>1, <1>2, PathsAssumption

LEMMA TargetIsPath ==
    ASSUME TypeInv, NEW c \in Calls
    PROVE  Target(c) \in Paths
BY PathsAssumption DEF TypeInv, Target

\* Two calls past the lock of one file are one.
LEMMA AttachedExclude ==
    ASSUME TypeInv, LocksInv, NEW c \in Calls, NEW d \in Calls, Target(c) = Target(d),
           stage[c] \in Attached \cap Holding, stage[d] \in Attached \cap Holding
    PROVE  c = d
BY DEF LocksInv

LEMMA InitInv == MutationInit => MutationInv
<1> SUFFICES ASSUME MutationInit PROVE MutationInv
    OBVIOUS
<1>1. path \in [Calls -> Paths] /\ \A c \in Calls : FileOf(path[c]) \in Missing => FileOf(path[c]) = path[c]
    BY PathsAssumption DEF MutationInit
<1>2. TypeInv
    BY <1>1 DEF MutationInit, TypeInv, Stages, Contents
<1>3. <<>> # NoCall
    BY NotNoCall
<1>4. KeysInv
    BY <1>1, <1>3 DEF MutationInit, KeysInv, Target
<1>5. LocksInv
    BY DEF MutationInit, LocksInv, Attached, Operating, Holding
<1>6. TextsInv
    BY DEF MutationInit, TextsInv, EditsNotLost
<1> QED BY <1>2, <1>4, <1>5, <1>6 DEF MutationInv

-----------------------------------------------------------------------------
LEMMA MutatedIsContents ==
    ASSUME NEW held \in Contents, NEW c \in Calls, c \in Edits => held # NoCall
    PROVE  Mutated(held, c) \in Seq(Calls) /\ Mutated(held, c) # NoCall
<1>1. CASE c \in Edits
    BY <1>1, PathsAssumption DEF Mutated, Contents
<1>2. CASE c \notin Edits
    BY <1>2, NotNoCall DEF Mutated, Contents
<1> QED BY <1>1, <1>2

LEMMA StepKeepsTypes ==
    ASSUME MutationInv, NEW c \in Calls, Mutates(c) \/ CallDropped(c)
    PROVE  TypeInv'
<1> USE DEF MutationInv, TypeInv, Moves, Stages, Holding
<1>0. Target(c) \in Paths /\ key[c] \in Paths
    BY TargetIsPath
<1>1. CASE FindKey(c)
    BY <1>0, <1>1 DEF FindKey
<1>2. CASE CloneLock(c)
    BY <1>0, <1>2 DEF CloneLock
<1>3. CASE TakeLock(c) \/ OperationFails(c) \/ Unlock(c) \/ DropClone(c) \/ CallDropped(c)
    BY <1>3 DEF TakeLock, OperationFails, Unlock, DropClone, CallDropped
<1>4. CASE ReadForEdit(c)
    BY <1>0, <1>4 DEF ReadForEdit
<1>5. CASE StartWrite(c)
  <2>1. <<>> \in Contents
      BY DEF Contents
  <2>2. stage' \in [Calls -> Stages] /\ UNCHANGED <<path, key, lock, queues, seen>>
      BY <1>5 DEF StartWrite
  <2>3. text' \in [Paths -> Contents] /\ serial' \in [Paths -> Contents]
      BY <1>0, <1>5, <2>1 DEF StartWrite
  <2> QED BY <2>2, <2>3
<1>6. CASE EndWrite(c)
  <2>1. seen[c] \in Contents /\ serial[Target(c)] \in Contents /\ stage[c] = "writing"
      BY <1>0, <1>6 DEF EndWrite
  <2>2. Mutated(serial[Target(c)], c) \in Contents /\ Mutated(seen[c], c) \in Contents
      BY <2>1, MutatedIsContents DEF TextsInv, Contents
  <2>3. stage' \in [Calls -> Stages] /\ UNCHANGED <<path, key, lock, queues, seen>>
      BY <1>6 DEF EndWrite
  <2>4. text' \in [Paths -> Contents] /\ serial' \in [Paths -> Contents]
      BY <1>0, <1>6, <2>2 DEF EndWrite
  <2> QED BY <2>3, <2>4
<1>7. CASE WriteFails(c)
    BY <1>0, <1>7 DEF WriteFails, Contents
<1>8. CASE LeaveRegistry(c)
    BY <1>0, <1>8 DEF LeaveRegistry
<1> QED BY <1>1, <1>2, <1>3, <1>4, <1>5, <1>6, <1>7, <1>8 DEF Mutates

LEMMA PathsStay ==
    ASSUME NEW c \in Calls, Mutates(c) \/ CallDropped(c)
    PROVE  path' = path /\ \A d \in Calls : Target(d)' = Target(d)
BY DEF Mutates, CallDropped, FindKey, CloneLock, TakeLock, OperationFails, ReadForEdit, StartWrite,
       EndWrite, WriteFails, LeaveRegistry, Unlock, DropClone, Target

LEMMA StepKeepsKeys ==
    ASSUME MutationInv, NEW c \in Calls, Mutates(c) \/ CallDropped(c)
    PROVE  KeysInv'
<1>0. /\ Target(c) \in Paths
      /\ path' = path /\ \A d \in Calls : Target(d)' = Target(d)
      /\ TypeInv /\ KeysInv /\ TextsInv
    BY TargetIsPath, PathsStay DEF MutationInv
<1>1. CASE FindKey(c)
  <2>1. key'[c] = Target(c)
      BY <1>0, <1>1 DEF FindKey, KeysInv, TypeInv
  <2>2. /\ text' = text
        /\ \A d \in Calls : d # c => (stage'[d] = stage[d] /\ key'[d] = key[d])
      BY <1>0, <1>1 DEF FindKey, Moves, TypeInv
  <2> QED BY <1>0, <2>1, <2>2 DEF KeysInv
<1>2. ASSUME key' = key, stage' = [stage EXCEPT ![c] = stage'[c]], stage[c] # "new"
      PROVE  \A d \in Calls : stage'[d] # "new" => key'[d] = Target(d)'
    BY <1>0, <1>2 DEF KeysInv, TypeInv
<1>3. CASE \/ CloneLock(c) \/ TakeLock(c) \/ OperationFails(c) \/ ReadForEdit(c) \/ WriteFails(c)
           \/ LeaveRegistry(c) \/ Unlock(c) \/ DropClone(c) \/ CallDropped(c)
  <2>1. /\ key' = key /\ text' = text /\ stage[c] # "new"
        /\ stage' = [stage EXCEPT ![c] = stage'[c]]
      BY <1>0, <1>3 DEF CloneLock, TakeLock, OperationFails, ReadForEdit, WriteFails, LeaveRegistry,
                        Unlock, DropClone, CallDropped, Moves, TypeInv
  <2> QED BY <1>0, <1>2, <2>1 DEF KeysInv
<1>4. CASE StartWrite(c) \/ EndWrite(c)
  <2>1. /\ key' = key /\ stage[c] # "new"
        /\ stage' = [stage EXCEPT ![c] = stage'[c]]
      BY <1>0, <1>4 DEF StartWrite, EndWrite, Moves, TypeInv
  <2>2. /\ \A f \in Paths : f # Target(c) => text'[f] = text[f]
        /\ text'[Target(c)] # NoCall
    <3>1. CASE StartWrite(c)
      <4>1. <<>> # NoCall
          BY NotNoCall
      <4> QED BY <1>0, <3>1, <4>1 DEF StartWrite, TypeInv
    <3>2. CASE EndWrite(c)
      <4>1. seen[c] \in Contents /\ (c \in Edits => seen[c] # NoCall)
          BY <1>0, <3>2 DEF EndWrite, Moves, TypeInv, TextsInv
      <4>2. Mutated(seen[c], c) # NoCall
          BY <4>1, MutatedIsContents
      <4> QED BY <1>0, <3>2, <4>2 DEF EndWrite, TypeInv
    <3> QED BY <1>4, <3>1, <3>2
  <2>3. \A f \in Paths : f \notin Missing => text'[f] # NoCall
      BY <1>0, <2>2 DEF KeysInv
  <2> QED BY <1>0, <1>2, <2>1, <2>3 DEF KeysInv
<1> QED BY <1>1, <1>3, <1>4 DEF Mutates

-----------------------------------------------------------------------------
\* A step that leaves the locks alone keeps them, if it puts nobody past a lock.
LEMMA StaysLocked ==
    ASSUME TypeInv, LocksInv, NEW c \in Calls, \A d \in Calls : Target(d)' = Target(d),
           lock' = lock, queues' = queues, \A d \in Calls : d # c => stage'[d] = stage[d],
           stage'[c] \in Attached => stage[c] \in Attached,
           stage'[c] \in Holding => stage[c] \in Holding
    PROVE  LocksInv'
<1>1. \A d \in Calls : stage'[d] \in Attached => stage[d] \in Attached
    OBVIOUS
<1>2. \A d \in Calls : stage'[d] \in Holding => stage[d] \in Holding
    OBVIOUS
<1> QED BY <1>1, <1>2 DEF LocksInv

\* The last user of a lock is alone with it.
LEMMA LastIsAlone ==
    ASSUME MutationInv, NEW c \in Calls, NEW d \in Calls, c # d, stage[c] = "operated",
           stage[d] \in Attached, Target(d) = Target(c), LastUser(c)
    PROVE  FALSE
<1> DEFINE l == queues[key[c]]
<1>1. key[c] = Target(c)
    BY DEF MutationInv, KeysInv
<1>2. lock[c] = l /\ lock[d] = l
    BY <1>1 DEF MutationInv, LocksInv, Attached
<1>3. {c, d} \subseteq Holders(l)
    BY <1>2 DEF Holders, Cloned, Attached, Holding, Operating
<1>4. IsFiniteSet(Holders(l))
    BY PathsAssumption, FS_Subset DEF Holders
<1>5. PICK x : Holders(l) = {x}
    BY <1>4, FS_Singleton DEF LastUser
<1> QED BY <1>3, <1>5

LEMMA StepKeepsLocks ==
    ASSUME MutationInv, NEW c \in Calls, Mutates(c) \/ CallDropped(c)
    PROVE  LocksInv'
<1>0. /\ Target(c) \in Paths /\ \A d \in Calls : Target(d)' = Target(d)
      /\ TypeInv /\ KeysInv /\ LocksInv
    BY TargetIsPath, PathsStay DEF MutationInv
<1>1. CASE \/ FindKey(c) \/ OperationFails(c) \/ ReadForEdit(c) \/ StartWrite(c) \/ EndWrite(c)
           \/ WriteFails(c) \/ Unlock(c) \/ DropClone(c) \/ CallDropped(c)
  <2>1. /\ lock' = lock /\ queues' = queues
        /\ \A d \in Calls : d # c => stage'[d] = stage[d]
        /\ stage'[c] \in Attached => stage[c] \in Attached
        /\ stage'[c] \in Holding => stage[c] \in Holding
      BY <1>0, <1>1 DEF FindKey, OperationFails, ReadForEdit, StartWrite, EndWrite, WriteFails, Unlock,
                        DropClone, CallDropped, Moves, TypeInv, Attached, Holding, Operating
  <2> QED BY <1>0, <2>1, StaysLocked
<1>2. CASE CloneLock(c)
  <2> DEFINE shared == IF queues[key[c]] = NoCall THEN c ELSE queues[key[c]]
  <2>1. /\ key[c] = Target(c) /\ stage'[c] = "waiting" /\ shared # NoCall
        /\ lock'[c] = shared /\ queues'[Target(c)] = shared
        /\ \A d \in Calls : d # c => (stage'[d] = stage[d] /\ lock'[d] = lock[d])
        /\ \A f \in Paths : f # Target(c) => queues'[f] = queues[f]
      BY <1>0, <1>2, PathsAssumption DEF CloneLock, Moves, TypeInv, KeysInv
  <2>2. ASSUME NEW d \in Calls, stage'[d] \in Attached
        PROVE  lock'[d] # NoCall /\ queues'[Target(d)] = lock'[d]
    <3>1. CASE d = c
        BY <2>1, <3>1
    <3>2. CASE d # c /\ Target(d) = Target(c)
      <4>1. queues[Target(c)] = lock[d] /\ lock[d] # NoCall
          BY <1>0, <2>1, <2>2, <3>2 DEF LocksInv
      <4> QED BY <2>1, <3>2, <4>1
    <3>3. CASE d # c /\ Target(d) # Target(c)
        BY <1>0, <2>1, <2>2, <3>3, TargetIsPath DEF LocksInv
    <3> QED BY <3>1, <3>2, <3>3
  <2>3. ASSUME NEW d \in Calls, NEW e \in Calls, stage'[d] \in Holding, stage'[e] \in Holding,
               lock'[d] = lock'[e]
        PROVE  d = e
      BY <1>0, <2>1, <2>3 DEF LocksInv, Holding
  <2> QED BY <1>0, <2>2, <2>3 DEF LocksInv
<1>3. CASE TakeLock(c)
  <2>1. /\ stage[c] = "waiting" /\ stage'[c] = "operating" /\ lock' = lock /\ queues' = queues
        /\ \A d \in Calls : d # c => stage'[d] = stage[d]
        /\ \A d \in Calls : stage[d] \in Holding => lock[d] # lock[c]
      BY <1>0, <1>3 DEF TakeLock, Moves, TypeInv
  <2>2. \A d \in Calls : stage'[d] \in Attached => stage[d] \in Attached
      BY <2>1 DEF Attached
  <2>3. ASSUME NEW d \in Calls, NEW e \in Calls, stage'[d] \in Holding, stage'[e] \in Holding,
               lock'[d] = lock'[e]
        PROVE  d = e
      BY <1>0, <2>1, <2>3 DEF LocksInv
  <2> QED BY <1>0, <2>1, <2>2, <2>3 DEF LocksInv
<1>4. CASE LeaveRegistry(c)
  <2>1. /\ stage[c] = "operated" /\ stage'[c] = "unlocking" /\ lock' = lock
        /\ \A d \in Calls : d # c => stage'[d] = stage[d]
        /\ key[c] = Target(c)
        /\ \A f \in Paths : f # Target(c) => queues'[f] = queues[f]
      BY <1>0, <1>4 DEF LeaveRegistry, Moves, TypeInv, KeysInv
  <2>2. ASSUME NEW d \in Calls, stage'[d] \in Attached
        PROVE  lock'[d] # NoCall /\ queues'[Target(d)] = lock'[d]
    <3>1. d # c /\ stage[d] \in Attached
        BY <2>1, <2>2 DEF Attached, Operating
    <3>2. CASE Target(d) = Target(c)
      <4>1. ~LastUser(c)
          BY <2>1, <3>1, <3>2, LastIsAlone
      <4>2. queues' = queues
          BY <1>4, <4>1 DEF LeaveRegistry
      <4> QED BY <1>0, <2>1, <3>1, <4>2 DEF LocksInv
    <3>3. CASE Target(d) # Target(c)
        BY <1>0, <2>1, <3>1, <3>3, TargetIsPath DEF LocksInv
    <3> QED BY <3>2, <3>3
  <2>3. \A d \in Calls : stage'[d] \in Holding => stage[d] \in Holding
      BY <2>1 DEF Holding
  <2> QED BY <1>0, <2>1, <2>2, <2>3 DEF LocksInv
<1> QED BY <1>1, <1>2, <1>3, <1>4 DEF Mutates

-----------------------------------------------------------------------------
\* A step that changes no text, and puts no call behind a read or a write, loses nothing.
LEMMA StaysWritten ==
    ASSUME TextsInv, NEW c \in Calls, \A d \in Calls : Target(d)' = Target(d),
           UNCHANGED <<seen, text, serial>>, \A d \in Calls : d # c => stage'[d] = stage[d],
           stage[c] # "writing", stage'[c] \notin {"read", "writing"}
    PROVE  TextsInv'
<1>1. EditsNotLost'
  <2> SUFFICES ASSUME NEW f \in Paths, \A d \in Calls : Target(d)' = f => stage'[d] # "writing"
               PROVE  text'[f] = serial'[f]
      BY DEF EditsNotLost
  <2>1. \A d \in Calls : Target(d) = f => stage[d] # "writing"
      OBVIOUS
  <2> QED BY <2>1 DEF TextsInv, EditsNotLost
<1>2. \A d \in Calls : stage'[d] \in {"read", "writing"} => (d # c /\ stage'[d] = stage[d])
    OBVIOUS
<1> QED BY <1>1, <1>2 DEF TextsInv

\* Nobody else has read or is writing a file that a call operates on.
LEMMA NobodyElse ==
    ASSUME MutationInv, NEW c \in Calls, stage[c] \in Operating, NEW d \in Calls,
           stage[d] \in {"read", "writing"}, Target(d) = Target(c)
    PROVE  d = c
BY AttachedExclude DEF MutationInv, Operating, Attached, Holding

LEMMA StepKeepsTexts ==
    ASSUME MutationInv, NEW c \in Calls, Mutates(c) \/ CallDropped(c)
    PROVE  TextsInv'
<1>0. /\ Target(c) \in Paths /\ \A d \in Calls : Target(d)' = Target(d)
      /\ TypeInv /\ KeysInv /\ LocksInv /\ TextsInv
    BY TargetIsPath, PathsStay DEF MutationInv
<1>1. CASE \/ FindKey(c) \/ CloneLock(c) \/ TakeLock(c) \/ OperationFails(c) \/ LeaveRegistry(c)
           \/ Unlock(c) \/ DropClone(c) \/ CallDropped(c)
  <2>1. /\ UNCHANGED <<seen, text, serial>> /\ \A d \in Calls : d # c => stage'[d] = stage[d]
        /\ stage[c] # "writing" /\ stage'[c] \notin {"read", "writing"}
      BY <1>0, <1>1 DEF FindKey, CloneLock, TakeLock, OperationFails, LeaveRegistry, Unlock, DropClone,
                        CallDropped, Moves, TypeInv
  <2> QED BY <1>0, <2>1, StaysWritten
<1>2. CASE ReadForEdit(c)
  <2>1. /\ stage[c] = "operating" /\ stage'[c] = "read" /\ c \in Edits
        /\ text[Target(c)] # NoCall /\ text' = text /\ serial' = serial
        /\ seen'[c] = text[Target(c)]
        /\ \A d \in Calls : d # c => (stage'[d] = stage[d] /\ seen'[d] = seen[d])
      BY <1>0, <1>2 DEF ReadForEdit, Moves, TypeInv
  <2>2. EditsNotLost'
    <3> SUFFICES ASSUME NEW f \in Paths, \A d \in Calls : Target(d)' = f => stage'[d] # "writing"
                 PROVE  text'[f] = serial'[f]
        BY DEF EditsNotLost
    <3>1. \A d \in Calls : Target(d) = f => stage[d] # "writing"
        BY <1>0, <2>1
    <3> QED BY <1>0, <2>1, <3>1 DEF TextsInv, EditsNotLost
  <2> QED BY <1>0, <2>1, <2>2 DEF TextsInv
<1>3. CASE StartWrite(c)
  <2>1. /\ stage[c] = (IF c \in Edits THEN "read" ELSE "operating") /\ stage'[c] = "writing"
        /\ seen' = seen /\ \A d \in Calls : d # c => stage'[d] = stage[d]
      BY <1>0, <1>3 DEF StartWrite, Moves, TypeInv
  <2>2. /\ text'[Target(c)] = <<>>
        /\ serial'[Target(c)] = IF serial[Target(c)] = NoCall THEN <<>> ELSE serial[Target(c)]
        /\ \A f \in Paths : f # Target(c) => (text'[f] = text[f] /\ serial'[f] = serial[f])
      BY <1>0, <1>3 DEF StartWrite, TypeInv
  <2>3. \A d \in Calls : (stage[d] \in {"read", "writing"} /\ Target(d) = Target(c)) => d = c
      BY <2>1, NobodyElse DEF Operating
  <2>4. text[Target(c)] = serial[Target(c)]
      BY <1>0, <2>1, <2>3 DEF TextsInv, EditsNotLost
  <2>5. EditsNotLost'
    <3> SUFFICES ASSUME NEW f \in Paths, \A d \in Calls : Target(d)' = f => stage'[d] # "writing"
                 PROVE  text'[f] = serial'[f]
        BY DEF EditsNotLost
    <3>1. f # Target(c) /\ \A d \in Calls : Target(d) = f => stage[d] # "writing"
        BY <1>0, <2>1
    <3> QED BY <1>0, <2>2, <3>1 DEF TextsInv, EditsNotLost
  <2>6. <<>> # NoCall
      BY NotNoCall
  <2>7. ASSUME NEW d \in Calls, stage'[d] = "read"
        PROVE  d \in Edits /\ seen'[d] = text'[Target(d)] /\ seen'[d] # NoCall
    <3>1. d # c /\ stage[d] = "read" /\ Target(d) # Target(c)
        BY <2>1, <2>3, <2>7
    <3> QED BY <1>0, <2>1, <2>2, <3>1, TargetIsPath DEF TextsInv
  <2>8. ASSUME NEW d \in Calls, stage'[d] = "writing"
        PROVE  /\ text'[Target(d)] = <<>> /\ serial'[Target(d)] # NoCall
               /\ d \in Edits => seen'[d] = serial'[Target(d)]
    <3>1. CASE d = c
        BY <1>0, <2>1, <2>2, <2>4, <2>6, <3>1 DEF TextsInv
    <3>2. CASE d # c
      <4>1. stage[d] = "writing" /\ Target(d) # Target(c)
          BY <2>1, <2>3, <2>8, <3>2
      <4> QED BY <1>0, <2>1, <2>2, <4>1, TargetIsPath DEF TextsInv
    <3> QED BY <3>1, <3>2
  <2> QED BY <1>0, <2>5, <2>7, <2>8 DEF TextsInv
<1>4. CASE EndWrite(c) \/ WriteFails(c)
  <2>1. /\ stage[c] = "writing" /\ stage'[c] = "operated" /\ seen' = seen
        /\ \A d \in Calls : d # c => stage'[d] = stage[d]
      BY <1>0, <1>4 DEF EndWrite, WriteFails, Moves, TypeInv
  <2>2. /\ text'[Target(c)] = serial'[Target(c)]
        /\ \A f \in Paths : f # Target(c) => (text'[f] = text[f] /\ serial'[f] = serial[f])
    <3>1. CASE EndWrite(c)
      <4>1. Mutated(seen[c], c) = Mutated(serial[Target(c)], c)
          BY <1>0, <2>1 DEF Mutated, TextsInv
      <4> QED BY <1>0, <3>1, <4>1 DEF EndWrite, TypeInv
    <3>2. CASE WriteFails(c)
        BY <1>0, <2>1, <3>2 DEF WriteFails, TypeInv, TextsInv
    <3> QED BY <1>4, <3>1, <3>2
  <2>3. \A d \in Calls : (stage[d] \in {"read", "writing"} /\ Target(d) = Target(c)) => d = c
      BY <2>1, NobodyElse DEF Operating
  <2>4. EditsNotLost'
    <3> SUFFICES ASSUME NEW f \in Paths, \A d \in Calls : Target(d)' = f => stage'[d] # "writing",
                        f # Target(c)
                 PROVE  text'[f] = serial'[f]
        BY <2>2 DEF EditsNotLost
    <3>1. \A d \in Calls : Target(d) = f => stage[d] # "writing"
        BY <1>0, <2>1
    <3> QED BY <1>0, <2>2, <3>1 DEF TextsInv, EditsNotLost
  <2>5. ASSUME NEW d \in Calls, stage'[d] \in {"read", "writing"}
        PROVE  /\ stage[d] = stage'[d] /\ Target(d) # Target(c) /\ Target(d) \in Paths
               /\ text'[Target(d)] = text[Target(d)] /\ serial'[Target(d)] = serial[Target(d)]
    <3>1. d # c /\ stage[d] = stage'[d]
        BY <2>1, <2>5
    <3>2. Target(d) # Target(c) /\ Target(d) \in Paths
        BY <1>0, <2>3, <2>5, <3>1, TargetIsPath
    <3> QED BY <2>2, <3>1, <3>2
  <2> QED BY <1>0, <2>1, <2>4, <2>5 DEF TextsInv
<1> QED BY <1>1, <1>2, <1>3, <1>4 DEF Mutates

-----------------------------------------------------------------------------
LEMMA MutationInvHolds == MutationSpec => []MutationInv
<1>1. ASSUME MutationInv, [MutationNext]_mutationVars
      PROVE  MutationInv'
  <2>1. CASE UNCHANGED mutationVars
      BY <1>1, <2>1 DEF mutationVars, MutationInv, TypeInv, KeysInv, LocksInv, TextsInv, EditsNotLost, Target
  <2>2. CASE \E c \in Calls : Mutates(c) \/ CallDropped(c)
    <3>1. PICK c \in Calls : Mutates(c) \/ CallDropped(c)
        BY <2>2
    <3> QED BY <1>1, <3>1, StepKeepsTypes, StepKeepsKeys, StepKeepsLocks, StepKeepsTexts DEF MutationInv
  <2> QED BY <1>1, <2>1, <2>2 DEF MutationNext
<1> QED BY <1>1, InitInv, PTL DEF MutationSpec

\* with_file_mutation_queue serializes the mutations of one file, though its lock goes
\* from the registry with its last user and the next one makes another.
THEOREM MutatorsExclude == MutationSpec => []OneMutator
<1>1. MutationInv => OneMutator
    BY AttachedExclude DEF MutationInv, OneMutator, Attached, Holding, Operating
<1> QED BY <1>1, MutationInvHolds, PTL

\* No edit of a file is lost, whatever other edits, writes and failures go on.
THEOREM NoEditIsLost == MutationSpec => []EditsNotLost
<1>1. MutationInv => EditsNotLost
    BY DEF MutationInv, TextsInv
<1> QED BY <1>1, MutationInvHolds, PTL

(**************************** Sets of numbers ****************************)

\* Induction over the natural numbers, for a set of them: the finite intervals 1 .. n are
\* well founded under strict inclusion.
LEMMA EveryNumber ==
    ASSUME NEW N, 0 \in N, \A n \in Nat : n \in N => n + 1 \in N
    PROVE  Nat \subseteq N
<1> SUFFICES ASSUME NEW n0 \in Nat, n0 \notin N PROVE FALSE
    OBVIOUS
<1> DEFINE R == StrictSubsetOrdering(Nat)
           T == {1 .. n : n \in {k \in Nat : k \notin N}}
<1>1. IsWellFoundedOn(R, FiniteSubsetsOf(Nat))
    BY FS_StrictSubsetOrderingWellFounded
<1>2. T \subseteq FiniteSubsetsOf(Nat)
  <2> SUFFICES ASSUME NEW n \in Nat PROVE 1 .. n \in FiniteSubsetsOf(Nat)
      OBVIOUS
  <2>1. n \in Int /\ 1 \in Int
      OBVIOUS
  <2> QED BY <2>1, FS_Interval DEF FiniteSubsetsOf
<1>3. T # {}
    BY DEF T
<1> HIDE DEF R
<1>4. PICK t \in T : \A u \in T : <<u, t>> \notin R
  <2> HIDE DEF T
  <2> QED BY <1>1, <1>2, <1>3, WFMin
<1>5. PICK n \in Nat : n \notin N /\ t = 1 .. n
    OBVIOUS
<1>6. n # 0
    BY <1>5
<1>7. n - 1 \in Nat /\ n - 1 \notin N
    BY <1>5, <1>6
<1>8. <<1 .. (n - 1), 1 .. n>> \in R
  <2>1. n \in 1 .. n /\ n \notin 1 .. (n - 1)
      BY <1>6
  <2>2. 1 .. (n - 1) \subseteq 1 .. n /\ 1 .. n \subseteq Nat
      OBVIOUS
  <2>3. <<1 .. (n - 1), 1 .. n>> \in (SUBSET Nat) \X (SUBSET Nat)
      BY <2>2
  <2> QED BY <2>1, <2>2, <2>3 DEF R, StrictSubsetOrdering
<1> QED BY <1>4, <1>5, <1>7, <1>8

\* The greatest and the least of some numbers that are bounded.
LEMMA GreatestOf ==
    ASSUME NEW n \in Nat, NEW T \in SUBSET (0 .. n), T # {}
    PROVE  Max(T) \in T /\ \A y \in T : Max(T) >= y
<1> DEFINE N == {m \in Nat : \A V \in SUBSET (0 .. m) : V # {} => \E x \in V : \A y \in V : x >= y}
<1>1. 0 \in N
  <2> SUFFICES ASSUME NEW V \in SUBSET (0 .. 0), V # {} PROVE \E x \in V : \A y \in V : x >= y
      OBVIOUS
  <2>1. PICK x \in V : TRUE
      OBVIOUS
  <2>2. \A y \in V : y = 0
      OBVIOUS
  <2>3. \A y \in V : x >= y
      BY <2>2
  <2> QED BY <2>3
<1>2. ASSUME NEW m \in Nat, m \in N PROVE m + 1 \in N
  <2> SUFFICES ASSUME NEW V \in SUBSET (0 .. m + 1), V # {} PROVE \E x \in V : \A y \in V : x >= y
      OBVIOUS
  <2>1. CASE m + 1 \in V
      BY <2>1
  <2>2. CASE m + 1 \notin V
    <3>1. V \in SUBSET (0 .. m)
        BY <2>2
    <3> QED BY <1>2, <3>1
  <2> QED BY <2>1, <2>2
<1>3. Nat \subseteq N
  <2> HIDE DEF N
  <2> QED BY <1>1, <1>2, EveryNumber
<1>4. \E x \in T : \A y \in T : x >= y
    BY <1>3
<1> QED BY <1>4 DEF Max

\* ... and a least one.
LEMMA LeastOf ==
    ASSUME NEW n \in Nat, NEW T \in SUBSET (0 .. n), T # {}
    PROVE  Min(T) \in T /\ \A y \in T : Min(T) <= y
<1> DEFINE V == {n - x : x \in T}
<1>1. V \in SUBSET (0 .. n) /\ V # {}
  <2>1. \A x \in T : n - x \in 0 .. n
      OBVIOUS
  <2> QED BY <2>1
<1>2. Max(V) \in V /\ \A y \in V : Max(V) >= y
  <2> HIDE DEF V
  <2> QED BY <1>1, GreatestOf
<1>3. PICK x \in T : Max(V) = n - x
    BY <1>2
<1>4. \A y \in T : x <= y
  <2> SUFFICES ASSUME NEW y \in T PROVE x <= y
      OBVIOUS
  <2>1. n - y \in V
      OBVIOUS
  <2>2. n - x >= n - y
      BY <1>2, <1>3, <2>1
  <2>3. x \in Int /\ y \in Int
      OBVIOUS
  <2> HIDE DEF V
  <2> QED BY <2>2, <2>3
<1> QED BY <1>4 DEF Min

\* What is the least is the least.
LEMMA LeastIs ==
    ASSUME NEW T \in SUBSET Nat, NEW x \in T, \A y \in T : x <= y
    PROVE  Min(T) = x
<1>1. \A z \in T : (\A y \in T : z <= y) => z = x
  <2> SUFFICES ASSUME NEW z \in T, \A y \in T : z <= y PROVE z = x
      OBVIOUS
  <2>1. z <= x /\ x <= z /\ z \in Nat /\ x \in Nat
      OBVIOUS
  <2> QED BY <2>1
<1> QED BY <1>1 DEF Min

\* Which the greatest is.
LEMMA GreatestIs ==
    ASSUME NEW T \in SUBSET Nat, NEW x \in T, \A y \in T : x >= y
    PROVE  Max(T) = x
<1>1. \A z \in T : (\A y \in T : z >= y) => z = x
  <2> SUFFICES ASSUME NEW z \in T, \A y \in T : z >= y PROVE z = x
      OBVIOUS
  <2>1. z <= x /\ x <= z /\ z \in Nat /\ x \in Nat
      OBVIOUS
  <2> QED BY <2>1
<1> QED BY <1>1 DEF Max

\* The recursion of FlattenSeq: g holds what the first of the texts come to.
Flattens(s, g) ==
    g = [i \in 1 .. Len(s) |-> IF i = 1 THEN s[i] ELSE g[i - 1] \o s[i]]

\* What FlattenSeq builds up.
LEMMA FlattensStep ==
    ASSUME NEW s, NEW g, Flattens(s, g), Len(s) \in Nat
    PROVE  /\ DOMAIN g = 1 .. Len(s)
           /\ 1 \in 1 .. Len(s) => g[1] = s[1]
           /\ \A i \in 1 .. Len(s) : i # 1 => g[i] = g[i - 1] \o s[i]
<1> DEFINE f == [i \in 1 .. Len(s) |-> IF i = 1 THEN s[i] ELSE g[i - 1] \o s[i]]
<1>1. g = f
    BY DEF Flattens
<1>2. DOMAIN f = 1 .. Len(s) /\ \A i \in 1 .. Len(s) : f[i] = IF i = 1 THEN s[i] ELSE g[i - 1] \o s[i]
    OBVIOUS
<1> HIDE DEF f
<1> QED BY <1>1, <1>2

\* It is what it is for a beginning of the texts.
LEMMA FlattensAlike ==
    ASSUME NEW s, NEW t, Len(s) \in Nat, Len(t) \in Nat, Len(s) <= Len(t),
           \A i \in 1 .. Len(s) : s[i] = t[i],
           NEW g, Flattens(s, g), NEW h, Flattens(t, h)
    PROVE  \A i \in 1 .. Len(s) : g[i] = h[i]
<1> DEFINE N == {n \in Nat : n + 1 <= Len(s) => g[n + 1] = h[n + 1]}
<1>a. /\ 1 \in 1 .. Len(s) => g[1] = s[1]
      /\ \A i \in 1 .. Len(s) : i # 1 => g[i] = g[i - 1] \o s[i]
    BY FlattensStep
<1>b. /\ 1 \in 1 .. Len(t) => h[1] = t[1]
      /\ \A i \in 1 .. Len(t) : i # 1 => h[i] = h[i - 1] \o t[i]
    BY FlattensStep
<1>1. 0 \in N
    BY <1>a, <1>b
<1>2. ASSUME NEW n \in Nat, n \in N PROVE n + 1 \in N
  <2> SUFFICES ASSUME (n + 1) + 1 <= Len(s) PROVE g[(n + 1) + 1] = h[(n + 1) + 1]
      OBVIOUS
  <2>1. /\ (n + 1) + 1 \in 1 .. Len(s) /\ (n + 1) + 1 \in 1 .. Len(t)
        /\ (n + 1) + 1 # 1 /\ ((n + 1) + 1) - 1 = n + 1 /\ n + 1 <= Len(s)
      OBVIOUS
  <2>2. g[n + 1] = h[n + 1]
      BY <1>2, <2>1
  <2>3. g[(n + 1) + 1] = g[n + 1] \o s[(n + 1) + 1]
      BY <1>a, <2>1
  <2>4. h[(n + 1) + 1] = h[n + 1] \o t[(n + 1) + 1]
      BY <1>b, <2>1
  <2> QED BY <2>1, <2>2, <2>3, <2>4
<1>3. Nat \subseteq N
  <2> HIDE DEF N
  <2> QED BY <1>1, <1>2, EveryNumber
<1>4. ASSUME NEW i \in 1 .. Len(s) PROVE g[i] = h[i]
  <2>1. i - 1 \in Nat /\ (i - 1) + 1 = i /\ i <= Len(s)
      OBVIOUS
  <2>2. i - 1 \in N
      BY <1>3, <2>1
  <2> QED BY <2>1, <2>2
<1> QED BY <1>4

\* There is what it builds up, for every sequence.
LEMMA FlattensExists ==
    ASSUME NEW S, NEW s \in Seq(S)
    PROVE  \E g : Flattens(s, g)
<1> DEFINE N == {n \in Nat : \A t \in Seq(S) : Len(t) = n => \E g : Flattens(t, g)}
<1>1. 0 \in N
  <2> SUFFICES ASSUME NEW t \in Seq(S), Len(t) = 0 PROVE \E g : Flattens(t, g)
      OBVIOUS
  <2> DEFINE g == [i \in 1 .. 0 |-> t]
  <2>1. Flattens(t, g)
      BY DEF Flattens
  <2> QED BY <2>1
<1>2. ASSUME NEW n \in Nat, n \in N PROVE n + 1 \in N
  <2> SUFFICES ASSUME NEW t \in Seq(S), Len(t) = n + 1 PROVE \E g : Flattens(t, g)
      OBVIOUS
  <2> DEFINE u == SubSeq(t, 1, n)
  <2>1. u \in Seq(S) /\ Len(u) = n /\ \A i \in 1 .. n : u[i] = t[i]
      OBVIOUS
  <2> HIDE DEF u
  <2>2. PICK h : Flattens(u, h)
      BY <1>2, <2>1
  <2> DEFINE g == [i \in 1 .. n + 1 |-> IF i <= n THEN h[i] ELSE IF n = 0 THEN t[1] ELSE h[n] \o t[n + 1]]
             f == [i \in 1 .. Len(t) |-> IF i = 1 THEN t[i] ELSE g[i - 1] \o t[i]]
  <2>3. \A i \in 1 .. n : g[i] = h[i]
      OBVIOUS
  <2>4. g[n + 1] = IF n = 0 THEN t[1] ELSE h[n] \o t[n + 1]
      OBVIOUS
  <2>5. DOMAIN g = 1 .. n + 1 /\ g = [i \in DOMAIN g |-> g[i]]
      OBVIOUS
  <2>6. \A i \in 1 .. n + 1 : f[i] = IF i = 1 THEN t[i] ELSE g[i - 1] \o t[i]
      OBVIOUS
  <2>7. f = [i \in 1 .. n + 1 |-> f[i]]
      OBVIOUS
  <2> HIDE DEF g, f
  <2>8. ASSUME NEW i \in 1 .. n + 1 PROVE f[i] = g[i]
    <3>1. CASE i \in 1 .. n /\ i = 1
      <4>1. h[1] = u[1] /\ u[1] = t[1]
          BY <2>1, <2>2, <3>1, FlattensStep
      <4> QED BY <2>3, <2>6, <3>1, <4>1
    <3>2. CASE i \in 1 .. n /\ i # 1
      <4>1. h[i] = h[i - 1] \o u[i] /\ u[i] = t[i]
          BY <2>1, <2>2, <3>2, FlattensStep
      <4>2. i - 1 \in 1 .. n
          BY <3>2
      <4> QED BY <2>3, <2>6, <3>2, <4>1, <4>2
    <3>3. CASE i = n + 1 /\ n = 0
        BY <2>4, <2>6, <3>3
    <3>4. CASE i = n + 1 /\ n # 0
      <4>1. i # 1 /\ i - 1 = n /\ n \in 1 .. n
          BY <3>4
      <4> QED BY <2>3, <2>4, <2>6, <3>4, <4>1
    <3> QED BY <3>1, <3>2, <3>3, <3>4
  <2>9. g = f
      BY <2>5, <2>7, <2>8
  <2>10. Flattens(t, g)
      BY <2>9 DEF Flattens, f
  <2> QED BY <2>10
<1>3. Nat \subseteq N
  <2> HIDE DEF N
  <2> QED BY <1>1, <1>2, EveryNumber
<1>4. Len(s) \in N
    BY <1>3
<1> QED BY <1>4

LEMMA FlattenIs ==
    ASSUME NEW S, NEW s \in Seq(S), s # <<>>
    PROVE  \E g : Flattens(s, g) /\ FlattenSeq(s) = g[Len(s)]
<1>1. Len(s) # 0
    OBVIOUS
<1>2. PICK g : Flattens(s, g)
    BY FlattensExists
<1> DEFINE e == CHOOSE f : f = [i \in 1 .. Len(s) |-> IF i = 1 THEN s[i] ELSE f[i - 1] \o s[i]]
<1>3. e = [i \in 1 .. Len(s) |-> IF i = 1 THEN s[i] ELSE e[i - 1] \o s[i]]
    BY <1>2 DEF Flattens
<1>4. FlattenSeq(s) = e[Len(s)]
    BY <1>1 DEF FlattenSeq
<1>5. Flattens(s, e)
  <2> HIDE DEF e
  <2> QED BY <1>3 DEF Flattens
<1> HIDE DEF e
<1> QED BY <1>4, <1>5

(*************************** Texts, in pieces ****************************)

LEMMA FlattenEmpty == FlattenSeq(<<>>) = <<>>
BY DEF FlattenSeq

\* One more piece, behind the others.
LEMMA FlattenAppended ==
    ASSUME NEW S, NEW s \in Seq(Seq(S)), NEW p \in Seq(S)
    PROVE  FlattenSeq(Append(s, p)) = FlattenSeq(s) \o p
<1> DEFINE t == Append(s, p)
<1>1. /\ t \in Seq(Seq(S)) /\ t # <<>> /\ Len(t) = Len(s) + 1 /\ t[Len(s) + 1] = p
      /\ \A i \in 1 .. Len(s) : t[i] = s[i]
      /\ Len(s) \in Nat /\ Len(t) \in Nat
    BY AppendProperties, LenProperties
<1> HIDE DEF t
<1>2. PICK h : Flattens(t, h) /\ FlattenSeq(t) = h[Len(t)]
    BY <1>1, FlattenIs
<1>3. CASE s = <<>>
  <2>1. FlattenSeq(s) = <<>> /\ Len(s) = 0 /\ Len(t) = 1 /\ t[1] = p
      BY <1>1, <1>3, FlattenEmpty
  <2>2. h[1] = t[1]
    <3>1. 1 \in 1 .. Len(t)
        BY <2>1
    <3>2. 1 \in 1 .. Len(t) => h[1] = t[1]
        BY <1>1, <1>2, FlattensStep
    <3> QED BY <3>1, <3>2
  <2>3. <<>> \o p = p
      BY ConcatEmptySeq
  <2> QED BY <1>2, <2>1, <2>2, <2>3 DEF t
<1>4. CASE s # <<>>
  <2>1. PICK g : Flattens(s, g) /\ FlattenSeq(s) = g[Len(s)]
      BY <1>4, FlattenIs
  <2>2. Len(s) # 0 /\ Len(s) \in 1 .. Len(s) /\ Len(t) \in 1 .. Len(t) /\ Len(t) # 1 /\ Len(t) - 1 = Len(s)
      BY <1>1, <1>4
  <2>3. \A i \in 1 .. Len(s) : g[i] = h[i]
    <3>1. /\ Len(s) \in Nat /\ Len(t) \in Nat /\ Len(s) <= Len(t)
          /\ \A i \in 1 .. Len(s) : s[i] = t[i]
        BY <1>1
    <3>2. Flattens(s, g) /\ Flattens(t, h)
        BY <1>2, <2>1
    <3> QED BY ONLY <3>1, <3>2, FlattensAlike
  <2>4. h[Len(t)] = h[Len(t) - 1] \o t[Len(t)]
      BY <1>1, <1>2, <2>2, FlattensStep
  <2>5. t[Len(t)] = p
      BY <1>1
  <2> QED BY <1>2, <2>1, <2>2, <2>3, <2>4, <2>5 DEF t
<1> QED BY <1>3, <1>4

LEMMA FlattenText ==
    ASSUME NEW S, NEW s \in Seq(Seq(S))
    PROVE  FlattenSeq(s) \in Seq(S)
<1> DEFINE N == {n \in Nat : \A t \in Seq(Seq(S)) : Len(t) = n => FlattenSeq(t) \in Seq(S)}
<1>1. 0 \in N
  <2> SUFFICES ASSUME NEW t \in Seq(Seq(S)), Len(t) = 0 PROVE FlattenSeq(t) \in Seq(S)
      OBVIOUS
  <2>1. t = <<>> /\ <<>> \in Seq(S)
      OBVIOUS
  <2> QED BY <2>1, FlattenEmpty
<1>2. ASSUME NEW n \in Nat, n \in N PROVE n + 1 \in N
  <2> SUFFICES ASSUME NEW t \in Seq(Seq(S)), Len(t) = n + 1 PROVE FlattenSeq(t) \in Seq(S)
      OBVIOUS
  <2>1. t # <<>>
      OBVIOUS
  <2>2. PICK u \in Seq(Seq(S)), p \in Seq(S) : t = Append(u, p)
      BY <2>1, SequenceEmptyOrAppend
  <2>3. Len(u) = n
      BY <2>2
  <2>4. FlattenSeq(u) \in Seq(S)
      BY <1>2, <2>3
  <2>5. FlattenSeq(t) = FlattenSeq(u) \o p
      BY <2>2, FlattenAppended
  <2> QED BY <2>4, <2>5, ConcatProperties
<1>3. Nat \subseteq N
  <2> HIDE DEF N
  <2> QED BY <1>1, <1>2, EveryNumber
<1>4. Len(s) \in N
    BY <1>3
<1> QED BY <1>4

\* Two sequences of pieces, one behind the other.
LEMMA FlattenConcat ==
    ASSUME NEW S, NEW s \in Seq(Seq(S)), NEW u \in Seq(Seq(S))
    PROVE  FlattenSeq(s \o u) = FlattenSeq(s) \o FlattenSeq(u)
<1>0. \A x, y, z \in Seq(S) : (x \o y) \o z = x \o (y \o z)
    BY ConcatAssociative
<1> DEFINE N == {n \in Nat : \A v \in Seq(Seq(S)) : Len(v) = n =>
                                FlattenSeq(s \o v) = FlattenSeq(s) \o FlattenSeq(v)}
<1>1. 0 \in N
  <2> SUFFICES ASSUME NEW v \in Seq(Seq(S)), Len(v) = 0
               PROVE  FlattenSeq(s \o v) = FlattenSeq(s) \o FlattenSeq(v)
      OBVIOUS
  <2>1. v = <<>> /\ s \o <<>> = s
      BY ConcatEmptySeq
  <2>2. FlattenSeq(s) \o <<>> = FlattenSeq(s)
      BY FlattenText, ConcatEmptySeq
  <2> QED BY <2>1, <2>2, FlattenEmpty
<1>2. ASSUME NEW n \in Nat, n \in N PROVE n + 1 \in N
  <2> SUFFICES ASSUME NEW v \in Seq(Seq(S)), Len(v) = n + 1
               PROVE  FlattenSeq(s \o v) = FlattenSeq(s) \o FlattenSeq(v)
      OBVIOUS
  <2>1. v # <<>>
      OBVIOUS
  <2>2. PICK w \in Seq(Seq(S)), p \in Seq(S) : v = Append(w, p)
      BY <2>1, SequenceEmptyOrAppend
  <2>3. Len(w) = n
      BY <2>2
  <2>4. FlattenSeq(s \o w) = FlattenSeq(s) \o FlattenSeq(w)
      BY <1>2, <2>3
  <2>5. s \o v = Append(s \o w, p) /\ s \o w \in Seq(Seq(S))
      BY <2>2
  <2>6. FlattenSeq(v) = FlattenSeq(w) \o p
      BY <2>2, FlattenAppended
  <2>7. FlattenSeq(s \o v) = (FlattenSeq(s) \o FlattenSeq(w)) \o p
      BY <2>4, <2>5, FlattenAppended
  <2>8. (FlattenSeq(s) \o FlattenSeq(w)) \o p = FlattenSeq(s) \o (FlattenSeq(w) \o p)
    <3>1. FlattenSeq(s) \in Seq(S) /\ FlattenSeq(w) \in Seq(S)
        BY FlattenText
    <3> HIDE DEF N
    <3> QED BY <1>0, <3>1
  <2> QED BY <2>6, <2>7, <2>8
<1>3. Nat \subseteq N
  <2> HIDE DEF N
  <2> QED BY <1>1, <1>2, EveryNumber
<1>4. Len(u) \in N
    BY <1>3
<1> QED BY <1>4

\* The first of the texts, or the first n of them, and the others.
LEMMA FlattenSplit ==
    ASSUME NEW S, NEW s \in Seq(Seq(S)), NEW n \in 1 .. Len(s)
    PROVE  /\ SubSeq(s, 1, n) \in Seq(Seq(S)) /\ SubSeq(s, n + 1, Len(s)) \in Seq(Seq(S))
           /\ FlattenSeq(s) = FlattenSeq(SubSeq(s, 1, n)) \o FlattenSeq(SubSeq(s, n + 1, Len(s)))
<1>1. SubSeq(s, 1, n) \in Seq(Seq(S)) /\ SubSeq(s, n + 1, Len(s)) \in Seq(Seq(S))
    OBVIOUS
<1>2. s = SubSeq(s, 1, n) \o SubSeq(s, n + 1, Len(s))
    OBVIOUS
<1> QED BY <1>1, <1>2, FlattenConcat

LEMMA FlattenOne ==
    ASSUME NEW S, NEW p \in Seq(S)
    PROVE  FlattenSeq(<<p>>) = p
<1>1. <<>> \in Seq(Seq(S)) /\ <<p>> = Append(<<>>, p) /\ <<>> \o p = p
    BY ConcatEmptySeq
<1> QED BY <1>1, FlattenEmpty, FlattenAppended

LEMMA FlattenHead ==
    ASSUME NEW S, NEW s \in Seq(Seq(S)), s # <<>>
    PROVE  FlattenSeq(s) = Head(s) \o FlattenSeq(Tail(s))
<1>1. Head(s) \in Seq(S) /\ Tail(s) \in Seq(Seq(S)) /\ <<Head(s)>> \in Seq(Seq(S))
      /\ s = <<Head(s)>> \o Tail(s)
    OBVIOUS
<1>2. FlattenSeq(<<Head(s)>>) = Head(s)
    BY <1>1, FlattenOne
<1>3. FlattenSeq(<<Head(s)>> \o Tail(s)) = FlattenSeq(<<Head(s)>>) \o FlattenSeq(Tail(s))
    BY <1>1, FlattenConcat
<1> QED BY <1>1, <1>2, <1>3

Text == Seq(Byte)
Parts(t) == [i \in DOMAIN t |-> IF IsPrinted(t[i]) THEN <<t[i]>> ELSE <<>>]

\* Sanitising takes a text byte by byte.
LEMMA PartsConcat ==
    ASSUME NEW a \in Text, NEW b \in Text
    PROVE  /\ Parts(a) \in Seq(Text) /\ Parts(b) \in Seq(Text)
           /\ Parts(a \o b) = Parts(a) \o Parts(b)
<1>1. ASSUME NEW t \in Text
      PROVE  Parts(t) \in Seq(Text) /\ Len(Parts(t)) = Len(t)
             /\ \A i \in 1 .. Len(t) : Parts(t)[i] = IF IsPrinted(t[i]) THEN <<t[i]>> ELSE <<>>
  <2>1. DOMAIN t = 1 .. Len(t) /\ Len(t) \in Nat /\ \A i \in 1 .. Len(t) : t[i] \in Byte
      BY DEF Text
  <2>2. \A i \in 1 .. Len(t) : (IF IsPrinted(t[i]) THEN <<t[i]>> ELSE <<>>) \in Text
      BY <2>1 DEF Text
  <2>3. Parts(t) \in [1 .. Len(t) -> Text]
      BY <2>1, <2>2 DEF Parts
  <2>4. \A i \in 1 .. Len(t) : Parts(t)[i] = IF IsPrinted(t[i]) THEN <<t[i]>> ELSE <<>>
      BY <2>1 DEF Parts
  <2> QED BY <2>1, <2>3, <2>4
<1>2. /\ a \o b \in Text /\ Len(a \o b) = Len(a) + Len(b) /\ Len(a) \in Nat /\ Len(b) \in Nat
      /\ \A i \in 1 .. Len(a) + Len(b) : (a \o b)[i] = IF i <= Len(a) THEN a[i] ELSE b[i - Len(a)]
    BY DEF Text
<1> DEFINE l == Parts(a \o b)  p == Parts(a)  q == Parts(b)  r == p \o q
<1>3. p \in Seq(Text) /\ q \in Seq(Text) /\ Len(p) = Len(a) /\ Len(q) = Len(b)
    BY <1>1
<1>4. /\ r \in Seq(Text) /\ Len(r) = Len(a) + Len(b)
      /\ \A i \in 1 .. Len(a) + Len(b) : r[i] = IF i <= Len(a) THEN p[i] ELSE q[i - Len(a)]
  <2> HIDE DEF p, q
  <2>1. /\ r \in Seq(Text) /\ Len(r) = Len(p) + Len(q)
        /\ \A i \in 1 .. Len(p) + Len(q) : r[i] = IF i <= Len(p) THEN p[i] ELSE q[i - Len(p)]
      BY <1>3, ConcatProperties
  <2> QED BY <1>3, <2>1
<1>5. l \in Seq(Text) /\ Len(l) = Len(a) + Len(b)
    BY <1>1, <1>2
<1>6. ASSUME NEW i \in 1 .. Len(a) + Len(b) PROVE l[i] = r[i]
  <2>1. l[i] = IF IsPrinted((a \o b)[i]) THEN <<(a \o b)[i]>> ELSE <<>>
      BY <1>1, <1>2
  <2>2. CASE i <= Len(a)
    <3>1. i \in 1 .. Len(a) /\ (a \o b)[i] = a[i]
        BY <1>2, <2>2
    <3> QED BY <1>1, <1>4, <2>1, <2>2, <3>1
  <2>3. CASE ~(i <= Len(a))
    <3>1. i - Len(a) \in 1 .. Len(b) /\ (a \o b)[i] = b[i - Len(a)]
        BY <1>2, <2>3
    <3> QED BY <1>1, <1>4, <2>1, <2>3, <3>1
  <2> QED BY <2>2, <2>3
<1>7. l = r
  <2> HIDE DEF l, r
  <2> QED BY <1>4, <1>5, <1>6, SeqEqual
<1> QED BY <1>3, <1>7

\* Sanitising a text is sanitising its parts.
LEMMA SanitizedConcat ==
    ASSUME NEW a \in Text, NEW b \in Text
    PROVE  /\ Sanitized(a) \in Text
           /\ Sanitized(a \o b) = Sanitized(a) \o Sanitized(b)
<1>1. \A t : Sanitized(t) = FlattenSeq(Parts(t))
    BY DEF Sanitized, Parts
<1>2. Parts(a) \in Seq(Seq(Byte)) /\ Parts(b) \in Seq(Seq(Byte)) /\ Parts(a \o b) = Parts(a) \o Parts(b)
    BY PartsConcat DEF Text
<1>3. FlattenSeq(Parts(a)) \in Text
    BY <1>2, FlattenText DEF Text
<1> QED BY <1>1, <1>2, <1>3, FlattenConcat

LEMMA SanitizedOne ==
    ASSUME NEW x \in Byte
    PROVE  Sanitized(<<x>>) = IF x = "control" THEN <<>> ELSE <<x>>
<1>1. Parts(<<x>>) = <<IF IsPrinted(x) THEN <<x>> ELSE <<>>>>
    BY DEF Parts
<1>2. (IF IsPrinted(x) THEN <<x>> ELSE <<>>) \in Seq(Byte)
    OBVIOUS
<1>3. FlattenSeq(Parts(<<x>>)) = IF IsPrinted(x) THEN <<x>> ELSE <<>>
    BY <1>1, <1>2, FlattenOne
<1> QED BY <1>3 DEF Sanitized, Parts, IsPrinted

LEMMA SanitizedEmpty == Sanitized(<<>>) = <<>>
<1>1. Parts(<<>>) = <<>>
    BY DEF Parts
<1> QED BY <1>1, FlattenEmpty DEF Sanitized, Parts

(********************* What UTF-8 accepts of a text **********************)

\* The bytes of a part of a text, and of two texts.
LEMMA PartOfText ==
    ASSUME NEW t \in Text, NEW m \in 1 .. Len(t) + 1, NEW n \in 0 .. Len(t), m <= n + 1
    PROVE  /\ SubSeq(t, m, n) \in Text /\ Len(SubSeq(t, m, n)) = n - m + 1
           /\ \A i \in 1 .. n - m + 1 : SubSeq(t, m, n)[i] = t[m + i - 1]
<1>1. Len(t) \in Nat /\ m \in Int /\ n \in Int /\ \A i \in m .. n : t[i] \in Byte
    BY DEF Text
<1>2. /\ SubSeq(t, m, n) \in Text /\ Len(SubSeq(t, m, n)) = IF m <= n THEN n - m + 1 ELSE 0
      /\ \A i \in 1 .. n - m + 1 : SubSeq(t, m, n)[i] = t[m + i - 1]
    BY <1>1, SubSeqProperties DEF Text
<1> QED BY <1>1, <1>2

\* The beginning of a text, and its end.
LEMMA Beginning ==
    ASSUME NEW t \in Text, NEW n \in 0 .. Len(t)
    PROVE  /\ SubSeq(t, 1, n) \in Text /\ Len(SubSeq(t, 1, n)) = n
           /\ \A i \in 1 .. n : SubSeq(t, 1, n)[i] = t[i]
<1>1. /\ 1 \in 1 .. Len(t) + 1 /\ 1 <= n + 1 /\ n - 1 + 1 = n /\ \A i \in 1 .. n : 1 + i - 1 = i
    BY DEF Text
<1> QED BY <1>1, PartOfText

LEMMA Ending ==
    ASSUME NEW t \in Text, NEW n \in 0 .. Len(t)
    PROVE  /\ SubSeq(t, n + 1, Len(t)) \in Text /\ Len(SubSeq(t, n + 1, Len(t))) = Len(t) - n
           /\ \A i \in 1 .. Len(t) - n : SubSeq(t, n + 1, Len(t))[i] = t[n + i]
<1> DEFINE l == Len(t)  m == n + 1
<1>1. l \in Nat /\ m \in Int /\ l \in Int /\ \A i \in m .. l : t[i] \in Byte
    BY DEF Text
<1>2. /\ SubSeq(t, m, l) \in Seq(Byte) /\ Len(SubSeq(t, m, l)) = IF m <= l THEN l - m + 1 ELSE 0
      /\ \A i \in 1 .. l - m + 1 : SubSeq(t, m, l)[i] = t[m + i - 1]
  <2> HIDE DEF l, m
  <2> QED BY <1>1, SubSeqProperties
<1>3. n \in Nat /\ n <= l
    BY <1>1
<1>4. /\ (IF m <= l THEN l - m + 1 ELSE 0) = l - n /\ l - m + 1 = l - n
      /\ \A i \in 1 .. l - n : m + i - 1 = n + i
    BY <1>1, <1>3
<1> HIDE DEF l
<1> QED BY <1>2, <1>4 DEF Text, l

LEMMA TwoTexts ==
    ASSUME NEW s \in Text, NEW t \in Text
    PROVE  /\ s \o t \in Text /\ Len(s \o t) = Len(s) + Len(t)
           /\ \A i \in 1 .. Len(s) + Len(t) : (s \o t)[i] = IF i <= Len(s) THEN s[i] ELSE t[i - Len(s)]
           /\ Len(s) \in Nat /\ Len(t) \in Nat
BY ConcatProperties, LenProperties DEF Text

LEMMA SameText ==
    ASSUME NEW s \in Text, NEW t \in Text, Len(s) = Len(t), \A i \in 1 .. Len(s) : s[i] = t[i]
    PROVE  s = t
BY SeqEqual DEF Text

\* How far a text is valid.
LEMMA ValidBounds ==
    ASSUME NEW t \in Text
    PROVE  /\ ValidUpTo(t) \in 0 .. Len(t) /\ Len(t) \in Nat
           /\ IsUtf8(SubSeq(t, 1, ValidUpTo(t)))
           /\ \A n \in 0 .. Len(t) : IsUtf8(SubSeq(t, 1, n)) => n <= ValidUpTo(t)
<1> DEFINE V == {n \in 0 .. Len(t) : IsUtf8(SubSeq(t, 1, n))}
<1>1. Len(t) \in Nat
    BY DEF Text
<1>2. SubSeq(t, 1, 0) = <<>>
    BY SubSeqEmpty
<1>3. 0 \in V
    BY <1>1, <1>2 DEF IsUtf8
<1>4. V \in SUBSET (0 .. Len(t)) /\ V # {}
    BY <1>3
<1>5. Max(V) \in V /\ \A n \in V : Max(V) >= n
  <2> HIDE DEF V
  <2> QED BY <1>1, <1>4, GreatestOf
<1>6. ValidUpTo(t) = Max(V)
    BY DEF ValidUpTo
<1>7. \A n \in 0 .. Len(t) : IsUtf8(SubSeq(t, 1, n)) => n <= Max(V)
  <2> SUFFICES ASSUME NEW n \in 0 .. Len(t), IsUtf8(SubSeq(t, 1, n)) PROVE n <= Max(V)
      OBVIOUS
  <2>1. n \in V
      OBVIOUS
  <2>2. Max(V) \in 0 .. Len(t) /\ Max(V) >= n
      BY <1>5, <2>1
  <2> HIDE DEF V
  <2> QED BY <2>2
<1> QED BY <1>1, <1>5, <1>6, <1>7

LEMMA Utf8Facts ==
    ASSUME NEW t \in Text
    PROVE  /\ Utf8Prefix(t) \in Text /\ IsUtf8(Utf8Prefix(t)) /\ Len(Utf8Prefix(t)) = ValidUpTo(t)
           /\ SubSeq(t, ValidUpTo(t) + 1, Len(t)) \in Text
           /\ t = Utf8Prefix(t) \o SubSeq(t, ValidUpTo(t) + 1, Len(t))
<1> DEFINE n == ValidUpTo(t)
<1>1. n \in 0 .. Len(t) /\ Len(t) \in Nat /\ IsUtf8(SubSeq(t, 1, n))
    BY ValidBounds
<1> HIDE DEF n
<1>2. SubSeq(t, 1, n) \in Text /\ Len(SubSeq(t, 1, n)) = n
      /\ \A i \in 1 .. n : SubSeq(t, 1, n)[i] = t[i]
    BY <1>1, Beginning
<1>3. SubSeq(t, n + 1, Len(t)) \in Text /\ Len(SubSeq(t, n + 1, Len(t))) = Len(t) - n
      /\ \A i \in 1 .. Len(t) - n : SubSeq(t, n + 1, Len(t))[i] = t[n + i]
    BY <1>1, Ending
<1>4. t = SubSeq(t, 1, n) \o SubSeq(t, n + 1, Len(t))
  <2> DEFINE a == SubSeq(t, 1, n)  b == SubSeq(t, n + 1, Len(t))
  <2>1. /\ a \o b \in Text /\ Len(a \o b) = Len(a) + Len(b)
        /\ \A i \in 1 .. Len(a) + Len(b) : (a \o b)[i] = IF i <= Len(a) THEN a[i] ELSE b[i - Len(a)]
      BY <1>2, <1>3, TwoTexts
  <2> HIDE DEF a, b
  <2>2. Len(a) = n /\ Len(b) = Len(t) - n
      BY <1>2, <1>3 DEF a, b
  <2>3. ASSUME NEW i \in 1 .. Len(t) PROVE (a \o b)[i] = t[i]
    <3>1. CASE i <= n
      <4>1. i \in 1 .. n /\ i \in 1 .. Len(a) + Len(b)
          BY <1>1, <2>2, <3>1
      <4> QED BY <1>2, <2>1, <2>2, <3>1, <4>1 DEF a
    <3>2. CASE ~(i <= n)
      <4>1. i - n \in 1 .. Len(t) - n /\ i \in 1 .. Len(a) + Len(b) /\ n + (i - n) = i
          BY <1>1, <2>2, <3>2
      <4>2. b[i - n] = t[i]
          BY <1>3, <4>1 DEF b
      <4> QED BY <2>1, <2>2, <3>2, <4>1, <4>2
    <3> QED BY <3>1, <3>2
  <2>4. Len(a \o b) = Len(t)
      BY <1>1, <2>1, <2>2
  <2>5. a \o b = t
      BY <2>1, <2>3, <2>4, SameText
  <2> QED BY <2>5 DEF a, b
<1> QED BY <1>1, <1>2, <1>3, <1>4 DEF n, Utf8Prefix

\* What follows a valid text is as valid as it is by itself.
LEMMA ValidBehind ==
    ASSUME NEW v \in Text, IsUtf8(v), NEW y \in Text, NEW k \in 0 .. Len(y)
    PROVE  IsUtf8(SubSeq(v \o y, 1, Len(v) + k)) <=> IsUtf8(SubSeq(y, 1, k))
<1> DEFINE p == SubSeq(v \o y, 1, Len(v) + k)  q == SubSeq(y, 1, k)  l == Len(v)
<1>1. /\ l \in Nat /\ Len(y) \in Nat /\ k \in Nat /\ k <= Len(y)
      /\ v \o y \in Text /\ Len(v \o y) = l + Len(y)
      /\ \A i \in 1 .. l + Len(y) : (v \o y)[i] = IF i <= l THEN v[i] ELSE y[i - l]
    BY TwoTexts
<1>2. Len(q) = k /\ \A i \in 1 .. k : q[i] = y[i]
    BY Beginning
<1>3. Len(p) = l + k /\ \A i \in 1 .. l + k : p[i] = (v \o y)[i]
  <2>1. l + k \in 0 .. Len(v \o y)
      BY <1>1
  <2> QED BY <1>1, <2>1, Beginning
<1> HIDE DEF p, q
<1>4. \A i \in 1 .. l : p[i] = v[i]
    BY <1>1, <1>3
<1>5. \A i \in 1 .. k : p[l + i] = q[i]
  <2> SUFFICES ASSUME NEW i \in 1 .. k PROVE p[l + i] = q[i]
      OBVIOUS
  <2>1. l + i \in 1 .. l + k /\ l + i \in 1 .. l + Len(y) /\ ~(l + i <= l) /\ (l + i) - l = i
      BY <1>1
  <2> QED BY <1>1, <1>2, <1>3, <2>1
<1>6. /\ \A i \in 1 .. l : v[i] # "bad"
      /\ \A i \in 1 .. l : v[i] = "w1" => i < l /\ v[i + 1] = "w2"
      /\ \A i \in 1 .. l : v[i] = "w2" => i > 1 /\ v[i - 1] = "w1"
    BY DEF IsUtf8
<1> HIDE DEF l
<1>7. ASSUME IsUtf8(p) PROVE IsUtf8(q)
  <2>1. /\ \A i \in 1 .. l + k : p[i] # "bad"
        /\ \A i \in 1 .. l + k : p[i] = "w1" => i < l + k /\ p[i + 1] = "w2"
        /\ \A i \in 1 .. l + k : p[i] = "w2" => i > 1 /\ p[i - 1] = "w1"
      BY <1>3, <1>7 DEF IsUtf8
  <2> SUFFICES ASSUME NEW j \in 1 .. k
               PROVE  /\ q[j] # "bad"
                      /\ q[j] = "w1" => (j < k /\ q[j + 1] = "w2")
                      /\ q[j] = "w2" => (j > 1 /\ q[j - 1] = "w1")
      BY <1>2 DEF IsUtf8
  <2>2. l + j \in 1 .. l + k /\ p[l + j] = q[j]
    <3>1. l \in Nat /\ k \in Nat
        BY <1>1
    <3>2. l + j \in 1 .. l + k
        BY ONLY <3>1, j \in 1 .. k
    <3>3. p[l + j] = q[j]
        BY ONLY <1>5, j \in 1 .. k
    <3> QED BY ONLY <3>2, <3>3
  <2>3. q[j] # "bad"
      BY <2>1, <2>2
  <2>4. ASSUME q[j] = "w1" PROVE j < k /\ q[j + 1] = "w2"
    <3>1. l + j < l + k /\ p[(l + j) + 1] = "w2"
        BY <2>1, <2>2, <2>4
    <3>2. j < k /\ j + 1 \in 1 .. k /\ (l + j) + 1 = l + (j + 1)
        BY <1>1, <3>1
    <3> QED BY <1>5, <3>1, <3>2
  <2>5. ASSUME q[j] = "w2" PROVE j > 1 /\ q[j - 1] = "w1"
    <3>1. l + j > 1 /\ p[(l + j) - 1] = "w1"
        BY <2>1, <2>2, <2>5
    <3>2. j # 1
      <4> SUFFICES ASSUME j = 1 PROVE FALSE
          OBVIOUS
      <4>1. l \in 1 .. l /\ (l + j) - 1 = l
          BY <1>1, <3>1
      <4>2. v[l] = "w1"
          BY <1>4, <3>1, <4>1
      <4>3. l < l
          BY <1>6, <4>1, <4>2
      <4> QED BY <1>1, <4>3
    <3>3. j > 1 /\ j - 1 \in 1 .. k /\ (l + j) - 1 = l + (j - 1)
        BY <1>1, <3>2
    <3> QED BY <1>5, <3>1, <3>3
  <2> QED BY <2>3, <2>4, <2>5
<1>8. ASSUME IsUtf8(q) PROVE IsUtf8(p)
  <2>1. /\ \A i \in 1 .. k : q[i] # "bad"
        /\ \A i \in 1 .. k : q[i] = "w1" => i < k /\ q[i + 1] = "w2"
        /\ \A i \in 1 .. k : q[i] = "w2" => i > 1 /\ q[i - 1] = "w1"
      BY <1>2, <1>8 DEF IsUtf8
  <2> SUFFICES ASSUME NEW i \in 1 .. l + k
               PROVE  /\ p[i] # "bad"
                      /\ p[i] = "w1" => (i < l + k /\ p[i + 1] = "w2")
                      /\ p[i] = "w2" => (i > 1 /\ p[i - 1] = "w1")
      BY <1>3 DEF IsUtf8
  <2>2. CASE i <= l
    <3>1. i \in 1 .. l /\ p[i] = v[i]
        BY <1>1, <1>4, <2>2
    <3>2. ASSUME p[i] = "w1" PROVE i < l + k /\ p[i + 1] = "w2"
      <4>1. i < l /\ v[i + 1] = "w2"
          BY <1>6, <3>1, <3>2
      <4>2. i + 1 \in 1 .. l /\ i < l + k
          BY <1>1, <4>1
      <4> QED BY <1>4, <4>1, <4>2
    <3>3. ASSUME p[i] = "w2" PROVE i > 1 /\ p[i - 1] = "w1"
      <4>1. i > 1 /\ v[i - 1] = "w1"
          BY <1>6, <3>1, <3>3
      <4>2. i - 1 \in 1 .. l
          BY <1>1, <3>1, <4>1
      <4> QED BY <1>4, <4>1, <4>2
    <3> QED BY <1>6, <3>1, <3>2, <3>3
  <2>3. CASE ~(i <= l)
    <3> DEFINE j == i - l
    <3>1. j \in 1 .. k /\ i = l + j
        BY <1>1, <2>3
    <3> HIDE DEF j
    <3>2. p[i] = q[j]
        BY <1>5, <3>1
    <3>3. ASSUME p[i] = "w1" PROVE i < l + k /\ p[i + 1] = "w2"
      <4>1. j < k /\ q[j + 1] = "w2"
          BY <2>1, <3>1, <3>2, <3>3
      <4>2. j + 1 \in 1 .. k /\ i < l + k /\ i + 1 = l + (j + 1)
          BY <1>1, <3>1, <4>1
      <4> QED BY <1>5, <4>1, <4>2
    <3>4. ASSUME p[i] = "w2" PROVE i > 1 /\ p[i - 1] = "w1"
      <4>1. j > 1 /\ q[j - 1] = "w1"
          BY <2>1, <3>1, <3>2, <3>4
      <4>2. j - 1 \in 1 .. k /\ i > 1 /\ i - 1 = l + (j - 1)
          BY <1>1, <3>1, <4>1
      <4> QED BY <1>5, <4>1, <4>2
    <3> QED BY <2>1, <3>1, <3>2, <3>3, <3>4
  <2> QED BY <2>2, <2>3
<1> QED BY <1>7, <1>8 DEF p, q, l

\* Decoding what follows a valid text decodes it by itself.
LEMMA DecodedBehind ==
    ASSUME NEW v \in Text, IsUtf8(v), NEW y \in Text
    PROVE  Utf8Prefix(v \o y) = v \o Utf8Prefix(y)
<1> DEFINE l == Len(v)  n == ValidUpTo(y)
           V == {m \in 0 .. Len(v \o y) : IsUtf8(SubSeq(v \o y, 1, m))}
<1>1. /\ l \in Nat /\ Len(y) \in Nat /\ v \o y \in Text /\ Len(v \o y) = l + Len(y)
      /\ \A i \in 1 .. l + Len(y) : (v \o y)[i] = IF i <= l THEN v[i] ELSE y[i - l]
    BY TwoTexts
<1>2. /\ n \in 0 .. Len(y) /\ IsUtf8(SubSeq(y, 1, n))
      /\ \A m \in 0 .. Len(y) : IsUtf8(SubSeq(y, 1, m)) => m <= n
    BY ValidBounds
<1>3. \A m \in 0 .. Len(y) : IsUtf8(SubSeq(v \o y, 1, l + m)) <=> IsUtf8(SubSeq(y, 1, m))
    BY ValidBehind
<1> HIDE DEF n
<1>4. l + n \in V
  <2>1. l + n \in 0 .. Len(v \o y)
      BY <1>1, <1>2
  <2> QED BY <1>2, <1>3, <2>1
<1>5. \A m \in V : l + n >= m
  <2> SUFFICES ASSUME NEW m \in 0 .. Len(v \o y), IsUtf8(SubSeq(v \o y, 1, m)) PROVE l + n >= m
      OBVIOUS
  <2>1. CASE m <= l
      BY <1>1, <1>2, <2>1
  <2>2. CASE ~(m <= l)
    <3>1. m - l \in 0 .. Len(y) /\ m = l + (m - l)
        BY <1>1, <2>2
    <3>2. IsUtf8(SubSeq(y, 1, m - l))
        BY <1>3, <3>1
    <3>3. m - l <= n
        BY <1>2, <3>1, <3>2
    <3> QED BY <1>1, <1>2, <3>1, <3>3
  <2> QED BY <2>1, <2>2
<1>6. Max(V) = l + n
  <2>1. V \in SUBSET Nat
      BY <1>1
  <2> HIDE DEF V
  <2> QED BY <1>4, <1>5, <2>1, GreatestIs
<1>7. Utf8Prefix(v \o y) = SubSeq(v \o y, 1, l + n)
    BY <1>6 DEF Utf8Prefix, ValidUpTo
<1>8. Utf8Prefix(y) = SubSeq(y, 1, n)
    BY DEF Utf8Prefix, n
<1> DEFINE a == SubSeq(v \o y, 1, l + n)  b == SubSeq(y, 1, n)
<1>9. a \in Text /\ Len(a) = l + n /\ \A i \in 1 .. l + n : a[i] = (v \o y)[i]
  <2>1. l + n \in 0 .. Len(v \o y)
      BY <1>1, <1>2
  <2> QED BY <1>1, <2>1, Beginning
<1>10. b \in Text /\ Len(b) = n /\ \A i \in 1 .. n : b[i] = y[i]
    BY <1>2, Beginning
<1> HIDE DEF a, b
<1>11. /\ v \o b \in Text /\ Len(v \o b) = l + n
       /\ \A i \in 1 .. l + n : (v \o b)[i] = IF i <= l THEN v[i] ELSE b[i - l]
    BY <1>10, TwoTexts
<1>12. ASSUME NEW i \in 1 .. l + n PROVE a[i] = (v \o b)[i]
  <2>1. i \in 1 .. l + Len(y)
      BY <1>1, <1>2
  <2>2. CASE i <= l
      BY <1>1, <1>9, <1>11, <2>1, <2>2
  <2>3. CASE ~(i <= l)
    <3>1. i - l \in 1 .. n
        BY <1>1, <1>2, <2>3
    <3> QED BY <1>1, <1>9, <1>10, <1>11, <2>1, <2>3, <3>1
  <2> QED BY <2>2, <2>3
<1>13. a = v \o b
    BY <1>9, <1>11, <1>12, SameText
<1> QED BY <1>7, <1>8, <1>13 DEF a, b

\* What is valid is all decoded, and so is one valid text behind another.
LEMMA Utf8Whole ==
    ASSUME NEW v \in Text, IsUtf8(v)
    PROVE  Utf8Prefix(v) = v
<1>1. <<>> \in Text /\ v \o <<>> = v
    BY ConcatEmptySeq DEF Text
<1>2. Utf8Prefix(<<>>) \in Text /\ Len(Utf8Prefix(<<>>)) = ValidUpTo(<<>>)
      /\ ValidUpTo(<<>>) \in 0 .. 0
  <2>1. Len(<<>>) = 0
      OBVIOUS
  <2> QED BY <1>1, <2>1, Utf8Facts, ValidBounds
<1>3. Utf8Prefix(<<>>) = <<>>
  <2>1. Len(Utf8Prefix(<<>>)) = 0
      BY <1>2
  <2> QED BY <1>2, <2>1 DEF Text
<1>4. Utf8Prefix(v \o <<>>) = v \o Utf8Prefix(<<>>)
    BY <1>1, DecodedBehind
<1> QED BY <1>1, <1>3, <1>4

LEMMA Utf8Concat ==
    ASSUME NEW v \in Text, IsUtf8(v), NEW y \in Text, IsUtf8(y)
    PROVE  IsUtf8(v \o y)
<1>1. Utf8Prefix(v \o y) = v \o y
    BY DecodedBehind, Utf8Whole
<1>2. v \o y \in Text
    BY TwoTexts
<1> QED BY <1>1, <1>2, Utf8Facts

\* Decoding goes on where it stopped.
LEMMA DecodedOn ==
    ASSUME NEW c \in Text, NEW x \in Text
    PROVE  LET rest == SubSeq(c, ValidUpTo(c) + 1, Len(c)) IN
           Utf8Prefix(c \o x) = Utf8Prefix(c) \o Utf8Prefix(rest \o x)
<1> DEFINE rest == SubSeq(c, ValidUpTo(c) + 1, Len(c))  v == Utf8Prefix(c)
<1>1. v \in Text /\ IsUtf8(v) /\ rest \in Text /\ c = v \o rest
    BY Utf8Facts
<1> HIDE DEF rest, v
<1>2. c \o x = v \o (rest \o x)
    BY <1>1, ConcatAssociative DEF Text
<1>3. rest \o x \in Text
    BY <1>1, TwoTexts
<1>4. Utf8Prefix(v \o (rest \o x)) = v \o Utf8Prefix(rest \o x)
    BY <1>1, <1>3, DecodedBehind
<1> QED BY <1>2, <1>4 DEF rest, v

\* Beginnings of texts.
LEMMA PrefixOfConcat ==
    ASSUME NEW a \in Text, NEW b \in Text
    PROVE  IsPrefix(a, a \o b)
<1>1. /\ a \o b \in Text /\ Len(a \o b) = Len(a) + Len(b) /\ Len(a) \in Nat /\ Len(b) \in Nat
      /\ \A i \in 1 .. Len(a) + Len(b) : (a \o b)[i] = IF i <= Len(a) THEN a[i] ELSE b[i - Len(a)]
    BY TwoTexts
<1>2. SubSeq(a, 1, Len(a)) = a
    BY SubSeqFull DEF Text
<1> DEFINE p == SubSeq(a \o b, 1, Len(a))
<1>3. p \in Text /\ Len(p) = Len(a) /\ \A i \in 1 .. Len(a) : p[i] = (a \o b)[i]
  <2>1. Len(a) \in 0 .. Len(a \o b)
      BY <1>1
  <2> QED BY <1>1, <2>1, Beginning
<1>4. \A i \in 1 .. Len(p) : p[i] = a[i]
    BY <1>1, <1>3
<1>5. p = a
  <2> HIDE DEF p
  <2> QED BY <1>3, <1>4, SameText
<1> QED BY <1>1, <1>2, <1>5 DEF IsPrefix

LEMMA PrefixIsConcat ==
    ASSUME NEW a \in Text, NEW b \in Text, IsPrefix(a, b)
    PROVE  \E x \in Text : b = a \o x
<1> DEFINE l == Len(a)  x == SubSeq(b, l + 1, Len(b))
<1>1. l \in Nat /\ Len(b) \in Nat /\ l <= Len(b)
    BY DEF Text, IsPrefix
<1>2. \A i \in 1 .. l : a[i] = b[i]
  <2>1. SubSeq(a, 1, l) = SubSeq(b, 1, l)
      BY DEF IsPrefix
  <2>2. \A i \in 1 .. l : SubSeq(a, 1, l)[i] = a[i] /\ SubSeq(b, 1, l)[i] = b[i]
      BY <1>1 DEF Text
  <2> QED BY <2>1, <2>2
<1>3. x \in Text /\ Len(x) = Len(b) - l /\ \A i \in 1 .. Len(b) - l : x[i] = b[l + i]
  <2>1. l \in 0 .. Len(b)
      BY <1>1
  <2> QED BY <2>1, Ending
<1> HIDE DEF x
<1>4. /\ a \o x \in Text /\ Len(a \o x) = l + Len(x)
      /\ \A i \in 1 .. l + Len(x) : (a \o x)[i] = IF i <= l THEN a[i] ELSE x[i - l]
    BY <1>3, TwoTexts
<1> HIDE DEF l
<1>5. ASSUME NEW i \in 1 .. Len(b) PROVE (a \o x)[i] = b[i]
  <2>1. i \in 1 .. l + Len(x)
      BY <1>1, <1>3
  <2>2. CASE i <= l
    <3>1. i \in 1 .. l
        BY <1>1, <2>2
    <3> QED BY <1>2, <1>4, <2>1, <2>2, <3>1
  <2>3. CASE ~(i <= l)
    <3>1. i - l \in 1 .. Len(b) - l /\ l + (i - l) = i
        BY <1>1, <2>3
    <3> QED BY <1>3, <1>4, <2>1, <2>3, <3>1
  <2> QED BY <2>2, <2>3
<1>6. Len(a \o x) = Len(b)
    BY <1>1, <1>3, <1>4
<1>7. a \o x = b
    BY <1>4, <1>5, <1>6, SameText
<1> QED BY <1>3, <1>7

LEMMA PrefixThrough ==
    ASSUME NEW a \in Text, NEW b \in Text, NEW c \in Text, IsPrefix(a, b), IsPrefix(b, c)
    PROVE  IsPrefix(a, c)
<1>1. PICK x \in Text : b = a \o x
    BY PrefixIsConcat
<1>2. PICK y \in Text : c = b \o y
    BY PrefixIsConcat
<1>3. c = a \o (x \o y) /\ x \o y \in Text
    BY <1>1, <1>2, ConcatAssociative, TwoTexts DEF Text
<1> QED BY <1>3, PrefixOfConcat

\* What has been decoded stays the beginning, whatever is written behind it.
LEMMA DecodedGrows ==
    ASSUME NEW c \in Text, NEW x \in Text
    PROVE  IsPrefix(Utf8Prefix(c), Utf8Prefix(c \o x))
<1> DEFINE rest == SubSeq(c, ValidUpTo(c) + 1, Len(c))
<1>1. rest \in Text /\ Utf8Prefix(c) \in Text
    BY Utf8Facts
<1> HIDE DEF rest
<1>2. rest \o x \in Text
    BY <1>1, TwoTexts
<1>3. Utf8Prefix(rest \o x) \in Text
    BY <1>2, Utf8Facts
<1>4. Utf8Prefix(c \o x) = Utf8Prefix(c) \o Utf8Prefix(rest \o x)
    BY DecodedOn DEF rest
<1> QED BY <1>1, <1>3, <1>4, PrefixOfConcat

\* No second byte of a wide character without its first.
Whole(t) == \A i \in 1 .. Len(t) : t[i] = "w2" => i > 1 /\ t[i - 1] = "w1"

\* A valid text has no second half of a character without its first.
LEMMA Utf8IsWhole == ASSUME NEW t, IsUtf8(t) PROVE Whole(t)
BY DEF IsUtf8, Whole

\* Sanitising drops no half of a character.
LEMMA SanitizedWhole ==
    ASSUME NEW t \in Text, Whole(t)
    PROVE  Whole(Sanitized(t))
<1> DEFINE Good(u) == /\ Whole(Sanitized(u))
                      /\ u # <<>> /\ u[Len(u)] = "w1" =>
                            Sanitized(u) # <<>> /\ Sanitized(u)[Len(Sanitized(u))] = "w1"
           N == {n \in Nat : \A u \in Text : Len(u) = n /\ Whole(u) => Good(u)}
<1>1. 0 \in N
  <2> SUFFICES ASSUME NEW u \in Text, Len(u) = 0 PROVE Good(u)
      OBVIOUS
  <2>1. u = <<>>
      BY DEF Text
  <2> QED BY <2>1, SanitizedEmpty DEF Whole
<1>2. ASSUME NEW n \in Nat, n \in N PROVE n + 1 \in N
  <2> SUFFICES ASSUME NEW u \in Text, Len(u) = n + 1, Whole(u) PROVE Good(u)
      OBVIOUS
  <2>1. u # <<>>
      BY DEF Text
  <2>2. PICK w \in Text, x \in Byte : u = Append(w, x)
      BY <2>1, SequenceEmptyOrAppend DEF Text
  <2>3. /\ Len(w) = n /\ \A i \in 1 .. n : u[i] = w[i]
        /\ u[n + 1] = x /\ u = w \o <<x>> /\ <<x>> \in Text
      BY <2>2 DEF Text
  <2>4. Whole(w)
    <3>1. \A i \in 1 .. n + 1 : u[i] = "w2" => i > 1 /\ u[i - 1] = "w1"
        BY DEF Whole
    <3> SUFFICES ASSUME NEW i \in 1 .. n, w[i] = "w2" PROVE i > 1 /\ w[i - 1] = "w1"
        BY <2>3 DEF Whole
    <3>2. i \in 1 .. n + 1 /\ u[i] = "w2"
        BY <2>3
    <3>3. i > 1 /\ u[i - 1] = "w1"
        BY <3>1, <3>2
    <3>4. i - 1 \in 1 .. n
        BY <3>3
    <3> QED BY <2>3, <3>3, <3>4
  <2>5. Good(w)
      BY <1>2, <2>3, <2>4
  <2> HIDE DEF N
  <2> DEFINE s == Sanitized(w)
  <2>6. s \in Text /\ Sanitized(u) = s \o Sanitized(<<x>>)
      BY <2>3, SanitizedConcat
  <2>7. Sanitized(<<x>>) = IF x = "control" THEN <<>> ELSE <<x>>
      BY SanitizedOne
  <2>8. Whole(s) /\ (w # <<>> /\ w[Len(w)] = "w1" => s # <<>> /\ s[Len(s)] = "w1")
      BY <2>5
  <2> HIDE DEF s
  <2>9. CASE x = "control"
    <3>1. Sanitized(u) = s
        BY <2>6, <2>7, <2>9, ConcatEmptySeq DEF Text
    <3>2. u[Len(u)] # "w1"
        BY <2>3, <2>9
    <3> QED BY <2>8, <3>1, <3>2
  <2>10. CASE x # "control"
    <3> DEFINE r == Sanitized(u)
    <3>1. r = s \o <<x>>
        BY <2>6, <2>7, <2>10
    <3>2. Len(r) = Len(s) + 1 /\ r # <<>> /\ r[Len(s) + 1] = x /\ Len(s) \in Nat
          /\ \A i \in 1 .. Len(s) : r[i] = s[i]
      <4>1. r = Append(s, x)
          BY <2>6, <3>1, AppendIsConcat DEF Text
      <4>2. s \in Seq(Byte) /\ x \in Byte
          BY <2>2, <2>6 DEF Text
      <4> HIDE DEF r
      <4>3. /\ Len(Append(s, x)) = Len(s) + 1 /\ Append(s, x) # <<>> /\ Append(s, x)[Len(s) + 1] = x
            /\ Len(s) \in Nat /\ \A i \in 1 .. Len(s) : Append(s, x)[i] = s[i]
          BY <4>2
      <4> QED BY <4>1, <4>3
    <3> HIDE DEF r
    <3>3. \A i \in 1 .. Len(s) : s[i] = "w2" => i > 1 /\ s[i - 1] = "w1"
        BY <2>8 DEF Whole
    <3>4. ASSUME x = "w2" PROVE Len(s) \in 1 .. Len(s) /\ s[Len(s)] = "w1"
      <4>1. n + 1 > 1 /\ u[(n + 1) - 1] = "w1"
          BY <2>3, <3>4 DEF Whole
      <4>2. n \in 1 .. n /\ (n + 1) - 1 = n
          BY <4>1
      <4>3. w # <<>> /\ w[Len(w)] = "w1"
          BY <2>3, <4>1, <4>2
      <4>4. s # <<>> /\ s[Len(s)] = "w1"
          BY <2>8, <4>3
      <4> QED BY <2>6, <3>2, <4>4 DEF Text
    <3>5. Whole(r)
      <4> SUFFICES ASSUME NEW i \in 1 .. Len(s) + 1, r[i] = "w2" PROVE i > 1 /\ r[i - 1] = "w1"
          BY <3>2 DEF Whole
      <4>1. CASE i \in 1 .. Len(s)
        <5>1. i > 1 /\ s[i - 1] = "w1"
            BY <3>2, <3>3, <4>1
        <5>2. i - 1 \in 1 .. Len(s)
            BY <3>2, <4>1, <5>1
        <5> QED BY <3>2, <5>1, <5>2
      <4>2. CASE i = Len(s) + 1
        <5>1. x = "w2"
            BY <3>2, <4>2
        <5>2. Len(s) \in 1 .. Len(s) /\ s[Len(s)] = "w1" /\ i - 1 = Len(s) /\ i > 1
            BY <3>2, <3>4, <4>2, <5>1
        <5> QED BY <3>2, <5>2
      <4> QED BY <3>2, <4>1, <4>2
    <3>6. u[Len(u)] = "w1" => r[Len(r)] = "w1"
        BY <2>3, <3>2
    <3> QED BY <3>2, <3>5, <3>6 DEF r
  <2> QED BY <2>9, <2>10
<1>3. Nat \subseteq N
  <2> HIDE DEF N
  <2> QED BY <1>1, <1>2, EveryNumber
<1>4. Len(t) \in Nat
    BY DEF Text
<1>5. Len(t) \in N
    BY <1>3, <1>4
<1> QED BY <1>5

(*********************** The last bytes of a text ************************)

\* Where the end of a text may begin.
Starts(t, n) == {s \in 1..(Len(t) + 1) : Len(t) - s + 1 <= n /\ (s <= Len(t) => t[s] # "w2")}

\* Where the last bytes begin.
LEMMA LastBytesCut ==
    ASSUME NEW t \in Text, NEW n \in Nat
    PROVE  \E k \in 0 .. Len(t) : /\ k + 1 \in Starts(t, n) /\ \A s \in Starts(t, n) : k + 1 <= s
                                  /\ LastBytes(t, n) = SubSeq(t, k + 1, Len(t))
<1> DEFINE S == Starts(t, n)  l == Len(t)
<1>1. l \in Nat
    BY DEF Text
<1>2. l + 1 \in S
    BY <1>1 DEF Starts
<1>3. S \in SUBSET (0 .. l + 1) /\ S # {} /\ S \in SUBSET (1 .. l + 1)
    BY <1>1, <1>2 DEF Starts
<1>4. LastBytes(t, n) = SubSeq(t, Min(S), l)
    BY DEF LastBytes, Starts
<1> HIDE DEF S
<1>5. Min(S) \in S /\ \A s \in S : Min(S) <= s
  <2>1. l + 1 \in Nat
      BY <1>1
  <2> HIDE DEF l
  <2> QED BY <1>3, <2>1, LeastOf
<1> DEFINE k == Min(S) - 1
<1>6. k \in 0 .. l /\ k + 1 = Min(S)
  <2>1. Min(S) \in 1 .. l + 1
      BY <1>3, <1>5
  <2>2. \A z \in 1 .. l + 1 : z - 1 \in 0 .. l /\ (z - 1) + 1 = z
      BY <1>1
  <2> QED BY <2>1, <2>2
<1> HIDE DEF k, l
<1>7. k + 1 \in S /\ (\A s \in S : k + 1 <= s) /\ LastBytes(t, n) = SubSeq(t, k + 1, l)
    BY <1>4, <1>5, <1>6
<1> QED BY <1>6, <1>7 DEF S, l

LEMMA LastBytesIs ==
    ASSUME NEW t \in Text, NEW n \in Nat, NEW k \in 0 .. Len(t),
           k + 1 \in Starts(t, n), \A s \in Starts(t, n) : k + 1 <= s
    PROVE  LastBytes(t, n) = SubSeq(t, k + 1, Len(t))
<1>1. Starts(t, n) \in SUBSET Nat
    BY DEF Starts
<1>2. Min(Starts(t, n)) = k + 1
    BY <1>1, LeastIs
<1> QED BY <1>2 DEF LastBytes, Starts

\* Of an end of a text the same places are starts.
LEMMA StartsBehind ==
    ASSUME NEW t \in Text, NEW n \in Nat, NEW k \in 0 .. Len(t), NEW j \in 0 .. Len(t) - k
    PROVE  j + 1 \in Starts(SubSeq(t, k + 1, Len(t)), n) <=> (k + j) + 1 \in Starts(t, n)
<1> DEFINE u == SubSeq(t, k + 1, Len(t))  l == Len(t)
<1>1. l \in Nat /\ k \in Nat /\ k <= l /\ j \in Nat /\ j <= l - k
    BY DEF Text
<1>2. Len(u) = l - k /\ \A i \in 1 .. l - k : u[i] = t[k + i]
    BY Ending
<1> HIDE DEF u
<1>3. j + 1 \in 1 .. (l - k) + 1 /\ (k + j) + 1 \in 1 .. l + 1
    BY <1>1
<1>4. (l - k) - (j + 1) + 1 = l - ((k + j) + 1) + 1
    BY <1>1
<1>5. (j + 1 <= l - k <=> (k + j) + 1 <= l) /\ k + (j + 1) = (k + j) + 1
    BY <1>1
<1>6. j + 1 <= l - k => u[j + 1] = t[(k + j) + 1]
    BY <1>1, <1>2, <1>5
<1> QED BY <1>2, <1>3, <1>4, <1>5, <1>6 DEF Starts, u

\* The end of an end, and an end with more behind it.
LEMMA EndOfEnd ==
    ASSUME NEW t \in Text, NEW k \in 0 .. Len(t), NEW j \in 0 .. Len(t) - k
    PROVE  LET u == SubSeq(t, k + 1, Len(t)) IN
           SubSeq(u, j + 1, Len(u)) = SubSeq(t, (k + j) + 1, Len(t))
<1> DEFINE u == SubSeq(t, k + 1, Len(t))  l == Len(t)
           a == SubSeq(u, j + 1, Len(u))  b == SubSeq(t, (k + j) + 1, l)
<1>1. l \in Nat /\ k \in Nat /\ k <= l /\ j \in Nat /\ j <= l - k
    BY DEF Text
<1>2. u \in Text /\ Len(u) = l - k /\ \A i \in 1 .. l - k : u[i] = t[k + i]
    BY Ending
<1> HIDE DEF u
<1>3. /\ a \in Text /\ Len(a) = (l - k) - j /\ \A i \in 1 .. (l - k) - j : a[i] = u[j + i]
  <2>1. j \in 0 .. Len(u)
      BY <1>1, <1>2
  <2> QED BY <1>2, <2>1, Ending
<1>4. /\ b \in Text /\ Len(b) = l - (k + j) /\ \A i \in 1 .. l - (k + j) : b[i] = t[(k + j) + i]
  <2>1. k + j \in 0 .. Len(t)
      BY <1>1
  <2> QED BY <2>1, Ending
<1> HIDE DEF a, b
<1>5. ASSUME NEW i \in 1 .. l - (k + j) PROVE a[i] = b[i]
  <2>1. i \in 1 .. (l - k) - j /\ j + i \in 1 .. l - k /\ k + (j + i) = (k + j) + i
      BY <1>1
  <2> QED BY <1>2, <1>3, <1>4, <2>1
<1>6. Len(a) = Len(b) /\ Len(a) = l - (k + j)
    BY <1>1, <1>3, <1>4
<1>7. a = b
    BY <1>3, <1>4, <1>5, <1>6, SameText
<1> QED BY <1>7 DEF a, b, u

\* The last bytes of an end that has all the places where they may begin.
LEMMA LastBytesBehind ==
    ASSUME NEW t \in Text, NEW n \in Nat, NEW k \in 0 .. Len(t), \A s \in Starts(t, n) : k + 1 <= s
    PROVE  LastBytes(SubSeq(t, k + 1, Len(t)), n) = LastBytes(t, n)
<1> DEFINE u == SubSeq(t, k + 1, Len(t))  l == Len(t)
<1>1. l \in Nat /\ k \in Nat /\ k <= l
    BY DEF Text
<1>2. u \in Text /\ Len(u) = l - k
    BY Ending
<1>3. PICK m \in 0 .. l : /\ m + 1 \in Starts(t, n) /\ \A s \in Starts(t, n) : m + 1 <= s
                          /\ LastBytes(t, n) = SubSeq(t, m + 1, l)
    BY LastBytesCut
<1> DEFINE j == m - k
<1>4. j \in 0 .. l - k /\ k + j = m
    BY <1>1, <1>3
<1> HIDE DEF j
<1>5. j + 1 \in Starts(u, n)
    BY <1>3, <1>4, StartsBehind
<1>6. ASSUME NEW s \in Starts(u, n) PROVE j + 1 <= s
  <2>1. s \in 1 .. (l - k) + 1
      BY <1>2 DEF Starts
  <2>2. s - 1 \in 0 .. l - k /\ (s - 1) + 1 = s
      BY <1>1, <2>1
  <2>3. (k + (s - 1)) + 1 \in Starts(t, n)
      BY <2>2, StartsBehind
  <2>4. m + 1 <= (k + (s - 1)) + 1
      BY <1>3, <2>3
  <2> QED BY <1>1, <1>4, <2>1, <2>4
<1>7. LastBytes(u, n) = SubSeq(u, j + 1, Len(u))
  <2>1. j \in 0 .. Len(u)
      BY <1>2, <1>4
  <2> HIDE DEF u
  <2> QED BY <1>2, <1>5, <1>6, <2>1, LastBytesIs
<1>8. SubSeq(u, j + 1, Len(u)) = SubSeq(t, (k + j) + 1, l)
    BY <1>4, EndOfEnd
<1> QED BY <1>3, <1>4, <1>7, <1>8

LEMMA EndAndMore ==
    ASSUME NEW a \in Text, NEW x \in Text, NEW k \in 0 .. Len(a)
    PROVE  SubSeq(a, k + 1, Len(a)) \o x = SubSeq(a \o x, k + 1, Len(a \o x))
<1> DEFINE u == SubSeq(a, k + 1, Len(a))  t == a \o x  p == u \o x  q == SubSeq(t, k + 1, Len(t))
           l == Len(a)
<1>1. /\ l \in Nat /\ Len(x) \in Nat /\ k \in Nat /\ k <= l
      /\ t \in Text /\ Len(t) = l + Len(x)
      /\ \A i \in 1 .. l + Len(x) : t[i] = IF i <= l THEN a[i] ELSE x[i - l]
    BY TwoTexts
<1>2. u \in Text /\ Len(u) = l - k /\ \A i \in 1 .. l - k : u[i] = a[k + i]
    BY Ending
<1> HIDE DEF u, t
<1>3. /\ p \in Text /\ Len(p) = (l - k) + Len(x)
      /\ \A i \in 1 .. (l - k) + Len(x) : p[i] = IF i <= l - k THEN u[i] ELSE x[i - (l - k)]
  <2>1. /\ p \in Text /\ Len(p) = Len(u) + Len(x)
        /\ \A i \in 1 .. Len(u) + Len(x) : p[i] = IF i <= Len(u) THEN u[i] ELSE x[i - Len(u)]
      BY <1>2, TwoTexts
  <2> QED BY <1>2, <2>1
<1>4. /\ q \in Text /\ Len(q) = (l + Len(x)) - k
      /\ \A i \in 1 .. (l + Len(x)) - k : q[i] = t[k + i]
  <2>1. k \in 0 .. Len(t)
      BY <1>1
  <2> QED BY <1>1, <2>1, Ending
<1> HIDE DEF p, q, l
<1>5. ASSUME NEW i \in 1 .. (l - k) + Len(x) PROVE p[i] = q[i]
  <2>1. i \in 1 .. (l + Len(x)) - k /\ k + i \in 1 .. l + Len(x)
      BY <1>1
  <2>2. CASE i <= l - k
    <3>1. i \in 1 .. l - k /\ k + i <= l
        BY <1>1, <2>2
    <3> QED BY <1>1, <1>2, <1>3, <1>4, <2>1, <2>2, <3>1
  <2>3. CASE ~(i <= l - k)
    <3>1. ~(k + i <= l) /\ (k + i) - l = i - (l - k)
        BY <1>1, <2>3
    <3> QED BY <1>1, <1>3, <1>4, <2>1, <2>3, <3>1
  <2> QED BY <2>2, <2>3
<1>6. Len(p) = Len(q)
    BY <1>1, <1>3, <1>4
<1>7. p = q
    BY <1>3, <1>4, <1>5, <1>6, SameText
<1> QED BY <1>7 DEF p, q, t, u

\* The last bytes can be kept as the text comes.
LEMMA LastBytesOn ==
    ASSUME NEW a \in Text, NEW x \in Text, NEW n \in Nat
    PROVE  LastBytes(LastBytes(a, n) \o x, n) = LastBytes(a \o x, n)
<1> DEFINE t == a \o x  l == Len(a)
<1>1. /\ l \in Nat /\ Len(x) \in Nat /\ t \in Text /\ Len(t) = l + Len(x)
      /\ \A i \in 1 .. l + Len(x) : t[i] = IF i <= l THEN a[i] ELSE x[i - l]
    BY TwoTexts
<1>2. PICK k \in 0 .. l : /\ k + 1 \in Starts(a, n) /\ \A s \in Starts(a, n) : k + 1 <= s
                          /\ LastBytes(a, n) = SubSeq(a, k + 1, l)
    BY LastBytesCut
<1>3. LastBytes(a, n) \o x = SubSeq(t, k + 1, Len(t))
    BY <1>2, EndAndMore
<1> HIDE DEF t
<1>4. k \in 0 .. Len(t)
    BY <1>1, <1>2
<1>5. ASSUME NEW s \in Starts(t, n) PROVE k + 1 <= s
  <2>1. s \in 1 .. (l + Len(x)) + 1 /\ (l + Len(x)) - s + 1 <= n /\ (s <= l + Len(x) => t[s] # "w2")
      BY <1>1 DEF Starts
  <2>2. CASE s <= l
    <3>1. s \in 1 .. l + 1 /\ l - s + 1 <= n /\ s \in 1 .. l + Len(x)
        BY <1>1, <2>1, <2>2
    <3>2. a[s] # "w2"
        BY <1>1, <2>1, <2>2, <3>1
    <3>3. s \in Starts(a, n)
        BY <3>1, <3>2 DEF Starts
    <3> QED BY <1>2, <3>3
  <2>3. CASE ~(s <= l)
      BY <1>1, <1>2, <2>1, <2>3
  <2> QED BY <2>2, <2>3
<1>6. LastBytes(SubSeq(t, k + 1, Len(t)), n) = LastBytes(t, n)
    BY <1>1, <1>4, <1>5, LastBytesBehind
<1> QED BY <1>3, <1>6 DEF t

\* A text that is short enough is its own end; of a longer one one byte less may be kept.
LEMMA LastBytesAll ==
    ASSUME NEW t \in Text, Whole(t), NEW n \in Nat, Len(t) <= n
    PROVE  LastBytes(t, n) = t
<1>1. Len(t) \in Nat
    BY DEF Text
<1>2. 0 \in 0 .. Len(t) /\ 0 + 1 = 1
    BY <1>1
<1>3. 1 <= Len(t) => t[1] # "w2"
    BY <1>1 DEF Whole
<1>4. 0 + 1 \in Starts(t, n)
    BY <1>1, <1>3 DEF Starts
<1>5. \A s \in Starts(t, n) : 0 + 1 <= s
    BY <1>1 DEF Starts
<1>6. LastBytes(t, n) = SubSeq(t, 0 + 1, Len(t))
    BY <1>2, <1>4, <1>5, LastBytesIs
<1> QED BY <1>2, <1>6, SubSeqFull DEF Text

\* Of a longer text as many bytes are kept, or one less.
LEMMA LastBytesLong ==
    ASSUME NEW t \in Text, Whole(t), NEW n \in Nat, n > 1, Len(t) > n
    PROVE  \E k \in 0 .. Len(t) : /\ LastBytes(t, n) = SubSeq(t, k + 1, Len(t))
                                  /\ Len(t) - k >= n - 1 /\ Len(t) - k <= n
<1> DEFINE l == Len(t)
<1>1. l \in Nat
    BY DEF Text
<1>2. PICK k \in 0 .. l : /\ k + 1 \in Starts(t, n) /\ \A s \in Starts(t, n) : k + 1 <= s
                          /\ LastBytes(t, n) = SubSeq(t, k + 1, l)
    BY LastBytesCut
<1>3. l - (k + 1) + 1 <= n
    BY <1>2 DEF Starts
<1> DEFINE m == l - n
<1>4. m \in Nat /\ m + 1 \in 1 .. l /\ m + 2 \in 1 .. l
    BY <1>1
<1>5. k <= m + 1
  <2>1. CASE t[m + 1] # "w2"
    <3>1. m + 1 \in Starts(t, n)
        BY <1>1, <1>4, <2>1 DEF Starts
    <3>2. k + 1 <= m + 1
        BY <1>2, <3>1
    <3> QED BY <1>1, <1>2, <1>4, <3>2
  <2>2. CASE t[m + 1] = "w2"
    <3>1. t[m + 2] # "w2"
      <4>1. (m + 2) - 1 = m + 1
          BY <1>4
      <4> QED BY <1>4, <2>2, <4>1 DEF Whole
    <3>2. m + 2 \in Starts(t, n)
        BY <1>1, <1>4, <3>1 DEF Starts
    <3>3. k + 1 <= m + 2
        BY <1>2, <3>2
    <3> QED BY <1>1, <1>2, <1>4, <3>3
  <2> QED BY <2>1, <2>2
<1>6. l - k >= n - 1 /\ l - k <= n
    BY <1>1, <1>2, <1>3, <1>5
<1> QED BY <1>2, <1>6

(************************** The lines of a text **************************)

Newlines(t) == {i \in DOMAIN t : t[i] = "newline"}
ShiftedBy(X, k) == {x + k : x \in X}
Ended(t) == t # <<>> /\ t[Len(t)] = "newline"

\* Newlines, counted.
LEMMA ShiftedCount ==
    ASSUME NEW X \in SUBSET Nat, IsFiniteSet(X), NEW k \in Nat
    PROVE  IsFiniteSet(ShiftedBy(X, k)) /\ Cardinality(ShiftedBy(X, k)) = Cardinality(X)
<1> DEFINE f == [x \in X |-> x + k]
<1>1. f \in [X -> ShiftedBy(X, k)]
    BY DEF ShiftedBy
<1>2. \A x, y \in X : x + k = y + k => x = y
    OBVIOUS
<1>3. \A x, y \in X : f[x] = f[y] => x = y
    BY <1>2
<1>4. \A y \in ShiftedBy(X, k) : \E x \in X : f[x] = y
    BY DEF ShiftedBy
<1> HIDE DEF f
<1>5. f \in Bijection(X, ShiftedBy(X, k))
    BY <1>1, <1>3, <1>4 DEF Bijection, Injection, Surjection, IsInjective
<1>6. ExistsBijection(X, ShiftedBy(X, k))
    BY <1>5 DEF ExistsBijection
<1> QED BY <1>6, FS_Bijection

LEMMA NewlinesFinite ==
    ASSUME NEW t \in Text
    PROVE  Newlines(t) \in SUBSET (1 .. Len(t)) /\ IsFiniteSet(Newlines(t)) /\ Cardinality(Newlines(t)) \in Nat
<1>1. Len(t) \in Nat /\ DOMAIN t = 1 .. Len(t)
    BY DEF Text
<1>2. Newlines(t) \in SUBSET (1 .. Len(t))
    BY <1>1 DEF Newlines
<1>3. IsFiniteSet(1 .. Len(t))
    BY <1>1, FS_Interval
<1> QED BY <1>2, <1>3, FS_Subset, FS_CardinalityType

LEMMA NewlinesConcat ==
    ASSUME NEW a \in Text, NEW b \in Text
    PROVE  Cardinality(Newlines(a \o b)) = Cardinality(Newlines(a)) + Cardinality(Newlines(b))
<1> DEFINE l == Len(a)  t == a \o b  X == Newlines(a)  Y == Newlines(b)  Z == ShiftedBy(Y, l)
<1>1. /\ l \in Nat /\ Len(b) \in Nat /\ t \in Text /\ Len(t) = l + Len(b)
      /\ \A i \in 1 .. l + Len(b) : t[i] = IF i <= l THEN a[i] ELSE b[i - l]
    BY TwoTexts
<1>2. /\ X \in SUBSET (1 .. l) /\ IsFiniteSet(X) /\ Cardinality(X) \in Nat
      /\ Y \in SUBSET (1 .. Len(b)) /\ IsFiniteSet(Y) /\ Cardinality(Y) \in Nat
    BY NewlinesFinite
<1>3. IsFiniteSet(Z) /\ Cardinality(Z) = Cardinality(Y)
  <2>1. Y \in SUBSET Nat
      BY <1>1, <1>2
  <2> HIDE DEF Y, l
  <2> QED BY <1>1, <1>2, <2>1, ShiftedCount
<1>4. X \cap Z = {}
  <2> SUFFICES ASSUME NEW y \in Y, y + l \in X PROVE FALSE
      BY DEF ShiftedBy
  <2>1. y \in Nat /\ y >= 1 /\ y + l <= l
      BY <1>1, <1>2
  <2> QED BY <1>1, <2>1
<1>5. Newlines(t) = X \cup Z
  <2>1. DOMAIN t = 1 .. l + Len(b) /\ DOMAIN a = 1 .. l /\ DOMAIN b = 1 .. Len(b)
      BY <1>1, LenProperties DEF Text
  <2>2. ASSUME NEW i \in Newlines(t) PROVE i \in X \cup Z
    <3>1. i \in 1 .. l + Len(b) /\ t[i] = "newline"
        BY <2>1, <2>2 DEF Newlines
    <3>2. CASE i <= l
      <4>1. i \in 1 .. l /\ a[i] = "newline"
          BY <1>1, <3>1, <3>2
      <4> QED BY <2>1, <4>1 DEF Newlines
    <3>3. CASE ~(i <= l)
      <4>1. i - l \in 1 .. Len(b) /\ b[i - l] = "newline" /\ i = (i - l) + l
          BY <1>1, <3>1, <3>3
      <4>2. i - l \in Y
          BY <2>1, <4>1 DEF Newlines
      <4> QED BY <4>1, <4>2 DEF ShiftedBy
    <3> QED BY <3>2, <3>3
  <2>3. ASSUME NEW i \in X PROVE i \in Newlines(t)
    <3>1. i \in 1 .. l /\ a[i] = "newline"
        BY <2>1, <2>3 DEF Newlines
    <3>2. i \in 1 .. l + Len(b) /\ i <= l
        BY <1>1, <3>1
    <3> QED BY <1>1, <2>1, <3>1, <3>2 DEF Newlines
  <2>4. ASSUME NEW i \in Z PROVE i \in Newlines(t)
    <3>1. PICK y \in Y : i = y + l
        BY <2>4 DEF ShiftedBy
    <3>2. y \in 1 .. Len(b) /\ b[y] = "newline"
        BY <2>1 DEF Newlines
    <3>3. i \in 1 .. l + Len(b) /\ ~(i <= l) /\ i - l = y
        BY <1>1, <3>1, <3>2
    <3> QED BY <1>1, <2>1, <3>2, <3>3 DEF Newlines
  <2> QED BY <2>2, <2>3, <2>4
<1> HIDE DEF X, Y, Z, t
<1>6. /\ Cardinality(X \cup Z) = Cardinality(X) + Cardinality(Z) - Cardinality(X \cap Z)
      /\ Cardinality({}) = 0
    BY <1>2, <1>3, FS_Union, FS_EmptySet
<1>7. Cardinality(X \cup Z) = Cardinality(X) + Cardinality(Y)
  <2>1. Cardinality(X \cap Z) = 0
      BY <1>4, <1>6
  <2>2. \A x, y, z, u : (x \in Nat /\ y \in Nat /\ z = y /\ u = 0) => x + z - u = x + y
      OBVIOUS
  <2>3. Cardinality(X) + Cardinality(Z) - Cardinality(X \cap Z) = Cardinality(X) + Cardinality(Y)
      BY <1>2, <1>3, <2>1, <2>2
  <2> QED BY <1>6, <2>3
<1> QED BY <1>5, <1>7 DEF X, Y, t

\* A text without the newline at its end, and how many lines it has.
LEMMA UnendedIs ==
    ASSUME NEW t \in Text
    PROVE  /\ Unended(t) \in Text
           /\ Len(Unended(t)) = IF Ended(t) THEN Len(t) - 1 ELSE Len(t)
           /\ \A i \in 1 .. Len(Unended(t)) : Unended(t)[i] = t[i]
           /\ Len(t) \in Nat /\ Len(Unended(t)) \in Nat /\ DOMAIN Unended(t) = 1 .. Len(Unended(t))
           /\ Ended(t) => Len(t) # 0
<1>1. Len(t) \in Nat /\ (Ended(t) => Len(t) # 0)
    BY DEF Text, Ended
<1>2. CASE Ended(t)
  <2>1. Unended(t) = SubSeq(t, 1, Len(t) - 1)
      BY <1>2 DEF Ended, Unended, Last, Front
  <2>2. Len(t) - 1 \in 0 .. Len(t)
      BY <1>1, <1>2
  <2>3. /\ SubSeq(t, 1, Len(t) - 1) \in Text /\ Len(SubSeq(t, 1, Len(t) - 1)) = Len(t) - 1
        /\ \A i \in 1 .. Len(t) - 1 : SubSeq(t, 1, Len(t) - 1)[i] = t[i]
      BY <2>2, Beginning
  <2>4. /\ Unended(t) \in Text /\ Len(Unended(t)) = Len(t) - 1
        /\ \A i \in 1 .. Len(Unended(t)) : Unended(t)[i] = t[i]
      BY <2>1, <2>3
  <2>5. DOMAIN Unended(t) = 1 .. Len(Unended(t)) /\ Len(Unended(t)) \in Nat
      BY <2>4, LenProperties DEF Text
  <2> QED BY <1>1, <1>2, <2>4, <2>5
<1>3. CASE ~Ended(t)
  <2>1. Unended(t) = t
      BY <1>3 DEF Ended, Unended, Last
  <2>2. DOMAIN t = 1 .. Len(t)
      BY DEF Text
  <2> QED BY <1>1, <1>3, <2>1, <2>2
<1> QED BY <1>2, <1>3

\* A line begins at the beginning and behind every newline but one at the very end.
LEMMA LineStartsAre ==
    ASSUME NEW t \in Text
    PROVE  LineStarts(t) = IF t = <<>> THEN {}
                           ELSE {1} \cup {s \in 2 .. Len(Unended(t)) + 1 : t[s - 1] = "newline"}
<1> DEFINE l == Len(Unended(t))
           A == {i + 1 : i \in {j \in DOMAIN Unended(t) : t[j] = "newline"}}
           B == {s \in 2 .. l + 1 : t[s - 1] = "newline"}
<1>1. l \in Nat /\ DOMAIN Unended(t) = 1 .. l
    BY UnendedIs
<1> HIDE DEF l
<1>2. ASSUME NEW s \in A PROVE s \in B
  <2>1. PICK i \in 1 .. l : s = i + 1 /\ t[i] = "newline"
      BY <1>1, <1>2
  <2>2. s \in 2 .. l + 1 /\ s - 1 = i
      BY <1>1, <2>1
  <2> QED BY <2>1, <2>2
<1>3. ASSUME NEW s \in B PROVE s \in A
  <2>1. s \in 2 .. l + 1 /\ t[s - 1] = "newline"
      BY <1>3
  <2>2. s - 1 \in 1 .. l /\ s = (s - 1) + 1
      BY <1>1, <2>1
  <2> QED BY <1>1, <2>1, <2>2
<1>4. A = B
  <2> HIDE DEF A, B
  <2> QED BY <1>2, <1>3
<1>5. LineStarts(t) = IF t = <<>> THEN {} ELSE {1} \cup A
    BY DEF LineStarts
<1> QED BY <1>4, <1>5 DEF l

LEMMA LineCount ==
    ASSUME NEW t \in Text
    PROVE  /\ IsFiniteSet(LineStarts(t)) /\ LineStarts(t) \in SUBSET Nat
           /\ Cardinality(LineStarts(t))
                = Cardinality(Newlines(t)) + (IF t = <<>> \/ Ended(t) THEN 0 ELSE 1)
<1> DEFINE l == Len(Unended(t))  M == {j \in DOMAIN Unended(t) : t[j] = "newline"}  A == ShiftedBy(M, 1)
<1>1. /\ l \in Nat /\ DOMAIN Unended(t) = 1 .. l /\ l = IF Ended(t) THEN Len(t) - 1 ELSE Len(t)
      /\ Len(t) \in Nat /\ (Ended(t) => Len(t) # 0) /\ DOMAIN t = 1 .. Len(t)
    BY UnendedIs, LenProperties DEF Text
<1>2. /\ Newlines(t) \in SUBSET (1 .. Len(t)) /\ IsFiniteSet(Newlines(t))
      /\ Cardinality(Newlines(t)) \in Nat
    BY NewlinesFinite
<1>3. CASE t = <<>>
  <2>1. LineStarts(t) = {}
      BY <1>3 DEF LineStarts
  <2>2. Newlines(t) = {}
    <3>1. Len(t) = 0
        BY <1>3
    <3>2. Newlines(t) \in SUBSET (1 .. 0)
        BY <1>2, <3>1
    <3> QED BY <3>2
  <2>3. IsFiniteSet({}) /\ Cardinality({}) = 0
      BY FS_EmptySet
  <2>4. (IF t = <<>> \/ Ended(t) THEN 0 ELSE 1) = 0
      BY <1>3
  <2>5. Cardinality(LineStarts(t)) = 0 /\ Cardinality(Newlines(t)) = 0
      BY <2>1, <2>2, <2>3
  <2>6. {} \in SUBSET Nat /\ 0 + 0 = 0
      OBVIOUS
  <2> QED BY <2>1, <2>3, <2>4, <2>5, <2>6
<1>4. CASE t # <<>>
  <2>1. LineStarts(t) = A \cup {1}
      BY <1>4 DEF LineStarts, ShiftedBy
  <2>2. M \in SUBSET Newlines(t) /\ M \in SUBSET Nat
    <3>0. l <= Len(t)
      <4> HIDE DEF l
      <4>1. CASE Ended(t)
          BY <1>1, <4>1
      <4>2. CASE ~Ended(t)
          BY <1>1, <4>2
      <4> QED BY <4>1, <4>2
    <3>1. \A i \in 1 .. l : i \in 1 .. Len(t)
      <4>1. \A a, b \in Nat : a <= b => \A i \in 1 .. a : i \in 1 .. b
          OBVIOUS
      <4> HIDE DEF l
      <4> QED BY <1>1, <3>0, <4>1
    <3>2. M \in SUBSET (1 .. l)
        BY <1>1
    <3>3. \A i \in M : i \in DOMAIN t /\ t[i] = "newline"
        BY <1>1, <3>1
    <3> HIDE DEF M
    <3> QED BY <3>2, <3>3 DEF Newlines
  <2> HIDE DEF M
  <2>3. IsFiniteSet(M) /\ Cardinality(M) \in Nat
      BY <1>2, <2>2, FS_Subset, FS_CardinalityType
  <2>4. IsFiniteSet(A) /\ Cardinality(A) = Cardinality(M)
      BY <2>2, <2>3, ShiftedCount
  <2>5. 1 \notin A /\ A \in SUBSET Nat
    <3>1. \A x \in M : x \in 1 .. l
        BY <1>1 DEF M
    <3>2. \A x \in 1 .. l : x + 1 # 1 /\ x + 1 \in Nat
        OBVIOUS
    <3> QED BY <3>1, <3>2 DEF ShiftedBy
  <2>6. IsFiniteSet(LineStarts(t)) /\ Cardinality(LineStarts(t)) = Cardinality(M) + 1
        /\ LineStarts(t) \in SUBSET Nat
    <3> HIDE DEF A
    <3>1. IsFiniteSet(A \cup {1})
          /\ Cardinality(A \cup {1}) = IF 1 \in A THEN Cardinality(A) ELSE Cardinality(A) + 1
        BY <2>4, FS_AddElement
    <3> QED BY <2>1, <2>4, <2>5, <3>1
  <2>7. CASE Ended(t)
    <3>1. M = Newlines(t) \ {Len(t)}
      <4>1. \A i : i \in 1 .. l <=> (i \in 1 .. Len(t) /\ i # Len(t))
          BY <1>1, <2>7
      <4> QED BY <1>1, <4>1 DEF M, Newlines
    <3>2. Len(t) \in Newlines(t)
        BY <1>1, <2>7 DEF Newlines, Ended
    <3>3. Cardinality(Newlines(t) \ {Len(t)}) = Cardinality(Newlines(t)) - 1
        BY <1>2, <3>2, FS_RemoveElement
    <3> QED BY <1>2, <2>3, <2>6, <2>7, <3>1, <3>3
  <2>8. CASE ~Ended(t)
    <3>1. M = Newlines(t)
        BY <1>1, <2>8 DEF M, Newlines
    <3> QED BY <1>4, <2>6, <2>8, <3>1
  <2> QED BY <2>7, <2>8
<1> QED BY <1>3, <1>4

(************************* The end that is shown *************************)

\* The lines from which the shown end may begin.
FitOf(t) == {s \in LineStarts(t) : /\ Len(Unended(t)) - s + 1 <= ByteLimit
                                   /\ Cardinality({x \in LineStarts(t) : x >= s}) <= LineLimit}

\* An end of a text that is longer than what is shown shows what the text shows.
LEMMA TruncatedBehind ==
    ASSUME NEW t \in Text, NEW k \in 0 .. Len(t), Len(t) - k > ByteLimit + 1
    PROVE  TruncateTail(SubSeq(t, k + 1, Len(t))) = TruncateTail(t)
<1> DEFINE u == SubSeq(t, k + 1, Len(t))  l == Len(t)
           eu == Unended(u)  et == Unended(t)  lu == Len(eu)  lt == Len(et)
<1>0. ByteLimit \in Nat
    BY CommandAssumption
<1>1. l \in Nat /\ k \in Nat /\ k <= l /\ l - k > ByteLimit + 1
    BY DEF Text
<1>2. u \in Text /\ Len(u) = l - k /\ \A i \in 1 .. l - k : u[i] = t[k + i]
    BY Ending
<1> HIDE DEF u
<1>3. /\ et \in Text /\ lt = (IF Ended(t) THEN l - 1 ELSE l) /\ lt \in Nat
      /\ \A i \in 1 .. lt : et[i] = t[i]
    BY UnendedIs
<1>4. /\ eu \in Text /\ lu = (IF Ended(u) THEN (l - k) - 1 ELSE l - k) /\ lu \in Nat
      /\ \A i \in 1 .. lu : eu[i] = u[i]
    BY <1>2, UnendedIs
<1> HIDE DEF eu, et, l
<1>5. t # <<>> /\ u # <<>>
  <2>1. Len(<<>>) = 0
      OBVIOUS
  <2>2. l # 0 /\ Len(u) # 0
      BY <1>0, <1>1, <1>2
  <2> QED BY <2>1, <2>2 DEF l
<1>6. Ended(u) <=> Ended(t)
  <2>1. l - k \in 1 .. l - k /\ k + (l - k) = l
      BY <1>0, <1>1
  <2>2. u[Len(u)] = t[l]
      BY <1>2, <2>1
  <2> QED BY <1>5, <2>2 DEF Ended, l
<1> HIDE DEF lu, lt
<1>7. /\ lt = lu + k /\ lu > ByteLimit /\ lu <= l - k
  <2>1. CASE Ended(t)
    <3>1. lt = l - 1 /\ lu = (l - k) - 1
        BY <1>3, <1>4, <1>6, <2>1
    <3> QED BY <1>0, <1>1, <3>1
  <2>2. CASE ~Ended(t)
    <3>1. lt = l /\ lu = l - k
        BY <1>3, <1>4, <1>6, <2>2
    <3> QED BY <1>0, <1>1, <3>1
  <2> QED BY <2>1, <2>2
<1>8. /\ LineStarts(t) = {1} \cup {s \in 2 .. lt + 1 : t[s - 1] = "newline"}
      /\ LineStarts(u) = {1} \cup {s \in 2 .. lu + 1 : u[s - 1] = "newline"}
    BY <1>2, <1>5, LineStartsAre DEF lt, lu, et, eu
<1>9. ASSUME NEW s \in 2 .. lu + 1
      PROVE  s \in LineStarts(u) <=> s + k \in LineStarts(t)
  <2>1. /\ s - 1 \in 1 .. l - k /\ k + (s - 1) = (s + k) - 1 /\ s + k \in 2 .. lt + 1
        /\ s # 1 /\ s + k # 1
      BY <1>1, <1>4, <1>7
  <2>2. u[s - 1] = t[(s + k) - 1]
      BY <1>2, <2>1
  <2> QED BY <1>8, <2>1, <2>2
<1>10. ASSUME NEW s \in LineStarts(t), s > k + 1
       PROVE  s - k \in 2 .. lu + 1 /\ (s - k) + k = s /\ s - k \in LineStarts(u)
  <2>1. s \in 2 .. lt + 1
      BY <1>1, <1>8, <1>10
  <2>2. s - k \in 2 .. lu + 1 /\ (s - k) + k = s
      BY <1>1, <1>4, <1>7, <1>10, <2>1
  <2> QED BY <1>9, <2>2
<1>11. ASSUME NEW s \in LineStarts(u), s > 1 PROVE s \in 2 .. lu + 1
    BY <1>4, <1>8, <1>11
<1>12. LineStarts(u) \in SUBSET Nat /\ IsFiniteSet(LineStarts(u)) /\ LineStarts(t) \in SUBSET Nat
    BY <1>2, LineCount
<1> DEFINE Up(v, s) == {x \in LineStarts(v) : x >= s}
<1>13. ASSUME NEW s \in 2 .. lu + 1
       PROVE  Cardinality(Up(t, s + k)) = Cardinality(Up(u, s))
  <2>1. Up(t, s + k) = ShiftedBy(Up(u, s), k)
    <3>1. ASSUME NEW x \in Up(t, s + k) PROVE x \in ShiftedBy(Up(u, s), k)
      <4>1. x \in LineStarts(t) /\ x >= s + k /\ x \in Nat
          BY <1>12, <3>1
      <4>2. x > k + 1
          BY <1>1, <4>1
      <4>3. x - k \in LineStarts(u) /\ x - k >= s /\ (x - k) + k = x
          BY <1>1, <1>10, <4>1, <4>2
      <4> QED BY <4>3 DEF ShiftedBy
    <3>2. ASSUME NEW x \in Up(u, s) PROVE x + k \in Up(t, s + k)
      <4>1. x \in LineStarts(u) /\ x >= s /\ x \in Nat
          BY <1>12, <3>2
      <4>2. x \in 2 .. lu + 1
          BY <1>11, <4>1
      <4> QED BY <1>1, <1>9, <4>1, <4>2
    <3> QED BY <3>1, <3>2 DEF ShiftedBy
  <2>2. Up(u, s) \in SUBSET LineStarts(u)
      OBVIOUS
  <2> HIDE DEF Up
  <2>3. IsFiniteSet(Up(u, s)) /\ Up(u, s) \in SUBSET Nat
      BY <1>12, <2>2, FS_Subset
  <2> QED BY <1>1, <2>1, <2>3, ShiftedCount
<1> DEFINE Fits(v, s, e) == e - s + 1 <= ByteLimit /\ Cardinality(Up(v, s)) <= LineLimit
<1>14. /\ \A s : s \in FitOf(t) <=> s \in LineStarts(t) /\ Fits(t, s, lt)
       /\ \A s : s \in FitOf(u) <=> s \in LineStarts(u) /\ Fits(u, s, lu)
    BY DEF FitOf, lt, lu, et, eu
<1>15. ASSUME NEW s \in FitOf(t) PROVE s - k \in FitOf(u) /\ (s - k) + k = s /\ s - k \in 2 .. lu + 1
  <2>1. s \in LineStarts(t) /\ lt - s + 1 <= ByteLimit /\ Cardinality(Up(t, s)) <= LineLimit /\ s \in Nat
      BY <1>12, <1>14, <1>15
  <2> HIDE DEF Up
  <2>2. s > k + 1
      BY <1>0, <1>1, <1>3, <1>4, <1>7, <2>1
  <2>3. s - k \in 2 .. lu + 1 /\ (s - k) + k = s /\ s - k \in LineStarts(u)
      BY <1>10, <2>1, <2>2
  <2>4. Cardinality(Up(u, s - k)) <= LineLimit
      BY <1>13, <2>1, <2>3
  <2>5. lu - (s - k) + 1 <= ByteLimit
      BY <1>1, <1>4, <1>7, <2>1
  <2> QED BY <1>14, <2>3, <2>4, <2>5
<1>16. ASSUME NEW s \in FitOf(u) PROVE s + k \in FitOf(t) /\ s \in 2 .. lu + 1
  <2>1. s \in LineStarts(u) /\ lu - s + 1 <= ByteLimit /\ Cardinality(Up(u, s)) <= LineLimit /\ s \in Nat
      BY <1>12, <1>14, <1>16
  <2> HIDE DEF Up
  <2>2. s > 1
      BY <1>0, <1>4, <1>7, <2>1
  <2>3. s \in 2 .. lu + 1
      BY <1>11, <2>1, <2>2
  <2>4. s + k \in LineStarts(t) /\ Cardinality(Up(t, s + k)) <= LineLimit
      BY <1>9, <1>13, <2>1, <2>3
  <2>5. lt - (s + k) + 1 <= ByteLimit
      BY <1>1, <1>4, <1>7, <2>1
  <2> QED BY <1>14, <2>3, <2>4, <2>5
<1> HIDE DEF Up, Fits
<1>17. eu = SubSeq(et, k + 1, Len(et))
  <2> DEFINE e == SubSeq(et, k + 1, Len(et))
  <2>1. k \in 0 .. Len(et) /\ Len(et) - k = lu
      BY <1>1, <1>3, <1>4, <1>7 DEF lt
  <2>2. e \in Text /\ Len(e) = lu /\ \A i \in 1 .. lu : e[i] = et[k + i]
      BY <1>3, <2>1, Ending
  <2> HIDE DEF e
  <2>3. ASSUME NEW i \in 1 .. lu PROVE eu[i] = e[i]
    <3>1. i \in 1 .. l - k /\ k + i \in 1 .. lt
        BY <1>1, <1>4, <1>7
    <3> QED BY <1>2, <1>3, <1>4, <2>2, <3>1
  <2>4. Len(eu) = lu
      BY DEF lu
  <2>5. eu = e
      BY <1>4, <2>2, <2>3, <2>4, SameText
  <2> QED BY <2>5 DEF e
<1>18. Exceeds(t) /\ Exceeds(u)
    BY <1>0, <1>1, <1>2 DEF Exceeds, l
<1>19. /\ TruncateTail(t) = IF FitOf(t) = {} THEN LastBytes(et, ByteLimit) ELSE SubSeq(et, Min(FitOf(t)), Len(et))
       /\ TruncateTail(u) = IF FitOf(u) = {} THEN LastBytes(eu, ByteLimit) ELSE SubSeq(eu, Min(FitOf(u)), Len(eu))
    BY <1>18 DEF TruncateTail, FitOf, et, eu
<1>20. CASE FitOf(u) = {}
  <2>1. FitOf(t) = {}
      BY <1>15, <1>20
  <2>2. ASSUME NEW s \in Starts(et, ByteLimit) PROVE k + 1 <= s
    <3>1. s \in 1 .. lt + 1 /\ lt - s + 1 <= ByteLimit
        BY <2>2 DEF Starts, lt
    <3> QED BY <1>0, <1>1, <1>3, <1>4, <1>7, <3>1
  <2>3. k \in 0 .. Len(et)
      BY <1>1, <1>3, <1>4, <1>7 DEF lt
  <2>4. LastBytes(SubSeq(et, k + 1, Len(et)), ByteLimit) = LastBytes(et, ByteLimit)
      BY <1>0, <1>3, <2>2, <2>3, LastBytesBehind
  <2> QED BY <1>17, <1>19, <1>20, <2>1, <2>4 DEF u
<1>21. CASE FitOf(u) # {}
  <2> DEFINE m == Min(FitOf(u))
  <2>1. FitOf(u) \in SUBSET (0 .. lu + 1) /\ FitOf(t) \in SUBSET Nat
    <3>1. \A s \in FitOf(u) : s \in 0 .. lu + 1
        BY <1>4, <1>16
    <3>2. FitOf(t) \in SUBSET LineStarts(t)
        BY DEF FitOf
    <3> QED BY <1>12, <3>1, <3>2
  <2>2. m \in FitOf(u) /\ \A s \in FitOf(u) : m <= s
    <3>1. lu + 1 \in Nat
        BY <1>4
    <3> QED BY <1>21, <2>1, <3>1, LeastOf
  <2> HIDE DEF m
  <2>3. m + k \in FitOf(t) /\ m \in 2 .. lu + 1
      BY <1>16, <2>2
  <2>4. ASSUME NEW s \in FitOf(t) PROVE m + k <= s
    <3>1. s - k \in FitOf(u) /\ s \in Nat
        BY <1>15, <2>1
    <3>2. m <= s - k
        BY <2>2, <3>1
    <3> QED BY <1>1, <2>3, <3>1, <3>2
  <2>5. Min(FitOf(t)) = m + k
      BY <2>1, <2>3, <2>4, LeastIs
  <2>6. FitOf(t) # {}
      BY <2>3
  <2> DEFINE j == m - 1
  <2>7. j \in 0 .. Len(et) - k /\ k \in 0 .. Len(et) /\ j + 1 = m /\ (k + j) + 1 = m + k
    <3>1. Len(et) = lu + k
        BY <1>7 DEF lt
    <3> QED BY <1>1, <1>4, <2>3, <3>1
  <2> HIDE DEF j
  <2>8. SubSeq(eu, j + 1, Len(eu)) = SubSeq(et, (k + j) + 1, Len(et))
      BY <1>3, <1>17, <2>7, EndOfEnd
  <2>9. SubSeq(eu, m, Len(eu)) = SubSeq(et, m + k, Len(et))
      BY <2>7, <2>8
  <2> QED BY <1>19, <1>21, <2>5, <2>6, <2>9 DEF m, u
<1> QED BY <1>20, <1>21

\* What the kept end shows is what all of the text shows.
LEMMA KeptEndShows ==
    ASSUME NEW t \in Text, Whole(t)
    PROVE  TruncateTail(LastBytes(t, 2 * ByteLimit)) = TruncateTail(t)
<1>1. /\ ByteLimit \in Nat /\ ByteLimit > 2 /\ 2 * ByteLimit \in Nat /\ 2 * ByteLimit > 1
      /\ 2 * ByteLimit - 1 > ByteLimit + 1
    BY CommandAssumption
<1>2. CASE Len(t) <= 2 * ByteLimit
    BY <1>1, <1>2, LastBytesAll
<1>3. CASE ~(Len(t) <= 2 * ByteLimit)
  <2>1. Len(t) \in Nat /\ Len(t) > 2 * ByteLimit
      BY <1>1, <1>3 DEF Text
  <2>2. PICK k \in 0 .. Len(t) : /\ LastBytes(t, 2 * ByteLimit) = SubSeq(t, k + 1, Len(t))
                                 /\ Len(t) - k >= 2 * ByteLimit - 1
      BY <1>1, <2>1, LastBytesLong
  <2>3. Len(t) - k > ByteLimit + 1
      BY <1>1, <2>1, <2>2
  <2> QED BY <2>2, <2>3, TruncatedBehind
<1> QED BY <1>2, <1>3

(****************************** The capture ******************************)

\* A capture, and the one of a text.
Captures == [bytes : Nat, lines : Nat, open : BOOLEAN, tail : Text, asked : BOOLEAN, writes : Seq(Text)]

OpenLine(t) == ~(t = <<>> \/ Ended(t))

CaptureOf(k, t) ==
    /\ k.bytes = Len(t) /\ k.lines = Cardinality(Newlines(t)) /\ (k.open <=> OpenLine(t))
    /\ k.tail = LastBytes(t, 2 * ByteLimit)
    /\ k.asked <=> Exceeds(t)

\* The counts of the capture are those of the text.
LEMMA ExceedsIs ==
    ASSUME NEW t \in Text
    PROVE  Exceeds(t) <=> \/ Len(t) > ByteLimit
                          \/ Cardinality(Newlines(t)) + (IF OpenLine(t) THEN 1 ELSE 0) > LineLimit
<1>1. Cardinality(LineStarts(t)) = Cardinality(Newlines(t)) + (IF t = <<>> \/ Ended(t) THEN 0 ELSE 1)
    BY LineCount
<1>2. (IF t = <<>> \/ Ended(t) THEN 0 ELSE 1) = (IF OpenLine(t) THEN 1 ELSE 0)
    BY DEF OpenLine
<1> QED BY <1>1, <1>2 DEF Exceeds

LEMMA EndedOn ==
    ASSUME NEW t \in Text, NEW x \in Text
    PROVE  OpenLine(t \o x) <=> IF x = <<>> THEN OpenLine(t) ELSE x[Len(x)] # "newline"
<1>1. /\ t \o x \in Text /\ Len(t \o x) = Len(t) + Len(x) /\ Len(t) \in Nat /\ Len(x) \in Nat
      /\ \A i \in 1 .. Len(t) + Len(x) : (t \o x)[i] = IF i <= Len(t) THEN t[i] ELSE x[i - Len(t)]
    BY TwoTexts
<1>2. CASE x = <<>>
  <2>1. t \o x = t
      BY <1>2, ConcatEmptySeq DEF Text
  <2> QED BY <1>2, <2>1
<1>3. CASE x # <<>>
  <2>1. Len(x) # 0
      BY <1>3 DEF Text
  <2> DEFINE n == Len(t) + Len(x)
  <2>2. n \in 1 .. n /\ ~(n <= Len(t)) /\ n - Len(t) = Len(x) /\ n # 0
      BY <1>1, <2>1
  <2>3. (t \o x)[Len(t \o x)] = x[Len(x)]
      BY <1>1, <2>2
  <2>4. t \o x # <<>>
    <3>1. Len(<<>>) = 0
        OBVIOUS
    <3> QED BY <1>1, <2>2, <3>1
  <2> QED BY <1>3, <2>3, <2>4 DEF OpenLine, Ended
<1> QED BY <1>2, <1>3

LEMMA ExceedsOn ==
    ASSUME NEW t \in Text, NEW x \in Text, Exceeds(t)
    PROVE  Exceeds(t \o x)
<1> DEFINE a == Cardinality(Newlines(t))  b == Cardinality(Newlines(x))
           o == IF OpenLine(t) THEN 1 ELSE 0  p == IF OpenLine(t \o x) THEN 1 ELSE 0
<1>1. /\ t \o x \in Text /\ Len(t \o x) = Len(t) + Len(x) /\ Len(t) \in Nat /\ Len(x) \in Nat
    BY TwoTexts
<1>2. a \in Nat /\ b \in Nat /\ Cardinality(Newlines(t \o x)) = a + b
    BY NewlinesFinite, NewlinesConcat
<1>3. Len(t) > ByteLimit \/ a + o > LineLimit
    BY ExceedsIs
<1>4. Exceeds(t \o x) <=> Len(t) + Len(x) > ByteLimit \/ (a + b) + p > LineLimit
    BY <1>1, <1>2, ExceedsIs
<1>5. ByteLimit \in Nat /\ LineLimit \in Nat
    BY CommandAssumption
<1>6. o \in {0, 1} /\ p \in {0, 1}
    OBVIOUS
<1>7. b + p >= o
  <2>1. CASE x = <<>>
    <3>1. OpenLine(t \o x) <=> OpenLine(t)
        BY <2>1, EndedOn
    <3>2. p = o
        BY <3>1
    <3> HIDE DEF o, p, b
    <3> QED BY <1>2, <1>6, <3>2
  <2>2. CASE x # <<>> /\ x[Len(x)] # "newline"
    <3>1. p = 1
        BY <2>2, EndedOn
    <3> HIDE DEF o, p, b
    <3> QED BY <1>2, <1>6, <3>1
  <2>3. CASE x # <<>> /\ x[Len(x)] = "newline"
    <3>1. Len(x) \in DOMAIN x
        BY <2>3 DEF Text
    <3>2. Newlines(x) # {}
        BY <2>3, <3>1 DEF Newlines
    <3>3. b # 0
        BY <3>2, NewlinesFinite, FS_EmptySet
    <3> HIDE DEF o, p, b
    <3> QED BY <1>2, <1>6, <3>3
  <2> QED BY <2>1, <2>2, <2>3
<1> HIDE DEF a, b, o, p
<1>8. (a + b) + p >= a + o
    BY <1>2, <1>6, <1>7
<1>9. CASE Len(t) > ByteLimit
  <2>1. Len(t) + Len(x) > ByteLimit
      BY <1>1, <1>5, <1>9
  <2> QED BY <1>4, <2>1
<1>10. CASE a + o > LineLimit
  <2>1. (a + b) + p > LineLimit
      BY <1>2, <1>5, <1>6, <1>8, <1>10
  <2> QED BY <1>4, <2>1
<1> QED BY <1>3, <1>9, <1>10

\* Nothing is captured at first.
LEMMA EmptyCaptured == NoCapture \in Captures /\ CaptureOf(NoCapture, <<>>)
<1>1. <<>> \in Text /\ Len(<<>>) = 0 /\ <<>> \in Seq(Text) /\ DOMAIN <<>> = {}
    BY DEF Text
<1>2. Newlines(<<>>) = {}
    BY <1>1 DEF Newlines
<1>3. Cardinality({}) = 0
    BY FS_EmptySet
<1>4. ByteLimit \in Nat /\ LineLimit \in Nat /\ 2 * ByteLimit \in Nat /\ 0 <= 2 * ByteLimit
    BY CommandAssumption
<1>5. LastBytes(<<>>, 2 * ByteLimit) = <<>>
  <2>1. Whole(<<>>)
      BY <1>1 DEF Whole
  <2> QED BY <1>1, <1>4, <2>1, LastBytesAll
<1>6. ~OpenLine(<<>>)
    BY DEF OpenLine
<1>7. ~Exceeds(<<>>)
  <2>1. ~(0 > ByteLimit) /\ ~(0 + 0 > LineLimit)
      BY <1>4
  <2> QED BY <1>1, <1>2, <1>3, <1>6, <2>1, ExceedsIs
<1>8. CaptureOf(NoCapture, <<>>)
    BY <1>1, <1>2, <1>3, <1>5, <1>6, <1>7 DEF NoCapture, CaptureOf
<1>9. NoCapture \in Captures
    BY <1>1 DEF NoCapture, Captures
<1> QED BY <1>8, <1>9

\* The counts of a capture say whether the text is too long.
LEMMA TruncatedIs ==
    ASSUME NEW t \in Text, NEW k, k.bytes = Len(t), k.lines = Cardinality(Newlines(t)), k.open <=> OpenLine(t)
    PROVE  IsTruncated(k) <=> Exceeds(t)
<1>1. (IF k.open THEN 1 ELSE 0) = (IF OpenLine(t) THEN 1 ELSE 0)
    OBVIOUS
<1> QED BY <1>1, ExceedsIs DEF IsTruncated

\* One more chunk is captured.
LEMMA CapturedOn ==
    ASSUME NEW k \in Captures, NEW t \in Text, Whole(t), NEW x \in Text, CaptureOf(k, t)
    PROVE  /\ Captured(k, x) \in Captures
           /\ CaptureOf(Captured(k, x), t \o x)
           /\ Captured(k, x).writes = IF Exceeds(t) THEN Append(k.writes, x)
                                      ELSE IF Exceeds(t \o x) THEN <<t \o x>> ELSE k.writes
<1> DEFINE counted == [k EXCEPT !.bytes = @ + Len(x),
                                !.lines = @ + Cardinality(Newlines(x)),
                                !.open = IF x = <<>> THEN @ ELSE Last(x) # "newline"]
           r == [counted EXCEPT !.tail = LastBytes(k.tail \o x, 2 * ByteLimit),
                                !.asked = @ \/ IsTruncated(counted),
                                !.writes = IF k.asked THEN Append(@, x)
                                           ELSE IF IsTruncated(counted) THEN <<k.tail \o x>> ELSE @]
<1>1. Captured(k, x) = r
    BY DEF Captured, Newlines
<1>2. /\ k.bytes \in Nat /\ k.lines \in Nat /\ k.open \in BOOLEAN /\ k.tail \in Text
      /\ k.asked \in BOOLEAN /\ k.writes \in Seq(Text)
    BY DEF Captures
<1>3. /\ k.bytes = Len(t) /\ k.lines = Cardinality(Newlines(t)) /\ (k.open <=> OpenLine(t))
      /\ k.tail = LastBytes(t, 2 * ByteLimit) /\ (k.asked <=> Exceeds(t))
    BY DEF CaptureOf
<1>4. /\ t \o x \in Text /\ Len(t \o x) = Len(t) + Len(x) /\ Len(t) \in Nat /\ Len(x) \in Nat
      /\ Cardinality(Newlines(t \o x)) = Cardinality(Newlines(t)) + Cardinality(Newlines(x))
      /\ Cardinality(Newlines(x)) \in Nat
    BY TwoTexts, NewlinesConcat, NewlinesFinite
<1>5. ByteLimit \in Nat /\ 2 * ByteLimit \in Nat /\ (\A n \in Nat : n <= ByteLimit => n <= 2 * ByteLimit)
    BY CommandAssumption
<1>6. /\ counted \in Captures
      /\ counted.bytes = k.bytes + Len(x) /\ counted.lines = k.lines + Cardinality(Newlines(x))
      /\ counted.open = (IF x = <<>> THEN k.open ELSE Last(x) # "newline")
      /\ counted.tail = k.tail /\ counted.asked = k.asked /\ counted.writes = k.writes
  <2> DEFINE b == k.bytes + Len(x)  n == k.lines + Cardinality(Newlines(x))
             o == IF x = <<>> THEN k.open ELSE Last(x) # "newline"
             c == [k EXCEPT !.bytes = b, !.lines = n, !.open = o]
  <2>1. b \in Nat /\ n \in Nat
      BY <1>2, <1>4
  <2>2. o \in BOOLEAN
      BY <1>2
  <2>3. counted = c
      OBVIOUS
  <2> HIDE DEF b, n, o, counted
  <2>4. c \in Captures /\ c.bytes = b /\ c.lines = n /\ c.open = o
        /\ c.tail = k.tail /\ c.asked = k.asked /\ c.writes = k.writes
      BY <2>1, <2>2 DEF Captures
  <2> QED BY <2>3, <2>4 DEF b, n, o
<1> HIDE DEF counted
<1>7. /\ r.bytes = counted.bytes /\ r.lines = counted.lines /\ r.open = counted.open
      /\ r.tail = LastBytes(k.tail \o x, 2 * ByteLimit)
      /\ r.asked = (k.asked \/ IsTruncated(counted))
      /\ r.writes = (IF k.asked THEN Append(k.writes, x)
                     ELSE IF IsTruncated(counted) THEN <<k.tail \o x>> ELSE k.writes)
      /\ (r.tail \in Text /\ r.asked \in BOOLEAN /\ r.writes \in Seq(Text)) => r \in Captures
  <2> DEFINE l == LastBytes(k.tail \o x, 2 * ByteLimit)  a == k.asked \/ IsTruncated(counted)
             w == IF k.asked THEN Append(k.writes, x)
                  ELSE IF IsTruncated(counted) THEN <<k.tail \o x>> ELSE k.writes
             c == [counted EXCEPT !.tail = l, !.asked = a, !.writes = w]
  <2>1. r = c
      BY <1>6
  <2> HIDE DEF l, a, w, r
  <2>2. /\ c.bytes = counted.bytes /\ c.lines = counted.lines /\ c.open = counted.open
        /\ c.tail = l /\ c.asked = a /\ c.writes = w
        /\ (l \in Text /\ a \in BOOLEAN /\ w \in Seq(Text)) => c \in Captures
      BY <1>6 DEF Captures
  <2> HIDE DEF c
  <2> QED BY <2>1, <2>2 DEF l, a, w
<1> HIDE DEF r
<1>8. counted.bytes = Len(t \o x) /\ counted.lines = Cardinality(Newlines(t \o x))
    BY <1>3, <1>4, <1>6
<1>9. counted.open \in BOOLEAN /\ (counted.open <=> OpenLine(t \o x))
  <2>1. OpenLine(t \o x) <=> IF x = <<>> THEN OpenLine(t) ELSE x[Len(x)] # "newline"
      BY EndedOn
  <2>2. Last(x) = x[Len(x)]
      BY DEF Last
  <2>3. CASE x = <<>>
      BY <1>2, <1>3, <1>6, <2>1, <2>3
  <2>4. CASE x # <<>>
    <3>1. counted.open = (x[Len(x)] # "newline")
        BY <1>6, <2>2, <2>4
    <3> QED BY <2>1, <2>4, <3>1
  <2> QED BY <2>3, <2>4
<1>10. IsTruncated(counted) <=> Exceeds(t \o x)
    BY <1>4, <1>8, <1>9, TruncatedIs
<1>11. r.asked \in BOOLEAN /\ (r.asked <=> Exceeds(t \o x))
  <2>1. Exceeds(t) => Exceeds(t \o x)
      BY ExceedsOn
  <2>2. (k.asked \/ IsTruncated(counted)) \in BOOLEAN
      OBVIOUS
  <2>3. (k.asked \/ IsTruncated(counted)) <=> Exceeds(t \o x)
      BY <1>3, <1>10, <2>1
  <2> QED BY <1>7, <2>2, <2>3
<1>12. r.tail = LastBytes(t \o x, 2 * ByteLimit)
    BY <1>3, <1>5, <1>7, LastBytesOn
<1>13. r.tail \in Text
  <2>1. PICK m \in 0 .. Len(t \o x) : LastBytes(t \o x, 2 * ByteLimit) = SubSeq(t \o x, m + 1, Len(t \o x))
      BY <1>4, <1>5, LastBytesCut
  <2> DEFINE z == t \o x
  <2>2. SubSeq(z, m + 1, Len(z)) \in Text
    <3>1. z \in Text /\ m \in 0 .. Len(z)
        BY <1>4, <2>1
    <3> HIDE DEF z
    <3> QED BY <3>1, Ending
  <2> QED BY <1>12, <2>1, <2>2
<1>14. ASSUME ~Exceeds(t) PROVE k.tail = t
  <2>1. ~(Len(t) > ByteLimit)
      BY <1>14, ExceedsIs
  <2>2. Len(t) <= 2 * ByteLimit
      BY <1>4, <1>5, <2>1
  <2> QED BY <1>3, <1>5, <2>2, LastBytesAll
<1>15. r.writes = IF Exceeds(t) THEN Append(k.writes, x)
                  ELSE IF Exceeds(t \o x) THEN <<t \o x>> ELSE k.writes
    BY <1>3, <1>7, <1>10, <1>14
<1>16. r.writes \in Seq(Text)
  <2>1. Append(k.writes, x) \in Seq(Text) /\ <<t \o x>> \in Seq(Text)
      BY <1>2, <1>4
  <2> QED BY <1>2, <1>15, <2>1
<1>18. r \in Captures
    BY <1>7, <1>11, <1>13, <1>16
<1>19. CaptureOf(r, t \o x)
    BY <1>7, <1>8, <1>9, <1>11, <1>12 DEF CaptureOf
<1> QED BY <1>1, <1>15, <1>18, <1>19

(******************************* A command *******************************)

CommandTypes ==
    /\ command \in Commands /\ script \in Seq(Streams \X Pieces)
    /\ written \in [Streams -> Text] /\ pipe \in [Streams -> Seq(Text)]
    /\ child \in {"none", "running", "succeeded", "failed", "killed"}
    /\ reading \in {"new", "stdout", "stderr", "reap", "files", "over", "dropped"}
    /\ keeping \in BOOLEAN /\ late \in BOOLEAN /\ halted \in BOOLEAN /\ broke \in BOOLEAN
    /\ outcome \in {"none", "refused", "aborted", "callback", "timeout", "nonzero", "zero"}
    /\ undecoded \in Text /\ given \in Text /\ IsUtf8(given)
    /\ capture \in Captures /\ saved \in Seq(Text)

\* What has been taken of a stream, as far as it is decoded, and what the pipe still holds.
Taken(g, s) ==
    /\ g = Utf8Prefix(g \o undecoded)
    /\ written[s] = (g \o undecoded) \o FlattenSeq(pipe[s])

\* How far the child is.
ChildKnown ==
    /\ child = "none" => given = <<>> /\ undecoded = <<>> /\ \A s \in Streams : written[s] = <<>> /\ pipe[s] = <<>>
    /\ reading = "new" => child = "none" /\ ~broke
    /\ reading \in {"stdout", "stderr", "reap", "dropped"} => child # "none"
    /\ child \in {"succeeded", "failed", "killed"} => script = <<>>

\* Where the bytes are: in a pipe, kept back, or given, which are stdout's before stderr's.
BytesFollowed ==
    ~broke =>
        /\ reading = "stdout" => Taken(given, "stdout") /\ written["stderr"] = FlattenSeq(pipe["stderr"])
        /\ reading = "stderr" =>
              PipesClosed /\ \E g \in Text : given = Utf8Prefix(written["stdout"]) \o g /\ Taken(g, "stderr")
        /\ (reading \in {"reap", "files", "over"} /\ child # "none") => child # "running" /\ given = AllWritten
        /\ reading = "dropped" => \/ child # "running" /\ IsPrefix(given, AllWritten)
                                  \/ IsPrefix(given, Utf8Prefix(written["stdout"]))

\* What the capture knows of the text that was given, and where that text is saved.
CaptureKnows ==
    ~command.plain =>
        /\ CaptureOf(capture, Sanitized(given))
        /\ reading \notin {"files", "over"} => saved = <<>>
        /\ FlattenSeq(saved \o capture.writes) = IF Exceeds(Sanitized(given)) THEN Sanitized(given) ELSE <<>>

\* How the command ended.
EndKnown ==
    /\ outcome # "none" <=> reading \in {"files", "over"}
    /\ outcome = "aborted" => halted
    /\ outcome = "zero" => child \in {"succeeded", "killed"} /\ ~late /\ ~broke

ShellInv ==
    /\ CommandTypes /\ ChildKnown /\ BytesFollowed /\ CaptureKnows /\ EndKnown
    /\ ShownIsTheEnd /\ SuccessIsEarned

ShellActions ==
    \/ ExecRefused \/ ExecSpawns \/ (\E s \in Streams : ReadsPipe(s)) \/ (\E s \in Streams : StreamEnds(s))
    \/ Reaps \/ WatchHalts \/ SavesOutput \/ SavingFails \/ ToolReplies
    \/ WatchExpires \/ ChildWrites \/ ChildEnds \/ ChildSlain \/ KeeperEnds
    \/ CleansUp \/ Halt \/ RunDropped \/ (\E s \in Streams : ListenerFails(s))

\* The steps of a command, one by one.
LEMMA ShellNextActs == ShellNext => ShellActions
BY DEF ShellNext, CallSteps, ReadsStreams, ShellActions

LEMMA PiecesAreText == Pieces \subseteq Text /\ ByteLimit \in Nat /\ LineLimit \in Nat
BY CommandAssumption DEF Text

LEMMA TextAssociative ==
    ASSUME NEW a \in Text, NEW b \in Text, NEW c \in Text
    PROVE  (a \o b) \o c = a \o (b \o c)
BY ConcatAssociative DEF Text

\* What one read does to the bytes.
LEMMA ReadOn ==
    ASSUME NEW g \in Text, IsUtf8(g), NEW u \in Text, NEW f \in Text
    PROVE  LET bytes == u \o f
               chunk == Utf8Prefix(bytes)
               rest == SubSeq(bytes, Len(chunk) + 1, Len(bytes))
           IN  /\ chunk \in Text /\ rest \in Text /\ g \o chunk \in Text /\ IsUtf8(g \o chunk)
               /\ g \o chunk = Utf8Prefix((g \o chunk) \o rest)
               /\ (g \o chunk) \o rest = (g \o u) \o f
<1> DEFINE bytes == u \o f  chunk == Utf8Prefix(bytes)  rest == SubSeq(bytes, Len(chunk) + 1, Len(bytes))
<1>1. bytes \in Text
    BY TwoTexts
<1> HIDE DEF bytes
<1>2. chunk \in Text /\ IsUtf8(chunk) /\ rest \in Text /\ bytes = chunk \o rest
    BY <1>1, Utf8Facts
<1> HIDE DEF chunk, rest
<1>3. g \o chunk \in Text /\ IsUtf8(g \o chunk)
    BY <1>2, Utf8Concat, TwoTexts
<1>4. (g \o chunk) \o rest = g \o bytes
    BY <1>2, TextAssociative
<1>5. Utf8Prefix(g \o bytes) = g \o chunk
    BY <1>1, DecodedBehind DEF chunk
<1>6. (g \o u) \o f = g \o bytes
    BY TextAssociative DEF bytes
<1> QED BY <1>2, <1>3, <1>4, <1>5, <1>6 DEF bytes, chunk, rest

\* A read, with names for what it takes.
LEMMA ReadIs ==
    ASSUME CommandTypes, NEW s \in Streams, ReadsPipe(s)
    PROVE  \E f, h \in Text :
             LET bytes == undecoded \o f
                 chunk == Utf8Prefix(bytes) IN
             /\ chunk \in Text /\ FlattenSeq(pipe[s]) = f \o h
             /\ undecoded' = SubSeq(bytes, Len(chunk) + 1, Len(bytes)) /\ given' = given \o chunk
             /\ pipe' \in [Streams -> Seq(Text)] /\ FlattenSeq(pipe'[s]) = h
             /\ \A r \in Streams : r # s => pipe'[r] = pipe[r]
             /\ capture' = IF command.plain THEN capture ELSE Captured(capture, Sanitized(chunk))
<1>1. /\ pipe[s] \in Seq(Text) /\ pipe \in [Streams -> Seq(Text)] /\ undecoded \in Text
    BY DEF CommandTypes
<1>2. PICK n \in 1 .. Len(pipe[s]) :
         \E bytes \in {undecoded \o FlattenSeq(SubSeq(pipe[s], 1, n))} :
         \E chunk \in {Utf8Prefix(bytes)} :
         \E printed \in {Sanitized(chunk)} :
            /\ pipe' = [pipe EXCEPT ![s] = SubSeq(@, n + 1, Len(@))]
            /\ undecoded' = SubSeq(bytes, Len(chunk) + 1, Len(bytes))
            /\ given' = given \o chunk
            /\ capture' = IF command.plain THEN capture ELSE Captured(capture, printed)
    BY DEF ReadsPipe
<1> DEFINE f == FlattenSeq(SubSeq(pipe[s], 1, n))  q == SubSeq(pipe[s], n + 1, Len(pipe[s]))
           h == FlattenSeq(q)  bytes == undecoded \o f  chunk == Utf8Prefix(bytes)
<1>3. /\ pipe' = [pipe EXCEPT ![s] = q]
      /\ undecoded' = SubSeq(bytes, Len(chunk) + 1, Len(bytes))
      /\ given' = given \o chunk
      /\ capture' = IF command.plain THEN capture ELSE Captured(capture, Sanitized(chunk))
    BY <1>2
<1>4. SubSeq(pipe[s], 1, n) \in Seq(Text) /\ q \in Seq(Text) /\ FlattenSeq(pipe[s]) = f \o h
    BY <1>1, FlattenSplit DEF Text
<1>5. f \in Text /\ h \in Text
    BY <1>4, FlattenText DEF Text
<1>6. bytes \in Text
    BY <1>1, <1>5, TwoTexts
<1>7. chunk \in Text
    BY <1>6, Utf8Facts
<1> HIDE DEF f, q
<1>8. pipe' \in [Streams -> Seq(Text)] /\ pipe'[s] = q /\ \A r \in Streams : r # s => pipe'[r] = pipe[r]
    BY <1>1, <1>3, <1>4
<1> QED BY <1>3, <1>4, <1>5, <1>7, <1>8

\* What is true of a command that has not begun.
LEMMA CommandTypesInit == ShellInit => CommandTypes /\ ChildKnown /\ BytesFollowed /\ CaptureKnows /\ EndKnown
<1> SUFFICES ASSUME ShellInit PROVE CommandTypes /\ ChildKnown /\ BytesFollowed /\ CaptureKnows /\ EndKnown
    OBVIOUS
<1>1. <<>> \in Text /\ <<>> \in Seq(Text) /\ Len(<<>>) = 0 /\ IsUtf8(<<>>)
    BY DEF Text, IsUtf8
<1>2. script \in Seq(Streams \X Pieces)
  <2>1. PICK n \in 0 .. MaxPieces : script \in [1 .. n -> Streams \X Pieces]
      BY DEF ShellInit, Scripts
  <2>2. n \in Nat
      BY <2>1, CommandAssumption
  <2> QED BY <2>1, <2>2
<1>3. NoCapture \in Captures /\ CaptureOf(NoCapture, <<>>)
    BY EmptyCaptured
<1>4. CommandTypes
    BY <1>1, <1>2, <1>3 DEF ShellInit, CommandTypes
<1>5. ChildKnown /\ BytesFollowed
    BY DEF ShellInit, ChildKnown, BytesFollowed
<1>6. CaptureKnows
  <2>1. ~Exceeds(<<>>)
      BY <1>3 DEF NoCapture, CaptureOf
  <2>2. saved \o capture.writes = <<>>
      BY DEF ShellInit, NoCapture
  <2> QED BY <1>3, <2>1, <2>2, FlattenEmpty, SanitizedEmpty DEF ShellInit, CaptureKnows
<1>7. EndKnown
    BY DEF ShellInit, EndKnown
<1> QED BY <1>4, <1>5, <1>6, <1>7

\* What the capture makes of one read.
LEMMA ReadCaptures ==
    ASSUME CommandTypes, CaptureKnows, NEW chunk \in Text, ~command.plain
    PROVE  LET k == Captured(capture, Sanitized(chunk)) IN
           /\ k \in Captures /\ CaptureOf(k, Sanitized(given \o chunk))
           /\ k.writes = IF Exceeds(Sanitized(given)) THEN Append(capture.writes, Sanitized(chunk))
                         ELSE IF Exceeds(Sanitized(given \o chunk)) THEN <<Sanitized(given \o chunk)>>
                         ELSE capture.writes
<1>1. given \in Text /\ IsUtf8(given) /\ capture \in Captures
    BY DEF CommandTypes
<1>2. CaptureOf(capture, Sanitized(given))
    BY DEF CaptureKnows
<1>3. /\ Sanitized(given) \in Text /\ Sanitized(chunk) \in Text
      /\ Sanitized(given \o chunk) = Sanitized(given) \o Sanitized(chunk)
    BY <1>1, SanitizedConcat
<1>4. Whole(Sanitized(given))
    BY <1>1, Utf8IsWhole, SanitizedWhole
<1> DEFINE t == Sanitized(given)  x == Sanitized(chunk)
<1>5. /\ Captured(capture, x) \in Captures
      /\ CaptureOf(Captured(capture, x), t \o x)
      /\ Captured(capture, x).writes = IF Exceeds(t) THEN Append(capture.writes, x)
                                      ELSE IF Exceeds(t \o x) THEN <<t \o x>> ELSE capture.writes
    BY ONLY <1>1, <1>2, <1>3, <1>4, CapturedOn
<1> QED BY ONLY <1>3, <1>5

\* The types, and what the child's state says of the rest, are kept by every step.
LEMMA CommandTypesNext ==
    ASSUME CommandTypes, CaptureKnows, ShellActions
    PROVE  CommandTypes'
<1> USE DEF CommandTypes
<1>1. <<>> \in Text
    BY DEF Text
<1>2. CASE ExecRefused
    BY <1>2 DEF ExecRefused, processVars
<1>3. CASE ExecSpawns
    BY <1>3 DEF ExecSpawns
<1>4. ASSUME NEW s \in Streams, ReadsPipe(s) PROVE CommandTypes'
  <2>1. /\ command' = command /\ script' = script /\ written' = written /\ child' = child /\ keeping' = keeping
        /\ reading' = reading /\ late' = late /\ halted' = halted /\ broke' = broke /\ outcome' = outcome
        /\ saved' = saved
      BY <1>4 DEF ReadsPipe, endVars
  <2>2. PICK f, h \in Text :
             LET bytes == undecoded \o f
                 chunk == Utf8Prefix(bytes) IN
             /\ chunk \in Text /\ FlattenSeq(pipe[s]) = f \o h
             /\ undecoded' = SubSeq(bytes, Len(chunk) + 1, Len(bytes)) /\ given' = given \o chunk
             /\ pipe' \in [Streams -> Seq(Text)] /\ FlattenSeq(pipe'[s]) = h
             /\ \A r \in Streams : r # s => pipe'[r] = pipe[r]
             /\ capture' = IF command.plain THEN capture ELSE Captured(capture, Sanitized(chunk))
    <3> HIDE DEF CommandTypes
    <3> QED BY <1>4, ReadIs
  <2>3. undecoded' \in Text /\ given' \in Text /\ IsUtf8(given')
    <3>1. given \in Text /\ IsUtf8(given) /\ undecoded \in Text
        OBVIOUS
    <3>2. LET bytes == undecoded \o f
               chunk == Utf8Prefix(bytes)
               rest == SubSeq(bytes, Len(chunk) + 1, Len(bytes))
          IN  rest \in Text /\ given \o chunk \in Text /\ IsUtf8(given \o chunk)
        BY ONLY <3>1, <2>2, ReadOn
    <3> QED BY ONLY <3>2, <2>2
  <2>4. capture' \in Captures
    <3>1. capture \in Captures
        OBVIOUS
    <3> HIDE DEF CommandTypes
    <3> QED BY <2>2, <3>1, ReadCaptures
  <2>5. pipe' \in [Streams -> Seq(Text)]
      BY <2>2
  <2> QED BY <2>1, <2>3, <2>4, <2>5
<1>5. ASSUME NEW s \in Streams, StreamEnds(s) PROVE CommandTypes'
    BY <1>1, <1>5 DEF StreamEnds, processVars, endVars, NextStream, Streams
<1>6. CASE Reaps
    BY <1>6 DEF Reaps, Verdict
<1> DEFINE Tree == /\ child' \in {"none", "running", "succeeded", "failed", "killed"}
                   /\ script' \in Seq(Streams \X Pieces) /\ keeping' \in BOOLEAN /\ pipe' = pipe /\ written' = written
<1>7. KillsTree => Tree
    BY DEF KillsTree
<1> HIDE DEF Tree
<1>8. CASE WatchHalts
  <2>1. Tree
      BY <1>7, <1>8 DEF WatchHalts
  <2> QED BY <1>8, <2>1 DEF WatchHalts, Tree
<1>9. CASE SavesOutput
  <2>1. capture.writes \in Seq(Text) /\ capture.writes # <<>> /\ capture \in Captures
      BY <1>9 DEF SavesOutput, Captures
  <2>2. Head(capture.writes) \in Text /\ Tail(capture.writes) \in Seq(Text)
      BY <2>1
  <2>3. [capture EXCEPT !.writes = Tail(capture.writes)] \in Captures
      BY <2>1, <2>2 DEF Captures
  <2>4. Append(saved, Head(capture.writes)) \in Seq(Text)
      BY <2>2
  <2> QED BY <1>9, <2>3, <2>4 DEF SavesOutput, processVars, endVars
<1>10. CASE SavingFails
    BY <1>10 DEF SavingFails, processVars, endVars
<1>11. CASE ToolReplies
    BY <1>11 DEF ToolReplies, processVars, endVars
<1>12. CASE WatchExpires
  <2>1. Tree
      BY <1>7, <1>12 DEF WatchExpires
  <2> QED BY <1>12, <2>1 DEF WatchExpires, Tree
<1>13. CASE ChildWrites
  <2>1. script # <<>> /\ script \in Seq(Streams \X Pieces)
      BY <1>13 DEF ChildWrites
  <2>2. Head(script) \in Streams \X Pieces /\ Tail(script) \in Seq(Streams \X Pieces)
      BY <2>1
  <2>3. Head(script)[1] \in Streams /\ Head(script)[2] \in Text
      BY <2>2, PiecesAreText
  <2> DEFINE to == Head(script)[1]  piece == Head(script)[2]
  <2>4. /\ pipe' = [pipe EXCEPT ![to] = Append(@, piece)]
        /\ written' = [written EXCEPT ![to] = @ \o piece]
      BY <1>13 DEF ChildWrites
  <2> HIDE DEF to, piece
  <2>5. Append(pipe[to], piece) \in Seq(Text) /\ written[to] \o piece \in Text
      BY <2>3, TwoTexts DEF to, piece
  <2>6. pipe' \in [Streams -> Seq(Text)] /\ written' \in [Streams -> Text]
      BY <2>4, <2>5
  <2> QED BY <1>13, <2>2, <2>6 DEF ChildWrites, endVars
<1>14. CASE ChildEnds
    BY <1>14 DEF ChildEnds, endVars
<1>15. CASE ChildSlain
    BY <1>15 DEF ChildSlain, endVars
<1>16. CASE KeeperEnds
    BY <1>16 DEF KeeperEnds, endVars
<1>17. CASE CleansUp
  <2>1. Tree
      BY <1>7, <1>17 DEF CleansUp
  <2> QED BY <1>17, <2>1 DEF CleansUp, Tree, endVars
<1>18. CASE Halt
    BY <1>18 DEF Halt, processVars
<1>19. CASE RunDropped
    BY <1>19 DEF RunDropped, processVars
<1>20. ASSUME NEW s \in Streams, ListenerFails(s) PROVE CommandTypes'
  <2>1. Tree
      BY <1>7, <1>20 DEF ListenerFails
  <2>2. reading' \in {"stderr", "reap"}
      BY <1>20 DEF ListenerFails, NextStream
  <2> QED BY <1>1, <1>20, <2>1, <2>2 DEF ListenerFails, Tree
<1> HIDE DEF CommandTypes
<1> QED BY <1>2, <1>3, <1>4, <1>5, <1>6, <1>8, <1>9, <1>10, <1>11, <1>12, <1>13, <1>14, <1>15,
           <1>16, <1>17, <1>18, <1>19, <1>20 DEF ShellActions

LEMMA ChildKnownNext ==
    ASSUME CommandTypes, ChildKnown, ShellActions
    PROVE  ChildKnown'
<1> USE DEF ChildKnown
<1> DEFINE Tree == /\ pipe' = pipe /\ written' = written /\ (child' = "none" <=> child = "none")
                   /\ child' \in {"succeeded", "failed", "killed"} => script' = <<>>
<1>1. CommandTypes => (KillsTree => Tree)
    BY DEF KillsTree, CommandTypes
<1> HIDE DEF Tree
<1>2. CASE ExecRefused
    BY <1>2 DEF ExecRefused, processVars
<1>3. CASE ExecSpawns
    BY <1>3 DEF ExecSpawns
<1>4. ASSUME NEW s \in Streams, ReadsPipe(s) PROVE ChildKnown'
  <2>1. /\ child' = child /\ script' = script /\ reading' = reading /\ broke' = broke /\ reading = s
      BY <1>4 DEF ReadsPipe, endVars
  <2>2. child # "none"
      BY <2>1 DEF Streams
  <2> QED BY <2>1, <2>2
<1>5. ASSUME NEW s \in Streams, StreamEnds(s) PROVE ChildKnown'
    BY <1>5 DEF StreamEnds, processVars, endVars, NextStream, Streams
<1>6. CASE Reaps
    BY <1>6 DEF Reaps
<1>7. CASE WatchHalts
    BY <1>1, <1>7 DEF WatchHalts, Tree
<1>8. CASE SavesOutput
    BY <1>8 DEF SavesOutput, processVars, endVars
<1>9. CASE SavingFails
    BY <1>9 DEF SavingFails, processVars, endVars
<1>10. CASE ToolReplies
    BY <1>10 DEF ToolReplies, processVars, endVars
<1>11. CASE WatchExpires
    BY <1>1, <1>11 DEF WatchExpires, Tree
<1>12. CASE ChildWrites
    BY <1>12 DEF ChildWrites, endVars
<1>13. CASE ChildEnds
    BY <1>13 DEF ChildEnds, endVars
<1>14. CASE ChildSlain
    BY <1>14 DEF ChildSlain, endVars
<1>15. CASE KeeperEnds
    BY <1>15 DEF KeeperEnds, endVars
<1>16. CASE CleansUp
    BY <1>1, <1>16 DEF CleansUp, Tree, endVars
<1>17. CASE Halt
    BY <1>17 DEF Halt, processVars
<1>18. CASE RunDropped
    BY <1>18 DEF RunDropped, processVars, Awaiting
<1>19. ASSUME NEW s \in Streams, ListenerFails(s) PROVE ChildKnown'
  <2>1. child # "none" /\ reading' \in {"stderr", "reap"}
      BY <1>19 DEF ListenerFails, NextStream, Streams
  <2> QED BY <1>1, <1>19, <2>1 DEF ListenerFails, Tree
<1> HIDE DEF ChildKnown
<1> QED BY <1>2, <1>3, <1>4, <1>5, <1>6, <1>7, <1>8, <1>9, <1>10, <1>11, <1>12, <1>13, <1>14, <1>15,
           <1>16, <1>17, <1>18, <1>19 DEF ShellActions

\* What has been taken of a stream is the beginning of what it shows, and all of it at its end.
LEMMA TakenShows ==
    ASSUME NEW g \in Text, NEW u \in Text, NEW f \in Text, g = Utf8Prefix(g \o u)
    PROVE  /\ IsUtf8(g) /\ IsPrefix(g, Utf8Prefix((g \o u) \o f))
           /\ f = <<>> => g = Utf8Prefix((g \o u) \o f)
<1>1. g \o u \in Text
    BY TwoTexts
<1>2. IsUtf8(g)
    BY <1>1, Utf8Facts
<1>3. IsPrefix(g, Utf8Prefix((g \o u) \o f))
    BY <1>1, DecodedGrows
<1>4. ASSUME f = <<>> PROVE g = Utf8Prefix((g \o u) \o f)
    BY <1>1, <1>4, ConcatEmptySeq DEF Text
<1> QED BY <1>2, <1>3, <1>4

\* A stream that nothing was taken of.
LEMMA NothingTaken ==
    ASSUME NEW f \in Text
    PROVE  /\ <<>> \in Text /\ <<>> = Utf8Prefix(<<>> \o <<>>) /\ f = (<<>> \o <<>>) \o f
<1>1. <<>> \in Text /\ IsUtf8(<<>>)
    BY DEF Text, IsUtf8
<1>2. <<>> \o <<>> = <<>> /\ <<>> \o f = f
    BY <1>1, ConcatEmptySeq DEF Text
<1> QED BY <1>1, <1>2, Utf8Whole

\* Beginnings behind the same text.
LEMMA PrefixBehind ==
    ASSUME NEW p \in Text, NEW a \in Text, NEW b \in Text, IsPrefix(a, b)
    PROVE  IsPrefix(p \o a, p \o b)
<1>1. PICK x \in Text : b = a \o x
    BY PrefixIsConcat
<1>2. p \o b = (p \o a) \o x
    BY <1>1, ConcatAssociative DEF Text
<1> QED BY <1>2, TwoTexts, PrefixOfConcat

LEMMA PrefixOfItself == ASSUME NEW a \in Text PROVE IsPrefix(a, a)
<1>1. <<>> \in Text /\ a \o <<>> = a
    BY ConcatEmptySeq DEF Text
<1> QED BY <1>1, PrefixOfConcat

BytesStay == written' = written /\ pipe' = pipe /\ undecoded' = undecoded /\ given' = given /\ broke' = broke

\* The steps that move no byte and leave the call where it is.
LEMMA BytesStayPut ==
    ASSUME CommandTypes, BytesFollowed, BytesStay, reading' = reading,
           child' = "none" <=> child = "none", child' = "running" => child = "running",
           PipesClosed => PipesClosed'
    PROVE  BytesFollowed'
<1> SUFFICES ASSUME ~broke' PROVE BytesFollowed'
    BY DEF BytesFollowed
<1>1. ~broke /\ AllWritten' = AllWritten /\ written' = written /\ pipe' = pipe /\ given' = given /\ undecoded' = undecoded
    BY DEF BytesStay, AllWritten
<1>2. \A g : \A s : Taken(g, s) => Taken(g, s)'
    BY <1>1 DEF Taken
<1> QED BY <1>1, <1>2 DEF BytesFollowed

\* The process starts: nothing is taken yet.
LEMMA BytesSpawned ==
    ASSUME CommandTypes, ChildKnown, ExecSpawns
    PROVE  BytesFollowed'
<1>1. /\ given' = <<>> /\ undecoded' = <<>> /\ reading' = "stdout"
      /\ \A s \in Streams : written'[s] = <<>> /\ pipe'[s] = <<>>
    BY DEF ExecSpawns, ChildKnown
<1>2. <<>> \in Text
    BY DEF Text
<1>3. <<>> = Utf8Prefix(<<>> \o <<>>) /\ <<>> = (<<>> \o <<>>) \o <<>>
    BY <1>2, NothingTaken
<1> QED BY <1>1, <1>3, FlattenEmpty DEF BytesFollowed, Taken, Streams

\* A read takes from its stream's pipe, and the decoder keeps back half a character.
LEMMA BytesRead ==
    ASSUME CommandTypes, BytesFollowed, NEW s \in Streams, ReadsPipe(s)
    PROVE  BytesFollowed'
<1> SUFFICES ASSUME ~broke' PROVE BytesFollowed'
    BY DEF BytesFollowed
<1>1. /\ reading = s /\ reading' = s /\ ~broke /\ written' = written /\ child' = child /\ keeping' = keeping
    BY DEF ReadsPipe, endVars
<1>2. /\ pipe[s] \in Seq(Text) /\ undecoded \in Text /\ given \in Text /\ IsUtf8(given)
      /\ Utf8Prefix(written["stdout"]) \in Text
    BY Utf8Facts DEF CommandTypes, Streams
<1>3. PICK f, h \in Text :
             LET bytes == undecoded \o f
                 chunk == Utf8Prefix(bytes) IN
             /\ chunk \in Text /\ FlattenSeq(pipe[s]) = f \o h
             /\ undecoded' = SubSeq(bytes, Len(chunk) + 1, Len(bytes)) /\ given' = given \o chunk
             /\ pipe' \in [Streams -> Seq(Text)] /\ FlattenSeq(pipe'[s]) = h
             /\ \A r \in Streams : r # s => pipe'[r] = pipe[r]
             /\ capture' = IF command.plain THEN capture ELSE Captured(capture, Sanitized(chunk))
    BY ReadIs
<1> DEFINE chunk == Utf8Prefix(undecoded \o f)
<1>4. /\ f \in Text /\ h \in Text /\ chunk \in Text /\ FlattenSeq(pipe[s]) = f \o h /\ given' = given \o chunk
      /\ undecoded' = SubSeq(undecoded \o f, Len(chunk) + 1, Len(undecoded \o f))
      /\ FlattenSeq(pipe'[s]) = h /\ \A r \in Streams : r # s => pipe'[r] = pipe[r]
    BY ONLY <1>3
<1>5. ASSUME NEW g \in Text, Taken(g, s)
      PROVE  /\ g \o chunk \in Text
             /\ g \o chunk = Utf8Prefix((g \o chunk) \o undecoded')
             /\ written'[s] = ((g \o chunk) \o undecoded') \o FlattenSeq(pipe'[s])
  <2>1. g = Utf8Prefix(g \o undecoded) /\ written[s] = (g \o undecoded) \o (f \o h)
      BY <1>4, <1>5 DEF Taken
  <2>2. IsUtf8(g)
      BY <1>2, <1>5, <2>1, TwoTexts, Utf8Facts
  <2>3. /\ undecoded' \in Text /\ g \o chunk \in Text
        /\ g \o chunk = Utf8Prefix((g \o chunk) \o undecoded')
        /\ (g \o chunk) \o undecoded' = (g \o undecoded) \o f
    <3>1. /\ g \in Text /\ IsUtf8(g) /\ undecoded \in Text /\ f \in Text
        BY <1>2, <1>4, <1>5, <2>2
    <3> DEFINE rest == SubSeq(undecoded \o f, Len(chunk) + 1, Len(undecoded \o f))
    <3>2. /\ rest \in Text /\ g \o chunk \in Text
          /\ g \o chunk = Utf8Prefix((g \o chunk) \o rest)
          /\ (g \o chunk) \o rest = (g \o undecoded) \o f
        BY ONLY <3>1, ReadOn
    <3>3. undecoded' = rest
        BY ONLY <1>4
    <3> QED BY ONLY <3>2, <3>3
  <2>4. (g \o undecoded) \o (f \o h) = ((g \o undecoded) \o f) \o h
    <3>1. g \o undecoded \in Text
        BY <1>2, <1>5, TwoTexts
    <3> QED BY ONLY <1>4, <3>1, TextAssociative
  <2>5. written'[s] = ((g \o chunk) \o undecoded') \o FlattenSeq(pipe'[s])
      BY ONLY <1>1, <1>4, <2>1, <2>3, <2>4
  <2> QED BY ONLY <2>3, <2>5
<1> HIDE DEF chunk
<1>6. CASE s = "stdout"
  <2>1. Taken(given, s) /\ written["stderr"] = FlattenSeq(pipe["stderr"])
      BY <1>1, <1>6 DEF BytesFollowed
  <2>2. /\ given' = Utf8Prefix(given' \o undecoded')
        /\ written'[s] = (given' \o undecoded') \o FlattenSeq(pipe'[s])
      BY <1>2, <1>4, <1>5, <2>1
  <2>3. pipe'["stderr"] = pipe["stderr"]
      BY <1>4, <1>6 DEF Streams
  <2>4. Taken(given, s)'
      BY <2>2 DEF Taken
  <2> QED BY <1>1, <1>6, <2>1, <2>3, <2>4 DEF BytesFollowed
<1>7. CASE s = "stderr"
  <2>1. PICK g \in Text : given = Utf8Prefix(written["stdout"]) \o g /\ Taken(g, s)
      BY <1>1, <1>7 DEF BytesFollowed
  <2>2. PipesClosed'
      BY <1>1, <1>7 DEF BytesFollowed, PipesClosed
  <2>3. /\ g \o chunk \in Text /\ g \in Text
        /\ g \o chunk = Utf8Prefix((g \o chunk) \o undecoded')
        /\ written'[s] = ((g \o chunk) \o undecoded') \o FlattenSeq(pipe'[s])
      BY <1>5, <2>1
  <2>4. given' = Utf8Prefix(written["stdout"]) \o (g \o chunk)
    <3>1. given = Utf8Prefix(written["stdout"]) \o g
        BY <2>1
    <3>2. Utf8Prefix(written["stdout"]) \in Text /\ chunk \in Text /\ given' = given \o chunk
        BY <1>2, <1>4
    <3> QED BY ONLY <2>3, <3>1, <3>2, TextAssociative
  <2>5. given' = Utf8Prefix(written'["stdout"]) \o (g \o chunk)
      BY <1>1, <2>4
  <2>6. \E h2 \in Text : given' = Utf8Prefix(written'["stdout"]) \o h2 /\ Taken(h2, s)'
    <3>1. \A h2 : h2 = g \o chunk => Taken(h2, s)'
        BY ONLY <2>3 DEF Taken
    <3> QED BY <2>3, <2>5, <3>1
  <2> QED BY <1>1, <1>7, <2>2, <2>6 DEF BytesFollowed
<1> QED BY <1>6, <1>7 DEF Streams

\* A stream ends when nobody can write to it: all of it was taken.
LEMMA BytesStreamEnds ==
    ASSUME CommandTypes, BytesFollowed, NEW s \in Streams, StreamEnds(s)
    PROVE  BytesFollowed'
<1> SUFFICES ASSUME ~broke' PROVE BytesFollowed'
    BY DEF BytesFollowed
<1>1. /\ reading = s /\ pipe[s] = <<>> /\ PipesClosed /\ reading' = NextStream(s) /\ undecoded' = <<>> /\ ~broke
      /\ given' = given /\ written' = written /\ child' = child /\ keeping' = keeping /\ pipe' = pipe
    BY DEF StreamEnds, processVars, endVars
<1>2. /\ undecoded \in Text /\ given \in Text /\ written["stdout"] \in Text /\ written["stderr"] \in Text
      /\ Utf8Prefix(written["stdout"]) \in Text /\ <<>> \in Text
      /\ AllWritten' = AllWritten
    BY <1>1, Utf8Facts, NothingTaken DEF CommandTypes, Streams, AllWritten
<1>3. ASSUME NEW g \in Text, Taken(g, s) PROVE g = Utf8Prefix(written[s])
    BY <1>1, <1>2, <1>3, FlattenEmpty, TakenShows DEF Taken
<1>4. CASE s = "stdout"
  <2>1. given = Utf8Prefix(written["stdout"]) /\ written["stderr"] = FlattenSeq(pipe["stderr"])
      BY <1>1, <1>2, <1>3, <1>4 DEF BytesFollowed
  <2>2. given' = Utf8Prefix(written'["stdout"]) \o <<>>
      BY <1>1, <1>2, <2>1, ConcatEmptySeq DEF Text
  <2>3. Taken(<<>>, "stderr")'
      BY <1>1, <1>2, <2>1, NothingTaken DEF Taken
  <2>4. PipesClosed' /\ reading' = "stderr"
      BY <1>1, <1>4 DEF PipesClosed, NextStream
  <2>5. \E g \in Text : given' = Utf8Prefix(written'["stdout"]) \o g /\ Taken(g, "stderr")'
      BY <1>2, <2>2, <2>3
  <2> QED BY <2>4, <2>5 DEF BytesFollowed
<1>5. CASE s = "stderr"
  <2>1. PICK g \in Text : given = Utf8Prefix(written["stdout"]) \o g /\ Taken(g, s)
      BY <1>1, <1>5 DEF BytesFollowed
  <2>2. given = AllWritten
      BY <1>3, <1>5, <2>1 DEF AllWritten
  <2>3. reading' = "reap" /\ child' # "running"
      BY <1>1, <1>5 DEF NextStream, PipesClosed
  <2> QED BY <1>1, <1>2, <2>2, <2>3 DEF BytesFollowed
<1> QED BY <1>4, <1>5 DEF Streams

\* The child writes, behind what its pipe holds.
LEMMA BytesWritten ==
    ASSUME CommandTypes, ChildKnown, BytesFollowed, ChildWrites
    PROVE  BytesFollowed'
<1> SUFFICES ASSUME ~broke' PROVE BytesFollowed'
    BY DEF BytesFollowed
<1> DEFINE to == Head(script)[1]  piece == Head(script)[2]
<1>1. /\ script \in Seq(Streams \X Pieces) /\ script # <<>> /\ child = "running" /\ child' = child
      /\ reading' = reading /\ undecoded' = undecoded /\ given' = given /\ ~broke
      /\ pipe' = [pipe EXCEPT ![to] = Append(@, piece)]
      /\ written' = [written EXCEPT ![to] = @ \o piece]
    BY DEF ChildWrites, endVars, CommandTypes
<1>2. Head(script) \in Streams \X Pieces
    BY <1>1
<1>3. to \in Streams /\ piece \in Text
    BY <1>2, PiecesAreText
<1> HIDE DEF to, piece
<1>4. /\ pipe \in [Streams -> Seq(Text)] /\ written \in [Streams -> Text] /\ undecoded \in Text /\ given \in Text
    BY DEF CommandTypes
<1>5. /\ pipe'[to] = Append(pipe[to], piece) /\ written'[to] = written[to] \o piece
      /\ \A s \in Streams : s # to => pipe'[s] = pipe[s] /\ written'[s] = written[s]
    BY <1>1, <1>3, <1>4
<1>6. FlattenSeq(pipe'[to]) = FlattenSeq(pipe[to]) \o piece /\ FlattenSeq(pipe[to]) \in Text
    BY <1>3, <1>4, <1>5, FlattenAppended, FlattenText DEF Text
<1>7. reading # "stderr" /\ reading \notin {"reap", "files", "over"}
    BY <1>1 DEF BytesFollowed, PipesClosed
<1>8. CASE reading = "stdout"
  <2>1. Taken(given, "stdout") /\ written["stderr"] = FlattenSeq(pipe["stderr"])
      BY <1>1, <1>8 DEF BytesFollowed
  <2>2. Taken(given, "stdout")'
    <3>1. CASE to = "stdout"
      <4>1. written[to] = (given \o undecoded) \o FlattenSeq(pipe[to])
          BY <2>1, <3>1 DEF Taken
      <4>2. written'[to] = (given \o undecoded) \o FlattenSeq(pipe'[to])
        <5>1. given \o undecoded \in Text
            BY <1>4, TwoTexts
        <5>2. (written[to]) \o piece = (given \o undecoded) \o (FlattenSeq(pipe[to]) \o piece)
            BY ONLY <1>3, <1>6, <4>1, <5>1, TextAssociative
        <5> QED BY ONLY <1>5, <1>6, <5>2
      <4> QED BY <1>1, <2>1, <3>1, <4>2 DEF Taken
    <3>2. CASE to # "stdout"
        BY <1>1, <1>5, <2>1, <3>2 DEF Taken, Streams
    <3> QED BY <3>1, <3>2
  <2>3. written'["stderr"] = FlattenSeq(pipe'["stderr"])
    <3>1. CASE to = "stderr"
        BY <1>5, <1>6, <2>1, <3>1
    <3>2. CASE to # "stderr"
        BY <1>5, <2>1, <3>2 DEF Streams
    <3> QED BY <3>1, <3>2
  <2> QED BY <1>1, <1>8, <2>2, <2>3 DEF BytesFollowed
<1>9. CASE reading = "dropped"
  <2>1. IsPrefix(given, Utf8Prefix(written["stdout"]))
      BY <1>1, <1>9 DEF BytesFollowed
  <2>2. IsPrefix(given, Utf8Prefix(written'["stdout"]))
    <3>1. CASE to = "stdout"
      <4>1. written[to] \in Text /\ written[to] \o piece \in Text
          BY <1>3, <1>4, TwoTexts
      <4>2. IsPrefix(Utf8Prefix(written[to]), Utf8Prefix(written[to] \o piece))
          BY <1>3, <4>1, DecodedGrows
      <4>3. Utf8Prefix(written[to]) \in Text /\ Utf8Prefix(written[to] \o piece) \in Text
          BY <4>1, Utf8Facts
      <4>4. IsPrefix(given, Utf8Prefix(written[to] \o piece))
          BY <1>4, <2>1, <3>1, <4>2, <4>3, PrefixThrough
      <4> QED BY <1>5, <3>1, <4>4
    <3>2. CASE to # "stdout"
        BY <1>5, <2>1, <3>2 DEF Streams
    <3> QED BY <3>1, <3>2
  <2> QED BY <1>1, <1>9, <2>2 DEF BytesFollowed
<1>10. CASE reading \notin {"stdout", "dropped"}
    BY <1>1, <1>7, <1>10 DEF BytesFollowed
<1> QED BY <1>8, <1>9, <1>10

\* The call is dropped, and what was given stays a beginning.
LEMMA BytesDropped ==
    ASSUME CommandTypes, ChildKnown, BytesFollowed, RunDropped
    PROVE  BytesFollowed'
<1> SUFFICES ASSUME ~broke' PROVE BytesFollowed'
    BY DEF BytesFollowed
<1>1. /\ reading' = "dropped" /\ child' = child /\ written' = written /\ given' = given /\ ~broke
      /\ reading \in {"stdout", "stderr", "reap"} /\ AllWritten' = AllWritten /\ child # "none"
    BY DEF RunDropped, processVars, Awaiting, AllWritten, ChildKnown
<1>2. /\ undecoded \in Text /\ given \in Text /\ \A s \in Streams : FlattenSeq(pipe[s]) \in Text
      /\ Utf8Prefix(written["stdout"]) \in Text /\ Utf8Prefix(written["stderr"]) \in Text
  <2>1. /\ undecoded \in Text /\ given \in Text /\ written["stdout"] \in Text /\ written["stderr"] \in Text
        /\ \A s \in Streams : pipe[s] \in Seq(Text)
      BY DEF CommandTypes, Streams
  <2> QED BY <2>1, Utf8Facts, FlattenText DEF Text
<1>3. ASSUME NEW s \in Streams, NEW g \in Text, Taken(g, s) PROVE IsPrefix(g, Utf8Prefix(written[s]))
    BY <1>2, <1>3, TakenShows DEF Taken
<1>4. CASE reading = "stdout"
  <2>1. Taken(given, "stdout")
      BY <1>1, <1>4 DEF BytesFollowed
  <2>2. IsPrefix(given, Utf8Prefix(written["stdout"]))
      BY <1>2, <1>3, <2>1 DEF Streams
  <2> QED BY <1>1, <2>2 DEF BytesFollowed
<1>5. CASE reading = "stderr"
  <2>1. PICK g \in Text : given = Utf8Prefix(written["stdout"]) \o g /\ Taken(g, "stderr")
      BY <1>1, <1>5 DEF BytesFollowed
  <2>2. child # "running"
      BY <1>1, <1>5 DEF BytesFollowed, PipesClosed
  <2>3. IsPrefix(g, Utf8Prefix(written["stderr"]))
      BY <1>3, <2>1 DEF Streams
  <2>4. IsPrefix(given, AllWritten)
      BY <1>2, <2>1, <2>3, PrefixBehind DEF AllWritten
  <2> QED BY <1>1, <2>2, <2>4 DEF BytesFollowed
<1>6. CASE reading = "reap"
  <2>1. child # "running" /\ given = AllWritten
      BY <1>1, <1>6 DEF BytesFollowed
  <2>2. IsPrefix(given, AllWritten)
      BY <1>2, <2>1, PrefixOfItself
  <2> QED BY <1>1, <2>1, <2>2 DEF BytesFollowed
<1> QED BY <1>1, <1>4, <1>5, <1>6

\* No step loses a byte.
LEMMA BytesFollowedNext ==
    ASSUME CommandTypes, ChildKnown, BytesFollowed, ShellActions
    PROVE  BytesFollowed'
<1> DEFINE Tree == /\ pipe' = pipe /\ written' = written /\ (child' = "none" <=> child = "none")
                   /\ (child' = "running" => child = "running") /\ (PipesClosed => PipesClosed')
           Still == /\ BytesStay /\ reading' = reading /\ (child' = "none" <=> child = "none")
                    /\ (child' = "running" => child = "running") /\ (PipesClosed => PipesClosed')
<1>1. KillsTree => Tree
    BY DEF KillsTree, CommandTypes, PipesClosed
<1>2. Still => BytesFollowed'
    BY BytesStayPut
<1> HIDE DEF Tree, Still
<1>3. CASE ExecRefused
  <2>1. /\ child = "none" /\ child' = "none" /\ reading' = "files"
      BY <1>3 DEF ExecRefused, processVars, ChildKnown
  <2> QED BY <2>1 DEF BytesFollowed
<1>4. CASE ExecSpawns
    BY <1>4, BytesSpawned
<1>5. ASSUME NEW s \in Streams, ReadsPipe(s) PROVE BytesFollowed'
    BY <1>5, BytesRead
<1>6. ASSUME NEW s \in Streams, StreamEnds(s) PROVE BytesFollowed'
    BY <1>6, BytesStreamEnds
<1>7. CASE Reaps \/ SavingFails \/ ToolReplies
  <2>1. /\ reading \in {"reap", "files"} /\ reading' \in {"files", "over"} /\ child' = child /\ broke' = broke
        /\ given' = given /\ written' = written /\ AllWritten' = AllWritten
      BY <1>7 DEF Reaps, SavingFails, ToolReplies, processVars, endVars, AllWritten
  <2> QED BY <2>1 DEF BytesFollowed
<1>8. CASE WatchHalts
    BY <1>1, <1>2, <1>8 DEF WatchHalts, Tree, Still, BytesStay
<1>9. CASE SavesOutput
    BY <1>2, <1>9 DEF SavesOutput, processVars, endVars, Still, BytesStay, PipesClosed
<1>10. CASE WatchExpires
    BY <1>1, <1>2, <1>10 DEF WatchExpires, Tree, Still, BytesStay
<1>11. CASE ChildWrites
    BY <1>11, BytesWritten
<1>12. CASE ChildEnds
    BY <1>2, <1>12 DEF ChildEnds, endVars, Still, BytesStay, PipesClosed
<1>13. CASE ChildSlain
    BY <1>2, <1>13 DEF ChildSlain, endVars, Still, BytesStay, PipesClosed
<1>14. CASE KeeperEnds
    BY <1>2, <1>14 DEF KeeperEnds, endVars, Still, BytesStay, PipesClosed
<1>15. CASE CleansUp
    BY <1>1, <1>2, <1>15 DEF CleansUp, Tree, Still, BytesStay, endVars
<1>16. CASE Halt
    BY <1>2, <1>16 DEF Halt, processVars, Still, BytesStay, PipesClosed
<1>17. CASE RunDropped
    BY <1>17, BytesDropped
<1>18. ASSUME NEW s \in Streams, ListenerFails(s) PROVE BytesFollowed'
    BY <1>18 DEF ListenerFails, BytesFollowed
<1> QED BY <1>3, <1>4, <1>5, <1>6, <1>7, <1>8, <1>9, <1>10, <1>11, <1>12, <1>13, <1>14, <1>15,
           <1>16, <1>17, <1>18 DEF ShellActions

\* The steps that give the capture nothing.
CaptureStays ==
    /\ capture' = capture /\ given' = given /\ saved' = saved /\ command' = command
    /\ reading \in {"files", "over"} => reading' \in {"files", "over"}

LEMMA CaptureStaysPut == CaptureKnows /\ CaptureStays => CaptureKnows'
BY DEF CaptureKnows, CaptureStays

\* A read extends what is captured, and the first one that exceeds the limits makes the file.
LEMMA CaptureReads ==
    ASSUME CommandTypes, CaptureKnows, NEW s \in Streams, ReadsPipe(s)
    PROVE  CaptureKnows'
<1>1. command' = command /\ saved' = saved /\ reading = s /\ reading' = reading
    BY DEF ReadsPipe
<1> SUFFICES ASSUME ~command.plain PROVE CaptureKnows'
    BY <1>1 DEF CaptureKnows
<1>2. saved = <<>>
    BY <1>1 DEF CaptureKnows, Streams
<1>3. PICK f, h \in Text :
             LET bytes == undecoded \o f
                 chunk == Utf8Prefix(bytes) IN
             /\ chunk \in Text /\ FlattenSeq(pipe[s]) = f \o h
             /\ undecoded' = SubSeq(bytes, Len(chunk) + 1, Len(bytes)) /\ given' = given \o chunk
             /\ pipe' \in [Streams -> Seq(Text)] /\ FlattenSeq(pipe'[s]) = h
             /\ \A r \in Streams : r # s => pipe'[r] = pipe[r]
             /\ capture' = IF command.plain THEN capture ELSE Captured(capture, Sanitized(chunk))
    BY ReadIs
<1> DEFINE chunk == Utf8Prefix(undecoded \o f)  t == Sanitized(given)  x == Sanitized(chunk)  u == Sanitized(given \o chunk)
<1>4. chunk \in Text /\ given' = given \o chunk /\ capture' = Captured(capture, x)
    BY <1>3
<1> HIDE DEF chunk
<1>5. given \in Text /\ capture.writes \in Seq(Text)
    BY DEF CommandTypes, Captures
<1>6. t \in Text /\ x \in Text /\ u = t \o x /\ u \in Text
    BY <1>4, <1>5, SanitizedConcat, TwoTexts
<1>7. /\ CaptureOf(capture', u)
      /\ capture'.writes = IF Exceeds(t) THEN Append(capture.writes, x)
                           ELSE IF Exceeds(u) THEN <<u>> ELSE capture.writes
    BY <1>4, ReadCaptures
<1>8. FlattenSeq(capture.writes) = IF Exceeds(t) THEN t ELSE <<>>
  <2>1. <<>> \o capture.writes = capture.writes
      BY <1>5, ConcatEmptySeq
  <2> QED BY <1>2, <2>1 DEF CaptureKnows
<1> HIDE DEF t, x, u
<1>9. FlattenSeq(capture'.writes) = IF Exceeds(u) THEN u ELSE <<>>
  <2>1. CASE Exceeds(t)
    <3>1. Exceeds(u)
        BY <1>6, <2>1, ExceedsOn
    <3>2. FlattenSeq(Append(capture.writes, x)) = t \o x
        BY <1>5, <1>6, <1>8, <2>1, FlattenAppended DEF Text
    <3> QED BY <1>6, <1>7, <2>1, <3>1, <3>2
  <2>2. CASE ~Exceeds(t) /\ Exceeds(u)
      BY <1>6, <1>7, <2>2, FlattenOne DEF Text
  <2>3. CASE ~Exceeds(t) /\ ~Exceeds(u)
      BY <1>7, <1>8, <2>3
  <2> QED BY <2>1, <2>2, <2>3
<1>10. capture'.writes \in Seq(Text)
  <2>1. <<u>> \in Seq(Text) /\ Append(capture.writes, x) \in Seq(Text)
      BY <1>5, <1>6
  <2> QED BY <1>5, <1>7, <2>1
<1>11. saved' \o capture'.writes = capture'.writes /\ saved' = <<>>
    BY <1>1, <1>2, <1>10, ConcatEmptySeq
<1>12. Sanitized(given') = u
    BY <1>4 DEF u
<1> QED BY <1>7, <1>9, <1>11, <1>12 DEF CaptureKnows

\* A queued write that is saved.
LEMMA OneSaved ==
    ASSUME NEW S, NEW a \in Seq(S), NEW b \in Seq(S), b # <<>>
    PROVE  Append(a, Head(b)) \o Tail(b) = a \o b
<1>1. b = <<Head(b)>> \o Tail(b) /\ Head(b) \in S /\ Tail(b) \in Seq(S)
    OBVIOUS
<1>2. Append(a, Head(b)) = a \o <<Head(b)>> /\ <<Head(b)>> \in Seq(S)
    BY <1>1
<1>3. (a \o <<Head(b)>>) \o Tail(b) = a \o (<<Head(b)>> \o Tail(b))
    BY <1>1, <1>2, ConcatAssociative
<1> QED BY <1>1, <1>2, <1>3

\* Saving a write moves it from the queue to the file.
LEMMA CaptureSaves ==
    ASSUME CommandTypes, CaptureKnows, SavesOutput
    PROVE  CaptureKnows'
<1>1. /\ reading = "files" /\ capture.writes # <<>> /\ reading' = reading /\ command' = command /\ given' = given
      /\ saved' = Append(saved, Head(capture.writes))
      /\ capture' = [capture EXCEPT !.writes = Tail(@)]
    BY DEF SavesOutput
<1>2. capture \in Captures /\ capture.writes \in Seq(Text) /\ saved \in Seq(Text)
    BY DEF CommandTypes, Captures
<1>3. /\ capture'.bytes = capture.bytes /\ capture'.lines = capture.lines /\ capture'.open = capture.open
      /\ capture'.tail = capture.tail /\ capture'.asked = capture.asked
      /\ capture'.writes = Tail(capture.writes)
    BY <1>1, <1>2 DEF Captures
<1>4. \A t : CaptureOf(capture, t) => CaptureOf(capture', t)
    BY <1>3 DEF CaptureOf
<1>5. saved' \o capture'.writes = saved \o capture.writes
    BY <1>1, <1>2, <1>3, OneSaved
<1> QED BY <1>1, <1>4, <1>5 DEF CaptureKnows

\* The capture knows the text that was given, whatever happens.
LEMMA CaptureKnowsNext ==
    ASSUME CommandTypes, CaptureKnows, ShellActions
    PROVE  CaptureKnows'
<1>1. CASE ExecRefused
    BY <1>1, CaptureStaysPut DEF ExecRefused, CaptureStays
<1>2. CASE ExecSpawns
    BY <1>2, CaptureStaysPut DEF ExecSpawns, CaptureStays
<1>3. ASSUME NEW s \in Streams, ReadsPipe(s) PROVE CaptureKnows'
    BY <1>3, CaptureReads
<1>4. ASSUME NEW s \in Streams, StreamEnds(s) PROVE CaptureKnows'
    BY <1>4, CaptureStaysPut DEF StreamEnds, CaptureStays, Streams
<1>5. CASE Reaps \/ WatchHalts \/ WatchExpires \/ CleansUp \/ Halt
    BY <1>5, CaptureStaysPut DEF Reaps, WatchHalts, WatchExpires, CleansUp, Halt, CaptureStays
<1>6. CASE SavesOutput
    BY <1>6, CaptureSaves
<1>7. CASE SavingFails \/ ToolReplies
    BY <1>7, CaptureStaysPut DEF SavingFails, ToolReplies, CaptureStays
<1>8. CASE ChildWrites \/ ChildEnds \/ ChildSlain \/ KeeperEnds
    BY <1>8, CaptureStaysPut DEF ChildWrites, ChildEnds, ChildSlain, KeeperEnds, CaptureStays
<1>9. CASE RunDropped
    BY <1>9, CaptureStaysPut DEF RunDropped, Awaiting, CaptureStays
<1>10. ASSUME NEW s \in Streams, ListenerFails(s) PROVE CaptureKnows'
    BY <1>10, CaptureStaysPut DEF ListenerFails, CaptureStays, Streams
<1> QED BY <1>1, <1>2, <1>3, <1>4, <1>5, <1>6, <1>7, <1>8, <1>9, <1>10 DEF ShellActions

\* How a command ended is known once, and stays.
LEMMA EndKnownNext ==
    ASSUME CommandTypes, ChildKnown, EndKnown, ShellActions
    PROVE  EndKnown'
<1> USE DEF EndKnown
<1> DEFINE Tree == child # "running" => child' = child
<1>1. KillsTree => Tree
    BY DEF KillsTree
<1> HIDE DEF Tree
<1>2. CASE ExecRefused
    BY <1>2 DEF ExecRefused
<1>3. CASE ExecSpawns
    BY <1>3 DEF ExecSpawns
<1>4. ASSUME NEW s \in Streams, ReadsPipe(s) PROVE EndKnown'
    BY <1>4 DEF ReadsPipe, endVars
<1>5. ASSUME NEW s \in Streams, StreamEnds(s) PROVE EndKnown'
    BY <1>5 DEF StreamEnds, processVars, endVars, NextStream, Streams
<1>6. CASE Reaps
    BY <1>6 DEF Reaps, Verdict, ChildKnown, CommandTypes
<1>7. CASE WatchHalts \/ WatchExpires
    BY <1>7 DEF WatchHalts, WatchExpires, Awaiting
<1>8. CASE SavesOutput \/ SavingFails \/ ToolReplies
    BY <1>8 DEF SavesOutput, SavingFails, ToolReplies, processVars, endVars
<1>9. CASE ChildWrites \/ ChildEnds \/ ChildSlain \/ KeeperEnds
  <2>1. /\ outcome' = outcome /\ reading' = reading /\ halted' = halted /\ late' = late /\ broke' = broke
        /\ child = "running" \/ child' = child
      BY <1>9 DEF ChildWrites, ChildEnds, ChildSlain, KeeperEnds, endVars
  <2> QED BY <2>1
<1>10. CASE CleansUp
    BY <1>1, <1>10 DEF CleansUp, Tree, endVars
<1>11. CASE Halt
    BY <1>11 DEF Halt, processVars
<1>12. CASE RunDropped
    BY <1>12 DEF RunDropped, processVars, Awaiting
<1>13. ASSUME NEW s \in Streams, ListenerFails(s) PROVE EndKnown'
    BY <1>13 DEF ListenerFails, NextStream, Streams
<1> QED BY <1>2, <1>3, <1>4, <1>5, <1>6, <1>7, <1>8, <1>9, <1>10, <1>11, <1>12, <1>13 DEF ShellActions

\* What the capture shows is the end of what was given.
LEMMA CaptureShows ==
    ASSUME CommandTypes, CaptureKnows, ~command.plain
    PROVE  Shown = TruncateTail(Sanitized(given))
<1> DEFINE t == Sanitized(given)
<1>1. t \in Text /\ Whole(t)
  <2>1. given \in Text /\ IsUtf8(given)
      BY DEF CommandTypes
  <2> QED BY <2>1, SanitizedConcat, Utf8IsWhole, SanitizedWhole
<1>2. CaptureOf(capture, t)
    BY DEF CaptureKnows
<1> HIDE DEF t
<1>3. IsTruncated(capture) <=> Exceeds(t)
    BY <1>1, <1>2, TruncatedIs DEF CaptureOf
<1>4. capture.tail = LastBytes(t, 2 * ByteLimit)
    BY <1>2 DEF CaptureOf
<1>5. CASE Exceeds(t)
    BY <1>1, <1>3, <1>4, <1>5, KeptEndShows DEF Shown, t
<1>6. CASE ~Exceeds(t)
  <2>1. Len(t) <= 2 * ByteLimit /\ 2 * ByteLimit \in Nat
      BY <1>1, <1>6, CommandAssumption DEF Exceeds, Text
  <2>2. LastBytes(t, 2 * ByteLimit) = t
      BY <1>1, <2>1, LastBytesAll
  <2>3. TruncateTail(t) = t
      BY <1>6 DEF TruncateTail
  <2> QED BY <1>3, <1>4, <1>6, <2>2, <2>3 DEF Shown, t
<1> QED BY <1>5, <1>6 DEF t

\* A success is reported of exit code 0 alone.
LEMMA ToolSaysOk ==
    ASSUME CommandTypes, EndKnown, reading = "files", ToolSays = "ok"
    PROVE  outcome = "zero"
<1>1. outcome \in {"refused", "aborted", "callback", "timeout", "nonzero", "zero"} /\ (outcome = "aborted" => halted)
    BY DEF CommandTypes, EndKnown
<1> QED BY <1>1 DEF ToolSays

\* What is true of a reply, when it is made.
LEMMA Replied ==
    ASSUME CommandTypes, ChildKnown, CaptureKnows, EndKnown, ToolReplies
    PROVE  ShownIsTheEnd' /\ SuccessIsEarned'
<1>1. /\ reading = "files" /\ capture.writes = <<>> /\ given' = given /\ saved' = saved /\ command' = command
      /\ child' = child /\ script' = script /\ late' = late /\ broke' = broke
      /\ reply' = IF command.plain THEN [says |-> outcome, shows |-> given]
                  ELSE [says |-> ToolSays, shows |-> IF ToolSays = "error" THEN <<>> ELSE Shown]
    BY DEF ToolReplies, processVars, endVars
<1>2. ASSUME ~command.plain, reply'.says \notin {"unsaved", "error"}
      PROVE  /\ reply'.shows = TruncateTail(Sanitized(given))
             /\ FlattenSeq(saved) = IF Exceeds(Sanitized(given)) THEN Sanitized(given) ELSE <<>>
  <2>1. reply'.says = ToolSays
      BY <1>1, <1>2
  <2>2. reply'.shows = Shown
      BY <1>1, <1>2, <2>1
  <2>3. saved \o capture.writes = saved
      BY <1>1, ConcatEmptySeq DEF CommandTypes
  <2> QED BY <1>2, <2>2, <2>3, CaptureShows DEF CaptureKnows
<1>3. ShownIsTheEnd'
    BY <1>1, <1>2 DEF ShownIsTheEnd
<1>4. ASSUME reply'.says = "ok" PROVE outcome = "zero"
  <2>1. CASE command.plain
      BY <1>1, <1>4, <2>1 DEF CommandTypes
  <2>2. CASE ~command.plain
    <3>1. ToolSays = "ok"
        BY <1>1, <1>4, <2>2
    <3> QED BY <1>1, <3>1, ToolSaysOk
  <2> QED BY <2>1, <2>2
<1>5. SuccessIsEarned'
    BY <1>1, <1>4 DEF SuccessIsEarned, EndKnown, ChildKnown
<1> QED BY <1>3, <1>5

\* Nothing that a reply speaks of changes behind it.
LEMMA RepliesStand ==
    ASSUME CommandTypes, ChildKnown, ShellActions, ~ToolReplies, reading' = "over",
           ShownIsTheEnd, SuccessIsEarned
    PROVE  ShownIsTheEnd' /\ SuccessIsEarned'
<1> DEFINE Stands == /\ reading = "over" /\ reply' = reply /\ given' = given /\ saved' = saved /\ command' = command
                     /\ late' = late /\ broke' = broke
                     /\ child # "running" => child' = child /\ script' = script
<1>1. ASSUME Stands PROVE ShownIsTheEnd' /\ SuccessIsEarned'
  <2>1. ShownIsTheEnd'
      BY <1>1 DEF ShownIsTheEnd
  <2>2. SuccessIsEarned'
      BY <1>1 DEF SuccessIsEarned
  <2> QED BY <2>1, <2>2
<1>2. CASE SavingFails
    BY <1>2 DEF SavingFails, ShownIsTheEnd, SuccessIsEarned
<1>3. ~ExecRefused /\ ~ExecSpawns /\ ~Reaps /\ ~RunDropped /\ ~SavesOutput
    BY DEF ExecRefused, ExecSpawns, Reaps, RunDropped, SavesOutput
<1>4. \A s \in Streams : ~ReadsPipe(s) /\ ~StreamEnds(s) /\ ~ListenerFails(s)
    BY DEF ReadsPipe, StreamEnds, ListenerFails, NextStream, Streams
<1>5. ~WatchHalts /\ ~WatchExpires /\ ~Halt
    BY DEF WatchHalts, WatchExpires, Halt, Awaiting
<1>6. CASE ChildWrites \/ ChildEnds \/ ChildSlain \/ KeeperEnds
    BY <1>6, <1>1 DEF ChildWrites, ChildEnds, ChildSlain, KeeperEnds, endVars
<1>7. CASE CleansUp
  <2>1. child # "running" => child' = child /\ script' = script
      BY <1>7 DEF CleansUp, KillsTree
  <2> QED BY <1>1, <1>7, <2>1 DEF CleansUp, endVars
<1> HIDE DEF Stands
<1> QED BY <1>2, <1>3, <1>4, <1>5, <1>6, <1>7 DEF ShellActions

\* The invariant of a command.
LEMMA ShellInvInit == ShellInit => ShellInv
<1> SUFFICES ASSUME ShellInit PROVE ShellInv
    OBVIOUS
<1>1. ShownIsTheEnd /\ SuccessIsEarned
    BY DEF ShellInit, ShownIsTheEnd, SuccessIsEarned
<1> QED BY <1>1, CommandTypesInit DEF ShellInv

LEMMA ShellInvNext == ShellInv /\ [ShellNext]_shellVars => ShellInv'
<1> SUFFICES ASSUME ShellInv, [ShellNext]_shellVars PROVE ShellInv'
    OBVIOUS
<1>1. CASE UNCHANGED shellVars
  <2>1. CommandTypes' /\ ChildKnown'
      BY <1>1 DEF shellVars, ShellInv, CommandTypes, ChildKnown
  <2>2. BytesFollowed'
      BY <1>1, BytesStayPut DEF shellVars, ShellInv, BytesStay, PipesClosed
  <2>3. CaptureKnows'
      BY <1>1, CaptureStaysPut DEF shellVars, ShellInv, CaptureStays
  <2>4. EndKnown' /\ ShownIsTheEnd' /\ SuccessIsEarned'
      BY <1>1 DEF shellVars, ShellInv, EndKnown, ShownIsTheEnd, SuccessIsEarned
  <2> QED BY <2>1, <2>2, <2>3, <2>4 DEF ShellInv
<1>2. CASE ShellNext
  <2>1. /\ CommandTypes /\ ChildKnown /\ BytesFollowed /\ CaptureKnows /\ EndKnown /\ ShownIsTheEnd /\ SuccessIsEarned
        /\ ShellActions
      BY <1>2, ShellNextActs DEF ShellInv
  <2>2. CommandTypes' /\ ChildKnown' /\ BytesFollowed' /\ CaptureKnows' /\ EndKnown'
      BY <2>1, CommandTypesNext, ChildKnownNext, BytesFollowedNext, CaptureKnowsNext, EndKnownNext
  <2>3. ShownIsTheEnd' /\ SuccessIsEarned'
    <3>1. CASE reading' # "over"
        BY <3>1 DEF ShownIsTheEnd, SuccessIsEarned
    <3>2. CASE reading' = "over"
        BY <2>1, <3>2, Replied, RepliesStand
    <3> QED BY <3>1, <3>2
  <2> QED BY <2>2, <2>3 DEF ShellInv
<1> QED BY <1>1, <1>2

\* What the listeners heard, from where the bytes are.
LEMMA ShellInvHears == ShellInv => HeardInFull
<1> SUFFICES ASSUME ShellInv, ~broke PROVE IsPrefix(given, AllWritten) /\
                 (outcome \notin {"none", "refused"} /\ child # "none" => given = AllWritten)
    BY DEF HeardInFull
<1> USE DEF ShellInv
<1>1. /\ undecoded \in Text /\ given \in Text /\ \A s \in Streams : FlattenSeq(pipe[s]) \in Text
      /\ Utf8Prefix(written["stdout"]) \in Text /\ Utf8Prefix(written["stderr"]) \in Text /\ AllWritten \in Text
  <2>1. /\ undecoded \in Text /\ given \in Text /\ written["stdout"] \in Text /\ written["stderr"] \in Text
        /\ \A s \in Streams : pipe[s] \in Seq(Text)
      BY DEF CommandTypes, Streams
  <2>2. \A s \in Streams : FlattenSeq(pipe[s]) \in Text
      BY <2>1, FlattenText DEF Text
  <2> QED BY <2>1, <2>2, Utf8Facts, TwoTexts DEF AllWritten
<1>2. ASSUME IsPrefix(given, Utf8Prefix(written["stdout"])) PROVE IsPrefix(given, AllWritten)
    BY <1>1, <1>2, PrefixOfConcat, PrefixThrough DEF AllWritten
<1>3. ASSUME NEW s \in Streams, NEW g \in Text, Taken(g, s) PROVE IsPrefix(g, Utf8Prefix(written[s]))
    BY <1>1, <1>3, TakenShows DEF Taken
<1>4. outcome \notin {"none", "refused"} /\ child # "none" => given = AllWritten
    BY DEF EndKnown, BytesFollowed
<1>5. CASE child = "none"
  <2>1. given = <<>> /\ <<>> \o AllWritten = AllWritten
      BY <1>1, <1>5, ConcatEmptySeq DEF ChildKnown, Text
  <2> QED BY <1>1, <1>4, <2>1, PrefixOfConcat
<1>6. CASE child # "none" /\ reading = "stdout"
    BY <1>1, <1>2, <1>3, <1>4, <1>6 DEF BytesFollowed, Streams
<1>7. CASE reading = "stderr"
  <2>1. PICK g \in Text : given = Utf8Prefix(written["stdout"]) \o g /\ Taken(g, "stderr")
      BY <1>7 DEF BytesFollowed
  <2>2. IsPrefix(g, Utf8Prefix(written["stderr"]))
      BY <1>3, <2>1 DEF Streams
  <2> QED BY <1>1, <1>4, <2>1, <2>2, PrefixBehind DEF AllWritten
<1>8. CASE child # "none" /\ reading \in {"reap", "files", "over"}
    BY <1>1, <1>4, <1>8, PrefixOfItself DEF BytesFollowed
<1>9. CASE reading = "dropped"
    BY <1>2, <1>4, <1>9 DEF BytesFollowed
<1> QED BY <1>5, <1>6, <1>7, <1>8, <1>9 DEF CommandTypes, ChildKnown

\* Whatever a command writes, in whatever pieces, and whatever kills, cancels or delays it:
\* what the tool shows is the end of everything that was given, although the capture keeps
\* twice what it shows and no more; the file has all of it; each stream is heard in order
\* and in full, no character cut by the reads; and a reported success was one.
THEOREM OutputIsCaptured == ShellSpec => []CaptureHolds
<1>1. ShellInit => ShellInv
    BY ShellInvInit
<1>2. ShellInv /\ [ShellNext]_shellVars => ShellInv'
    BY ShellInvNext
<1>3. ShellInv => CaptureHolds
    BY ShellInvHears DEF ShellInv, CaptureHolds
<1> QED BY <1>1, <1>2, <1>3, PTL DEF ShellSpec
===============================================================================
