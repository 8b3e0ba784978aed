---------------------------- MODULE FileMutations ----------------------------
(***************************************************************************)
(* The edit and write tools and the queue that serializes them             *)
(* (src/agent/harness/tools): a registry maps the canonical path of a file *)
(* to a lock that its mutations share by reference count; the last user    *)
(* drops the entry, so the next mutation makes a new lock.                 *)
(***************************************************************************)
EXTENDS Naturals, Sequences, FiniteSets

CONSTANTS Edits, Writes,      \* the calls of either tool
          Paths,
          FileOf(_),          \* the canonical path: links make it many to one
          Namings,            \* which paths the calls may name: functions from calls to paths
          Missing,            \* the files that do not exist yet
          NoCall

Calls == Edits \cup Writes

\* A file that is not there yet is named by its canonical path only: through a link
\* among its parents, or a dangling one, it has a second key (see README).
ASSUME PathsAssumption ==
    /\ Edits \cap Writes = {} /\ NoCall \notin Calls /\ NoCall \notin Seq(Calls)
    /\ IsFiniteSet(Calls)
    /\ \A p \in Paths : FileOf(p) \in Paths /\ FileOf(FileOf(p)) = FileOf(p)
    /\ Namings \subseteq [Calls -> {p \in Paths : FileOf(p) \in Missing => FileOf(p) = p}]

VARIABLES path,        \* the path each call names
          stage,       \* of each call, in the order of with_file_mutation_queue
          key,         \* the key of each call, once it has one
          lock,        \* the lock a call has cloned, named for the call that made it
          queues,      \* the registry: the lock of each key, or NoCall
          seen,        \* what an edit has read
          text,        \* a file's contents, the mutations it shows, or NoCall if there is no file
          serial       \* what it would hold if every mutation had happened at once

mutationVars == <<path, stage, key, lock, queues, seen, text, serial>>

Target(c) == FileOf(path[c])

MutationInit ==
    /\ path \in Namings
    /\ stage = [c \in Calls |-> "new"]
    /\ key = path
    /\ lock = [c \in Calls |-> NoCall]
    /\ queues = [p \in Paths |-> NoCall]
    /\ seen = [c \in Calls |-> <<>>]
    /\ text = [p \in Paths |-> IF p \in Missing THEN NoCall ELSE <<>>]
    /\ serial = text

Moves(c, from, to) == stage[c] = from /\ stage' = [stage EXCEPT ![c] = to]

\* mutation_queue_key: the canonical path, or the path itself where there is no file.
FindKey(c) ==
    /\ Moves(c, "new", "keyed")
    /\ key' = [key EXCEPT ![c] = IF text[Target(c)] = NoCall THEN path[c] ELSE Target(c)]
    /\ UNCHANGED <<path, lock, queues, seen, text, serial>>

\* A call clones the lock of its key, or puts a new one there.
CloneLock(c) ==
    /\ Moves(c, "keyed", "waiting")
    /\ LET shared == IF queues[key[c]] = NoCall THEN c ELSE queues[key[c]] IN
       /\ lock' = [lock EXCEPT ![c] = shared]
       /\ queues' = [queues EXCEPT ![key[c]] = shared]
    /\ UNCHANGED <<path, key, seen, text, serial>>

\* tokio's Mutex: a call that holds the lock keeps it until it drops the guard.
Holding == {"operating", "read", "writing", "operated", "unlocking"}

TakeLock(c) ==
    /\ Moves(c, "waiting", "operating")
    /\ \A d \in Calls : stage[d] \in Holding => lock[d] # lock[c]
    /\ UNCHANGED <<path, key, lock, queues, seen, text, serial>>

\* The operation ends with an error before it writes: cancelled, not a file, no such
\* text, a file that is not there.
OperationFails(c) ==
    /\ stage[c] \in {"operating", "read"}
    /\ stage' = [stage EXCEPT ![c] = "operated"]
    /\ UNCHANGED <<path, key, lock, queues, seen, text, serial>>

ReadForEdit(c) ==
    /\ c \in Edits /\ text[Target(c)] # NoCall
    /\ Moves(c, "operating", "read")
    /\ seen' = [seen EXCEPT ![c] = text[Target(c)]]
    /\ UNCHANGED <<path, key, lock, queues, text, serial>>

\* write_file makes the file, or truncates the one that is there, first.
StartWrite(c) ==
    /\ Moves(c, IF c \in Edits THEN "read" ELSE "operating", "writing")
    /\ text' = [text EXCEPT ![Target(c)] = <<>>]
    /\ serial' = [serial EXCEPT ![Target(c)] = IF @ = NoCall THEN <<>> ELSE @]
    /\ UNCHANGED <<path, key, lock, queues, seen>>

\* What a mutation makes of what a file holds.
Mutated(held, c) == IF c \in Edits THEN Append(held, c) ELSE <<c>>

\* The write is done, whatever the call then says of it: a signal that is cancelled
\* meanwhile makes it an "Operation aborted".
EndWrite(c) ==
    /\ Moves(c, "writing", "operated")
    /\ text' = [text EXCEPT ![Target(c)] = Mutated(seen[c], c)]
    /\ serial' = [serial EXCEPT ![Target(c)] = Mutated(@, c)]
    /\ UNCHANGED <<path, key, lock, queues, seen>>

\* The disk is full: what was there is gone.
WriteFails(c) ==
    /\ Moves(c, "writing", "operated")
    /\ serial' = [serial EXCEPT ![Target(c)] = <<>>]
    /\ UNCHANGED <<path, key, lock, queues, seen, text>>

\* Arc::strong_count: who holds a clone of a lock, beside the registry.
Cloned == Holding \cup {"waiting", "leaving"}
Holders(l) == {c \in Calls : stage[c] \in Cloned /\ lock[c] = l}

\* Mutant: the entry goes while another call still waits.
LastUserOrTwo(c) == queues[key[c]] # NoCall /\ Cardinality(Holders(queues[key[c]])) <= 2

\* The count is two: the registry and the call itself.  The entry that is looked at is
\* that of the key.
LastUser(c) == queues[key[c]] # NoCall /\ Cardinality(Holders(queues[key[c]])) = 1

LeaveRegistry(c) ==
    /\ Moves(c, "operated", "unlocking")
    /\ queues' = IF LastUser(c) THEN [queues EXCEPT ![key[c]] = NoCall] ELSE queues
    /\ UNCHANGED <<path, key, lock, seen, text, serial>>

\* The guard is dropped before the clone of the lock.
Unlock(c) ==
    /\ Moves(c, "unlocking", "leaving")
    /\ UNCHANGED <<path, key, lock, queues, seen, text, serial>>

DropClone(c) ==
    /\ Moves(c, "leaving", "gone")
    /\ UNCHANGED <<path, key, lock, queues, seen, text, serial>>

\* The future of a call is dropped, with its run, before it writes: its guard and
\* clone go, and the registry keeps the entry.
CallDropped(c) ==
    /\ stage[c] \in {"keyed", "waiting", "operating", "read"}
    /\ stage' = [stage EXCEPT ![c] = "gone"]
    /\ UNCHANGED <<path, key, lock, queues, seen, text, serial>>

Mutates(c) ==
    \/ FindKey(c) \/ CloneLock(c) \/ TakeLock(c) \/ OperationFails(c) \/ ReadForEdit(c)
    \/ StartWrite(c) \/ EndWrite(c) \/ WriteFails(c) \/ LeaveRegistry(c) \/ Unlock(c) \/ DropClone(c)

MutationNext == \E c \in Calls : Mutates(c) \/ CallDropped(c)

MutationSpec == MutationInit /\ [][MutationNext]_mutationVars

(******************************** Properties *******************************)

Operating == {"operating", "read", "writing"}

\* "Serialize file mutations targeting the same environment and canonical path":
\* at most one call is between its lock and the end of its operation, whichever of
\* the locks that the key has had over time it holds.
OneMutator ==
    \A c, d \in Calls :
        (c # d /\ Target(c) = Target(d)) => ~(stage[c] \in Operating /\ stage[d] \in Operating)

\* No edit is lost: outside of a write, a file holds what its mutations make of it one
\* after another, each edit on top of all of those before it.
EditsNotLost ==
    \A f \in Paths :
        (\A c \in Calls : Target(c) = f => stage[c] # "writing") => text[f] = serial[f]
=============================================================================
