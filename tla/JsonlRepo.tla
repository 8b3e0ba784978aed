------------------------------ MODULE JsonlRepo ------------------------------
(***************************************************************************)
(* The repository of JSONL sessions (session/jsonl/repo.rs): creates and   *)
(* forks race for a destination, a working directory and an id, under      *)
(* claims that live in the process; deletes and listings come in between.  *)
(* What is inside a session file is JsonlStorage.                          *)
(***************************************************************************)
EXTENDS Naturals, FiniteSets

CONSTANTS Creates, Forks,        \* the calls that make a session
          Destination(_),        \* what each of them asks for
          MaxRestarts            \* bound

Makers == Creates \cup Forks
Wanted == {Destination(m) : m \in Makers}

ASSUME MakersAssumption == Creates \cap Forks = {} /\ MaxRestarts \in Nat

VARIABLES making,      \* of each call: new, claimed, free, writing, written, made, over
          claims,      \* active_create_destinations
          files,       \* of each call, the file it made: none, empty, or with its header
          listing,     \* a caller of list: stage, the files to read, the sessions found
          kept,        \* the sessions there from the start of the listing on
          restarts

repoVars == <<making, claims, files, listing, kept, restarts>>

NoListing == [stage |-> "none", todo |-> {}, found |-> {}]

RepoInit ==
    /\ making = [m \in Makers |-> "new"] /\ claims = {}
    /\ files = [m \in Makers |-> "none"]
    /\ listing = NoListing /\ kept = {} /\ restarts = 0

Advance(m, from, to) == making[m] = from /\ making' = [making EXCEPT ![m] = to]

\* Mutant: the claim is made without a look at those there are.
ClaimAnyway(m) ==
    /\ Advance(m, "new", "claimed")
    /\ claims' = claims \cup {Destination(m)}
    /\ UNCHANGED <<files, listing, kept, restarts>>

\* claim_create_destination: a destination that is claimed is refused at once.
Claim(m) ==
    /\ Advance(m, "new", IF Destination(m) \in claims THEN "over" ELSE "claimed")
    /\ claims' = claims \cup {Destination(m)}
    /\ UNCHANGED <<files, listing, kept, restarts>>

Release(m) == claims' = claims \ {Destination(m)}

\* The names that end in the id are looked for; what is in the file does not matter.
Exists(d) == \E m \in Makers : files[m] # "none" /\ Destination(m) = d

\* prepare_create: session_id_exists, or an error of the file system.
CheckFree(m) ==
    \/ /\ ~Exists(Destination(m)) /\ Advance(m, "claimed", "free")
       /\ UNCHANGED <<claims, files, listing, kept, restarts>>
    \/ /\ Advance(m, "claimed", "over") /\ Release(m)
       /\ UNCHANGED <<files, listing, kept, restarts>>

\* A create writes the header into the file itself, which is empty first; a fork
\* works beside it.
StartFile(m) ==
    /\ Advance(m, "free", "writing")
    /\ files' = IF m \in Creates THEN [files EXCEPT ![m] = "empty"] ELSE files
    /\ UNCHANGED <<claims, listing, kept, restarts>>

\* The header is there; a fork is renamed into its place.
FinishFile(m) ==
    /\ Advance(m, "writing", "written")
    /\ files' = [files EXCEPT ![m] = "header"]
    /\ UNCHANGED <<claims, listing, kept, restarts>>

\* An error of the file system, which leaves what is in the directory.
MakeFails(m) ==
    /\ making[m] \in {"free", "writing", "written"}
    /\ making' = [making EXCEPT ![m] = "over"] /\ Release(m)
    /\ UNCHANGED <<files, listing, kept, restarts>>

Made(m) ==
    /\ Advance(m, "written", "made") /\ Release(m)
    /\ UNCHANGED <<files, listing, kept, restarts>>

\* The caller's future is dropped: nobody removes its claim, and a write that has
\* started goes on.
MakeDropped(m) ==
    /\ making[m] \in {"claimed", "free", "writing", "written"}
    /\ making' = [making EXCEPT ![m] = "over"]
    /\ files' = IF files[m] = "empty" THEN [files EXCEPT ![m] = "header"] ELSE files
    /\ UNCHANGED <<claims, listing, kept, restarts>>

\* delete, of a session that somebody has opened or listed.
DeleteSession(m) ==
    /\ files[m] = "header"
    /\ files' = [files EXCEPT ![m] = "none"]
    /\ kept' = kept \ {m}
    /\ UNCHANGED <<making, claims, listing, restarts>>

\* list: the names of a directory, then the first line of each file.
StartListing ==
    /\ listing.stage = "none"
    /\ listing' = [stage |-> "reading", found |-> {}, todo |-> {m \in Makers : files[m] # "none"}]
    /\ kept' = {m \in Makers : files[m] = "header"}
    /\ UNCHANGED <<making, claims, files, restarts>>

\* Mutant: a file without a header ends the listing.
HeaderOrEnd(m) ==
    IF files[m] = "header"
    THEN [listing EXCEPT !.todo = @ \ {m}, !.found = @ \cup {m}]
    ELSE [listing EXCEPT !.todo = {}]

\* A file without a header is passed over.
HeaderOf(m) ==
    [listing EXCEPT !.todo = @ \ {m},
                    !.found = IF files[m] = "header" THEN @ \cup {m} ELSE @]

\* A file that is gone meanwhile is an error of the whole listing.
ListFile(m) ==
    /\ listing.stage = "reading" /\ m \in listing.todo
    /\ listing' = IF files[m] = "none" THEN [NoListing EXCEPT !.stage = "failed"] ELSE HeaderOf(m)
    /\ UNCHANGED <<making, claims, files, kept, restarts>>

EndListing ==
    /\ listing.stage = "reading" /\ listing.todo = {}
    /\ listing' = [listing EXCEPT !.stage = "listed"]
    /\ UNCHANGED <<making, claims, files, kept, restarts>>

\* The process ends and another one starts: the claims are gone, the files are not.
Restart ==
    /\ restarts < MaxRestarts /\ restarts' = restarts + 1
    /\ claims' = {} /\ listing' = NoListing /\ kept' = {}
    /\ making' = [m \in Makers |-> IF making[m] \in {"new", "made"} THEN making[m] ELSE "over"]
    /\ UNCHANGED files

RepoNext ==
    \/ \E m \in Makers :
         \/ Claim(m) \/ CheckFree(m) \/ StartFile(m) \/ FinishFile(m) \/ MakeFails(m)
         \/ Made(m) \/ MakeDropped(m) \/ DeleteSession(m) \/ ListFile(m)
    \/ StartListing \/ EndListing \/ Restart

RepoSpec == RepoInit /\ [][RepoNext]_repoVars

(******************************** Properties *******************************)

\* "Prevents same-process create and fork races for one logical destination": there
\* are never two session files for one destination, whatever fails, is dropped, is
\* deleted or dies between the look at the directory and the file.
OneSession ==
    \A m, n \in Makers :
        (files[m] # "none" /\ files[n] # "none" /\ Destination(m) = Destination(n)) => m = n

\* A listing that succeeds has every session that was there throughout, whatever
\* creates and deletes do meanwhile and whatever broken files lie in the directory.
ListingComplete == listing.stage = "listed" => kept \subseteq listing.found
=============================================================================
