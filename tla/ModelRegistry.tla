---------------------------- MODULE ModelRegistry ----------------------------
(***************************************************************************)
(* The registry's refreshes of one provider's catalogue (models.rs): each  *)
(* takes a generation and a controller, restores what the models store     *)
(* has, fetches, and publishes to the store and to the provider, while     *)
(* other refreshes supersede it and the provider is replaced or deleted.   *)
(* Catalogues are numbered in the order in which they were fetched.        *)
(***************************************************************************)
EXTENDS Integers

CONSTANTS ListRefreshes,        \* calls of refresh
          Offline,           \* those that allow no network
          MaxObjects         \* bound: providers ever registered under the id

VARIABLES generation,        \* of refresh_states, and the name of its controller
          registered,        \* the provider in the map, 0 if none
          held,              \* the catalogue each provider lists, 0 for the baseline
          shelf,             \* the catalogue in the models store, 0 for none
          newest,            \* the last catalogue that was fetched
          refresh,
          quits,             \* whose signal is cancelled, of one at most
          owner,             \* how far a set_provider or delete_provider is
          legacy,            \* whether a Radius credential brings a catalogue of its own
          overtook            \* history: a publication acted on a check that no longer held

registryVars ==
    <<generation, registered, held, shelf, newest, refresh, quits, owner, legacy, overtook>>

Objects == 1..MaxObjects

\* The catalogue that a legacy credential brings is older than any that is fetched.
LegacyCatalogue == 1

Unstarted ==
    [at |-> "out", gen |-> 0, ctl |-> 0, object |-> 0, phase |-> "offline", network |-> FALSE,
     known |-> TRUE, value |-> 0, persists |-> FALSE, checked |-> 0, cut |-> FALSE]

RegistryInit ==
    /\ generation = 0 /\ registered = 1 /\ newest = LegacyCatalogue
    /\ shelf = 0 /\ legacy \in BOOLEAN /\ held = [o \in Objects |-> 0]
    /\ refresh = [r \in ListRefreshes |-> Unstarted]
    /\ quits = {} /\ owner = "idle" /\ overtook = FALSE

GoesTo(r, stage) == refresh' = [refresh EXCEPT ![r].at = stage]
EndsRefresh(r)        == refresh' = [refresh EXCEPT ![r] = [Unstarted EXCEPT !.at = "over"]]
RefreshOnly    == UNCHANGED <<generation, registered, held, shelf, newest, quits, owner, legacy, overtook>>

(***************************** Its generation ******************************)

\* refresh lists the providers first, unless its signal is cancelled.
ListsProviders(r) ==
    /\ refresh[r].at = "out" /\ RefreshOnly
    /\ IF r \in quits \/ registered = 0 THEN EndsRefresh(r)
       ELSE refresh' = [refresh EXCEPT ![r].at = "listed", ![r].object = registered,
                                       ![r].network = r \notin Offline]

\* supersede_provider_refresh: the new controller goes by its generation, and the one
\* before is cancelled.
TakesGeneration(r) ==
    /\ refresh[r].at = "listed"
    /\ generation' = generation + 1
    /\ refresh' = [refresh EXCEPT ![r].at = "numbered", ![r].gen = generation + 1]
    /\ UNCHANGED <<registered, held, shelf, newest, quits, owner, legacy, overtook>>

\* In another section of the lock.
TakesController(r) ==
    /\ refresh[r].at = "numbered" /\ RefreshOnly
    /\ refresh' = [refresh EXCEPT ![r].at = "reading", ![r].ctl = generation]

\* Two tasks hand a cancellation on to the signal of the refresh.
HandsOn(r) ==
    /\ refresh[r].at \notin {"out", "listed", "numbered", "over"} /\ ~refresh[r].cut
    /\ r \in quits \/ refresh[r].ctl # generation
    /\ refresh' = [refresh EXCEPT ![r].cut = TRUE] /\ RefreshOnly

\* The select drops the operation at whatever it awaits.
IsDropped(r) ==
    /\ refresh[r].at \in {"reading", "phase", "resolving", "fetching", "writing"} /\ refresh[r].cut
    /\ EndsRefresh(r) /\ RefreshOnly

(******************************** Its phases *******************************)

\* A failed read ends the refresh after the offline phase, which then knows no credential.
ReadsCredential(r) ==
    /\ refresh[r].at = "reading" /\ RefreshOnly
    /\ \/ GoesTo(r, "phase")
       \/ refresh' = [refresh EXCEPT ![r].at = "phase", ![r].network = FALSE, ![r].known = FALSE]

\* Where a phase goes once what was stored is restored.
Onward(r) ==
    CASE refresh[r].phase = "offline" /\ refresh[r].network /\ ~refresh[r].cut -> GoesTo(r, "resolving")
      [] refresh[r].phase = "online" /\ ~refresh[r].cut -> GoesTo(r, "fetching")
      [] OTHER -> EndsRefresh(r)

Publishing(r, value, persists) ==
    refresh' = [refresh EXCEPT ![r].at = "publishing", ![r].value = value, ![r].persists = persists]

\* A phase reads the store, and the provider restores what it has or, if that is nothing,
\* imports what came with the credential.
ReadsStore(r) ==
    /\ refresh[r].at = "phase" /\ RefreshOnly
    /\ \/ IF shelf # 0 THEN Publishing(r, shelf, FALSE)
          ELSE IF legacy /\ refresh[r].known THEN Publishing(r, LegacyCatalogue, TRUE)
          ELSE Onward(r)
       \/ EndsRefresh(r)

ResolvesCredential(r) ==
    /\ refresh[r].at = "resolving" /\ RefreshOnly
    /\ \/ refresh' = [refresh EXCEPT ![r].at = "phase", ![r].phase = "online"]
       \/ EndsRefresh(r)

Fetches(r) ==
    /\ refresh[r].at = "fetching"
    /\ UNCHANGED <<generation, registered, held, shelf, quits, owner, legacy, overtook>>
    /\ \/ /\ newest' = newest + 1
          /\ refresh' = [refresh EXCEPT ![r].at = "publishing", ![r].phase = "fetched",
                                        ![r].value = newest + 1, ![r].persists = TRUE]
       \/ EndsRefresh(r) /\ UNCHANGED newest

(******************************* Publication *******************************)

IsUncancelled(r) == ~refresh[r].cut
IsCurrent(r)     == ~refresh[r].cut /\ refresh[r].gen = generation

\* Only the offline phase, which ignores the outcome, is followed by more.
Unpublished(r) == IF refresh[r].phase = "offline" THEN Onward(r) ELSE EndsRefresh(r)

Checked(r, stage) == refresh' = [refresh EXCEPT ![r].at = stage, ![r].checked = generation]

ChecksFirst(r) ==
    /\ refresh[r].at = "publishing" /\ RefreshOnly
    /\ IF ~IsCurrent(r) THEN Unpublished(r)
       ELSE Checked(r, IF refresh[r].persists THEN "writing" ELSE "updating")

\* The store's write is awaited, after the lock of the check was given up.
WritesStore(r) ==
    /\ refresh[r].at = "writing"
    /\ UNCHANGED <<generation, registered, held, newest, quits, owner, legacy>>
    /\ \/ /\ shelf' = refresh[r].value /\ GoesTo(r, "written")
          /\ overtook' = (overtook \/ refresh[r].checked # generation)
       \/ EndsRefresh(r) /\ UNCHANGED <<shelf, overtook>>

ChecksAgain(r) ==
    /\ refresh[r].at = "written" /\ RefreshOnly
    /\ IF ~IsCurrent(r) THEN Unpublished(r) ELSE Checked(r, "updating")

Updates(r) ==
    /\ refresh[r].at = "updating" /\ held' = [held EXCEPT ![refresh[r].object] = refresh[r].value]
    /\ overtook' = (overtook \/ refresh[r].checked # generation)
    /\ IF refresh[r].phase = "fetched" THEN EndsRefresh(r) ELSE Onward(r)
    /\ UNCHANGED <<generation, registered, shelf, newest, quits, owner, legacy>>

(********************************* Others **********************************)

SignalCancelled(r) ==
    /\ quits = {} /\ owner = "idle" /\ refresh[r].at # "over" /\ quits' = {r}
    /\ UNCHANGED <<generation, registered, held, shelf, newest, refresh, owner, legacy, overtook>>

\* set_provider and delete_provider supersede, and change the map under another lock.
OwnerSupersedes ==
    /\ owner = "idle" /\ quits = {} /\ registered < MaxObjects
    /\ generation' = generation + 1 /\ owner' \in {"sets", "deletes"}
    /\ UNCHANGED <<registered, held, shelf, newest, refresh, quits, legacy, overtook>>

OwnerChanges ==
    /\ owner \in {"sets", "deletes"} /\ owner' = "over"
    /\ registered' = IF owner = "sets" THEN registered + 1 ELSE 0
    /\ UNCHANGED <<generation, held, shelf, newest, refresh, quits, legacy, overtook>>

\* Steps that wait for nobody.
RefreshSteps(r) ==
    \/ TakesGeneration(r) \/ TakesController(r) \/ HandsOn(r) \/ IsDropped(r)
    \/ ChecksFirst(r) \/ ChecksAgain(r) \/ Updates(r)

\* What depends on a store, a credential or a provider may take for ever.
Awaited(r) ==
    ReadsCredential(r) \/ ReadsStore(r) \/ ResolvesCredential(r) \/ Fetches(r) \/ WritesStore(r)

RegistryNext ==
    \/ \E r \in ListRefreshes :
           ListsProviders(r) \/ RefreshSteps(r) \/ Awaited(r) \/ SignalCancelled(r)
    \/ OwnerSupersedes \/ OwnerChanges

\* Of the steps that wait for nobody there are finitely many.
RegistryFairness == WF_registryVars(\E r \in ListRefreshes : RefreshSteps(r))

RegistrySpec == RegistryInit /\ [][RegistryNext]_registryVars /\ RegistryFairness

(******************************** Properties *******************************)

\* Neither the store nor a provider goes back to an older catalogue, and no provider is
\* ahead of the store, unless a publication was overtaken between its check and its act
\* (the check and the act of publish are not one step).
CatalogueKept ==
    [][~overtook' =>
          /\ shelf <= shelf'
          /\ \A o \in Objects : held[o] <= held'[o] /\ held'[o] <= shelf']_registryVars

\* A refresh whose caller gives up, or that is superseded once it has its controller, ends
\* whatever the store and the provider do.
RefreshesSettle ==
    \A r \in ListRefreshes :
        (/\ refresh[r].at \notin {"out", "listed", "numbered"}
         /\ r \in quits \/ refresh[r].ctl # generation) ~> refresh[r].at = "over"
=============================================================================
