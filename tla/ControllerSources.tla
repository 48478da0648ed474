-------------------------- MODULE ControllerSources --------------------------
(***************************************************************************)
(* Watches, accepted objects and definition refreshes                      *)
(* (dsx-workload-exporter/pkg/controller/sources.go, runtime.go).  One     *)
(* action per critical section of stateMu.  A watch is                     *)
(* [full, ready, err, listing], where listing says that its reflector owes *)
(* a list (external); its slot is "current" or "replacement".  What a late *)
(* event of a watch that was replaced does is nothing.                     *)
(***************************************************************************)
EXTENDS ControllerState

Slots == {"current", "replacement"}
WatchIn(g, slot) == IF slot = "current" THEN watches[g] ELSE replacements[g]

-------------------------------------------------------------------------------
(* ensureWatch and recordWatchFailure *)

NewWatch(full) == [full |-> full, ready |-> FALSE, err |-> "none", listing |-> TRUE]

\* Whether ensureWatch starts a watch, and in which slot.
StartsWatch(g) == watches[g] = None
StartsReplacement(g, full) ==
  watches[g] # None /\ full /\ ~watches[g].full /\ replacements[g] = None

\* scope tells the requests of the sources worker from those of the jobs.
EnsureWatch(g, full, scope) ==
  IF Unmapped(g)
    THEN /\ watchFailures' = watchFailures \cup {<<g, scope>>}
         /\ UNCHANGED <<watches, replacements, health>>
    ELSE /\ watchFailures' = {f \in watchFailures : f[1] # g}
         /\ watches' = IF StartsWatch(g)
                         THEN [watches EXCEPT ![g] = NewWatch(full)] ELSE watches
         /\ replacements' = IF StartsReplacement(g, full)
                              THEN [replacements EXCEPT ![g] = NewWatch(full)] ELSE replacements
         /\ health' = IF StartsWatch(g) \/ StartsReplacement(g, full)
                        THEN [health EXCEPT ![g] = [synced |-> FALSE, err |-> "none"]] ELSE health

-------------------------------------------------------------------------------
(* Health: updateWatchHealth *)

\* Fault: the old watch publishes its health while a replacement is pending.
PublishAnyHealth(g, slot, w) ==
  health' = IF slot \in Slots THEN [health EXCEPT ![g] = [synced |-> w.ready, err |-> w.err]] ELSE health

\* Publishes the health of watch w in the slot, unless a replacement is pending.
PublishHealth(g, slot, w) ==
  health' = IF slot = "replacement" \/ replacements[g] = None
              THEN [health EXCEPT ![g] = [synced |-> w.ready, err |-> w.err]] ELSE health

SetWatch(g, slot, w) ==
  IF slot = "current"
    THEN watches' = [watches EXCEPT ![g] = w] /\ UNCHANGED replacements
    ELSE replacements' = [replacements EXCEPT ![g] = w] /\ UNCHANGED watches

RecoveryWork == {Rescan} \cup {RootJob(u) : u \in RootUIDs}

\* listResource, watchResource or its goroutine sees an error: setWatchHealth.
WatchFails(g, slot, err) ==
  LET w == [WatchIn(g, slot) EXCEPT !.err = err, !.listing = TRUE]
  IN  /\ failuresLeft' = failuresLeft - 1
      /\ SetWatch(g, slot, w) /\ PublishHealth(g, slot, w)
      /\ UNCHANGED <<scenario, unmapped, inventory, inventoryLeft, watchFailures, pos,
                     definitionVars, membershipVars, dirty, job, storeVars>>

\* recordWatchStart without error: a streaming list, which recovers the watch
\* before it lists again, or a watch resumed from the last resource version.
WatchStarts(g, slot, listing) ==
  LET w == [WatchIn(g, slot) EXCEPT !.err = "none", !.listing = listing]
  IN  /\ ~listing => WatchIn(g, slot).ready
      /\ SetWatch(g, slot, w) /\ PublishHealth(g, slot, w)
      /\ dirty' = dirty \cup RecoveryWork
      /\ UNCHANGED <<environmentVars, watchFailures, pos, definitionVars, membershipVars,
                     job, storeVars>>

-------------------------------------------------------------------------------
(* Accepting objects *)

Replaced(old, new) == old # None /\ (new = None \/ old.inc # new.inc)

OwnershipChanged(old, new) ==
  old = None \/ new = None \/ old.inc # new.inc \/ old.owner # new.owner

\* queueObjectChange.
Affected(g, o, old, new) ==
  LET uid(s) == <<o, s.inc>>
      ancestor == \/ g # PodGVK
                  \/ \E s \in {old, new} \ {None} : uid(s) \in ancestorPods
      moved == old # None /\ new # None /\ ObjectSelected(old) # ObjectSelected(new)
  IN  EnqueuePod(g, o, old) \cup EnqueuePod(g, o, new)
        \cup (IF Replaced(old, new)
                THEN {SelectedJob(g, u) : u \in {v \in {uid(old)} : Tracked(g, v)}}
                       \cup EnqueueRootAndMembers(uid(old))
                ELSE {})
        \cup (IF /\ new # None /\ ShouldDiscover(defs, g)
                 /\ ~Tracked(g, uid(new)) \/ OwnershipChanged(old, new)
                THEN {SelectedJob(g, uid(new))} ELSE {})
        \cup (IF new # None /\ roots[uid(new)] # None
                THEN {RootJob(uid(new))} \cup {PodJob(p) : p \in roots[uid(new)].pods} ELSE {})
        \cup (IF (OwnershipChanged(old, new) /\ ancestor) \/ moved THEN {Rescan} ELSE {})

\* applyWatchEvent: ADDED, MODIFIED or DELETED brings the next state of the life.
WatchEvent(g, o) ==
  LET old == Object(g, o)
      new == life[o][pos[<<g, o>>] + 1]
  IN  /\ KindOfObject[o] = KindOf[g]
      /\ watches[g] # None /\ watches[g].ready
      /\ pos[<<g, o>>] < Len(life[o])
      /\ pos' = [pos EXCEPT ![<<g, o>>] = @ + 1]
      /\ ancestorPods' = IF Replaced(old, new) THEN ancestorPods \ {<<o, old.inc>>} ELSE ancestorPods
      /\ dirty' = dirty \cup Affected(g, o, old, new)
      /\ UNCHANGED <<environmentVars, watchVars, definitionVars, roots, podRoots, selectedRoots,
                     job, storeVars>>

\* external: the watch's reflector is to list again.
Owes(g, slot) == WatchIn(g, slot) # None /\ WatchIn(g, slot).listing

\* reflectorStore.Replace: a complete list, in which every object of the kind is
\* at position at[o].  The first list of a new watch may be older than the cache.
Replace(g, slot, at) ==
  LET same == {o \in Objects : KindOfObject[o] = KindOf[g]}
      old(o) == Object(g, o)
      new(o) == life[o][at[o]]
      gone == {o \in same : Replaced(old(o), new(o))}
      w == [WatchIn(g, slot) EXCEPT !.ready = TRUE, !.err = "none", !.listing = FALSE]
  IN  /\ slot = "current" => \A o \in same : at[o] >= pos[<<g, o>>]
      /\ watches' = [watches EXCEPT ![g] = w]
      /\ replacements' = IF slot = "replacement" THEN [replacements EXCEPT ![g] = None]
                                                 ELSE replacements
      /\ health' = IF replacements'[g] = None
                     THEN [health EXCEPT ![g] = [synced |-> TRUE, err |-> "none"]] ELSE health
      /\ pos' = [k \in Keys |-> IF k[1] = g THEN at[k[2]] ELSE pos[k]]
      /\ ancestorPods' = ancestorPods \ {<<o, old(o).inc>> : o \in gone}
      /\ dirty' = dirty \cup {Rescan}
           \cup (UNION {Affected(g, o, old(o), new(o)) : o \in {p \in same : old(p) # None \/ new(p) # None}})
           \cup IF WatchIn(g, slot).err # "none" THEN RecoveryWork ELSE {}
      /\ UNCHANGED <<environmentVars, watchFailures, definitionVars, roots, podRoots,
                     selectedRoots, job, storeVars>>

-------------------------------------------------------------------------------
(* The sources worker: syncWatches, prepareDefinitions, refreshDefinitions *)

IdleSync(queued) == [queued |-> queued, busy |-> FALSE, failed |-> FALSE, todo |-> {}]

\* Fault: only the presence of a definition is compared.
SameDefinitionPresence(previous, next) == (previous = None) = (next = None)

\* isSameDefinition.
SameDefinition(previous, next) == previous = next

\* Work for the definitions that changed while the source's health did not.
DefinitionWork(next, changed) ==
  (UNION {EnqueueObject(next, k[1], k[2]) :
            k \in {x \in Keys : Object(x[1], x[2]) # None /\ KindOf[x[1]] \in changed}})
    \cup (UNION {EnqueuePod(PodGVK, o, Object(PodGVK, o)) :
                   o \in {x \in Cached(PodGVK) :
                            LET root == podRoots[<<x, Object(PodGVK, x).inc>>]
                            IN  root = None \/ KindOfObject[root[1]] \in changed}})

\* prepareWatchRequests: Pods, the required kinds and the selected versions.
RequestedWatches(next) ==
  {PodGVK} \cup RequiredKinds \cup {next[kind].gvk : kind \in {x \in Kinds : next[x] # None}}

\* refreshDefinitions: commit what List returned, then request the watches.
\* Failures of namespaced requests go: no namespace is a scope of its own.
RefreshDefinitions ==
  LET next == IF inventory.err # "none" THEN defs ELSE inventory.defs
      healthChanged == defErr # inventory.err
      changed == {kind \in Kinds : ~SameDefinition(defs[kind], next[kind])}
  IN  /\ syncWorker.queued /\ ~syncWorker.busy
      /\ defs' = next /\ defErr' = inventory.err
      /\ IF ~healthChanged /\ changed = {}
           THEN UNCHANGED <<defVersion, dirty>>
           ELSE /\ defVersion' = defVersion + 1
                /\ dirty' = dirty
                     \cup (IF healthChanged THEN {Rescan} ELSE DefinitionWork(next, changed))
                     \cup (UNION {EnqueueRootAndMembers(u) :
                                    u \in {v \in RootUIDs : healthChanged \/ KindOfObject[v[1]] \in changed}})
                     \cup {SelectedJob(k[1], k[2]) :
                             k \in {x \in SelectedKeys : Tracked(x[1], x[2]) /\ KindOf[x[1]] \in changed}}
      /\ syncWorker' = [queued |-> FALSE, busy |-> TRUE, failed |-> inventory.err # "none",
                        todo |-> RequestedWatches(next)]
      /\ watchFailures' = {f \in watchFailures : f[2] = "sources"}
      /\ UNCHANGED <<environmentVars, watches, replacements, health, pos, membershipVars, job, storeVars>>

\* syncWatches ensures the requested watches one by one.
SyncWatch(g) ==
  /\ syncWorker.busy /\ g \in syncWorker.todo
  /\ EnsureWatch(g, TRUE, "sources")
  /\ syncWorker' = [syncWorker EXCEPT !.todo = @ \ {g}, !.failed = @ \/ Unmapped(g)]
  /\ UNCHANGED <<environmentVars, pos, defs, defErr, defVersion, membershipVars, dirty, job, storeVars>>

SyncReturns ==
  /\ syncWorker.busy /\ syncWorker.todo = {}
  /\ syncWorker' = IdleSync(syncWorker.queued \/ syncWorker.failed)
  /\ UNCHANGED <<environmentVars, watchVars, pos, defs, defErr, defVersion, membershipVars,
                 dirty, job, storeVars>>

\* external: the inventory signals a change, Run queues "sources".
InventoryChanges(snapshot) ==
  /\ inventoryLeft > 0 /\ snapshot # inventory
  /\ inventory' = snapshot /\ inventoryLeft' = inventoryLeft - 1
  /\ syncWorker' = [syncWorker EXCEPT !.queued = TRUE]
  /\ UNCHANGED <<scenario, unmapped, failuresLeft, watchVars, pos, defs, defErr, defVersion,
                 membershipVars, dirty, job, storeVars>>

\* external: a CRD is installed and the mapper learns it.
Install(g) ==
  /\ g \in unmapped
  /\ unmapped' = unmapped \ {g}
  /\ UNCHANGED <<scenario, inventory, inventoryLeft, failuresLeft, watchVars, pos, definitionVars,
                 membershipVars, dirty, job, storeVars>>

-------------------------------------------------------------------------------
(* ready *)

Ready ==
  /\ defErr = "none"
  /\ \A g \in {PodGVK} \cup RequiredKinds :
       /\ Healthy(g) /\ replacements[g] = None
       /\ \A f \in watchFailures : f[1] # g
===============================================================================
