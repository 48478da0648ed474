---------------------------- MODULE MCInventory ----------------------------
(* The inventory and its observer, over one change of the cluster's Kartas   *)
(* and one failure.  The API server starts with no Karta or with young       *)
(* ones: the change adds a Karta of the same age, an older, an invalid or an  *)
(* undecodable one, under a name that the source includes or leaves out, or  *)
(* replaces or deletes what is there.                                        *)
EXTENDS InventoryObserver

Young == [kind |-> "train", created |-> 2, form |-> "valid"]

MCKartas ==
  {Young} \cup {[kind |-> "train", created |-> 1, form |-> form] :
                  form \in {"valid", "invalid", "undecodable"}}

Started == {<<[n \in Names |-> NoKarta]>>, <<[n \in Names |-> IF n \in {2, 3} THEN Young ELSE NoKarta]>>}

MCInit == ObserverInit /\ history \in Started

\* FairObserverSpec from these initial states.
MCSpec == MCInit /\ [][ObserverNext]_<<inventoryVars, observerVars>> /\ ObserverFairness
=============================================================================
