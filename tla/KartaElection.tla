---------------------------- MODULE KartaElection ----------------------------
(***************************************************************************)
(* Election of one Karta definition per workload group and kind, as the    *)
(* exporter's definition inventory performs it:                            *)
(* dsx-workload-exporter/pkg/kartadefinitioninventory/inventory.go.        *)
(*                                                                         *)
(* A Karta is a record of what the election and the health check look at:  *)
(*   kind    - group and kind of its root component                        *)
(*   created - creation timestamp                                          *)
(*   form    - "valid", "invalid" (decodes, fails validation),             *)
(*             "unkeyable" (root has no version or kind) or                *)
(*             "undecodable" (entry whose definition is nil)               *)
(* Names are natural numbers so that strings.Compare is the order on Nat.  *)
(***************************************************************************)
EXTENDS Naturals, FiniteSets, SequencesExt

CONSTANTS
  Names,         \* metadata.name of the Kartas that may exist in the cluster
  Kinds,         \* workload group-kinds
  Kartas,        \* contents a cluster Karta may have
  NoKarta,       \* no Karta of that name
  Included,      \* names the cluster source filter accepts
  CatalogKinds   \* kinds the bundled catalog has a winner for

Forms == {"valid", "invalid", "unkeyable", "undecodable"}

ASSUME ElectionAssumption ==
  /\ Names \subseteq Nat /\ IsFiniteSet(Names)
  /\ Kartas \subseteq [kind : Kinds, created : Nat, form : Forms]
  /\ NoKarta \notin Kartas
  /\ Included \subseteq Names
  /\ CatalogKinds \subseteq Kinds

ClusterMap == [Names -> Kartas \cup {NoKarta}]

\* sourceFilter.matches applied to a complete list of the cluster's Kartas.
Filtered(listed) == [n \in Names |-> IF n \in Included THEN listed[n] ELSE NoKarta]

Undecodable(cluster) ==
  {n \in Names : cluster[n] # NoKarta /\ cluster[n].form = "undecodable"}

\* Entries electLocked does not skip for this kind.
Candidates(cluster, kind) ==
  {n \in Names : /\ cluster[n] # NoKarta
                 /\ cluster[n].kind = kind
                 /\ cluster[n].form \in {"valid", "invalid"}}

\* Oldest creation timestamp first; the name breaks ties.
Beats(cluster, n, winner) ==
  \/ cluster[n].created < cluster[winner].created
  \/ cluster[n].created = cluster[winner].created /\ n < winner

NoWinner == [source |-> "none"]

Selection(cluster, n) ==
  [source |-> "cluster", name |-> n, err |-> cluster[n].form = "invalid"]

CatalogSelection(kind) ==
  IF kind \in CatalogKinds THEN [source |-> "catalog"] ELSE NoWinner

\* Fault: candidates of the same age are not told apart.
ElectInOrderByAge(cluster, kind, order) ==
  LET better(winner, n) ==
        IF winner = {} \/ \A w \in winner : cluster[n].created < cluster[w].created
          THEN {n} ELSE winner
      winners == FoldLeft(better, {}, order)
  IN  IF winners = {} THEN CatalogSelection(kind)
      ELSE Selection(cluster, CHOOSE n \in winners : TRUE)

\* The loop of electLocked over a Go map, whose iteration order is arbitrary:
\* order is one enumeration of the candidates.
ElectInOrder(cluster, kind, order) ==
  LET better(winner, n) ==
        IF winner = {} THEN {n}
        ELSE IF \A w \in winner : Beats(cluster, n, w) THEN {n} ELSE winner
      winners == FoldLeft(better, {}, order)
  IN  IF winners = {} THEN CatalogSelection(kind)
      ELSE Selection(cluster, CHOOSE n \in winners : TRUE)

\* The election as the documentation states it: the oldest definition wins,
\* ties go to the smaller name, the catalog serves what no cluster Karta does.
Elect(cluster, kind) ==
  LET cands == Candidates(cluster, kind)
  IN  IF cands = {} THEN CatalogSelection(kind)
      ELSE Selection(cluster, CHOOSE n \in cands :
                       \A m \in cands : m = n \/ Beats(cluster, n, m))

\* listSelectedDefinitions: one winner per kind that has one.
Selections(cluster) == [kind \in Kinds |-> Elect(cluster, kind)]
===============================================================================
