-------------------------- MODULE DefinitionSource --------------------------
(***************************************************************************)
(* What the exporter expects of a source of Karta definitions: a view that *)
(* is, at every moment, the filtered Kartas of one resource version of the *)
(* API server, and that only moves forward in time.                        *)
(***************************************************************************)
EXTENDS KartaElection

VARIABLES
  history,   \* every state the API server's Kartas went through
  at,        \* which of them is shown; 0 before the first list
  view       \* the Kartas shown

NothingShown == [n \in Names |-> NoKarta]

SourceInit ==
  /\ history \in {<<m>> : m \in ClusterMap}
  /\ at = 0 /\ view = NothingShown

\* A Karta is created, updated or deleted.
Change ==
  /\ \E n \in Names, k \in Kartas \cup {NoKarta} :
       history' = Append(history, [history[Len(history)] EXCEPT ![n] = k])
  /\ UNCHANGED <<at, view>>

\* The view becomes that of the same or a later resource version.
Advance ==
  /\ \E i \in 1..Len(history) :
       i >= at /\ at' = i /\ view' = Filtered(history[i])
  /\ UNCHANGED history

SourceNext == Change \/ Advance

SourceSpec == SourceInit /\ [][SourceNext]_<<history, at, view>>
=============================================================================
