----------------------------- MODULE MCOperator -----------------------------
(* An instance of Operator: Jobs have a CRD, Pods are native. *)
EXTENDS Operator

MCNative == {<<"pod", "v1">>}
MCSpecs ==
  {[gvk |-> <<"job", version>>, valid |-> TRUE] : version \in Versions} \cup
  {[gvk |-> <<"job", "v1">>, valid |-> FALSE], [gvk |-> <<"pod", "v1">>, valid |-> TRUE],
   [gvk |-> None, valid |-> FALSE]}
=============================================================================
