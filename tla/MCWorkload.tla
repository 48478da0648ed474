----------------------------- MODULE MCWorkload -----------------------------
(* Instances of Workload: the built-in catalog, and small hand-made trees. *)
EXTENDS KliDescribe

BuiltIn == {Catalog[gvk] : gvk \in DOMAIN Catalog}

\* Three children with any owners; b has instances; with and without scales.
Structures ==
  LET scale(s) == IF s THEN Replicas("plain") ELSE <<>>
      child(n, o, s) == IF n = "b" THEN Multi(With(Child(n, o), Paths({"image", "labels"}, "plain") @@ scale(s)), "b-id")
                        ELSE With(Child(n, o), (IF n = "c" THEN Template ELSE <<>>) @@ scale(s))
      typed(c) == IF c.name = "c" THEN Typed(c, "role", "c") ELSE c
      member(n, f) == [members |-> <<[component |-> n, filters |-> f]>>]
      owners == {"a", "b", "c", "top", "ghost"}
  IN  {Karta(Root("top", GVK("g", "v", "K")),
         <<child("a", oa, s), child("b", ob, s), typed(child("c", oc, s))>>, NoSuspend,
         StatusDefinition({}, "Running" :> {}),
         <<member("top", <<"f">>), member("a", <<"g">>), member("c", <<"f", "g">>)>>) :
           oa \in owners, ob \in owners, oc \in owners, s \in BOOLEAN}

\* Quantities requested and limits, on the cases that quantityOf tells apart: only
\* a limit, a request below the limit, a request of zero, and neither.
Require(gpus, cpu, gpuLimit, cpuLimit) ==
  [requests |-> Request(gpus, cpu), limits |-> Request(gpuLimit, cpuLimit)]

\* A pod spec in which every rule of podRequest counts, and a single container.
MCSpecOf(value) ==
  LET container(requirements) == [resources |-> requirements, sidecar |-> FALSE]
      sidecar(requirements) == [resources |-> requirements, sidecar |-> TRUE]
  IN  IF value = "old"
        THEN [containers |-> <<container(Require(Null, 1, 1, 2)), container(Require(Null, 2, Null, Null))>>,
              init |-> <<container(Require(3, 1, Null, Null)), sidecar(Require(0, Null, 4, 1)),
                         container(Require(Null, Null, Null, 9))>>,
              resources |-> Require(Null, Null, Null, Null), overhead |-> Request(Null, 1)]
        ELSE [containers |-> <<container(Require(2, 4, 3, Null))>>, init |-> <<>>,
              resources |-> Require(Null, Null, Null, 3), overhead |-> Request(Null, Null)]

MCObserved == BuiltIn
\* The components of Milvus are like those of the others, only many.
MCDocumented == (BuiltIn \ {Milvus, LLMInferenceService}) \cup Structures
Nothing == {}
OnlyLLM == {LLMInferenceServiceV1alpha2}
=============================================================================
