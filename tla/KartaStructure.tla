--------------------------- MODULE KartaStructure ---------------------------
(***************************************************************************)
(* A Karta definition and what the SDK derives from its structure alone:   *)
(* validation (karta/sdk/pkg/api/runai/v1alpha1/validation.go), the        *)
(* structure summary and gang-scheduling candidates                        *)
(* (karta/sdk/pkg/instructions) and the component of a Pod                 *)
(* (instructions/pod.go, resource/pod_querier.go).                         *)
(*                                                                         *)
(* A Karta is [root, children, suspend, status, gang].  A component keeps  *)
(* of its definition                                                       *)
(*   name, owner - its name and ownerRef (Null: none)                      *)
(*   kind        - its group, version and kind (Null: none)                *)
(*   status      - a statusDefinition is present                           *)
(*   ids         - an instanceIdPath is present                            *)
(*   paths       - role -> shape of the jq path given for that role        *)
(*   type, instance, replica - the three Pod selectors: a key and a value, *)
(*                 a label key, a label key (Null: absent)                 *)
(* A gang is Null or a sequence of pod groups, each a sequence of members. *)
(***************************************************************************)
EXTENDS Integers, FiniteSets, Sequences, SequencesExt

CONSTANT Null               \* a nil pointer, an absent value

AnyValue == "any value"     \* a type selector without a value
NoValue == "no value"       \* a type selector that wants the key to be absent
Selector(key, value) == [key |-> key, value |-> value]

FragmentFields ==
  {"schedulerName", "priorityClassName", "image", "labels", "annotations", "resources",
   "podAffinity", "nodeAffinity", "container", "resourceClaims", "containers"}
ScaleRoles == {"replicas", "minReplicas", "maxReplicas"}
Roles == {"podTemplateSpec", "podSpec", "metadata"} \cup FragmentFields \cup ScaleRoles

Child(name, owner) ==
  [name |-> name, owner |-> owner, kind |-> Null, status |-> FALSE, ids |-> FALSE,
   paths |-> <<>>, type |-> Null, instance |-> Null, replica |-> Null]
Root(name, gvk) == [Child(name, Null) EXCEPT !.kind = gvk, !.status = TRUE]

Has(component, roles) == DOMAIN component.paths \cap roles # {}

\* summary.hasPodDefinition; Component.HasPodDefinition and the factory's
\* isComponentHasSpecDefinition repeat it.
HasPodDefinition(component) ==
  Has(component, {"podTemplateSpec", "podSpec"} \cup FragmentFields)

\* PodSelector is a pointer: nil when none of its selectors is given.
HasPodSelector(component) ==
  component.type # Null \/ component.instance # Null \/ component.replica # Null

AllComponents(karta) == <<karta.root>> \o karta.children
NamesOf(karta) == {AllComponents(karta)[i].name : i \in DOMAIN AllComponents(karta)}

\* The maps by name are filled in order: of two components with one name the
\* later one stays.  ComponentFactory and the validator append the root last.
Named(karta, name) ==
  IF karta.root.name = name THEN karta.root
  ELSE LET i == CHOOSE i \in DOMAIN karta.children :
                  /\ karta.children[i].name = name
                  /\ \A j \in DOMAIN karta.children : karta.children[j].name = name => j <= i
       IN  karta.children[i]

-----------------------------------------------------------------------------
(* Validation *)

\* initialize: names are unique; nothing else is looked at when they are not.
UniqueNames(karta) == Cardinality(NamesOf(karta)) = Len(AllComponents(karta))

\* validateMultiInstanceComponent
ValidMultiInstance(component) == component.ids <=> component.instance # Null

ValidComponent(component) ==
  /\ component.name # ""
  /\ Cardinality({part \in {{"podTemplateSpec"}, {"podSpec"}, FragmentFields} :
                    Has(component, part)}) <= 1
  /\ ValidMultiInstance(component)

\* A kind is "full" in the core group only for a Pod.
ValidRoot(karta) ==
  /\ karta.root.kind # Null
  /\ karta.root.kind.version # "" /\ karta.root.kind.kind # ""
  /\ karta.root.kind.group # "" \/ karta.root.kind.kind = "Pod"
  /\ karta.root.owner = Null
  /\ karta.root.status
  /\ ValidComponent(karta.root)

ValidChild(karta, component) ==
  /\ component.owner \in NamesOf(karta)
  /\ ValidComponent(component)

\* checkPathToRoot: climb from name until the root ("root"), a component seen
\* on this climb ("cycle") or one an earlier climb accepted ("validated").
CheckPathToRoot(karta, name, validated) ==
  LET climb[at \in NamesOf(karta) \X SUBSET NamesOf(karta)] ==
        LET current == at[1]  visited == at[2]  owner == Named(karta, current).owner
        IN  IF current \in visited THEN "cycle"
            ELSE IF owner = Null THEN "root"
            ELSE IF owner \in validated THEN "validated"
            ELSE climb[<<owner, visited \cup {current}>>]
  IN  climb[<<name, {}>>]

\* Fault: only a component that owns itself is noticed.
NoSelfOwnership(karta) ==
  \A i \in DOMAIN karta.children : karta.children[i].owner # karta.children[i].name

\* validateNoOwnershipCycles: a climb is remembered only when it ended at a
\* remembered component, so none ever is.
NoOwnershipCycles(karta) ==
  LET check(seen, child) ==
        LET end == CheckPathToRoot(karta, child.name, seen.validated)
        IN  IF ~seen.ok THEN seen
            ELSE [ok |-> end # "cycle",
                  validated |-> seen.validated
                                  \cup (IF end = "validated" THEN {child.name} ELSE {})]
  IN  FoldLeft(check, [ok |-> TRUE, validated |-> {}], karta.children).ok

ValidStructure(karta) ==
  /\ ValidRoot(karta)
  /\ \A i \in DOMAIN karta.children : ValidChild(karta, karta.children[i])
  /\ NoOwnershipCycles(karta)

GangMembers(karta) ==
  IF karta.gang = Null THEN {}
  ELSE UNION {ToSet(karta.gang[i].members) : i \in DOMAIN karta.gang}

ValidGangScheduling(karta) ==
  \A member \in GangMembers(karta) : member.component \in NamesOf(karta)

\* Validate.  The safety check of the jq expressions is not modelled.
Validate(karta) ==
  UniqueNames(karta) /\ ValidStructure(karta) /\ ValidGangScheduling(karta)

-----------------------------------------------------------------------------
(* StructureSummary, built from a Karta that was validated *)

ParentOf(karta, name) == Named(karta, name).owner
ChildrenOf(karta, name) == SelectSeq(karta.children, LAMBDA c : c.owner = name)
LeafComponents(karta) == SelectSeq(AllComponents(karta), HasPodDefinition)
HasScaleDefinition(karta) ==
  \E i \in DOMAIN AllComponents(karta) : Has(AllComponents(karta)[i], ScaleRoles)

\* The component itself and its ancestors, nearest first.
Lineage(karta, name) ==
  LET up[n \in NamesOf(karta)] ==
        IF ParentOf(karta, n) = Null THEN <<n>> ELSE <<n>> \o up[ParentOf(karta, n)]
  IN  up[name]

\* findEffectiveComponentCandidates: mentions of the component, then of each
\* ancestor, in the order of groups and members.
MentionsOf(karta, name) ==
  FlattenSeq([g \in DOMAIN karta.gang |->
    FlattenSeq([m \in DOMAIN karta.gang[g].members |->
      LET member == karta.gang[g].members[m]
      IN  IF member.component = name
            THEN <<[component |-> name, group |-> g, filters |-> member.filters]>> ELSE <<>>])])

\* Fault: the groups are gone through once, for all ancestors together.
FindCandidatesByGroup(karta, name) ==
  LET line == ToSet(Lineage(karta, name))
  IN  FlattenSeq([g \in DOMAIN karta.gang |->
        FlattenSeq([m \in DOMAIN karta.gang[g].members |->
          LET member == karta.gang[g].members[m]
          IN  IF member.component \in line
                THEN <<[component |-> member.component, group |-> g, filters |-> member.filters]>>
              ELSE <<>>])])

FindCandidates(karta, name) ==
  LET line == Lineage(karta, name)
  IN  FlattenSeq([i \in DOMAIN line |-> MentionsOf(karta, line[i])])

\* sortEffectiveComponentCandidatesByPriority: direct mentions first.
SortedCandidates(karta, name) ==
  LET found == FindCandidates(karta, name)
  IN  SelectSeq(found, LAMBDA c : c.component = name)
        \o SelectSeq(found, LAMBDA c : c.component # name)

-----------------------------------------------------------------------------
(* Pods: a Pod maps label keys to values or Null, and filters to a verdict *)

\* MatchesComponentType with checkKeyExists and checkKeyValue.
MatchesComponentType(pod, selector) ==
  /\ selector # Null
  /\ CASE selector.value = AnyValue -> pod[selector.key] # Null
       [] selector.value = NoValue -> pod[selector.key] = Null
       [] OTHER -> pod[selector.key] = selector.value

\* InferPodComponent: the only leaf takes every Pod; otherwise the first leaf
\* whose selector matches; Null stands for the error "no component found".
InferPodComponent(karta, pod) ==
  LET leaves == LeafComponents(karta)
      hits == SelectSeq(leaves, LAMBDA c : HasPodSelector(c) /\ MatchesComponentType(pod, c.type))
  IN  IF Len(leaves) = 1 THEN leaves[1].name
      ELSE IF hits = <<>> THEN Null ELSE hits[1].name

\* PassesFilters: filters are conjoined left to right; one that gives no single
\* value is an error, but only if the ones before it passed.
PassesFilters(pod, filters) ==
  LET step(verdict, filter) == IF verdict = "true" THEN pod[filter] ELSE verdict
  IN  FoldLeft(step, "true", filters)

FilterError == [component |-> Null, group |-> 0, filters |-> <<>>]

\* getEffectiveComponentForPod: the first candidate whose filters pass.
EffectiveComponent(karta, pod, name) ==
  LET try(found, candidate) ==
        IF found # Null THEN found
        ELSE CASE PassesFilters(pod, candidate.filters) = "true" -> candidate
               [] PassesFilters(pod, candidate.filters) = "error" -> FilterError
               [] OTHER -> Null
  IN  IF karta.gang = Null THEN Null
      ELSE FoldLeft(try, Null, SortedCandidates(karta, name))

=============================================================================
