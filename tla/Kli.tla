--------------------------------- MODULE Kli ---------------------------------
(***************************************************************************)
(* One run of `kli get`, `kli get --all-types` or `kli describe` against a *)
(* cluster that changes meanwhile (cli/cmd, cli/pkg/workload/owners.go and *)
(* pods.go).  Every API call is a step of its own.                         *)
(*                                                                         *)
(* An object is [slot, uid, controller, others]: its kind and name, its    *)
(* controller reference [slot, uid] or Null, and the UIDs of its other     *)
(* owner references.  All of them are fixed when the object is created.    *)
(* Reading a listed object through its definition is Workload's subject;   *)
(* --phase and --selector only narrow what is printed and are left out.    *)
(***************************************************************************)
EXTENDS KliDefinitions, SequencesExt

CONSTANTS
  Kinds,          \* kinds (with their groups)
  Slots,          \* [kind, name] an object can have
  Mutable,        \* slots whose objects come and go during the run
  PodKind,        \* the kind of the Pods `describe` looks for
  Catalog,        \* built-in definitions, [name, gvk]
  MaxOwnerDepth,  \* maxOwnerDepth
  MaxChanges,     \* bound: changes of the cluster during the run
  Forests,        \* sets of objects the cluster may hold when the run starts
  Clusters,       \* the rest of the cluster, [access, served, failing, kartas]
  Commands        \* command lines, [mode, token]

\* The kinds of the definitions, unreadable ones included, are among those modelled.
NamesKinds(definitions) == \A d \in definitions : Mappable(d) => d.gvk.kind \in Kinds

ASSUME KliAssumption ==
  /\ IsFiniteSet(Kinds)
  /\ \A slot \in Slots : slot.kind \in Kinds
  /\ NamesKinds(Catalog) /\ \A cluster \in Clusters : NamesKinds(cluster.kartas)
  /\ Mutable \subseteq Slots
  /\ MaxOwnerDepth \in Nat /\ MaxChanges \in Nat

Ref(o) == [slot |-> o.slot, uid |-> o.uid]

\* UIDs are numbered from 1; 0 is the UID of an owner that is gone.
Object(n) ==
  [slot : Slots, uid : 1..n, controller : {Null} \cup [slot : Slots, uid : 0..n], others : SUBSET Nat]

\* A UID names one object, and so does a slot; a reference that has the UID of an
\* object has its slot.  An object's kind is served.
ASSUME ClusterAssumption ==
  \A forest \in Forests :
    /\ IsFiniteSet(forest) /\ forest \subseteq Object(Cardinality(forest))
    /\ \A o, p \in forest : o.uid = p.uid \/ o.slot = p.slot => o = p
    /\ \A o, p \in forest : o.controller # Null /\ o.controller.uid = p.uid => o.controller = Ref(p)
    /\ \A cluster \in Clusters, o \in forest : cluster.served[o.slot.kind] # {}

\* Null, which stands for the walk when there is none, is no walk.
ASSUME NullAssumption ==
  LET any == [slot : Slots, uid : Nat, controller : {Null} \cup [slot : Slots, uid : Nat],
              others : SUBSET Nat]
  IN  Null \notin [object : any, refs : any, depth : Nat]

VARIABLES
  objects,   \* the objects in the cluster
  born,      \* every object there has been: history
  served,    \* kind -> versions the API server serves
  failing,   \* kinds whose API group fails discovery
  access,    \* kind -> "list" (and get), "get" or "none"
  kartas,    \* the cluster's Kartas, [name, gvk, readable]
  changes,   \* changes of the cluster so far
  mode, token,   \* the command line
  pc,        \* "load", "discover", "lookup", "list", "walk", "done" or "failed"
  resolver,  \* the definitions
  mapper,    \* kind -> versions the REST mapper discovered
  root,      \* describe: the workload
  toList,    \* kinds, with the version to list them at, still to be listed
  covered,   \* kinds that count as workloads: `versions` in the code
  queue,     \* objects whose owners are still to be walked
  walk,      \* the walk under way: [object, refs, depth], or Null
  lists, named,  \* OwnerWalker's caches
  verdict,   \* uid -> "matched", "ended" or "failed": walks that are over
  warned     \* kinds a warning names, and "definitions"

clusterVars == <<objects, born, served, changes>>
fixedVars == <<failing, access, kartas, mode, token>>
commandVars == <<pc, resolver, mapper, root, toList, covered, queue, walk, lists, named,
                 verdict, warned>>
vars == <<clusterVars, fixedVars, commandVars>>

-----------------------------------------------------------------------------
\* One run of the command.
Init ==
  /\ objects \in Forests /\ born = objects
  /\ \E cluster \in Clusters :
       /\ access = cluster.access /\ served = cluster.served
       /\ failing = cluster.failing /\ kartas = cluster.kartas
  /\ \E command \in Commands : mode = command.mode /\ token = command.token
  /\ changes = 0 /\ pc = "load"
  /\ resolver = {} /\ mapper = <<>> /\ root = Null /\ toList = <<>> /\ covered = {}
  /\ queue = <<>> /\ walk = Null
  /\ lists = <<>> /\ named = <<>> /\ verdict = <<>> /\ warned = {}

-----------------------------------------------------------------------------
(* The cluster: external *)

At(slot) == {o \in objects : o.slot = slot}
OfKind(kind) == {o \in objects : o.slot.kind = kind}

NewObject(slot, uid, owner, others) ==
  [slot |-> slot, uid |-> uid, controller |-> owner, others |-> others]

Delete(o) ==
  /\ o.slot \in Mutable
  /\ objects' = objects \ {o}
  /\ UNCHANGED <<born, served>>

Create(slot) ==
  /\ slot \in Mutable /\ At(slot) = {}
  /\ served[slot.kind] # {}
  /\ \E owner \in {Null} \cup {Ref(o) : o \in {p \in objects : p.slot.kind # PodKind}} :
       LET o == NewObject(slot, Cardinality(born) + 1, owner, {})
       IN  objects' = objects \cup {o} /\ born' = born \cup {o}
  /\ UNCHANGED served

\* The CRD is removed and its objects with it.
Uninstall(kind) ==
  /\ \E slot \in Mutable : slot.kind = kind
  /\ served[kind] # {}
  /\ served' = [served EXCEPT ![kind] = {}]
  /\ objects' = objects \ OfKind(kind)
  /\ UNCHANGED born

ClusterStep ==
  /\ pc \notin {"done", "failed"}
  /\ changes < MaxChanges
  /\ changes' = changes + 1
  /\ \/ \E o \in objects : Delete(o)
     \/ \E slot \in Slots : Create(slot)
     \/ \E kind \in Kinds : Uninstall(kind)
  /\ UNCHANGED <<fixedVars, commandVars>>

\* What the REST mapper discovers, once per run; a group that fails discovery looks
\* absent.
Discovered == [k \in Kinds |-> IF k \in failing THEN {} ELSE served[k]]

-----------------------------------------------------------------------------
(* resolveLookup *)

Load ==
  /\ pc = "load"
  /\ \E outcome \in {"ok", "unconfigured", "absent", "forbidden", "unreachable"} :
       LET loaded == LoadResolver(Catalog, kartas, outcome)
       IN  /\ resolver' = loaded
           /\ warned' = IF LoadWarns(kartas, outcome, loaded) THEN {"definitions"} ELSE {}
           /\ pc' = IF loaded = {} THEN "failed" ELSE "discover"
  /\ UNCHANGED <<clusterVars, fixedVars, mapper, root, toList, covered, queue, walk, lists, named, verdict>>

\* ToRESTMapper and failedGroups
Discover ==
  /\ pc = "discover"
  /\ mapper' = Discovered
  /\ pc' = "lookup"
  /\ UNCHANGED <<clusterVars, fixedVars, resolver, root, toList, covered, queue, walk, lists, named,
                 verdict, warned>>

\* discoverKinds warns of a kind that is served at other versions only, and of one
\* whose group failed discovery; an absent kind is the norm.
Unreadable(kinds) ==
  {k \in kinds : /\ mapper[k] \cap CoveredVersions(resolver, k) = {}
                 /\ mapper[k] # {} \/ k \in failing}

DiscoverKinds ==
  /\ pc = "lookup" /\ mode = "all-types"
  /\ LET kinds == CoveredKinds(resolver)
         known == {k \in kinds : mapper[k] \cap CoveredVersions(resolver, k) # {}}
         at(k) == [kind |-> k, version |-> Preferred(mapper[k] \cap CoveredVersions(resolver, k))]
     IN  /\ toList' = SetToSeq({at(k) : k \in known})
         /\ covered' = known
         /\ warned' = warned \cup Unreadable(kinds)
  /\ pc' = "list"
  /\ UNCHANGED <<clusterVars, fixedVars, resolver, mapper, root, queue, walk, lists, named, verdict>>

\* resolveTarget and the mapping of its kind (collect): a type that is not
\* installed gives an empty result and a warning.
LookupType ==
  /\ pc = "lookup" /\ mode = "type"
  /\ LET def == ResolveTarget(resolver, mapper, token)
         installed == def # Null /\ def.gvk.version \in mapper[def.gvk.kind]
     IN  /\ pc' = IF def = Null THEN "failed" ELSE IF installed THEN "list" ELSE "done"
         /\ toList' = IF installed THEN <<def.gvk>> ELSE <<>>
         /\ warned' = IF def # Null /\ ~installed THEN warned \cup {def.gvk.kind} ELSE warned
  /\ UNCHANGED <<clusterVars, fixedVars, resolver, mapper, root, covered, queue, walk, lists, named, verdict>>

\* resolveTarget and getOne.
GetRoot ==
  /\ pc = "lookup" /\ mode = "describe"
  /\ LET def == ResolveTarget(resolver, mapper, token)
         found == IF def = Null \/ def.gvk.version \notin mapper[def.gvk.kind]
                       \/ access[def.gvk.kind] = "none"
                    THEN {} ELSE At([kind |-> def.gvk.kind, name |-> token.name])
     IN  \/ /\ found # {}
            /\ root' = CHOOSE o \in found : TRUE
            /\ pc' = "list" /\ toList' = <<[kind |-> PodKind, version |-> Null]>>
         \/ root' = Null /\ pc' = "failed" /\ UNCHANGED toList
  /\ UNCHANGED <<clusterVars, fixedVars, resolver, mapper, covered, queue, walk, lists, named,
                 verdict, warned>>

-----------------------------------------------------------------------------
(* Listing *)

\* What a list or get of a kind answers besides the objects themselves; "error"
\* stands for anything else that can go wrong.
Answers(kind, allowed) ==
  {"error"} \cup
    (IF access[kind] \notin allowed THEN {"forbidden"}
     ELSE IF served[kind] = {} THEN {"not_found"} ELSE {"ok"})

\* The walks start when everything is listed.
Listed(objs, rest) ==
  /\ toList' = rest
  /\ queue' = queue \o SetToSeq(objs)
  /\ pc' = IF rest = <<>> THEN (IF mode = "type" THEN "done" ELSE "walk") ELSE pc

\* Fault: a kind left out still counts as a workload when owners are walked.
LeaveOutLoosely(kind) == covered' = covered /\ Listed({}, Tail(toList))

LeaveOut(kind) ==
  /\ covered' = covered \ {kind}
  /\ Listed({}, Tail(toList))

Failed == pc' = "failed" /\ UNCHANGED <<toList, covered, queue, warned>>

\* listKind, the list of collect, and ListPods.  Only --all-types goes on without
\* a kind.
ListKind ==
  /\ pc = "list" /\ toList # <<>>
  /\ LET gvk == Head(toList)
     IN  \/ /\ mode = "all-types" /\ Ambiguous(resolver, gvk)
            /\ LeaveOut(gvk.kind) /\ warned' = warned \cup {gvk.kind}
         \/ /\ ~(mode = "all-types" /\ Ambiguous(resolver, gvk))
            /\ \E answer \in Answers(gvk.kind, {"list"}) :
                 CASE answer = "ok" ->
                        /\ Listed(OfKind(gvk.kind), Tail(toList))
                        /\ UNCHANGED <<covered, warned>>
                   [] answer = "forbidden" /\ mode = "all-types" ->
                        LeaveOut(gvk.kind) /\ warned' = warned \cup {gvk.kind}
                   [] answer = "not_found" /\ mode = "all-types" ->
                        LeaveOut(gvk.kind) /\ UNCHANGED warned
                   [] OTHER -> Failed
  /\ UNCHANGED <<clusterVars, fixedVars, resolver, mapper, root, walk, lists, named, verdict>>

\* --all-types with nothing to list.
NothingToList ==
  /\ pc = "list" /\ toList = <<>>
  /\ pc' = "walk"
  /\ UNCHANGED <<clusterVars, fixedVars, resolver, mapper, root, toList, covered, queue, walk, lists, named,
                 verdict, warned>>

-----------------------------------------------------------------------------
(* OwnerWalker *)

\* The condition TopLevel or Filter climbs with, on the references of one object.
Matches(o) ==
  IF mode = "describe"
    THEN root.uid \in o.others \/ (o.controller # Null /\ o.controller.uid = root.uid)
  ELSE o.controller # Null /\ o.controller.slot.kind \in covered

Set(f, key, value) == [k \in DOMAIN f \cup {key} |-> IF k = key THEN value ELSE f[k]]

\* Fault: the owners of a kind are listed again for every object.
OwnerListAgain(kind) ==
  {[answer |-> a, objs |-> IF a = "ok" THEN OfKind(kind) ELSE {}] : a \in Answers(kind, {"list"})}

\* listed and listOwners: read once, failures are kept too.
OwnerList(kind) ==
  IF kind \in DOMAIN lists THEN {lists[kind]}
  ELSE {[answer |-> a, objs |-> IF a = "ok" THEN OfKind(kind) ELSE {}] : a \in Answers(kind, {"list"})}

\* getNamed: a missing owner is no error.
NamedOwner(slot) ==
  IF slot \in DOMAIN named THEN {named[slot]}
  ELSE {[answer |-> IF a = "not_found" THEN "ok" ELSE a, objs |-> IF a = "ok" THEN At(slot) ELSE {}] :
          a \in Answers(slot.kind, {"list", "get"})}

\* Fault: whatever has the owner's name now is taken for the owner.
SameName(o, ref) == o.slot = ref.slot

SameObject(o, ref) == o.slot = ref.slot /\ o.uid = ref.uid

EndWalk(v) ==
  /\ verdict' = Set(verdict, walk.object.uid, v)
  /\ walk' = Null

\* Fault: an owner that may not be read ends the chain like a missing one.
GoOnSilently(read, ref) ==
  LET owners == {o \in read.objs : SameObject(o, ref)}
  IN  IF owners = {} THEN EndWalk("ended")
      ELSE /\ walk' = [walk EXCEPT !.refs = CHOOSE o \in owners : TRUE, !.depth = @ + 1]
           /\ UNCHANGED verdict

\* One hop of climb, with what get returned.
GoOn(read, ref) ==
  LET owners == {o \in read.objs : SameObject(o, ref)}
  IN  IF read.answer # "ok" THEN EndWalk("failed")
      ELSE IF owners = {} THEN EndWalk("ended")
      ELSE /\ walk' = [walk EXCEPT !.refs = CHOOSE o \in owners : TRUE, !.depth = @ + 1]
           /\ UNCHANGED verdict

\* get: by list, or by name where listing is forbidden; a kind that is not served
\* cannot be read at all (restMapping).
GetOwner(ref) ==
  \/ mapper[ref.slot.kind] = {} /\ EndWalk("failed") /\ UNCHANGED <<lists, named>>
  \/ /\ mapper[ref.slot.kind] # {}
     /\ \E list \in OwnerList(ref.slot.kind) :
          /\ lists' = Set(lists, ref.slot.kind, list)
          /\ IF list.answer # "forbidden" THEN GoOn(list, ref) /\ UNCHANGED named
             ELSE \E one \in NamedOwner(ref.slot) :
                    named' = Set(named, ref.slot, one) /\ GoOn(one, ref)

StartWalk ==
  /\ pc = "walk" /\ walk = Null /\ queue # <<>>
  /\ walk' = [object |-> Head(queue), refs |-> Head(queue), depth |-> 0]
  /\ queue' = Tail(queue)
  /\ UNCHANGED <<clusterVars, fixedVars, pc, resolver, mapper, root, toList, covered, lists, named,
                 verdict, warned>>

\* climb
Climb ==
  /\ pc = "walk" /\ walk # Null
  /\ LET controller == walk.refs.controller
     IN  \/ Matches(walk.refs) /\ EndWalk("matched") /\ UNCHANGED <<lists, named>>
         \/ /\ ~Matches(walk.refs)
            /\ \/ controller = Null /\ EndWalk("ended") /\ UNCHANGED <<lists, named>>
               \/ /\ controller # Null /\ walk.depth = MaxOwnerDepth
                  /\ EndWalk("failed") /\ UNCHANGED <<lists, named>>
               \/ controller # Null /\ walk.depth # MaxOwnerDepth /\ GetOwner(controller)
  /\ UNCHANGED <<clusterVars, fixedVars, pc, resolver, mapper, root, toList, covered, queue, warned>>

\* What is printed: topLevelViews and Filter drop one side of the walks.
Finish ==
  /\ pc = "walk" /\ walk = Null /\ queue = <<>>
  /\ pc' = "done"
  /\ UNCHANGED <<clusterVars, fixedVars, resolver, mapper, root, toList, covered, queue, walk, lists, named,
                 verdict, warned>>

-----------------------------------------------------------------------------
Next ==
  \/ ClusterStep
  \/ Load \/ Discover \/ DiscoverKinds \/ LookupType \/ GetRoot
  \/ ListKind \/ NothingToList \/ StartWalk \/ Climb \/ Finish

Spec == Init /\ [][Next]_vars

-----------------------------------------------------------------------------
(* Properties *)

\* The true owners, by UID: the least set that has an object's owner and the owners
\* of its members.
Owners(o) == {p \in born : o.controller # Null /\ p.uid = o.controller.uid}
AllOwners == UNION {Owners(o) : o \in born}
Ancestors(o) ==
  LET lineages == {S \in SUBSET AllOwners : Owners(o) \subseteq S /\ \A p \in S : Owners(p) \subseteq S}
  IN  {p \in AllOwners : \A S \in lineages : p \in S}

\* Somewhere up the true chain of owners, by UID, the condition holds.
TrulyMatches(o) == \E p \in {o} \cup Ancestors(o) : Matches(p)

Walked(v) == {o \in born : o.uid \in DOMAIN verdict /\ verdict[o.uid] = v}

\* An object is hidden by --all-types only if one of its true owners, by UID, is of
\* a kind that is being listed, and a Pod is counted by describe only if the
\* workload truly owns it, even while owners are replaced by others of the same
\* name.
MatchedIsOwned == \A o \in Walked("matched") : TrulyMatches(o)

\* A walk that ends without a match and without a warning is right, unless one of
\* the owners has been deleted meanwhile: no owner that could not be read, and no
\* chain that was too long, passes for the end of a chain.
EndedIsTop ==
  \A o \in Walked("ended") : TrulyMatches(o) => ~(Ancestors(o) \subseteq objects)

\* Objects with one controller are judged alike, whatever happens to the cluster
\* between their walks.
SiblingsAgree ==
  mode = "all-types" =>
    \A o, p \in {q \in born : q.uid \in DOMAIN verdict} :
      o.controller # Null /\ o.controller = p.controller => verdict[o.uid] = verdict[p.uid]

Answered(o) ==
  CASE mode = "all-types" ->
         \/ o.slot.kind \notin CoveredKinds(resolver)
         \/ \E p \in {o} \cup Ancestors(o) : p \in Walked("ended") \cup Walked("failed")
    [] mode = "type" -> o.slot.kind # token.kind \/ o \in ToSet(queue)
    [] mode = "describe" -> o.slot.kind # PodKind \/ o.uid \in DOMAIN verdict

\* No owner of a kind that is listed is gone, and nothing owns itself; climb matches
\* on the kind of a reference without asking whether the owner exists.
OwnersExist ==
  \A o \in objects :
    /\ o.controller # Null /\ o.controller.slot.kind \in covered => Owners(o) # {}
    /\ o \notin Ancestors(o)

\* In a cluster that holds still nothing vanishes: every object of a type asked for
\* is listed, or one of its owners is, or a warning names its kind.
NothingVanishes ==
  pc = "done" /\ changes = 0 /\ OwnersExist =>
    \A o \in objects : o.slot.kind \in warned \/ Answered(o)
=============================================================================
