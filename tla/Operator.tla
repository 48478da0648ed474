------------------------------- MODULE Operator -------------------------------
(***************************************************************************)
(* The Karta operator: the reconciler that writes the conditions and the   *)
(* index labels of a Karta, the mapping of CRD events, and the admission   *)
(* webhooks (operator/pkg/controller.go, eventfilter.go, status.go,        *)
(* webhook.go).                                                            *)
(*                                                                         *)
(* External: the API server, and controller-runtime's caches, handlers and *)
(* work queue.  Both kinds of objects reach the caches in the order of     *)
(* their changes, any time later.  Reads of a cache do not fail; patches   *)
(* may.  An object's content stands for its resource version: a write that *)
(* changes nothing makes no new version.                                   *)
(* The module follows one Karta; reconciles of others do not touch it, and *)
(* it meets them only in the check of uniqueness.                          *)
(*   Karta      [gen, gvk, valid, labels, conds, deleting]                 *)
(*     gvk      root kind <<group-kind, version>>, or None                 *)
(*     labels   the GVK the three index labels spell, or None              *)
(*     conds    None, or one condition [status, gen] per type              *)
(***************************************************************************)
EXTENDS Naturals, Sequences, FiniteSets

CONSTANTS
  GroupKinds,    \* group-kinds of CRDs
  Versions,      \* versions a CRD may serve
  NativeGVKs,    \* r.nativeGVKs
  Specs,         \* specs users write, [gvk, valid]
  MaxChanges,    \* bound: writes of users, changes of CRDs and patches that fail
  None           \* nothing

GVKs == (GroupKinds \X Versions) \cup NativeGVKs
ConditionTypes == {"Validated", "CRDExists", "Ready"}
Conditions == [ConditionTypes -> [status : {"True", "False", "Pending"}, gen : Nat]]
Karta == [gen : Nat, gvk : GVKs \cup {None}, valid : BOOLEAN, labels : GVKs \cup {None},
          conds : Conditions \cup {None}, deleting : BOOLEAN]

ASSUME OperatorAssumption ==
  /\ \A gvk \in NativeGVKs : Len(gvk) = 2 /\ gvk[1] \notin GroupKinds
  /\ Specs \subseteq [gvk : GVKs \cup {None}, valid : BOOLEAN]
  /\ \A spec \in Specs : spec.valid => spec.gvk # None
  /\ None \notin GVKs /\ None \notin Karta /\ None \notin Conditions
  /\ MaxChanges \in Nat

VARIABLES
  webhook,     \* --enable-webhook
  server,      \* external: the Karta at the API server, or None
  stream,      \* external: its versions that the cache has yet to see
  cache,       \* the Karta in the manager's cache
  others,      \* root kinds of the other Kartas in the cache
  crds,        \* external: versions served by the CRD of a group-kind
  crdStream,   \* external: changes of CRDs the cache has yet to see
  crdCache,    \* the CRDs in the manager's cache, as TrimCRDFields leaves them
  mapping,     \* CRD events whose handler has yet to run
  queued,      \* a request is waiting
  worker,      \* the reconcile in progress
  changes      \* what is left of the bound

kartaVars == <<server, stream>>
crdVars == <<crds, crdStream, crdCache>>
vars == <<webhook, kartaVars, cache, others, crdVars, mapping, queued, worker, changes>>

-------------------------------------------------------------------------------
(* Values *)

\* The worker: the request, its step, the Karta as read (base), the Karta as
\* modified, what the API server has to hold for the status patch (None for
\* anything), and whether an error is to be returned.
Idle == [pc |-> "idle"]

Created(spec) ==
  [gen |-> 1, gvk |-> spec.gvk, valid |-> spec.valid, labels |-> None, conds |-> None, deleting |-> FALSE]

\* The manager has started and its caches are filled: Kartas may have been
\* created before, without the webhook.
Init ==
  /\ webhook \in BOOLEAN
  /\ server \in {None} \cup {Created(spec) : spec \in Specs} /\ cache = server
  /\ stream = <<>> /\ others = {}
  /\ crds \in [GroupKinds -> {{}, Versions}] /\ crdCache = crds
  /\ crdStream = [gk \in GroupKinds |-> <<>>]
  /\ mapping = {} /\ queued = (server # None) /\ worker = Idle
  /\ changes = MaxChanges

-------------------------------------------------------------------------------
(* Conditions: status.go *)

Bool(b) == IF b THEN "True" ELSE "False"
Set(conds, type, status, gen) == [conds EXCEPT ![type] = [status |-> status, gen |-> gen]]

\* setDefaultConditions.  The conditions are always written together.
WithDefaults(karta) ==
  IF karta.conds # None THEN karta.conds
  ELSE [type \in ConditionTypes |-> [status |-> "Pending", gen |-> karta.gen]]

\* setReady.
WithReady(karta) ==
  [karta EXCEPT !.conds = Set(karta.conds, "Ready",
     Bool(\A type \in {"Validated", "CRDExists"} : karta.conds[type].status = "True"), karta.gen)]

-------------------------------------------------------------------------------
(* Labels and admission *)

\* labelsMatch against desiredRootLabels, which is nil without a root kind.
LabelsMatch(karta) == karta.gvk # None => karta.labels = karta.gvk
Labelled(karta) == IF karta.gvk = None THEN karta ELSE [karta EXCEPT !.labels = karta.gvk]

\* checkUniqueRootGVK lists the cache.
Unique(karta) == karta.gvk = None \/ karta.gvk \notin others

ValidateCreate(karta) == karta.valid /\ Unique(karta)
ValidateUpdate(old, karta) ==
  /\ karta.valid
  /\ old.gvk # None /\ karta.gvk = old.gvk
  /\ LabelsMatch(karta)
  /\ Unique(karta)

\* The API server stores a Karta and sends it to the watchers.
Write(karta) ==
  /\ server' = karta
  /\ stream' = IF karta = server THEN stream ELSE Append(stream, karta)

-------------------------------------------------------------------------------
(* Users *)

UserWrites(karta) ==
  /\ changes > 0
  /\ changes' = changes - 1
  /\ Write(karta)
  /\ UNCHANGED <<webhook, cache, others, crdVars, mapping, queued, worker>>

Create(s) ==
  LET karta == IF webhook THEN Labelled(Created(s)) ELSE Created(s)
  IN  /\ server = None
      /\ webhook => ValidateCreate(karta)
      /\ UserWrites(karta)

\* A user changes the spec, which takes a new generation, or removes the labels.
Update(s, unlabel) ==
  LET changed == s # [gvk |-> server.gvk, valid |-> server.valid]
      karta == [server EXCEPT !.gvk = s.gvk, !.valid = s.valid, !.gen = IF changed THEN @ + 1 ELSE @,
                              !.labels = IF unlabel THEN None ELSE @]
  IN  /\ server # None /\ karta # server
      /\ webhook => ValidateUpdate(server, karta)
      /\ UserWrites(karta)

\* Deletion, after a wait when somebody's finalizer is on the Karta.
Delete(waits) ==
  /\ server # None
  /\ waits => ~server.deleting
  /\ UserWrites(IF waits THEN [server EXCEPT !.deleting = TRUE] ELSE None)

\* Another Karta comes or goes.
EditOther(gvk) ==
  /\ changes > 0
  /\ changes' = changes - 1
  /\ others' = IF gvk \in others THEN others \ {gvk} ELSE others \cup {gvk}
  /\ UNCHANGED <<webhook, kartaVars, cache, crdVars, mapping, queued, worker>>

\* A CRD is installed, removed or serves other versions.
EditCRD(gk, served) ==
  /\ changes > 0 /\ served # crds[gk]
  /\ crds' = [crds EXCEPT ![gk] = served]
  /\ crdStream' = [crdStream EXCEPT ![gk] = Append(@, served)]
  /\ changes' = changes - 1
  /\ UNCHANGED <<webhook, kartaVars, cache, others, crdCache, mapping, queued, worker>>

-------------------------------------------------------------------------------
(* Events *)

\* Fault: events of the status and the labels are filtered out.
RequestsOfGeneration(old, new) == old = None \/ new = None \/ old.gen # new.gen

\* For(&Karta{}): every event is a request.
Requests(old, new) == TRUE

Deliver ==
  /\ stream # <<>>
  /\ cache' = Head(stream)
  /\ stream' = Tail(stream)
  /\ queued' = (queued \/ Requests(cache, Head(stream)))
  /\ UNCHANGED <<webhook, server, others, crdVars, mapping, worker, changes>>

DeliverCRD(gk) ==
  /\ crdStream[gk] # <<>>
  /\ crdCache' = [crdCache EXCEPT ![gk] = Head(crdStream[gk])]
  /\ crdStream' = [crdStream EXCEPT ![gk] = Tail(@)]
  /\ mapping' = mapping \cup {gk}
  /\ UNCHANGED <<webhook, kartaVars, cache, others, crds, queued, worker, changes>>

\* MapCRDToKartaEvent lists the cached Kartas by the labels of group and kind.
MapCRDToKartaEvent(gk) ==
  /\ gk \in mapping
  /\ mapping' = mapping \ {gk}
  /\ queued' = (queued \/ (cache # None /\ cache.labels # None /\ cache.labels[1] = gk))
  /\ UNCHANGED <<webhook, kartaVars, cache, others, crdVars, worker, changes>>

-------------------------------------------------------------------------------
(* Reconcile *)

\* checkGVKServed.
Served(gvk, versions) == gvk # None /\ (gvk \in NativeGVKs \/ gvk[2] \in versions[gvk[1]])

\* Get, setDefaultConditions and validateKarta.
Take ==
  LET conds == Set(WithDefaults(cache), "Validated", Bool(cache.valid), cache.gen)
  IN  /\ worker = Idle /\ queued
      /\ queued' = FALSE
      /\ \/ /\ cache = None \/ (cache # None /\ cache.deleting)
            /\ UNCHANGED worker
         \/ /\ cache # None /\ ~cache.deleting
            /\ worker' = [pc |-> "checkCRD", base |-> cache, karta |-> [cache EXCEPT !.conds = conds],
                          expects |-> None, err |-> FALSE]
      /\ UNCHANGED <<webhook, kartaVars, cache, others, crdVars, mapping, changes>>

CheckCRDExists ==
  /\ worker.pc = "checkCRD"
  /\ worker' = [worker EXCEPT !.pc = "labels",
       !.karta.conds = Set(@, "CRDExists", Bool(Served(worker.karta.gvk, crdCache)), worker.karta.gen)]
  /\ UNCHANGED <<webhook, kartaVars, cache, others, crdVars, mapping, queued, changes>>

\* client.Patch decodes the answer into the Karta it was given: what the answer
\* has replaces what was there, the conditions just computed included; a Karta
\* without status leaves them alone.
Decoded(karta, answer) ==
  [answer EXCEPT !.conds = IF answer.conds = None THEN karta.conds ELSE answer.conds]

\* Fault: the error of the label patch is not returned.
LabelsFailQuietly == worker' = [worker EXCEPT !.pc = "status"]

LabelsFail == worker' = [worker EXCEPT !.pc = "status", !.err = TRUE]

\* ensureLabels and setReady.  The patch is taken to write the three labels
\* together.  A patch that fails may have been applied.
EnsureLabels ==
  LET karta == worker.karta
      labelled == [server EXCEPT !.labels = karta.gvk]
      admitted == server # None /\ (webhook => ValidateUpdate(server, labelled))
  IN  /\ worker.pc = "labels"
      /\ \/ /\ LabelsMatch(karta)
            /\ worker' = [worker EXCEPT !.pc = "status", !.karta = WithReady(karta)]
            /\ UNCHANGED <<kartaVars, changes>>
         \/ /\ ~LabelsMatch(karta) /\ ~admitted
            /\ LabelsFail
            /\ UNCHANGED <<kartaVars, changes>>
         \/ /\ ~LabelsMatch(karta) /\ admitted /\ changes > 0
            /\ changes' = changes - 1
            /\ Write(labelled) \/ UNCHANGED kartaVars
            /\ LabelsFail
         \/ /\ ~LabelsMatch(karta) /\ admitted
            /\ Write(labelled)
            /\ worker' = [worker EXCEPT !.pc = "status", !.expects = labelled,
                                        !.karta = WithReady(Decoded(karta, labelled))]
            /\ UNCHANGED changes
      /\ UNCHANGED <<webhook, cache, others, crdVars, mapping, queued>>

\* A request whose reconcile failed is queued again.
Return(err) == worker' = Idle /\ queued' = (queued \/ err \/ worker.err)

\* Status().Patch sends the difference to what was read.  After a label patch
\* the difference has its resource version, which has to be current.
PatchStatus ==
  LET conds == worker.karta.conds
      accepted == server # None /\ (worker.expects = None \/ worker.expects = server)
      patched == IF conds = worker.base.conds THEN server ELSE [server EXCEPT !.conds = conds]
  IN  /\ worker.pc = "status"
      /\ \/ /\ ~accepted
            /\ Return(TRUE)
            /\ UNCHANGED <<kartaVars, changes>>
         \/ /\ accepted /\ changes > 0
            /\ changes' = changes - 1
            /\ Write(patched) \/ UNCHANGED kartaVars
            /\ Return(TRUE)
         \/ /\ accepted
            /\ Write(patched)
            /\ Return(FALSE)
            /\ UNCHANGED changes
      /\ UNCHANGED <<webhook, cache, others, crdVars, mapping>>

-------------------------------------------------------------------------------

Users ==
  \/ \E s \in Specs : Create(s) \/ \E unlabel \in BOOLEAN : Update(s, unlabel)
  \/ \E waits \in BOOLEAN : Delete(waits)
  \/ \E gvk \in GVKs : EditOther(gvk)
  \/ \E gk \in GroupKinds, served \in SUBSET Versions : EditCRD(gk, served)
Events == Deliver \/ \E gk \in GroupKinds : DeliverCRD(gk) \/ MapCRDToKartaEvent(gk)
Reconcile == Take \/ CheckCRDExists \/ EnsureLabels \/ PatchStatus

Next == Users \/ Events \/ Reconcile

Spec == Init /\ [][Next]_vars

\* The watches deliver, handlers run and the worker serves its queue.
FairSpec ==
  /\ Spec
  /\ WF_vars(Deliver) /\ WF_vars(Reconcile)
  /\ \A gk \in GroupKinds : WF_vars(DeliverCRD(gk)) /\ WF_vars(MapCRDToKartaEvent(gk))

-------------------------------------------------------------------------------
(* Properties *)

\* What the conditions of a Karta have to say.
Expected(karta) ==
  LET served == Served(karta.gvk, crds)
  IN  [type \in ConditionTypes |->
         [gen |-> karta.gen,
          status |-> Bool(CASE type = "Validated" -> karta.valid
                            [] type = "CRDExists" -> served
                            [] type = "Ready" -> karta.valid /\ served)]]

\* The webhook refuses the label patch: the Karta is invalid, or another one has
\* its root kind.
Refused == webhook /\ ~LabelsMatch(server) /\ ~ValidateUpdate(server, Labelled(server))

UpToDate ==
  server # None /\ ~server.deleting =>
    /\ server.conds # None
    /\ \A type \in {"Validated", "CRDExists"} : server.conds[type] = Expected(server)[type]
    /\ ~Refused => LabelsMatch(server) /\ server.conds = Expected(server)

\* When no event and no request is left for a Karta, its conditions are those of
\* its current spec and of the CRDs that exist now, and its labels spell its root
\* kind: neither a CRD event that the labels could not map yet, nor conditions
\* overwritten by the answer to the label patch, nor a status patch left out
\* because the cache was behind, is the last word.
StatusSettled ==
  /\ stream = <<>> /\ ~queued /\ worker = Idle
  /\ mapping = {} /\ \A gk \in GroupKinds : crdStream[gk] = <<>>
  => UpToDate

\* Once users and failures stop, the status and the labels of a Karta become
\* right and stay right, through retries and through the requests that its own
\* patches cause.  A Karta whose labels the webhook refuses is retried forever,
\* with right conditions but for Ready, which the error path does not derive.
StatusConverges == <>[]UpToDate
===============================================================================
