---------------------------- MODULE KliDefinitions ----------------------------
(***************************************************************************)
(* The definitions the CLI looks types up in (cli/pkg/definitions and the  *)
(* resolution of a TYPE argument in cli/cmd/get.go and describe.go).       *)
(*                                                                         *)
(* A definition is [name, gvk, origin]; gvk is [kind, version], or Null    *)
(* when the definition names no kind or version.  The API group is left    *)
(* out: a kind stands for a group and kind.                                *)
(***************************************************************************)
EXTENDS Naturals, FiniteSets, Sequences

CONSTANT Null

\* mappable
Mappable(def) == def.gvk # Null

\* index: the definitions of one source.
Index(kartas, origin) == {[name |-> k.name, gvk |-> k.gvk, origin |-> origin] : k \in kartas}

\* New: a cluster definition replaces the built-in ones of its GVK; definitions
\* without a GVK are kept.
NewResolver(catalog, cluster) ==
  LET replaced == {d.gvk : d \in {c \in Index(cluster, "cluster") : Mappable(c)}}
  IN  {d \in Index(catalog, "catalog") : ~Mappable(d) \/ d.gvk \notin replaced}
        \cup Index(cluster, "cluster")

Claimants(resolver, gvk) == {d \in resolver : Mappable(d) /\ d.gvk = gvk}

\* Resolve fails when more than one definition claims the GVK.
Ambiguous(resolver, gvk) == Cardinality(Claimants(resolver, gvk)) > 1

ByRootKind(resolver, kind) == {d \in resolver : Mappable(d) /\ d.gvk.kind = kind}

\* Collisions: GVKs with several claimants; they are of one source, since a
\* source replaces the other.
Collisions(resolver) == {gvk \in {d.gvk : d \in resolver} \ {Null} : Ambiguous(resolver, gvk)}

\* Load: what could be read of the cluster's Kartas, merged into the catalog.
\* readable: this build can decode the Karta.
Decodable(kartas) == {k \in kartas : k.readable}
LoadResolver(catalog, kartas, outcome) ==
  NewResolver(catalog, IF outcome = "ok" THEN Decodable(kartas) ELSE {})

\* Without a cluster configured the built-in definitions are used in silence.
LoadWarns(kartas, outcome, resolver) ==
  \/ outcome \in {"absent", "forbidden", "unreachable"}
  \/ outcome = "ok" /\ Decodable(kartas) # kartas
  \/ Collisions(resolver) # {}

\* coveredVersions
CoveredKinds(resolver) == {d.gvk.kind : d \in {e \in resolver : Mappable(e)}}
CoveredVersions(resolver, kind) == {d.gvk.version : d \in ByRootKind(resolver, kind)}

-----------------------------------------------------------------------------
(* A TYPE argument: [kind, version], version Null when it is not given *)

\* External: the version the REST mapper takes, the most stable of those asked
\* for; versions are numbers.
Preferred(versions) == CHOOSE v \in versions : \A w \in versions : w <= v
KindFor(served, token) ==
  LET fitting == {v \in served[token.kind] : token.version \in {Null, v}}
  IN  IF fitting = {} THEN Null ELSE [kind |-> token.kind, version |-> Preferred(fitting)]

\* matchDefinitions
MatchDefinitions(resolver, token) ==
  {d \in ByRootKind(resolver, token.kind) : token.version \in {Null, d.gvk.version}}

OnlyOf(defs) == IF Cardinality(defs) = 1 THEN CHOOSE d \in defs : TRUE ELSE Null

\* resolveVia: what claims the kind discovery knows; a miss leaves nothing.
ResolveVia(resolver, served, token) ==
  LET gvk == KindFor(served, token)
  IN  IF gvk = Null THEN {} ELSE Claimants(resolver, gvk)

\* resolveTarget: discovery first, where a collision ends it, and a miss falls back
\* to the definitions.  Null: a usage or not-found exit.
ResolveTarget(resolver, served, token) ==
  LET via == ResolveVia(resolver, served, token)
  IN  OnlyOf(IF via # {} THEN via ELSE MatchDefinitions(resolver, token))
=============================================================================
