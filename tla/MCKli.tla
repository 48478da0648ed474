------------------------------- MODULE MCKli -------------------------------
(***************************************************************************)
(* Kinds A and C are workloads, B is not.  C objects are owned by B or A   *)
(* objects, B objects by others.  At most one thing about the cluster is   *)
(* out of the ordinary.                                                    *)
(***************************************************************************)
EXTENDS Kli

Slot(kind, name) == [kind |-> kind, name |-> name]
MCSlots == {Slot("A", 1), Slot("B", 1), Slot("B", 2), Slot("C", 1), Slot("C", 2)}
MCMutable == {Slot("B", 1)}
Definition(name, kind, version) == [name |-> name, gvk |-> [kind |-> kind, version |-> version]]
MCCatalog == {Definition("a", "A", 1), Definition("c", "C", 1)}

Karta(def, readable) == [name |-> def.name, gvk |-> def.gvk, readable |-> readable]
Unmapped == [name |-> "u", gvk |-> Null, readable |-> TRUE]

Usual ==
  [access |-> [k \in Kinds |-> "list"], served |-> [k \in Kinds |-> {1}], failing |-> {}, kartas |-> {}]
MCClusters ==
  {Usual}
    \cup {[Usual EXCEPT !.access[k] = a] : k \in Kinds, a \in {"get", "none"}}
    \cup {[Usual EXCEPT !.served[k] = v] : k \in Kinds, v \in {{2}, {1, 2}}}
    \cup {[Usual EXCEPT !.served = [k \in Kinds |-> {2}]]}
    \cup {[Usual EXCEPT !.failing = {k}] : k \in Kinds}
    \cup {[Usual EXCEPT !.kartas = ks] :
            ks \in {{Karta(Definition("x", "C", 1), TRUE), Karta(Definition("y", "C", 1), TRUE)},
                    {Karta(Definition("x", "C", 2), TRUE), Unmapped},
                    {Karta(Definition("x", "B", 1), FALSE)}}}

MCForests ==
  LET a == NewObject(Slot("A", 1), 1, Null, {})
      b(n, owner) == NewObject(Slot("B", n), 1 + n, owner, {})
      c(n, owner, others) == NewObject(Slot("C", n), 3 + n, owner, others)
      toB2 == [slot |-> Slot("B", 2), uid |-> 3]
      toB1 == [slot |-> Slot("B", 1), uid |-> 2]
  IN  {{a, b(1, o1), b(2, o2), c(1, o3, {}), c(2, o4, others)} :
         o1 \in {Null, Ref(a), toB2}, o2 \in {Null, Ref(a)},
         o3 \in {Ref(a), toB1}, o4 \in {Null, toB1}, others \in {{}, {1}}}

MCCommands ==
  {[mode |-> "all-types", token |-> Null]}
    \cup {[mode |-> "type", token |-> [kind |-> k, version |-> v]] : k \in {"C"}, v \in {Null, 1}}
    \cup {[mode |-> "describe", token |-> [kind |-> "A", version |-> Null, name |-> 1]]}
=============================================================================
