-------------------------- MODULE DependencyGraph ---------------------------
(***************************************************************************)
(* What a flow declares and what is computed from the declarations alone:  *)
(* the dependency graph with its cycles and the circuit-breaker caps, the  *)
(* pruning to what an aggregator consumes (orcastork/graph), readiness,    *)
(* capability availability and the quiescence check (orcastork/scheduling, *)
(* orcastork/capabilities).  A flow f is a record, see FlowType.           *)
(*                                                                         *)
(* The code computes its fixpoints by adding elements until nothing        *)
(* changes, and its cycles as strongly connected components (Tarjan).      *)
(* Here they are defined by what those loops compute.                      *)
(***************************************************************************)
EXTENDS Integers, FiniteSets, Relation

CONSTANTS Operator, Capability,
          Type,         \* DataPoint types, the abstract ones included
          Leaf,         \* the concrete ones
          SubtypesOf,   \* type -> the leaves that satisfy it (subtypes_of)
          NoCap         \* max_cycles of an operator that declares none

Node == Operator \cup Capability

FlowType ==
    [operators: SUBSET Operator,
     aggregators: SUBSET Operator,
     interim: SUBSET Operator,              \* interim_refresh aggregators
     capabilities: SUBSET Capability,
     depends_on: [Node -> SUBSET Type],
     requires: [Node -> SUBSET Capability],
     uses: [Operator -> SUBSET Type],
     produces: [Operator -> SUBSET Type],
     consumes: [Operator -> SUBSET Type],
     rerun: SUBSET Operator,                \* policy.rerun_on_new_data
     added_only: SUBSET Operator,           \* policy.rerun_on
     debounced: SUBSET Operator,            \* policy.debounce > 0
     max_cycles: [Operator -> Nat \cup {NoCap}],
     max_attempts: [Operator -> Nat \ {0}], \* 1 where there is no policy.retry
     completes_when: SUBSET (SUBSET Type),  \* any of these sets, all of its types
     permits: SUBSET (SUBSET Operator)]     \* what the catalog may permit a run

\* The least subset of U that F maps into itself, F monotone.
LeastFixpoint(F(_), U) ==
    {x \in U : \A S \in SUBSET U : F(S) \subseteq S => x \in S}

Satisfied(types, required) ==
    \A t \in required : types \cap SubtypesOf[t] # {}

\* An abstract type in `produces` stands for all its leaves.
effective_produces(f, o) == UNION {SubtypesOf[t] : t \in f.produces[o]}

Produced(f, ops) == UNION {effective_produces(f, o) : o \in ops}

-----------------------------------------------------------------------------
(* The dependency graph, its cycles, and their bounds.                     *)

Edge(f, x, y) ==
    \/ /\ x \in Operator
       /\ \E t \in f.depends_on[y] :
             effective_produces(f, x) \cap SubtypesOf[t] # {}
    \/ x \in f.requires[y]

Reaches(f, ops) ==
    LET nodes == ops \cup f.capabilities
    IN  TransitiveClosure([x, y \in nodes |-> Edge(f, x, y)], nodes)

\* Every node on a cycle, with the nodes it shares one with.
find_cycles(f, ops) ==
    LET reaches == Reaches(f, ops)
        nodes == ops \cup f.capabilities
    IN  {{m \in nodes : reaches[n, m] /\ reaches[m, n]} :
            n \in {k \in nodes : reaches[k, k]}}

validate_acyclic_or_bounded(f, ops) ==
    \A cycle \in find_cycles(f, ops) :
        /\ cycle \cap Operator # {}
        /\ \A o \in cycle \cap Operator : f.max_cycles[o] # NoCap

build_circuit_breaker(f, ops) ==
    [o \in Operator |->
        IF o \in UNION find_cycles(f, ops) THEN f.max_cycles[o] ELSE NoCap]

-----------------------------------------------------------------------------
(* Pruning: only operators whose output something consumes are gathered.   *)

\* Mutant: only direct producers of a sink are kept.
backward_reachable_direct(f, ops, sinks) ==
    {o \in ops : ~ effective_produces(f, o) \cap
                     UNION {SubtypesOf[t] : t \in sinks} = {}}

\* The kept operators.  (The code also returns capabilities, which its
\* caller does not use.)
backward_reachable(f, ops, sinks) ==
    LET Feeding(kept) ==
          LET needed == sinks \cup UNION {f.depends_on[o] : o \in kept}
          IN  {o \in ops : \E t \in needed :
                  effective_produces(f, o) \cap SubtypesOf[t] # {}}
    IN  LeastFixpoint(Feeding, ops)

\* An aggregator takes part in gathering only if it refreshes.
Unpruned(f) == (f.operators \ f.aggregators) \cup f.interim

gathering(f) ==
    LET declared == UNION {f.consumes[o] : o \in f.aggregators}
        sinks == declared \cup (UNION f.completes_when)
                          \cup UNION {f.depends_on[o] : o \in f.aggregators}
    IN  IF declared = {}
        THEN Unpruned(f)
        ELSE f.interim \cup
             backward_reachable(f, f.operators \ f.aggregators, sinks)

-----------------------------------------------------------------------------
(* Readiness, availability and quiescence, given the types present.        *)

is_ready(f, o, present, available) ==
    /\ Satisfied(present, f.depends_on[o])
    /\ f.requires[o] \subseteq available

compute_available(f, permitted, present) ==
    LET Enabled(available) ==
          {c \in f.capabilities \cap permitted :
              /\ Satisfied(present, f.depends_on[c])
              /\ f.requires[c] \subseteq available}
    IN  LeastFixpoint(Enabled, f.capabilities)

reachable_pending(f, pending, present, available) ==
    LET Admitted(reachable) ==
          {o \in pending :
              /\ Satisfied(present \cup Produced(f, reachable), f.depends_on[o])
              /\ f.requires[o] \subseteq available}
    IN  LeastFixpoint(Admitted, pending)

completion_satisfied(f, present) ==
    \E alternative \in f.completes_when : Satisfied(present, alternative)

-----------------------------------------------------------------------------
(* Reference: the operators of a set that can come to run, given data and  *)
(* permissions, capabilities becoming available on the way.                *)
Runnable(f, ops, present, permitted) ==
    LET Admitted(S) ==
          LET types == present \cup Produced(f, S)
          IN  {o \in ops :
                 /\ Satisfied(types, f.depends_on[o])
                 /\ f.requires[o] \subseteq
                      compute_available(f, permitted, types)}
    IN  LeastFixpoint(Admitted, ops)
=============================================================================
