----------------------------- MODULE LiteGraph ------------------------------
(***************************************************************************)
(* What an orcastork_lite session declares and what is computed from the   *)
(* declarations alone (orcastork_lite/graph.py, capabilities.py): the      *)
(* graph with its cycles and caps, the pruning, readiness, availability.   *)
(* There is no registry of leaves here as in orcastork: matching is by     *)
(* issubclass, both ways round where a producer meets a need.              *)
(***************************************************************************)
EXTENDS Integers, FiniteSets, Relation

CONSTANTS Operator, Capability,
          Type,         \* DataPoint classes
          Subclass,     \* <<class, superclass>> pairs, types and capabilities
          NoCap         \* max_cycles of an operator that declares none

issubclass(x, y) == x = y \/ <<x, y>> \in Subclass

Node == Operator \cup Capability

FlowType ==
    [operators: SUBSET Operator,
     capabilities: SUBSET Capability,
     depends_on: [Node -> SUBSET Type],
     requires: [Node -> SUBSET Capability],
     uses: [Operator -> SUBSET Type],
     produces: [Operator -> SUBSET Type],
     consumes: [Operator -> SUBSET Type],
     rerun: SUBSET Operator,                \* policy.rerun_on_new_data
     added_only: SUBSET Operator,           \* policy.rerun_on
     debounce: [Operator -> Nat],
     timeout: [Operator -> Nat],            \* policy.timeout or the session's
     max_cycles: [Operator -> Nat \cup {NoCap}],
     max_attempts: [Operator -> Nat \ {0}], \* 1 where there is no policy.retry
     permits: SUBSET (SUBSET Operator)]     \* what the catalog may permit

\* The least subset of U that F maps into itself, F monotone.
Least(F(_), U) == {x \in U : \A S \in SUBSET U : F(S) \subseteq S => x \in S}

overlaps(produced, needed) ==
    issubclass(produced, needed) \/ issubclass(needed, produced)

feeds(f, o, needed) == \E p \in f.produces[o], t \in needed : overlaps(p, t)

Provided(classes, required) ==
    \A r \in required : \E c \in classes : issubclass(c, r)

-----------------------------------------------------------------------------
(* The graph, its cycles (Tarjan in the code) and their caps.              *)

build_edges(f) ==
    LET nodes == f.operators \cup f.capabilities
    IN  [x, y \in nodes |->
            \/ x \in Operator /\ feeds(f, x, f.depends_on[y])
            \/ x \in Capability /\ \E r \in f.requires[y] : issubclass(x, r)]

find_cycles(f) ==
    LET nodes == f.operators \cup f.capabilities
        reaches == TransitiveClosure(build_edges(f), nodes)
    IN  {{m \in nodes : reaches[n, m] /\ reaches[m, n]} :
            n \in {k \in nodes : reaches[k, k]}}

validate_acyclic_or_bounded(f) ==
    \A cycle \in find_cycles(f) :
        /\ cycle \cap Operator # {}
        /\ \A o \in cycle \cap Operator : f.max_cycles[o] # NoCap

cycle_caps(f) ==
    [o \in Operator |->
        IF o \in UNION find_cycles(f) THEN f.max_cycles[o] ELSE NoCap]

\* The operators that produce toward the sinks.  (The capabilities the code
\* also returns are not used by its caller.)
backward_reachable(f, sinks) ==
    LET Feeding(kept) ==
          {o \in f.operators :
              feeds(f, o, sinks \cup UNION {f.depends_on[k] : k \in kept})}
    IN  Least(Feeding, f.operators)

prune_to_consumed_closure(f) ==
    LET sinks == {o \in f.operators : f.consumes[o] # {}}
        types == UNION {f.consumes[o] \cup f.depends_on[o] : o \in sinks}
    IN  IF sinks = {} THEN f
        ELSE [f EXCEPT !.operators = sinks \cup backward_reachable(f, types)]

-----------------------------------------------------------------------------
(* Readiness and availability, given the classes present.                  *)

is_ready(f, o, present, available) ==
    /\ Provided(present, f.depends_on[o])
    /\ Provided(available, f.requires[o])

compute_available(f, permitted, present) ==
    LET Enabled(available) ==
          {c \in f.capabilities \cap permitted :
              /\ Provided(present, f.depends_on[c])
              /\ Provided(available, f.requires[c])}
    IN  Least(Enabled, f.capabilities)
=============================================================================
