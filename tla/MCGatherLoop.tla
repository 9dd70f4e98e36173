---------------------------- MODULE MCGatherLoop ----------------------------
(* Flows of two or three operators, each aimed at one part of the loop.    *)
EXTENDS GatherLoop

MCSubtypesOf == [Mail |-> {"Work", "Home"}, Work |-> {"Work"},
                 Home |-> {"Home"}, Risk |-> {"Risk"}]
MCTypeOf == [w |-> "Work", h |-> "Home", r |-> "Risk"]

Plain ==
    [operators |-> {"a", "b"}, aggregators |-> {}, interim |-> {},
     capabilities |-> {},
     depends_on |-> [n \in Node |-> {}], requires |-> [n \in Node |-> {}],
     uses |-> [o \in Operator |-> {}], produces |-> [o \in Operator |-> {}],
     consumes |-> [o \in Operator |-> {}],
     rerun |-> {}, added_only |-> {}, debounced |-> {},
     max_cycles |-> [o \in Operator |-> NoCap],
     max_attempts |-> [o \in Operator |-> 1],
     completes_when |-> {{}}, permits |-> {Operator}]

\* A source, and a consumer of an abstract type that reruns and retries.
Chain == [Plain EXCEPT
    !.produces = [@ EXCEPT !["a"] = {"Work"}],
    !.depends_on = [@ EXCEPT !["b"] = {"Mail"}],
    !.rerun = {"b"}, !.max_attempts = [@ EXCEPT !["b"] = 2]]

\* Two operators that feed each other, where the catalog permits both.
Cycle == [Plain EXCEPT
    !.produces = [@ EXCEPT !["a"] = {"Risk"}, !["b"] = {"Work"}],
    !.depends_on = [@ EXCEPT !["a"] = {"Work"}, !["b"] = {"Risk"}],
    !.rerun = {"a", "b"}, !.max_attempts = [@ EXCEPT !["b"] = 2],
    !.added_only = {"b"},
    !.max_cycles = [@ EXCEPT !["a"] = 2, !["b"] = 2],
    !.permits = {Operator, {"a"}}]

\* A capability that needs data, one layered on it, an operator that needs
\* both and reads what may never come.
Layered == [Plain EXCEPT
    !.capabilities = {"c", "d"},
    !.produces = [@ EXCEPT !["a"] = {"Home"}],
    !.depends_on = [@ EXCEPT !["c"] = {"Home"}],
    !.requires = [@ EXCEPT !["d"] = {"c"}, !["b"] = {"d"}],
    !.uses = [@ EXCEPT !["b"] = {"Risk"}],
    !.rerun = {"b"}, !.max_attempts = [@ EXCEPT !["b"] = 2]]

\* An interim aggregator and a debounced reader of optional data, in a flow
\* that waits for input.
Interim == [Plain EXCEPT
    !.aggregators = {"b"}, !.interim = {"b"},
    !.uses = [@ EXCEPT !["a"] = {"Mail"}, !["b"] = {"Mail"}],
    !.rerun = {"a", "b"}, !.added_only = {"a"}, !.debounced = {"a", "b"},
    !.completes_when = {{"Mail", "Risk"}, {"Home"}}]

\* Pruned to what the aggregator consumes.
Pruned == [Plain EXCEPT
    !.operators = Operator, !.aggregators = {"g"},
    !.consumes = [@ EXCEPT !["g"] = {"Risk"}],
    !.produces = [@ EXCEPT !["a"] = {"Home"}, !["b"] = {"Risk"}, !["e"] = {"Work"}],
    !.depends_on = [@ EXCEPT !["b"] = {"Home"}],
    !.rerun = {"b"}]

\* A loop through `uses`, ended by an operator that does not rerun.
Feedback == [Plain EXCEPT
    !.produces = [@ EXCEPT !["a"] = {"Home"}, !["b"] = {"Risk"}],
    !.uses = [@ EXCEPT !["a"] = {"Risk"}],
    !.depends_on = [@ EXCEPT !["b"] = {"Home"}],
    !.rerun = {"a"}]

MCFlows == {Chain, Cycle, Layered, Interim, Pruned, Feedback}

\* The sink needs b, b needs the capability, and the capability needs what a
\* produces.
Starved == [Plain EXCEPT
    !.operators = {"a", "b", "g"}, !.aggregators = {"g"},
    !.capabilities = {"c"},
    !.consumes = [@ EXCEPT !["g"] = {"Risk"}],
    !.produces = [@ EXCEPT !["a"] = {"Home"}, !["b"] = {"Risk"}],
    !.depends_on = [@ EXCEPT !["c"] = {"Home"}],
    !.requires = [@ EXCEPT !["b"] = {"c"}]]

MCPruningFlows == {Pruned, Starved}

MCDeliverable == [f \in MCFlows \cup MCPruningFlows |->
    CASE f = Chain -> {"h"} [] f = Interim -> {"h", "r"}
      [] f = Layered -> {"h"} [] OTHER -> {}]
=============================================================================
