------------------------- MODULE MCLiteOrchestrator -------------------------
(* Sessions of one to three operators, each aimed at one part of the      *)
(* loop, with a deadline and without, run timeouts of one and two ticks,   *)
(* one change of the catalog.                                              *)
EXTENDS LiteOrchestrator

MCSubclass == {<<"Work", "Mail">>, <<"Home", "Mail">>, <<"c", "Client">>}
MCTypeOf == [w |-> "Work", h |-> "Home", r |-> "Risk"]

Plain ==
    [operators |-> {"a", "b"}, capabilities |-> {},
     depends_on |-> [n \in Node |-> {}], requires |-> [n \in Node |-> {}],
     uses |-> [o \in Operator |-> {}], produces |-> [o \in Operator |-> {}],
     consumes |-> [o \in Operator |-> {}],
     rerun |-> {}, added_only |-> {},
     debounce |-> [o \in Operator |-> 0],
     timeout |-> [o \in Operator |-> IF o = "a" THEN 1 ELSE 2],
     max_cycles |-> [o \in Operator |-> NoCap],
     max_attempts |-> [o \in Operator |-> 1],
     permits |-> {Operator}]

\* A source and a consumer of a base class, the consumer rerunning on a window
\* and retrying.
Chain == [Plain EXCEPT
    !.produces = [@ EXCEPT !["a"] = {"Mail"}],
    !.depends_on = [@ EXCEPT !["b"] = {"Mail"}],
    !.rerun = {"b"}, !.debounce = [@ EXCEPT !["b"] = 1],
    !.max_attempts = [@ EXCEPT !["b"] = 2]]

\* A capability that needs data, one layered on it through its base class,
\* and an operator that needs the layer, retries, and uses optional data.
Gated == [Plain EXCEPT
    !.capabilities = {"c", "d"},
    !.produces = [@ EXCEPT !["a"] = {"Home"}],
    !.depends_on = [@ EXCEPT !["c"] = {"Home"}],
    !.requires = [@ EXCEPT !["d"] = {"Client"}, !["b"] = {"d"}],
    !.uses = [@ EXCEPT !["b"] = {"Mail"}], !.rerun = {"b"},
    !.max_attempts = [@ EXCEPT !["b"] = 2]]

\* Two operators that feed each other, where the catalog permits both.
Cycle == [Plain EXCEPT
    !.produces = [@ EXCEPT !["a"] = {"Risk"}, !["b"] = {"Work"}],
    !.depends_on = [@ EXCEPT !["a"] = {"Work"}, !["b"] = {"Risk"}],
    !.rerun = {"a", "b"}, !.added_only = {"b"},
    !.max_attempts = [@ EXCEPT !["b"] = 2],
    !.max_cycles = [@ EXCEPT !["a"] = 2, !["b"] = 2],
    !.permits = {Operator, {"a"}}]

\* Pruned to what a consumes: e is left out.
Pruned == [Plain EXCEPT
    !.operators = Operator,
    !.consumes = [@ EXCEPT !["b"] = {"Risk"}],
    !.produces = [@ EXCEPT !["a"] = {"Home"}, !["e"] = {"Work"}],
    !.depends_on = [@ EXCEPT !["b"] = {"Home"}]]

\* A cycle without a bound, which the constructor refuses.
Unbounded == [Cycle EXCEPT !.max_cycles = [@ EXCEPT !["a"] = NoCap]]

\* A folder: it reads its own previous output, which it uses and produces, and
\* reruns on a window.
SlowFolder == [Plain EXCEPT
    !.operators = {"a"},
    !.depends_on = [@ EXCEPT !["a"] = {"Work"}],
    !.uses = [@ EXCEPT !["a"] = {"Risk"}],
    !.produces = [@ EXCEPT !["a"] = {"Risk"}],
    !.rerun = {"a"}, !.debounce = [@ EXCEPT !["a"] = 1]]

MCSessions ==
    [flow: {Chain, Gated, Cycle, Pruned, Unbounded}, deadline: {2, None}]
        \cup {[flow |-> SlowFolder, deadline |-> 2]}
=============================================================================
