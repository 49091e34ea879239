---------------------------- MODULE ServiceGraph ----------------------------
(***************************************************************************)
(* The dependency graph of the managed services                            *)
(* (appcore-supervisor/src/graph.rs, service.rs, health.rs): its           *)
(* validation and the depth-first order start_all, reconcile and shutdown  *)
(* walk.                                                                   *)
(***************************************************************************)
EXTENDS Integers, Sequences, FiniteSets, Functions, Retention

CONSTANT Names  \* all service names, in lexical order

Nodes == Range(Names)

ASSUME NamesAssumption ==
  /\ Names \in Seq(Nodes)
  /\ \A i, j \in DOMAIN Names : Names[i] = Names[j] => i = j

\* Compatibility dependencies, with_dependency's, are DegradedAllowed.
Accepts(requirement, health) ==
  CASE requirement = "Ready" -> health \in {"Ready", "Healthy"}
    [] requirement = "Healthy" -> health = "Healthy"
    [] requirement = "DegradedAllowed" -> health \in {"Ready", "Healthy", "Degraded"}
    [] requirement = "Optional" -> TRUE

\* validate_dependencies, of a graph that gives each registered name its
\* dependencies [service, requirement]: only an optional one may be missing.
DependenciesExist(graph) ==
  \A s \in DOMAIN graph : \A d \in graph[s] :
    d.service \in DOMAIN graph \/ d.requirement = "Optional"

\* A service's registered dependencies in lexical order (add_dependency sorts).
Targets(graph, s) ==
  Retained(Names, {i \in DOMAIN Names : /\ Names[i] \in DOMAIN graph
                                        /\ \E d \in graph[s] : d.service = Names[i]})

\* What a walk has so far: `order` holds the services that are done (permanent).
Walks == [order : Seq(Nodes), cycle : BOOLEAN]

\* One of the names a walk comes to: a name that is done is passed over, one on the path
\* (temporary) is a cycle, any other is done after what it depends on, which deeper[name]
\* walks.
VisitOne(deeper, temporary, name, walk) ==
  LET inner == deeper[name][walk] IN
  IF walk.cycle \/ name \in Range(walk.order) THEN walk
  ELSE IF name \in temporary THEN [walk EXCEPT !.cycle = TRUE]
  ELSE IF inner.cycle THEN inner
  ELSE [inner EXCEPT !.order = Append(@, name)]

\* The loops over names, which end at the first cycle.
VisitAll(deeper, temporary, names, walk) ==
  LET upto[i \in 0..Len(names)] ==
        IF i = 0 THEN walk ELSE VisitOne(deeper, temporary, names[i], upto[i - 1])
  IN upto[Len(names)]

\* visit, depth first: the walk of the dependencies of name, which joins the path.
Visits(graph) ==
  LET visit[temporary \in SUBSET Nodes] ==
        [name \in Nodes \ temporary |->
           [walk \in Walks |->
              LET path == temporary \cup {name}
              IN VisitAll(visit[path], path, Targets(graph, name), walk)]]
  IN visit

Walk(graph) ==
  VisitAll(Visits(graph)[{}], {},
           Retained(Names, {i \in DOMAIN Names : Names[i] \in DOMAIN graph}),
           [order |-> <<>>, cycle |-> FALSE])

TopologicalOrder(graph) == Walk(graph).order
GraphIsValid(graph) == DependenciesExist(graph) /\ ~Walk(graph).cycle
=============================================================================
