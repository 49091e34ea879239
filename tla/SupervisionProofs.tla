-------------------------- MODULE SupervisionProofs -------------------------
(***************************************************************************)
(* The supervisor.  Its service graph, for every set of services and every *)
(* dependencies between them: the depth-first order is topological, and a  *)
(* cycle is reported exactly of a graph that has one.  Its restarts, for   *)
(* any services, workers, budget, window and queues: an account of the     *)
(* attempts that were paid.  A managed thread whose lifecycle calls come   *)
(* one after the other, for any number of threads the factory creates, and *)
(* the watchdog, for any number of probes.                                 *)
(***************************************************************************)
EXTENDS Supervision, ManagedThread, Watchdog, DataInduction, FiniteSetTheorems

-----------------------------------------------------------------------------
(* The service graph: the walk exists.                                     *)

\* How many names are not on the path yet: it bounds the depth of the walk.
Depth(temporary) == Cardinality(Nodes \ temporary)

LEMMA DepthFacts ==
  /\ \A T \in SUBSET Nodes : Depth(T) \in Nat /\ Depth(T) <= Depth({})
  /\ \A T \in SUBSET Nodes : \A x \in Nodes \ T : Depth(T \cup {x}) = Depth(T) - 1
<1>1. IsFiniteSet(Nodes)
  <2>1. Names \in [1..Len(Names) -> Nodes] /\ Len(Names) \in Nat
    BY NamesAssumption
  <2>2. \A n \in Nodes : \E i \in 1..Len(Names) : Names[i] = n
    BY <2>1, NamesAssumption DEF Nodes, Range
  <2>3. Names \in Surjection(1..Len(Names), Nodes)
    BY <2>1, <2>2 DEF Surjection
  <2> QED BY <2>1, <2>3, FS_NatSurjection DEF ExistsSurjection
<1>2. ASSUME NEW T \in SUBSET Nodes
      PROVE  IsFiniteSet(Nodes \ T) /\ Cardinality(Nodes \ T) <= Cardinality(Nodes)
  <2>1. Nodes \ T \in SUBSET Nodes
    OBVIOUS
  <2> QED BY <1>1, <2>1, FS_Subset
<1>3. ASSUME NEW T \in SUBSET Nodes
      PROVE  Depth(T) \in Nat /\ Depth(T) <= Depth({})
  <2>1. Nodes \ {} = Nodes
    OBVIOUS
  <2> QED BY <1>2, <2>1, FS_CardinalityType DEF Depth
<1>4. ASSUME NEW T \in SUBSET Nodes, NEW x \in Nodes \ T
      PROVE  Depth(T \cup {x}) = Depth(T) - 1
  <2>1. Nodes \ (T \cup {x}) = (Nodes \ T) \ {x}
    OBVIOUS
  <2> QED BY <1>2, <2>1, FS_RemoveElement DEF Depth
<1> QED BY <1>3, <1>4

\* Induction from the longest path to the empty one.
LEMMA DepthInduction ==
  ASSUME NEW P, \A T \in SUBSET Nodes : (\A x \in Nodes \ T : T \cup {x} \in P) => T \in P
  PROVE  \A T \in SUBSET Nodes : T \in P
<1> DEFINE K == {k \in Nat : \A T \in SUBSET Nodes : Depth(T) < k => T \in P}
<1>1. 0 \in K
  BY DepthFacts
<1>2. ASSUME NEW k \in Nat, k \in K  PROVE k + 1 \in K
  <2>1. ASSUME NEW T \in SUBSET Nodes, Depth(T) < k + 1  PROVE T \in P
    <3>1. ASSUME NEW x \in Nodes \ T  PROVE T \cup {x} \in P
      <4>1. T \cup {x} \in SUBSET Nodes /\ Depth(T \cup {x}) < k
        BY <2>1, DepthFacts
      <4> QED BY <1>2, <4>1
    <3> QED BY <3>1
  <2> QED BY <2>1
<1> HIDE DEF K
<1>3. Nat \subseteq K
  BY <1>1, <1>2, SetInduction
<1>4. ASSUME NEW T \in SUBSET Nodes  PROVE T \in P
  <2>1. Depth(T) + 1 \in K /\ Depth(T) < Depth(T) + 1
    BY <1>3, DepthFacts
  <2> QED BY <2>1 DEF K
<1> QED BY <1>4

\* The walks of the names that are not on the path, given those of longer paths.
Level(graph, visit, temporary) ==
  [name \in Nodes \ temporary |->
     [walk \in Walks |->
        VisitAll(visit[temporary \cup {name}], temporary \cup {name}, Targets(graph, name), walk)]]

\* The recursion of visit is well-founded: the path grows, and the names are finite.
LEMMA VisitsDef ==
  ASSUME NEW graph
  PROVE  Visits(graph) = [T \in SUBSET Nodes |-> Level(graph, Visits(graph), T)]
<1> DEFINE Deep(k) == {T \in SUBSET Nodes : Depth(T) < k}
           Upto(k, f) == f = [T \in Deep(k) |-> Level(graph, f, T)]
           K == {k \in Nat : \E f : Upto(k, f)}
<1>0. Visits(graph) = CHOOSE f : f = [T \in SUBSET Nodes |-> Level(graph, f, T)]
  BY Zenon DEF Visits, Level
<1>1. 0 \in K
  <2> DEFINE f == [T \in {} |-> {}]
  <2>1. Deep(0) = {}
    BY DepthFacts
  <2>2. Upto(0, f)
    <3> HIDE DEF Deep
    <3> QED BY <2>1
  <2> HIDE DEF f, Upto
  <2> QED BY <2>2
<1>2. ASSUME NEW k \in Nat, k \in K  PROVE k + 1 \in K
  <2>1. PICK f : Upto(k, f)
    BY <1>2
  <2> DEFINE g == [T \in Deep(k + 1) |-> Level(graph, f, T)]
  <2>2. ASSUME NEW T \in Deep(k + 1), NEW x \in Nodes \ T  PROVE g[T \cup {x}] = f[T \cup {x}]
    <3>1. T \cup {x} \in Deep(k) /\ T \cup {x} \in Deep(k + 1)
      <4>1. /\ Depth(T) \in Nat /\ Depth(T) < k + 1 /\ Depth(T \cup {x}) = Depth(T) - 1
            /\ T \cup {x} \in SUBSET Nodes
        BY DepthFacts
      <4> QED BY <4>1
    <3>2. f[T \cup {x}] = Level(graph, f, T \cup {x})
      <4> HIDE DEF Deep
      <4> QED BY <2>1, <3>1, Zenon
    <3> QED BY <3>1, <3>2, Zenon
  <2>3. ASSUME NEW T \in Deep(k + 1)  PROVE Level(graph, f, T) = Level(graph, g, T)
    <3> HIDE DEF g
    <3> QED BY <2>2, Zenon DEF Level
  <2>4. Upto(k + 1, g)
    BY <2>3, Zenon
  <2>5. k + 1 \in Nat
    BY SMT
  <2> HIDE DEF g, Upto
  <2> QED BY <2>4, <2>5, Zenon
<1>3. Depth({}) + 1 \in K
  <2>1. Depth({}) + 1 \in Nat
    BY DepthFacts
  <2> HIDE DEF K
  <2> QED BY <1>1, <1>2, <2>1, SetInduction
<1>4. Deep(Depth({}) + 1) = SUBSET Nodes
  BY DepthFacts
<1>5. \E f : f = [T \in SUBSET Nodes |-> Level(graph, f, T)]
  BY <1>3, <1>4
<1> QED BY <1>0, <1>5, Zenon

\* What deeper gives for a name that is not on the path are walks.
Yields(deeper, temporary) ==
  \A name \in Nodes \ temporary : \A w \in Walks : deeper[name][w] \in Walks

\* The loop is computed by the recursion its definition writes down, and yields walks.
LEMMA VisitAllDef ==
  ASSUME NEW deeper, NEW temporary, NEW names \in Seq(Nodes), NEW walk \in Walks,
         Yields(deeper, temporary)
  PROVE  \E f \in [0..Len(names) -> Walks] :
           /\ f[0] = walk
           /\ \A i \in 1..Len(names) : f[i] = VisitOne(deeper, temporary, names[i], f[i - 1])
           /\ VisitAll(deeper, temporary, names, walk) = f[Len(names)]
<1> DEFINE n == Len(names)
           Moved(i, w) == VisitOne(deeper, temporary, names[i], w)
           Body(f) == [i \in 0..n |-> IF i = 0 THEN walk ELSE Moved(i, f[i - 1])]
           upto == CHOOSE f : f = Body(f)
           step == [i \in 1..n |-> [w \in Walks |-> Moved(i, w)]]
<1>1. n \in Nat /\ \A i \in 1..n : names[i] \in Nodes
  OBVIOUS
<1>2. VisitAll(deeper, temporary, names, walk) = upto[n]
  BY Zenon DEF VisitAll
<1>3. ASSUME NEW i \in 1..n, NEW w \in Walks  PROVE Moved(i, w) \in Walks
  <2> DEFINE name == names[i] inner == deeper[name][w]
  <2>1. name \in Nodes
    BY <1>1
  <2> HIDE DEF name, inner
  <2>2. w \in Walks /\ [w EXCEPT !.cycle = TRUE] \in Walks
    BY DEF Walks
  <2>3. ASSUME inner \in Walks  PROVE [inner EXCEPT !.order = Append(inner.order, name)] \in Walks
    <3>1. inner.order \in Seq(Nodes) /\ inner \in [order : Seq(Nodes), cycle : BOOLEAN]
      BY <2>3 DEF Walks
    <3>2. Append(inner.order, name) \in Seq(Nodes)
      BY <2>1, <3>1
    <3> DEFINE longer == Append(inner.order, name)
    <3> HIDE DEF longer
    <3>3. [inner EXCEPT !.order = longer] \in Walks
      BY <3>1, <3>2 DEF Walks, longer
    <3> QED BY <3>3 DEF longer
  <2>4. name \notin temporary => inner \in Walks
    BY <2>1 DEF inner, Yields
  <2>5. Moved(i, w) = IF w.cycle \/ name \in Range(w.order) THEN w
                    ELSE IF name \in temporary THEN [w EXCEPT !.cycle = TRUE]
                    ELSE IF inner.cycle THEN inner
                    ELSE [inner EXCEPT !.order = Append(inner.order, name)]
    BY DEF VisitOne, name, inner
  <2> HIDE DEF Moved
  <2> QED BY <2>2, <2>3, <2>4, <2>5, Zenon
<1> HIDE DEF n, Moved
<1>5. step \in [1..n -> [Walks -> Walks]]
  BY <1>3
<1>6. \A i \in 1..n : \A w \in Walks : step[i][w] = Moved(i, w)
  OBVIOUS
<1> HIDE DEF step
<1>7. PICK g \in [0..n -> Walks] : g[0] = walk /\ \A i \in 1..n : g[i] = step[i][g[i - 1]]
  <2>1. n \in Nat /\ walk \in Walks
    BY <1>1
  <2> QED BY ONLY <1>5, <2>1, Recursion
<1>8. \A i \in 1..n : i - 1 \in 0..n
  BY <1>1
<1>9. \A i \in 1..n : g[i] = Moved(i, g[i - 1])
  BY <1>6, <1>7, <1>8
<1>10. g = Body(g)
  <2>1. \A i \in 0..n : Body(g)[i] = g[i]
    <3>1. \A i \in 0..n : i = 0 \/ i \in 1..n
      BY <1>1
    <3>2. 0 \in 0..n /\ \A i \in 1..n : i \in 0..n /\ i # 0
      BY <1>1
    <3> QED BY <1>7, <1>9, <3>1, <3>2
  <2>2. DOMAIN Body(g) = 0..n /\ Body(g) = [i \in 0..n |-> Body(g)[i]]
    OBVIOUS
  <2> HIDE DEF Body
  <2> QED BY <1>7, <2>1, <2>2
<1>11. upto = Body(upto)
  <2> HIDE DEF Body
  <2> QED BY <1>10, Zenon
<1> HIDE DEF upto
<1>12. upto[0] = walk
  BY <1>1, <1>11
<1>13. ASSUME NEW i \in 1..n  PROVE upto[i] = Moved(i, upto[i - 1])
  <2>1. i \in 0..n /\ i # 0
    BY <1>1
  <2>2. upto[i] = Body(upto)[i]
    BY <1>11, Zenon
  <2> QED BY <2>1, <2>2
<1>14. upto \in [0..n -> Walks]
  <2> DEFINE T == {i \in Nat : i <= n => upto[i] \in Walks}
  <2>1. 0 \in T
    BY <1>12
  <2>2. ASSUME NEW i \in Nat, i \in T  PROVE i + 1 \in T
    <3>1. SUFFICES ASSUME i + 1 <= n  PROVE upto[i + 1] \in Walks
      OBVIOUS
    <3>2. i + 1 \in 1..n /\ (i + 1) - 1 = i /\ upto[i] \in Walks
      BY <1>1, <2>2, <3>1
    <3> QED BY <1>3, <1>13, <3>2
  <2> HIDE DEF T
  <2>3. Nat \subseteq T
    BY <2>1, <2>2, SetInduction
  <2>4. \A i \in 0..n : upto[i] \in Walks
    BY <1>1, <2>3 DEF T
  <2>5. upto = [i \in 0..n |-> upto[i]]
    BY <1>11
  <2> QED BY <2>4, <2>5
<1> QED BY <1>2, <1>12, <1>13, <1>14, Zenon DEF n, Moved

LEMMA VisitAllType ==
  ASSUME NEW deeper, NEW temporary, NEW names \in Seq(Nodes), NEW walk \in Walks,
         Yields(deeper, temporary)
  PROVE  VisitAll(deeper, temporary, names, walk) \in Walks
<1>1. PICK f \in [0..Len(names) -> Walks] :
             VisitAll(deeper, temporary, names, walk) = f[Len(names)]
  BY VisitAllDef
<1>2. Len(names) \in 0..Len(names)
  OBVIOUS
<1> QED BY <1>1, <1>2

\* The registered services that s depends on.
Needs(graph, s) == {n \in Nodes \cap DOMAIN graph : \E d \in graph[s] : d.service = n}

LEMMA NamesRetained ==
  ASSUME NEW keep, keep \subseteq DOMAIN Names
  PROVE  /\ Retained(Names, keep) \in Seq(Nodes)
         /\ \A x : (\E i \in DOMAIN Retained(Names, keep) : Retained(Names, keep)[i] = x)
                     <=> (\E i \in keep : Names[i] = x)
<1>1. Names \in Seq(Nodes)
  BY NamesAssumption
<1>2. Retained(Names, keep) \in Seq(Nodes) /\ Elements(Retained(Names, keep), Names, keep)
  BY ONLY keep \subseteq DOMAIN Names, <1>1, RetainedElements
<1> DEFINE r == Retained(Names, keep)
<1> HIDE DEF r
<1>3. r \in Seq(Nodes) /\ Elements(r, Names, keep)
  BY <1>2 DEF r
<1>4. \A x : (\E i \in DOMAIN r : r[i] = x) <=> (\E i \in keep : Names[i] = x)
  BY ONLY <1>3, Zenon DEF Elements
<1> QED BY <1>3, <1>4 DEF r

LEMMA TargetsFacts ==
  ASSUME NEW graph, NEW s
  PROVE  /\ Targets(graph, s) \in Seq(Nodes)
         /\ \A x : (\E i \in DOMAIN Targets(graph, s) : Targets(graph, s)[i] = x)
                     <=> x \in Needs(graph, s)
<1> DEFINE keep == {i \in DOMAIN Names : /\ Names[i] \in DOMAIN graph
                                         /\ \E d \in graph[s] : d.service = Names[i]}
           r == Retained(Names, keep)
<1>1. r \in Seq(Nodes) /\ \A x : (\E i \in DOMAIN r : r[i] = x) <=> (\E i \in keep : Names[i] = x)
  <2>1. Names \in Seq(Nodes) /\ keep \subseteq DOMAIN Names
    BY NamesAssumption
  <2> HIDE DEF keep
  <2> QED BY <2>1, NamesRetained
<1>2. \A x : (\E i \in keep : Names[i] = x) <=> x \in Needs(graph, s)
  BY NamesAssumption DEF Needs, Nodes, Range
<1>3. r = Targets(graph, s)
  BY DEF Targets
<1> HIDE DEF r, keep
<1> QED BY <1>1, <1>2, <1>3

\* What visit does for a name that joins the path.
LEMMA VisitStep ==
  ASSUME NEW graph, NEW T \in SUBSET Nodes, NEW name \in Nodes \ T, NEW w \in Walks
  PROVE  Visits(graph)[T][name][w] =
           VisitAll(Visits(graph)[T \cup {name}], T \cup {name}, Targets(graph, name), w)
<1> DEFINE visits == Visits(graph)
<1>1. visits = [S \in SUBSET Nodes |-> Level(graph, visits, S)]
  BY VisitsDef
<1> HIDE DEF visits
<1>2. visits[T] = Level(graph, visits, T)
  BY <1>1, Zenon
<1> DEFINE Inner(n, v) == VisitAll(visits[T \cup {n}], T \cup {n}, Targets(graph, n), v)
<1>a. visits[T] = [n \in Nodes \ T |-> [v \in Walks |-> Inner(n, v)]]
  BY <1>2 DEF Level
<1> HIDE DEF Inner
<1>b. visits[T][name] = [v \in Walks |-> Inner(name, v)]
  BY <1>a
<1>3. visits[T][name][w] = Inner(name, w)
  BY <1>b
<1> QED BY <1>3 DEF visits, Inner

LEMMA VisitsType ==
  ASSUME NEW graph, NEW T \in SUBSET Nodes
  PROVE  Yields(Visits(graph)[T], T)
<1> DEFINE P == {S \in SUBSET Nodes : Yields(Visits(graph)[S], S)}
<1>1. ASSUME NEW S \in SUBSET Nodes, \A x \in Nodes \ S : S \cup {x} \in P
      PROVE  S \in P
  <2>1. ASSUME NEW name \in Nodes \ S, NEW w \in Walks  PROVE Visits(graph)[S][name][w] \in Walks
    <3>1. Yields(Visits(graph)[S \cup {name}], S \cup {name})
      BY <1>1
    <3>2. Targets(graph, name) \in Seq(Nodes)
      BY TargetsFacts
    <3> DEFINE path == S \cup {name} deeper == Visits(graph)[path]
    <3>3. Visits(graph)[S][name][w] = VisitAll(deeper, path, Targets(graph, name), w)
      BY VisitStep
    <3>4. Yields(deeper, path)
      BY <3>1
    <3> HIDE DEF path, deeper
    <3> QED BY <3>2, <3>3, <3>4, VisitAllType
  <2> QED BY <2>1 DEF Yields
<1> HIDE DEF P
<1>2. \A S \in SUBSET Nodes : S \in P
  BY <1>1, DepthInduction
<1> QED BY <1>2 DEF P

-----------------------------------------------------------------------------
(* The service graph: the order is topological.                            *)

\* A list of services without repetition in which each comes after those it needs.
Topological(graph, order) ==
  /\ \A i, j \in DOMAIN order : order[i] = order[j] => i = j
  /\ \A i \in DOMAIN order : order[i] \in DOMAIN graph
  /\ \A i \in DOMAIN order : \A n \in Needs(graph, order[i]) : \E j \in 1..(i - 1) : order[j] = n

\* A walk that met no cycle lists what is done, and nothing of the path.
Sound(graph, walk, temporary) ==
  \/ walk.cycle
  \/ Topological(graph, walk.order) /\ Range(walk.order) \cap temporary = {}

Covers(walk, nodes) == walk.cycle \/ nodes \subseteq Range(walk.order)

\* deeper lists what a name needs and keeps what was listed.
Leads(graph, deeper, temporary) ==
  \A name \in (Nodes \cap DOMAIN graph) \ temporary : \A w \in Walks :
    ~w.cycle /\ Sound(graph, w, temporary \cup {name}) =>
      /\ Sound(graph, deeper[name][w], temporary \cup {name})
      /\ Covers(deeper[name][w], Range(w.order) \cup Needs(graph, name))

\* A service is listed after what it needs.
LEMMA AppendTopological ==
  ASSUME NEW graph, NEW order \in Seq(Nodes), NEW name \in Nodes \cap DOMAIN graph,
         Topological(graph, order), Needs(graph, name) \subseteq Range(order),
         name \notin Range(order)
  PROVE  /\ Topological(graph, Append(order, name))
         /\ Range(Append(order, name)) = Range(order) \cup {name}
<1> DEFINE longer == Append(order, name) n == Len(order)
<1>1. /\ n \in Nat /\ DOMAIN order = 1..n /\ DOMAIN longer = 1..(n + 1)
      /\ longer[n + 1] = name /\ \A i \in 1..n : longer[i] = order[i]
  BY AppendProperties
<1>2. \A x : x \in Range(order) <=> \E i \in 1..n : order[i] = x
  BY <1>1 DEF Range
<1>3. \A i \in 1..(n + 1) : i \in 1..n \/ i = n + 1
  BY <1>1
<1>3a. n + 1 \notin 1..n /\ n + 1 \in 1..(n + 1) /\ 1..n \subseteq 1..(n + 1) /\ (n + 1) - 1 = n
  BY <1>1
<1> HIDE DEF longer, n
<1>4. Range(longer) = Range(order) \cup {name}
  <2>1. \A x : x \in Range(longer) <=> \E i \in 1..(n + 1) : longer[i] = x
    BY <1>1 DEF Range
  <2> QED BY <1>1, <1>2, <1>3, <1>3a, <2>1
<1>5. \A i, j \in DOMAIN longer : longer[i] = longer[j] => i = j
  BY <1>1, <1>2, <1>3 DEF Topological
<1>6. \A i \in DOMAIN longer : longer[i] \in DOMAIN graph
  BY <1>1, <1>3 DEF Topological
<1>7. ASSUME NEW i \in DOMAIN longer, NEW m \in Needs(graph, longer[i])
      PROVE  \E j \in 1..(i - 1) : longer[j] = m
  <2>1. CASE i \in 1..n
    <3>1. PICK j \in 1..(i - 1) : order[j] = m
      BY <1>1, <1>7, <2>1 DEF Topological
    <3>2. j \in 1..n
      BY <1>1, <2>1
    <3> QED BY <1>1, <3>1, <3>2
  <2>2. CASE i = n + 1
    <3>1. PICK j \in 1..n : order[j] = m
      BY <1>1, <1>2, <1>7, <2>2
    <3> QED BY <1>1, <1>3a, <2>2, <3>1
  <2> QED BY <1>1, <1>3, <2>1, <2>2
<1> QED BY <1>4, <1>5, <1>6, <1>7 DEF Topological, longer

LEMMA VisitOneSound ==
  ASSUME NEW graph, NEW deeper, NEW T \in SUBSET Nodes, NEW name \in Nodes \cap DOMAIN graph,
         NEW w \in Walks, Yields(deeper, T), Leads(graph, deeper, T), Sound(graph, w, T)
  PROVE  /\ Sound(graph, VisitOne(deeper, T, name, w), T)
         /\ Covers(VisitOne(deeper, T, name, w), Range(w.order) \cup {name})
         /\ w.cycle => VisitOne(deeper, T, name, w).cycle
<1> DEFINE inner == deeper[name][w] r == VisitOne(deeper, T, name, w)
<1>0. SUFFICES /\ Sound(graph, r, T) /\ Covers(r, Range(w.order) \cup {name})
               /\ w.cycle => r.cycle
  OBVIOUS
<1>1. CASE w.cycle \/ name \in Range(w.order)
  <2>1. r = w
    BY <1>1 DEF VisitOne
  <2> HIDE DEF r
  <2> QED BY <1>1, <2>1 DEF Covers
<1>2. CASE ~w.cycle /\ name \notin Range(w.order) /\ name \in T
  <2>1. r = [w EXCEPT !.cycle = TRUE]
    BY <1>2 DEF VisitOne
  <2>2. r.cycle
    BY <2>1 DEF Walks
  <2> HIDE DEF r
  <2> QED BY <1>2, <2>2 DEF Sound, Covers
<1>3. CASE ~w.cycle /\ name \notin Range(w.order) /\ name \notin T
  <2>1. Sound(graph, w, T \cup {name})
    BY <1>3 DEF Sound
  <2>2. /\ Sound(graph, inner, T \cup {name}) /\ inner \in Walks
        /\ Covers(inner, Range(w.order) \cup Needs(graph, name))
    BY <1>3, <2>1 DEF Leads, Yields
  <2>3. r = IF inner.cycle THEN inner ELSE [inner EXCEPT !.order = Append(inner.order, name)]
    BY <1>3 DEF VisitOne
  <2> HIDE DEF inner, r
  <2>4. CASE inner.cycle
    BY <1>3, <2>3, <2>4 DEF Sound, Covers
  <2>5. CASE ~inner.cycle
    <3> DEFINE longer == Append(inner.order, name)
    <3>1. inner.order \in Seq(Nodes)
      BY <2>2 DEF Walks
    <3>2. /\ Topological(graph, inner.order) /\ Range(inner.order) \cap (T \cup {name}) = {}
          /\ Range(w.order) \cup Needs(graph, name) \subseteq Range(inner.order)
      BY <2>2, <2>5 DEF Sound, Covers
    <3>3. Topological(graph, longer) /\ Range(longer) = Range(inner.order) \cup {name}
      BY <3>1, <3>2, AppendTopological
    <3> HIDE DEF longer
    <3>4. r = [inner EXCEPT !.order = longer]
      BY <2>3, <2>5 DEF longer
    <3>5. r.order = longer /\ ~r.cycle
      BY <2>2, <2>5, <3>4 DEF Walks
    <3> QED BY <1>3, <3>2, <3>3, <3>5 DEF Sound, Covers
  <2> QED BY <2>4, <2>5
<1> QED BY <1>1, <1>2, <1>3

LEMMA VisitAllSound ==
  ASSUME NEW graph, NEW deeper, NEW T \in SUBSET Nodes, NEW names \in Seq(Nodes),
         \A i \in DOMAIN names : names[i] \in DOMAIN graph,
         NEW w \in Walks, Yields(deeper, T), Leads(graph, deeper, T), Sound(graph, w, T)
  PROVE  /\ Sound(graph, VisitAll(deeper, T, names, w), T)
         /\ Covers(VisitAll(deeper, T, names, w), Range(w.order) \cup Range(names))
<1> DEFINE n == Len(names)
           Some(i) == {names[j] : j \in 1..i}
<1>1. n \in Nat /\ DOMAIN names = 1..n /\ \A i \in 1..n : names[i] \in Nodes \cap DOMAIN graph
  OBVIOUS
<1>2. PICK f \in [0..n -> Walks] :
        /\ f[0] = w
        /\ \A i \in 1..n : f[i] = VisitOne(deeper, T, names[i], f[i - 1])
        /\ VisitAll(deeper, T, names, w) = f[n]
  BY VisitAllDef
<1> DEFINE K == {i \in Nat : i <= n => /\ Sound(graph, f[i], T)
                                       /\ Covers(f[i], Range(w.order) \cup Some(i))}
<1> HIDE DEF n
<1>3. 0 \in K
  <2>1. Some(0) = {}
    OBVIOUS
  <2>2. Covers(w, Range(w.order) \cup Some(0))
    BY <2>1 DEF Covers
  <2> QED BY <1>2, <2>2
<1>4. ASSUME NEW i \in Nat, i \in K  PROVE i + 1 \in K
  <2>1. SUFFICES ASSUME i + 1 <= n
                 PROVE  /\ Sound(graph, f[i + 1], T)
                        /\ Covers(f[i + 1], Range(w.order) \cup Some(i + 1))
    OBVIOUS
  <2>2. /\ i + 1 \in 1..n /\ (i + 1) - 1 = i /\ i \in 0..n
        /\ Sound(graph, f[i], T) /\ Covers(f[i], Range(w.order) \cup Some(i))
    BY <1>1, <1>4, <2>1
  <2>3. /\ names[i + 1] \in Nodes \cap DOMAIN graph /\ f[i] \in Walks
        /\ f[i + 1] = VisitOne(deeper, T, names[i + 1], f[i])
    BY <1>1, <1>2, <2>2
  <2>4. /\ Sound(graph, f[i + 1], T)
        /\ Covers(f[i + 1], Range(f[i].order) \cup {names[i + 1]})
        /\ f[i].cycle => f[i + 1].cycle
    <3> DEFINE name == names[i + 1] done == f[i]
    <3>1. name \in Nodes \cap DOMAIN graph /\ done \in Walks /\ Sound(graph, done, T)
      BY <2>2, <2>3
    <3> HIDE DEF name, done
    <3>2. /\ Sound(graph, VisitOne(deeper, T, name, done), T)
          /\ Covers(VisitOne(deeper, T, name, done), Range(done.order) \cup {name})
          /\ done.cycle => VisitOne(deeper, T, name, done).cycle
      BY <3>1, VisitOneSound
    <3> QED BY <2>3, <3>2 DEF name, done
  <2>5. Some(i + 1) = Some(i) \cup {names[i + 1]}
    BY <1>1, <2>2
  <2> HIDE DEF Some
  <2>6. Covers(f[i + 1], Range(w.order) \cup Some(i + 1))
    BY <2>2, <2>4, <2>5 DEF Covers
  <2> QED BY <2>4, <2>6
<1> HIDE DEF K
<1>5. n \in K
  BY <1>1, <1>3, <1>4, SetInduction
<1>6. Some(n) = Range(names)
  BY <1>1 DEF Range
<1> HIDE DEF Some
<1>7. Sound(graph, f[n], T) /\ Covers(f[n], Range(w.order) \cup Some(n))
  BY <1>1, <1>5 DEF K
<1> QED BY <1>2, <1>6, <1>7

LEMMA VisitsSound ==
  ASSUME NEW graph, NEW T \in SUBSET Nodes
  PROVE  Leads(graph, Visits(graph)[T], T)
<1> DEFINE P == {S \in SUBSET Nodes : Leads(graph, Visits(graph)[S], S)}
<1>1. ASSUME NEW S \in SUBSET Nodes, \A x \in Nodes \ S : S \cup {x} \in P
      PROVE  S \in P
  <2>1. ASSUME NEW name \in (Nodes \cap DOMAIN graph) \ S, NEW w \in Walks,
               Sound(graph, w, S \cup {name})
        PROVE  /\ Sound(graph, Visits(graph)[S][name][w], S \cup {name})
               /\ Covers(Visits(graph)[S][name][w], Range(w.order) \cup Needs(graph, name))
    <3> DEFINE path == S \cup {name} deeper == Visits(graph)[path]
               names == Targets(graph, name)
    <3>1. path \in SUBSET Nodes /\ Leads(graph, deeper, path)
      BY <1>1
    <3>2. Yields(deeper, path)
      BY <3>1, VisitsType
    <3>3. Visits(graph)[S][name][w] = VisitAll(deeper, path, names, w)
      BY VisitStep
    <3>4. names \in Seq(Nodes) /\ \A x : (\E i \in DOMAIN names : names[i] = x) <=> x \in Needs(graph, name)
      BY TargetsFacts
    <3>5. Sound(graph, w, path)
      BY <2>1
    <3> HIDE DEF path, deeper, names
    <3>6. Range(names) = Needs(graph, name)
      BY <3>4 DEF Range
    <3>7. \A i \in DOMAIN names : names[i] \in DOMAIN graph
      BY <3>4 DEF Needs
    <3>8. /\ Sound(graph, VisitAll(deeper, path, names, w), path)
          /\ Covers(VisitAll(deeper, path, names, w), Range(w.order) \cup Range(names))
      BY <3>1, <3>2, <3>4, <3>5, <3>7, VisitAllSound
    <3> QED BY <3>3, <3>6, <3>8 DEF path
  <2> QED BY <2>1 DEF Leads
<1> HIDE DEF P
<1>2. \A S \in SUBSET Nodes : S \in P
  BY <1>1, DepthInduction
<1> QED BY <1>2 DEF P

-----------------------------------------------------------------------------
(* The service graph: a cycle is reported only where there is one.         *)

\* A rank that decreases along the dependencies, as a graph without a cycle has.
Ranks(graph) ==
  {rank \in [DOMAIN graph -> Nat] :
     \A s \in DOMAIN graph : \A n \in Needs(graph, s) : rank[n] < rank[s]}

Below(rank, name, temporary) == \A t \in temporary : rank[name] < rank[t]

\* deeper meets no cycle below the path.
Frees(graph, rank, deeper, temporary) ==
  \A name \in Nodes \cap DOMAIN graph : Below(rank, name, temporary) =>
    \A w \in Walks : ~w.cycle => ~deeper[name][w].cycle

LEMMA VisitAllFree ==
  ASSUME NEW graph, NEW rank \in Ranks(graph), NEW deeper, NEW T \in SUBSET (Nodes \cap DOMAIN graph),
         NEW names \in Seq(Nodes), NEW w \in Walks, ~w.cycle, Yields(deeper, T),
         \A i \in DOMAIN names : names[i] \in DOMAIN graph /\ Below(rank, names[i], T),
         Frees(graph, rank, deeper, T)
  PROVE  ~VisitAll(deeper, T, names, w).cycle
<1> DEFINE n == Len(names)
<1>1. n \in Nat /\ DOMAIN names = 1..n
  OBVIOUS
<1>2. PICK f \in [0..n -> Walks] :
        /\ f[0] = w
        /\ \A i \in 1..n : f[i] = VisitOne(deeper, T, names[i], f[i - 1])
        /\ VisitAll(deeper, T, names, w) = f[n]
  BY VisitAllDef
<1> DEFINE K == {i \in Nat : i <= n => ~f[i].cycle}
<1>3. 0 \in K
  BY <1>2
<1>4. ASSUME NEW i \in Nat, i \in K  PROVE i + 1 \in K
  <2>1. SUFFICES ASSUME i + 1 <= n  PROVE ~f[i + 1].cycle
    OBVIOUS
  <2> DEFINE name == names[i + 1] done == f[i] inner == deeper[name][done]
  <2>2. i + 1 \in 1..n /\ (i + 1) - 1 = i /\ i \in 0..n /\ ~done.cycle
    BY <1>1, <1>4, <2>1
  <2>3. /\ name \in Nodes \cap DOMAIN graph /\ done \in Walks /\ Below(rank, name, T)
        /\ f[i + 1] = VisitOne(deeper, T, name, done)
    BY <1>1, <1>2, <2>2
  <2>4. ~inner.cycle
    BY <2>2, <2>3 DEF Frees
  <2>5. name \notin T
    BY <2>3 DEF Below, Ranks
  <2>6. inner \in Walks
    BY <2>3, <2>5 DEF Yields
  <2>7. f[i + 1] = IF name \in Range(done.order) THEN done
                   ELSE [inner EXCEPT !.order = Append(inner.order, name)]
    BY <2>2, <2>3, <2>4, <2>5 DEF VisitOne
  <2> HIDE DEF inner, done, name
  <2>8. [inner EXCEPT !.order = Append(inner.order, name)].cycle = inner.cycle
    BY <2>6 DEF Walks
  <2> QED BY <2>2, <2>4, <2>7, <2>8
<1> HIDE DEF K
<1>5. n \in K
  BY <1>1, <1>3, <1>4, SetInduction
<1> QED BY <1>1, <1>2, <1>5 DEF K

LEMMA VisitsFree ==
  ASSUME NEW graph, NEW rank \in Ranks(graph), NEW T \in SUBSET Nodes, T \subseteq DOMAIN graph
  PROVE  Frees(graph, rank, Visits(graph)[T], T)
<1> DEFINE P == {S \in SUBSET Nodes : S \subseteq DOMAIN graph =>
                                        Frees(graph, rank, Visits(graph)[S], S)}
<1>1. ASSUME NEW S \in SUBSET Nodes, \A x \in Nodes \ S : S \cup {x} \in P
      PROVE  S \in P
  <2>1. ASSUME S \subseteq DOMAIN graph, NEW name \in Nodes \cap DOMAIN graph,
               Below(rank, name, S), NEW w \in Walks, ~w.cycle
        PROVE  ~Visits(graph)[S][name][w].cycle
    <3> DEFINE path == S \cup {name} deeper == Visits(graph)[path]
               names == Targets(graph, name)
    <3>0. name \notin S
      BY <2>1 DEF Below, Ranks
    <3>1. path \in SUBSET (Nodes \cap DOMAIN graph) /\ Frees(graph, rank, deeper, path)
      BY <1>1, <2>1, <3>0
    <3>2. Yields(deeper, path)
      BY <3>1, VisitsType
    <3>3. Visits(graph)[S][name][w] = VisitAll(deeper, path, names, w)
      BY <3>0, VisitStep
    <3>4. names \in Seq(Nodes) /\ \A i \in DOMAIN names : names[i] \in Needs(graph, name)
      BY TargetsFacts
    <3>5. ASSUME NEW m \in Needs(graph, name)  PROVE m \in DOMAIN graph /\ Below(rank, m, path)
      <4>1. m \in DOMAIN graph /\ rank[m] < rank[name] /\ rank \in [DOMAIN graph -> Nat]
        BY DEF Needs, Ranks
      <4>2. ASSUME NEW t \in path  PROVE rank[m] < rank[t]
        BY <2>1, <4>1 DEF Below
      <4> QED BY <4>1, <4>2 DEF Below
    <3> HIDE DEF path, deeper, names
    <3>6. \A i \in DOMAIN names : names[i] \in DOMAIN graph /\ Below(rank, names[i], path)
      BY <3>4, <3>5
    <3>7. ~VisitAll(deeper, path, names, w).cycle
      BY <2>1, <3>1, <3>2, <3>4, <3>6, VisitAllFree
    <3> QED BY <3>3, <3>7
  <2> QED BY <2>1 DEF Frees
<1> HIDE DEF P
<1>2. \A S \in SUBSET Nodes : S \in P
  BY <1>1, DepthInduction
<1> QED BY <1>2 DEF P

\* topological_order (graph.rs), for every set of services: the order has each service
\* once, after every registered service it depends on, unless a cycle is reported; and
\* one is reported only of a graph whose dependencies cannot be ranked.
THEOREM OrderIsTopological ==
  ASSUME NEW graph, DOMAIN graph \subseteq Nodes
  PROVE  /\ ~Walk(graph).cycle =>
              /\ TopologicalOrder(graph) \in Seq(DOMAIN graph)
              /\ Range(TopologicalOrder(graph)) = DOMAIN graph
              /\ Topological(graph, TopologicalOrder(graph))
         /\ ~Walk(graph).cycle <=> Ranks(graph) # {}
<1> DEFINE keep == {i \in DOMAIN Names : Names[i] \in DOMAIN graph}
           names == Retained(Names, keep)
           none == [order |-> <<>>, cycle |-> FALSE]
           deeper == Visits(graph)[{}]
           walk == Walk(graph)
           order == walk.order
<1>1. names \in Seq(Nodes) /\ Range(names) = DOMAIN graph
  <2>1. Names \in Seq(Nodes) /\ keep \subseteq DOMAIN Names
    BY NamesAssumption
  <2>2. \A x : (\E i \in keep : Names[i] = x) <=> x \in DOMAIN graph
    BY NamesAssumption DEF Nodes, Range
  <2> HIDE DEF keep
  <2>3. names \in Seq(Nodes) /\ \A x : (\E i \in DOMAIN names : names[i] = x) <=> x \in DOMAIN graph
    <3>1. /\ names \in Seq(Nodes)
          /\ \A x : (\E i \in DOMAIN names : names[i] = x) <=> (\E i \in keep : Names[i] = x)
      BY <2>1, NamesRetained
    <3> HIDE DEF names
    <3> QED BY <2>2, <3>1
  <2> HIDE DEF names
  <2> QED BY <2>3 DEF Range
<1>2. walk = VisitAll(deeper, {}, names, none)
  BY DEF Walk
<1>3. none \in Walks /\ ~none.cycle /\ none.order = <<>> /\ Sound(graph, none, {})
  BY DEF Walks, Sound, Topological
<1>4. Yields(deeper, {}) /\ Leads(graph, deeper, {})
  BY VisitsType, VisitsSound
<1> HIDE DEF names, none, deeper
<1>5. \A i \in DOMAIN names : names[i] \in DOMAIN graph
  BY <1>1 DEF Range
<1>6. /\ walk \in Walks /\ Sound(graph, walk, {})
      /\ Covers(walk, Range(none.order) \cup Range(names))
  BY <1>1, <1>2, <1>3, <1>4, <1>5, VisitAllSound, VisitAllType
<1> HIDE DEF walk
<1>7. ASSUME ~walk.cycle
      PROVE  /\ order \in Seq(DOMAIN graph) /\ Range(order) = DOMAIN graph
             /\ Topological(graph, order)
  <2>1. Topological(graph, order) /\ DOMAIN graph \subseteq Range(order)
    BY <1>1, <1>6, <1>7 DEF Sound, Covers
  <2>2. order \in Seq(Nodes)
    BY <1>6 DEF Walks
  <2>3. \A i \in DOMAIN order : order[i] \in DOMAIN graph
    BY <2>1 DEF Topological
  <2> HIDE DEF order
  <2>4. order \in Seq(DOMAIN graph)
    BY <2>2, <2>3
  <2>5. Range(order) \subseteq DOMAIN graph
    BY <2>3 DEF Range
  <2> QED BY <2>1, <2>4, <2>5
<1>8. ASSUME ~walk.cycle  PROVE Ranks(graph) # {}
  <2> DEFINE Place(s) == CHOOSE i \in DOMAIN order : order[i] = s
             rank == [s \in DOMAIN graph |-> Place(s)]
  <2>1. order \in Seq(DOMAIN graph) /\ Range(order) = DOMAIN graph /\ Topological(graph, order)
    BY <1>7, <1>8
  <2> HIDE DEF order
  <2>2. ASSUME NEW s \in DOMAIN graph  PROVE Place(s) \in DOMAIN order /\ order[Place(s)] = s
    <3>1. \E i \in DOMAIN order : order[i] = s
      BY <2>1 DEF Range
    <3> QED BY <3>1
  <2>3. DOMAIN order = 1..Len(order) /\ Len(order) \in Nat
    BY <2>1
  <2> HIDE DEF Place
  <2>4. ASSUME NEW s \in DOMAIN graph, NEW m \in Needs(graph, s)  PROVE Place(m) < Place(s)
    <3>1. PICK j \in 1..(Place(s) - 1) : order[j] = m
      BY <2>1, <2>2, <2>4 DEF Topological
    <3>2. m \in DOMAIN graph
      BY <2>4 DEF Needs
    <3>3. j \in DOMAIN order /\ Place(s) \in 1..Len(order)
      BY <2>2, <2>3
    <3>4. Place(m) = j
      BY <2>1, <2>2, <3>1, <3>2, <3>3 DEF Topological
    <3> QED BY <2>3, <3>1, <3>3, <3>4
  <2>5. rank \in [DOMAIN graph -> Nat]
    BY <2>2, <2>3
  <2>6. \A s \in DOMAIN graph : \A m \in Needs(graph, s) : rank[m] < rank[s]
    BY <2>4 DEF Needs
  <2> QED BY <2>5, <2>6 DEF Ranks
<1>9. ASSUME NEW rank \in Ranks(graph)  PROVE ~walk.cycle
  <2>1. Frees(graph, rank, deeper, {})
    BY VisitsFree DEF deeper
  <2>2. \A i \in DOMAIN names : names[i] \in DOMAIN graph /\ Below(rank, names[i], {})
    BY <1>5 DEF Below
  <2> QED BY <1>1, <1>2, <1>3, <1>4, <2>1, <2>2, VisitAllFree
<1> QED BY <1>7, <1>8, <1>9 DEF walk, order, TopologicalOrder

-----------------------------------------------------------------------------
(* The supervisor's invariant.                                             *)

RecordHealths == {"None", "Unknown", "Ready", "Degraded", "Failed", "Starting", "Stopping"}
AdapterStates == {"Running", "Stopped", "Starting", "Stopping", "Failed", "Orphaned"}
Outcomes == {"none", "Restarted", "Orphaned", "Failed", "Cancelled"}
Records == [health : RecordHealths, restart : {"None", "Scheduled", "Stopping", "Failed"},
            wait : Nat, ages : Seq(Nat), quarantined : BOOLEAN]
Completed == [service : Services, outcome : Outcomes]
InService == {"check", "consume", "schedule"}
RoundPlaces == {"idle", "apply", "visit", "dispatch", "mark"} \cup InService
WorkerPlaces == {"check", "wait", "gone", "stop", "stopping", "start", "starting", "report"}

RecordType == record \in [Services -> Records]

AdapterType ==
  /\ adapter \in [Services -> AdapterStates]
  /\ sick \subseteq Services
  /\ gate \in [Services -> Workers \cup {"operator", NoOne}]

\* The round's list is one of completions or of services.
RoundType ==
  /\ round \in [at : RoundPlaces, todo : Seq(Services) \cup Seq(Completed), due : Seq(Services)]
  /\ round.todo \in IF round.at = "apply" THEN Seq(Completed) ELSE Seq(Services)
  /\ round.at \in InService => round.todo # <<>>
  /\ round.at = "mark" => round.due # <<>>
  /\ \A i, j \in DOMAIN round.due : round.due[i] = round.due[j] => i = j

OperatorType ==
  /\ operator \in [op : {"none", "start", "stop", "restart", "shutdown"},
                   at : {"idle", "enter", "callback", "succeeded", "failed", "check", "consume",
                         "schedule", "cancelled"},
                   service : Services \cup {NoOne}, rest : Seq(Services)]
  /\ operator.at \notin {"idle", "cancelled"} => operator.service \in Services

QueueType == commands \in Seq(Services) /\ completions \in Seq(Completed)

WorkerType ==
  /\ worker \in [Workers -> [at : WorkerPlaces, service : Services \cup {NoOne},
                             outcome : Outcomes]]
  /\ \A w \in Workers : worker[w].at \notin {"check", "wait", "gone"} =>
                          worker[w].service \in Services

CountType == executorStopped \in BOOLEAN /\ disturbances \in 0..MaxDisturbances

SupervisionTypeOK ==
  /\ RecordType /\ AdapterType /\ RoundType /\ OperatorType /\ QueueType /\ WorkerType
  /\ CountType

\* The restart of s was handed to the workers and its record does not say so yet.
Handed(s) == round.at = "mark" /\ Head(round.due) = s

\* A restart of s is to be dispatched: its record says so, or this round's list.
Waiting(s) ==
  /\ ~Handed(s)
  /\ record[s].restart = "Scheduled" \/ \E i \in DOMAIN round.due : round.due[i] = s

\* A thread paid for a restart of s and has not written it into the record.
RoundOwes(s) == round.at = "schedule" /\ Head(round.todo) = s
OperatorOwes(s) == At("restart", "schedule") /\ operator.service = s

One(p) == IF p THEN 1 ELSE 0

\* Every restart that may still be dispatched has an attempt of its own that was paid.
Claims(s) == One(Waiting(s)) + One(RoundOwes(s)) + One(OperatorOwes(s))
Paid == owed \in [Services -> Int] /\ \A s \in Services : owed[s] >= Claims(s)

AgesOK == \A s \in Services : Len(record[s].ages) <= Budget

SupervisionInv == SupervisionTypeOK /\ Paid /\ AgesOK

-----------------------------------------------------------------------------
(* What the operators of the model return.                                 *)

\* The attempts in the window are attempts of the record.
LEMMA RecentFacts ==
  ASSUME RecordType, NEW s \in Services
  PROVE  Recent(s) \in Seq(Nat) /\ Len(Recent(s)) <= Len(record[s].ages)
<1>1. record[s].ages \in Seq(Nat)
  BY DEF RecordType, Records
<1> QED BY <1>1, RetainedFacts DEF Recent

LEMMA HealthType ==
  ASSUME AdapterType, NEW s \in Services
  PROVE  HealthOf(s) \in RecordHealths
BY DEF AdapterType, AdapterStates, HealthOf, RecordHealths

\* The services that are due, each once.
LEMMA DueFacts ==
  LET due == Retained(Names, {i \in DOMAIN Names : Names[i] \in Services /\ Due(Names[i])})
  IN  /\ due \in Seq(Services)
      /\ \A i, j \in DOMAIN due : due[i] = due[j] => i = j
      /\ \A i \in DOMAIN due : Due(due[i])
<1> DEFINE keep == {i \in DOMAIN Names : Names[i] \in Services /\ Due(Names[i])}
           due == Retained(Names, keep)
           n == Len(Names)
<1>1. /\ due \in Seq(Nodes) /\ Lists(due, Names, keep, n)
      /\ Names \in Seq(Nodes)
  BY NamesAssumption, RetainedFacts
<1>2. PICK pos : Places(pos, due, Names, keep, n)
  BY <1>1, Zenon DEF Lists
<1>3. DOMAIN due = 1..Len(due) /\ DOMAIN Names = 1..n /\ Len(due) \in Nat /\ n \in Nat
  BY <1>1
<1>a. /\ \A i \in keep : Names[i] \in Services /\ Due(Names[i])
      /\ keep \subseteq DOMAIN Names
  BY Zenon
<1> HIDE DEF due, keep, n
<1>4. /\ pos \in [1..Len(due) -> keep \cap (1..n)]
      /\ \A j, k \in 1..Len(due) : j < k => pos[j] < pos[k]
      /\ \A j \in 1..Len(due) : due[j] = Names[pos[j]]
  BY <1>2, Zenon DEF Places
<1>5. \A i \in DOMAIN due : due[i] \in Services /\ Due(due[i])
  BY <1>3, <1>4, <1>a
<1>6. due \in Seq(Services)
  BY <1>1, <1>5
<1>7. ASSUME NEW i \in DOMAIN due, NEW j \in DOMAIN due, due[i] = due[j]  PROVE i = j
  <2>1. pos[i] = pos[j]
    BY <1>3, <1>4, <1>7, NamesAssumption
  <2>2. i \in Int /\ j \in Int /\ pos[i] \in Int /\ pos[j] \in Int
    BY <1>3, <1>4
  <2> QED BY <1>3, <1>4, <2>1, <2>2
<1> QED BY <1>5, <1>6, <1>7, Zenon DEF due, keep, n

\* Records that differ from the present ones in health and the like, and by restarts
\* that are over.
Milder(new) ==
  /\ new \in [Services -> Records]
  /\ \A s \in Services : /\ new[s].ages = record[s].ages
                         /\ new[s].restart = "Scheduled" => record[s].restart = "Scheduled"

\* A service's record changes so.
LEMMA ChangeMilder ==
  ASSUME RecordType, NEW s, NEW new, new \in [Services -> Records],
         \A t \in Services : t # s => new[t] = record[t],
         s \in Services => /\ new[s].ages = record[s].ages
                           /\ new[s].restart = "Scheduled" => record[s].restart = "Scheduled"
  PROVE  Milder(new)
BY DEF Milder

LEMMA HealthMilder ==
  ASSUME RecordType, NEW s, NEW h \in RecordHealths
  PROVE  Milder([record EXCEPT ![s].health = h])
BY DEF RecordType, Records, Milder

LEMMA RestartMilder ==
  ASSUME RecordType, NEW s, NEW o \in {"None", "Failed"}, NEW h \in RecordHealths, NEW q \in BOOLEAN
  PROVE  /\ Milder([record EXCEPT ![s].restart = o, ![s].health = h])
         /\ Milder([record EXCEPT ![s].restart = o, ![s].health = h, ![s].quarantined = q])
<1> DEFINE new == [record EXCEPT ![s].restart = o, ![s].health = h]
           more == [record EXCEPT ![s].restart = o, ![s].health = h, ![s].quarantined = q]
<1>1. record \in [Services -> Records]
  BY DEF RecordType
<1>2. CASE s \notin Services
  <2>1. new = record /\ more = record
    BY <1>1, <1>2
  <2> QED BY <1>1, <2>1 DEF Milder
<1>3. CASE s \in Services
  <2> DEFINE r == record[s]
             n == [r EXCEPT !.restart = o, !.health = h]
             m == [r EXCEPT !.restart = o, !.health = h, !.quarantined = q]
  <2>1. new = [record EXCEPT ![s] = n] /\ more = [record EXCEPT ![s] = m]
    <3>1. new = [record EXCEPT ![s] = n]
      BY <1>1, <1>3
    <3>2. more = [record EXCEPT ![s] = m]
      BY <1>1, <1>3
    <3> QED BY <3>1, <3>2
  <2>2. r \in Records /\ o # "Scheduled"
    BY <1>1, <1>3
  <2> HIDE DEF r
  <2>3. n \in Records /\ n.ages = r.ages /\ n.restart = o
    BY <2>2 DEF Records
  <2>4. m \in Records /\ m.ages = r.ages /\ m.restart = o
    BY <2>2 DEF Records
  <2> HIDE DEF n, m, new, more
  <2>5. Milder(new)
    BY <1>1, <1>3, <2>1, <2>2, <2>3, ChangeMilder DEF r
  <2>6. Milder(more)
    BY <1>1, <1>3, <2>1, <2>2, <2>4, ChangeMilder DEF r
  <2> QED BY <2>5, <2>6 DEF new, more
<1> QED BY <1>2, <1>3

LEMMA AppliedMilder ==
  ASSUME RecordType, AdapterType, NEW c \in Completed
  PROVE  Milder(Applied(c))
<1>1. c.service \in Services
  BY DEF Completed
<1>2. HealthOf(c.service) \in RecordHealths /\ "Failed" \in RecordHealths
  BY <1>1, HealthType DEF RecordHealths
<1>3. Milder([record EXCEPT ![c.service].restart = "None",
                            ![c.service].health = HealthOf(c.service)])
  BY <1>2, RestartMilder
<1>4. /\ Milder([record EXCEPT ![c.service].restart = "Failed", ![c.service].health = "Failed"])
      /\ Milder([record EXCEPT ![c.service].restart = "Failed", ![c.service].health = "Failed",
                               ![c.service].quarantined = TRUE])
  BY <1>2, RestartMilder
<1> QED BY <1>3, <1>4, Zenon DEF Applied

LEMMA RefusedMilder ==
  ASSUME RecordType, NEW s
  PROVE  Milder(Refused(s))
<1>1. Milder([record EXCEPT ![s].health = "Failed"])
  BY HealthMilder DEF RecordHealths
<1>2. Milder([record EXCEPT ![s].restart = "Failed", ![s].health = "Failed",
                            ![s].quarantined = TRUE])
  BY RestartMilder DEF RecordHealths
<1> QED BY <1>1, <1>2, Zenon DEF Refused

\* The budget: the attempt is added only where it fits.
LEMMA ConsumedFacts ==
  ASSUME RecordType, AgesOK, NEW s \in Services
  PROVE  /\ Consumed(s) \in [Services -> Records]
         /\ \A t \in Services : /\ Len(Consumed(s)[t].ages) <= Budget
                                /\ Consumed(s)[t].restart = record[t].restart
<1>1. Recent(s) \in Seq(Nat) /\ Len(Recent(s)) <= Len(record[s].ages)
  BY RecentFacts
<1> DEFINE recent == Recent(s)
<1>2. recent \in Seq(Nat) /\ Len(recent) <= Budget /\ Budget \in Nat
  <2>1. record[s].ages \in Seq(Nat) /\ Len(record[s].ages) <= Budget /\ Budget \in Nat
    BY SupervisionAssumption DEF AgesOK, RecordType, Records
  <2> QED BY <1>1, <2>1
<1>3. Consumed(s) =
        IF Len(recent) >= Budget
        THEN [record EXCEPT ![s].health = "Failed", ![s].quarantined = TRUE, ![s].ages = recent]
        ELSE [record EXCEPT ![s].ages = Append(recent, 0)]
  BY DEF Consumed
<1> HIDE DEF recent
<1>4. CASE Len(recent) >= Budget
  <2> DEFINE new == [record EXCEPT ![s].health = "Failed", ![s].quarantined = TRUE,
                                   ![s].ages = recent]
  <2>1. new \in [Services -> Records]
    <3> DEFINE r == record[s]
               n == [r EXCEPT !.health = "Failed", !.quarantined = TRUE, !.ages = recent]
    <3>1. record \in [Services -> Records] /\ r \in Records
      BY DEF RecordType
    <3>2. new = [record EXCEPT ![s] = n]
      BY <3>1
    <3> HIDE DEF r
    <3>3. n \in Records
      BY <1>2, <3>1 DEF Records, RecordHealths
    <3> HIDE DEF n, new
    <3> QED BY <3>1, <3>2, <3>3
  <2>2. \A t \in Services : new[t].restart = record[t].restart
    BY DEF RecordType, Records
  <2>3. \A t \in Services : new[t].ages = IF t = s THEN recent ELSE record[t].ages
    BY DEF RecordType, Records
  <2> HIDE DEF new
  <2>4. \A t \in Services : Len(new[t].ages) <= Budget
    BY <1>2, <2>3 DEF AgesOK
  <2>5. Consumed(s) = new
    BY <1>3, <1>4 DEF new
  <2> QED BY <2>1, <2>2, <2>4, <2>5
<1>5. CASE ~(Len(recent) >= Budget)
  <2>1. Append(recent, 0) \in Seq(Nat) /\ Len(Append(recent, 0)) <= Budget
    BY <1>2, <1>5
  <2> DEFINE more == Append(recent, 0)
  <2> HIDE DEF more
  <2>2. Consumed(s) = [record EXCEPT ![s].ages = more] /\ more \in Seq(Nat) /\ Len(more) <= Budget
    BY <1>3, <1>5, <2>1 DEF more
  <2> DEFINE new == [record EXCEPT ![s].ages = more]
  <2>3. record \in [Services -> Records]
    BY DEF RecordType
  <2>4. new \in [Services -> Records]
    BY <2>2, <2>3 DEF Records
  <2>5. \A t \in Services : /\ new[t].restart = record[t].restart
                            /\ new[t].ages = IF t = s THEN more ELSE record[t].ages
    BY <2>3 DEF Records
  <2> HIDE DEF new
  <2>6. \A t \in Services : Len(new[t].ages) <= Budget
    BY <2>2, <2>5 DEF AgesOK
  <2>7. Consumed(s) = new
    BY <2>2 DEF new
  <2> QED BY <2>4, <2>5, <2>6, <2>7
<1> QED BY <1>4, <1>5

\* The services are walked in an order that has each of them.
LEMMA OrderType == Order \in Seq(Services)
BY GraphAssumption, OrderIsTopological DEF GraphIsValid, Order

-----------------------------------------------------------------------------
(* Claims.                                                                 *)

\* No restart is claimed that was not.
LessClaimed ==
  \A s \in Services : /\ Waiting(s)' => Waiting(s)
                      /\ RoundOwes(s)' => RoundOwes(s)
                      /\ OperatorOwes(s)' => OperatorOwes(s)

LEMMA PaidKept ==
  ASSUME Paid, owed' = owed, LessClaimed
  PROVE  Paid'
<1>1. ASSUME NEW s \in Services  PROVE owed'[s] >= Claims(s)'
  <2>1. owed[s] \in Int /\ owed[s] >= Claims(s)
    BY DEF Paid
  <2>2. /\ One(Waiting(s)') <= One(Waiting(s))
        /\ One(RoundOwes(s)') <= One(RoundOwes(s))
        /\ One(OperatorOwes(s)') <= One(OperatorOwes(s))
    BY DEF LessClaimed, One
  <2>3. /\ One(Waiting(s)') \in Int /\ One(RoundOwes(s)') \in Int /\ One(OperatorOwes(s)') \in Int
        /\ One(Waiting(s)) \in Int /\ One(RoundOwes(s)) \in Int /\ One(OperatorOwes(s)) \in Int
    BY DEF One
  <2> QED BY <2>1, <2>2, <2>3 DEF Claims
<1> QED BY <1>1 DEF Paid

LEMMA AgesKept ==
  ASSUME AgesOK, Milder(record')
  PROVE  AgesOK' /\ RecordType'
BY DEF AgesOK, Milder, RecordType

\* A step that leaves records, the round, the operator and the account alone.
LEMMA ClaimsUntouched ==
  ASSUME SupervisionInv, UNCHANGED <<record, round, operator, owed>>
  PROVE  RecordType' /\ RoundType' /\ OperatorType' /\ Paid' /\ AgesOK'
<1>1. RecordType' /\ RoundType' /\ OperatorType' /\ AgesOK'
  BY DEF SupervisionInv, SupervisionTypeOK, RecordType, RoundType, OperatorType, AgesOK
<1>2. LessClaimed
  BY DEF LessClaimed, Waiting, Handed, RoundOwes, OperatorOwes, At
<1> QED BY <1>1, <1>2, PaidKept DEF SupervisionInv

\* A step that leaves the account alone and claims no more keeps it balanced.
LEMMA ClaimsKept ==
  ASSUME SupervisionInv, owed' = owed, LessClaimed, Milder(record')
  PROVE  Paid' /\ AgesOK' /\ RecordType'
BY PaidKept, AgesKept DEF SupervisionInv

LEMMA SameMilder ==
  ASSUME RecordType, record' = record
  PROVE  Milder(record')
BY DEF RecordType, Milder

\* What a step of the reconcile thread leaves alone keeps its type.
LEMMA RoundFrame ==
  ASSUME SupervisionInv, RoundOnly
  PROVE  AdapterType' /\ OperatorType' /\ WorkerType' /\ CountType' /\ commands' \in Seq(Services)
BY DEF SupervisionInv, SupervisionTypeOK, RoundOnly, AdapterType, OperatorType, WorkerType,
       CountType, QueueType

\* In the same way for the operator's thread.
LEMMA OperatorFrame ==
  ASSUME SupervisionInv, OperatorOnly
  PROVE  RoundType' /\ WorkerType'
BY DEF SupervisionInv, SupervisionTypeOK, OperatorOnly, RoundType, WorkerType

-----------------------------------------------------------------------------
(* The reconcile thread.                                                   *)

LEMMA RoundStartsKeeps ==
  ASSUME SupervisionInv, RoundStarts
  PROVE  SupervisionInv'
<1>1. AdapterType' /\ OperatorType' /\ WorkerType' /\ CountType' /\ commands' \in Seq(Services)
  BY RoundFrame DEF RoundStarts
<1>2. RoundType' /\ QueueType'
  <2>1. completions \in Seq(Completed)
    BY DEF SupervisionInv, SupervisionTypeOK, QueueType
  <2>2. RoundType'
    BY <2>1 DEF SupervisionInv, SupervisionTypeOK, RoundStarts, RoundType, RoundPlaces, InService
  <2>3. QueueType'
    BY <1>1 DEF QueueType, RoundStarts
  <2> QED BY <2>2, <2>3
<1>3. LessClaimed
  BY DEF SupervisionInv, SupervisionTypeOK, RoundType, RoundStarts, RoundOnly, LessClaimed,
         Waiting, Handed, RoundOwes, OperatorOwes, At
<1>4. Milder(record') /\ owed' = owed
  BY SameMilder DEF RoundStarts, SupervisionInv, SupervisionTypeOK
<1> QED BY <1>1, <1>2, <1>3, <1>4, ClaimsKept DEF SupervisionInv, SupervisionTypeOK

LEMMA ApplyCompletionKeeps ==
  ASSUME SupervisionInv, ApplyCompletion
  PROVE  SupervisionInv'
<1>1. AdapterType' /\ OperatorType' /\ WorkerType' /\ CountType' /\ commands' \in Seq(Services)
  BY RoundFrame DEF ApplyCompletion
<1>2. QueueType'
  BY <1>1 DEF SupervisionInv, SupervisionTypeOK, QueueType, ApplyCompletion
<1>3. RoundType' /\ Milder(record')
  <2>1. round.todo \in Seq(Completed)
    BY DEF SupervisionInv, SupervisionTypeOK, RoundType, ApplyCompletion
  <2>2. CASE round.todo # <<>>
    <3>1. /\ Head(round.todo) \in Completed /\ Tail(round.todo) \in Seq(Completed)
          /\ record' = Applied(Head(round.todo)) /\ round' = [round EXCEPT !.todo = Tail(@)]
      BY <2>1, <2>2 DEF ApplyCompletion
    <3>2. Milder(record')
      BY <3>1, AppliedMilder DEF SupervisionInv, SupervisionTypeOK
    <3>3. RoundType'
      BY <3>1 DEF SupervisionInv, SupervisionTypeOK, RoundType, ApplyCompletion, RoundPlaces,
                  InService
    <3> QED BY <3>2, <3>3
  <2>3. CASE round.todo = <<>>
    <3>1. round' = [round EXCEPT !.at = "visit", !.todo = Order] /\ record' = record
      BY <2>3 DEF ApplyCompletion
    <3>2. Milder(record')
      BY <3>1, SameMilder DEF SupervisionInv, SupervisionTypeOK
    <3>3. RoundType'
      BY <3>1, OrderType DEF SupervisionInv, SupervisionTypeOK, RoundType, RoundPlaces, InService
    <3> QED BY <3>2, <3>3
  <2> QED BY <2>2, <2>3
<1>4. LessClaimed
  BY <1>3 DEF SupervisionInv, SupervisionTypeOK, RoundType, ApplyCompletion, RoundOnly, Milder,
              LessClaimed, Waiting, Handed, RoundOwes, OperatorOwes, At
<1>5. owed' = owed
  BY DEF ApplyCompletion
<1> QED BY <1>1, <1>2, <1>3, <1>4, <1>5, ClaimsKept DEF SupervisionInv, SupervisionTypeOK

LEMMA VisitServiceKeeps ==
  ASSUME SupervisionInv, VisitService
  PROVE  SupervisionInv'
<1> DEFINE s == Head(round.todo)
           h == IF Available(s) THEN HealthOf(s) ELSE "Degraded"
<1>1. AdapterType' /\ OperatorType' /\ WorkerType' /\ CountType' /\ commands' \in Seq(Services)
  BY RoundFrame DEF VisitService
<1>2. QueueType'
  BY <1>1 DEF SupervisionInv, SupervisionTypeOK, QueueType, VisitService
<1>3. /\ round.todo \in Seq(Services) /\ round.todo # <<>> /\ round.at = "visit"
      /\ s \in Services /\ Tail(round.todo) \in Seq(Services)
  BY DEF SupervisionInv, SupervisionTypeOK, RoundType, VisitService, Visiting
<1>4. h \in RecordHealths
  BY <1>3, HealthType DEF SupervisionInv, SupervisionTypeOK, RecordHealths
<1>5. /\ record' = IF Enabled(s) THEN [record EXCEPT ![s].health = h] ELSE record
      /\ round' = IF Enabled(s) /\ h = "Failed" THEN [round EXCEPT !.at = "check"] ELSE Visited
  BY DEF VisitService
<1> HIDE DEF h
<1>6. Milder(record')
  BY <1>4, <1>5, SameMilder, HealthMilder, Zenon DEF SupervisionInv, SupervisionTypeOK
<1>7. RoundType'
  BY <1>3, <1>5 DEF SupervisionInv, SupervisionTypeOK, RoundType, RoundPlaces, InService, Visited
<1>8. LessClaimed
  BY <1>3, <1>5, <1>6 DEF SupervisionInv, SupervisionTypeOK, RoundType, VisitService, RoundOnly,
         Visited, Milder, LessClaimed, Waiting, Handed, RoundOwes, OperatorOwes, At
<1>9. owed' = owed
  BY DEF VisitService
<1> QED BY <1>1, <1>2, <1>6, <1>7, <1>8, <1>9, ClaimsKept DEF SupervisionInv, SupervisionTypeOK

\* The service the round is at.
LEMMA RoundService ==
  ASSUME SupervisionInv, round.at \in InService
  PROVE  /\ round.todo \in Seq(Services) /\ Head(round.todo) \in Services
         /\ Tail(round.todo) \in Seq(Services) /\ round.todo # <<>>
BY DEF SupervisionInv, SupervisionTypeOK, RoundType, InService

LEMMA RoundChecksKeeps ==
  ASSUME SupervisionInv, RoundChecks
  PROVE  SupervisionInv'
<1>1. AdapterType' /\ OperatorType' /\ WorkerType' /\ CountType' /\ commands' \in Seq(Services)
  BY RoundFrame DEF RoundChecks
<1>2. QueueType'
  BY <1>1 DEF SupervisionInv, SupervisionTypeOK, QueueType, RoundChecks
<1>3. /\ round.todo \in Seq(Services) /\ round.todo # <<>> /\ round.at = "check"
      /\ Tail(round.todo) \in Seq(Services)
  BY RoundService DEF RoundChecks, InService
<1>4. round' = Visited \/ round' = [round EXCEPT !.at = "consume"]
  BY DEF RoundChecks
<1>5. Milder(record') /\ owed' = owed
  BY SameMilder DEF RoundChecks, SupervisionInv, SupervisionTypeOK
<1>6. RoundType'
  BY <1>3, <1>4 DEF SupervisionInv, SupervisionTypeOK, RoundType, RoundPlaces, InService, Visited
<1>7. LessClaimed
  BY <1>3, <1>4 DEF SupervisionInv, SupervisionTypeOK, RoundType, RoundChecks, RoundOnly,
         Visited, LessClaimed, Waiting, Handed, RoundOwes, OperatorOwes, At
<1> QED BY <1>1, <1>2, <1>5, <1>6, <1>7, ClaimsKept DEF SupervisionInv, SupervisionTypeOK

\* An attempt that is paid covers one more claim.
LEMMA PaysForOne ==
  ASSUME SupervisionInv, NEW s \in Services, Pay(s),
         \A t \in Services : Claims(t)' <= Claims(t) + One(t = s /\ ~Exhausted(s))
  PROVE  Paid'
<1>1. owed \in [Services -> Int] /\ \A t \in Services : owed[t] >= Claims(t)
  BY DEF SupervisionInv, Paid
<1>2. owed' = [owed EXCEPT ![s] = IF Exhausted(s) THEN @ ELSE @ + 1]
  BY DEF Pay
<1>3. \A t \in Services : Claims(t) \in Int /\ Claims(t)' \in Int
  BY DEF Claims, One
<1>4. owed' \in [Services -> Int]
  BY <1>1, <1>2
<1>5. \A t \in Services : owed'[t] = owed[t] + One(t = s /\ ~Exhausted(s))
  BY <1>1, <1>2 DEF One
<1>6. \A t \in Services : One(t = s /\ ~Exhausted(s)) \in Int
  BY DEF One
<1>7. \A t \in Services : owed'[t] >= Claims(t)'
  BY <1>1, <1>3, <1>5, <1>6
<1> QED BY <1>4, <1>7 DEF Paid

\* The same claims of both threads as before, but for one of either.
LEMMA ClaimsAdded ==
  ASSUME NEW t, NEW p, Waiting(t)' => Waiting(t),
         \/ (RoundOwes(t)' => RoundOwes(t) \/ p) /\ (OperatorOwes(t)' => OperatorOwes(t))
         \/ (RoundOwes(t)' => RoundOwes(t)) /\ (OperatorOwes(t)' => OperatorOwes(t) \/ p)
  PROVE  Claims(t)' <= Claims(t) + One(p)
<1>1. /\ One(Waiting(t)') <= One(Waiting(t))
      /\ \/ /\ One(RoundOwes(t)') <= One(RoundOwes(t)) + One(p)
            /\ One(OperatorOwes(t)') <= One(OperatorOwes(t))
         \/ /\ One(RoundOwes(t)') <= One(RoundOwes(t))
            /\ One(OperatorOwes(t)') <= One(OperatorOwes(t)) + One(p)
  BY DEF One
<1>2. /\ One(Waiting(t)') \in Int /\ One(RoundOwes(t)') \in Int /\ One(OperatorOwes(t)') \in Int
      /\ One(Waiting(t)) \in Int /\ One(RoundOwes(t)) \in Int /\ One(OperatorOwes(t)) \in Int
      /\ One(p) \in Int
  BY DEF One
<1> QED BY <1>1, <1>2 DEF Claims

LEMMA RoundConsumesKeeps ==
  ASSUME SupervisionInv, RoundConsumes
  PROVE  SupervisionInv'
<1> DEFINE s == Head(round.todo)
<1>1. AdapterType' /\ OperatorType' /\ WorkerType' /\ CountType' /\ commands' \in Seq(Services)
  BY RoundFrame DEF RoundConsumes
<1>2. QueueType'
  BY <1>1 DEF SupervisionInv, SupervisionTypeOK, QueueType, RoundConsumes
<1>3. /\ round.todo \in Seq(Services) /\ round.todo # <<>> /\ round.at = "consume"
      /\ Tail(round.todo) \in Seq(Services) /\ s \in Services
  BY RoundService DEF RoundConsumes, InService
<1>4. /\ record' = Consumed(s) /\ Pay(s) /\ operator' = operator
      /\ round' = IF Exhausted(s) THEN Visited ELSE [round EXCEPT !.at = "schedule"]
  BY DEF RoundConsumes, RoundOnly
<1>5. RecordType' /\ AgesOK' /\ \A t \in Services : record'[t].restart = record[t].restart
  BY <1>3, <1>4, ConsumedFacts DEF SupervisionInv, SupervisionTypeOK, RecordType, AgesOK
<1>6. RoundType'
  BY <1>3, <1>4 DEF SupervisionInv, SupervisionTypeOK, RoundType, RoundPlaces, InService, Visited
<1>7. Paid'
  <2>1. ASSUME NEW t \in Services
        PROVE  /\ Waiting(t)' => Waiting(t)
               /\ RoundOwes(t)' => RoundOwes(t) \/ (t = s /\ ~Exhausted(s))
               /\ OperatorOwes(t)' => OperatorOwes(t)
    BY <1>3, <1>4, <1>5 DEF SupervisionInv, SupervisionTypeOK, RoundType, Visited, Waiting,
                            Handed, RoundOwes, OperatorOwes, At
  <2>2. \A t \in Services : Claims(t)' <= Claims(t) + One(t = s /\ ~Exhausted(s))
    BY <2>1, ClaimsAdded
  <2> QED BY <1>3, <1>4, <2>2, PaysForOne
<1> QED BY <1>1, <1>2, <1>5, <1>6, <1>7 DEF SupervisionInv, SupervisionTypeOK

\* A scheduled restart is the claim its thread had.
LEMMA ScheduledFacts ==
  ASSUME RecordType, AgesOK, NEW s \in Services
  PROVE  /\ Scheduled(s) \in [Services -> Records]
         /\ \A t \in Services : /\ Len(Scheduled(s)[t].ages) <= Budget
                                /\ t # s => Scheduled(s)[t].restart = record[t].restart
BY SupervisionAssumption DEF Scheduled, RecordType, Records, AgesOK

LEMMA ClaimsMoved ==
  ASSUME NEW s, NEW t,
         t # s => (Waiting(t)' => Waiting(t)),
         RoundOwes(t)' => RoundOwes(t), OperatorOwes(t)' => OperatorOwes(t),
         \/ RoundOwes(s) /\ ~RoundOwes(s)'
         \/ OperatorOwes(s) /\ ~OperatorOwes(s)'
  PROVE  Claims(t)' <= Claims(t)
<1>1. CASE t = s
  BY <1>1 DEF Claims, One
<1>2. CASE t # s
  BY <1>2 DEF Claims, One
<1> QED BY <1>1, <1>2

\* As many attempts and no more claims.
LEMMA FewerClaims ==
  ASSUME SupervisionInv, owed' = owed, \A t \in Services : Claims(t)' <= Claims(t)
  PROVE  Paid'
<1>1. owed \in [Services -> Int] /\ \A t \in Services : owed[t] >= Claims(t)
  BY DEF SupervisionInv, Paid
<1>2. \A t \in Services : Claims(t) \in Int /\ Claims(t)' \in Int
  BY DEF Claims, One
<1>3. \A t \in Services : owed'[t] >= Claims(t)'
  BY <1>1, <1>2
<1> QED BY <1>1, <1>3 DEF Paid

LEMMA RoundSchedulesKeeps ==
  ASSUME SupervisionInv, RoundSchedules
  PROVE  SupervisionInv'
<1>0. PICK s : s = Head(round.todo)
  OBVIOUS
<1>1. AdapterType' /\ OperatorType' /\ WorkerType' /\ CountType' /\ commands' \in Seq(Services)
  BY RoundFrame DEF RoundSchedules
<1>2. QueueType'
  BY <1>1 DEF SupervisionInv, SupervisionTypeOK, QueueType, RoundSchedules
<1>3. /\ round.todo \in Seq(Services) /\ round.todo # <<>> /\ round.at = "schedule"
      /\ Tail(round.todo) \in Seq(Services) /\ s \in Services
  BY <1>0, RoundService DEF RoundSchedules, InService
<1>4. record' = Scheduled(s) /\ operator' = operator /\ owed' = owed /\ round' = Visited
  BY <1>0 DEF RoundSchedules, RoundOnly
<1>5. /\ RecordType' /\ AgesOK'
      /\ \A t \in Services : t # s => record'[t].restart = record[t].restart
  BY <1>3, <1>4, ScheduledFacts DEF SupervisionInv, SupervisionTypeOK, RecordType, AgesOK
<1>6. RoundType'
  BY <1>3, <1>4 DEF SupervisionInv, SupervisionTypeOK, RoundType, RoundPlaces, InService, Visited
<1>7. ASSUME NEW t \in Services  PROVE Claims(t)' <= Claims(t)
  <2>1. /\ t # s => (Waiting(t)' => Waiting(t))
        /\ RoundOwes(t)' => RoundOwes(t)
        /\ OperatorOwes(t)' => OperatorOwes(t)
        /\ RoundOwes(s) /\ ~RoundOwes(s)'
    BY <1>0, <1>3, <1>4, <1>5 DEF SupervisionInv, SupervisionTypeOK, RoundType, Visited, Waiting,
                                  Handed, RoundOwes, OperatorOwes, At
  <2> QED BY <2>1, ClaimsMoved
<1>8. Paid'
  BY <1>4, <1>7, FewerClaims
<1> QED BY <1>1, <1>2, <1>5, <1>6, <1>8 DEF SupervisionInv, SupervisionTypeOK

LEMMA CollectDueKeeps ==
  ASSUME SupervisionInv, CollectDue
  PROVE  SupervisionInv'
<1> DEFINE due == Retained(Names, {i \in DOMAIN Names : Names[i] \in Services /\ Due(Names[i])})
<1>1. AdapterType' /\ OperatorType' /\ WorkerType' /\ CountType' /\ commands' \in Seq(Services)
  BY RoundFrame DEF CollectDue
<1>2. QueueType'
  BY <1>1 DEF SupervisionInv, SupervisionTypeOK, QueueType, CollectDue
<1>3. /\ due \in Seq(Services)
      /\ \A i, j \in DOMAIN due : due[i] = due[j] => i = j
      /\ \A i \in DOMAIN due : Due(due[i])
  BY DueFacts, Zenon
<1>4. /\ round.at = "visit" /\ round.todo = <<>>
      /\ round' = [round EXCEPT !.at = "dispatch", !.due = due]
      /\ record' = record /\ owed' = owed /\ operator' = operator
  BY DEF CollectDue, RoundOnly
<1> HIDE DEF due
<1>5. RoundType'
  BY <1>3, <1>4 DEF SupervisionInv, SupervisionTypeOK, RoundType, RoundPlaces, InService
<1>6. LessClaimed
  BY <1>3, <1>4 DEF SupervisionInv, SupervisionTypeOK, RoundType, LessClaimed, Waiting, Handed,
                    RoundOwes, OperatorOwes, At, Due
<1>7. Milder(record')
  BY <1>4, SameMilder DEF SupervisionInv, SupervisionTypeOK
<1> QED BY <1>1, <1>2, <1>4, <1>5, <1>6, <1>7, ClaimsKept DEF SupervisionInv, SupervisionTypeOK

\* The restart at the head of the round's list: it has been paid for once more than
\* the other threads claim.
LEMMA DispatchKeeps ==
  ASSUME SupervisionInv, Dispatch
  PROVE  SupervisionInv'
<1>0. PICK s : s = Head(round.due)
  OBVIOUS
<1>1. AdapterType' /\ OperatorType' /\ WorkerType' /\ CountType'
  BY DEF SupervisionInv, SupervisionTypeOK, Dispatch, AdapterType, OperatorType, WorkerType,
         CountType
<1>2. /\ round.due \in Seq(Services) /\ round.due # <<>> /\ s \in Services
      /\ Tail(round.due) \in Seq(Services) /\ round.at = "dispatch"
      /\ \A i, j \in DOMAIN round.due : round.due[i] = round.due[j] => i = j
  BY <1>0 DEF SupervisionInv, SupervisionTypeOK, RoundType, Dispatch
<1>3. record' = record /\ operator' = operator /\ completions' = completions
  BY DEF Dispatch
<1>4. RecordType' /\ AgesOK'
  BY <1>3 DEF SupervisionInv, SupervisionTypeOK, RecordType, AgesOK
<1>5. CASE Len(commands) < Capacity
  <2>1. /\ commands' = Append(commands, s) /\ owed' = [owed EXCEPT ![s] = @ - 1]
        /\ round' = [round EXCEPT !.at = "mark"]
    BY <1>0, <1>5 DEF Dispatch
  <2>2. QueueType'
    BY <1>2, <1>3, <2>1 DEF SupervisionInv, SupervisionTypeOK, QueueType
  <2>3. RoundType'
    BY <1>2, <2>1 DEF SupervisionInv, SupervisionTypeOK, RoundType, RoundPlaces, InService
  <2>4. owed \in [Services -> Int] /\ \A t \in Services : owed[t] >= Claims(t)
    BY DEF SupervisionInv, Paid
  <2>5. ASSUME NEW t \in Services
        PROVE  /\ t # s => (Waiting(t)' => Waiting(t))
               /\ t = s => Waiting(t) /\ ~Waiting(t)'
               /\ RoundOwes(t)' => RoundOwes(t)
               /\ OperatorOwes(t)' => OperatorOwes(t)
    BY <1>0, <1>2, <1>3, <2>1 DEF SupervisionInv, SupervisionTypeOK, RoundType, Waiting, Handed,
                                  RoundOwes, OperatorOwes, At
  <2>6. ASSUME NEW t \in Services  PROVE Claims(t)' <= Claims(t) - One(t = s)
    BY <2>5 DEF Claims, One
  <2>7. ASSUME NEW t \in Services  PROVE owed'[t] >= Claims(t)'
    <3>1. owed'[t] = owed[t] - One(t = s) /\ owed[t] \in Int
      BY <2>1, <2>4 DEF One
    <3>2. Claims(t) \in Int /\ Claims(t)' \in Int /\ One(t = s) \in Int
      BY DEF Claims, One
    <3> QED BY <2>4, <2>6, <3>1, <3>2
  <2>8. owed' \in [Services -> Int]
    <3>1. owed \in [Services -> Int] /\ owed[s] - 1 \in Int
      BY <1>2, <2>4
    <3> QED BY <2>1, <3>1
  <2>9. Paid'
    BY <2>7, <2>8 DEF Paid
  <2> QED BY <1>1, <1>4, <2>2, <2>3, <2>9 DEF SupervisionInv, SupervisionTypeOK
<1>6. CASE ~(Len(commands) < Capacity)
  <2>1. commands' = commands /\ owed' = owed /\ round' = [round EXCEPT !.due = Tail(@)]
    BY <1>6 DEF Dispatch
  <2>2. QueueType'
    BY <1>3, <2>1 DEF SupervisionInv, SupervisionTypeOK, QueueType
  <2>3. /\ \A i \in DOMAIN Tail(round.due) : /\ i + 1 \in DOMAIN round.due
                                             /\ Tail(round.due)[i] = round.due[i + 1]
        /\ DOMAIN Tail(round.due) \subseteq Int
    BY <1>2
  <2>4. RoundType'
    <3>1. \A i, j \in DOMAIN Tail(round.due) : Tail(round.due)[i] = Tail(round.due)[j] => i = j
      BY <1>2, <2>3
    <3> QED BY <1>2, <2>1, <3>1 DEF SupervisionInv, SupervisionTypeOK, RoundType, RoundPlaces,
                                    InService
  <2>5. LessClaimed
    BY <1>2, <1>3, <2>1, <2>3 DEF SupervisionInv, SupervisionTypeOK, RoundType, LessClaimed,
                                  Waiting, Handed, RoundOwes, OperatorOwes, At
  <2>6. Milder(record')
    BY <1>3, SameMilder DEF SupervisionInv, SupervisionTypeOK
  <2> QED BY <1>1, <2>1, <2>2, <2>4, <2>5, <2>6, ClaimsKept DEF SupervisionInv, SupervisionTypeOK
<1> QED BY <1>5, <1>6

LEMMA MarkDispatchedKeeps ==
  ASSUME SupervisionInv, MarkDispatched
  PROVE  SupervisionInv'
<1>0. PICK s : s = Head(round.due)
  OBVIOUS
<1>1. AdapterType' /\ OperatorType' /\ WorkerType' /\ CountType' /\ commands' \in Seq(Services)
  BY RoundFrame DEF MarkDispatched
<1>2. QueueType'
  BY <1>1 DEF SupervisionInv, SupervisionTypeOK, QueueType, MarkDispatched
<1>3. /\ round.due \in Seq(Services) /\ round.due # <<>> /\ s \in Services
      /\ Tail(round.due) \in Seq(Services) /\ round.at = "mark" /\ s = round.due[1]
      /\ \A i, j \in DOMAIN round.due : round.due[i] = round.due[j] => i = j
  BY <1>0 DEF SupervisionInv, SupervisionTypeOK, RoundType, MarkDispatched
<1>4. /\ record' = [record EXCEPT ![s].restart = "Stopping"]
      /\ round' = [round EXCEPT !.at = "dispatch", !.due = Tail(@)]
      /\ operator' = operator /\ owed' = owed
  BY <1>0 DEF MarkDispatched, RoundOnly
<1>5. /\ \A i \in DOMAIN Tail(round.due) : /\ i + 1 \in DOMAIN round.due /\ i + 1 # 1
                                           /\ Tail(round.due)[i] = round.due[i + 1]
      /\ DOMAIN Tail(round.due) \subseteq Int /\ 1 \in DOMAIN round.due
  BY <1>3
<1>6. \A i \in DOMAIN Tail(round.due) : Tail(round.due)[i] # s
  BY <1>3, <1>5
<1>7. RoundType'
  <2>1. \A i, j \in DOMAIN Tail(round.due) : Tail(round.due)[i] = Tail(round.due)[j] => i = j
    BY <1>3, <1>5
  <2> QED BY <1>3, <1>4, <2>1 DEF SupervisionInv, SupervisionTypeOK, RoundType, RoundPlaces,
                                  InService
<1>8. Milder(record') /\ record'[s].restart # "Scheduled"
  <2>1. record \in [Services -> Records]
    BY DEF SupervisionInv, SupervisionTypeOK, RecordType
  <2>2. record'[s].restart = "Stopping"
    BY <1>3, <1>4, <2>1 DEF Records
  <2>3. \A t \in Services : record'[t].ages = record[t].ages /\ (t # s => record'[t] = record[t])
    BY <1>4, <2>1 DEF Records
  <2>4. record' \in [Services -> Records]
    BY <1>4, <2>1 DEF Records
  <2> QED BY <2>2, <2>3, <2>4 DEF Milder
<1>9. ASSUME NEW t \in Services, Waiting(t)'  PROVE Waiting(t)
  <2>1. round'.due = Tail(round.due) /\ round'.at = "dispatch"
    BY <1>4 DEF SupervisionInv, SupervisionTypeOK, RoundType
  <2>2. t # s
    BY <1>6, <1>8, <1>9, <2>1 DEF Waiting
  <2>3. ~Handed(t)
    BY <1>0, <2>2 DEF Handed
  <2>4. record[t].restart = "Scheduled" \/ \E i \in DOMAIN round.due : round.due[i] = t
    BY <1>5, <1>8, <1>9, <2>1 DEF Waiting, Milder
  <2> QED BY <2>3, <2>4 DEF Waiting
<1>10. \A t \in Services : (RoundOwes(t)' => RoundOwes(t)) /\ (OperatorOwes(t)' => OperatorOwes(t))
  BY <1>4 DEF SupervisionInv, SupervisionTypeOK, RoundType, RoundOwes, OperatorOwes, At
<1>11. LessClaimed
  BY <1>9, <1>10 DEF LessClaimed
<1> QED BY <1>1, <1>2, <1>4, <1>7, <1>8, <1>11, ClaimsKept DEF SupervisionInv, SupervisionTypeOK

LEMMA RoundEndsKeeps ==
  ASSUME SupervisionInv, RoundEnds
  PROVE  SupervisionInv'
<1>1. AdapterType' /\ OperatorType' /\ WorkerType' /\ CountType' /\ commands' \in Seq(Services)
  BY RoundFrame DEF RoundEnds
<1>2. QueueType'
  BY <1>1 DEF SupervisionInv, SupervisionTypeOK, QueueType, RoundEnds
<1>3. /\ round' = [at |-> "idle", todo |-> <<>>, due |-> <<>>] /\ round.at = "dispatch"
      /\ record' = record /\ owed' = owed /\ operator' = operator
  BY DEF RoundEnds, RoundOnly, Resting
<1>4. RoundType'
  BY <1>3 DEF RoundType, RoundPlaces, InService
<1>5. LessClaimed
  BY <1>3 DEF LessClaimed, Waiting, Handed, RoundOwes, OperatorOwes, At
<1>6. Milder(record')
  BY <1>3, SameMilder DEF SupervisionInv, SupervisionTypeOK
<1> QED BY <1>1, <1>2, <1>3, <1>4, <1>5, <1>6, ClaimsKept DEF SupervisionInv, SupervisionTypeOK

LEMMA ReconcileKeeps ==
  ASSUME SupervisionInv, Reconcile
  PROVE  SupervisionInv'
BY RoundStartsKeeps, ApplyCompletionKeeps, VisitServiceKeeps, RoundChecksKeeps,
   RoundConsumesKeeps, RoundSchedulesKeeps, CollectDueKeeps, DispatchKeeps, MarkDispatchedKeeps,
   RoundEndsKeeps, Zenon DEF Reconcile

-----------------------------------------------------------------------------
(* The workers: they execute what was dispatched, and claim nothing.       *)

LEMMA WorkerKeeps ==
  ASSUME SupervisionInv, NEW w \in Workers, WorkerStep(w)
  PROVE  SupervisionInv'
<1>1. UNCHANGED <<record, round, operator, owed, executorStopped>>
  BY DEF WorkerStep, WorkerLooks, WorkerReceives, WorkerStops, WorkerStopped, WorkerStarts,
         WorkerStarted, WorkerReports, WorkerOnly
<1>2. RecordType' /\ RoundType' /\ OperatorType' /\ Paid' /\ AgesOK'
  BY <1>1, ClaimsUntouched
<1>3. /\ worker \in [Workers -> [at : WorkerPlaces, service : Services \cup {NoOne},
                                 outcome : Outcomes]]
      /\ \A v \in Workers : worker[v].at \notin {"check", "wait", "gone"} =>
                              worker[v].service \in Services
      /\ commands \in Seq(Services) /\ completions \in Seq(Completed)
      /\ adapter \in [Services -> AdapterStates] /\ sick \subseteq Services
      /\ gate \in [Services -> Workers \cup {"operator", NoOne}]
      /\ executorStopped \in BOOLEAN /\ disturbances \in 0..MaxDisturbances
      /\ MaxDisturbances \in Nat
  BY SupervisionAssumption DEF SupervisionInv, SupervisionTypeOK, WorkerType, QueueType,
     AdapterType, CountType
<1>4. CountType'
  <2>1. disturbances' = disturbances \/ Disturb
    BY DEF WorkerStep, WorkerLooks, WorkerReceives, WorkerStops, WorkerStopped, WorkerStarts,
           WorkerStarted, WorkerReports
  <2> QED BY <1>1, <1>3, <2>1 DEF Disturb, CountType
<1>5. AdapterType'
  <2>1. \/ UNCHANGED <<adapter, gate, sick>>
        \/ \E s \in Services, st \in AdapterStates :
             \/ Enter(s, w, st) /\ UNCHANGED sick
             \/ Leave(s, st)
    BY <1>3 DEF WorkerStep, WorkerLooks, WorkerReceives, WorkerStops, WorkerStopped, WorkerStarts,
           WorkerStarted, WorkerReports, AdapterStates
  <2>2. ASSUME NEW s \in Services, NEW st \in AdapterStates, NEW who \in Workers \cup {NoOne},
               gate' = [gate EXCEPT ![s] = who], adapter' = [adapter EXCEPT ![s] = st],
               sick' \subseteq sick
        PROVE  AdapterType'
    BY <1>3, <2>2 DEF AdapterType
  <2>3. ASSUME UNCHANGED <<adapter, gate, sick>>  PROVE AdapterType'
    BY <1>3, <2>3 DEF AdapterType
  <2> QED BY <2>1, <2>2, <2>3 DEF Enter, Leave
<1>6. WorkerType' /\ QueueType'
  <2> DEFINE Working == [at : WorkerPlaces, service : Services \cup {NoOne}, outcome : Outcomes]
             AtRest == {"check", "wait", "gone"}
             Fits(v) == v \in Working /\ (v.at \notin AtRest => v.service \in Services)
  <2>1. \A v \in Workers : Fits(worker[v])
    BY <1>3
  <2>2. ASSUME NEW new, worker' = [worker EXCEPT ![w] = new], Fits(new)
        PROVE  WorkerType'
    BY <1>3, <2>2 DEF WorkerType
  <2>3. CASE \E at \in WorkerPlaces :
               /\ Step(w, at) /\ UNCHANGED <<commands, completions>>
               /\ worker[w].at \in {"check", "wait"} => at \in AtRest
    <3>1. PICK at \in WorkerPlaces :
               /\ Step(w, at) /\ UNCHANGED <<commands, completions>>
               /\ worker[w].at \in {"check", "wait"} => at \in AtRest
      BY <2>3
    <3>2. worker' = [worker EXCEPT ![w] = [worker[w] EXCEPT !.at = at]]
      BY <3>1 DEF Step
    <3>3. worker[w].at # "gone"
      BY DEF WorkerStep, WorkerLooks, WorkerReceives, WorkerStops, WorkerStopped, WorkerStarts,
             WorkerStarted, WorkerReports
    <3>4. Fits([worker[w] EXCEPT !.at = at])
      BY <2>1, <3>1, <3>3
    <3>5. WorkerType'
      BY <2>2, <3>2, <3>4
    <3> QED BY <1>3, <3>1, <3>5 DEF QueueType
  <2>4. CASE \E o \in Outcomes : /\ Outcome(w, o) /\ UNCHANGED <<commands, completions>>
                                 /\ worker[w].at \notin AtRest
    <3>1. PICK o \in Outcomes : /\ Outcome(w, o) /\ UNCHANGED <<commands, completions>>
                                /\ worker[w].at \notin AtRest
      BY <2>4
    <3>2. worker' = [worker EXCEPT ![w] = [worker[w] EXCEPT !.at = "report", !.outcome = o]]
      BY <1>3, <3>1 DEF Outcome
    <3>3. Fits([worker[w] EXCEPT !.at = "report", !.outcome = o])
      BY <2>1, <3>1 DEF WorkerPlaces
    <3>4. WorkerType'
      BY <2>2, <3>2, <3>3
    <3> QED BY <1>3, <3>1, <3>4 DEF QueueType
  <2>5. CASE WorkerReceives(w) /\ commands # <<>>
    <3> DEFINE new == [at |-> "stop", service |-> Head(commands), outcome |-> "none"]
    <3>1. /\ worker' = [worker EXCEPT ![w] = new] /\ commands' = Tail(commands)
          /\ completions' = completions
      BY <2>5 DEF WorkerReceives
    <3>2. Head(commands) \in Services /\ Tail(commands) \in Seq(Services)
      BY <1>3, <2>5
    <3>3. Fits(new)
      BY <3>2 DEF WorkerPlaces, Outcomes
    <3>4. WorkerType'
      BY <2>2, <3>1, <3>3
    <3> QED BY <1>3, <3>1, <3>2, <3>4 DEF QueueType
  <2>6. CASE WorkerReports(w)
    <3>1. /\ worker' = [worker EXCEPT ![w] = Free] /\ commands' = commands
          /\ completions' = IF executorStopped THEN completions
                            ELSE Append(completions, [service |-> worker[w].service,
                                                      outcome |-> worker[w].outcome])
          /\ worker[w].at = "report"
      BY <2>6 DEF WorkerReports
    <3>2. [service |-> worker[w].service, outcome |-> worker[w].outcome] \in Completed
      BY <2>1, <3>1 DEF Completed
    <3>3. Fits(Free)
      BY DEF Free, WorkerPlaces, Outcomes
    <3>4. WorkerType'
      BY <2>2, <3>1, <3>3
    <3> QED BY <1>3, <3>1, <3>2, <3>4 DEF QueueType
  <2>7. CASE WorkerReceives(w) /\ ~(commands # <<>>)
    <3>1. Step(w, "check") /\ UNCHANGED <<commands, completions>> /\ "check" \in WorkerPlaces
      BY <2>7 DEF WorkerReceives, WorkerPlaces
    <3> QED BY <2>3, <3>1
  <2>8. CASE WorkerLooks(w) \/ WorkerStops(w) \/ WorkerStopped(w) \/ WorkerStarts(w)
               \/ WorkerStarted(w)
    <3>1. \/ \E at \in WorkerPlaces :
               /\ Step(w, at) /\ UNCHANGED <<commands, completions>>
               /\ worker[w].at \in {"check", "wait"} => at \in AtRest
          \/ \E o \in Outcomes : /\ Outcome(w, o) /\ UNCHANGED <<commands, completions>>
                                 /\ worker[w].at \notin AtRest
      BY <2>8 DEF WorkerLooks, WorkerStops, WorkerStopped, WorkerStarts, WorkerStarted,
                  Outcomes, WorkerPlaces
    <3> QED BY <2>3, <2>4, <3>1
  <2> QED BY <2>5, <2>6, <2>7, <2>8 DEF WorkerStep
<1> QED BY <1>2, <1>4, <1>5, <1>6 DEF SupervisionInv, SupervisionTypeOK

-----------------------------------------------------------------------------
(* The operator's thread.                                                  *)

\* A call begins: it claims nothing yet.
LEMMA CallKeeps ==
  ASSUME SupervisionInv, NEW op \in {"start", "stop", "restart", "shutdown"},
         NEW s \in Services \cup {NoOne}, NEW at \in {"enter", "check", "cancelled"},
         at # "cancelled" => s \in Services, Call(op, s, at), executorStopped' \in BOOLEAN,
         UNCHANGED <<record, adapter, sick, gate, round, commands, completions, worker, owed>>
  PROVE  SupervisionInv'
<1>1. RecordType' /\ AdapterType' /\ RoundType' /\ QueueType' /\ WorkerType' /\ AgesOK'
  BY DEF SupervisionInv, SupervisionTypeOK, RecordType, AdapterType, RoundType, QueueType,
         WorkerType, AgesOK
<1>2. CountType'
  BY SupervisionAssumption DEF SupervisionInv, SupervisionTypeOK, CountType, Call, Disturb
<1>3. OperatorType'
  BY DEF OperatorType, Call
<1>4. LessClaimed
  BY DEF Call, LessClaimed, Waiting, Handed, RoundOwes, OperatorOwes, At
<1>5. Paid'
  BY <1>4, PaidKept DEF SupervisionInv
<1> QED BY <1>1, <1>2, <1>3, <1>5 DEF SupervisionInv, SupervisionTypeOK

LEMMA CallsKeep ==
  ASSUME SupervisionInv,
         \/ \E s \in Services : OperatorStarts(s) \/ OperatorStop(s) \/ OperatorRestarts(s)
         \/ OperatorShutsDown
  PROVE  SupervisionInv'
<1>1. executorStopped \in BOOLEAN
  BY DEF SupervisionInv, SupervisionTypeOK, CountType
<1>2. ASSUME NEW s \in Services, OperatorStarts(s) \/ OperatorStop(s) \/ OperatorRestarts(s)
      PROVE  SupervisionInv'
  <2>1. /\ UNCHANGED <<record, adapter, sick, gate, round, commands, completions, worker, owed,
                       executorStopped>>
        /\ \E op \in {"start", "stop", "restart", "shutdown"}, at \in {"enter", "check"} :
             Call(op, s, at)
    BY <1>2 DEF OperatorStarts, OperatorStop, OperatorRestarts
  <2> QED BY <1>1, <2>1, CallKeeps
<1>3. CASE OperatorShutsDown
  <2>1. /\ Call("shutdown", NoOne, "cancelled") /\ executorStopped' \in BOOLEAN
        /\ UNCHANGED <<record, adapter, sick, gate, round, commands, completions, worker, owed>>
    BY <1>3 DEF OperatorShutsDown
  <2> QED BY <2>1, CallKeeps
<1> QED BY <1>2, <1>3

\* What the operator's thread does next: it goes on in its call, or with the next
\* service, or returns.  None claims a restart but going to "schedule".
LEMMA GoFacts ==
  ASSUME OperatorType, operator.at \notin {"idle", "cancelled"},
         NEW at \in {"enter", "callback", "succeeded", "failed", "check", "consume", "schedule"},
         Go(at)
  PROVE  /\ OperatorType'
         /\ \A s : OperatorOwes(s)' => at = "schedule" /\ s = operator.service
BY DEF OperatorType, Go, OperatorOwes, At

LEMMA ReturnsFacts ==
  ASSUME Returns
  PROVE  OperatorType' /\ \A s : ~OperatorOwes(s)'
BY DEF OperatorType, Returns, NoCall, OperatorOwes, At

LEMMA ContinueFacts ==
  ASSUME OperatorType, Continue
  PROVE  OperatorType' /\ \A s : ~OperatorOwes(s)'
<1>1. CASE operator.op = "shutdown" /\ operator.rest # <<>>
  <2>1. Head(operator.rest) \in Services /\ Tail(operator.rest) \in Seq(Services)
    BY <1>1 DEF OperatorType
  <2>2. operator' = [operator EXCEPT !.at = "enter", !.service = Head(operator.rest),
                                     !.rest = Tail(operator.rest)]
    BY <1>1 DEF Continue
  <2> QED BY <2>1, <2>2 DEF OperatorType, OperatorOwes, At
<1>2. CASE ~(operator.op = "shutdown" /\ operator.rest # <<>>)
  BY <1>2, ReturnsFacts DEF Continue
<1> QED BY <1>1, <1>2

\* A step of the operator that claims nothing.
LEMMA OperatorMilder ==
  ASSUME SupervisionInv, OperatorType', \A s : OperatorOwes(s)' => OperatorOwes(s),
         Milder(record'), AdapterType', QueueType', CountType', OperatorOnly, owed' = owed
  PROVE  SupervisionInv'
<1>1. RoundType' /\ WorkerType'
  BY OperatorFrame
<1>2. LessClaimed
  BY DEF LessClaimed, Waiting, Handed, RoundOwes, OperatorOnly, Milder
<1> QED BY <1>1, <1>2, ClaimsKept DEF SupervisionInv, SupervisionTypeOK

\* The service of a call.
LEMMA OperatorService ==
  ASSUME SupervisionInv, operator.at \notin {"idle", "cancelled"}
  PROVE  operator.service \in Services
BY DEF SupervisionInv, SupervisionTypeOK, OperatorType

LEMMA OperatorChecksKeeps ==
  ASSUME SupervisionInv, OperatorChecks
  PROVE  SupervisionInv'
<1>1. OperatorType /\ RecordType /\ AdapterType /\ QueueType /\ CountType
  BY DEF SupervisionInv, SupervisionTypeOK
<1>2. Milder(record') /\ AdapterType' /\ QueueType' /\ CountType'
  BY <1>1, SameMilder DEF OperatorChecks, AdapterType, QueueType, CountType
<1>3. operator.at = "check" /\ (Returns \/ Go("consume")) /\ OperatorOnly /\ owed' = owed
  BY DEF OperatorChecks, At
<1>4. OperatorType' /\ \A s : ~OperatorOwes(s)'
  BY <1>1, <1>3, GoFacts, ReturnsFacts
<1> QED BY <1>2, <1>3, <1>4, OperatorMilder

LEMMA OperatorConsumesKeeps ==
  ASSUME SupervisionInv, OperatorConsumes
  PROVE  SupervisionInv'
<1>0. PICK s : s = operator.service
  OBVIOUS
<1>1. /\ operator.at = "consume" /\ record' = Consumed(s) /\ Pay(s)
      /\ IF Exhausted(s) THEN Returns ELSE Go("schedule")
      /\ OperatorOnly
      /\ UNCHANGED <<adapter, sick, gate, commands, completions, executorStopped, disturbances>>
  BY <1>0 DEF OperatorConsumes, At
<1>2. s \in Services
  BY <1>0, <1>1, OperatorService
<1>3. RoundType' /\ WorkerType'
  BY <1>1, OperatorFrame
<1>4. AdapterType' /\ QueueType' /\ CountType'
  BY <1>1 DEF SupervisionInv, SupervisionTypeOK, AdapterType, QueueType, CountType
<1>5. RecordType' /\ AgesOK' /\ \A t \in Services : record'[t].restart = record[t].restart
  BY <1>1, <1>2, ConsumedFacts DEF SupervisionInv, SupervisionTypeOK, RecordType, AgesOK
<1>6. OperatorType' /\ \A t : OperatorOwes(t)' => t = s /\ ~Exhausted(s)
  BY <1>0, <1>1, GoFacts, ReturnsFacts DEF SupervisionInv, SupervisionTypeOK
<1>7. Paid'
  <2>1. ASSUME NEW t \in Services
        PROVE  /\ Waiting(t)' => Waiting(t)
               /\ RoundOwes(t)' => RoundOwes(t)
               /\ OperatorOwes(t)' => OperatorOwes(t) \/ (t = s /\ ~Exhausted(s))
    BY <1>1, <1>5, <1>6 DEF OperatorOnly, Waiting, Handed, RoundOwes
  <2>2. \A t \in Services : Claims(t)' <= Claims(t) + One(t = s /\ ~Exhausted(s))
    BY <2>1, ClaimsAdded
  <2> QED BY <1>1, <1>2, <2>2, PaysForOne
<1> QED BY <1>3, <1>4, <1>5, <1>6, <1>7 DEF SupervisionInv, SupervisionTypeOK

LEMMA OperatorSchedulesKeeps ==
  ASSUME SupervisionInv, OperatorSchedules
  PROVE  SupervisionInv'
<1>0. PICK s : s = operator.service
  OBVIOUS
<1>1. /\ At("restart", "schedule") /\ record' = Scheduled(s) /\ Returns /\ OperatorOnly
      /\ UNCHANGED <<adapter, sick, gate, commands, completions, executorStopped, owed, disturbances>>
  BY <1>0 DEF OperatorSchedules
<1>2. s \in Services
  BY <1>0, <1>1, OperatorService DEF At
<1>3. RoundType' /\ WorkerType'
  BY <1>1, OperatorFrame
<1>4. AdapterType' /\ QueueType' /\ CountType'
  BY <1>1 DEF SupervisionInv, SupervisionTypeOK, AdapterType, QueueType, CountType
<1>5. /\ RecordType' /\ AgesOK'
      /\ \A t \in Services : t # s => record'[t].restart = record[t].restart
  BY <1>1, <1>2, ScheduledFacts DEF SupervisionInv, SupervisionTypeOK, RecordType, AgesOK
<1>6. OperatorType' /\ \A t : ~OperatorOwes(t)'
  BY <1>1, ReturnsFacts
<1>7. ASSUME NEW t \in Services  PROVE Claims(t)' <= Claims(t)
  <2>1. /\ t # s => (Waiting(t)' => Waiting(t))
        /\ RoundOwes(t)' => RoundOwes(t)
        /\ OperatorOwes(t)' => OperatorOwes(t)
        /\ OperatorOwes(s) /\ ~OperatorOwes(s)'
    BY <1>0, <1>1, <1>5, <1>6 DEF OperatorOnly, Waiting, Handed, RoundOwes, OperatorOwes
  <2> QED BY <2>1, ClaimsMoved
<1>8. Paid'
  BY <1>1, <1>7, FewerClaims
<1> QED BY <1>3, <1>4, <1>5, <1>6, <1>8 DEF SupervisionInv, SupervisionTypeOK

LEMMA OperatorEntersKeeps ==
  ASSUME SupervisionInv, OperatorEnters
  PROVE  SupervisionInv'
<1>0. PICK s : s = operator.service
  OBVIOUS
<1>1. OperatorType /\ RecordType /\ AdapterType /\ QueueType /\ CountType
  BY DEF SupervisionInv, SupervisionTypeOK
<1>2. operator.at = "enter" /\ s \in Services
  BY <1>0, OperatorService DEF OperatorEnters
<1>3. QueueType' /\ CountType' /\ OperatorOnly /\ owed' = owed /\ sick' = sick
  BY <1>1 DEF OperatorEnters, QueueType, CountType
<1>4. CASE Admits(s)
  <2>1. PICK st \in AdapterStates : Enter(s, "operator", st)
    BY <1>0, <1>4 DEF OperatorEnters, AdapterStates
  <2>2. AdapterType'
    BY <1>1, <1>2, <1>3, <2>1 DEF Enter, AdapterType
  <2>3. Go("callback") /\ record' = record
    BY <1>0, <1>4 DEF OperatorEnters
  <2>4. OperatorType' /\ \A t : ~OperatorOwes(t)'
    BY <1>1, <1>2, <2>3, GoFacts
  <2>5. Milder(record')
    BY <1>1, <2>3, SameMilder
  <2> QED BY <1>3, <2>2, <2>4, <2>5, OperatorMilder
<1>5. CASE ~Admits(s)
  <2>1. record' = Refused(s) /\ Continue /\ UNCHANGED <<gate, adapter>>
    BY <1>0, <1>5 DEF OperatorEnters
  <2>2. AdapterType'
    BY <1>1, <1>3, <2>1 DEF AdapterType
  <2>3. OperatorType' /\ \A t : ~OperatorOwes(t)'
    BY <1>1, <2>1, ContinueFacts
  <2>4. Milder(record')
    BY <1>1, <2>1, RefusedMilder
  <2> QED BY <1>3, <2>2, <2>3, <2>4, OperatorMilder
<1> QED BY <1>4, <1>5

LEMMA OperatorCallbackKeeps ==
  ASSUME SupervisionInv, OperatorCallback
  PROVE  SupervisionInv'
<1>0. PICK s : s = operator.service
  OBVIOUS
<1>1. OperatorType /\ RecordType /\ AdapterType /\ QueueType /\ CountType
  BY DEF SupervisionInv, SupervisionTypeOK
<1>2. operator.at = "callback" /\ s \in Services
  BY <1>0, OperatorService DEF OperatorCallback
<1>3. QueueType' /\ OperatorOnly /\ owed' = owed /\ record' = record
  BY <1>1 DEF OperatorCallback, QueueType
<1>4. \E st \in AdapterStates : Leave(s, st)
  BY <1>0 DEF OperatorCallback, AdapterStates
<1>5. AdapterType'
  BY <1>1, <1>2, <1>4 DEF Leave, AdapterType
<1>6. CountType'
  <2>1. (disturbances' = disturbances \/ Disturb) /\ executorStopped' = executorStopped
    BY DEF OperatorCallback
  <2> QED BY <1>1, <2>1, SupervisionAssumption DEF CountType, Disturb
<1>7. OperatorType' /\ \A t : ~OperatorOwes(t)'
  <2>1. Go("succeeded") \/ Go("failed")
    BY DEF OperatorCallback
  <2> QED BY <1>1, <1>2, <2>1, GoFacts
<1>8. Milder(record')
  BY <1>1, <1>3, SameMilder
<1> QED BY <1>3, <1>5, <1>6, <1>7, <1>8, OperatorMilder

LEMMA OperatorRecordsKeeps ==
  ASSUME SupervisionInv, OperatorRecords
  PROVE  SupervisionInv'
<1>0. PICK s : s = operator.service
  OBVIOUS
<1>1. OperatorType /\ RecordType /\ AdapterType /\ QueueType /\ CountType
  BY DEF SupervisionInv, SupervisionTypeOK
<1>2. s \in Services
  BY <1>0, OperatorService DEF OperatorRecords
<1>3. AdapterType' /\ QueueType' /\ CountType' /\ OperatorOnly /\ owed' = owed /\ Continue
  BY <1>1 DEF OperatorRecords, AdapterType, QueueType, CountType
<1>4. OperatorType' /\ \A t : ~OperatorOwes(t)'
  BY <1>1, <1>3, ContinueFacts
<1>5. Milder(record')
  <2> DEFINE h == IF operator.op = "start" THEN HealthOf(s) ELSE "Unknown"
  <2>1. h \in RecordHealths
    BY <1>1, <1>2, HealthType DEF RecordHealths
  <2>2. record' = Refused(s) \/ record' = [record EXCEPT ![s].health = h]
    BY <1>0 DEF OperatorRecords, SetHealth
  <2> HIDE DEF h
  <2>3. Milder(Refused(s))
    BY <1>1, RefusedMilder
  <2>4. Milder([record EXCEPT ![s].health = h])
    BY <1>1, <2>1, HealthMilder
  <2> QED BY <2>2, <2>3, <2>4
<1> QED BY <1>3, <1>4, <1>5, OperatorMilder

LEMMA OperatorDrainsKeeps ==
  ASSUME SupervisionInv, OperatorDrains
  PROVE  SupervisionInv'
<1> DEFINE order == Reverse(Order)
           enabled == Retained(order, {i \in DOMAIN order : Enabled(order[i])})
<1>1. OperatorType /\ RecordType /\ AdapterType /\ QueueType /\ CountType
  BY DEF SupervisionInv, SupervisionTypeOK
<1>2. order \in Seq(Services)
  BY OrderType DEF Reverse
<1>3. enabled \in Seq(Services)
  BY <1>2, RetainedFacts
<1>4. /\ IF enabled = <<>> THEN Returns
         ELSE operator' = [operator EXCEPT !.at = "enter", !.service = Head(enabled),
                                           !.rest = Tail(enabled)]
      /\ commands' = <<>> /\ completions' = <<>> /\ OperatorOnly /\ record' = record
      /\ owed' = owed
  BY DEF OperatorDrains
<1>5. AdapterType' /\ CountType'
  BY <1>1 DEF OperatorDrains, AdapterType, CountType
<1>6. QueueType'
  BY <1>4 DEF QueueType
<1> HIDE DEF enabled
<1>7. OperatorType' /\ \A t : ~OperatorOwes(t)'
  <2>1. CASE enabled = <<>>
    BY <1>4, <2>1, ReturnsFacts
  <2>2. CASE enabled # <<>>
    <3>1. Head(enabled) \in Services /\ Tail(enabled) \in Seq(Services)
      BY <1>3, <2>2
    <3>2. operator' = [operator EXCEPT !.at = "enter", !.service = Head(enabled),
                                       !.rest = Tail(enabled)]
      BY <1>4, <2>2
    <3> QED BY <1>1, <3>1, <3>2 DEF OperatorType, OperatorOwes, At
  <2> QED BY <2>1, <2>2
<1>8. Milder(record')
  BY <1>1, <1>4, SameMilder
<1> QED BY <1>4, <1>5, <1>6, <1>7, <1>8, OperatorMilder

LEMMA OperatorKeeps ==
  ASSUME SupervisionInv, OperatorStep
  PROVE  SupervisionInv'
BY OperatorChecksKeeps, OperatorConsumesKeeps, OperatorSchedulesKeeps, OperatorEntersKeeps,
   OperatorCallbackKeeps, OperatorRecordsKeeps, OperatorDrainsKeeps, Zenon DEF OperatorStep

-----------------------------------------------------------------------------
(* Failures and time.                                                      *)

LEMMA ResourceFailsKeeps ==
  ASSUME SupervisionInv, NEW s \in Services, ResourceFails(s)
  PROVE  SupervisionInv'
<1>1. RecordType' /\ RoundType' /\ OperatorType' /\ Paid' /\ AgesOK'
  BY ClaimsUntouched DEF ResourceFails
<1>2. AdapterType' /\ QueueType' /\ WorkerType'
  BY DEF SupervisionInv, SupervisionTypeOK, AdapterType, QueueType, WorkerType, ResourceFails
<1>3. CountType'
  BY SupervisionAssumption DEF SupervisionInv, SupervisionTypeOK, CountType, ResourceFails, Disturb
<1> QED BY <1>1, <1>2, <1>3 DEF SupervisionInv, SupervisionTypeOK

LEMMA TickKeeps ==
  ASSUME SupervisionInv, Tick
  PROVE  SupervisionInv'
<1> DEFINE Aged(s) == [i \in DOMAIN record[s].ages |->
                         IF record[s].ages[i] < Window THEN record[s].ages[i] + 1
                         ELSE record[s].ages[i]]
           Waited(s) == IF record[s].wait > 0 THEN record[s].wait - 1 ELSE 0
<1>1. AdapterType' /\ RoundType' /\ OperatorType' /\ QueueType' /\ WorkerType' /\ CountType'
  <2>1. AdapterType' /\ QueueType' /\ CountType'
    BY DEF SupervisionInv, SupervisionTypeOK, AdapterType, QueueType, CountType, Tick
  <2>2. RoundType' /\ OperatorType'
    BY DEF SupervisionInv, SupervisionTypeOK, RoundType, OperatorType, Tick
  <2>3. WorkerType'
    BY DEF SupervisionInv, SupervisionTypeOK, WorkerType, Tick
  <2> QED BY <2>1, <2>2, <2>3
<1>2. record \in [Services -> Records] /\ Window \in Nat
  BY SupervisionAssumption DEF SupervisionInv, SupervisionTypeOK, RecordType
<1>3. ASSUME NEW s \in Services
      PROVE  Aged(s) \in Seq(Nat) /\ Len(Aged(s)) = Len(record[s].ages) /\ Waited(s) \in Nat
  <2>1. record[s].ages \in Seq(Nat) /\ record[s].wait \in Nat
    BY <1>2 DEF Records
  <2> DEFINE ages == record[s].ages
  <2>2. ages \in Seq(Nat) /\ DOMAIN ages = 1..Len(ages) /\ Len(ages) \in Nat
    BY <2>1
  <2>3. Aged(s) \in [1..Len(ages) -> Nat]
    BY <1>2, <2>2
  <2> QED BY <2>1, <2>2, <2>3
<1>4. record' = [s \in Services |-> [record[s] EXCEPT !.wait = Waited(s), !.ages = Aged(s)]]
  BY <1>2 DEF Tick
<1> HIDE DEF Aged, Waited
<1>5. \A s \in Services : /\ record'[s] \in Records
                          /\ record'[s].ages = Aged(s) /\ record'[s].restart = record[s].restart
  BY <1>2, <1>3, <1>4 DEF Records
<1>6. RecordType' /\ AgesOK'
  BY <1>2, <1>3, <1>4, <1>5 DEF RecordType, AgesOK, SupervisionInv
<1>7. LessClaimed
  BY <1>5 DEF Tick, LessClaimed, Waiting, Handed, RoundOwes, OperatorOwes, At
<1>8. Paid'
  BY <1>7, PaidKept DEF Tick, SupervisionInv
<1> QED BY <1>1, <1>6, <1>8 DEF SupervisionInv, SupervisionTypeOK

-----------------------------------------------------------------------------
(* The theorem.                                                            *)

LEMMA SupervisionInitInv ==
  ASSUME SupervisionInit
  PROVE  SupervisionInv
<1>1. RecordType /\ \A s \in Services : record[s].ages = <<>> /\ record[s].restart = "None"
  <2>1. NewRecord \in Records /\ NewRecord.ages = <<>> /\ NewRecord.restart = "None"
    BY DEF NewRecord, Records, RecordHealths
  <2> DEFINE up == [NewRecord EXCEPT !.health = "Ready"]
  <2>2. up \in Records /\ up.ages = <<>> /\ up.restart = "None"
    BY <2>1 DEF Records, RecordHealths
  <2>3. record = [s \in Services |-> IF Enabled(s) THEN up ELSE NewRecord]
    BY DEF SupervisionInit
  <2> HIDE DEF up
  <2> QED BY <2>1, <2>2, <2>3 DEF RecordType
<1>2. AdapterType
  BY DEF SupervisionInit, AdapterType, AdapterStates
<1>3. RoundType /\ OperatorType
  BY DEF SupervisionInit, RoundType, RoundPlaces, InService, Resting, OperatorType, NoCall
<1>4. QueueType
  BY DEF SupervisionInit, QueueType
<1>5. WorkerType
  BY DEF SupervisionInit, WorkerType, WorkerPlaces, Outcomes, Free
<1>6. CountType
  <2>1. executorStopped = FALSE /\ disturbances = 0 /\ MaxDisturbances \in Nat
    BY SupervisionAssumption DEF SupervisionInit
  <2>2. 0 \in 0..MaxDisturbances
    BY <2>1
  <2> QED BY <2>1, <2>2, Zenon DEF CountType
<1>7. AgesOK
  BY <1>1, SupervisionAssumption DEF AgesOK
<1>8. \A s \in Services : ~Waiting(s) /\ ~RoundOwes(s) /\ ~OperatorOwes(s)
  BY <1>1 DEF SupervisionInit, Resting, NoCall, Waiting, Handed, RoundOwes, OperatorOwes, At
<1>9. \A s \in Services : Claims(s) = 0
  BY <1>8 DEF Claims, One
<1>10. Paid
  BY <1>9 DEF Paid, SupervisionInit
<1> QED BY <1>1, <1>2, <1>3, <1>4, <1>5, <1>6, <1>7, <1>10 DEF SupervisionInv, SupervisionTypeOK

LEMMA StutterKeeps ==
  ASSUME SupervisionInv, UNCHANGED supervisionVars
  PROVE  SupervisionInv'
<1>1. RecordType' /\ RoundType' /\ OperatorType' /\ Paid' /\ AgesOK'
  BY ClaimsUntouched DEF supervisionVars
<1>2. AdapterType' /\ QueueType' /\ WorkerType' /\ CountType'
  BY DEF SupervisionInv, SupervisionTypeOK, AdapterType, QueueType, WorkerType, CountType,
         supervisionVars
<1> QED BY <1>1, <1>2 DEF SupervisionInv, SupervisionTypeOK

\* The inductive invariant: the records, queues and places have their types, every
\* restart that may still be handed to a worker has an attempt of its own that was
\* paid and not dispatched, and no record holds more attempts than the budget.
THEOREM SupervisionInvariant == SupervisionSpec => []SupervisionInv
<1>1. SupervisionInit => SupervisionInv
  BY SupervisionInitInv
<1>2. SupervisionInv /\ [SupervisionNext]_supervisionVars => SupervisionInv'
  BY ReconcileKeeps, WorkerKeeps, CallsKeep, OperatorKeeps, ResourceFailsKeeps, TickKeeps,
     StutterKeeps, Zenon DEF SupervisionNext
<1> QED BY <1>1, <1>2, PTL DEF SupervisionSpec

\* consume_restart_budget (supervisor_restart.rs) and dispatch_due_restarts: whatever
\* the reconcile thread, the operator and the workers do, the workers are never given
\* more restarts of a service than were paid for, and no window holds more attempts
\* than the budget.
THEOREM RestartsPaid == SupervisionSpec => []RestartsArePaidFor
<1>1. SupervisionInv => RestartsArePaidFor
  <2>1. SUFFICES ASSUME SupervisionInv, NEW s \in Services
                 PROVE  owed[s] >= 0 /\ Len(Recent(s)) <= Budget
    BY DEF RestartsArePaidFor
  <2>2. owed[s] \in Int /\ owed[s] >= Claims(s)
    BY <2>1 DEF SupervisionInv, Paid
  <2>3. Claims(s) \in Nat
    BY DEF Claims, One
  <2>4. Recent(s) \in Seq(Nat) /\ Len(Recent(s)) <= Len(record[s].ages)
    BY <2>1, RecentFacts DEF SupervisionInv, SupervisionTypeOK
  <2>5. record[s].ages \in Seq(Nat) /\ Len(record[s].ages) <= Budget /\ Budget \in Nat
    BY <2>1, SupervisionAssumption DEF SupervisionInv, SupervisionTypeOK, RecordType, Records,
                                       AgesOK
  <2> QED BY <2>2, <2>3, <2>4, <2>5
<1> QED BY <1>1, SupervisionInvariant, PTL

-----------------------------------------------------------------------------
(* A managed thread, and the watchdog.                                     *)

\* Calls come one after the other: there is one caller.
Serial == \A c, d \in Callers : c = d

\* While a stop waits, the state holds no thread: the thread is the stop's.
TakenOut == \A c \in Callers : stopping[c] # None => runtime = None

Inv == TypeOK /\ LiveThreadsAreOwned /\ TakenOut

\* The invariant holds when the service is created.
LEMMA InitInv == Init => Inv
  BY ThreadAssumption DEF Init, Inv, TypeOK, LiveThreadsAreOwned, TakenOut, Live,
     Healths, RuntimeStates

\* What refresh leaves in the state is what was there, if it lives, and otherwise
\* nothing.
LEMMA RefreshedFacts ==
  ASSUME TypeOK
  PROVE  /\ Refreshed.health \in Healths
         /\ Refreshed.state \in RuntimeStates
         /\ Refreshed.runtime \in {runtime, None}
         /\ runtime \in Live => Refreshed.runtime = runtime
         /\ Refreshed.runtime # None => Refreshed.runtime = runtime
  BY ThreadAssumption DEF TypeOK, Refreshed, Stale, Live, Healths, RuntimeStates

\* Every step of the service keeps the invariant.
LEMMA StepInv ==
  ASSUME Serial, Inv, [Next]_vars
  PROVE  Inv'
<1> USE ThreadAssumption DEF Inv, TypeOK, LiveThreadsAreOwned, TakenOut, Live, Idle,
    Set, Healths, RuntimeStates
<1>1. CASE UNCHANGED vars
  BY <1>1 DEF vars
<1>2. ASSUME NEW c \in Callers, NEW i \in Instances, Start(c, i)  PROVE Inv'
  <2>1. stopping = [d \in Callers |-> None]
    BY <1>2, Zenon DEF Start, Serial
  <2>2. \A j \in Instances : thread[j] # "live"
    BY <1>2, <2>1, RefreshedFacts DEF Start, MayStart
  <2> QED  BY <1>2, <2>1, <2>2 DEF Start
<1>3. ASSUME NEW c \in Callers, StartFails(c)  PROVE Inv'
  BY <1>3, RefreshedFacts DEF StartFails, MayStart
<1>4. ASSUME NEW c \in Callers, Stop(c)  PROVE Inv'
  BY <1>4, RefreshedFacts DEF Stop
<1>5. ASSUME NEW c \in Callers, StopNothing(c)  PROVE Inv'
  BY <1>5, RefreshedFacts DEF StopNothing
<1>6. ASSUME NEW c \in Callers, StopCompletes(c)  PROVE Inv'
  BY <1>6 DEF StopCompletes
<1>7. ASSUME NEW c \in Callers, StopPanicked(c)  PROVE Inv'
  BY <1>7 DEF StopPanicked
<1>8. ASSUME NEW c \in Callers, StopTimesOut(c)  PROVE Inv'
  BY <1>8 DEF StopTimesOut, Serial
<1>9. ASSUME NEW i \in Instances, NEW how \in {"returned", "panicked"}, ThreadEnds(i, how)
      PROVE Inv'
  BY <1>9 DEF ThreadEnds
<1>10. CASE Observe
  BY <1>10, RefreshedFacts DEF Observe
<1> HIDE DEF Inv
<1> QED
  BY <1>1, <1>2, <1>3, <1>4, <1>5, <1>6, <1>7, <1>8, <1>9, <1>10, Zenon DEF Next

\* The invariant leaves room for one live thread only.
LEMMA InvOneInstance == ASSUME Serial, Inv PROVE OneInstance
  BY ThreadAssumption
     DEF Serial, Inv, TypeOK, OneInstance, LiveThreadsAreOwned, TakenOut, Live

\* ManagedThreadService::start and stop: as long as lifecycle calls come one after
\* the other, a service never has two live threads.
THEOREM OneThread == ASSUME Serial PROVE Spec => []OneInstance
<1>1. Init => Inv
  BY InitInv
<1>2. Inv /\ [Next]_vars => Inv'
  BY StepInv
<1>3. Inv => OneInstance
  BY InvOneInstance
<1> QED  BY <1>1, <1>2, <1>3, PTL DEF Spec

\* ManagedThreadService::stop: a thread that missed the deadline stays within reach
\* of the next lifecycle call.
THEOREM ThreadsStayOwned == ASSUME Serial PROVE Spec => []LiveThreadsAreOwned
<1>1. Init => Inv
  BY InitInv
<1>2. Inv /\ [Next]_vars => Inv'
  BY StepInv
<1>3. Inv => LiveThreadsAreOwned
  BY DEF Inv
<1> QED  BY <1>1, <1>2, <1>3, PTL DEF Spec

-----------------------------------------------------------------------------
(* The watchdog.                                                           *)

\* Stopping, and nobody left who looked at the state before it was.
Settled ==
  /\ state = "Stopping"
  /\ cycle.pc # "decided"
  /\ \A p \in Probes : probe[p].pc = "idle"

\* The watchdog's atomics and its callers keep their types.
LEMMA WatchdogTypes ==
  ASSUME MaxTime \in Nat, WatchdogTypeOK, [WatchdogNext]_watchdogVars
  PROVE  WatchdogTypeOK'
<1> USE DEF WatchdogTypeOK, States
<1>1. CASE UNCHANGED watchdogVars
  BY <1>1 DEF watchdogVars
<1>2. CASE ReconcileStarts \/ ReconcileFails \/ SetHealthy \/ LookBeforeHealthy
  BY <1>2 DEF ReconcileStarts, ReconcileFails, SetHealthy, LookBeforeHealthy
<1>3. CASE RecordProgress \/ CountCycle
  BY <1>3 DEF RecordProgress, CountCycle
<1>4. ASSUME NEW p \in Probes, ProbeReads(p)
      PROVE  WatchdogTypeOK'
  BY <1>4 DEF ProbeReads
<1>5. ASSUME NEW p \in Probes, ProbeDecides(p)
      PROVE  WatchdogTypeOK'
  <2>1. Verdict(probe[p].at) \in States
    BY DEF Verdict
  <2> DEFINE v == Verdict(probe[p].at)
             Row == [pc : {"idle", "read", "decided"}, at : 0..MaxTime,
                     previous : States, next : States]
  <2>2. probe[p] \in Row /\ ProbeResting \in Row
    BY DEF ProbeResting
  <2> HIDE DEF v
  <2>3. [probe[p] EXCEPT !.pc = "decided", !.next = v] \in Row
    BY <2>1, <2>2 DEF v
  <2>4. probe' \in [Probes -> Row]
    <3>1. \E x \in Row : probe' = [probe EXCEPT ![p] = x]
      BY <1>5, <2>2, <2>3 DEF ProbeDecides, v
    <3> QED BY <3>1
  <2> QED BY <1>5, <2>4 DEF ProbeDecides
<1>6. ASSUME NEW p \in Probes, ProbeSets(p)
      PROVE  WatchdogTypeOK'
  BY <1>6 DEF ProbeSets, ProbeResting
<1>7. CASE MarkStopping
  BY <1>7 DEF MarkStopping
<1>8. CASE WatchdogTick
  BY <1>8 DEF WatchdogTick
<1> QED BY <1>1, <1>2, <1>3, <1>4, <1>5, <1>6, <1>7, <1>8 DEF WatchdogNext, Probing

\* Who looks at a state that says Stopping stores nothing.
LEMMA SettledStep ==
  ASSUME WatchdogTypeOK, Settled, [WatchdogNext]_watchdogVars
  PROVE  Settled'
<1> USE DEF Settled, WatchdogTypeOK
<1>1. CASE UNCHANGED watchdogVars
  BY <1>1 DEF watchdogVars
<1>2. CASE ReconcileStarts \/ ReconcileFails \/ RecordProgress \/ CountCycle
  BY <1>2 DEF ReconcileStarts, ReconcileFails, RecordProgress, CountCycle
<1>3. CASE LookBeforeHealthy \/ SetHealthy
  BY <1>3 DEF LookBeforeHealthy, SetHealthy
<1>4. ASSUME NEW p \in Probes, Probing(p)
      PROVE  FALSE
  BY <1>4 DEF Probing, ProbeReads, ProbeDecides, ProbeSets
<1>5. CASE MarkStopping \/ WatchdogTick
  BY <1>5 DEF MarkStopping, WatchdogTick
<1> QED BY <1>1, <1>2, <1>3, <1>4, <1>5 DEF WatchdogNext

\* Although looks and stores are separate operations and no lock is taken, a
\* watchdog that says Stopping with nobody on his way to overwrite it says so for
\* good, for any number of probes.
THEOREM StoppingIsFinal ==
  ASSUME MaxTime \in Nat
  PROVE  WatchdogSpec => StoppingSticks
<1>1. WatchdogInit => WatchdogTypeOK
  <2> SUFFICES ASSUME WatchdogInit PROVE WatchdogTypeOK
    OBVIOUS
  <2>1. marked \in BOOLEAN
    BY Zenon DEF WatchdogInit
  <2>2. probe \in [Probes -> [pc : {"idle", "read", "decided"}, at : 0..MaxTime,
                              previous : States, next : States]]
    BY DEF WatchdogInit, States, ProbeResting
  <2> QED BY <2>1, <2>2 DEF WatchdogInit, WatchdogTypeOK, States
<1>2. WatchdogTypeOK /\ [WatchdogNext]_watchdogVars => WatchdogTypeOK'
  BY WatchdogTypes
<1>3. WatchdogTypeOK /\ Settled /\ [WatchdogNext]_watchdogVars => Settled'
  BY SettledStep
<1>4. Settled => state = "Stopping"
  BY DEF Settled
<1>5. WatchdogSpec => [](Settled => [](state = "Stopping"))
  BY <1>1, <1>2, <1>3, <1>4, PTL DEF WatchdogSpec
<1> QED BY <1>5 DEF StoppingSticks, Settled
=============================================================================
