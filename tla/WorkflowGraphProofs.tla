------------------------- MODULE WorkflowGraphProofs -------------------------
(***************************************************************************)
(* Proofs about WorkflowGraph, for every graph.                            *)
(*                                                                         *)
(* SearchInv is the invariant of the depth-first search: the visited nodes *)
(* are closed under edges, so that the node that joins them is behind none *)
(* of them, and any set of visited nodes has one that reads none of the    *)
(* set.  SortInv is that of the second search: a count is the number of    *)
(* edges not counted down yet.  The second search cannot get stuck because *)
(* the nodes it has not ordered would be a set the first one excludes.     *)
(* RanInOrder is about executions: the nodes that ran are the first of the *)
(* order.  RisingInv is about the deque: order and deque together rise by  *)
(* the place of the last upstream node, and by id where it is the same.    *)
(* Work is the variant: what is left to do, of which every step takes.     *)
(***************************************************************************)
EXTENDS WorkflowGraph, FiniteSetTheorems, SequenceTheorems, TLAPS

Distinct(s) == \A i, j \in DOMAIN s : s[i] = s[j] => i = j

Frames == [node : Ids, edge : Edges \cup {0}]

Searched == stage \in {"seeding", "sorting", "unsortable"} \/ Sorted

(* Nodes that no cycle runs through, whichever are taken. *)
Grounded(V) ==
  \A S \in SUBSET V : S # {} =>
    \E n \in S : \A e \in Incoming(n) : Source(e) \notin S

(* p is a stack of calls, each at the edge to the next, with the edges     *)
(* before it behind it; so is the last one's edge when settled.            *)
Walk(p, V, settled) ==
  /\ p \in Seq(Frames)
  /\ \A i, j \in DOMAIN p : p[i].node = p[j].node => i = j
  /\ \A i \in DOMAIN p : p[i].node \notin V
  /\ \A i \in DOMAIN p : i < Len(p) =>
       \E e \in Edges : /\ e = p[i].edge
                        /\ Source(e) = p[i].node /\ Target(e) = p[i + 1].node
  /\ \A i \in DOMAIN p : \A e \in Edges :
       /\ Source(e) = p[i].node
       /\ e < p[i].edge \/ (e = p[i].edge /\ i = Len(p) /\ settled)
       => Target(e) \in V

SearchInv ==
  /\ graph \in Graphs
  /\ stage \in Stages
  /\ stage \notin {"drawn", "refused"} => Valid
  /\ visited \subseteq Ids
  /\ \A e \in Edges : Source(e) \in visited => Target(e) \in visited
  /\ Grounded(visited)
  /\ Walk(path, visited, stage = "visiting")
  /\ stage = "drawn" => path = <<>>
  /\ Searched => visited = Ids
  /\ RefusedIsCyclic

(* The edges into n that have not been counted down. *)
Pending(n, o, l) == {e \in Incoming(n) : Source(e) \notin Elements(o) \/ e \in l}

(* The deque r, the order o, the edges l at hand and the counts c agree.   *)
Books(r, o, l, c) ==
  /\ r \in Seq(Ids) /\ Distinct(r)
  /\ o \in Seq(Ids) /\ Distinct(o)
  /\ Elements(r) \cap Elements(o) = {}
  /\ l \subseteq Edges /\ \A e \in l : Source(e) \in Elements(o)
  /\ c \in [Ids -> Nat]
  /\ \A n \in Ids : c[n] = Cardinality(Pending(n, o, l))
  /\ \A n \in Elements(r) \cup Elements(o) : Pending(n, o, l) = {}
  /\ \A j \in DOMAIN o : \A e \in Incoming(o[j]) : \E i \in 1..(j - 1) : o[i] = Source(e)

(* No node that could be ordered has been overlooked.                      *)
Complete(r, o, l) ==
  \A n \in Ids : Pending(n, o, l) = {} => n \in Elements(r) \cup Elements(o)

SortInv ==
  /\ ~Searched => ready = <<>> /\ ordered = <<>> /\ left = {}
  /\ Searched => Books(ready, ordered, left, counts)
  /\ stage = "seeding" => ordered = <<>> /\ left = {}
  /\ Searched /\ stage # "seeding" => Complete(ready, ordered, left)
  /\ Sorted => Elements(ordered) = Ids
  /\ SortNeverFails

-----------------------------------------------------------------------------
(* Sequences and graphs. *)

(* Where the elements of a longer sequence are.                            *)
LEMMA AppendPlaces ==
  ASSUME NEW T, NEW s \in Seq(T), NEW x \in T
  PROVE  /\ Append(s, x) \in Seq(T) /\ Len(Append(s, x)) = Len(s) + 1
         /\ \A i \in 1..Len(s) : Append(s, x)[i] = s[i]
         /\ Append(s, x)[Len(s) + 1] = x
         /\ Len(s) \in Nat /\ DOMAIN s = 1..Len(s) /\ DOMAIN Append(s, x) = 1..(Len(s) + 1)
  OBVIOUS

(* Appending an element adds it to the elements.                           *)
LEMMA AppendElements ==
  ASSUME NEW T, NEW s \in Seq(T), NEW x \in T
  PROVE  /\ Append(s, x) \in Seq(T)
         /\ Elements(Append(s, x)) = Elements(s) \cup {x}
         /\ Distinct(s) /\ x \notin Elements(s) => Distinct(Append(s, x))
<1>1. /\ Append(s, x) \in Seq(T) /\ Len(Append(s, x)) = Len(s) + 1
      /\ \A i \in 1..Len(s) : Append(s, x)[i] = s[i]
      /\ Append(s, x)[Len(s) + 1] = x
      /\ Len(s) \in Nat /\ DOMAIN s = 1..Len(s) /\ DOMAIN Append(s, x) = 1..(Len(s) + 1)
  BY AppendPlaces
<1>2. Elements(Append(s, x)) = Elements(s) \cup {x}
  <2>1. ASSUME NEW y \in Elements(Append(s, x)) PROVE y \in Elements(s) \cup {x}
    BY <1>1 DEF Elements
  <2>2. ASSUME NEW y \in Elements(s) PROVE y \in Elements(Append(s, x))
    BY <1>1 DEF Elements
  <2>3. x \in Elements(Append(s, x)) BY <1>1 DEF Elements
  <2>. QED BY <2>1, <2>2, <2>3
<1>3. Distinct(s) /\ x \notin Elements(s) => Distinct(Append(s, x))
  BY <1>1 DEF Elements, Distinct
<1>. QED BY <1>1, <1>2, <1>3

(* Taking the head of a sequence without repetitions takes that element.   *)
LEMMA TailElements ==
  ASSUME NEW T, NEW s \in Seq(T), s # <<>>, Distinct(s)
  PROVE  /\ Head(s) \in T /\ Head(s) \in Elements(s)
         /\ Tail(s) \in Seq(T) /\ Distinct(Tail(s))
         /\ Elements(Tail(s)) = Elements(s) \ {Head(s)}
<1>1. /\ Len(s) \in Nat \ {0} /\ DOMAIN s = 1..Len(s) /\ Head(s) = s[1]
      /\ Tail(s) \in Seq(T) /\ Len(Tail(s)) = Len(s) - 1 /\ DOMAIN Tail(s) = 1..(Len(s) - 1)
      /\ \A i \in 1..(Len(s) - 1) : Tail(s)[i] = s[i + 1]
  OBVIOUS
<1>2. Distinct(Tail(s)) BY <1>1 DEF Distinct
<1>3. Head(s) \in T /\ Head(s) \in Elements(s) BY <1>1 DEF Elements
<1>4. ASSUME NEW y \in Elements(Tail(s)) PROVE y \in Elements(s) \ {Head(s)}
  <2>1. PICK i \in 1..(Len(s) - 1) : y = s[i + 1] BY <1>1 DEF Elements
  <2>2. i + 1 \in DOMAIN s /\ 1 \in DOMAIN s /\ i + 1 # 1 BY <1>1
  <2>. QED BY <2>1, <2>2, <1>1 DEF Elements, Distinct
<1>5. ASSUME NEW y \in Elements(s), y # Head(s) PROVE y \in Elements(Tail(s))
  <2>1. PICK i \in 1..Len(s) : y = s[i] BY <1>1 DEF Elements
  <2>2. i - 1 \in 1..(Len(s) - 1) /\ Tail(s)[i - 1] = y BY <2>1, <1>1, <1>5
  <2>. QED BY <2>2, <1>1 DEF Elements
<1>. QED BY <1>1, <1>2, <1>3, <1>4, <1>5

(* A graph has finitely many nodes and edges, and edges are numbers.       *)
LEMMA GraphFinite ==
  ASSUME graph \in Graphs
  PROVE  /\ IsFiniteSet(Ids) /\ IsFiniteSet(Edges)
         /\ Edges \subseteq Nat \ {0} /\ Ids \subseteq Nat
<1>1. /\ Len(graph.nodes) \in Nat /\ Len(graph.edges) \in Nat
      /\ DOMAIN graph.nodes = 1..Len(graph.nodes) /\ Edges = 1..Len(graph.edges)
      /\ \A i \in DOMAIN graph.nodes : graph.nodes[i].id \in Nat
  BY GraphsAssumption DEF Edges
<1>2. IsFiniteSet(Edges) /\ IsFiniteSet(DOMAIN graph.nodes) BY <1>1, FS_Interval
<1>3. IsFiniteSet(Ids)
  <2>. DEFINE f == [i \in DOMAIN graph.nodes |-> graph.nodes[i].id]
  <2>1. f \in Surjection(DOMAIN graph.nodes, Ids) BY DEF Surjection, Ids
  <2>. QED BY <2>1, <1>2, FS_Surjection
<1>. QED BY <1>1, <1>2, <1>3 DEF Ids

(* The edges of a valid graph join its nodes.                              *)
LEMMA EdgesInside ==
  ASSUME Valid, NEW e \in Edges
  PROVE  Source(e) \in Ids /\ Target(e) \in Ids
  BY DEF Valid

(* A sequence with every element of a finite set once is as long as the    *)
(* set has elements.                                                       *)
LEMMA DistinctLength ==
  ASSUME NEW T, IsFiniteSet(T), NEW s \in Seq(T), Distinct(s), Elements(s) = T
  PROVE  Len(s) = Cardinality(T)
<1>1. Len(s) \in Nat /\ DOMAIN s = 1..Len(s) /\ s \in [1..Len(s) -> T] OBVIOUS
<1>2. s \in Bijection(1..Len(s), T)
  BY <1>1 DEF Bijection, Injection, Surjection, IsInjective, Distinct, Elements
<1>3. IsFiniteSet(1..Len(s)) /\ Cardinality(1..Len(s)) = Len(s) BY <1>1, FS_Interval
<1>. QED BY <1>2, <1>3, FS_Bijection DEF ExistsBijection

(* What the definitions make of the graph stays as long as the graph does. *)
LEMMA GraphKept ==
  ASSUME UNCHANGED graph
  PROVE  /\ Ids' = Ids /\ Edges' = Edges /\ (Valid' <=> Valid)
         /\ \A e : (Source(e))' = Source(e) /\ (Target(e))' = Target(e)
         /\ \A n : (Incoming(n))' = Incoming(n) /\ (Outgoing(n))' = Outgoing(n)
         /\ Frames' = Frames /\ (Cyclic' <=> Cyclic)
         /\ \A V : (Grounded(V))' <=> Grounded(V)
<1>1. /\ Ids' = Ids /\ Edges' = Edges
      /\ \A e : (Source(e))' = Source(e) /\ (Target(e))' = Target(e)
  BY DEF Ids, Edges, Source, Target
<1>2. /\ \A n : (Incoming(n))' = Incoming(n) /\ (Outgoing(n))' = Outgoing(n)
  BY <1>1 DEF Incoming, Outgoing
<1>3. Valid' <=> Valid
  BY DEF Valid, Parses, UniqueIds, NodesKnown, PortsMatch, RequiredInputs, OutputExists,
         OutputsConnected, Connected, IsOutput, Node, Elements, Incoming, Ids, Edges, Source, Target
<1>4. Frames' = Frames BY <1>1 DEF Frames
<1>5. Cyclic' <=> Cyclic BY <1>1, <1>2 DEF Cyclic
<1>6. \A V : (Grounded(V))' <=> Grounded(V) BY <1>1, <1>2 DEF Grounded
<1>. QED BY <1>1, <1>2, <1>3, <1>4, <1>5, <1>6

(* The invariant of the stack, after a step that keeps the graph.          *)
LEMMA WalkKept ==
  ASSUME UNCHANGED graph
  PROVE  (Walk(path, visited, stage = "visiting"))'
           <=> Walk(path', visited', stage' = "visiting")
  BY DEF Walk, Frames, Ids, Edges, Source, Target

-----------------------------------------------------------------------------
(* The search for cycles. *)

(* A node that joins grounded nodes without being behind one of them, or   *)
(* behind itself, leaves them grounded.                                    *)
LEMMA GroundedGrows ==
  ASSUME NEW V, Grounded(V), NEW n, \A e \in Incoming(n) : Source(e) \notin V \cup {n}
  PROVE  Grounded(V \cup {n})
<1>. SUFFICES ASSUME NEW S \in SUBSET (V \cup {n}), S # {}
              PROVE  \E m \in S : \A e \in Incoming(m) : Source(e) \notin S
  BY DEF Grounded
<1>1. CASE n \in S BY <1>1
<1>2. CASE n \notin S
  <2>1. S \in SUBSET V BY <1>2
  <2>. QED BY <2>1 DEF Grounded
<1>. QED BY <1>1, <1>2

(* The search invariant after a step that keeps the graph. *)
LEMMA SearchKept ==
  ASSUME UNCHANGED graph, SearchInv,
         stage' \in Stages \ {"drawn"}, stage' # "refused" => Valid,
         visited' \subseteq Ids,
         \A e \in Edges : Source(e) \in visited' => Target(e) \in visited',
         Grounded(visited'), Walk(path', visited', stage' = "visiting"),
         Searched' => visited' = Ids, stage' = "cyclic" => Cyclic
  PROVE  SearchInv'
<1>1. graph' \in Graphs BY DEF SearchInv
<1>2. (Grounded(visited))' <=> Grounded(visited') BY GraphKept DEF Grounded
<1>3. RefusedIsCyclic' BY GraphKept DEF RefusedIsCyclic
<1>. QED BY <1>1, <1>2, <1>3, GraphKept, WalkKept DEF SearchInv

(* A stack stays one when the loop is not at it. *)
LEMMA WalkRests ==
  ASSUME NEW p, NEW V, NEW b \in BOOLEAN, Walk(p, V, b)
  PROVE  Walk(p, V, FALSE)
  BY DEF Walk

(* Steps that leave the search where it is. *)
LEMMA SearchRests ==
  ASSUME SearchInv, UNCHANGED <<graph, path, visited>>,
         stage' \in Stages \ {"drawn", "cyclic", "visiting"},
         stage' # "refused" => Valid, Searched' => visited = Ids
  PROVE  SearchInv'
<1>1. Walk(path', visited', stage' = "visiting") BY WalkRests DEF SearchInv
<1>. QED BY <1>1, SearchKept DEF SearchInv

(* The search starts on a valid graph. *)
LEMMA SearchCheck ==
  ASSUME SearchInv, Check
  PROVE  SearchInv'
<1>1. /\ stage' \in Stages \ {"drawn", "cyclic"} /\ (stage' # "refused" => Valid)
      /\ UNCHANGED <<graph, path, visited>>
  BY DEF Check, Stages, Ends
<1>2. ~Searched' BY DEF Check, Searched, Sorted
<1>3. path = <<>> BY DEF Check, SearchInv
<1>4. Walk(path', visited', stage' = "visiting") BY <1>1, <1>3 DEF SearchInv, Walk
<1>. QED BY <1>1, <1>2, <1>4, SearchKept DEF SearchInv

(* A visit from the loop over the nodes.                                   *)
LEMMA SearchRoot ==
  ASSUME SearchInv, VisitRoot
  PROVE  SearchInv'
<1>1. PICK i \in DOMAIN graph.nodes :
        graph.nodes[i].id \notin visited /\ path' = <<Call(graph.nodes[i].id)>>
  BY DEF VisitRoot
<1>. DEFINE n == graph.nodes[i].id
<1>2. n \in Ids /\ n \notin visited BY <1>1 DEF Ids
<1>3. Call(n) \in Frames /\ Call(n).node = n /\ Call(n).edge = 0
  BY <1>2 DEF Call, Frames
<1>4. path' \in Seq(Frames) /\ DOMAIN path' = {1} /\ Len(path') = 1 /\ path'[1] = Call(n)
  BY <1>1, <1>3
<1>5. UNCHANGED <<graph, stage, visited>> BY DEF VisitRoot
<1>6. \A e \in Edges : ~(e < 0) /\ e # 0 BY GraphFinite DEF SearchInv
<1>7. Walk(path', visited', stage' = "visiting") BY <1>2, <1>3, <1>4, <1>5, <1>6 DEF Walk
<1>8. ~Searched' /\ stage' = "visiting" /\ Valid
  BY <1>5 DEF VisitRoot, SearchInv, Searched, Sorted
<1>. QED BY <1>5, <1>7, <1>8, SearchKept DEF SearchInv, Stages

(* A call of visit for the target of the edge the innermost loop is at.    *)
LEMMA WalkGrows ==
  ASSUME graph \in Graphs, NEW p, NEW V, Walk(p, V, FALSE), NEW t \in Ids, t \notin V,
         \A i \in DOMAIN p : p[i].node # t,
         NEW e \in Edges, p # <<>>, Source(e) = p[Len(p)].node, Target(e) = t,
         p[Len(p)].edge = e
  PROVE  Walk(Append(p, Call(t)), V, TRUE)
<1>. DEFINE q == Append(p, Call(t))
            k == Len(p)
<1>1. p \in Seq(Frames) BY DEF Walk
<1>2. k \in Nat \ {0} /\ DOMAIN p = 1..k BY <1>1
<1>3. Call(t) \in Frames /\ Call(t).node = t /\ Call(t).edge = 0 BY DEF Call, Frames
<1>4. /\ q \in Seq(Frames) /\ Len(q) = k + 1 /\ DOMAIN q = 1..(k + 1)
      /\ \A i \in 1..k : q[i] = p[i]
      /\ q[k + 1] = Call(t)
  BY <1>1, <1>3, AppendPlaces
<1>. HIDE DEF q
<1>5. \A i \in 1..(k + 1) : i = k + 1 \/ i \in 1..k BY <1>2
<1>6. /\ \A i, j \in 1..(k + 1) : q[i].node = q[j].node => i = j
      /\ \A i \in 1..(k + 1) : q[i].node \notin V
  BY <1>2, <1>3, <1>4, <1>5 DEF Walk
<1>7. \A i \in 1..(k + 1) : i < k + 1 =>
        \E f \in Edges : f = q[i].edge /\ Source(f) = q[i].node /\ Target(f) = q[i + 1].node
  <2>. SUFFICES ASSUME NEW i \in 1..k
                PROVE  \E f \in Edges : f = q[i].edge /\ Source(f) = q[i].node /\ Target(f) = q[i + 1].node
    BY <1>2
  <2>1. CASE i = k BY <2>1, <1>2, <1>3, <1>4
  <2>2. CASE i # k
    <3>1. i < k /\ i + 1 \in 1..k
      <4>1. k \in Nat /\ i \in Nat /\ 1 <= i /\ i <= k BY <1>2
      <4>. HIDE DEF k
      <4>. QED BY <4>1, <2>2
    <3>2. \E f \in Edges : f = p[i].edge /\ Source(f) = p[i].node /\ Target(f) = p[i + 1].node
      BY <3>1, <1>2 DEF Walk
    <3>3. q[i] = p[i] /\ q[i + 1] = p[i + 1] BY <3>1, <1>4
    <3>. QED BY <3>2, <3>3
  <2>. QED BY <2>1, <2>2
<1>8. \A i \in 1..(k + 1) : \A f \in Edges :
        Source(f) = q[i].node /\ (f < q[i].edge \/ (f = q[i].edge /\ i = k + 1)) => Target(f) \in V
  <2>1. \A f \in Edges : ~(f < 0) /\ f # 0 BY GraphFinite
  <2>2. k + 1 \notin 1..k BY <1>2
  <2>3. \A i \in 1..k : \A f \in Edges : Source(f) = p[i].node /\ f < p[i].edge => Target(f) \in V
    BY <1>2 DEF Walk
  <2>. QED BY <1>3, <1>4, <1>5, <2>1, <2>2, <2>3
<1>9. Walk(q, V, TRUE) BY <1>4, <1>6, <1>7, <1>8 DEF Walk
<1>. QED BY <1>9 DEF q

(* The innermost loop comes to its next edge.                              *)
Advanced(p, e) == [p EXCEPT ![Len(p)].edge = e]

(* The stack is one then: at the edge, and past it if there is no call.    *)
LEMMA WalkAdvances ==
  ASSUME graph \in Graphs, NEW p, NEW V, Walk(p, V, TRUE), p # <<>>,
         NEW e \in Edges, Source(e) = p[Len(p)].node, p[Len(p)].edge < e,
         \A f \in Edges : Source(f) = p[Len(p)].node /\ p[Len(p)].edge < f => e <= f
  PROVE  /\ Walk(Advanced(p, e), V, FALSE) /\ (Target(e) \in V => Walk(Advanced(p, e), V, TRUE))
         /\ Advanced(p, e) # <<>> /\ Len(Advanced(p, e)) = Len(p) /\ DOMAIN Advanced(p, e) = DOMAIN p
         /\ Advanced(p, e)[Len(p)].edge = e
         /\ \A i \in DOMAIN p : Advanced(p, e)[i].node = p[i].node
<1>. DEFINE k == Len(p)
            here == Advanced(p, e)
<1>1. /\ p \in Seq(Frames) /\ k \in Nat \ {0} /\ DOMAIN p = 1..k
      /\ \A i \in 1..k : p[i] \in Frames /\ p[i].edge \in Nat
  <2>1. p \in Seq(Frames) BY DEF Walk
  <2>2. k \in Nat \ {0} /\ DOMAIN p = 1..k /\ \A i \in 1..k : p[i] \in Frames BY <2>1
  <2>3. \A x \in Frames : x.edge \in Nat BY GraphFinite DEF Frames
  <2>. QED BY <2>1, <2>2, <2>3
<1>2. /\ here \in Seq(Frames) /\ Len(here) = k /\ DOMAIN here = 1..k
      /\ \A i \in 1..k : here[i].node = p[i].node
      /\ \A i \in 1..k : i # k => here[i] = p[i]
      /\ here[k].edge = e
  <2>1. p[k] \in Frames BY <1>1
  <2>2. [p[k] EXCEPT !.edge = e] \in Frames BY <2>1 DEF Frames
  <2>3. here = [p EXCEPT ![k] = [p[k] EXCEPT !.edge = e]] BY DEF Advanced
  <2>4. here \in Seq(Frames) /\ Len(here) = k /\ DOMAIN here = 1..k
    BY <1>1, <2>2, <2>3
  <2>5. here[k] = [p[k] EXCEPT !.edge = e] /\ \A i \in 1..k : i # k => here[i] = p[i]
    BY <1>1, <2>3
  <2>6. here[k].node = p[k].node /\ here[k].edge = e BY <2>1, <2>5 DEF Frames
  <2>. QED BY <2>4, <2>5, <2>6
<1>. HIDE DEF here
<1>3. \A f \in Edges : Source(f) = p[k].node /\ f < e => Target(f) \in V
  <2>. SUFFICES ASSUME NEW f \in Edges, Source(f) = p[k].node, f < e PROVE Target(f) \in V
    OBVIOUS
  <2>1. f \in Nat /\ e \in Nat BY GraphFinite
  <2>2. f < p[k].edge \/ f = p[k].edge BY <1>1, <2>1
  <2>. QED BY <1>1, <2>2 DEF Walk
<1>4. /\ \A i, j \in 1..k : here[i].node = here[j].node => i = j
      /\ \A i \in 1..k : here[i].node \notin V
  BY <1>1, <1>2 DEF Walk
<1>5. \A i \in 1..k : i < k =>
        \E f \in Edges : /\ f = here[i].edge
                         /\ Source(f) = here[i].node /\ Target(f) = here[i + 1].node
  <2>. SUFFICES ASSUME NEW i \in 1..k, i < k
                PROVE  \E f \in Edges : /\ f = here[i].edge
                                        /\ Source(f) = here[i].node /\ Target(f) = here[i + 1].node
    OBVIOUS
  <2>1. i + 1 \in 1..k /\ i # k
    <3>1. k \in Nat \ {0} BY <1>1
    <3>. HIDE DEF k
    <3>. QED BY <3>1
  <2>2. \E f \in Edges : f = p[i].edge /\ Source(f) = p[i].node /\ Target(f) = p[i + 1].node
    BY <1>1 DEF Walk
  <2>3. here[i] = p[i] /\ here[i + 1].node = p[i + 1].node BY <1>2, <2>1
  <2>. QED BY <2>2, <2>3
<1>6. \A i \in 1..k : \A f \in Edges : Source(f) = here[i].node /\ f < here[i].edge => Target(f) \in V
  <2>. SUFFICES ASSUME NEW i \in 1..k, NEW f \in Edges, Source(f) = here[i].node, f < here[i].edge
                PROVE  Target(f) \in V
    OBVIOUS
  <2>1. CASE i = k BY <2>1, <1>2, <1>3
  <2>2. CASE i # k BY <2>2, <1>1, <1>2 DEF Walk
  <2>. QED BY <2>1, <2>2
<1>7. Walk(here, V, FALSE) BY <1>2, <1>4, <1>5, <1>6 DEF Walk
<1>8. Target(e) \in V => Walk(here, V, TRUE) BY <1>2, <1>4, <1>5, <1>6 DEF Walk
<1>. QED BY <1>1, <1>2, <1>7, <1>8 DEF here
(* A target that is on the stack closes a cycle.                           *)
LEMMA LoopIsCycle ==
  ASSUME NEW p, NEW V, Walk(p, V, FALSE), p # <<>>,
         NEW e \in Edges, Source(e) = p[Len(p)].node,
         NEW l \in DOMAIN p, p[l].node = Target(e)
  PROVE  Cyclic
<1>. DEFINE k == Len(p)
            S == {p[i].node : i \in l..k}
<1>1. p \in Seq(Frames) BY DEF Walk
<1>2. k \in Nat \ {0} /\ DOMAIN p = 1..k /\ \A i \in 1..k : p[i] \in Frames BY <1>1
<1>. HIDE DEF k
<1>3. l \in 1..k /\ k \in l..k /\ \A i \in l..k : i \in 1..k BY <1>2
<1>4. S \subseteq Ids /\ S # {} BY <1>2, <1>3 DEF Frames
<1>5. ASSUME NEW n \in S PROVE \E f \in Outgoing(n) : Target(f) \in S
  <2>1. PICK i \in l..k : n = p[i].node OBVIOUS
  <2>2. CASE i = k
    <3>1. e \in Outgoing(n) BY <2>1, <2>2 DEF Outgoing, k
    <3>2. l \in l..k BY <1>3
    <3>. QED BY <3>1, <3>2
  <2>3. CASE i # k
    <3>1. i \in 1..k /\ i < k /\ i + 1 \in l..k BY <2>3, <1>2, <1>3
    <3>2. PICK f \in Edges : Source(f) = n /\ Target(f) = p[i + 1].node
      BY <3>1, <2>1, <1>2 DEF Walk, k
    <3>. QED BY <3>1, <3>2 DEF Outgoing
  <2>. QED BY <2>2, <2>3
<1>. QED BY <1>4, <1>5 DEF Cyclic

(* The next target of the innermost loop.                                  *)
LEMMA SearchTarget ==
  ASSUME SearchInv, VisitTarget
  PROVE  SearchInv'
<1>1. PICK e \in Rest :
        /\ \A f \in Rest : e <= f
        /\ stage' = IF Loops(Target(e)) THEN "cyclic" ELSE "visiting"
        /\ path' = IF Target(e) \in Visiting \cup visited
                   THEN Advanced(path, e)
                   ELSE Append(Advanced(path, e), Call(Target(e)))
  BY DEF VisitTarget, Advanced
<1>. DEFINE here == Advanced(path, e)
            t == Target(e)
<1>2. /\ UNCHANGED <<graph, visited>> /\ stage = "visiting" /\ path # <<>>
      /\ graph \in Graphs /\ Valid /\ Walk(path, visited, TRUE)
  BY DEF VisitTarget, SearchInv
<1>3. /\ e \in Edges /\ Source(e) = path[Len(path)].node /\ path[Len(path)].edge < e
      /\ \A f \in Edges : Source(f) = path[Len(path)].node /\ path[Len(path)].edge < f => e <= f
  BY <1>1 DEF Rest, Outgoing, Top
<1>4. /\ Walk(here, visited, FALSE) /\ (t \in visited => Walk(here, visited, TRUE))
      /\ here # <<>> /\ Len(here) = Len(path) /\ DOMAIN here = DOMAIN path
      /\ here[Len(path)].edge = e
      /\ \A i \in DOMAIN path : here[i].node = path[i].node
  BY <1>2, <1>3, WalkAdvances, Zenon
<1>5. t \in Ids BY <1>2, <1>3, EdgesInside
<1>6. Len(path) \in DOMAIN path
  <2>1. path \in Seq(Frames) BY <1>2 DEF Walk
  <2>. QED BY <2>1, <1>2
<1>7. Walk(path', visited', stage' = "visiting") /\ (stage' = "cyclic" => Cyclic)
  <2>. HIDE DEF here
  <2>1. CASE t \in Visiting
    <3>1. stage' = "cyclic" /\ path' = here BY <2>1, <1>1 DEF Loops, here
    <3>2. PICK l \in DOMAIN path : path[l].node = t BY <2>1 DEF Visiting
    <3>3. Cyclic BY <1>3, <1>4, <1>6, <3>2, LoopIsCycle
    <3>. QED BY <3>1, <3>3, <1>2, <1>4
  <2>2. CASE t \notin Visiting /\ t \in visited
    <3>1. stage' = "visiting" /\ path' = here BY <2>2, <1>1 DEF Loops, here
    <3>. QED BY <2>2, <3>1, <1>2, <1>4
  <2>3. CASE t \notin Visiting /\ t \notin visited
    <3>1. stage' = "visiting" /\ path' = Append(here, Call(t)) BY <2>3, <1>1 DEF Loops, here
    <3>2. \A i \in DOMAIN here : here[i].node # t BY <2>3, <1>4 DEF Visiting
    <3>3. Walk(Append(here, Call(t)), visited, TRUE)
      BY <1>2, <1>3, <1>4, <1>5, <1>6, <2>3, <3>2, WalkGrows
    <3>. QED BY <3>1, <3>3, <1>2
  <2>. QED BY <2>1, <2>2, <2>3
<1>8. stage' \in {"visiting", "cyclic"} BY <1>1
<1>9. ~Searched' BY <1>8 DEF Searched, Sorted
<1>. QED BY <1>2, <1>7, <1>8, <1>9, SearchKept DEF SearchInv, Stages, Ends

(* A visit returns: its node is behind none of those that returned before. *)
LEMMA SearchReturns ==
  ASSUME SearchInv, VisitReturns
  PROVE  SearchInv'
<1>. DEFINE k == Len(path)
            n == path[k].node
            W == visited \cup {n}
<1>1. /\ UNCHANGED <<graph, stage>> /\ stage = "visiting" /\ path # <<>> /\ Rest = {}
      /\ visited' = W /\ path' = SubSeq(path, 1, k - 1)
      /\ graph \in Graphs /\ Valid /\ Walk(path, visited, TRUE)
  BY DEF VisitReturns, SearchInv, Top, Returned
<1>2. path \in Seq(Frames) BY <1>1 DEF Walk
<1>3. k \in Nat \ {0} /\ DOMAIN path = 1..k /\ \A i \in 1..k : path[i] \in Frames BY <1>1, <1>2
<1>4. n \in Ids /\ n \notin visited /\ path[k].edge \in Nat
  <2>1. path[k] \in Frames /\ k \in DOMAIN path BY <1>3
  <2>2. \A x \in Frames : x.edge \in Nat BY <1>1, GraphFinite DEF Frames
  <2>. QED BY <2>1, <2>2, <1>1 DEF Frames, Walk
<1>5. \A e \in Edges : Source(e) = n => Target(e) \in visited
  <2>. SUFFICES ASSUME NEW e \in Edges, Source(e) = n PROVE Target(e) \in visited
    OBVIOUS
  <2>1. e \notin Rest BY <1>1
  <2>2. ~(path[k].edge < e) BY <2>1 DEF Rest, Outgoing, Top
  <2>3. e \in Nat BY <1>1, GraphFinite
  <2>4. e < path[k].edge \/ e = path[k].edge BY <2>2, <2>3, <1>4
  <2>. QED BY <2>4, <1>1, <1>3 DEF Walk
<1>6. \A e \in Edges : Source(e) \in W => Target(e) \in W BY <1>5 DEF SearchInv
<1>7. Grounded(W)
  <2>1. \A e \in Incoming(n) : Source(e) \notin visited \cup {n}
    BY <1>4, <1>5 DEF Incoming, SearchInv
  <2>. QED BY <2>1, GroundedGrows DEF SearchInv
<1>8. /\ path' \in Seq(Frames) /\ Len(path') = k - 1 /\ DOMAIN path' = 1..(k - 1)
      /\ \A i \in 1..(k - 1) : path'[i] = path[i]
  BY <1>1, <1>2, <1>3
<1>9. Walk(path', W, TRUE)
  <2>1. \A i \in 1..(k - 1) : i \in 1..k /\ i < k /\ i + 1 \in 1..k /\ (i < k - 1 => i + 1 \in 1..(k - 1))
    BY <1>3
  <2>2. /\ \A i, j \in 1..(k - 1) : path'[i].node = path'[j].node => i = j
        /\ \A i \in 1..(k - 1) : path'[i].node \notin W
    <3>1. k \in 1..k /\ \A i \in 1..(k - 1) : i # k
      <4>1. k \in Nat \ {0} BY <1>3
      <4>. HIDE DEF k
      <4>. QED BY <4>1
    <3>2. \A i \in 1..(k - 1) : path[i].node # n /\ path[i].node \notin visited
      BY <1>1, <1>3, <2>1, <3>1 DEF Walk
    <3>3. \A i, j \in 1..(k - 1) : path[i].node = path[j].node => i = j
      BY <1>1, <1>3, <2>1 DEF Walk
    <3>. QED BY <1>8, <3>2, <3>3
  <2>3. \A i \in 1..(k - 1) : \E e \in Edges : /\ e = path[i].edge
                                               /\ Source(e) = path[i].node /\ Target(e) = path[i + 1].node
    BY <1>1, <1>3, <2>1 DEF Walk
  <2>4. \A i \in 1..(k - 1) : i < k - 1 =>
          \E e \in Edges : /\ e = path'[i].edge
                           /\ Source(e) = path'[i].node /\ Target(e) = path'[i + 1].node
    BY <1>8, <2>1, <2>3
  <2>5. ASSUME NEW i \in 1..(k - 1), NEW e \in Edges, Source(e) = path[i].node,
               e < path[i].edge \/ (e = path[i].edge /\ i = k - 1)
        PROVE  Target(e) \in W
    <3>1. CASE e < path[i].edge BY <3>1, <2>1, <2>5, <1>1, <1>3 DEF Walk
    <3>2. CASE e = path[i].edge /\ i = k - 1
      <4>1. i + 1 = k BY <3>2, <1>3
      <4>. QED BY <3>2, <4>1, <2>3
    <3>. QED BY <2>5, <3>1, <3>2
  <2>6. \A i \in 1..(k - 1) : \A e \in Edges :
          Source(e) = path'[i].node /\ (e < path'[i].edge \/ (e = path'[i].edge /\ i = k - 1)) => Target(e) \in W
    BY <2>5, <1>8
  <2>. QED BY <1>8, <2>2, <2>4, <2>6 DEF Walk
<1>10. ~Searched' BY <1>1 DEF Searched, Sorted
<1>11. stage' = "visiting" BY <1>1
<1>12. visited' \subseteq Ids BY <1>1, <1>4 DEF SearchInv
<1>13. /\ Grounded(visited') /\ Walk(path', visited', stage' = "visiting")
       /\ \A e \in Edges : Source(e) \in visited' => Target(e) \in visited'
  BY <1>1, <1>6, <1>7, <1>9, <1>11
<1>. QED BY <1>1, <1>10, <1>11, <1>12, <1>13, SearchKept DEF Stages

(* The initial state satisfies the search invariant.                       *)
LEMMA SearchInit == Init => SearchInv
<1>. SUFFICES ASSUME Init PROVE SearchInv OBVIOUS
<1>1. Walk(<<>>, {}, FALSE) BY DEF Walk
<1>2. Grounded({}) BY DEF Grounded
<1>. QED BY <1>1, <1>2 DEF Init, SearchInv, Stages, Searched, Sorted, RefusedIsCyclic

(* Every step keeps the search invariant.                                  *)
LEMMA SearchNext == SearchInv /\ [Next]_vars => SearchInv'
<1>. SUFFICES ASSUME SearchInv, [Next]_vars PROVE SearchInv' OBVIOUS
<1>1. CASE Check BY <1>1, SearchCheck
<1>2. CASE VisitRoot BY <1>2, SearchRoot
<1>3. CASE VisitTarget BY <1>3, SearchTarget
<1>4. CASE VisitReturns BY <1>4, SearchReturns
<1>5. CASE SortBegin
  BY <1>5, SearchRests DEF SortBegin, SearchInv, Stages, Searched, Sorted
<1>6. CASE Seed \/ Seeded \/ Pop \/ CountDown \/ SortEnd
  <2>1. /\ UNCHANGED <<graph, path, visited>> /\ Searched
        /\ stage' \in Stages \ {"drawn", "cyclic", "visiting"}
    BY <1>6 DEF Seed, Seeded, Pop, CountDown, SortEnd, Stages, Ends, Searched, SearchInv
  <2>. QED BY <2>1, SearchRests DEF SearchInv, Searched, Sorted
<1>7. CASE RunNode \/ RunEnd
  <2>1. /\ UNCHANGED <<graph, path, visited>> /\ Searched
        /\ stage' \in Stages \ {"drawn", "cyclic", "visiting"}
    BY <1>7 DEF RunNode, RunEnd, Stages, Ends, Searched, Sorted
  <2>. QED BY <2>1, SearchRests DEF SearchInv, Searched, Sorted
<1>8. CASE UNCHANGED vars
  <2>1. UNCHANGED <<graph, stage, path, visited>> BY <1>8 DEF vars
  <2>2. Searched' <=> Searched BY <2>1 DEF Searched, Sorted
  <2>3. Cyclic' <=> Cyclic BY <2>1, GraphKept
  <2>4. (Walk(path, visited, stage = "visiting"))' BY <2>1, WalkKept DEF SearchInv
  <2>. QED BY <2>1, <2>2, <2>3, <2>4, GraphKept DEF SearchInv, RefusedIsCyclic
<1>. QED BY <1>1, <1>2, <1>3, <1>4, <1>5, <1>6, <1>7, <1>8 DEF Next

-----------------------------------------------------------------------------
(* The order. *)

(* The books after a step that keeps the graph.                            *)
LEMMA BooksKept ==
  ASSUME UNCHANGED graph
  PROVE  /\ (Books(ready, ordered, left, counts))' <=> Books(ready', ordered', left', counts')
         /\ (Complete(ready, ordered, left))' <=> Complete(ready', ordered', left')
         /\ (Elements(ordered))' = Elements(ordered')
  BY DEF Books, Complete, Pending, Elements, Distinct, Incoming, Ids, Edges, Source, Target

(* Pending edges are finitely many, so that a count of zero means none.    *)
LEMMA PendingFinite ==
  ASSUME graph \in Graphs, NEW n, NEW o, NEW l
  PROVE  /\ IsFiniteSet(Pending(n, o, l)) /\ Cardinality(Pending(n, o, l)) \in Nat
         /\ Cardinality(Pending(n, o, l)) = 0 <=> Pending(n, o, l) = {}
<1>1. Pending(n, o, l) \in SUBSET Edges BY DEF Pending, Incoming
<1>2. IsFiniteSet(Pending(n, o, l)) BY <1>1, GraphFinite, FS_Subset
<1>. QED BY <1>2, FS_EmptySet, FS_CardinalityType

(* The empty order, with the counts of all edges.                          *)
LEMMA BooksOpen ==
  ASSUME graph \in Graphs
  PROVE  Books(<<>>, <<>>, {}, [n \in Ids |-> Cardinality(Arrivals(n))])
<1>1. \A n \in Ids : Pending(n, <<>>, {}) = Arrivals(n) BY DEF Pending, Arrivals, Elements
<1>2. [n \in Ids |-> Cardinality(Arrivals(n))] \in [Ids -> Nat] BY <1>1, PendingFinite
<1>3. Elements(<<>>) = {} BY DEF Elements
<1>. QED BY <1>1, <1>2, <1>3 DEF Books, Distinct

(* A node without pending edges joins the deque.                           *)
LEMMA BooksReady ==
  ASSUME NEW r, NEW o, NEW l, NEW c, Books(r, o, l, c),
         NEW n \in Ids, n \notin Elements(r) \cup Elements(o), Pending(n, o, l) = {}
  PROVE  Books(Append(r, n), o, l, c)
<1>1. /\ Append(r, n) \in Seq(Ids) /\ Distinct(Append(r, n))
      /\ Elements(Append(r, n)) = Elements(r) \cup {n}
  BY AppendElements DEF Books
<1>. QED BY <1>1 DEF Books

(* The head of the deque moves to the order, its edges come to hand.       *)
LEMMA BooksPop ==
  ASSUME NEW r, NEW o, NEW c, Books(r, o, {}, c), r # <<>>
  PROVE  /\ Books(Tail(r), Append(o, Head(r)), Outgoing(Head(r)), c)
         /\ Complete(r, o, {}) => Complete(Tail(r), Append(o, Head(r)), Outgoing(Head(r)))
<1>. DEFINE h == Head(r)
            p == Append(o, h)
<1>1. /\ h \in Ids /\ h \in Elements(r) /\ Tail(r) \in Seq(Ids) /\ Distinct(Tail(r))
      /\ Elements(Tail(r)) = Elements(r) \ {h}
  BY TailElements DEF Books
<1>2. h \notin Elements(o) BY <1>1 DEF Books
<1>3. p \in Seq(Ids) /\ Elements(p) = Elements(o) \cup {h} /\ Distinct(p)
  BY <1>1, <1>2, AppendElements DEF Books
<1>4. \A n : Pending(n, p, Outgoing(h)) = Pending(n, o, {})
  BY <1>2, <1>3 DEF Pending, Outgoing, Incoming
<1>5. /\ Len(o) \in Nat /\ DOMAIN o = 1..Len(o) /\ DOMAIN p = 1..(Len(o) + 1)
      /\ \A i \in 1..Len(o) : p[i] = o[i]
      /\ p[Len(o) + 1] = h
  BY <1>1, AppendPlaces DEF Books
<1>6. Outgoing(h) \subseteq Edges /\ \A e \in Outgoing(h) : Source(e) \in Elements(p)
  BY <1>3 DEF Outgoing
<1>. HIDE DEF p, h
<1>7. ASSUME NEW j \in DOMAIN p, NEW e \in Incoming(p[j]) PROVE \E i \in 1..(j - 1) : p[i] = Source(e)
  <2>1. CASE j \in 1..Len(o)
    <3>1. PICK i \in 1..(j - 1) : o[i] = Source(e) BY <2>1, <1>5, <1>7 DEF Books
    <3>2. i \in 1..Len(o) BY <3>1, <2>1, <1>5
    <3>. QED BY <3>1, <3>2, <1>5
  <2>2. CASE j = Len(o) + 1
    <3>1. Pending(h, o, {}) = {} BY <1>1 DEF Books
    <3>2. Source(e) \in Elements(o) BY <3>1, <2>2, <1>5, <1>7 DEF Pending
    <3>3. PICK i \in 1..Len(o) : o[i] = Source(e) BY <3>2, <1>5 DEF Elements
    <3>4. i \in 1..(j - 1) BY <3>3, <2>2, <1>5
    <3>. QED BY <3>3, <3>4, <1>5
  <2>. QED BY <2>1, <2>2, <1>5
<1>8. Books(Tail(r), p, Outgoing(h), c) BY <1>1, <1>2, <1>3, <1>4, <1>6, <1>7 DEF Books
<1>9. Complete(r, o, {}) => Complete(Tail(r), p, Outgoing(h)) BY <1>1, <1>3, <1>4 DEF Complete
<1>. QED BY <1>8, <1>9 DEF p, h

(* An edge at hand is counted down.                                        *)
LEMMA BooksCount ==
  ASSUME graph \in Graphs, Valid, NEW r, NEW o, NEW l, NEW c,
         Books(r, o, l, c), Complete(r, o, l), NEW e \in l
  PROVE  /\ c[Target(e)] = 1 =>
              /\ Books(Append(r, Target(e)), o, l \ {e}, [c EXCEPT ![Target(e)] = @ - 1])
              /\ Complete(Append(r, Target(e)), o, l \ {e})
         /\ c[Target(e)] # 1 =>
              /\ Books(r, o, l \ {e}, [c EXCEPT ![Target(e)] = @ - 1])
              /\ Complete(r, o, l \ {e})
<1>. DEFINE t == Target(e)
            m == l \ {e}
            d == [c EXCEPT ![t] = @ - 1]
<1>1. e \in Edges /\ t \in Ids /\ Source(e) \in Elements(o) BY EdgesInside DEF Books
<1>2. e \in Pending(t, o, l) BY <1>1 DEF Pending, Incoming
<1>3. Pending(t, o, m) = Pending(t, o, l) \ {e} BY <1>1 DEF Pending
<1>4. \A n \in Ids : n # t => Pending(n, o, m) = Pending(n, o, l)
  BY <1>1 DEF Pending, Incoming
<1>5. c[t] = Cardinality(Pending(t, o, l)) /\ c \in [Ids -> Nat] BY <1>1 DEF Books
<1>6. Cardinality(Pending(t, o, m)) = c[t] - 1 /\ c[t] - 1 \in Nat
  <2>1. Cardinality(Pending(t, o, m)) = c[t] - 1
    BY <1>2, <1>3, <1>5, PendingFinite, FS_RemoveElement
  <2>2. Cardinality(Pending(t, o, m)) \in Nat BY PendingFinite
  <2>. QED BY <2>1, <2>2
<1>7. /\ d \in [Ids -> Nat] /\ d[t] = c[t] - 1 /\ \A n \in Ids : n # t => d[n] = c[n]
  BY <1>1, <1>5, <1>6
<1>8. t \notin Elements(r) \cup Elements(o) BY <1>2 DEF Books
<1>9. Elements(r) \subseteq Ids /\ Elements(o) \subseteq Ids BY DEF Books, Elements
<1>. HIDE DEF d, m
<1>10. Books(r, o, m, d)
  <2>1. \A n \in Ids : d[n] = Cardinality(Pending(n, o, m)) BY <1>4, <1>6, <1>7 DEF Books
  <2>2. \A n \in Elements(r) \cup Elements(o) : Pending(n, o, m) = {}
    BY <1>4, <1>8, <1>9 DEF Books
  <2>3. m \subseteq Edges /\ \A f \in m : Source(f) \in Elements(o) BY DEF Books, m
  <2>. QED BY <1>7, <2>1, <2>2, <2>3 DEF Books
<1>11. c[t] = 1 <=> Pending(t, o, m) = {} BY <1>5, <1>6, <1>1, PendingFinite
<1>12. \A n \in Ids : n # t /\ Pending(n, o, m) = {} => n \in Elements(r) \cup Elements(o)
  BY <1>4 DEF Complete
<1>13. CASE c[t] = 1
  <2>1. Books(Append(r, t), o, m, d) BY <1>1, <1>8, <1>10, <1>11, <1>13, BooksReady
  <2>2. Elements(Append(r, t)) = Elements(r) \cup {t} BY <1>1, AppendElements DEF Books
  <2>3. Complete(Append(r, t), o, m) BY <1>12, <2>2 DEF Complete
  <2>. QED BY <1>13, <2>1, <2>3 DEF d, m
<1>14. CASE c[t] # 1
  <2>1. Complete(r, o, m) BY <1>11, <1>12, <1>14 DEF Complete
  <2>. QED BY <1>14, <1>10, <2>1 DEF d, m
<1>. QED BY <1>13, <1>14

(* When nothing is ready, everything is ordered: what is left would be a   *)
(* set of nodes each reading another of them, and the nodes are grounded.  *)
LEMMA BooksClosed ==
  ASSUME graph \in Graphs, Valid, Grounded(Ids), NEW o, NEW c,
         Books(<<>>, o, {}, c), Complete(<<>>, o, {})
  PROVE  Elements(o) = Ids /\ Len(o) = Cardinality(Ids)
<1>. DEFINE S == Ids \ Elements(o)
<1>1. Elements(o) \subseteq Ids /\ Elements(<<>>) = {} BY DEF Books, Elements
<1>2. ASSUME S # {} PROVE FALSE
  <2>1. PICK n \in S : \A e \in Incoming(n) : Source(e) \notin S BY <1>2 DEF Grounded
  <2>2. \A e \in Incoming(n) : Source(e) \in Elements(o)
    BY <2>1, EdgesInside DEF Incoming
  <2>3. Pending(n, o, {}) = {} BY <2>2 DEF Pending
  <2>. QED BY <1>1, <2>1, <2>3 DEF Complete
<1>3. Elements(o) = Ids BY <1>1, <1>2
<1>4. o \in Seq(Ids) /\ Distinct(o) /\ IsFiniteSet(Ids) BY GraphFinite DEF Books
<1>. QED BY <1>3, <1>4, DistinctLength

(* The steps before the sort leave the books closed.                       *)
LEMMA SortUnbegun ==
  ASSUME SortInv, UNCHANGED <<ready, ordered, left>>, ~Searched, ~Searched'
  PROVE  SortInv'
<1>1. stage' # "seeding" /\ ~Sorted' /\ stage' # "unsortable" BY DEF Searched
<1>. QED BY <1>1 DEF SortInv, Searched, Sorted, SortNeverFails

(* The steps of the execution do not touch them.                           *)
LEMMA SortDone ==
  ASSUME SortInv, UNCHANGED <<graph, counts, ready, ordered, left>>, Sorted, Sorted'
  PROVE  SortInv'
<1>1. Searched /\ Searched' /\ stage # "seeding" /\ stage' # "seeding" /\ stage' # "unsortable"
  BY DEF Searched, Sorted
<1>2. /\ (Books(ready, ordered, left, counts))' /\ (Complete(ready, ordered, left))'
      /\ (Elements(ordered))' = Ids'
  BY <1>1, BooksKept, GraphKept DEF SortInv
<1>. QED BY <1>1, <1>2 DEF SortInv, SortNeverFails

(* The sort keeps its books.                                               *)
LEMMA SortSteps ==
  ASSUME SearchInv, SortInv,
         SortBegin \/ Seed \/ Seeded \/ Pop \/ CountDown \/ SortEnd
  PROVE  SortInv'
<1>. SUFFICES /\ Searched' /\ stage' # "unsortable"
              /\ Books(ready', ordered', left', counts')
              /\ stage' = "seeding" => ordered' = <<>> /\ left' = {}
              /\ stage' # "seeding" => Complete(ready', ordered', left')
              /\ Sorted' => Elements(ordered') = Ids
  <2>1. UNCHANGED graph BY DEF SortBegin, Seed, Seeded, Pop, CountDown, SortEnd
  <2>. QED BY <2>1, BooksKept, GraphKept DEF SortInv, SortNeverFails
<1>1. graph \in Graphs BY DEF SearchInv
<1>2. CASE SortBegin
  <2>1. ready = <<>> /\ ordered = <<>> /\ left = {}
    BY <1>2 DEF SortBegin, SortInv, Searched, Sorted
  <2>. QED BY <1>1, <1>2, <2>1, BooksOpen DEF SortBegin, Searched, Sorted
<1>3. CASE Seed
  <2>1. /\ stage = "seeding" /\ UNCHANGED <<stage, counts, ordered, left>>
        /\ Books(ready, <<>>, {}, counts) /\ ordered = <<>> /\ left = {}
    BY <1>3 DEF Seed, SortInv, Searched
  <2>2. PICK n \in Seeds : ready' = Append(ready, n) BY <1>3 DEF Seed
  <2>3. n \in Ids /\ n \notin Elements(ready) \cup Elements(<<>>) /\ counts[n] = 0
    BY <2>2 DEF Seeds, Elements
  <2>4. Pending(n, <<>>, {}) = {} BY <1>1, <2>1, <2>3, PendingFinite DEF Books
  <2>5. Books(ready', <<>>, {}, counts) BY <2>1, <2>2, <2>3, <2>4, BooksReady
  <2>. QED BY <2>1, <2>5 DEF Searched, Sorted
<1>4. CASE Seeded
  <2>1. /\ stage = "seeding" /\ stage' = "sorting" /\ UNCHANGED <<ready, counts, ordered, left>>
        /\ Books(ready, ordered, left, counts) /\ Seeds = {}
    BY <1>4 DEF Seeded, SortInv, Searched
  <2>2. Complete(ready, ordered, left)
    <3>. SUFFICES ASSUME NEW n \in Ids, Pending(n, ordered, left) = {} PROVE n \in Elements(ready)
      BY DEF Complete
    <3>1. counts[n] = 0 BY <1>1, <2>1, PendingFinite DEF Books
    <3>. QED BY <2>1, <3>1 DEF Seeds
  <2>. QED BY <2>1, <2>2 DEF Searched, Sorted
<1>5. CASE Pop
  <2>1. /\ stage = "sorting" /\ UNCHANGED <<stage, counts>> /\ ready # <<>> /\ left = {}
        /\ ready' = Tail(ready) /\ ordered' = Append(ordered, Head(ready))
        /\ left' = Outgoing(Head(ready))
        /\ Books(ready, ordered, {}, counts) /\ Complete(ready, ordered, {})
    BY <1>5 DEF Pop, SortInv, Searched
  <2>2. /\ Books(ready', ordered', left', counts) /\ Complete(ready', ordered', left')
    BY <2>1, BooksPop
  <2>. QED BY <2>1, <2>2 DEF Searched, Sorted
<1>6. CASE CountDown
  <2>1. /\ stage = "sorting" /\ UNCHANGED <<stage, ordered>>
        /\ Books(ready, ordered, left, counts) /\ Complete(ready, ordered, left) /\ Valid
    BY <1>6 DEF CountDown, SortInv, SearchInv, Searched
  <2>2. PICK e \in left :
          /\ left' = left \ {e}
          /\ counts' = [counts EXCEPT ![Target(e)] = @ - 1]
          /\ ready' = IF counts[Target(e)] = 1 THEN Append(ready, Target(e)) ELSE ready
    BY <1>6 DEF CountDown
  <2>3. Books(ready', ordered, left', counts') /\ Complete(ready', ordered, left')
    <3>1. CASE counts[Target(e)] = 1 BY <3>1, <1>1, <2>1, <2>2, BooksCount
    <3>2. CASE counts[Target(e)] # 1 BY <3>2, <1>1, <2>1, <2>2, BooksCount
    <3>. QED BY <3>1, <3>2
  <2>. QED BY <2>1, <2>3 DEF Searched, Sorted
<1>7. CASE SortEnd
  <2>1. /\ UNCHANGED <<ready, counts, ordered, left>> /\ ready = <<>> /\ left = {}
        /\ Books(ready, ordered, left, counts) /\ Complete(ready, ordered, left)
        /\ Valid /\ Grounded(Ids)
    BY <1>7 DEF SortEnd, SortInv, SearchInv, Searched
  <2>2. Elements(ordered) = Ids /\ Len(ordered) = Cardinality(Ids) BY <1>1, <2>1, BooksClosed
  <2>3. stage' = "running" BY <1>7, <2>2 DEF SortEnd
  <2>. QED BY <2>1, <2>2, <2>3 DEF Searched, Sorted
<1>. QED BY <1>2, <1>3, <1>4, <1>5, <1>6, <1>7

(* Every step keeps both invariants.                                       *)
LEMMA SortNext == SearchInv /\ SortInv /\ [Next]_vars => SortInv'
<1>. SUFFICES ASSUME SearchInv, SortInv, [Next]_vars PROVE SortInv' OBVIOUS
<1>1. CASE Check \/ VisitRoot \/ VisitTarget \/ VisitReturns
  <2>1. UNCHANGED <<ready, ordered, left>> /\ ~Searched
    BY <1>1 DEF Check, VisitRoot, VisitTarget, VisitReturns, Searched, Sorted
  <2>2. stage' \in {"visiting", "cyclic", "refused"}
    BY <1>1 DEF Check, VisitRoot, VisitTarget, VisitReturns
  <2>3. ~Searched' BY <2>2 DEF Searched, Sorted
  <2>. QED BY <2>1, <2>3, SortUnbegun
<1>2. CASE SortBegin \/ Seed \/ Seeded \/ Pop \/ CountDown \/ SortEnd BY <1>2, SortSteps
<1>3. CASE RunNode \/ RunEnd
  <2>1. UNCHANGED <<graph, counts, ready, ordered, left>> /\ Sorted /\ Sorted'
    BY <1>3 DEF RunNode, RunEnd, Sorted
  <2>. QED BY <2>1, SortDone
<1>4. CASE UNCHANGED vars
  <2>1. UNCHANGED <<graph, stage, counts, ready, ordered, left>> BY <1>4 DEF vars
  <2>2. (Searched' <=> Searched) /\ (Sorted' <=> Sorted) BY <2>1 DEF Searched, Sorted
  <2>. QED BY <2>1, <2>2, BooksKept, GraphKept DEF SortInv, SortNeverFails
<1>. QED BY <1>1, <1>2, <1>3, <1>4 DEF Next

(* Both invariants hold of every behavior.                                 *)
LEMMA BothHold == Spec => [](SearchInv /\ SortInv)
<1>1. Init => SearchInv /\ SortInv
  BY SearchInit DEF Init, SortInv, Searched, Sorted, SortNeverFails
<1>. QED BY <1>1, SearchNext, SortNext, PTL DEF Spec

(* A graph the recursive search refuses has a cycle, whatever the graph.   *)
THEOREM RefusalIsRight == Spec => []RefusedIsCyclic
<1>1. Spec => []SearchInv BY SearchInit, SearchNext, PTL DEF Spec
<1>2. SearchInv => RefusedIsCyclic BY DEF SearchInv
<1>. QED BY <1>1, <1>2, PTL

(* Whatever the graph, a graph the recursive search lets through is one    *)
(* the counting search can order: no run is created without its node runs, *)
(* and no execution fails before its first node.                           *)
THEOREM SearchesAgree == Spec => []SortNeverFails
<1>1. SortInv => SortNeverFails BY DEF SortInv
<1>. QED BY <1>1, BothHold, PTL

(* Whatever the graph, the order has every node once, behind all it reads. *)
(* It is what RunEngine assumes of its node numbers.                       *)
THEOREM OrderIsRight == Spec => []UpstreamFirst
<1>1. SearchInv /\ SortInv => UpstreamFirst
  <2>. SUFFICES ASSUME SearchInv, SortInv, Sorted PROVE UpstreamFirst
    BY DEF UpstreamFirst
  <2>1. Books(ready, ordered, left, counts) /\ Elements(ordered) = Ids
    BY DEF SortInv, Searched
  <2>2. Valid BY DEF SearchInv, Sorted
  <2>3. /\ Len(ordered) \in Nat /\ DOMAIN ordered = 1..Len(ordered)
        /\ \A i, j \in DOMAIN ordered : ordered[i] = ordered[j] => i = j
    BY <2>1 DEF Books, Distinct
  <2>4. \A n \in Ids : Place(n) \in DOMAIN ordered /\ ordered[Place(n)] = n
    BY <2>1 DEF Place, Elements
  <2>5. ASSUME NEW e \in Edges PROVE Place(Source(e)) < Place(Target(e))
    <3>1. Source(e) \in Ids /\ Target(e) \in Ids BY <2>2, EdgesInside
    <3>2. e \in Incoming(ordered[Place(Target(e))]) BY <2>4, <3>1 DEF Incoming
    <3>3. PICK i \in 1..(Place(Target(e)) - 1) : ordered[i] = Source(e)
      BY <2>1, <2>4, <3>1, <3>2 DEF Books
    <3>4. i \in DOMAIN ordered /\ i < Place(Target(e)) BY <2>3, <2>4, <3>1, <3>3
    <3>5. i = Place(Source(e)) BY <2>3, <2>4, <3>1, <3>3, <3>4
    <3>. QED BY <3>4, <3>5
  <2>. QED BY <2>1, <2>3, <2>5 DEF UpstreamFirst
<1>. QED BY <1>1, BothHold, PTL

-----------------------------------------------------------------------------
(* Types: what the executed nodes left is at ports the registry knows. *)

RunInv ==
  /\ counts \in [Ids -> Nat]
  /\ IsFiniteSet(Ran) /\ Ran \subseteq Ids
  /\ \A n \in Ran : outputs[n] \subseteq AllPorts

LEMMA PortsKnown ==
  ASSUME NEW type \in DOMAIN Registry, NEW config, ConfigFits(type, config)
  PROVE  OutputPorts(type, config) \subseteq AllPorts
<1>1. \A t \in DOMAIN Registry : DOMAIN Registry[t].outputs \subseteq AllPorts
  BY DEF AllPorts
<1>2. CASE type = "text_prompt"
  <2>1. Registry["text_prompt"] = TextPrompt BY DEF Registry
  <2>2. DOMAIN TextPrompt.outputs = {"text"} BY DEF TextPrompt
  <2>3. OutputPorts(type, config) = {"text"} BY <1>2 DEF OutputPorts
  <2>. QED BY <1>1, <1>2, <2>1, <2>2, <2>3
<1>3. CASE type = "upload_asset"
  <2>1. Registry["upload_asset"] = UploadAsset BY DEF Registry
  <2>2. /\ DOMAIN UploadAsset.outputs = {"image", "video", "audio", "mask"}
        /\ "asset_type" \in DOMAIN UploadAsset.config
        /\ UploadAsset.config["asset_type"] = Field(TRUE, AssetTypes)
    BY DEF UploadAsset
  <2>3. Field(TRUE, AssetTypes).required /\ Field(TRUE, AssetTypes).options = AssetTypes
    BY DEF Field
  <2>4. Value(config, "asset_type") \in AssetTypes /\ Value(config, "asset_type") # "blank"
    BY <1>3, <2>1, <2>2, <2>3 DEF ConfigFits, AssetTypes
  <2>5. config["asset_type"] \in AssetTypes BY <2>4 DEF Value
  <2>6. OutputPorts(type, config) \subseteq {"image", "video", "audio", "mask"}
    BY <1>3, <2>5 DEF OutputPorts, AssetTypes
  <2>. QED BY <1>1, <1>3, <2>1, <2>2, <2>6
<1>4. CASE type \notin {"text_prompt", "upload_asset"}
  <2>1. OutputPorts(type, config) = DOMAIN Registry[type].outputs
    BY <1>4 DEF OutputPorts
  <2>. QED BY <1>1, <2>1
<1>. QED BY <1>2, <1>3, <1>4

LEMMA RunNodeTyped ==
  ASSUME SearchInv, SortInv, RunInv, RunNode
  PROVE  RunInv'
<1>1. /\ UNCHANGED <<graph, counts>> /\ Sorted /\ stage = "running"
      /\ Cardinality(Ran) < Len(ordered)
  BY DEF RunNode, Sorted
<1>2. Ids' = Ids /\ AllPorts' = AllPorts BY <1>1, GraphKept DEF AllPorts
<1>3. CASE UNCHANGED outputs BY <1>1, <1>2, <1>3 DEF RunInv, Ran
<1>4. CASE /\ Runs(Due)
           /\ outputs' = [n \in Ran \cup {Due} |->
                IF n \in Ran THEN outputs[n] ELSE OutputPorts(Node(n).type, Node(n).config)]
  <2>1. Due \in Ids
    <3>1. ordered \in Seq(Ids) BY <1>1 DEF SortInv, Searched, Books
    <3>2. Cardinality(Ran) \in Nat BY FS_CardinalityType DEF RunInv
    <3>3. Cardinality(Ran) + 1 \in 1..Len(ordered) BY <1>1, <3>1, <3>2
    <3>. QED BY <3>1, <3>3 DEF Due
  <2>2. Valid BY <1>1 DEF SearchInv
  <2>3. Node(Due) \in Elements(graph.nodes)
    <3>1. \E node \in Elements(graph.nodes) : node.id = Due BY <2>1 DEF Ids, Elements
    <3>. QED BY <3>1 DEF Node
  <2>4. Node(Due).type \in DOMAIN Registry /\ ConfigFits(Node(Due).type, Node(Due).config)
    BY <2>2, <2>3 DEF Valid, NodesKnown, Elements
  <2>5. OutputPorts(Node(Due).type, Node(Due).config) \subseteq AllPorts BY <2>4, PortsKnown
  <2>6. IsFiniteSet(Ran \cup {Due}) BY FS_AddElement DEF RunInv
  <2>7. Ran' = Ran \cup {Due} BY <1>4 DEF Ran
  <2>8. \A n \in Ran' : outputs'[n] \subseteq AllPorts
    <3>. HIDE DEF OutputPorts, Node, Due, Ran
    <3>. QED BY <1>4, <2>5, <2>7 DEF RunInv
  <2>. QED BY <1>1, <1>2, <2>1, <2>6, <2>7, <2>8 DEF RunInv
<1>. QED BY <1>3, <1>4 DEF RunNode

(* The counts are typed in every stage, and so is what has been output.    *)
LEMMA RunNext == SearchInv /\ SortInv /\ SortInv' /\ RunInv /\ [Next]_vars => RunInv'
<1>. SUFFICES ASSUME SearchInv, SortInv, SortInv', RunInv, [Next]_vars PROVE RunInv'
  OBVIOUS
<1>1. CASE RunNode BY <1>1, RunNodeTyped
<1>2. ASSUME UNCHANGED <<graph, outputs>>, counts' \in [Ids' -> Nat] PROVE RunInv'
  <2>1. Ids' = Ids /\ AllPorts' = AllPorts /\ Ran' = Ran BY <1>2, GraphKept DEF AllPorts, Ran
  <2>. QED BY <1>2, <2>1 DEF RunInv
<1>3. CASE Check \/ VisitRoot \/ VisitTarget \/ VisitReturns \/ RunEnd \/ UNCHANGED vars
  <2>1. UNCHANGED <<graph, counts, outputs>>
    BY <1>3 DEF Check, VisitRoot, VisitTarget, VisitReturns, RunEnd, vars
  <2>2. Ids' = Ids BY <2>1, GraphKept
  <2>. QED BY <1>2, <2>1, <2>2 DEF RunInv
<1>4. CASE SortBegin \/ Seed \/ Seeded \/ Pop \/ CountDown \/ SortEnd
  <2>1. UNCHANGED <<graph, outputs>>
    BY <1>4 DEF SortBegin, Seed, Seeded, Pop, CountDown, SortEnd
  <2>2. Searched'
    <3>1. stage' \in {"seeding", "sorting", "unsortable", "running"}
      BY <1>4 DEF SortBegin, Seed, Seeded, Pop, CountDown, SortEnd
    <3>. QED BY <3>1 DEF Searched, Sorted
  <2>3. counts' \in [Ids' -> Nat] BY <2>2 DEF SortInv, Books
  <2>. QED BY <1>2, <2>1, <2>3
<1>. QED BY <1>1, <1>3, <1>4 DEF Next

(* Every reachable state has its types: in particular no count falls below *)
(* zero, and what a node leaves is at output ports of the registry.        *)
THEOREM TypeCorrect == Spec => []TypeOK
<1>1. Init => SearchInv /\ SortInv /\ RunInv
  <2>. SUFFICES ASSUME Init PROVE SearchInv /\ SortInv /\ RunInv OBVIOUS
  <2>1. SearchInv /\ SortInv
    BY SearchInit DEF Init, SortInv, Searched, Sorted, SortNeverFails
  <2>2. Ran = {} BY DEF Init, Ran
  <2>3. RunInv BY <2>2, FS_EmptySet DEF Init, RunInv
  <2>. QED BY <2>1, <2>3
<1>2. SearchInv /\ SortInv /\ RunInv /\ [Next]_vars => (SearchInv /\ SortInv /\ RunInv)'
  BY SearchNext, SortNext, RunNext
<1>3. SearchInv /\ SortInv /\ RunInv => TypeOK
  <2>. SUFFICES ASSUME SearchInv, SortInv, RunInv PROVE TypeOK OBVIOUS
  <2>1. path \in Seq([node : Ids, edge : Edges \cup {0}]) BY DEF SearchInv, Walk, Frames
  <2>2. ready \in Seq(Ids) /\ ordered \in Seq(Ids) /\ left \subseteq Edges
    <3>1. CASE Searched BY <3>1 DEF SortInv, Books
    <3>2. CASE ~Searched
      <4>1. ready = <<>> /\ ordered = <<>> /\ left = {} BY <3>2 DEF SortInv
      <4>. QED BY <4>1
    <3>. QED BY <3>1, <3>2
  <2>. QED BY <2>1, <2>2 DEF SearchInv, RunInv, TypeOK
<1>. QED BY <1>1, <1>2, <1>3, PTL DEF Spec

-----------------------------------------------------------------------------
(* What can break an execution. *)

(* The nodes that ran are the first of the order, and each left what its   *)
(* type and config say.                                                    *)
RanInOrder ==
  /\ ~Sorted => Ran = {}
  /\ stage = "running" => Ran = {ordered[i] : i \in 1..Cardinality(Ran)}
  /\ \A n \in Ran : outputs[n] = OutputPorts(Node(n).type, Node(n).config)

(* A port a node type declares gets a value, an upload's other three       *)
(* excepted.                                                               *)
LEMMA PortFilled ==
  ASSUME NEW type \in DOMAIN Registry, NEW config, type # "upload_asset",
         NEW port \in DOMAIN Registry[type].outputs
  PROVE  port \in OutputPorts(type, config)
<1>1. CASE type = "text_prompt"
  <2>1. Registry["text_prompt"] = TextPrompt BY DEF Registry
  <2>2. DOMAIN TextPrompt.outputs = {"text"} BY DEF TextPrompt
  <2>3. OutputPorts(type, config) = {"text"} BY <1>1 DEF OutputPorts
  <2>. QED BY <1>1, <2>1, <2>2, <2>3
<1>2. CASE type # "text_prompt"
  <2>1. OutputPorts(type, config) = DOMAIN Registry[type].outputs
    BY <1>2 DEF OutputPorts
  <2>. QED BY <2>1
<1>. QED BY <1>1, <1>2

(* Every type needs inputs it declares only. *)
LEMMA NeedsDeclared ==
  ASSUME NEW type \in DOMAIN Registry
  PROVE  Registry[type].needs \subseteq DOMAIN Registry[type].inputs
<1>. DEFINE Fits(r) == r.needs \subseteq DOMAIN r.inputs
<1>1. Fits(TextPrompt) /\ Fits(UploadAsset) /\ Fits(ExportOutput) /\ Fits(ToolOutput)
  BY DEF TextPrompt, UploadAsset, ExportOutput, ToolOutput
<1>2. Fits(TextToImage) BY DEF TextToImage, ProviderNode
<1>3. Fits(ImageToImage) BY DEF ImageToImage, ProviderNode
<1>4. Fits(ImageToVideo) BY DEF ImageToVideo, ProviderNode
<1>5. Fits(StartEndToVideo) BY DEF StartEndToVideo, ProviderNode
<1>6. Fits(TextToSpeech) BY DEF TextToSpeech, ProviderNode
<1>. HIDE DEF Fits
<1>7. Fits(Registry[type])
  BY <1>1, <1>2, <1>3, <1>4, <1>5, <1>6 DEF Registry
<1>. QED BY <1>7 DEF Fits

(* A node of a valid graph that is given all its edges name, and does not  *)
(* run all the same, has a blank input.                                    *)
LEMMA RefusesBlank ==
  ASSUME Valid, NEW n \in Ids, Resolves(n), ~Runs(n)
  PROVE  BlankInput(n)
<1>. DEFINE node == Node(n)
            fed == {graph.edges[e].target_port : e \in Incoming(n)}
            inputs == RuntimeInputs(node.type, node.config, fed)
<1>1. node \in Elements(graph.nodes)
  <2>1. \E x \in Elements(graph.nodes) : x.id = n BY DEF Ids, Elements
  <2>. QED BY <2>1 DEF Node
<1>2. node.type \in DOMAIN Registry /\ ConfigFits(node.type, node.config)
  BY <1>1 DEF Valid, NodesKnown, Elements
<1>. HIDE DEF node
<1>3. ~InputsFit(node.type, inputs) BY <1>2 DEF Runs, node
<1>4. DOMAIN inputs = fed \cup (DOMAIN Registry[node.type].inputs \cap DOMAIN node.config)
  BY DEF RuntimeInputs
<1>5. ~IsOutput(n)
  <2>1. SUFFICES ASSUME IsOutput(n) PROVE FALSE OBVIOUS
  <2>2. Incoming(n) # {} BY <2>1 DEF Valid, OutputsConnected
  <2>3. fed # {} BY <2>2
  <2>. QED BY <1>3, <1>4, <2>1, <2>3 DEF InputsFit, IsOutput, node
<1>6. PICK port \in Registry[node.type].needs : Value(inputs, port) = "blank"
  BY <1>3, <1>5 DEF InputsFit, IsOutput, node
<1>7. port \notin fed
  BY <1>4, <1>6 DEF Value, RuntimeInputs
<1>8. port \in DOMAIN node.config
  BY <1>6, <1>7 DEF Valid, RequiredInputs, Connected, node
<1>9. port \in DOMAIN inputs /\ inputs[port] = node.config[port]
  BY <1>2, <1>4, <1>6, <1>7, <1>8, NeedsDeclared DEF RuntimeInputs
<1>10. node.config[port] = "blank" BY <1>6, <1>9 DEF Value
<1>. QED BY <1>6, <1>7, <1>8, <1>10 DEF BlankInput, node

(* The place of a node, and that those it reads have places before it.     *)
LEMMA DueFollows ==
  ASSUME SearchInv, SortInv, RunInv, RanInOrder, stage = "running",
         Cardinality(Ran) < Len(ordered)
  PROVE  /\ Due \in Ids \ Ran
         /\ Cardinality(Ran \cup {Due}) = Cardinality(Ran) + 1
         /\ Ran \cup {Due} = {ordered[i] : i \in 1..(Cardinality(Ran) + 1)}
         /\ \A e \in Incoming(Due) : Source(e) \in Ran
<1>. DEFINE c == Cardinality(Ran)
<1>1. Books(ready, ordered, left, counts)
  BY DEF SortInv, Searched, Sorted
<1>2. ordered \in Seq(Ids) /\ Distinct(ordered) BY <1>1 DEF Books
<1>3. c \in Nat /\ IsFiniteSet(Ran) BY FS_CardinalityType DEF RunInv
<1>4. DOMAIN ordered = 1..Len(ordered) /\ Len(ordered) \in Nat BY <1>2
<1>5. c + 1 \in DOMAIN ordered /\ Due = ordered[c + 1] BY <1>3, <1>4 DEF Due
<1>6. Ran = {ordered[i] : i \in 1..c} BY DEF RanInOrder
<1>. HIDE DEF c
<1>7. Due \notin Ran
  <2>1. SUFFICES ASSUME NEW i \in 1..c, ordered[i] = Due PROVE FALSE BY <1>6
  <2>2. i \in DOMAIN ordered BY <1>3, <1>4, <1>5
  <2>. QED BY <1>2, <1>3, <1>5, <2>1, <2>2 DEF Distinct
<1>8. Cardinality(Ran \cup {Due}) = c + 1 BY <1>3, <1>7, FS_AddElement DEF c
<1>9. 1..(c + 1) = 1..c \cup {c + 1} BY <1>3
<1>10. \A e \in Incoming(Due) : Source(e) \in Ran
  <2>1. SUFFICES ASSUME NEW e \in Incoming(Due) PROVE Source(e) \in Ran OBVIOUS
  <2>2. PICK i \in 1..((c + 1) - 1) : ordered[i] = Source(e) BY <1>1, <1>5, <2>1 DEF Books
  <2>3. i \in 1..c BY <1>3, <2>2
  <2>. QED BY <1>6, <2>2, <2>3
<1>. QED BY <1>2, <1>5, <1>6, <1>7, <1>8, <1>9, <1>10 DEF c

(* The properties say the same after a step that keeps what they speak of. *)
LEMMA BreaksKept ==
  ASSUME UNCHANGED <<graph, ordered, outputs>>
  PROVE  /\ Ran' = Ran /\ Due' = Due
         /\ \A n : (Node(n))' = Node(n)
         /\ \A n : (Runs(n))' <=> Runs(n)
         /\ (BlankInput(Due))' <=> BlankInput(Due)
         /\ (\E e \in Incoming(Due) : WrongPort(e))' <=> \E e \in Incoming(Due) : WrongPort(e)
  BY DEF Ran, Due, Node, Elements, Runs, Resolves, Incoming, Edges, Source, Target,
     BlankInput, WrongPort

(* A node that does not run is one of the two that validation cannot see.  *)
LEMMA BreakIsKnown ==
  ASSUME SearchInv, SortInv, RunInv, RanInOrder, stage = "running",
         Cardinality(Ran) < Len(ordered), ~Runs(Due)
  PROVE  BlankInput(Due) \/ \E e \in Incoming(Due) : WrongPort(e)
<1>1. Due \in Ids /\ Valid /\ \A e \in Incoming(Due) : Source(e) \in Ran
  BY DueFollows DEF SearchInv
<1>2. CASE Resolves(Due) BY <1>1, <1>2, RefusesBlank
<1>3. CASE ~Resolves(Due)
  <2>1. PICK e \in Incoming(Due) : graph.edges[e].source_port \notin outputs[Source(e)]
    BY <1>1, <1>3 DEF Resolves
  <2>2. e \in Edges /\ Source(e) \in Ids /\ Source(e) \in Ran
    BY <1>1, <2>1, EdgesInside DEF Incoming
  <2>. DEFINE from == Node(Source(e))
  <2>3. from \in Elements(graph.nodes)
    <3>1. \E x \in Elements(graph.nodes) : x.id = Source(e) BY <2>2 DEF Ids, Elements
    <3>. QED BY <3>1 DEF Node
  <2>4. from.type \in DOMAIN Registry
    BY <1>1, <2>3 DEF Valid, NodesKnown, Elements
  <2>5. graph.edges[e].source_port \in DOMAIN Registry[from.type].outputs
    BY <1>1, <2>2 DEF Valid, PortsMatch
  <2>6. outputs[Source(e)] = OutputPorts(from.type, from.config)
    BY <2>2 DEF RanInOrder
  <2>. HIDE DEF from
  <2>7. from.type = "upload_asset" BY <2>1, <2>4, <2>5, <2>6, PortFilled
  <2>. QED BY <2>1, <2>6, <2>7 DEF WrongPort, from
<1>. QED BY <1>2, <1>3

(* Every step keeps it. *)
LEMMA BreaksNext ==
  ASSUME SearchInv, SortInv, RunInv, RanInOrder, OnlyKnownBreaks, [Next]_vars
  PROVE  RanInOrder' /\ OnlyKnownBreaks'
<1>1. ASSUME ~Sorted, UNCHANGED <<graph, outputs>>, stage' # "broken"
      PROVE  RanInOrder' /\ OnlyKnownBreaks'
  <2>1. Ran = {} /\ Ran' = {} BY <1>1 DEF RanInOrder, Ran
  <2>2. {ordered'[i] : i \in 1..Cardinality({})} = {} BY FS_EmptySet
  <2>. QED BY <1>1, <2>1, <2>2 DEF RanInOrder, OnlyKnownBreaks
<1>2. CASE \/ Check \/ VisitRoot \/ VisitTarget \/ VisitReturns \/ SortBegin
           \/ Seed \/ Seeded \/ Pop \/ CountDown \/ SortEnd
  BY <1>1, <1>2 DEF Check, VisitRoot, VisitTarget, VisitReturns, SortBegin, Seed, Seeded,
     Pop, CountDown, SortEnd, Sorted
<1>3. ASSUME UNCHANGED <<graph, ordered, outputs>>, Sorted <=> Sorted',
             stage' \in {"running", "broken"} => stage' = stage
      PROVE  RanInOrder' /\ OnlyKnownBreaks'
  BY <1>3, BreaksKept DEF RanInOrder, OnlyKnownBreaks, Sorted
<1>4. CASE RunEnd BY <1>3, <1>4 DEF RunEnd, Sorted
<1>5. CASE UNCHANGED vars BY <1>3, <1>5 DEF vars, Sorted
<1>6. CASE RunNode
  <2>1. /\ stage = "running" /\ Sorted /\ Cardinality(Ran) < Len(ordered)
        /\ UNCHANGED <<graph, ordered>>
    BY <1>6 DEF RunNode, Sorted
  <2>2. CASE Runs(Due)
    <3>1. /\ UNCHANGED stage
          /\ outputs' = [n \in Ran \cup {Due} |->
               IF n \in Ran THEN outputs[n] ELSE OutputPorts(Node(n).type, Node(n).config)]
      BY <1>6, <2>2 DEF RunNode
    <3>2. Ran' = Ran \cup {Due} BY <3>1 DEF Ran
    <3>3. /\ Cardinality(Ran') = Cardinality(Ran) + 1
          /\ Ran' = {ordered'[i] : i \in 1..Cardinality(Ran')}
      BY <2>1, <3>2, DueFollows
    <3>4. \A n : (Node(n))' = Node(n) BY <2>1 DEF Node, Elements
    <3>5. \A n \in Ran' : outputs'[n] = OutputPorts(Node(n).type, Node(n).config)
      <4>. HIDE DEF OutputPorts, Node, Due, Ran
      <4>. QED BY <3>1, <3>2 DEF RanInOrder
    <3>. QED BY <2>1, <3>1, <3>3, <3>4, <3>5 DEF RanInOrder, OnlyKnownBreaks, Sorted
  <2>3. CASE ~Runs(Due)
    <3>1. stage' = "broken" /\ UNCHANGED <<graph, ordered, outputs>>
      BY <1>6, <2>1, <2>3 DEF RunNode
    <3>2. BlankInput(Due) \/ \E e \in Incoming(Due) : WrongPort(e)
      BY <2>1, <2>3, BreakIsKnown
    <3>. QED BY <2>1, <3>1, <3>2, BreaksKept DEF RanInOrder, OnlyKnownBreaks, Sorted
  <2>. QED BY <2>2, <2>3
<1>. QED BY <1>2, <1>4, <1>5, <1>6 DEF Next

(* Init establishes it. *)
LEMMA BreaksInit ==
  Init => SearchInv /\ SortInv /\ RunInv /\ RanInOrder /\ OnlyKnownBreaks
<1>. SUFFICES ASSUME Init PROVE SearchInv /\ SortInv /\ RunInv /\ RanInOrder /\ OnlyKnownBreaks
  OBVIOUS
<1>1. SearchInv /\ SortInv
  BY SearchInit DEF Init, SortInv, Searched, Sorted, SortNeverFails
<1>2. Ran = {} BY DEF Init, Ran
<1>3. RunInv BY <1>2, FS_EmptySet DEF Init, RunInv
<1>. QED BY <1>1, <1>2, <1>3 DEF Init, RanInOrder, OnlyKnownBreaks

(* Whatever the graph, a run whose providers deliver breaks only at a port *)
(* an upload leaves empty or at a required input left blank; all else that *)
(* an execution asks of a node, validation has asked before.               *)
THEOREM BreaksAreKnown == Spec => []OnlyKnownBreaks
<1>. DEFINE Inv == SearchInv /\ SortInv /\ RunInv /\ RanInOrder /\ OnlyKnownBreaks
<1>1. Init => Inv BY BreaksInit
<1>2. Inv /\ [Next]_vars => Inv'
  BY SearchNext, SortNext, RunNext, BreaksNext
<1>3. Inv => OnlyKnownBreaks OBVIOUS
<1>. QED BY <1>1, <1>2, <1>3, PTL DEF Spec

-----------------------------------------------------------------------------
(* The order is canonical. *)

(* The place in o of the last node that n reads, 0 if it reads none.       *)
Reads(o, n, p) ==
  /\ p \in 0..Len(o)
  /\ p = 0 => Incoming(n) = {}
  /\ p > 0 => \E e \in Incoming(n) : Source(e) = o[p]
  /\ \A e \in Incoming(n) : \E i \in 1..p : o[i] = Source(e)

Before(o, n, m) ==
  \E p, q \in 0..Len(o) : Reads(o, n, p) /\ Reads(o, m, q) /\ (p < q \/ (p = q /\ n < m))

(* The order and the deque behind it rise; the edges at hand are the last  *)
(* ordered node's, and lead to nodes that belong behind all of these.      *)
Rising(r, o, l) ==
  /\ \A n \in Elements(o) \cup Elements(r) : \E p \in 0..Len(o) : Reads(o, n, p)
  /\ \A i, j \in DOMAIN o : i < j => Before(o, o[i], o[j])
  /\ \A n \in Elements(o), m \in Elements(r) : Before(o, n, m)
  /\ \A i, j \in DOMAIN r : i < j => Before(o, r[i], r[j])
  /\ \A e \in l : Len(o) > 0 /\ Source(e) = o[Len(o)]
  /\ \A e \in l, n \in Elements(r) : Reads(o, n, Len(o)) => n < Target(e)

RisingInv ==
  /\ Searched => Rising(ready, ordered, left)
  /\ stage = "seeding" => \A n \in Elements(ready), m \in Seeds : n < m

LEMMA RisingKept ==
  ASSUME UNCHANGED graph
  PROVE  /\ (Rising(ready, ordered, left))' <=> Rising(ready', ordered', left')
         /\ Ids' = Ids /\ \A q : (Elements(q))' = Elements(q')
  BY DEF Rising, Before, Reads, Elements, Incoming, Ids, Edges, Source, Target

(* A node that belongs behind the deque and has nothing before it in hand  *)
(* joins it.                                                               *)
LEMMA RisingAppend ==
  ASSUME NEW r \in Seq(Ids), NEW o \in Seq(Ids), NEW l, Rising(r, o, l), NEW n \in Ids,
         NEW p \in 0..Len(o), Reads(o, n, p),
         \A m \in Elements(o) \cup Elements(r) : Before(o, m, n),
         \A e \in l : Reads(o, n, Len(o)) => n < Target(e)
  PROVE  Rising(Append(r, n), o, l)
<1>. DEFINE s == Append(r, n)
<1>1. Elements(s) = Elements(r) \cup {n} BY AppendElements
<1>2. /\ DOMAIN s = 1..(Len(r) + 1) /\ DOMAIN r = 1..Len(r) /\ Len(r) \in Nat
      /\ \A i \in 1..Len(r) : s[i] = r[i] /\ r[i] \in Elements(r)
      /\ s[Len(r) + 1] = n
  BY AppendPlaces DEF Elements
<1>. HIDE DEF s
<1>3. ASSUME NEW i \in DOMAIN s, NEW j \in DOMAIN s, i < j PROVE Before(o, s[i], s[j])
  <2>1. i \in 1..Len(r) BY <1>2, <1>3
  <2>2. CASE j \in 1..Len(r) BY <1>2, <1>3, <2>1, <2>2 DEF Rising
  <2>3. CASE j = Len(r) + 1 BY <1>2, <2>1, <2>3
  <2>. QED BY <1>2, <2>2, <2>3
<1>. HIDE DEF Before, Reads
<1>4. Rising(s, o, l) BY <1>1, <1>3 DEF Rising
<1>. QED BY <1>4 DEF s

(* Places of a shorter order are places of a longer one.                   *)
LEMMA BeforeGrows ==
  ASSUME NEW o \in Seq(Ids), NEW h \in Ids, NEW n, NEW m
  PROVE  /\ \A p \in 0..Len(o) : Reads(o, n, p) => Reads(Append(o, h), n, p)
         /\ Before(o, n, m) => Before(Append(o, h), n, m)
<1>. DEFINE s == Append(o, h)
<1>1. /\ Len(s) = Len(o) + 1 /\ Len(o) \in Nat /\ \A i \in 1..Len(o) : s[i] = o[i]
  BY AppendPlaces
<1>. HIDE DEF s
<1>2. ASSUME NEW x, NEW p \in 0..Len(o), Reads(o, x, p) PROVE Reads(s, x, p)
  <2>1. p \in 0..Len(s) BY <1>1
  <2>2. p > 0 => s[p] = o[p] BY <1>1
  <2>3. \A i \in 1..p : s[i] = o[i] BY <1>1
  <2>. QED BY <1>2, <2>1, <2>2, <2>3 DEF Reads
<1>3. 0..Len(o) \subseteq 0..Len(s) BY <1>1
<1>4. Before(o, n, m) => Before(s, n, m) BY <1>2, <1>3 DEF Before
<1>. QED BY <1>2, <1>4 DEF s

(* The head of the deque moves to the order.                               *)
LEMMA RisingPop ==
  ASSUME NEW r, NEW o, NEW c, Books(r, o, {}, c), Rising(r, o, {}), r # <<>>
  PROVE  Rising(Tail(r), Append(o, Head(r)), Outgoing(Head(r)))
<1>. DEFINE h == Head(r)
            s == Append(o, h)
            t == Tail(r)
<1>1. /\ r \in Seq(Ids) /\ Distinct(r) /\ o \in Seq(Ids) BY DEF Books
<1>2. /\ h \in Ids /\ h \in Elements(r) /\ Elements(t) = Elements(r) \ {h}
  BY <1>1, TailElements
<1>3. /\ Len(r) \in Nat \ {0} /\ DOMAIN r = 1..Len(r) /\ h = r[1]
      /\ DOMAIN t = 1..(Len(r) - 1) /\ \A i \in DOMAIN t : t[i] = r[i + 1]
  BY <1>1
<1>4. Elements(s) = Elements(o) \cup {h} BY <1>1, <1>2, AppendElements
<1>5. /\ Len(s) = Len(o) + 1 /\ Len(o) \in Nat /\ DOMAIN s = 1..(Len(o) + 1)
      /\ DOMAIN o = 1..Len(o) /\ s[Len(o) + 1] = h
      /\ \A i \in 1..Len(o) : s[i] = o[i] /\ o[i] \in Elements(o)
  BY <1>1, <1>2, AppendPlaces DEF Elements
<1>. HIDE DEF h, s, t
<1>6. ASSUME NEW n, NEW m, Before(o, n, m) PROVE Before(s, n, m)
  BY <1>1, <1>2, <1>6, BeforeGrows DEF s
<1>7. ASSUME NEW n \in Elements(s) \cup Elements(t)
      PROVE  \E p \in 0..Len(s) : Reads(s, n, p)
  <2>1. PICK p \in 0..Len(o) : Reads(o, n, p) BY <1>2, <1>4, <1>7 DEF Rising
  <2>2. Reads(s, n, p) /\ p \in 0..Len(s) BY <1>1, <1>2, <1>5, <2>1, BeforeGrows DEF s
  <2>. QED BY <2>2
<1>8. ASSUME NEW i \in DOMAIN s, NEW j \in DOMAIN s, i < j PROVE Before(s, s[i], s[j])
  <2>1. i \in 1..Len(o) BY <1>5, <1>8
  <2>2. CASE j \in 1..Len(o) BY <1>5, <1>6, <1>8, <2>1, <2>2 DEF Rising
  <2>3. CASE j = Len(o) + 1 BY <1>2, <1>5, <1>6, <2>1, <2>3 DEF Rising
  <2>. QED BY <1>5, <2>2, <2>3
<1>9. ASSUME NEW i \in DOMAIN t PROVE Before(s, h, t[i])
  <2>1. 1 \in DOMAIN r /\ i + 1 \in DOMAIN r /\ 1 < i + 1 BY <1>3
  <2>. QED BY <1>3, <1>6, <2>1 DEF Rising
<1>10. ASSUME NEW n \in Elements(s), NEW m \in Elements(t) PROVE Before(s, n, m)
  <2>1. CASE n = h BY <1>9, <2>1 DEF Elements
  <2>2. CASE n \in Elements(o) BY <1>2, <1>6, <2>2 DEF Rising
  <2>. QED BY <1>4, <2>1, <2>2
<1>11. ASSUME NEW i \in DOMAIN t, NEW j \in DOMAIN t, i < j PROVE Before(s, t[i], t[j])
  <2>1. i + 1 \in DOMAIN r /\ j + 1 \in DOMAIN r /\ i + 1 < j + 1 BY <1>3, <1>11
  <2>. QED BY <1>3, <1>6, <2>1 DEF Rising
<1>12. ASSUME NEW n \in Elements(t) PROVE ~Reads(s, n, Len(s))
  <2>1. SUFFICES ASSUME Reads(s, n, Len(s)) PROVE FALSE OBVIOUS
  <2>2. PICK e \in Incoming(n) : Source(e) = h BY <1>5, <2>1 DEF Reads
  <2>3. Pending(n, o, {}) = {} BY <1>2 DEF Books
  <2>4. h \in Elements(o) BY <2>2, <2>3 DEF Pending
  <2>. QED BY <1>2, <2>4 DEF Books
<1>13. \A e \in Outgoing(h) : Len(s) > 0 /\ Source(e) = s[Len(s)]
  BY <1>5 DEF Outgoing
<1>14. Rising(t, s, Outgoing(h))
  BY <1>7, <1>8, <1>10, <1>11, <1>12, <1>13 DEF Rising
<1>. QED BY <1>14 DEF h, s, t

(* The target of the smallest edge at hand joins the deque, or not yet.    *)
LEMMA RisingCount ==
  ASSUME graph \in Graphs, Valid, NEW r, NEW o, NEW l, NEW c, Books(r, o, l, c), Rising(r, o, l),
         NEW e \in l, \A f \in l : Target(e) <= Target(f)
  PROVE  /\ Rising(r, o, l \ {e})
         /\ Pending(Target(e), o, l \ {e}) = {} => Rising(Append(r, Target(e)), o, l \ {e})
<1>. DEFINE t == Target(e)
            m == l \ {e}
            p == Len(o)
<1>1. Rising(r, o, m)
  <2>. HIDE DEF Before, Reads
  <2>. QED BY DEF Rising
<1>2. SUFFICES ASSUME Pending(t, o, m) = {} PROVE Rising(Append(r, t), o, m) BY <1>1
<1>3. /\ r \in Seq(Ids) /\ o \in Seq(Ids) /\ Distinct(o) /\ l \subseteq Edges /\ t \in Ids
      /\ p \in Nat /\ DOMAIN o = 1..p
  BY EdgesInside DEF Books
<1>4. Ids \subseteq Nat BY GraphFinite
<1>5. p > 0 /\ Source(e) = o[p] /\ e \in Incoming(t) BY <1>3 DEF Rising, Incoming
<1>6. Reads(o, t, p)
  <2>1. \A f \in Incoming(t) : Source(f) \in Elements(o) BY <1>2 DEF Pending
  <2>. QED BY <1>3, <1>5, <2>1 DEF Reads, Elements
<1>7. ASSUME NEW x \in Elements(o) \cup Elements(r) PROVE Before(o, x, t)
  <2>1. PICK q \in 0..p : Reads(o, x, q) BY DEF Rising
  <2>2. p \in 0..p BY <1>3
  <2>3. CASE q < p BY <1>6, <2>1, <2>2, <2>3 DEF Before
  <2>4. CASE q = p /\ x \in Elements(r)
    <3>1. x < t BY <2>1, <2>4 DEF Rising
    <3>. QED BY <1>6, <2>1, <2>2, <2>4, <3>1 DEF Before
  <2>5. CASE q = p /\ x \in Elements(o)
    <3>1. PICK j \in 1..p : x = o[j] BY <1>3, <2>5 DEF Elements
    <3>2. PICK f \in Incoming(x) : Source(f) = o[p] BY <1>5, <2>1, <2>5 DEF Reads
    <3>3. PICK i \in 1..(j - 1) : o[i] = o[p] BY <1>3, <3>1, <3>2 DEF Books
    <3>4. p \in Nat /\ p > 0 BY <1>3, <1>5
    <3>5. i \in 1..p /\ p \in 1..p /\ i # p
      <4>. HIDE DEF p
      <4>. QED BY <3>1, <3>3, <3>4
    <3>. QED BY <1>3, <3>3, <3>5 DEF Distinct
  <2>6. q < p \/ q = p
    <3>1. p \in Nat BY <1>3
    <3>. HIDE DEF p
    <3>. QED BY <2>1, <3>1
  <2>. QED BY <1>7, <2>3, <2>4, <2>5, <2>6
<1>8. ASSUME NEW f \in m PROVE t < Target(f)
  <2>1. t <= Target(f) /\ Target(f) \in Nat /\ t \in Nat BY <1>3, <1>4, EdgesInside
  <2>2. t # Target(f) BY <1>2, <1>3 DEF Pending, Incoming
  <2>. QED BY <2>1, <2>2
<1>. HIDE DEF t, m
<1>9. p \in 0..p BY <1>3
<1>. QED BY <1>1, <1>3, <1>6, <1>7, <1>8, <1>9, RisingAppend

(* Every step keeps it. *)
LEMMA RisingNext ==
  ASSUME SearchInv, SortInv, RisingInv, [Next]_vars
  PROVE  RisingInv'
<1>1. graph \in Graphs BY DEF SearchInv
<1>2. ASSUME UNCHANGED graph, stage' # "seeding", Searched' => Rising(ready', ordered', left')
      PROVE  RisingInv'
  BY <1>2, RisingKept DEF RisingInv
<1>3. CASE Check \/ VisitRoot \/ VisitTarget \/ VisitReturns
  <2>1. UNCHANGED graph /\ stage' \in {"visiting", "cyclic", "refused"}
    BY <1>3 DEF Check, VisitRoot, VisitTarget, VisitReturns
  <2>. QED BY <1>2, <2>1 DEF Searched, Sorted
<1>4. CASE SortBegin
  <2>1. ready' = <<>> /\ ordered' = <<>> /\ left' = {} /\ UNCHANGED graph
    BY <1>4 DEF SortBegin, SortInv, Searched, Sorted
  <2>2. Elements(<<>>) = {} BY DEF Elements
  <2>3. Rising(<<>>, <<>>, {}) BY <2>2 DEF Rising
  <2>. QED BY <2>1, <2>2, <2>3, RisingKept DEF RisingInv
<1>5. CASE Seed
  <2>1. /\ stage = "seeding" /\ UNCHANGED <<graph, stage, counts, ordered, left>>
        /\ Books(ready, <<>>, {}, counts) /\ ordered = <<>> /\ left = {}
        /\ Rising(ready, <<>>, {}) /\ ready \in Seq(Ids)
    BY <1>5 DEF Seed, SortInv, Searched, RisingInv, Books
  <2>2. PICK n \in Seeds : (\A m \in Seeds : n <= m) /\ ready' = Append(ready, n)
    BY <1>5 DEF Seed
  <2>3. n \in Ids /\ counts[n] = 0 BY <2>2 DEF Seeds
  <2>4. Incoming(n) = {}
    <3>1. Pending(n, <<>>, {}) = {} BY <1>1, <2>1, <2>3, PendingFinite DEF Books
    <3>. QED BY <3>1 DEF Pending, Elements
  <2>5. Elements(<<>>) = {} /\ 0 \in 0..Len(<<>>) /\ 0..Len(<<>>) = {0} /\ <<>> \in Seq(Ids)
    BY DEF Elements
  <2>6. Reads(<<>>, n, 0) BY <2>4, <2>5 DEF Reads
  <2>7. ASSUME NEW m \in Elements(ready) PROVE Before(<<>>, m, n)
    <3>1. Reads(<<>>, m, 0) BY <2>1, <2>5, <2>7 DEF Rising
    <3>2. m < n BY <2>1, <2>2, <2>7 DEF RisingInv
    <3>. QED BY <2>5, <2>6, <3>1, <3>2 DEF Before
  <2>8. Rising(ready', <<>>, {}) BY <2>1, <2>2, <2>3, <2>5, <2>6, <2>7, RisingAppend
  <2>9. Elements(ready') = Elements(ready) \cup {n} BY <2>1, <2>2, <2>3, AppendElements
  <2>10. Seeds' = Seeds \ {n}
    <3>1. Ids' = Ids /\ (Elements(ready))' = Elements(ready') BY <2>1, RisingKept
    <3>. QED BY <2>1, <2>9, <3>1 DEF Seeds
  <2>11. ASSUME NEW k \in Elements(ready'), NEW m \in Seeds' PROVE k < m
    <3>1. CASE k = n
      <4>1. m \in Ids /\ n <= m /\ n # m BY <2>2, <2>10, <2>11 DEF Seeds
      <4>2. m \in Nat /\ n \in Nat BY <1>1, <2>3, <4>1, GraphFinite
      <4>. QED BY <3>1, <4>1, <4>2
    <3>2. CASE k \in Elements(ready) BY <2>1, <2>10, <2>11, <3>2 DEF RisingInv
    <3>. QED BY <2>9, <2>11, <3>1, <3>2
  <2>. QED BY <2>1, <2>8, <2>11, RisingKept DEF RisingInv
<1>6. CASE Seeded \/ SortEnd \/ RunNode \/ RunEnd
  <2>1. /\ UNCHANGED <<graph, ready, ordered, left>> /\ Searched /\ stage' # "seeding"
    BY <1>6 DEF Seeded, SortEnd, RunNode, RunEnd, Searched, Sorted
  <2>. QED BY <1>2, <2>1 DEF RisingInv
<1>7. CASE Pop
  <2>1. /\ stage = "sorting" /\ UNCHANGED <<graph, stage, counts>> /\ ready # <<>>
        /\ ready' = Tail(ready) /\ ordered' = Append(ordered, Head(ready))
        /\ left' = Outgoing(Head(ready))
        /\ Books(ready, ordered, {}, counts) /\ Rising(ready, ordered, {})
    BY <1>7 DEF Pop, SortInv, RisingInv, Searched
  <2>2. Rising(ready', ordered', left') BY <2>1, RisingPop
  <2>. QED BY <1>2, <2>1, <2>2
<1>8. CASE CountDown
  <2>1. /\ stage = "sorting" /\ UNCHANGED <<graph, stage, ordered>> /\ Valid
        /\ Books(ready, ordered, left, counts) /\ Rising(ready, ordered, left)
        /\ Complete(ready, ordered, left)
    BY <1>8 DEF CountDown, SearchInv, SortInv, RisingInv, Searched
  <2>2. PICK e \in left :
          /\ SmallestFirst(e)
          /\ left' = left \ {e}
          /\ ready' = IF counts[Target(e)] = 1 THEN Append(ready, Target(e)) ELSE ready
    BY <1>8 DEF CountDown
  <2>3. counts[Target(e)] = 1 => Pending(Target(e), ordered, left \ {e}) = {}
    <3>1. SUFFICES ASSUME counts[Target(e)] = 1 PROVE Pending(Target(e), ordered, left \ {e}) = {}
      OBVIOUS
    <3>2. Books(Append(ready, Target(e)), ordered, left \ {e}, [counts EXCEPT ![Target(e)] = @ - 1])
      BY <1>1, <2>1, <3>1, BooksCount
    <3>3. Target(e) \in Elements(Append(ready, Target(e)))
      <4>1. e \in Edges /\ ready \in Seq(Ids) BY <2>1 DEF Books
      <4>2. Target(e) \in Ids BY <2>1, <4>1, EdgesInside
      <4>. QED BY <4>1, <4>2, AppendElements
    <3>. QED BY <3>2, <3>3 DEF Books
  <2>4. \A f \in left : Target(e) <= Target(f) BY <2>2 DEF SmallestFirst
  <2>5. Rising(ready', ordered, left') BY <1>1, <2>1, <2>2, <2>3, <2>4, RisingCount
  <2>. QED BY <1>2, <2>1, <2>5
<1>9. CASE UNCHANGED vars
  <2>1. UNCHANGED <<graph, stage, counts, ready, ordered, left>> BY <1>9 DEF vars
  <2>2. (Searched' <=> Searched) /\ Seeds' = Seeds
    BY <2>1, GraphKept, RisingKept DEF Searched, Sorted, Seeds
  <2>. QED BY <2>1, <2>2, RisingKept DEF RisingInv
<1>. QED BY <1>3, <1>4, <1>5, <1>6, <1>7, <1>8, <1>9 DEF Next

(* In a complete order the place of what a node reads last is the one.     *)
LEMMA ReadsLast ==
  ASSUME SearchInv, SortInv, Sorted, NEW n, NEW p, Reads(ordered, n, p)
  PROVE  LastUpstream(n) = p
<1>1. Books(ready, ordered, left, counts) /\ Elements(ordered) = Ids
  BY DEF SortInv, Searched
<1>2. ordered \in Seq(Ids) /\ Distinct(ordered) BY <1>1 DEF Books
<1>3. Len(ordered) \in Nat /\ DOMAIN ordered = 1..Len(ordered) BY <1>2
<1>4. \A i \in DOMAIN ordered : Place(ordered[i]) = i
  BY <1>2 DEF Place, Distinct
<1>5. p \in 0..Len(ordered) BY DEF Reads
<1>6. \A i \in 1..p : i \in DOMAIN ordered BY <1>3, <1>5
<1>7. \A e \in Incoming(n) : Place(Source(e)) \in 1..p
  BY <1>4, <1>6 DEF Reads
<1>8. p > 0 => \E e \in Incoming(n) : Place(Source(e)) = p
  <2>1. SUFFICES ASSUME p > 0 PROVE \E e \in Incoming(n) : Place(Source(e)) = p OBVIOUS
  <2>2. p \in 1..p BY <1>5, <2>1
  <2>. QED BY <1>4, <1>6, <2>1, <2>2 DEF Reads
<1>9. p = 0 => Incoming(n) = {} BY DEF Reads
<1>. DEFINE Is(q) == /\ q = 0 => Incoming(n) = {}
                     /\ q > 0 => \E e \in Incoming(n) : Place(Source(e)) = q
                     /\ \A e \in Incoming(n) : Place(Source(e)) <= q
<1>10. Is(p) BY <1>5, <1>7, <1>8, <1>9
<1>11. ASSUME NEW q \in 0..Len(ordered), Is(q) PROVE q = p
  <2>1. CASE p = 0 /\ q # 0 BY <1>9, <1>11, <2>1
  <2>2. CASE p # 0 /\ q = 0 BY <1>5, <1>8, <1>11, <2>2
  <2>3. CASE p # 0 /\ q # 0
    <3>1. p <= q BY <1>5, <1>8, <1>11, <2>3
    <3>2. q <= p BY <1>5, <1>7, <1>11, <2>3
    <3>. QED BY <1>5, <3>1, <3>2
  <2>. QED BY <2>1, <2>2, <2>3
<1>12. LastUpstream(n) = CHOOSE q \in 0..Len(ordered) : Is(q) BY DEF LastUpstream
<1>. HIDE DEF Is
<1>. QED BY <1>5, <1>10, <1>11, <1>12

(* Whatever the graph, the order depends on the ids and the edges alone:   *)
(* every execution of a graph, after every answer of a provider, goes      *)
(* through its nodes in the order their node runs were made in.            *)
THEOREM OrderIsCanonical == Spec => []CanonicalOrder
<1>. DEFINE Inv == SearchInv /\ SortInv /\ RisingInv
<1>1. Init => Inv
  BY SearchInit DEF Init, SortInv, RisingInv, Searched, Sorted, SortNeverFails
<1>2. Inv /\ [Next]_vars => Inv' BY SearchNext, SortNext, RisingNext
<1>3. Inv => CanonicalOrder
  <2>. SUFFICES ASSUME Inv, Sorted, NEW i \in 1..(Len(ordered) - 1)
                PROVE  \/ LastUpstream(ordered[i]) < LastUpstream(ordered[i + 1])
                       \/ /\ LastUpstream(ordered[i]) = LastUpstream(ordered[i + 1])
                          /\ ordered[i] < ordered[i + 1]
    BY DEF CanonicalOrder
  <2>1. ordered \in Seq(Ids) /\ Rising(ready, ordered, left)
    BY DEF SortInv, RisingInv, Searched, Books
  <2>2. i \in DOMAIN ordered /\ i + 1 \in DOMAIN ordered /\ i < i + 1 BY <2>1
  <2>3. Before(ordered, ordered[i], ordered[i + 1]) BY <2>1, <2>2 DEF Rising
  <2>4. PICK p, q \in 0..Len(ordered) :
          /\ Reads(ordered, ordered[i], p) /\ Reads(ordered, ordered[i + 1], q)
          /\ p < q \/ (p = q /\ ordered[i] < ordered[i + 1])
    BY <2>3 DEF Before
  <2>5. LastUpstream(ordered[i]) = p /\ LastUpstream(ordered[i + 1]) = q
    BY <2>4, ReadsLast
  <2>. QED BY <2>4, <2>5
<1>. QED BY <1>1, <1>2, <1>3, PTL DEF Spec

-----------------------------------------------------------------------------
(* What is left to do: stages to go through, visits to begin and to return *)
(* from, edges to follow, nodes to queue and to order, edges to count down *)
(* and nodes to run.  It is a finite set that every step takes from, so    *)
(* that no search and no execution can go on for ever.                     *)

StagesAhead ==
  CASE stage = "drawn"    -> 5
    [] stage = "visiting" -> 4
    [] stage = "seeding"  -> 3
    [] stage = "sorting"  -> 2
    [] stage = "running"  -> 1
    [] OTHER              -> 0

Unentered == Ids \ (visited \cup Visiting)
Unreturned == Ids \ visited
Unfollowed ==
  {e \in Edges : /\ Source(e) \notin visited
                 /\ \A i \in DOMAIN path : path[i].node = Source(e) => path[i].edge < e}
Unqueued == Ids \ (Elements(ready) \cup Elements(ordered))
Unordered == Ids \ Elements(ordered)
Uncounted == {e \in Edges : Source(e) \notin Elements(ordered) \/ e \in left}
Unrun == Ids \ Ran

Tagged(s, v, r, f, q, o, c, n) ==
  ({"stage"} \X (1..s))
    \cup ({"visit"} \X v) \cup ({"return"} \X r) \cup ({"follow"} \X f)
    \cup ({"queue"} \X q) \cup ({"order"} \X o) \cup ({"count"} \X c)
    \cup ({"run"} \X n)

Work ==
  Tagged(StagesAhead, Unentered, Unreturned, Unfollowed, Unqueued, Unordered, Uncounted, Unrun)

(* Less of one thing and no more of another is less. *)
LEMMA TaggedLess ==
  ASSUME NEW s \in Nat, NEW v, NEW r, NEW f, NEW q, NEW o, NEW c, NEW n,
         NEW t \in Nat, t <= s,
         NEW w \in SUBSET v, NEW u \in SUBSET r, NEW g \in SUBSET f,
         NEW p \in SUBSET q, NEW m \in SUBSET o, NEW d \in SUBSET c, NEW l \in SUBSET n,
         t # s \/ w # v \/ u # r \/ g # f \/ p # q \/ m # o \/ d # c \/ l # n
  PROVE  /\ Tagged(t, w, u, g, p, m, d, l) \subseteq Tagged(s, v, r, f, q, o, c, n)
         /\ Tagged(t, w, u, g, p, m, d, l) # Tagged(s, v, r, f, q, o, c, n)
<1>. DEFINE A == Tagged(s, v, r, f, q, o, c, n)
            B == Tagged(t, w, u, g, p, m, d, l)
<1>1. 1..t \subseteq 1..s OBVIOUS
<1>2. B \subseteq A BY <1>1 DEF Tagged
<1>3. \A x : /\ <<"stage", x>> \in A <=> x \in 1..s
             /\ <<"visit", x>> \in A <=> x \in v
             /\ <<"return", x>> \in A <=> x \in r
             /\ <<"follow", x>> \in A <=> x \in f
             /\ <<"queue", x>> \in A <=> x \in q
             /\ <<"order", x>> \in A <=> x \in o
             /\ <<"count", x>> \in A <=> x \in c
             /\ <<"run", x>> \in A <=> x \in n
  BY DEF Tagged
<1>4. \A x : /\ <<"stage", x>> \in B <=> x \in 1..t
             /\ <<"visit", x>> \in B <=> x \in w
             /\ <<"return", x>> \in B <=> x \in u
             /\ <<"follow", x>> \in B <=> x \in g
             /\ <<"queue", x>> \in B <=> x \in p
             /\ <<"order", x>> \in B <=> x \in m
             /\ <<"count", x>> \in B <=> x \in d
             /\ <<"run", x>> \in B <=> x \in l
  BY DEF Tagged
<1>5. ASSUME A = B PROVE FALSE
  <2>1. s \in 1..s => s \in 1..t
    <3>. HIDE DEF A, B
    <3>. QED BY <1>3, <1>4, <1>5
  <2>2. t = s BY <2>1
  <2>3. v = w /\ r = u /\ f = g /\ q = p
    <3>. HIDE DEF A, B
    <3>. QED BY <1>3, <1>4, <1>5
  <2>4. o = m /\ c = d /\ n = l
    <3>. HIDE DEF A, B
    <3>. QED BY <1>3, <1>4, <1>5
  <2>. QED BY <2>2, <2>3, <2>4
<1>. QED BY <1>2, <1>5

LEMMA StagesAreNat == StagesAhead \in Nat
BY DEF StagesAhead

(* The work is finite. *)
LEMMA WorkFinite == SearchInv => IsFiniteSet(Work)
<1>. SUFFICES ASSUME SearchInv PROVE IsFiniteSet(Work) OBVIOUS
<1>1. IsFiniteSet(Ids) /\ IsFiniteSet(Edges) BY GraphFinite DEF SearchInv
<1>2. /\ IsFiniteSet(Unentered) /\ IsFiniteSet(Unreturned) /\ IsFiniteSet(Unqueued)
      /\ IsFiniteSet(Unordered) /\ IsFiniteSet(Unrun)
  <2>1. /\ Unentered \in SUBSET Ids /\ Unreturned \in SUBSET Ids /\ Unqueued \in SUBSET Ids
        /\ Unordered \in SUBSET Ids /\ Unrun \in SUBSET Ids
    BY DEF Unentered, Unreturned, Unqueued, Unordered, Unrun
  <2>. QED BY <1>1, <2>1, FS_Subset
<1>3. IsFiniteSet(Unfollowed) /\ IsFiniteSet(Uncounted)
  <2>1. Unfollowed \in SUBSET Edges /\ Uncounted \in SUBSET Edges BY DEF Unfollowed, Uncounted
  <2>. QED BY <1>1, <2>1, FS_Subset
<1>4. IsFiniteSet(1..StagesAhead) BY StagesAreNat, FS_Interval
<1>5. ASSUME NEW tag, NEW S, IsFiniteSet(S) PROVE IsFiniteSet({tag} \X S)
  BY <1>5, FS_Singleton, FS_Product
<1>. QED BY <1>2, <1>3, <1>4, <1>5, FS_Union DEF Work, Tagged

(* The work before and after a step. *)
LEMMA WorkLess ==
  ASSUME StagesAhead' <= StagesAhead,
         Unentered' \subseteq Unentered, Unreturned' \subseteq Unreturned,
         Unfollowed' \subseteq Unfollowed, Unqueued' \subseteq Unqueued,
         Unordered' \subseteq Unordered, Uncounted' \subseteq Uncounted, Unrun' \subseteq Unrun,
         \/ StagesAhead' # StagesAhead \/ Unreturned' # Unreturned \/ Unentered' # Unentered
         \/ Unfollowed' # Unfollowed \/ Unqueued' # Unqueued \/ Unordered' # Unordered
         \/ Uncounted' # Uncounted \/ Unrun' # Unrun
  PROVE  Work' \subseteq Work /\ Work' # Work
<1>1. StagesAhead \in Nat /\ StagesAhead' \in Nat BY StagesAreNat DEF StagesAhead
<1>2. Work' = Tagged(StagesAhead', Unentered', Unreturned', Unfollowed', Unqueued', Unordered',
                     Uncounted', Unrun')
  BY DEF Work, Tagged
<1>3. /\ Unentered' \in SUBSET Unentered /\ Unreturned' \in SUBSET Unreturned
      /\ Unfollowed' \in SUBSET Unfollowed /\ Unqueued' \in SUBSET Unqueued
      /\ Unordered' \in SUBSET Unordered /\ Uncounted' \in SUBSET Uncounted
      /\ Unrun' \in SUBSET Unrun
  OBVIOUS
<1>4. Work = Tagged(StagesAhead, Unentered, Unreturned, Unfollowed, Unqueued, Unordered,
                    Uncounted, Unrun)
  BY DEF Work
<1>. QED BY <1>1, <1>2, <1>3, <1>4, TaggedLess, SMTT(60)

(* A step leaves the work it does not touch. *)
LEMMA SearchWork ==
  ASSUME UNCHANGED <<graph, path, visited>>
  PROVE  UNCHANGED <<Unentered, Unreturned, Unfollowed>>
BY GraphKept DEF Unentered, Unreturned, Unfollowed, Visiting

LEMMA SortWork ==
  ASSUME UNCHANGED <<graph, ready, ordered, left>>
  PROVE  UNCHANGED <<Unqueued, Unordered, Uncounted>>
BY GraphKept DEF Unqueued, Unordered, Uncounted, Elements

LEMMA RunWork ==
  ASSUME UNCHANGED <<graph, outputs>>
  PROVE  UNCHANGED Unrun
BY GraphKept DEF Unrun, Ran

(* A visit begins. *)
LEMMA RootWorks == SearchInv /\ VisitRoot => Work' \subseteq Work /\ Work' # Work
<1>. SUFFICES ASSUME SearchInv, VisitRoot PROVE Work' \subseteq Work /\ Work' # Work OBVIOUS
<1>1. PICK i \in DOMAIN graph.nodes :
        graph.nodes[i].id \notin visited /\ path' = <<Call(graph.nodes[i].id)>>
  BY DEF VisitRoot
<1>. DEFINE n == graph.nodes[i].id
<1>2. n \in Ids /\ n \notin visited BY <1>1 DEF Ids
<1>3. DOMAIN path' = {1} /\ path'[1].node = n /\ path'[1].edge = 0 BY <1>1 DEF Call
<1>4. /\ UNCHANGED <<graph, stage, visited, ready, ordered, left, outputs>>
      /\ DOMAIN path = {} /\ graph \in Graphs
  BY DEF VisitRoot, SearchInv
<1>. HIDE DEF n
<1>5. Visiting = {} /\ Visiting' = {n} BY <1>3, <1>4 DEF Visiting
<1>6. Unentered' = Unentered \ {n} /\ n \in Unentered /\ Unreturned' = Unreturned
  BY <1>2, <1>4, <1>5, GraphKept DEF Unentered, Unreturned
<1>7. Unfollowed' \subseteq Unfollowed
  BY <1>4, GraphKept DEF Unfollowed
<1>8. StagesAhead' = StagesAhead BY <1>4 DEF StagesAhead
<1>9. UNCHANGED <<Unqueued, Unordered, Uncounted, Unrun>> BY <1>4, SortWork, RunWork
<1>10. StagesAhead' <= StagesAhead BY <1>8, StagesAreNat
<1>. QED BY <1>6, <1>7, <1>9, <1>10, WorkLess

(* An edge is followed. *)
LEMMA TargetWorks == SearchInv /\ VisitTarget => Work' \subseteq Work /\ Work' # Work
<1>. SUFFICES ASSUME SearchInv, VisitTarget PROVE Work' \subseteq Work /\ Work' # Work OBVIOUS
<1>1. PICK e \in Rest :
        /\ stage' = IF Loops(Target(e)) THEN "cyclic" ELSE "visiting"
        /\ path' = IF Target(e) \in Visiting \cup visited
                   THEN [path EXCEPT ![Len(path)].edge = e]
                   ELSE Append([path EXCEPT ![Len(path)].edge = e], Call(Target(e)))
  BY DEF VisitTarget
<1>. DEFINE k == Len(path)
            here == [path EXCEPT ![k].edge = e]
<1>2. /\ UNCHANGED <<graph, visited, ready, ordered, left, outputs>> /\ stage = "visiting"
      /\ path # <<>> /\ graph \in Graphs /\ Valid /\ Walk(path, visited, TRUE)
  BY DEF VisitTarget, SearchInv
<1>3. e \in Edges /\ Source(e) = path[k].node /\ path[k].edge < e
  BY <1>1 DEF Rest, Outgoing, Top
<1>4. path \in Seq(Frames) /\ k \in Nat \ {0} /\ DOMAIN path = 1..k
  BY <1>2 DEF Walk
<1>5. \A x \in Frames : x.edge \in Nat /\ [x EXCEPT !.edge = e] \in Frames
  BY <1>2, <1>3, GraphFinite DEF Frames
<1>6. /\ here \in Seq(Frames) /\ Len(here) = k /\ DOMAIN here = 1..k
      /\ here[k].node = path[k].node /\ here[k].edge = e
      /\ \A i \in 1..k : i # k => here[i] = path[i]
  <2>1. k \in 1..k /\ path[k] \in Frames BY <1>4
  <2>2. [path[k] EXCEPT !.edge = e] \in Frames BY <1>5, <2>1
  <2>3. path[k].node = [path[k] EXCEPT !.edge = e].node /\ [path[k] EXCEPT !.edge = e].edge = e
    BY <2>1 DEF Frames
  <2>. QED BY <1>4, <2>1, <2>2, <2>3
<1>7. Target(e) \in Ids /\ Call(Target(e)) \in Frames BY <1>2, <1>3, EdgesInside DEF Call, Frames
<1>8. /\ DOMAIN path' \in {1..k, 1..(k + 1)}
      /\ \A i \in 1..k : path'[i] = here[i]
  <2>. HIDE DEF here, k
  <2>1. /\ DOMAIN Append(here, Call(Target(e))) = 1..(k + 1)
        /\ \A i \in 1..k : Append(here, Call(Target(e)))[i] = here[i]
    BY <1>6, <1>7, AppendPlaces
  <2>. QED BY <1>1, <1>6, <2>1 DEF here, k
<1>9. /\ \A i \in 1..k : /\ i \in DOMAIN path'
                         /\ path'[i].node = path[i].node
                         /\ path[i].edge \in Nat /\ path'[i].edge \in Nat
                         /\ path[i].edge <= path'[i].edge
      /\ k \in 1..k /\ path'[k].edge = e /\ path'[k].node = Source(e)
  <2>. HIDE DEF here, k
  <2>1. \A i \in 1..k : path[i] \in Frames BY <1>4
  <2>2. e \in Nat BY <1>2, <1>3, GraphFinite
  <2>3. 1..k \subseteq DOMAIN path' /\ k \in 1..k BY <1>4, <1>8
  <2>4. path'[k].edge = e /\ path'[k].node = Source(e) /\ path'[k].node = path[k].node
    BY <1>3, <1>6, <1>8, <2>3
  <2>5. ASSUME NEW i \in 1..k
        PROVE  /\ path'[i].node = path[i].node /\ path[i].edge \in Nat
               /\ path'[i].edge \in Nat /\ path[i].edge <= path'[i].edge
    <3>1. path[i].edge \in Nat BY <1>5, <2>1
    <3>2. CASE i = k BY <1>3, <2>2, <2>4, <3>1, <3>2
    <3>3. CASE i # k
      <4>1. path'[i] = path[i] BY <1>6, <1>8, <3>3
      <4>. QED BY <3>1, <4>1
    <3>. QED BY <3>2, <3>3
  <2>. QED BY <2>3, <2>4, <2>5
<1>. HIDE DEF here, k
<1>10. Unfollowed' \subseteq Unfollowed /\ Unfollowed' # Unfollowed
  <2>1. ASSUME NEW f \in Unfollowed' PROVE f \in Unfollowed
    <3>1. /\ f \in Edges /\ Source(f) \notin visited /\ f \in Nat
          /\ \A i \in DOMAIN path' : path'[i].node = Source(f) => path'[i].edge < f
      BY <1>2, <2>1, GraphKept, GraphFinite DEF Unfollowed
    <3>2. ASSUME NEW i \in 1..k, path[i].node = Source(f) PROVE path[i].edge < f
      <4>1. path'[i].edge < f BY <1>9, <3>1, <3>2
      <4>. QED BY <1>9, <3>1, <4>1
    <3>. QED BY <1>4, <3>1, <3>2 DEF Unfollowed
  <2>2. e \in Unfollowed
    <3>1. Source(e) \notin visited BY <1>2, <1>3, <1>4, <1>9 DEF Walk
    <3>2. \A i \in DOMAIN path : path[i].node = Source(e) => i = k
      BY <1>2, <1>3, <1>4, <1>9 DEF Walk
    <3>. QED BY <1>3, <3>1, <3>2 DEF Unfollowed
  <2>3. e \notin Unfollowed'
    <3>1. e \in Nat BY <1>2, <1>3, GraphFinite
    <3>2. ~(path'[k].edge < e) BY <1>9, <3>1
    <3>3. (Source(e))' = Source(e) BY <1>2, GraphKept
    <3>. QED BY <1>9, <3>2, <3>3 DEF Unfollowed
  <2>. QED BY <2>1, <2>2, <2>3
<1>11. Unentered' \subseteq Unentered /\ Unreturned' = Unreturned
  <2>1. Visiting \subseteq Visiting' BY <1>4, <1>9 DEF Visiting
  <2>. QED BY <1>2, <2>1, GraphKept DEF Unentered, Unreturned
<1>12. StagesAhead' <= StagesAhead BY <1>1, <1>2 DEF StagesAhead
<1>13. UNCHANGED <<Unqueued, Unordered, Uncounted, Unrun>> BY <1>2, SortWork, RunWork
<1>. QED BY <1>10, <1>11, <1>12, <1>13, WorkLess

(* A visit returns. *)
LEMMA ReturnWorks == SearchInv /\ VisitReturns => Work' \subseteq Work /\ Work' # Work
<1>. SUFFICES ASSUME SearchInv, VisitReturns PROVE Work' \subseteq Work /\ Work' # Work OBVIOUS
<1>. DEFINE k == Len(path)
            n == path[k].node
<1>1. /\ UNCHANGED <<graph, stage, ready, ordered, left, outputs>> /\ path # <<>>
      /\ visited' = visited \cup {n} /\ path' = SubSeq(path, 1, k - 1)
      /\ graph \in Graphs /\ path \in Seq(Frames)
      /\ \A i \in DOMAIN path : path[i].node \notin visited
  BY DEF VisitReturns, SearchInv, Top, Returned, Walk
<1>2. k \in Nat \ {0} /\ DOMAIN path = 1..k /\ \A i \in 1..k : path[i] \in Frames BY <1>1
<1>3. n \in Ids /\ n \notin visited
  <2>1. k \in 1..k BY <1>2
  <2>. QED BY <1>1, <1>2, <2>1 DEF Frames
<1>4. DOMAIN path' = 1..(k - 1) /\ \A i \in 1..(k - 1) : path'[i] = path[i]
  BY <1>1, <1>2
<1>5. \A i \in 1..k : path[i].node # n => i \in 1..(k - 1)
  <2>1. \A i \in 1..k : i = k \/ i \in 1..(k - 1)
    <3>. HIDE DEF k
    <3>. QED BY <1>2
  <2>2. n = path[k].node OBVIOUS
  <2>. HIDE DEF k, n
  <2>. QED BY <2>1, <2>2
<1>. HIDE DEF k, n
<1>6. Unreturned' = Unreturned \ {n} /\ n \in Unreturned
  BY <1>1, <1>3, GraphKept DEF Unreturned
<1>7. Unentered' \subseteq Unentered
  <2>1. Visiting \subseteq Visiting' \cup {n} BY <1>2, <1>4, <1>5 DEF Visiting
  <2>. QED BY <1>1, <2>1, GraphKept DEF Unentered
<1>8. Unfollowed' \subseteq Unfollowed
  <2>. SUFFICES ASSUME NEW e \in Unfollowed' PROVE e \in Unfollowed OBVIOUS
  <2>1. /\ e \in Edges /\ Source(e) \notin visited /\ Source(e) # n
        /\ \A i \in DOMAIN path' : path'[i].node = Source(e) => path'[i].edge < e
    BY <1>1, GraphKept DEF Unfollowed
  <2>2. \A i \in DOMAIN path : path[i].node = Source(e) => path[i].edge < e
    BY <1>2, <1>4, <1>5, <2>1
  <2>. QED BY <2>1, <2>2 DEF Unfollowed
<1>9. StagesAhead' <= StagesAhead
  <2>1. StagesAhead' = StagesAhead BY <1>1 DEF StagesAhead
  <2>. QED BY <2>1, StagesAreNat
<1>10. UNCHANGED <<Unqueued, Unordered, Uncounted, Unrun>> BY <1>1, SortWork, RunWork
<1>. QED BY <1>6, <1>7, <1>8, <1>9, <1>10, WorkLess

(* The sort queues, orders and counts down. *)
LEMMA SortWorks ==
  ASSUME SearchInv, SortInv, Seed \/ Pop \/ CountDown
  PROVE  Work' \subseteq Work /\ Work' # Work
<1>1. /\ UNCHANGED <<graph, stage, path, visited, outputs>> /\ graph \in Graphs
      /\ Books(ready, ordered, left, counts)
  BY DEF Seed, Pop, CountDown, SearchInv, SortInv, Searched
<1>2. UNCHANGED <<Unentered, Unreturned, Unfollowed, Unrun>> BY <1>1, SearchWork, RunWork
<1>3. StagesAhead' <= StagesAhead
  <2>1. StagesAhead' = StagesAhead BY <1>1 DEF StagesAhead
  <2>. QED BY <2>1, StagesAreNat
<1>4. /\ ready \in Seq(Ids) /\ Distinct(ready) /\ ordered \in Seq(Ids)
      /\ Elements(ready) \cap Elements(ordered) = {}
      /\ left \subseteq Edges /\ \A e \in left : Source(e) \in Elements(ordered)
  BY <1>1 DEF Books
<1>5. CASE Seed
  <2>1. PICK n \in Seeds : ready' = Append(ready, n) BY <1>5 DEF Seed
  <2>2. UNCHANGED <<ordered, left>> /\ ordered = <<>>
    BY <1>5 DEF Seed, SortInv
  <2>3. n \in Ids /\ n \notin Elements(ready) /\ Elements(ordered) = {}
    BY <2>1, <2>2 DEF Seeds, Elements
  <2>4. Elements(ready') = Elements(ready) \cup {n} BY <1>4, <2>1, <2>3, AppendElements
  <2>5. Unqueued' = Unqueued \ {n} /\ n \in Unqueued
    BY <1>1, <2>2, <2>3, <2>4, GraphKept DEF Unqueued, Elements
  <2>6. UNCHANGED <<Unordered, Uncounted>>
    BY <1>1, <2>2, GraphKept DEF Unordered, Uncounted, Elements
  <2>. QED BY <1>2, <1>3, <2>5, <2>6, WorkLess
<1>6. CASE Pop
  <2>. DEFINE h == Head(ready)
  <2>1. /\ ready # <<>> /\ left = {} /\ ready' = Tail(ready)
        /\ ordered' = Append(ordered, h) /\ left' = Outgoing(h)
    BY <1>6 DEF Pop
  <2>2. h \in Ids /\ h \in Elements(ready) /\ Elements(ready') = Elements(ready) \ {h}
    BY <1>4, <2>1, TailElements
  <2>3. Elements(ordered') = Elements(ordered) \cup {h} BY <1>4, <2>1, <2>2, AppendElements
  <2>. HIDE DEF h
  <2>4. (Elements(ordered))' = Elements(ordered') /\ (Elements(ready))' = Elements(ready')
    BY DEF Elements
  <2>5. Unqueued' = Unqueued
    BY <1>1, <2>2, <2>3, <2>4, GraphKept DEF Unqueued
  <2>6. Unordered' = Unordered \ {h} /\ h \in Unordered
    BY <1>1, <1>4, <2>2, <2>3, <2>4, GraphKept DEF Unordered
  <2>7. Uncounted' \subseteq Uncounted
    BY <1>1, <1>4, <2>1, <2>2, <2>3, <2>4, GraphKept DEF Uncounted, Outgoing
  <2>. QED BY <1>2, <1>3, <2>5, <2>6, <2>7, WorkLess
<1>7. CASE CountDown
  <2>1. PICK e \in left :
          /\ left' = left \ {e}
          /\ ready' = IF counts[Target(e)] = 1 THEN Append(ready, Target(e)) ELSE ready
    BY <1>7 DEF CountDown
  <2>2. UNCHANGED ordered /\ stage = "sorting" BY <1>7 DEF CountDown
  <2>3. Target(e) \in Ids
    <3>1. Valid /\ e \in Edges BY <1>4, <2>2 DEF SearchInv
    <3>. QED BY <3>1, EdgesInside
  <2>4. Elements(ready) \subseteq Elements(ready')
    BY <1>4, <2>1, <2>3, AppendElements
  <2>5. Unqueued' \subseteq Unqueued
    BY <1>1, <2>2, <2>4, GraphKept DEF Unqueued, Elements
  <2>6. Unordered' = Unordered BY <1>1, <2>2, GraphKept DEF Unordered, Elements
  <2>7. Elements(ordered)' = Elements(ordered) BY <2>2 DEF Elements
  <2>8. Uncounted' = Uncounted \ {e} /\ e \in Uncounted
    BY <1>1, <1>4, <2>1, <2>7, GraphKept DEF Uncounted
  <2>. QED BY <1>2, <1>3, <2>5, <2>6, <2>8, WorkLess
<1>. QED BY <1>5, <1>6, <1>7

(* A stage ends. *)
LEMMA StageWorks ==
  ASSUME Check \/ SortBegin \/ Seeded \/ SortEnd \/ RunEnd
  PROVE  Work' \subseteq Work /\ Work' # Work
<1>1. UNCHANGED <<graph, path, visited, ready, ordered, left, outputs>>
  BY DEF Check, SortBegin, Seeded, SortEnd, RunEnd
<1>2. StagesAhead' < StagesAhead /\ StagesAhead' <= StagesAhead /\ StagesAhead' # StagesAhead
  BY DEF StagesAhead, Check, SortBegin, Seeded, SortEnd, RunEnd
<1>. QED BY <1>1, <1>2, SearchWork, SortWork, RunWork, WorkLess

(* A node runs, or breaks the execution. *)
LEMMA NodeWorks ==
  ASSUME SearchInv, SortInv, RunInv, RanInOrder, RunNode
  PROVE  Work' \subseteq Work /\ Work' # Work
<1>1. /\ UNCHANGED <<graph, path, visited, ready, ordered, left>> /\ stage = "running"
      /\ Cardinality(Ran) < Len(ordered)
  BY DEF RunNode
<1>2. UNCHANGED <<Unentered, Unreturned, Unfollowed, Unqueued, Unordered, Uncounted>>
  BY <1>1, SearchWork, SortWork
<1>3. CASE stage' = "broken" /\ UNCHANGED outputs
  <2>1. StagesAhead = 1 BY <1>1 DEF StagesAhead
  <2>2. StagesAhead' = 0 BY <1>3 DEF StagesAhead
  <2>3. StagesAhead' <= StagesAhead /\ StagesAhead' # StagesAhead BY <2>1, <2>2
  <2>. QED BY <1>1, <1>2, <1>3, <2>3, RunWork, WorkLess
<1>4. CASE /\ UNCHANGED stage
           /\ outputs' = [n \in Ran \cup {Due} |->
                IF n \in Ran THEN outputs[n] ELSE OutputPorts(Node(n).type, Node(n).config)]
  <2>1. Ran' = Ran \cup {Due} BY <1>4 DEF Ran
  <2>2. Due \in Ids \ Ran BY <1>1, DueFollows
  <2>3. Unrun' = Unrun \ {Due} /\ Due \in Unrun
    <3>. HIDE DEF Ran, Due
    <3>. QED BY <1>1, <2>1, <2>2, GraphKept DEF Unrun
  <2>4. StagesAhead' <= StagesAhead
    <3>1. StagesAhead' = StagesAhead BY <1>4 DEF StagesAhead
    <3>. QED BY <3>1, StagesAreNat
  <2>. QED BY <1>2, <2>3, <2>4, WorkLess
<1>. QED BY <1>3, <1>4 DEF RunNode

(* Whatever the graph, cyclic or not, what is left to do is finite and     *)
(* every step takes from it: the searches, which are recursive and loop    *)
(* until they find nothing more, and the execution all come to a stop      *)
(* after at most as many steps as there is work in the drawn graph.        *)
THEOREM StepsUseWorkUp ==
  Spec => [](IsFiniteSet(Work)) /\ [][Work' \subseteq Work /\ Work' # Work]_vars
<1>. DEFINE Inv == SearchInv /\ SortInv /\ RunInv /\ RanInOrder /\ OnlyKnownBreaks
<1>1. Init => Inv BY BreaksInit
<1>2. Inv /\ [Next]_vars => Inv'
  BY SearchNext, SortNext, RunNext, BreaksNext
<1>3. Inv => IsFiniteSet(Work) BY WorkFinite
<1>4. Inv /\ [Next]_vars => [Work' \subseteq Work /\ Work' # Work]_vars
  BY RootWorks, TargetWorks, ReturnWorks, SortWorks, StageWorks, NodeWorks DEF Next
<1>. QED BY <1>1, <1>2, <1>3, <1>4, PTL DEF Spec
=============================================================================
