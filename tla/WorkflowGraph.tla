---------------------------- MODULE WorkflowGraph ----------------------------
(***************************************************************************)
(* A workflow graph on its way from the canvas to its last node: it is     *)
(* parsed and validated when it is saved and again when it is started      *)
(* (checks on nodes, edges and ports, then a depth-first search for        *)
(* cycles), put in an order (topological_sort, for the node runs and again *)
(* by every execution), and executed in that order.  Both searches are     *)
(* modelled step by step; a loop of either is an action.                   *)
(*                                                                         *)
(* What a provider may do to an execution is RunEngine's subject; here     *)
(* every provider delivers.                                                *)
(***************************************************************************)
EXTENDS NodeTypes, Integers, Sequences, FiniteSets

CONSTANTS
  Graphs,   \* the graphs that are drawn: [nodes, edges], sequences of records
  MaxNodes  \* bound: their nodes

(* A node is [id, type, config], an edge [id, source, source_port, target, *)
(* target_port].  Ids are numbers in the order of the strings; 0 is not a  *)
(* non-empty string.                                                       *)
ASSUME GraphsAssumption ==
  /\ MaxNodes \in Nat
  /\ \A g \in Graphs :
       /\ DOMAIN g.nodes = 1..Len(g.nodes) /\ DOMAIN g.edges = 1..Len(g.edges)
       /\ Len(g.nodes) \in 0..MaxNodes /\ Len(g.edges) \in Nat
       /\ \A i \in DOMAIN g.nodes : g.nodes[i].id \in Nat
       /\ \A e \in DOMAIN g.edges : g.edges[e].source \in Nat /\ g.edges[e].target \in Nat

VARIABLES
  graph,    \* the graph; nothing changes it
  stage,    \* how far it has come
  path,     \* _validate_acyclic: the calls of visit, each [node, edge]: the
            \* edge of its loop
  visited,  \* _validate_acyclic: the nodes whose visit has returned
  counts,   \* topological_sort: incoming_count
  ready,    \* topological_sort: the deque
  ordered,  \* topological_sort: the order so far
  left,     \* topological_sort: edges of the last node still to be counted
  outputs   \* the output ports of the nodes executed so far

vars == <<graph, stage, path, visited, counts, ready, ordered, left, outputs>>

Ends == {"refused", "cyclic", "unsortable", "broken", "done"}
Stages == {"drawn", "visiting", "seeding", "sorting", "running"} \cup Ends

Edges == DOMAIN graph.edges
Source(e) == graph.edges[e].source
Target(e) == graph.edges[e].target
Ids == {graph.nodes[i].id : i \in DOMAIN graph.nodes}
Outgoing(n) == {e \in Edges : Source(e) = n}
Incoming(n) == {e \in Edges : Target(e) = n}
Elements(seq) == {seq[i] : i \in DOMAIN seq}
Node(n) == CHOOSE node \in Elements(graph.nodes) : node.id = n
Ran == DOMAIN outputs
AllPorts == UNION {DOMAIN Registry[t].outputs : t \in DOMAIN Registry}

TypeOK ==
  /\ graph \in Graphs
  /\ stage \in Stages
  /\ path \in Seq([node : Ids, edge : Edges \cup {0}])
  /\ visited \subseteq Ids
  /\ counts \in [Ids -> Nat]
  /\ ready \in Seq(Ids)
  /\ ordered \in Seq(Ids)
  /\ left \subseteq Edges
  /\ Ran \subseteq Ids /\ \A n \in Ran : outputs[n] \subseteq AllPorts

Init ==
  /\ graph \in Graphs
  /\ stage = "drawn"
  /\ path = <<>> /\ visited = {}
  /\ counts = [n \in Ids |-> 0] /\ ready = <<>> /\ ordered = <<>> /\ left = {}
  /\ outputs = [n \in {} |-> {}]

-----------------------------------------------------------------------------
(* parse_workflow_json and the checks of GraphValidator on the parts.      *)

Parses ==
  /\ \A i \in DOMAIN graph.nodes : graph.nodes[i].id # 0
  /\ \A e \in Edges : Source(e) # 0 /\ Target(e) # 0

UniqueIds ==
  /\ \A i, j \in DOMAIN graph.nodes : graph.nodes[i].id = graph.nodes[j].id => i = j
  /\ \A e, f \in Edges : graph.edges[e].id = graph.edges[f].id => e = f

NodesKnown ==
  \A i \in DOMAIN graph.nodes :
    LET node == graph.nodes[i] IN
    node.type \in DOMAIN Registry /\ ConfigFits(node.type, node.config)

PortsMatch ==
  \A e \in Edges :
    LET from == Registry[Node(Source(e)).type].outputs
        to   == Registry[Node(Target(e)).type].inputs
        edge == graph.edges[e]
    IN  /\ edge.source_port \in DOMAIN from
        /\ edge.target_port \in DOMAIN to
        /\ from[edge.source_port] = to[edge.target_port]

(* Mutant of Connected: an edge to another port will do. *)
ConnectedAnywhere(n, port) == Incoming(n) # {}

Connected(n, port) == \E e \in Incoming(n) : graph.edges[e].target_port = port

(* A required input has an edge, or the config has the key. *)
RequiredInputs ==
  \A n \in Ids : \A port \in Registry[Node(n).type].needs :
    Connected(n, port) \/ port \in DOMAIN Node(n).config

IsOutput(n) == Registry[Node(n).type].is_output

OutputExists == \E n \in Ids : IsOutput(n)

OutputsConnected == \A n \in Ids : IsOutput(n) => Incoming(n) # {}

Valid ==
  /\ Parses /\ UniqueIds /\ NodesKnown
  /\ \A e \in Edges : {Source(e), Target(e)} \subseteq Ids
  /\ PortsMatch /\ RequiredInputs /\ OutputExists /\ OutputsConnected

Check ==
  /\ stage = "drawn"
  /\ stage' = IF Valid THEN "visiting" ELSE "refused"
  /\ UNCHANGED <<graph, path, visited, counts, ready, ordered, left, outputs>>

-----------------------------------------------------------------------------
(* _validate_acyclic. *)

Visiting == {path[i].node : i \in DOMAIN path}

(* Mutants of Loops: a visit that has returned counts as open, and an open *)
(* one as returned.                                                        *)
LoopsOrSeen(n) == n \in Visiting \cup visited
LoopsNever(n) == n \in {}

Loops(n) == n \in Visiting

Call(n) == [node |-> n, edge |-> 0]

(* for node in graph.nodes: visit(node.id).  A visited one returns at once. *)
VisitRoot ==
  /\ stage = "visiting" /\ path = <<>>
  /\ \E i \in DOMAIN graph.nodes :
       LET n == graph.nodes[i].id IN
       /\ n \notin visited
       /\ \A j \in 1..(i - 1) : graph.nodes[j].id \in visited
       /\ path' = <<Call(n)>>
  /\ UNCHANGED <<graph, stage, visited, counts, ready, ordered, left, outputs>>

Top == path[Len(path)]

(* The edges the innermost loop has not come to. *)
Rest == {e \in Outgoing(Top.node) : Top.edge < e}

(* visit(target): one call deeper.  The interpreter's limit on the depth   *)
(* (RecursionError, at chains of about a thousand nodes) is left out.      *)
VisitTarget ==
  /\ stage = "visiting" /\ path # <<>>
  /\ \E e \in Rest :
       LET here == [path EXCEPT ![Len(path)].edge = e] IN
       /\ \A f \in Rest : e <= f
       /\ stage' = IF Loops(Target(e)) THEN "cyclic" ELSE "visiting"
       /\ path' = IF Target(e) \in Visiting \cup visited
                  THEN here ELSE Append(here, Call(Target(e)))
  /\ UNCHANGED <<graph, visited, counts, ready, ordered, left, outputs>>

(* Mutant of Returned: the node is not remembered. *)
ReturnedForgotten == visited

Returned == visited \cup {Top.node}

VisitReturns ==
  /\ stage = "visiting" /\ path # <<>> /\ Rest = {}
  /\ visited' = Returned
  /\ path' = SubSeq(path, 1, Len(path) - 1)
  /\ UNCHANGED <<graph, stage, counts, ready, ordered, left, outputs>>

-----------------------------------------------------------------------------
(* topological_sort. *)

(* Mutant of Arrivals: parallel edges counted once. *)
ArrivalsOnce(n) == {Source(e) : e \in Incoming(n)}

Arrivals(n) == Incoming(n)

SortBegin ==
  /\ stage = "visiting" /\ path = <<>> /\ visited = Ids
  /\ stage' = "seeding"
  /\ counts' = [n \in Ids |-> Cardinality(Arrivals(n))]
  /\ UNCHANGED <<graph, path, visited, ready, ordered, left, outputs>>

(* deque(sorted(...)): the smallest of them first. *)
Seeds == {n \in Ids : counts[n] = 0 /\ n \notin Elements(ready)}

Seed ==
  /\ stage = "seeding"
  /\ \E n \in Seeds : (\A m \in Seeds : n <= m) /\ ready' = Append(ready, n)
  /\ UNCHANGED <<graph, stage, path, visited, counts, ordered, left, outputs>>

Seeded ==
  /\ stage = "seeding" /\ Seeds = {}
  /\ stage' = "sorting"
  /\ UNCHANGED <<graph, path, visited, counts, ready, ordered, left, outputs>>

Pop ==
  /\ stage = "sorting" /\ left = {} /\ ready # <<>>
  /\ ordered' = Append(ordered, Head(ready))
  /\ ready' = Tail(ready)
  /\ left' = Outgoing(Head(ready))
  /\ UNCHANGED <<graph, stage, path, visited, counts, outputs>>

(* Mutant of SmallestFirst: the targets in the order of the edges. *)
ListedFirst(e) == \A f \in left : e <= f

(* sorted(outgoing[node_id]) *)
SmallestFirst(e) == \A f \in left : Target(e) <= Target(f)

CountDown ==
  /\ stage = "sorting"
  /\ \E e \in left :
       /\ SmallestFirst(e)
       /\ left' = left \ {e}
       /\ counts' = [counts EXCEPT ![Target(e)] = @ - 1]
       /\ ready' = IF counts[Target(e)] = 1 THEN Append(ready, Target(e)) ELSE ready
  /\ UNCHANGED <<graph, stage, path, visited, ordered, outputs>>

SortEnd ==
  /\ stage = "sorting" /\ left = {} /\ ready = <<>>
  /\ stage' = IF Len(ordered) = Cardinality(Ids) THEN "running" ELSE "unsortable"
  /\ UNCHANGED <<graph, path, visited, counts, ready, ordered, left, outputs>>

-----------------------------------------------------------------------------
(* WorkflowExecutor.run and NodeRunner.run_node, as far as the values go.  *)

Due == ordered[Cardinality(Ran) + 1]

(* _resolve_inputs finds the ports n's edges read. *)
Resolves(n) ==
  \A e \in Incoming(n) :
    Source(e) \in Ran /\ graph.edges[e].source_port \in outputs[Source(e)]

Runs(n) ==
  LET node == Node(n)
      fed  == {graph.edges[e].target_port : e \in Incoming(n)}
  IN  /\ Resolves(n)
      /\ InputsFit(node.type, RuntimeInputs(node.type, node.config, fed))
      /\ ConfigFits(node.type, node.config)

RunNode ==
  /\ stage = "running" /\ Cardinality(Ran) < Len(ordered)
  /\ IF Runs(Due)
     THEN /\ outputs' = [n \in Ran \cup {Due} |->
               IF n \in Ran THEN outputs[n] ELSE OutputPorts(Node(n).type, Node(n).config)]
          /\ UNCHANGED stage
     ELSE stage' = "broken" /\ UNCHANGED outputs
  /\ UNCHANGED <<graph, path, visited, counts, ready, ordered, left>>

RunEnd ==
  /\ stage = "running" /\ Cardinality(Ran) = Len(ordered)
  /\ stage' = "done"
  /\ UNCHANGED <<graph, path, visited, counts, ready, ordered, left, outputs>>

Next ==
  \/ Check \/ VisitRoot \/ VisitTarget \/ VisitReturns
  \/ SortBegin \/ Seed \/ Seeded \/ Pop \/ CountDown \/ SortEnd
  \/ RunNode \/ RunEnd

Spec == Init /\ [][Next]_vars

(* One call runs the searches to their end, and the worker the nodes: no   *)
(* step waits for anybody.                                                 *)
FairSpec == Spec /\ WF_vars(Next)

-----------------------------------------------------------------------------
(* Properties. *)

(* A cycle, without a search: nodes each of which has an edge to another.  *)
Cyclic ==
  \E S \in SUBSET Ids : S # {} /\ \A n \in S : \E e \in Outgoing(n) : Target(e) \in S

Place(n) == CHOOSE i \in DOMAIN ordered : ordered[i] = n

Sorted == stage \in {"running", "broken", "done"}

(* The recursive search refuses a graph only if it has a cycle: a node met *)
(* twice on two ways to it (a diamond, parallel edges) is no cycle.        *)
RefusedIsCyclic == stage = "cyclic" => Cyclic

(* Both searches end on every graph, cyclic ones included, and so does the *)
(* execution: nothing but its two sets keeps visit from descending for     *)
(* ever.                                                                   *)
EveryGraphEnds == <>(stage \in Ends)

(* The two searches agree: once the first has found no cycle, the second,  *)
(* which counts edges down, does not get stuck.  A run is started, and     *)
(* every execution of it begins, behind that first search only.            *)
SortNeverFails == stage # "unsortable"

(* Every node has one place in the order, behind the nodes it reads.  The  *)
(* engine's model assumes it of its node numbers.                          *)
UpstreamFirst ==
  Sorted =>
    /\ Elements(ordered) = Ids /\ \A i, j \in DOMAIN ordered : ordered[i] = ordered[j] => i = j
    /\ \A e \in Edges : Place(Source(e)) < Place(Target(e))

(* The order is determined by the ids and the edges, and not by the order  *)
(* in which the canvas lists them: nodes without an edge into them come    *)
(* first, then the nodes by the last of their upstream nodes, and by id    *)
(* where that is the same.  The order is computed for the node runs and    *)
(* again by every execution, also after a provider's answer.               *)
LastUpstream(n) ==
  CHOOSE p \in 0..Len(ordered) :
    /\ p = 0 => Incoming(n) = {}
    /\ p > 0 => \E e \in Incoming(n) : Place(Source(e)) = p
    /\ \A e \in Incoming(n) : Place(Source(e)) <= p

CanonicalOrder ==
  Sorted =>
    \A i \in 1..(Len(ordered) - 1) :
      LET n == ordered[i]
          m == ordered[i + 1]
      IN  \/ LastUpstream(n) < LastUpstream(m)
          \/ LastUpstream(n) = LastUpstream(m) /\ n < m

(* What validation cannot see of a graph it lets through: an edge from a   *)
(* port of an upload whose asset is of another type, and a required input  *)
(* that nothing is connected to and whose configured value is blank.       *)
WrongPort(e) ==
  /\ Node(Source(e)).type = "upload_asset"
  /\ graph.edges[e].source_port \notin OutputPorts("upload_asset", Node(Source(e)).config)

BlankInput(n) ==
  \E port \in Registry[Node(n).type].needs \cap DOMAIN Node(n).config :
    /\ Node(n).config[port] = "blank"
    /\ \A e \in Incoming(n) : graph.edges[e].target_port # port

(* Nothing else breaks a run once its providers deliver: the checks before *)
(* the start and those on the way to a node agree.                         *)
OnlyKnownBreaks ==
  stage = "broken" => BlankInput(Due) \/ \E e \in Incoming(Due) : WrongPort(e)
=============================================================================
