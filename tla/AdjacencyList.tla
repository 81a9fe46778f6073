--------------------------- MODULE AdjacencyList ---------------------------
(***************************************************************************)
(* The distributed adjacency list: every process keeps its vertices with   *)
(* their out-edges; a bidirectional graph also keeps the in-edges of a     *)
(* vertex at its owner, an undirected one the edge at both ends and, where *)
(* it was added, in local_edges.  A change of an edge between processes is *)
(* made at one end and sent to the other.                                  *)
(*                                                                         *)
(* A call builds the graph of input.out, applies each process's            *)
(* input.change, and redistributes the vertices to input.move.             *)
(* input.directed is "directedS", "bidirectionalS" or "undirectedS", and   *)
(* input.stable says whether descriptors survive a removal (listS).        *)
(***************************************************************************)
EXTENDS BSP

DirectedS(selector) == input.directed = selector
\* A vertex descriptor: the owner and the descriptor of its local graph.
Descriptor(v) ==
  [own |-> input.owner[v], local |-> Cardinality({u \in Vertex : u < v /\ input.owner[u] = input.owner[v]})]
Mine(p) == {Descriptor(v).local : v \in Local(p)}

\* name: the property of a vertex, by which it is known when it has moved.
graph_Start(p) ==
  [stage |-> IF input.stable THEN "ask" ELSE "build",
   name |-> [i \in Mine(p) |-> CHOOSE v \in Local(p) : Descriptor(v).local = i],
   out |-> [i \in Mine(p) |-> << >>], in |-> [i \in Mine(p) |-> << >>],
   edges |-> << >>, known |-> << >>, got |-> << >>]

\* What an operation makes of the data and sends.
Then(d, sends) == [data |-> d, sends |-> sends]
AndSends(r, sends) == [r EXCEPT !.sends = @ \o sends]
To(q, body) == << [to |-> q, body |-> body] >>

Without(s, k) == [i \in 1 .. Len(s) - 1 |-> IF i < k THEN s[i] ELSE s[i + 1]]
\* s without the first element that meets the test, if there is one.
WithoutFirst(s, test(_)) ==
  LET found == {k \in DOMAIN s : test(s[k])} IN IF found = {} THEN s ELSE Without(s, Min(found))

-----------------------------------------------------------------------------
(* Adding an edge.  e identifies it and stands for its property. *)

Pushed(d, x, y, e) == [d EXCEPT !.out[x.local] = Append(@, [at |-> y, e |-> e])]

\* add_local_edge; the new edge goes to the owner of the target.
add_local_edge(d, p, u, v, e) ==
  LET new == Pushed(d, u, v, e)
      both == IF DirectedS("undirectedS") THEN Pushed(new, v, u, e)
              ELSE [new EXCEPT !.in[v.local] = Append(@, [at |-> u, e |-> e])]
      kept(r) == IF DirectedS("undirectedS") THEN [r EXCEPT !.edges = Append(@, [s |-> u, t |-> v, e |-> e])] ELSE r
  IN IF DirectedS("directedS") THEN Then(new, << >>)
     ELSE IF v.own = p THEN Then(kept(both), << >>)
     ELSE Then(kept(new), To(v.own, [kind |-> "nonlocal_edge", u |-> u, v |-> v, e |-> e]))

\* The destructor of lazy_add_edge: the owner of the source adds the edge.
lazy_add_edge(d, p, u, v, e) ==
  IF u.own = p THEN add_local_edge(d, p, u, v, e)
  ELSE Then(d, To(u.own, [kind |-> "add_edge", u |-> u, v |-> v, e |-> e]))

add_remote_edge(d, from, m) ==
  LET u == [own |-> from, local |-> m.u.local] IN
  IF DirectedS("undirectedS") THEN Pushed(d, m.v, u, m.e)
  ELSE [d EXCEPT !.in[m.v.local] = Append(@, [at |-> u, e |-> m.e])]

-----------------------------------------------------------------------------
(* Removing an edge (s, t, e). *)

\* The loop over the in-edges stops where an edge is of the right process, or is
\* not the edge.
remove_in_edge(d, p, x) ==
  LET v == IF x.t.own = p THEN x.t ELSE x.s
      u == IF x.t.own = p THEN x.s ELSE x.t
  IN IF DirectedS("undirectedS") THEN [d EXCEPT !.out[v.local] = WithoutFirst(@, LAMBDA i : i.at = u)]
     ELSE IF DirectedS("directedS") THEN d
     ELSE [d EXCEPT !.in[x.t.local] = WithoutFirst(@, LAMBDA i : i.at.own = x.s.own \/ i.e # x.e)]

remove_local_edge_from_list(d, s, t) ==
  [d EXCEPT !.edges = WithoutFirst(@, LAMBDA i : {i.s, i.t} = {s, t})]

\* send_remove_edge_request: the process at the other end.
RemoveRequest_Target(p, x) == To(x.t.own, [kind |-> "remove_edge", u |-> x.s, v |-> x.t])
RemoveRequest(p, x) ==
  To(IF x.t.own = p THEN x.s.own ELSE x.t.own, [kind |-> "remove_edge", u |-> x.s, v |-> x.t])

remove_edge(d, p, x) ==
  LET in == IF x.t.own = p THEN remove_in_edge(d, p, x) ELSE d
      out == IF x.s.own = p THEN [in EXCEPT !.out[x.s.local] = WithoutFirst(@, LAMBDA i : i.at = x.t /\ i.e = x.e)] ELSE in
      asks == x.s.own # p \/ (x.t.own # p /\ ~DirectedS("directedS"))
  IN Then(remove_local_edge_from_list(out, x.s, x.t), IF asks THEN RemoveRequest(p, x) ELSE << >>)

\* remove_edge(u, v): the first edge from u to v, found at either end.
remove_edge_between(d, p, u, v) ==
  LET ends == IF u.own = p \/ DirectedS("undirectedS") THEN d.out ELSE d.in
      x == IF u.own = p THEN u ELSE v
      y == IF u.own = p THEN v ELSE u
      found == {k \in DOMAIN ends[x.local] : ends[x.local][k].at = y}
  IN IF found = {} THEN Then(d, << >>)
     ELSE remove_edge(d, p, [s |-> u, t |-> v, e |-> ends[x.local][Min(found)].e])

\* remove_local_edge, for a request of the other end: any edge of that end.
remove_local_edge(d, p, from, m) ==
  LET local == IF m.v.own = p /\ (DirectedS("undirectedS") \/ m.u.own # p) THEN m.v ELSE m.u
      remote == [own |-> from, local |-> IF local = m.v THEN m.u.local ELSE m.v.local]
      gone(s) == WithoutFirst(s, LAMBDA i : i.at = remote)
  IN IF DirectedS("bidirectionalS") /\ local = m.v THEN [d EXCEPT !.in[local.local] = gone(@)]
     ELSE remove_local_edge_from_list([d EXCEPT !.out[local.local] = gone(@)], m.u, m.v)

\* remove_out_edge_if with always_true: clear_out_edges, and clear_vertex of an
\* undirected graph.
clear_out_edges(d, p, u) ==
  LET Goes(r, i) ==
        LET x == [s |-> u, t |-> i.at, e |-> i.e]
            local == remove_local_edge_from_list(r.data, u, i.at)
        IN IF DirectedS("directedS") THEN r
           ELSE IF i.at.own # p THEN AndSends([r EXCEPT !.data = local], RemoveRequest(p, x))
           ELSE [r EXCEPT !.data = remove_in_edge(local, p, x)]
      r == Loop(Goes, Then(d, << >>), d.out[u.local])
  IN [r EXCEPT !.data.out[u.local] = << >>]

\* remove_in_edge_if with always_true.  A local source loses every edge to a target
\* with this local descriptor.
clear_in_edges(d, p, v) ==
  LET Goes(r, i) ==
        IF i.at.own # p THEN AndSends(r, RemoveRequest(p, [s |-> i.at, t |-> v]))
        ELSE [r EXCEPT !.data.out[i.at.local] = SelectSeq(@, LAMBDA o : o.at.local # v.local)]
      r == Loop(Goes, Then(d, << >>), d.in[v.local])
  IN [r EXCEPT !.data.in[v.local] = << >>]

clear_vertex(d, p, v) ==
  IF DirectedS("bidirectionalS")
  THEN LET r == clear_out_edges(d, p, v) IN AndSends(clear_in_edges(r.data, p, v), r.sends)
  ELSE clear_out_edges(d, p, v)

\* remove_edge_if with always_true, at one process.
remove_edge_if(d, p) ==
  LET Goes(r, x) ==
        LET in == IF x.t.own = p THEN remove_in_edge(r.data, p, x) ELSE r.data
            out == [in EXCEPT !.out[x.s.local] = WithoutFirst(@, LAMBDA i : i.at = x.t /\ i.e = x.e)]
        IN Then(out, IF x.t.own # p THEN r.sends \o RemoveRequest(p, x) ELSE r.sends)
      Clears(r, i) == LET c == clear_out_edges(r.data, p, [own |-> p, local |-> i]) IN AndSends(c, r.sends)
  IN IF DirectedS("undirectedS")
     THEN [Loop(Goes, Then(d, << >>), d.edges) EXCEPT !.data.edges = << >>]
     ELSE Loop(Clears, Then(d, << >>), SetToSortSeq(DOMAIN d.out, <))

-----------------------------------------------------------------------------
(* Building the graph from a list of edges. *)

\* The edges a process adds, in order: those whose source it owns.
EdgeList(p) ==
  LET own == SetToSortSeq(Local(p), <) IN
  FlattenSeq([i \in DOMAIN own |->
    LET v == own[i]
    IN [k \in DOMAIN input.out[v] |-> [u |-> v, v |-> input.out[v][k].to, e |-> <<v, k>>]]])

\* Without vecS a process asks for the descriptors of the targets elsewhere, by
\* their numbers in order, and finds each answer at the place of its request.
Number(v) == Descriptor(v).local
Requests(p, q) ==
  IF p = q THEN << >>
  ELSE SetToSortSeq({Number(x.v) : x \in {x \in ToSet(EdgeList(p)) : input.owner[x.v] = q}}, <)
Answers(p, q) ==
  LET asked == Requests(p, q)
      here == SetToSortSeq(DOMAIN data[q].name, <)
  IN [k \in DOMAIN asked |-> here[asked[k] + 1]]
Asked == [p \in Proc |-> [data[p] EXCEPT !.stage = "build", !.known = [q \in Proc |-> Answers(p, q)]]]

Target(d, p, v) ==
  LET q == input.owner[v]
      asked == Requests(p, q)
  IN IF q = p \/ d.known = << >> THEN Descriptor(v)
     ELSE [own |-> q, local |-> d.known[q][CHOOSE k \in DOMAIN asked : asked[k] = Number(v)]]

\* initialize
initialize(d, p) ==
  LET Adds(r, x) ==
        LET new == lazy_add_edge(r.data, p, Descriptor(x.u), Target(d, p, x.v), x.e) IN AndSends(new, r.sends)
  IN Loop(Adds, Then(d, << >>), EdgeList(p))

\* The k-th change that the program of p makes.
Change(d, p, c, k) ==
  LET u == Descriptor(c.u)  v == Descriptor(c.v) IN
  CASE c.op = "add_edge" -> lazy_add_edge(d, p, u, v, <<p, -k>>)
    [] c.op = "remove_edge" -> remove_edge_between(d, p, u, v)
    [] c.op = "clear_vertex" -> clear_vertex(d, p, u)
    [] c.op = "remove_edge_if" -> remove_edge_if(d, p)
Changed(d, p) ==
  LET Does(r, k) == LET new == Change(r.data, p, input.change[p][k], k) IN AndSends(new, r.sends)
  IN Loop(Does, Then(d, << >>), [k \in DOMAIN input.change[p] |-> k])

graph_Handle(d, p, from, m) ==
  CASE m.kind = "add_edge" -> add_local_edge(d, p, m.u, m.v, m.e)
    [] m.kind = "nonlocal_edge" -> Then(add_remote_edge(d, from, m), << >>)
    [] m.kind = "remove_edge" -> Then(remove_local_edge(d, p, from, m), << >>)

-----------------------------------------------------------------------------
(* Redistribution: vertices and edges go to their new processes, then the  *)
(* new descriptors to those who need them, and the edges are added again.  *)

NameOfVertex(x) == data[x.own].name[x.local]
Processor(x) == input.move[NameOfVertex(x)]
Moves(x) == Processor(x) # x.own

\* Each process keeps its vertices only if descriptors are stable.
Stays(x) == input.stable /\ ~Moves(x)
At(p) == {[own |-> p, local |-> i] : i \in DOMAIN data[p].name}
Everyone == UNION {At(p) : p \in Proc}
ByLocal(S) == SetToSortSeq(S, LAMBDA x, y : x.local < y.local)
GoingTo(p, q) == ByLocal({x \in At(p) : ~Stays(x) /\ Processor(x) = q})

AllEdges(p) ==
  LET all == ByLocal(At(p)) IN
  IF DirectedS("undirectedS") THEN data[p].edges
  ELSE FlattenSeq([k \in DOMAIN all |->
         LET x == all[k]
         IN [j \in DOMAIN data[p].out[x.local] |->
               [s |-> x, t |-> data[p].out[x.local][j].at, e |-> data[p].out[x.local][j].e]]])
EdgesGoingTo(p, q) == SelectSeq(AllEdges(p), LAMBDA x : ~(Stays(x.s) /\ Stays(x.t)) /\ Processor(x.s) = q)

\* The vertices that come to q, in order, get the next descriptors.
Ranks == SetToSortSeq(Proc, <)
Coming(q) == FlattenSeq([i \in DOMAIN Ranks |-> GoingTo(Ranks[i], q)])
FirstNew(q) == IF input.stable /\ DOMAIN data[q].name # {} THEN Max(DOMAIN data[q].name) + 1 ELSE 0
\* old_to_new_vertex_map, at the process that has the vertex and at its old owner.
NewDescriptor_Kept(coming, x) == x
NewDescriptor(coming, x) ==
  IF Stays(x) THEN x
  ELSE LET q == Processor(x)
       IN [own |-> q, local |-> FirstNew(q) - 1 + (CHOOSE k \in DOMAIN coming[q] : coming[q][k] = x)]

Redistributed(q, coming, old_to_new) ==
  LET d == data[q]
      left == {x.local : x \in {x \in At(q) : Stays(x)}}
      new == [k \in DOMAIN coming |-> old_to_new[coming[k]].local]
      all == left \cup {new[k] : k \in DOMAIN new}
      stay(s) == SelectSeq(s, LAMBDA i : Stays(i.at))
      arrived == FlattenSeq([i \in DOMAIN Ranks |-> EdgesGoingTo(Ranks[i], q)])
  IN [stage |-> "again",
      name |-> [i \in all |-> IF i \in left THEN d.name[i]
                              ELSE NameOfVertex(coming[CHOOSE k \in DOMAIN new : new[k] = i])],
      out |-> [i \in all |-> IF i \in left THEN stay(d.out[i]) ELSE << >>],
      in |-> [i \in all |-> << >>],
      edges |-> SelectSeq(d.edges, LAMBDA x : Stays(x.s) /\ Stays(x.t)),
      known |-> << >>,
      got |-> [k \in DOMAIN arrived |->
                 [s |-> old_to_new[arrived[k].s], t |-> old_to_new[arrived[k].t], e |-> arrived[k].e]]]

AddedAgain(d, p) ==
  LET Adds(r, x) == LET new == lazy_add_edge(r.data, p, x.s, x.t, x.e) IN AndSends(new, r.sends)
  IN Loop(Adds, Then([d EXCEPT !.got = << >>], << >>), d.got)

-----------------------------------------------------------------------------
RunsGraph == Runs("adjacency_list")
graph_Work(p) ==
  /\ RunsGraph /\ Turn(p) /\ data[p].stage # "ask"
  /\ \E r \in {CASE data[p].stage = "build" -> initialize(data[p], p)
                 [] data[p].stage = "change" -> Changed(data[p], p)
                 [] data[p].stage = "again" -> AddedAgain(data[p], p)} :
       Works(p, r.data, r.sends, "sync")

graph_Receive == RunsGraph /\ Handles(graph_Handle)

graph_Ask == RunsGraph /\ data[0].stage = "ask" /\ Resumes(Asked)
graph_Round ==
  /\ RunsGraph /\ Quiet
  /\ \/ data[0].stage = "build" /\ Resumes([p \in Proc |-> [data[p] EXCEPT !.stage = "change"]])
     \/ /\ data[0].stage = "change" /\ input.move # input.owner
        /\ \E coming \in {[q \in Proc |-> Coming(q)]} :
           \E old_to_new \in {[x \in Everyone |-> NewDescriptor(coming, x)]} :
             Resumes([q \in Proc |-> Redistributed(q, coming[q], old_to_new)])
     \/ (data[0].stage = "again" \/ (data[0].stage = "change" /\ input.move = input.owner)) /\ Returns(data, << >>)

graph_Next == graph_Ask \/ (\E p \in Proc : graph_Work(p)) \/ graph_Receive \/ graph_Round

-----------------------------------------------------------------------------
IsGraph == input.algorithm \in {"adjacency_list", "named_graph"}
Count(s, test(_)) == Cardinality({k \in DOMAIN s : test(s[k])})
Toward(s, y) == Count(s, LAMBDA i : i.at = y)
\* Every edge is known at both of its ends, as often at one as at the other, and
\* an undirected one at one process in the list of edges.
EndsAgree ==
  IsGraph /\ done =>
    \A x, y \in Everyone :
      LET there == Toward(data[x.own].out[x.local], y) IN
      CASE DirectedS("directedS") -> TRUE
        [] DirectedS("bidirectionalS") -> there = Toward(data[y.own].in[y.local], x)
        [] DirectedS("undirectedS") ->
             /\ there = Toward(data[y.own].out[y.local], x)
             /\ there = SumFunction([p \in Proc |-> Count(data[p].edges, LAMBDA i : {i.s, i.t} = {x, y})])

\* The edges from u to v that are asked for, and those that the graph has.
Wanted(u, v) ==
  {<<u, k>> : k \in {k \in DOMAIN input.out[u] : input.out[u][k].to = v}}
    \cup {<<p, -k>> : <<p, k>> \in {c \in Proc \X (1 .. 2) : c[2] \in DOMAIN input.change[c[1]]
                                      /\ input.change[c[1]][c[2]] = [op |-> "add_edge", u |-> u, v |-> v]}}
Has(u, v) ==
  UNION {{i.e : i \in ToSet(data[x.own].out[x.local])} : x \in {x \in Everyone : NameOfVertex(x) = u}}
Untouched(u, v) ==
  \A p \in Proc : \A k \in DOMAIN input.change[p] :
    LET c == input.change[p][k] IN
    c.op = "add_edge" \/ (c.op = "remove_edge" /\ {c.u, c.v} # {u, v}) \/ (c.op = "clear_vertex" /\ c.u \notin {u, v})
\* The vertices that there should be: with names, those that are met.
Changes == UNION {ToSet(input.change[p]) : p \in Proc}
Mentioned ==
  IF input.algorithm = "adjacency_list" THEN Vertex
  ELSE {c.u : c \in Changes} \cup {c.v : c \in {c \in Changes : c.op = "add_edge"}}
\* Each vertex is once at the process it was moved to, an edge that nobody removes
\* is at its source, and edges lead to vertices.
NothingLost ==
  IsGraph /\ done =>
    /\ \A v \in Vertex : Cardinality({x \in Everyone : NameOfVertex(x) = v}) = (IF v \in Mentioned THEN 1 ELSE 0)
    /\ \A x \in Everyone : NameOfVertex(x) \in Vertex /\ input.move[NameOfVertex(x)] = x.own
    /\ \A x \in Everyone : \A i \in ToSet(data[x.own].out[x.local]) : i.at \in Everyone
    /\ \A u, v \in Vertex : Untouched(u, v) => Wanted(u, v) \subseteq Has(u, v)
=============================================================================
