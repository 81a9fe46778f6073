----------------------------- MODULE NamedGraph -----------------------------
(***************************************************************************)
(* Vertices known by names: a hash gives the owner of a name               *)
(* (input.owner).  A request that needs a vertex elsewhere travels to the  *)
(* owner of the target, which turns the name into a vertex, and then to    *)
(* that of the source, which adds the edge; a vertex is made when its name *)
(* is met first.                                                           *)
(***************************************************************************)
EXTENDS AdjacencyList

named_Start(p) ==
  [stage |-> "change", name |-> << >>, out |-> << >>, in |-> << >>,
   edges |-> << >>, known |-> << >>, got |-> << >>]

\* add_vertex of the local graph: the vertex with this name, made if there is none.
Grown(f, i, x) == [j \in DOMAIN f \cup {i} |-> IF j = i THEN x ELSE f[j]]
WithName_Anew(d, v) ==
  LET i == Cardinality(DOMAIN d.name)
  IN [d EXCEPT !.name = Grown(@, i, v), !.out = Grown(@, i, << >>), !.in = Grown(@, i, << >>)]
WithName(d, v) ==
  LET i == Cardinality(DOMAIN d.name)
  IN IF \E j \in DOMAIN d.name : d.name[j] = v THEN d
     ELSE [d EXCEPT !.name = Grown(@, i, v), !.out = Grown(@, i, << >>), !.in = Grown(@, i, << >>)]
find_vertex(d, p, v) == [own |-> p, local |-> CHOOSE j \in DOMAIN d.name : d.name[j] = v]

named_distribution(v) == input.owner[v]

\* The destructor of lazy_add_vertex.
add_vertex(d, p, v) ==
  IF named_distribution(v) = p THEN Then(WithName(d, v), << >>)
  ELSE Then(d, To(named_distribution(v), [kind |-> "add_vertex_name", u |-> v]))

\* add_edge of two names, of a name and a vertex, and of a vertex and a name,
\* and the destructor of what they return.
add_edge_names(d, p, u, v, e) ==
  LET new == IF named_distribution(u) = p THEN WithName(d, u) ELSE d
      both == IF named_distribution(v) = p THEN WithName(new, v) ELSE new
      here(x) == find_vertex(both, p, x)
  IN CASE named_distribution(u) = p /\ named_distribution(v) = p -> lazy_add_edge(both, p, here(u), here(v), e)
       [] named_distribution(u) = p /\ named_distribution(v) # p ->
            Then(both, To(named_distribution(v), [kind |-> "vertex_name", u |-> here(u), v |-> v, e |-> e]))
       [] named_distribution(u) # p /\ named_distribution(v) = p ->
            Then(both, To(named_distribution(u), [kind |-> "name_vertex", u |-> u, v |-> here(v), e |-> e]))
       [] OTHER -> Then(d, To(named_distribution(v), [kind |-> "name_name", u |-> u, v |-> v, e |-> e]))

add_edge_name_vertex(d, p, u, v, e) ==
  IF named_distribution(u) = p
  THEN LET new == WithName(d, u) IN lazy_add_edge(new, p, find_vertex(new, p, u), v, e)
  ELSE Then(d, To(named_distribution(u), [kind |-> "name_vertex", u |-> u, v |-> v, e |-> e]))
add_edge_vertex_name(d, p, u, v, e) ==
  IF named_distribution(v) = p
  THEN LET new == WithName(d, v) IN lazy_add_edge(new, p, u, find_vertex(new, p, v), e)
  ELSE Then(d, To(named_distribution(v), [kind |-> "vertex_name", u |-> u, v |-> v, e |-> e]))

named_Handle(d, p, from, m) ==
  CASE m.kind = "add_vertex_name" -> add_vertex(d, p, m.u)
    [] m.kind = "name_name" -> add_edge_names(d, p, m.u, m.v, m.e)
    [] m.kind = "name_vertex" -> add_edge_name_vertex(d, p, m.u, m.v, m.e)
    [] m.kind = "vertex_name" -> add_edge_vertex_name(d, p, m.u, m.v, m.e)
    [] OTHER -> graph_Handle(d, p, from, m)

Named(d, p) ==
  LET Does(r, k) ==
        LET c == input.change[p][k]
            new == IF c.op = "add_vertex" THEN add_vertex(r.data, p, c.u)
                   ELSE add_edge_names(r.data, p, c.u, c.v, <<p, -k>>)
        IN AndSends(new, r.sends)
  IN Loop(Does, Then(d, << >>), [k \in DOMAIN input.change[p] |-> k])

RunsNamed == Runs("named_graph")
named_Next ==
  \/ \E p \in Proc : RunsNamed /\ Turn(p) /\ \E r \in {Named(data[p], p)} : Works(p, r.data, r.sends, "sync")
  \/ RunsNamed /\ Handles(named_Handle)
  \/ RunsNamed /\ Quiet /\ Returns(data, << >>)
=============================================================================
