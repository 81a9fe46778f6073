---------------------------- MODULE MCAlgorithms ----------------------------
EXTENDS Algorithms

Four == 0 .. 3
Three == 0 .. 2

Sorted(S) == SelectSeq(<<0, 1, 2, 3, 4>>, LAMBDA v : v \in S)
Owners == {o \in [Four -> 0 .. 1] : o[0] = 0}
\* A late visited message takes three processes.
ThreeOwners == {o \in [Four -> Three] : o[0] = 0 /\ o[1] = 1 /\ o[2] # 0}

\* Undirected graphs as sets of edges {u, v}.
Undirected(E) == [v \in Four |-> LET s == Sorted({u \in Four : u # v /\ {u, v} \in E})
                                 IN [k \in DOMAIN s |-> [to |-> s[k], w |-> 1]]]
Edges == {{0, 1}, {1, 2}, {2, 3}, {3, 0}, {0, 2}}

Call(name, owner, out, s, t, param) ==
  [algorithm |-> name, owner |-> owner, out |-> out, s |-> s, t |-> t, param |-> param]

OnUndirected(names, owners) ==
  {Call(a, o, Undirected(E), 0, 3, 1) : a \in names, o \in owners, E \in SUBSET Edges}

\* Directed graphs with weights 1 .. 3: a function from pairs to weights, 0 for no edge.
Pairs == {<<0, 1>>, <<0, 2>>, <<1, 2>>, <<2, 1>>, <<1, 3>>, <<2, 3>>}
Weighted(W) == [v \in Four |-> LET s == Sorted({u \in Four : <<v, u>> \in Pairs /\ W[<<v, u>>] # 0})
                               IN [k \in DOMAIN s |-> [to |-> s[k], w |-> W[<<v, s[k]>>]]]]
Weightings == {W \in [Pairs -> {0, 1, 3}] : W[<<0, 1>>] = 3 /\ W[<<1, 2>>] # W[<<2, 3>>] /\ W[<<1, 3>>] # 1}
OnDirected(names) ==
  {Call(a, o, Weighted(W), 0, 3, 2) : a \in names, o \in Owners, W \in Weightings}

\* Forests: where the edges of each vertex are stored, and how many processes there are.
Plain(W) == [v \in Four |-> LET s == Sorted({u \in Four : <<v, u>> \in DOMAIN W /\ W[<<v, u>>] # 0})
                            IN [k \in DOMAIN s |-> [to |-> s[k], w |-> W[<<v, s[k]>>]]]]
CompleteGraph == {<<0, 1>>, <<0, 2>>, <<1, 2>>, <<1, 3>>, <<2, 3>>, <<3, 0>>}
ForestWeights == {W \in [CompleteGraph -> 0 .. 2] : W[<<0, 1>>] = 1 /\ W[<<0, 2>>] # 0 /\ W[<<1, 2>>] # 0 /\ W[<<1, 3>>] # 1}
Places == {[place |-> o, processes |-> 4] : o \in {<<0, 1, 2, 3>>, <<2, 3, 0, 1>>}}
            \cup {[place |-> <<1, 1, 0, 1>>, processes |-> 2], [place |-> <<1, 0, 2, 2>>, processes |-> 3]}
OnPlaces(names) ==
  {Call(a, [v \in Four |-> 0], Plain(W), 0, 3, 1) @@ [place |-> [v \in Four |-> o.place[v + 1]], processes |-> o.processes] :
     a \in names, W \in ForestWeights, o \in Places}

\* Betweenness: from two of the sources in a directed graph, or from all in an undirected one.
TwoOwners == {(0 :> 0) @@ (1 :> 1) @@ (2 :> 0) @@ (3 :> 1), (0 :> 0) @@ (1 :> 1) @@ (2 :> 1) @@ (3 :> 0)}
ManyShortest == {W \in [Pairs -> 0 .. 2] : W[<<0, 1>>] = 1 /\ W[<<0, 2>>] # 0 /\ W[<<1, 2>>] # 2 /\ W[<<2, 1>>] # 2 /\ W[<<1, 3>>] = 2 /\ W[<<2, 3>>] # 0}
OnSources(names, owners, Ws, Es) ==
  {Call(a, o, Weighted(W), 0, 3, 1) @@ [sources |-> <<1, 0>>, undirected |-> FALSE] : a \in names, o \in owners, W \in Ws}
    \cup {Call(a, o, Undirected(E), 0, 3, 1) @@ [sources |-> << >>, undirected |-> TRUE] : a \in names, o \in owners, E \in Es}

\* connected_components_ps needs a vertex with an edge at every process.
Busy(call) == \A p \in Three : \E v \in Four : call.owner[v] = p /\ call.out[v] # << >>
\* hohberg_biconnected_components does not end where a vertex has no edge.
NoIsolated(call) == \A v \in Four : call.out[v] # << >>

\* Strong components: 0 with a set before it and one after it, the sets at three processes.
\* One vertex at least has edges of both kinds.
Five == 0 .. 4
MaybeEdges == {<<2, 1>>, <<4, 3>>, <<1, 0>>, <<0, 3>>, <<1, 4>>, <<2, 4>>, <<0, 1>>}
Directed(E) == [v \in Five |-> LET s == Sorted({u \in Five : <<v, u>> \in E})
                               IN [k \in DOMAIN s |-> [to |-> s[k], w |-> 1]]]
InBoth(E) == \E e, f \in E : e[2] = f[1]
Graphs5 == {E \in {E \cup {<<1, 2>>, <<3, 4>>} : E \in SUBSET MaybeEdges} : InBoth(E)}
OnSets(o, param, graphs) == {Call(SCC, [v \in Five |-> o[v + 1]], Directed(E), 0, 3, param) : E \in graphs}

\* Changes of a distributed graph: one at each of two processes.  0 and 2 are at
\* process 0, 1 at 1 and 3 at 2; a shift moves all but 0.
ListOwner == (0 :> 0) @@ (1 :> 1) @@ (2 :> 0) @@ (3 :> 2)
Shifted == (0 :> 0) @@ (1 :> 2) @@ (2 :> 2) @@ (3 :> 2)
Does(op, u, v) == <<[op |-> op, u |-> u, v |-> v]>>
OneEach(S0, S1) == {(0 :> c0) @@ (1 :> c1) @@ (2 :> << >>) : c0 \in S0, c1 \in S1}
ToList(E) == [v \in Four |-> LET s == Sorted({u \in Four : <<v, u>> \in E})
                             IN [k \in DOMAIN s |-> [to |-> s[k], w |-> 1]]]
OnList(name, directed, E, changes, moves, stables) ==
  {Call(name, ListOwner, ToList(E), 0, 3, 1) @@ [change |-> c, move |-> m, stable |-> s, directed |-> directed] :
     c \in changes, m \in moves, s \in stables}

Whole(p) == {<< >>, Does("remove_edge_if", p, p)}
AtEnds == OneEach(Whole(0) \cup {Does("add_edge", 3, 0), Does("remove_edge", 0, 1), Does("remove_edge", 2, 3)},
                  Whole(1) \cup {Does("add_edge", 2, 1), Does("remove_edge", 1, 3)})
BothWays == OneEach(Whole(0) \cup {Does("add_edge", 3, 0), Does("remove_edge", 1, 0), Does("clear_vertex", 2, 2)},
                    Whole(1) \cup {Does("add_edge", 2, 1), Does("remove_edge", 0, 1), Does("clear_vertex", 1, 1)})
\* At most one in-edge of a vertex: with more, remove_in_edge takes another.
OneInEdge == OneEach(Whole(0) \cup {Does("add_edge", 3, 0), Does("remove_edge", 0, 1), Does("remove_edge", 0, 2), Does("clear_vertex", 2, 2)},
                     Whole(1) \cup {Does("remove_edge", 0, 1), Does("clear_vertex", 1, 1)})
Square == {<<0, 1>>, <<0, 2>>, <<2, 3>>, <<1, 3>>}
Lists == OnList("adjacency_list", "directedS", Square, AtEnds, {ListOwner, Shifted}, BOOLEAN)
           \cup OnList("adjacency_list", "undirectedS", Square, BothWays, {ListOwner, Shifted}, BOOLEAN)
           \cup OnList("adjacency_list", "bidirectionalS", {<<0, 1>>, <<0, 2>>, <<2, 3>>}, OneInEdge, {ListOwner}, BOOLEAN)
\* Two in-edges of vertex 2.
TwoInEdges == OnList("adjacency_list", "bidirectionalS", {<<0, 2>>, <<1, 2>>, <<3, 2>>}, OneEach({Does("remove_edge", 1, 2)}, Whole(1)),
                     {ListOwner}, {FALSE})

Names == {Does("add_vertex", 3, 3), Does("add_edge", 0, 2), Does("add_edge", 0, 1), Does("add_edge", 1, 2), Does("add_edge", 2, 3)}
Named2 == OneEach(Names \cup {a \o b : a \in Names, b \in Names}, Names)
NamedLists == OnList("named_graph", "undirectedS", {}, Named2, {ListOwner}, {FALSE})
                \cup OnList("named_graph", "bidirectionalS", {}, Named2, {ListOwner}, {FALSE})

\* Distributions that place every element: blocks with something in each, whole rounds of cyclic
\* blocks, tables with as many rows of blocks as columns.
Orders(n) == Permutations(0 .. n - 1)
Mappings == Orders(3)
Placed(kind, mappings) ==
  {[algorithm |-> DIST, owner |-> [v \in Four |-> 0], out |-> [v \in Four |-> << >>], mapping |-> m] @@ kind : m \in mappings}
Same == {[q \in Three |-> q]}
Distributed ==
  UNION {Placed([kind |-> "block", n |-> n], Mappings) : n \in 0 .. 7}
    \cup UNION {Placed([kind |-> "uneven_block", sizes |-> s], Same) : s \in [Three -> 1 .. 2]}
    \cup UNION {Placed([kind |-> "oned_block_cyclic", size |-> s, n |-> 3 * s * k], Same) : s \in 1 .. 2, k \in 1 .. 2}
    \cup UNION {Placed([kind |-> "twod", n |-> 4 * r * c, table |-> [rows |-> r, columns |-> c, data_columns_per_row |-> 2 * c, order |-> o]], Same) :
                  r \in 1 .. 2, c \in 1 .. 2, o \in Orders(4)}
    \cup UNION {Placed([kind |-> "random_distribution", n |-> 4, local_to_global |-> o], Same) : o \in Orders(4)}

\* Graphs for page rank: cycles, vertices without out-edges, and several edges to another process.
OnRanks == {Call(PR, o, Weighted(W), 0, 3, k) : o \in TwoOwners, k \in 0 .. 3, W \in {W \in ManyShortest : W[<<0, 2>>] = 1 /\ W[<<2, 3>>] = 1}}

All == OnUndirected({"st_connected", "breadth_first_search", "boman_et_al_graph_coloring"}, Owners)
         \cup OnUndirected({"tsin_depth_first_visit"}, ThreeOwners)
         \cup OnUndirected({"connected_components"}, ThreeOwners)
         \cup {call \in OnUndirected({"connected_components_ps"}, ThreeOwners) : Busy(call)}
         \cup {call \in OnUndirected({"hohberg_biconnected_components"}, ThreeOwners) : NoIsolated(call)}
         \cup OnDirected({"eager_dijkstra", "crauser_et_al", "delta_stepping"})
         \cup OnPlaces(Forests)
         \cup OnSources({BC}, TwoOwners, ManyShortest, {E \in SUBSET Edges : {0, 1} \in E /\ {2, 3} \in E})
         \cup OnSources({ND}, {ListOwner}, {W \in ManyShortest : W[<<0, 2>>] = 1}, {{{0, 1}, {1, 2}, {2, 3}}, Edges \ {{0, 2}}})
         \cup OnSets(<<0, 0, 1, 1, 2>>, 20, {E \in Graphs5 : <<0, 1>> \notin E}) \cup OnSets(<<2, 0, 1, 1, 2>>, 1, {E \in Graphs5 : <<1, 4>> \in E})
         \cup Lists \cup NamedLists \cup Distributed \cup OnRanks
=============================================================================
