---------------------------- MODULE SpanningTree ----------------------------
(***************************************************************************)
(* Dehne and Goetz's minimum spanning forests.  Every process knows all    *)
(* vertices and the edges it stores.  A Boruvka step joins each            *)
(* supervertex to another by the lightest edge that any process has for    *)
(* it; a merging step sends the edges of two thirds of the processes to    *)
(* the others, which keep a forest of them and go on.  The four algorithms *)
(* are mixtures of these.                                                  *)
(*                                                                         *)
(* Processes meet only in all_reduce and after synchronize, where nothing  *)
(* depends on the order of messages, so that a superstep of all of them is *)
(* one step.  An edge is <<v, k>>, the k-th of vertex v; its ends are      *)
(* taken through rep, the disjoint sets (which vertex represents a set     *)
(* depends on ranks in the code, and makes no difference).                 *)
(***************************************************************************)
EXTENDS BSP

Forests == {"dense_boruvka", "merge_local", "boruvka_then_merge", "boruvka_mixed_merge"}
RunsMST == ~done /\ input.algorithm \in Forests
Group(n) == 0 .. n - 1

StoredAt(p) == FlattenSeq([v \in 1 .. Cardinality(Vertex) |->
                 IF input.place[v - 1] = p THEN [k \in DOMAIN input.out[v - 1] |-> <<v - 1, k>>] ELSE << >>])
weight(e) == input.out[e[1]][e[2]].w
source(e) == e[1]
target(e) == input.out[e[1]][e[2]].to

link(rep, u, v) == [x \in Vertex |-> IF rep[x] = u THEN v ELSE rep[x]]
has_same_supervertex(rep, e) == rep[source(e)] = rep[target(e)]

-----------------------------------------------------------------------------
(* Kruskal's algorithm over a list in order of weight. *)

Tried(k, e) ==
  IF has_same_supervertex(k.rep, e) THEN k
  ELSE [rep |-> link(k.rep, k.rep[source(e)], k.rep[target(e)]), kept |-> Append(k.kept, e)]
sorted_mutating_kruskal(rep, edge_list) == Loop(Tried, [rep |-> rep, kept |-> << >>], edge_list).kept

\* inplace_merge: after those that weigh the same.
Inserted(s, e) ==
  LET n == Cardinality({k \in DOMAIN s : weight(s[k]) <= weight(e)})
  IN SubSeq(s, 1, n) \o <<e>> \o SubSeq(s, n + 1, Len(s))
MergedEdges(s, t) == Loop(Inserted, s, t)
kruskal_minimum_spanning_tree(p) == sorted_mutating_kruskal([v \in Vertex |-> v], MergedEdges(<< >>, StoredAt(p)))

mst_Start(p) ==
  [edge_list |-> kruskal_minimum_spanning_tree(p), out |-> << >>, rep |-> [v \in Vertex |-> v],
   supervertices |-> SetToSortSeq(Vertex, <), pg |-> input.processes, have_msf |-> FALSE, stuck |-> FALSE]

mst_Init ==
  /\ input.algorithm \in Forests
  /\ data = [p \in Group(input.processes) |-> mst_Start(p)]
  /\ at = [p \in Proc |-> "work"] /\ mail = EmptyMail /\ done = FALSE /\ result = << >>

\* The size of the process group that process 0 is in.
pg == data[0].pg

-----------------------------------------------------------------------------
(* boruvka_merge_step *)

\* Of the edges of a supervertex the last of the lightest, by process.
Lighter(x, e) == IF x = << >> \/ weight(x) >= weight(e) THEN e ELSE x
Considered(best, e) ==
  LET rep == data[0].rep IN
  IF has_same_supervertex(rep, e) THEN best
  ELSE [best EXCEPT ![rep[source(e)]] = Lighter(@, e), ![rep[target(e)]] = Lighter(@, e)]
candidate_edges ==
  LET supervertices == data[0].supervertices
      known == FlattenSeq([k \in 1 .. pg |-> data[k - 1].edge_list])
      best == Loop(Considered, [v \in Vertex |-> << >>], known)
  IN SelectSeq([i \in DOMAIN supervertices |-> best[supervertices[i]]], LAMBDA e : e # << >>)

\* An edge is emitted unless those before it have joined its ends.
Emitted_Always(d, e) ==
  [d EXCEPT !.rep = link(@, @[source(e)], @[target(e)]), !.out = Append(@, e)]
Emitted(d, e) ==
  IF has_same_supervertex(d.rep, e) THEN d
  ELSE [d EXCEPT !.rep = link(@, @[source(e)], @[target(e)]), !.out = Append(@, e)]
Pruned(d) ==
  [d EXCEPT !.edge_list = SelectSeq(@, LAMBDA e : ~has_same_supervertex(d.rep, e)),
            !.supervertices = SelectSeq(@, LAMBDA s : d.rep[s] = s),
            !.stuck = \A s \in ToSet(d.supervertices) : d.rep[s] = s,
            !.have_msf = input.algorithm = "boruvka_mixed_merge"]

\* num_vertices / (log_3 p)^2, which is not finite for one process.
target_supervertices ==
  LET n == Cardinality(Vertex) IN
  CASE input.processes = 2 -> (n * 1000) \div 398
    [] input.processes = 3 -> n
    [] input.processes = 4 -> (n * 1000) \div 1593

DoesBoruvka ==
  /\ ~data[0].stuck
  /\ \/ input.algorithm = "dense_boruvka"
     \/ input.algorithm = "boruvka_then_merge" /\ ~data[0].have_msf /\ Len(data[0].supervertices) > target_supervertices
     \/ input.algorithm = "boruvka_mixed_merge" /\ pg > 1 /\ ~data[0].have_msf

Advances(new) == data' = new /\ UNCHANGED <<input, at, mail, done, result>>
\* In boruvka_mixed_merge have_msf tells that a merging step is next.
mst_Boruvka ==
  /\ RunsMST /\ DoesBoruvka
  /\ \E candidates \in {candidate_edges} :
     \E joined \in {[p \in Group(pg) |-> Loop(Emitted, data[p], candidates)]} :
       Advances([p \in DOMAIN data |-> IF p \in Group(pg) THEN Pruned(joined[p]) ELSE data[p]])

-----------------------------------------------------------------------------
(* merge_local_minimum_spanning_trees_step *)

tree_factor == 3
procs_left == (pg + tree_factor - 1) \div tree_factor

\* What a process sends: its list, or the forest in it.
Outgoing(d) ==
  IF input.algorithm = "boruvka_then_merge" /\ ~d.have_msf THEN sorted_mutating_kruskal(d.rep, d.edge_list) ELSE d.edge_list
Children(p) == {q \in Group(pg) \ Group(procs_left) : q % procs_left = p}
Gained(lists, p) == FoldLeft(LAMBDA s, q : MergedEdges(s, lists[q]), lists[p], SetToSortSeq(Children(p), <))
Merged_step(p, gained) ==
  [data[p] EXCEPT !.edge_list = sorted_mutating_kruskal(data[p].rep, gained), !.pg = procs_left,
                  !.have_msf = input.algorithm # "boruvka_mixed_merge"]

DoesMerge ==
  /\ pg > 1
  /\ \/ input.algorithm = "merge_local"
     \/ input.algorithm = "boruvka_then_merge" /\ ~DoesBoruvka /\ ~data[0].stuck
     \/ input.algorithm = "boruvka_mixed_merge" /\ data[0].have_msf /\ ~data[0].stuck
mst_Merge ==
  /\ RunsMST /\ DoesMerge
  /\ \E lists \in {[p \in Group(pg) |-> Outgoing(data[p])]} :
     \E gained \in {[p \in Group(procs_left) |-> Gained(lists, p)]} :
       Advances([p \in DOMAIN data |->
         IF p \in Group(procs_left) THEN Merged_step(p, gained[p])
         ELSE IF p \in Group(pg) THEN [data[p] EXCEPT !.pg = 0] ELSE data[p]])

\* Process 0 emits the edges that are left, unless the last Boruvka step found none.
mst_Return ==
  /\ RunsMST /\ ~DoesBoruvka /\ ~DoesMerge
  /\ Returns(IF data[0].stuck THEN data ELSE [data EXCEPT ![0].out = @ \o data[0].edge_list], << >>)

mst_Next == mst_Boruvka \/ mst_Merge \/ mst_Return

-----------------------------------------------------------------------------
EdgesOfGraph == UNION {{<<v, k>> : k \in DOMAIN input.out[v]} : v \in Vertex}
EndsOf(e) == {source(e), target(e)}
Together(S, u) ==
  LET within[n \in Nat] ==
        IF n = 0 THEN {u}
        ELSE LET known == within[n - 1]
             IN {v \in Vertex : v \in known \/ \E e \in S : v \in EndsOf(e) /\ EndsOf(e) \cap known # {}}
  IN within[Cardinality(Vertex)]

\* What process 0 emits is a forest, has each edge once, and joins the ends of every
\* other edge by edges that are not heavier; dense_boruvka emits it at every process.
MinimumForest ==
  input.algorithm \in Forests /\ done =>
    LET F == ToSet(data[0].out) IN
    /\ Len(data[0].out) = Cardinality(F)
    /\ Cardinality(F) + Cardinality({Together(F, u) : u \in Vertex}) = Cardinality(Vertex)
    /\ \A e \in EdgesOfGraph : target(e) \in Together({f \in F : weight(f) <= weight(e)}, source(e))
    /\ input.algorithm = "dense_boruvka" => \A p \in DOMAIN data : data[p].out = data[0].out
=============================================================================
