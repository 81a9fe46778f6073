------------------------------ MODULE PageRank ------------------------------
(***************************************************************************)
(* page_rank: in each iteration every vertex gives a share of its rank to  *)
(* its neighbors.  What goes to vertices of other processes is summed up   *)
(* in ghost cells, which synchronize sends and empties; the owner adds it. *)
(* Two maps take turns as source and target.  Ranks are exact parts of     *)
(* WholeRank, and the damping is 1/2.                                          *)
(***************************************************************************)
EXTENDS BSP

PR == "page_rank"
\* 4 vertices of at most 3 out-edges, 3 iterations.
WholeRank == 4 * 12 ^ 3
Damped(x) == x \div 2
Iterations == input.param

\* rank[1] is rank_map, rank[2] is rank_map2.
pr_Start(p) ==
  [rank |-> << [v \in Vertex |-> IF Own(p, v) THEN WholeRank \div Cardinality(Vertex) ELSE 0], [v \in Vertex |-> 0] >>,
   to_map_2 |-> TRUE, left |-> Iterations]

From(d) == IF d.to_map_2 THEN 1 ELSE 2
Into(d) == IF d.to_map_2 THEN 2 ELSE 1

\* page_rank_step: own vertices begin with what is not damped, ghost cells with nothing.
page_rank_step(d, p) ==
  LET begun == [v \in Vertex |-> IF Own(p, v) THEN WholeRank - Damped(WholeRank) ELSE 0]
      Gives(to, u) ==
        Loop(LAMBDA e, edge : [e EXCEPT ![edge.to] = @ + Damped(d.rank[From(d)][u]) \div Len(input.out[u])], to, input.out[u])
  IN Loop(Gives, begun, SetToSortSeq(Local(p), <))

\* rank_accumulate_reducer
Accumulated(d, m) == [d EXCEPT !.rank[m.map][m.v] = @ + m.x]

Ghosts(p) == UNION {Targets(u) : u \in Local(p)} \ Local(p)
pr_Step(p) ==
  /\ Runs(PR) /\ Turn(p) /\ data[p].left > 0
  /\ \E to \in {page_rank_step(data[p], p)} :
       Works(p, [data[p] EXCEPT !.rank[Into(data[p])] = [v \in Vertex |-> IF Own(p, v) THEN to[v] ELSE 0],
                                !.to_map_2 = ~@, !.left = @ - 1],
             SetToSeq({[to |-> input.owner[v], body |-> [map |-> Into(data[p]), v |-> v, x |-> to[v]]] : v \in Ghosts(p)}), "sync")

pr_handle(d, p, from, m) == [data |-> Accumulated(d, m), sends |-> << >>]
pr_Handle == Runs(PR) /\ Handles(pr_handle)
pr_Again == Runs(PR) /\ Quiet /\ Resumes(data)

\* The ranks are in the map that would be the source of the next iteration.
Ranks_Of(d) == IF d.to_map_2 THEN d.rank[1] ELSE d.rank[2]
pr_End ==
  /\ Runs(PR) /\ \A p \in Proc : at[p] = "work" /\ data[p].left = 0
  /\ Returns(data, [v \in Vertex |-> Ranks_Of(data[input.owner[v]])[v]])

pr_Next == (\E p \in Proc : pr_Step(p)) \/ pr_Handle \/ pr_Again \/ pr_End

-----------------------------------------------------------------------------
\* The ranks of the iterations, of all vertices at once.
RankAfter ==
  LET rank[k \in Nat] ==
        IF k = 0 THEN [v \in Vertex |-> WholeRank \div Cardinality(Vertex)]
        ELSE LET known == rank[k - 1]
                 Share(u) == Damped(known[u]) \div Len(input.out[u])
             IN [v \in Vertex |-> WholeRank - Damped(WholeRank) + SumFunctionOnSet([u \in Vertex |-> IF v \in Targets(u) THEN Share(u) ELSE 0], Vertex)]
  IN rank[Iterations]
PageRankExact == input.algorithm = PR /\ done => result = RankAfter
=============================================================================
