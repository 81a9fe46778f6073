--------------------------- MODULE ShortestPaths ---------------------------
(***************************************************************************)
(* eager_dijkstra_shortest_paths, crauser_et_al_shortest_paths and         *)
(* delta_stepping_shortest_paths on directed graphs.                       *)
(*                                                                         *)
(* dist, pred and color are a process's view: its own vertices, and what   *)
(* it has cached of the others.  queue holds the own vertices that wait;   *)
(* for Crauser's criteria the three queues always hold the same vertices.  *)
(***************************************************************************)
EXTENDS BSP

Dijkstras == {"eager_dijkstra", "crauser_et_al"}
RunsDijkstra == ~done /\ input.algorithm \in Dijkstras
Eager == input.algorithm = "eager_dijkstra"

closed_plus(a, b) == IF MaxDist \in {a, b} THEN MaxDist ELSE a + b
Weights(u, v) == {input.out[u][k].w : k \in {k \in DOMAIN input.out[u] : input.out[u][k].to = v}}
MinOut(v) == MinOf({input.out[v][k].w : k \in DOMAIN input.out[v]})
MinIn(v) == LET all == UNION {Weights(u, v) : u \in Vertex} IN IF all = {} THEN 0 ELSE Min(all)

\* receive_update: what v's owner does with a distance, of itself or of another.
Accepts(d, p, from, v, x) ==
  x < d.dist[v] \/ (x = d.dist[v] /\ (Eager \/ from = p))
receive_update(d, p, from, m) ==
  LET known == IF m.dist <= d.dist[m.v] THEN [d EXCEPT !.pred[m.v] = m.pred] ELSE d
  IN IF Accepts(d, p, from, m.v, m.dist)
     THEN [known EXCEPT !.dist[m.v] = m.dist, !.queue = @ \cup {m.v}]
     ELSE known

\* push and update of the queue, and remote_update_set::update.
push(d, p, v) ==
  LET m == [v |-> v, dist |-> d.dist[v], pred |-> d.pred[v]]
  IN IF Own(p, v) THEN receive_update(d, p, p, m)
     ELSE [d EXCEPT !.updates[input.owner[v]] = Append(@, m)]

dijkstra_Start(p) ==
  push([dist |-> [v \in Vertex |-> IF v = input.s THEN 0 ELSE MaxDist],
        pred |-> [v \in Vertex |-> v],
        color |-> [v \in Vertex |-> IF v = input.s THEN "gray" ELSE "white"],
        queue |-> {}, updates |-> [q \in Proc |-> << >>],
        min_distance |-> 0, min_out_distance |-> 0], p, input.s)

-----------------------------------------------------------------------------
(* One vertex: breadth_first_search calls the visitor for its edges, and       *)
(* pushes each target whose color, as far as this process knows, is white.     *)

relax(d, u, v, w) ==
  IF closed_plus(d.dist[u], w) < d.dist[v]
  THEN [d EXCEPT !.dist[v] = closed_plus(d.dist[u], w), !.pred[v] = u]
  ELSE d

\* Eager Dijkstra relaxes every edge; the other only if the target is not black,
\* and an update is for targets already gray.
dijkstra_Edge(d, p, u, v, w) ==
  LET color == d.color[v]
      relaxed == IF Eager \/ color # "black" THEN relax(d, u, v, w) ELSE d
      updated == IF relaxed.dist[v] # d.dist[v] /\ (Eager \/ color = "gray")
                 THEN push(relaxed, p, v) ELSE relaxed
  IN IF color = "white" THEN push([updated EXCEPT !.color[v] = "gray"], p, v) ELSE updated

\* The vertices that has_suitable_vertex may find.
Lowest(d, cost(_)) == {u \in d.queue : \A v \in d.queue : cost(u) <= cost(v)}
Tops(d) == Lowest(d, LAMBDA v : d.dist[v])
InTops(d) == Lowest(d, LAMBDA v : closed_plus(d.dist[v], -MinIn(v)))
OutTops(d) == Lowest(d, LAMBDA v : closed_plus(d.dist[v], MinOut(v)))
Suitable_Any(d) == Tops(d)
Suitable(d) ==
  LET early == {v \in Tops(d) :
                  d.dist[v] <= IF Eager THEN Wrapped(d.min_distance + input.param) ELSE d.min_out_distance}
      late == {v \in InTops(d) : d.dist[v] - MinIn(v) <= d.min_distance}
  IN IF Eager \/ early # {} THEN early ELSE late

dijkstra_Visit(p) ==
  /\ RunsDijkstra /\ Turn(p)
  /\ \E u \in Suitable(data[p]) :
       LET popped == [data[p] EXCEPT !.queue = @ \ {u}]
           d == Loop(LAMBDA e, edge : dijkstra_Edge(e, p, u, edge.to, edge.w), popped, input.out[u])
       IN Works(p, [d EXCEPT !.color[u] = "black"], << >>, "work")

\* remote_update_set::synchronize
dijkstra_Synchronize(p) ==
  LET updates == data[p].updates
  IN /\ RunsDijkstra /\ Turn(p) /\ Suitable(data[p]) = {}
     /\ Works(p, [data[p] EXCEPT !.updates = [q \in Proc |-> << >>]],
              SetToSeq({[to |-> q, body |-> updates[q]] : q \in {q \in Proc : updates[q] # << >>}}), "sync")

handle_updates(d, p, from, updates) ==
  [data |-> Loop(LAMBDA e, m : receive_update(e, p, from, m), d, updates), sends |-> << >>]
dijkstra_Handle == RunsDijkstra /\ Handles(handle_updates)

\* all_reduce of the least distance, and of the least distance of a next vertex.
do_synchronize ==
  LET least == MinOf(UNION {{data[p].dist[v] : v \in Tops(data[p])} : p \in Proc})
      out == MinOf(UNION {{Wrapped(data[p].dist[v] + MinOut(v)) : v \in OutTops(data[p])} : p \in Proc})
  IN /\ RunsDijkstra /\ Quiet
     /\ IF least = MaxDist THEN Returns(data, << >>)
        ELSE Resumes([p \in Proc |-> [data[p] EXCEPT !.min_distance = least, !.min_out_distance = out]])

dijkstra_Next ==
  (\E p \in Proc : dijkstra_Visit(p) \/ dijkstra_Synchronize(p)) \/ dijkstra_Handle \/ do_synchronize

-----------------------------------------------------------------------------
(* Delta-stepping: own vertices wait in buckets of width delta; light edges    *)
(* are relaxed until the bucket stays empty, heavy ones once after that.       *)

Delta == input.param
Index == 0 .. MaxDist

\* delta_relax, for an own vertex: it moves to the bucket of its new distance.
Moved(d, v, x) ==
  LET kept == IF d.dist[v] # MaxDist /\ v \notin d.vertex_was_deleted
              THEN [d EXCEPT !.buckets[d.dist[v] \div Delta] = SelectSeq(@, LAMBDA u : u # v)]
              ELSE d
  IN [kept EXCEPT !.buckets[x \div Delta] = Append(@, v)]
delta_relax(d, p, u, v, x) ==
  CASE x >= d.dist[v] -> d
    [] x < d.dist[v] /\ Own(p, v) -> [Moved(d, v, x) EXCEPT !.pred[v] = u, !.dist[v] = x]
    [] OTHER -> [d EXCEPT !.dist[v] = x,
                   !.sends = Append(@, [to |-> input.owner[v], body |-> [v |-> v, u |-> u, x |-> x]])]

delta_Start(p) ==
  LET none == [dist |-> [v \in Vertex |-> MaxDist], pred |-> [v \in Vertex |-> v],
               buckets |-> [i \in Index |-> << >>], vertex_was_deleted |-> {},
               deleted_vertices |-> << >>, current_bucket |-> 0, stage |-> "start", sends |-> << >>]
  IN IF Own(p, input.s) THEN delta_relax(none, p, input.s, input.s, 0)
     ELSE [none EXCEPT !.dist[input.s] = 0]

RelaxEdges(d, p, u, which(_)) ==
  Loop(LAMBDA e, edge : IF which(edge.w) THEN delta_relax(e, p, u, edge.to, d.dist[u] + edge.w) ELSE e,
           d, input.out[u])

Bucket(d) == d.buckets[d.current_bucket]
RunsDelta(p, stage) == Runs("delta_stepping") /\ Turn(p) /\ data[p].stage = stage
Sends(p, d, next) == \E new \in {d} : Works(p, [new EXCEPT !.sends = << >>], new.sends, next)

delta_Begin(p) == RunsDelta(p, "start") /\ Sends(p, [data[p] EXCEPT !.stage = "find"], "sync")

\* The first vertex of the bucket, and its light edges.
delta_Light(p) ==
  /\ RunsDelta(p, "light") /\ Bucket(data[p]) # << >>
  /\ LET d == data[p]
         u == Head(Bucket(d))
         again == u \in d.vertex_was_deleted
         taken == [d EXCEPT !.buckets[d.current_bucket] = Tail(@),
                            !.vertex_was_deleted = @ \cup {u},
                            !.deleted_vertices = IF again THEN @ ELSE Append(@, u)]
     IN Sends(p, RelaxEdges(taken, p, u, LAMBDA w : w <= Delta), "work")
delta_LightEnd(p) ==
  RunsDelta(p, "light") /\ Bucket(data[p]) = << >> /\ Sends(p, data[p], "sync")

delta_Heavy(p) ==
  /\ RunsDelta(p, "heavy")
  /\ LET d == Loop(LAMBDA e, u : RelaxEdges(e, p, u, LAMBDA w : w > Delta),
                       data[p], data[p].deleted_vertices)
     IN Sends(p, [d EXCEPT !.current_bucket = @ + 1, !.stage = "find", !.deleted_vertices = << >>], "sync")

handle_msg_relax(d, p, from, m) ==
  LET new == delta_relax(d, p, m.u, m.v, m.x) IN [data |-> [new EXCEPT !.sends = << >>], sends |-> new.sends]
delta_Handle == Runs("delta_stepping") /\ Handles(handle_msg_relax)

\* The lowest bucket of all processes from the current one on, if there is one.
delta_Find ==
  LET found == {i \in Index : \E p \in Proc : i >= data[p].current_bucket /\ data[p].buckets[i] # << >>}
  IN /\ Runs("delta_stepping") /\ Quiet /\ \A p \in Proc : data[p].stage = "find"
     /\ IF found = {} THEN Returns(data, << >>)
        ELSE Resumes([p \in Proc |-> [data[p] EXCEPT !.current_bucket = Min(found), !.stage = "light"]])
delta_Again ==
  LET more == \E p \in Proc : Bucket(data[p]) # << >>
  IN /\ Runs("delta_stepping") /\ Quiet /\ \A p \in Proc : data[p].stage = "light"
     /\ Resumes([p \in Proc |-> [data[p] EXCEPT !.stage = IF more THEN "light" ELSE "heavy"]])

delta_Next ==
  \/ \E p \in Proc : delta_Begin(p) \/ delta_Light(p) \/ delta_LightEnd(p) \/ delta_Heavy(p)
  \/ delta_Handle \/ delta_Find \/ delta_Again

-----------------------------------------------------------------------------
\* The length of a shortest path from s, found edge by edge.
ShortestFrom(s) ==
  LET best[n \in Nat] ==
        IF n = 0 THEN [v \in Vertex |-> IF v = s THEN 0 ELSE MaxDist]
        ELSE LET known == best[n - 1] IN
             [v \in Vertex |->
               MinOf({known[v]} \cup UNION {{closed_plus(known[u], w) : w \in Weights(u, v)} : u \in Vertex})]
  IN best[Cardinality(Vertex)]

FindsPaths == input.algorithm \in Dijkstras \cup {"delta_stepping"}

\* When the search has ended every owner knows the length of the shortest path to
\* each of its vertices, and the predecessor of a vertex is the one before it.
ShortestPathsFound ==
  FindsPaths /\ done =>
    LET shortest == ShortestFrom(input.s) IN
    \A v \in Vertex :
      LET d == data[input.owner[v]]
          u == d.pred[v]
      IN /\ d.dist[v] = shortest[v]
         /\ IF v = input.s \/ d.dist[v] = MaxDist THEN u = v
            ELSE \E w \in Weights(u, v) : shortest[v] = shortest[u] + w
=============================================================================
