----------------------------- MODULE Betweenness -----------------------------
(***************************************************************************)
(* brandes_betweenness_centrality.  For every source in turn: a            *)
(* delta-stepping search that keeps all predecessors on shortest paths     *)
(* (incoming); then the number of shortest paths goes down these edges     *)
(* through a distributed queue; then the dependencies come up again        *)
(* through another, a vertex being done when all that depend on it are.    *)
(* In the other variant every process has the whole graph and a part of    *)
(* the sources, and the sums are added up.                                 *)
(*                                                                         *)
(* Centralities are counted in parts of Unit, which every number of paths  *)
(* of the small graphs divides.  Outside the search only a vertex's owner  *)
(* reads its dependency; path counts of other processes' vertices are      *)
(* asked for once, when they are final.                                    *)
(***************************************************************************)
EXTENDS ShortestPaths

Unit == 72

BC == "brandes_betweenness_centrality"
RunsBC(p, stage) == Runs(BC) /\ Turn(p) /\ data[p].stage = stage
AllAt(stage) == Runs(BC) /\ Quiet /\ \A p \in Proc : data[p].stage = stage

Sources == IF input.sources = << >> THEN SetToSortSeq(Vertex, <) ELSE input.sources

\* As delta_relax, but a path as short as the known ones counts, too.
bc_relax(d, p, u, v, x) ==
  LET closer == [Moved(d, v, x) EXCEPT !.dist[v] = x, !.incoming[v] = IF u = v THEN @ ELSE <<u>>]
      message == [kind |-> "relax", v |-> v, u |-> u, x |-> x]
  IN CASE x > d.dist[v] -> d
       [] x <= d.dist[v] /\ ~Own(p, v) ->
            [d EXCEPT !.dist[v] = x, !.sends = Append(@, [to |-> input.owner[v], body |-> message])]
       [] x < d.dist[v] /\ Own(p, v) -> closer
       [] x = d.dist[v] /\ Own(p, v) ->
            IF u = v \/ u \in ToSet(d.incoming[v]) THEN d ELSE [d EXCEPT !.incoming[v] = Append(@, u)]

\* do_brandes_sssp for the first of the sources left.
bc_Source(p, sources, centrality) ==
  LET s == Head(sources)
      none == [dist |-> [v \in Vertex |-> MaxDist], incoming |-> [v \in Vertex |-> << >>],
               buckets |-> [i \in Index |-> << >>], vertex_was_deleted |-> {}, deleted_vertices |-> << >>,
               current_bucket |-> 0, stage |-> "start", sends |-> << >>,
               path_count |-> [v \in Vertex |-> 0], incoming_edge_count |-> [v \in Vertex |-> 0],
               outgoing |-> [v \in Vertex |-> << >>], dependency |-> [v \in Vertex |-> 0],
               dependency_count |-> [v \in Vertex |-> 0],
               buffer |-> << >>, outgoing_buffers |-> [q \in Proc |-> << >>],
               sources |-> sources, centrality |-> centrality]
  IN IF Own(p, s) THEN bc_relax(none, p, s, s, 0) ELSE [none EXCEPT !.dist[s] = 0]
bc_Start(p) == bc_Source(p, Sources, [v \in Vertex |-> 0])
source_of(d) == Head(d.sources)

-----------------------------------------------------------------------------
(* The search *)

bc_Begin(p) == RunsBC(p, "start") /\ Sends(p, [data[p] EXCEPT !.stage = "find"], "sync")

bc_Edges(d, p, u, which(_)) ==
  Loop(LAMBDA e, edge : IF which(edge.w) THEN bc_relax(e, p, u, edge.to, d.dist[u] + edge.w) ELSE e, d, input.out[u])
bc_Light(p) ==
  /\ RunsBC(p, "light") /\ Bucket(data[p]) # << >>
  /\ LET d == data[p]
         u == Head(Bucket(d))
         taken == [d EXCEPT !.buckets[d.current_bucket] = Tail(@),
                            !.vertex_was_deleted = @ \cup {u},
                            !.deleted_vertices = IF u \in d.vertex_was_deleted THEN @ ELSE Append(@, u)]
     IN Sends(p, bc_Edges(taken, p, u, LAMBDA w : w <= Delta), "work")
bc_LightEnd(p) == RunsBC(p, "light") /\ Bucket(data[p]) = << >> /\ Sends(p, data[p], "sync")
bc_Heavy(p) ==
  /\ RunsBC(p, "heavy")
  /\ LET d == Loop(LAMBDA e, u : bc_Edges(e, p, u, LAMBDA w : w > Delta), data[p], data[p].deleted_vertices)
     IN Sends(p, [d EXCEPT !.current_bucket = @ + 1, !.stage = "find", !.deleted_vertices = << >>], "sync")

bc_Find ==
  LET found == {i \in Index : \E p \in Proc : i >= data[p].current_bucket /\ data[p].buckets[i] # << >>}
  IN /\ AllAt("find")
     /\ Resumes([p \in Proc |->
          IF found = {} THEN [data[p] EXCEPT !.stage = "mark"]
          ELSE [data[p] EXCEPT !.current_bucket = Min(found), !.stage = "light"]])
bc_Again ==
  LET more == \E p \in Proc : Bucket(data[p]) # << >>
  IN AllAt("light") /\ Resumes([p \in Proc |-> [data[p] EXCEPT !.stage = IF more THEN "light" ELSE "heavy"]])

-----------------------------------------------------------------------------
(* Path counts *)

\* put of a distributed map whose reduction appends, or adds.
bc_Put(d, p, map, v, x) ==
  LET message == [kind |-> map, v |-> v, x |-> x]
  IN CASE Own(p, v) /\ map = "outgoing" -> [d EXCEPT !.outgoing[v] = IF x \in ToSet(@) THEN @ ELSE Append(@, x)]
       [] Own(p, v) /\ map = "dependency" -> [d EXCEPT !.dependency[v] = @ + x]
       [] Own(p, v) /\ map = "dependency_count" -> [d EXCEPT !.dependency_count[v] = @ + x]
       [] OTHER -> [d EXCEPT !.sends = Append(@, [to |-> input.owner[v], body |-> message])]
bc_push(d, v, x) == [d EXCEPT !.outgoing_buffers[input.owner[v]] = Append(@, x)]

\* The predecessors of each own vertex learn that it comes after them.
Marked(d, p, v) == Loop(LAMBDA e, u : bc_Put(e, p, "outgoing", u, v), d, d.incoming[v])
bc_Mark(p) ==
  /\ RunsBC(p, "mark")
  /\ LET s == source_of(data[p])
         d == [data[p] EXCEPT !.incoming[s] = << >>]
         counted == [d EXCEPT !.incoming_edge_count = [v \in Vertex |-> IF v = s THEN 1 ELSE Len(d.incoming[v])]]
     IN Sends(p, Loop(LAMBDA e, v : Marked(e, p, v), counted, SetToSortSeq(Local(p), <)), "sync")
bc_Marked ==
  /\ AllAt("mark")
  /\ Resumes([p \in Proc |->
       LET s == source_of(data[p])
           d == [data[p] EXCEPT !.stage = "paths"]
       IN IF Own(p, s) THEN bc_push(d, s, [v |-> s, n |-> 1]) ELSE d])

\* A vertex passes its count on when all its predecessors have passed theirs.
Counted_paths(d, m) ==
  LET e == [d EXCEPT !.path_count[m.v] = @ + m.n, !.incoming_edge_count[m.v] = @ - 1]
  IN IF e.incoming_edge_count[m.v] # 0 THEN e
     ELSE Loop(LAMBDA f, w : bc_push(f, w, [v |-> w, n |-> e.path_count[m.v]]), e, e.outgoing[m.v])

bc_Counts(p) ==
  /\ RunsBC(p, "count")
  /\ LET d == data[p]
         Counts(e, v) == Loop(LAMBDA f, u : bc_Put(f, p, "dependency_count", u, 1), e, d.incoming[v])
     IN Sends(p, Loop(Counts, d, SetToSortSeq({v \in Local(p) : d.dist[v] < MaxDist}, <)), "sync")

-----------------------------------------------------------------------------
(* Dependencies *)

\* The path counts asked for have come; vertices that nobody depends on begin.
Begun(p) ==
  LET d == [data[p] EXCEPT !.stage = "dependencies",
                           !.path_count = [v \in Vertex |-> data[input.owner[v]].path_count[v]]]
  IN Loop(LAMBDA e, v : bc_push(e, v, [v |-> v]), d,
          SetToSortSeq({v \in Local(p) : d.dist[v] < MaxDist /\ d.dependency_count[v] = 0}, <))
bc_Begun == AllAt("count") /\ Resumes([p \in Proc |-> Begun(p)])

Shares(d, p, w) ==
  Loop(LAMBDA e, v : bc_Put(e, p, "dependency", v, (d.path_count[v] * (Unit + d.dependency[w])) \div d.path_count[w]),
       d, d.incoming[w])
Depended_AtOnce(d, p, w) ==
  LET e == Shares(d, p, w)
  IN Loop(LAMBDA f, v : bc_push(f, v, [v |-> v]),
          IF w = source_of(d) THEN e ELSE [e EXCEPT !.centrality[w] = @ + d.dependency[w]], d.incoming[w])
Depended(d, p, w) ==
  LET left == IF d.dependency_count[w] = 0 THEN 0 ELSE d.dependency_count[w] - 1
      e == Shares(d, p, w)
      shared == [e EXCEPT !.dependency_count[w] = left,
                          !.centrality[w] = IF w = source_of(d) THEN @ ELSE @ + d.dependency[w]]
  IN IF left # 0 THEN [d EXCEPT !.dependency_count[w] = left]
     ELSE Loop(LAMBDA f, v : bc_push(f, v, [v |-> v]), shared, d.incoming[w])

-----------------------------------------------------------------------------
(* The queue of either phase *)

bc_Pop(p) ==
  /\ Runs(BC) /\ Turn(p) /\ data[p].buffer # << >>
  /\ LET taken == [data[p] EXCEPT !.buffer = << >>]
     IN Sends(p, IF taken.stage = "paths" THEN Loop(Counted_paths, taken, data[p].buffer)
                 ELSE Loop(LAMBDA d, m : Depended(d, p, m.v), taken, data[p].buffer), "work")
bc_Synchronize(p) ==
  LET out == data[p].outgoing_buffers
      full == {q \in Proc \ {p} : out[q] # << >>}
  IN /\ (RunsBC(p, "paths") \/ RunsBC(p, "dependencies")) /\ data[p].buffer = << >>
     /\ Works(p, [data[p] EXCEPT !.buffer = out[p], !.outgoing_buffers = [q \in Proc |-> << >>]],
              SetToSeq({[to |-> q, body |-> [kind |-> "multipush", values |-> out[q]]] : q \in full}), "sync")

Waits == \E p \in Proc : data[p].buffer # << >>
bc_Continue == (AllAt("paths") \/ AllAt("dependencies")) /\ Waits /\ Resumes(data)
bc_PathsEnd == AllAt("paths") /\ ~Waits /\ Resumes([p \in Proc |-> [data[p] EXCEPT !.stage = "count"]])
bc_SourceEnd ==
  /\ AllAt("dependencies") /\ ~Waits
  /\ LET half == [p \in Proc |-> [data[p] EXCEPT !.centrality = [v \in Vertex |-> @[v] \div 2]]]
     IN IF Len(data[0].sources) > 1
        THEN Resumes([p \in Proc |-> bc_Source(p, Tail(data[p].sources), data[p].centrality)])
        ELSE Returns(IF input.undirected THEN half ELSE data, << >>)

bc_handle(d, p, from, m) ==
  LET new == CASE m.kind = "relax" -> bc_relax(d, p, m.u, m.v, m.x)
               [] m.kind = "multipush" -> [d EXCEPT !.buffer = @ \o m.values]
               [] OTHER -> bc_Put(d, p, m.kind, m.v, m.x)
  IN [data |-> [new EXCEPT !.sends = << >>], sends |-> new.sends]
bc_Handle == Runs(BC) /\ Handles(bc_handle)

bc_Next ==
  \/ \E p \in Proc : bc_Begin(p) \/ bc_Light(p) \/ bc_LightEnd(p) \/ bc_Heavy(p) \/ bc_Mark(p) \/ bc_Counts(p) \/ bc_Pop(p) \/ bc_Synchronize(p)
  \/ bc_Handle \/ bc_Find \/ bc_Again \/ bc_Marked \/ bc_Continue \/ bc_PathsEnd \/ bc_Begun \/ bc_SourceEnd

-----------------------------------------------------------------------------
(* Every process with the whole graph *)

ND == "non_distributed_brandes_betweenness_centrality"

\* What a sequential search returns: the edges of shortest paths, and their number.
Predecessors(d, v) == {u \in Vertex \ {v} : d[u] < MaxDist /\ \E w \in Weights(u, v) : d[u] + w = d[v]}
PathsFrom(s, d) ==
  LET count[v \in Vertex] == IF v = s THEN 1 ELSE MapThenSumSet(LAMBDA u : count[u], Predecessors(d, v))
  IN [v \in Vertex |-> count[v]]

\* The loop over the vertices from the farthest one; d and n are what the search found.
do_sequential_brandes_sssp(centrality, s, d, n) ==
  LET farthest_first == SetToSortSeq({v \in Vertex : d[v] < MaxDist}, LAMBDA a, b : d[a] > d[b] \/ (d[a] = d[b] /\ a < b))
      Up(e, w) ==
        [dependency |-> [v \in Vertex |-> e.dependency[v] +
           IF w # s /\ v \in Predecessors(d, w) THEN (n[v] * (Unit + e.dependency[w])) \div n[w] ELSE 0],
         centrality |-> IF w = s THEN e.centrality ELSE [e.centrality EXCEPT ![w] = @ + e.dependency[w]]]
  IN Loop(Up, [dependency |-> [v \in Vertex |-> 0], centrality |-> centrality], farthest_first).centrality

\* Of the sources process p takes the one at its own place, and then every P-th.
nd_Start(p) ==
  [centrality |-> [v \in Vertex |-> 0],
   local_sources |-> FlattenSeq([i \in DOMAIN Sources |-> IF (i - 1) % Cardinality(Proc) = p THEN <<Sources[i]>> ELSE << >>])]
nd_Source(p) ==
  /\ Runs(ND) /\ Turn(p) /\ data[p].local_sources # << >>
  /\ LET s == Head(data[p].local_sources)
     IN \E d \in {ShortestFrom(s)} : \E n \in {PathsFrom(s, d)} :
          \E sum \in {do_sequential_brandes_sssp(data[p].centrality, s, d, n)} :
            Works(p, [data[p] EXCEPT !.local_sources = Tail(@), !.centrality = sum], << >>, "work")
nd_SourcesEnd(p) ==
  /\ Runs(ND) /\ Turn(p) /\ data[p].local_sources = << >>
  /\ Works(p, [data[p] EXCEPT !.centrality = IF input.undirected THEN [v \in Vertex |-> @[v] \div 2] ELSE @], << >>, "sync")
nd_Merge ==
  /\ Runs(ND) /\ Quiet
  /\ Returns([p \in Proc |-> [data[p] EXCEPT !.centrality = [v \in Vertex |-> MapThenSumSet(LAMBDA q : data[q].centrality[v], Proc)]]], << >>)
nd_Next == (\E p \in Proc : nd_Source(p) \/ nd_SourcesEnd(p)) \/ nd_Merge

-----------------------------------------------------------------------------
\* The share that w has in the shortest paths from s to others, in parts of Unit.
ShareOf(w, s) ==
  LET d == ShortestFrom(s)
      onward == ShortestFrom(w)
      Through(t) == IF d[t] = MaxDist \/ t \in {s, w} \/ d[t] # closed_plus(d[w], onward[t]) THEN 0
                    ELSE (Unit * PathsFrom(s, d)[w] * PathsFrom(w, onward)[t]) \div PathsFrom(s, d)[t]
  IN IF w = s THEN 0 ELSE MapThenSumSet(Through, Vertex)
ExactCentrality(w) ==
  LET both == FoldLeft(LAMBDA sum, s : sum + ShareOf(w, s), 0, Sources)
  IN IF input.undirected THEN both \div 2 ELSE both

\* Either algorithm gives each vertex its share of the shortest paths from the sources,
\* whichever process finds a path and in whatever order counts and dependencies arrive.
CentralityExact ==
  /\ input.algorithm = BC /\ done => \A v \in Vertex : data[input.owner[v]].centrality[v] = ExactCentrality(v)
  /\ input.algorithm = ND /\ done => \A v \in Vertex, p \in Proc : data[p].centrality[v] = ExactCentrality(v)
=============================================================================
