---------------------------- MODULE BreadthFirst ----------------------------
(***************************************************************************)
(* breadth_first_search over a distributed_queue: a vertex that is pushed  *)
(* waits in outgoing_buffers until the next do_synchronize, which sends it *)
(* to its owner; the owner takes it only if its own color is still white.  *)
(* level[v] is the superstep in which v was taken from the queue.          *)
(***************************************************************************)
EXTENDS BSP

bfs_push(d, v) == [d EXCEPT !.outgoing_buffers[input.owner[v]] = Append(@, v)]

bfs_Start(p) ==
  bfs_push([color |-> [v \in Vertex |-> IF v = input.s THEN "gray" ELSE "white"],
            buffer |-> << >>, outgoing_buffers |-> [q \in Proc |-> << >>],
            superstep |-> 0, level |-> [v \in Vertex |-> << >>]], input.s)

bfs_Edge(d, v) ==
  IF d.color[v] = "white" THEN bfs_push([d EXCEPT !.color[v] = "gray"], v) ELSE d

\* Top and pop, and the edges of the vertex.
bfs_Visit(p) ==
  /\ Runs("breadth_first_search") /\ Turn(p) /\ data[p].buffer # << >>
  /\ LET u == Head(data[p].buffer)
         d == Loop(LAMBDA e, edge : bfs_Edge(e, edge.to), data[p], input.out[u])
     IN Works(p, [d EXCEPT !.buffer = Tail(@), !.color[u] = "black", !.level[u] = Append(@, d.superstep)],
              << >>, "work")

\* empty: do_synchronize sends the buffers of the others, and takes its own.
bfs_Synchronize(p) ==
  LET out == data[p].outgoing_buffers
      full == {q \in Proc \ {p} : out[q] # << >>}
  IN /\ Runs("breadth_first_search") /\ Turn(p) /\ data[p].buffer = << >>
     /\ Works(p, [data[p] EXCEPT !.buffer = out[p], !.outgoing_buffers = [q \in Proc |-> << >>]],
              SetToSeq({[to |-> q, body |-> out[q]] : q \in full}), "sync")

darken_and_push(d, v) ==
  IF d.color[v] = "white" THEN [d EXCEPT !.color[v] = "gray", !.buffer = Append(@, v)] ELSE d

handle_multipush(d, p, from, values) ==
  [data |-> Loop(darken_and_push, d, values), sends |-> << >>]

bfs_Handle == Runs("breadth_first_search") /\ Handles(handle_multipush)

\* all_reduce of the sizes: the search ends when no process has a vertex.
bfs_Finish ==
  LET new == [p \in Proc |-> [data[p] EXCEPT !.superstep = @ + 1]]
  IN /\ Runs("breadth_first_search") /\ Quiet
     /\ IF \A p \in Proc : data[p].buffer = << >>
        THEN Returns(data, << >>)
        ELSE Resumes(new)

bfs_Next == (\E p \in Proc : bfs_Visit(p) \/ bfs_Synchronize(p)) \/ bfs_Handle \/ bfs_Finish

-----------------------------------------------------------------------------
Distance(u) ==
  LET within[n \in Nat] ==
        IF n = 0 THEN {input.s} ELSE LET known == within[n - 1] IN known \cup UNION {Targets(v) : v \in known}
  IN CHOOSE n \in 0 .. Cardinality(Vertex) : u \in within[n] /\ (n = 0 \/ u \notin within[n - 1])

\* Every vertex that can be reached is visited once, by its owner, in the order
\* of its distance; no other vertex is visited.
VisitedOnceInOrder ==
  input.algorithm = "breadth_first_search" =>
    \A p \in Proc : \A v \in Vertex :
      LET expected == IF Own(p, v) /\ v \in Reachable(input.s) THEN << Distance(v) + 1 >> ELSE << >>
      IN data[p].level[v] \in {<< >>, expected} /\ (done => data[p].level[v] = expected)
=============================================================================
