----------------------------- MODULE DepthFirst -----------------------------
(***************************************************************************)
(* tsin_depth_first_visit: one center of activity moves over an undirected *)
(* graph by messages that are polled as they come (out of band, there are  *)
(* no supersteps); visited messages keep it from vertices already visited, *)
(* and where one comes too late the explorer recovers.                     *)
(*                                                                         *)
(* color[v] is a process's view, of ghost cells too.  A message of kind k  *)
(* is [kind, i, j]: for i, the vertex of the receiver, about j.            *)
(***************************************************************************)
EXTENDS BSP

Nobody == -1   \* done_msg is about no vertex

send_oob(d, q, kind, i, j) == [d EXCEPT !.sends = Append(@, [to |-> q, body |-> [kind |-> kind, i |-> i, j |-> j]])]

dfs_Start(p) ==
  [color |-> [v \in Vertex |-> "white"], parent |-> [v \in Vertex |-> v], explore |-> [v \in Vertex |-> v],
   next_out_edge |-> [v \in Vertex |-> 1], begun |-> FALSE, done |-> FALSE, sends |-> << >>]

\* The next unvisited target is explored; without one, i is finished, and the
\* activity returns to its parent or, at the root, the search is done.
shift_center_of_activity(d, i) ==
  LET edges == input.out[i]
      white == {k \in d.next_out_edge[i] .. Len(edges) : d.color[edges[k].to] = "white"}
      k == Min(white)
      finished == [d EXCEPT !.next_out_edge[i] = Len(edges) + 1, !.explore[i] = i, !.color[i] = "black"]
  IN IF white # {}
     THEN send_oob([d EXCEPT !.explore[i] = edges[k].to, !.next_out_edge[i] = k + 1],
                   input.owner[edges[k].to], "discover", edges[k].to, i)
     ELSE IF d.parent[i] = i THEN send_oob(finished, 0, "done", Nobody, Nobody)
     ELSE send_oob(finished, input.owner[d.parent[i]], "return", d.parent[i], i)
Ends(d, i) == d.parent[i] = i /\ \A k \in d.next_out_edge[i] .. Len(input.out[i]) : d.color[input.out[i][k].to] # "white"

Seen_Again(d, j) == [d EXCEPT !.color[j] = "gray"]
Seen(d, j) == IF d.color[j] # "black" THEN [d EXCEPT !.color[j] = "gray"] ELSE d
\* The vertex that i explores turns out to be visited.
recover_Never(d, i, j) == d
recover(d, i, j) == IF d.explore[i] = j THEN shift_center_of_activity(d, i) ELSE d

\* Neighbors that may not know are told that i is visited.
TellVisited(d, i) ==
  Loop(LAMBDA e, edge : IF edge.to \in {d.parent[i], d.explore[i]} THEN e
                            ELSE send_oob(e, input.owner[edge.to], "visited", edge.to, i),
           d, input.out[i])

discover_msg(d, i, j) ==
  LET seen == IF i # j THEN Seen(d, j) ELSE d
      known == IF i # j THEN recover(seen, i, j) ELSE seen
      ends == i # j /\ seen.explore[i] = j /\ Ends(seen, i)
      found == [known EXCEPT !.color[i] = "gray", !.parent[i] = j]
      shifted == shift_center_of_activity(found, i)
  IN IF ends \/ known.color[i] # "white" THEN known
     ELSE IF Ends(found, i) THEN shifted ELSE TellVisited(shifted, i)

visited_msg(d, i, j) == recover(Seen(d, j), i, j)
return_msg(d, i, j) == shift_center_of_activity([d EXCEPT !.color[j] = "black"], i)
\* The end is passed on down a tree of the processes.
done_msg(d, p) ==
  Loop(LAMBDA e, q : send_oob(e, q, "done", Nobody, Nobody), [d EXCEPT !.done = TRUE],
           SelectSeq(<<2 * p + 1, 2 * p + 2>>, LAMBDA q : q \in Proc))

Handled(d, p, m) ==
  CASE m.kind = "discover" -> discover_msg(d, m.i, m.j)
    [] m.kind = "visited" -> visited_msg(d, m.i, m.j)
    [] m.kind = "return" -> return_msg(d, m.i, m.j)
    [] m.kind = "done" -> done_msg(d, p)

Step(p, new, from) ==
  /\ data' = [data EXCEPT ![p] = [new EXCEPT !.sends = << >>]]
  /\ mail' = LET taken == IF from = {} THEN mail ELSE [q \in Proc |-> IF q \in from THEN [mail[q] EXCEPT ![p] = Tail(@)] ELSE mail[q]]
                 sent(q) == SelectSeq(new.sends, LAMBDA m : m.to = q)
             IN [taken EXCEPT ![p] = [q \in Proc |-> taken[p][q] \o [k \in DOMAIN sent(q) |-> sent(q)[k].body]]]
  /\ UNCHANGED <<input, at, done, result>>

RunsDFS == Runs("tsin_depth_first_visit")

\* run starts the search at the owner of s.
dfs_Begin(p) ==
  /\ RunsDFS /\ Own(p, input.s) /\ ~data[p].begun
  /\ Step(p, send_oob([data[p] EXCEPT !.begun = TRUE], p, "discover", input.s, input.s), {})

\* poll: the next message of any process.
dfs_Poll(p) ==
  /\ RunsDFS /\ ~data[p].done
  /\ \E from \in Proc :
       /\ mail[from][p] # << >>
       /\ Step(p, Handled(data[p], p, Head(mail[from][p])), {from})

dfs_Return == RunsDFS /\ (\A p \in Proc : data[p].done) /\ Returns(data, << >>)

dfs_Next == (\E p \in Proc : dfs_Begin(p) \/ dfs_Poll(p)) \/ dfs_Return

-----------------------------------------------------------------------------
Parent(v) == data[input.owner[v]].parent[v]
Ancestors(v) ==
  LET up[n \in Nat] == IF n = 0 THEN {v} ELSE LET known == up[n - 1] IN known \cup {Parent(u) : u \in known}
  IN up[Cardinality(Vertex)]

\* When the search ends every vertex that can be reached is finished and has s as
\* an ancestor, and of the two ends of an edge one is an ancestor of the other.
DepthFirstTree ==
  input.algorithm = "tsin_depth_first_visit" /\ done =>
    \A v \in Vertex :
      IF v \in Reachable(input.s)
      THEN /\ data[input.owner[v]].color[v] = "black"
           /\ input.s \in Ancestors(v)
           /\ \A u \in Targets(v) : u \in Ancestors(v) \/ v \in Ancestors(u)
      ELSE Parent(v) = v /\ data[input.owner[v]].color[v] = "white"
=============================================================================
