-------------------------- MODULE StrongComponents --------------------------
(***************************************************************************)
(* strong_components by Fleischer, Hendrickson and Pinar.  All processes   *)
(* know the vertex sets still to be divided.  From the first vertex of     *)
(* each set a search goes forward, then one backward; the searches of all  *)
(* sets run at once, with one color map and one map that says which start  *)
(* reached a vertex.  What both have reached is a component, and the rest  *)
(* of the set is divided in three.                                         *)
(*                                                                         *)
(* The color of a vertex of another process is asked for out of band, so   *)
(* that processes see each other's visits in any order.                    *)
(***************************************************************************)
EXTENDS BSP

SCC == "strong_components"
NoStart == -1
P_of(i) == (i - 1) % Cardinality(Proc)

\* Vertex descriptors are ordered by owner.
Numbered == [k \in 1 .. Cardinality(Vertex) |-> k - 1]
Descriptors == FlattenSeq([i \in 1 .. Cardinality(Proc) |-> SelectSeq(Numbered, LAMBDA v : Own(i - 1, v))])
InOrder(S) == SelectSeq(Descriptors, LAMBDA v : v \in S)
FirstOf(S) == Head(InOrder(S))

\* The reverse graph: the edges of the owner, then those received from the others.
ReverseEdges(v) ==
  LET mine == SelectSeq(Descriptors, LAMBDA u : Own(input.owner[v], u))
      others == SelectSeq(Descriptors, LAMBDA u : ~Own(input.owner[v], u))
      To_v(u) == SelectSeq(input.out[u], LAMBDA e : e.to = v)
  IN FlattenSeq([k \in DOMAIN Descriptors |-> LET u == (mine \o others)[k] IN [j \in DOMAIN To_v(u) |-> u]])

\* vertex_sets[i]; first is what stays at its beginning when it is cleared.
SetOf(S) == [first |-> FirstOf(S), members |-> S]
\* The first set.  Where it is empty the code returns without labels: graphs like that are left out.
WithBoth == {v \in Vertex : input.out[v] # << >> /\ ReverseEdges(v) # << >>}

scc_Start(p) ==
  [stage |-> "forward", begun |-> FALSE, vertex_sets |-> << SetOf(WithBoth) >>,
   map |-> [dir \in {"forward", "backward"} |-> [v \in Vertex |-> NoStart]],
   color |-> [v \in Vertex |-> "white"], seen |-> {}, buffer |-> << >>, edge |-> 1,
   outgoing_buffers |-> [q \in Proc |-> << >>], puts |-> [q \in Proc |-> << >>],
   c |-> [v \in Vertex |-> NoStart]]

-----------------------------------------------------------------------------
(* The searches *)

Starts_of(d) == {d.vertex_sets[i].first : i \in DOMAIN d.vertex_sets}
Active(d) == UNION {d.vertex_sets[i].members : i \in DOMAIN d.vertex_sets}
\* Only active vertices are looked at when they are fewer than n / input.param.
Next_of(d, u) ==
  LET all == IF d.stage = "forward" THEN [k \in DOMAIN input.out[u] |-> input.out[u][k].to] ELSE ReverseEdges(u)
  IN IF input.param * Cardinality(Active(d)) < Cardinality(Vertex)
     THEN SelectSeq(all, LAMBDA v : v \in Active(d)) ELSE all

local_start(d, p) ==
  LET mine == SelectSeq([i \in DOMAIN d.vertex_sets |-> i], LAMBDA i : P_of(i) = p)
  IN IF mine = << >> THEN << d.vertex_sets[1].first >> ELSE [k \in DOMAIN mine |-> d.vertex_sets[mine[k]].first]

scc_push(d, v) == [d EXCEPT !.outgoing_buffers[input.owner[v]] = Append(@, v)]

\* put to the claims or the colors, in the own cell or in a ghost cell and a message to the owner.
Applied(d, m) ==
  IF m.kind = "claim" THEN [d EXCEPT !.map[d.stage][m.v] = m.start] ELSE [d EXCEPT !.color[m.v] = "gray"]
scc_put(d, p, m) ==
  LET e == Applied(d, m)
  IN IF Own(p, m.v) THEN e ELSE [e EXCEPT !.puts[input.owner[m.v]] = Append(@, m)]
Claim(v, s) == [kind |-> "claim", v |-> v, start |-> s]
Gray(v) == [kind |-> "color", v |-> v]

\* Each start claims itself; a process colors only the first of its starts.
Searching(d, p) ==
  LET starts == local_start(d, p)
      new == [d EXCEPT !.begun = TRUE, !.color = [v \in Vertex |-> "white"], !.seen = {},
                       !.map[d.stage] = [v \in Vertex |-> NoStart]]
      claimed == Loop(LAMBDA e, v : scc_put(e, p, Claim(v, v)), new, InOrder(Starts_of(d)))
  IN scc_push(scc_put(Loop(scc_push, claimed, Tail(starts)), p, Gray(starts[1])), starts[1])
scc_Begin(p) ==
  /\ Runs(SCC) /\ Turn(p) /\ data[p].stage \in {"forward", "backward"} /\ ~data[p].begun
  /\ Works(p, Searching(data[p], p), << >>, "work")

\* The color that the owner of v has by now, if p has not put one itself.
ColorSeen(d, v) == IF d.color[v] # "white" THEN d.color[v] ELSE data[input.owner[v]].color[v]

tree_edge(d, p, u, v) ==
  scc_push(scc_put(scc_put(d, p, Claim(v, d.map[d.stage][u])), p, Gray(v)), v)

\* What a process does in synchronize others do not see: it need not wait for them.
Idle(p) == at[p] = "work" /\ data[p].begun /\ data[p].buffer = << >>
\* The next edge of the vertex at the top of the queue, or the end of its visit.
scc_Visit(p) ==
  /\ Runs(SCC) /\ at[p] = "work" /\ data[p].buffer # << >> /\ \A q \in Proc : ~Idle(q)
  /\ LET d == data[p]
         u == Head(d.buffer)
         all == Next_of(d, u)
         v == all[d.edge]
     IN \/ /\ d.edge <= Len(all)
           /\ WorksOn(p, [(IF ColorSeen(d, v) = "white" THEN tree_edge(d, p, u, v) ELSE d) EXCEPT !.edge = @ + 1], << >>, "work")
        \/ /\ d.edge > Len(all)
           /\ WorksOn(p, [d EXCEPT !.color[u] = "black", !.buffer = Tail(@), !.edge = 1], << >>, "work")

\* filtered_queue: each vertex is taken once.
NotSeen(d, v) == IF v \in d.seen THEN d ELSE [d EXCEPT !.seen = @ \cup {v}, !.buffer = Append(@, v)]

\* The puts, and then the vertices pushed.
scc_Synchronize(p) ==
  LET d == data[p]
      to == {q \in Proc \ {p} : d.puts[q] # << >> \/ d.outgoing_buffers[q] # << >>}
      none == [q \in Proc |-> << >>]
  IN /\ Runs(SCC) /\ Idle(p) /\ \A q \in Proc : q < p => ~Idle(q)
     /\ WorksOn(p, Loop(NotSeen, [d EXCEPT !.outgoing_buffers = none, !.puts = none], d.outgoing_buffers[p]),
             SetToSeq({[to |-> q, body |-> [puts |-> d.puts[q], pushed |-> d.outgoing_buffers[q]]] : q \in to}), "sync")
scc_handle(d, p, from, m) ==
  [data |-> Loop(NotSeen, Loop(Applied, d, m.puts), m.pushed), sends |-> << >>]
scc_Handle == Runs(SCC) /\ Handles(scc_handle)

Quiet_In(stage) == Runs(SCC) /\ Quiet /\ data[0].stage = stage
Empty == \A p \in Proc : data[p].buffer = << >>
scc_Level == \E stage \in {"forward", "backward"} : Quiet_In(stage) /\ ~Empty /\ Resumes(data)
scc_Turn ==
  /\ Quiet_In("forward") /\ Empty
  /\ Resumes([p \in Proc |-> [data[p] EXCEPT !.stage = "backward", !.begun = FALSE]])

-----------------------------------------------------------------------------
(* Dividing the sets, between collective operations of all processes *)

\* What owners say a start has reached, sent to the process that has the set of this start.
Found(dir, s) == {v \in Vertex : data[input.owner[v]].map[dir][v] = s}

Divided(set) ==
  LET succ == set.members \cap Found("forward", set.first)
      pred == set.members \cap Found("backward", set.first)
  IN [rest |-> set.members \ (succ \cup pred), pred |-> pred \ succ, succ |-> succ \ pred, component |-> succ \cap pred]

\* Of the sets of p in order, the parts that have more than one vertex.
Parts(divided, p) ==
  LET Of(i) == << divided[i].rest, divided[i].pred, divided[i].succ >>
      all == FlattenSeq([i \in DOMAIN divided |-> IF P_of(i) = p THEN Of(i) ELSE << >>])
  IN SelectSeq(all, LAMBDA S : Cardinality(S) > 1)

\* Vertices with an edge to and one from the set.
Trimmed(S) == {v \in S : Targets(v) \cap S # {} /\ \E u \in S : v \in Targets(u)}

\* A set that trimming empties is kept, and its start is read from the cleared vector.
Kept(S) == IF Trimmed(S) = {} THEN [first |-> FirstOf(S), members |-> {}] ELSE SetOf(Trimmed(S))

\* A component is labelled by its first vertex.
Labelled(c, divided) ==
  LET In(v) == {i \in DOMAIN divided : v \in divided[i].component}
  IN [v \in Vertex |-> IF In(v) = {} THEN c[v] ELSE FirstOf(divided[CHOOSE i \in In(v) : TRUE].component)]

\* Numbers for the labels, in the order in which the processes gathered them.
number_components(r) ==
  LET all_roots == [k \in DOMAIN Descriptors |-> r[Descriptors[k]]]
      New(k) == \A j \in 1 .. k - 1 : all_roots[j] # all_roots[k]
      At(k) == Cardinality({j \in 1 .. k - 1 : New(j)})
  IN [number |-> [v \in Vertex |-> At(Min({k \in DOMAIN all_roots : all_roots[k] = r[v]}))],
      count |-> Cardinality({k \in DOMAIN all_roots : New(k)})]

\* Labels go to the owners; those of the last round may arrive after a vertex without a
\* label was given its own, and replace it.
scc_Divide ==
  /\ Quiet_In("backward") /\ Empty
  /\ LET sets == data[0].vertex_sets IN
     \E divided \in {[i \in DOMAIN sets |-> Divided(sets[i])]} :
     \E parts \in {FlattenSeq([i \in 1 .. Cardinality(Proc) |-> Parts(divided, i - 1)])} :
     \E c \in {Labelled(data[0].c, divided)} :
       IF parts = << >>
       THEN \E r \in {[v \in Vertex |-> IF c[v] = NoStart THEN v ELSE c[v]]} : Returns(data, number_components(r))
       ELSE \E new \in {[i \in DOMAIN parts |-> Kept(parts[i])]} :
              Resumes([p \in Proc |-> [data[p] EXCEPT !.stage = "forward", !.begun = FALSE, !.vertex_sets = new, !.c = c]])

scc_Next ==
  (\E p \in Proc : scc_Begin(p) \/ scc_Visit(p) \/ scc_Synchronize(p))
    \/ scc_Handle \/ scc_Level \/ scc_Turn \/ scc_Divide

-----------------------------------------------------------------------------
Mutual(u, v) == u \in Reachable(v) /\ v \in Reachable(u)
\* Vertices with one number reach each other, the numbers are 0 .. count - 1, and the first
\* component found is whole: the others may be split where searches of two sets meet.
StrongComponentsConnected ==
  input.algorithm = SCC /\ done =>
    /\ \A u, v \in Vertex : result.number[u] = result.number[v] => Mutual(u, v)
    /\ {result.number[v] : v \in Vertex} = 0 .. result.count - 1
    /\ \A v \in Vertex : Mutual(FirstOf(WithBoth), v) => result.number[v] = result.number[FirstOf(WithBoth)]
=============================================================================
