-------------------------- MODULE ComponentSearch --------------------------
(***************************************************************************)
(* connected_components_ps: every process searches from its own vertices   *)
(* in turn, with component numbers of its own, and notes in collisions     *)
(* which of them turn out to be one component; in the end the notes are    *)
(* put together.  A put for a vertex of another process is handled by its  *)
(* owner during synchronize (update_reducer).                              *)
(*                                                                         *)
(* vertices is the rest of the iterator [current, end); collisions maps    *)
(* the numbers that have an entry.                                         *)
(***************************************************************************)
EXTENDS BSP

max_component == MaxDist
P == Cardinality(Proc)

allocate_Dense(d, p) == d.last
allocate(d, p) == p + d.last * P

AddNumber(d, a) == [d EXCEPT !.collisions = (a :> a) @@ @]
Noted(c, x, y) == [k \in DOMAIN c \cup {x} |-> IF k = x THEN y ELSE c[k]]
\* collision_map::add
Collide(c, a, b) ==
  LET high == Max({a, b})
      low == Min({a, b})
      tmp == c[high]
  IN IF high \in DOMAIN c /\ c[high] # low
     THEN IF tmp > low THEN Noted(Noted(c, tmp, low), high, low)
          ELSE Noted(Noted(c, low, tmp), high, tmp)
     ELSE Noted(c, high, low)

\* A new search from v.
NewSearch(d, p, v) ==
  LET val == allocate(d, p)
  IN AddNumber([d EXCEPT !.last = @ + 1, !.c[v] = val, !.q = Append(@, v)], val)

\* Searches begin until one is from a vertex with edges.
AddWork(d, p, wanted(_)) ==
  LET vs == d.vertices
      useful == {k \in DOMAIN vs : wanted(vs[k]) /\ input.out[vs[k]] # << >>}
      n == IF useful = {} THEN Len(vs) ELSE Min(useful)
  IN Loop(LAMBDA e, v : NewSearch(e, p, v), [d EXCEPT !.vertices = SubSeq(vs, n + 1, Len(vs))],
          SelectSeq(SubSeq(vs, 1, n), wanted))

ps_Start(p) ==
  AddWork([c |-> [v \in Vertex |-> max_component], vertices |-> SetToSortSeq(Local(p), <),
           last |-> 0, collisions |-> << >>, q |-> << >>, sends |-> << >>], p, LAMBDA v : TRUE)

\* The edge (v, peer).
ps_Edge(d, p, v, peer) ==
  CASE Own(p, peer) /\ d.c[peer] = max_component -> [d EXCEPT !.c[peer] = d.c[v], !.q = Append(@, peer)]
    [] Own(p, peer) /\ d.c[peer] \notin {max_component, d.c[v]} ->
         [d EXCEPT !.collisions = Collide(@, d.c[v], d.c[peer])]
    [] Own(p, peer) /\ d.c[peer] = d.c[v] -> d
    [] ~Own(p, peer) ->
         [d EXCEPT !.sends = Append(@, [to |-> input.owner[peer], body |-> [v |-> peer, c |-> d.c[v]]])]

RunsPS == Runs("connected_components_ps")
ps_Vertex(p) ==
  /\ RunsPS /\ Turn(p) /\ data[p].q # << >>
  /\ LET d == Loop(LAMBDA e, edge : ps_Edge(e, p, Head(data[p].q), edge.to),
                   [data[p] EXCEPT !.q = Tail(@)], input.out[Head(data[p].q)])
     IN Works(p, [d EXCEPT !.sends = << >>], d.sends, "work")
ps_Synchronize(p) == RunsPS /\ Turn(p) /\ data[p].q = << >> /\ Works(p, data[p], << >>, "sync")

\* update_reducer
ps_update(d, p, from, m) ==
  [data |->
     CASE d.c[m.v] = max_component -> [d EXCEPT !.c[m.v] = m.c, !.q = Append(@, m.v)]
       [] d.c[m.v] \notin {max_component, m.c} -> [d EXCEPT !.collisions = Collide(@, d.c[m.v], m.c)]
       [] d.c[m.v] = m.c -> d,
   sends |-> << >>]
ps_Handle == RunsPS /\ Handles(ps_update)

\* A process without work begins the next search.
ps_Continue ==
  /\ RunsPS /\ Quiet /\ \E p \in Proc : data[p].q # << >> \/ data[p].vertices # << >>
  /\ Resumes([p \in Proc |->
       IF data[p].q # << >> THEN data[p]
       ELSE AddWork(data[p], p, LAMBDA v : data[p].c[v] = max_component)])

\* The notes of all processes, in order, added to those of p; then one step along them.
Numbers == [k \in 1 .. P * Cardinality(Vertex) |-> k - 1]
AddAll(c, notes) == Loop(LAMBDA e, k : IF k \in DOMAIN notes THEN Collide(e, k, notes[k]) ELSE e, c, Numbers)
Shared(p) == Loop(LAMBDA c, k : AddAll(c, data[k - 1].collisions), data[p].collisions, [k \in 1 .. P |-> k])
uniqify(c) == Loop(LAMBDA e, k : IF k \in DOMAIN e THEN [e EXCEPT ![k] = e[e[k]]] ELSE e, c, Numbers)

ps_Finish ==
  /\ RunsPS /\ Quiet /\ \A p \in Proc : data[p].q = << >> /\ data[p].vertices = << >>
  /\ \E names \in {[p \in Proc |-> uniqify(Shared(p))]} :
       Returns([p \in Proc |-> [data[p] EXCEPT !.c = [v \in Vertex |-> IF Own(p, v) THEN names[p][@[v]] ELSE @[v]]]],
               << Cardinality({k \in DOMAIN names[0] : names[0][k] = k}) >>)

ps_Next == (\E p \in Proc : ps_Vertex(p) \/ ps_Synchronize(p)) \/ ps_Handle \/ ps_Continue \/ ps_Finish

-----------------------------------------------------------------------------
ComponentOf(v) == data[input.owner[v]].c[v]

\* Two vertices that end in one component are connected.  connected_components keeps
\* what a process holds connected together, and numbers its components from 0.
ComponentsConnected ==
  input.algorithm \in {"connected_components_ps", "connected_components"} /\ done =>
    /\ \A u, v \in Vertex : ComponentOf(u) = ComponentOf(v) => u \in Reachable(v)
    /\ input.algorithm = "connected_components" =>
         /\ \A v \in Vertex : \A u \in Targets(v) : input.owner[u] = input.owner[v] => ComponentOf(u) = ComponentOf(v)
         /\ {ComponentOf(v) : v \in Vertex} = 0 .. result[1] - 1

=============================================================================
