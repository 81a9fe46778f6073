---------------------------- MODULE StConnected ----------------------------
(***************************************************************************)
(* st_connected: two searches, gray from s and green from t, level by      *)
(* level, until a vertex of the one sees a vertex of the other.  color is  *)
(* a process's view: its own vertices, and the ghost cells of the others,  *)
(* which nobody brings up to date.                                         *)
(***************************************************************************)
EXTENDS BSP

st_Start(p) ==
  LET color == [v \in Vertex |-> IF v = input.t THEN "green" ELSE IF v = input.s THEN "gray" ELSE "white"]
  IN [color |-> color, Q |-> SelectSeq(<<input.s, input.t>>, LAMBDA v : Own(p, v)),
      other_Q |-> << >>, found |-> FALSE, sends |-> << >>]

\* The edge (u, v), unless the search has ended.
st_Edge(d, p, u, v) ==
  LET u_color == d.color[u]
      v_color == d.color[v]
      marked == [d EXCEPT !.color[v] = u_color]
  IN CASE d.found -> d
       [] ~d.found /\ v_color = "white" ->
            IF Own(p, v) THEN [marked EXCEPT !.other_Q = Append(@, v)]
            ELSE [marked EXCEPT !.sends = Append(@, [to |-> input.owner[v], body |-> [v |-> v, color |-> u_color]])]
       [] ~d.found /\ v_color \notin {"white", "black", u_color} -> [d EXCEPT !.found = TRUE]
       [] OTHER -> d

st_Vertex(d, p, u) ==
  IF d.found THEN d
  ELSE [Loop(LAMBDA e, edge : st_Edge(e, p, u, edge.to), d, input.out[u]) EXCEPT !.color[u] = "black"]

st_Search(p) ==
  /\ Runs("st_connected") /\ Turn(p)
  /\ LET d == Loop(LAMBDA e, u : st_Vertex(e, p, u), data[p], data[p].Q)
     IN Works(p, [d EXCEPT !.Q = d.other_Q, !.other_Q = << >>, !.sends = << >>], d.sends, "sync")

\* A vertex that another process reached.
st_Receive(d, m) ==
  LET v_color == d.color[m.v]
  IN CASE d.found -> d
       [] ~d.found /\ v_color = "white" -> [d EXCEPT !.Q = Append(@, m.v), !.color[m.v] = m.color]
       [] ~d.found /\ v_color \notin {"white", "black", m.color} -> [d EXCEPT !.found = TRUE]
       [] OTHER -> d

st_Finish ==
  /\ Runs("st_connected") /\ AllSync
  /\ LET new == [p \in Proc |-> Loop(st_Receive, data[p], Received(p))]
     IN IF \E p \in Proc : new[p].found THEN Returns(new, <<TRUE>>)
        ELSE IF \A p \in Proc : new[p].Q = << >> THEN Returns(new, <<FALSE>>)
        ELSE Resumes(new)

st_Next == (\E p \in Proc : st_Search(p)) \/ st_Finish

-----------------------------------------------------------------------------
\* In an undirected graph the answer is true only if there is a path.  It may be
\* false although there is one (README).
NoFalsePath ==
  done /\ input.algorithm = "st_connected" /\ result = <<TRUE>> => input.t \in Reachable(input.s)
=============================================================================
