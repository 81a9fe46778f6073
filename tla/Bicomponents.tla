---------------------------- MODULE Bicomponents ----------------------------
(***************************************************************************)
(* hohberg_biconnected_components: from a leader in every component paths  *)
(* build a spanning tree and find cycles (phases 1, 2); each vertex echoes *)
(* to its parent how far up its bicomponent reaches (3) and splits its     *)
(* edges into those of one bicomponent; then the bicomponents are named,   *)
(* from the vertex where each begins down the tree (4, 5).                 *)
(*                                                                         *)
(* vp[v] is the processor of v; graphs are simple, so that an edge of v is *)
(* named by its other end, and M and the vertices of a tree message are    *)
(* sets.  A class of edges is named by one of them (partition).            *)
(***************************************************************************)
EXTENDS BSP

null_vertex == -1
not_mapped == MaxDist

Leaders == {v \in Vertex : v = Min(Reachable(v))}
Message(alpha, beta, fields) == [to |-> input.owner[beta], body |-> [from |-> alpha, alpha |-> beta] @@ fields]
PathMessage(path) == [kind |-> "path", path |-> path]

ho_Start(p) ==
  [vp |-> [v \in Vertex |->
     [phase |-> 1, parent |-> null_vertex, eta |-> null_vertex,
      left |-> Cardinality(Targets(v)), path_from_root |-> << >>,
      msg |-> [b \in Targets(v) |-> PathMessage(<< >>)], M |-> [b \in Targets(v) |-> {}],
      tree_edges |-> {}, partition |-> [b \in Targets(v) |-> b], name |-> [b \in Targets(v) |-> not_mapped]]],
   stage |-> "lead", inbox |-> << >>, sends |-> << >>]

ToEach(alpha, ends, fields) == SetToSeq({Message(alpha, b, fields) : b \in ends})

\* initialize_leader
ho_Lead(d, alpha) ==
  [d EXCEPT !.vp[alpha].phase = 2,
            !.sends = @ \o ToEach(alpha, Targets(alpha), PathMessage(<<alpha>>))]

-----------------------------------------------------------------------------
Position(path, a) == CHOOSE k \in DOMAIN path : path[k] = a
On(path, a) == \E k \in DOMAIN path : path[k] = a
\* The last vertex that two paths from the leader share.
branch_point(p1, p2) ==
  p1[Max({k \in DOMAIN p1 : k \in DOMAIN p2 /\ \A j \in 1 .. k : p1[j] = p2[j]})]
\* The upper of two vertices of a path.
infimum_Lower(path, a, b) == path[Max({Position(path, a), Position(path, b)})]
infimum(path, a, b) == path[Min({Position(path, a), Position(path, b)})]

\* What alpha tells its parent: the vertices below eta in alpha's bicomponent.
Bicomp(w, alpha) ==
  UNION {
    LET m == w.msg[b] IN
    IF b = w.parent /\ w.parent = w.eta THEN {alpha}
    ELSE IF m.kind = "tree" THEN IF m.gamma = w.eta THEN m.bicomp ELSE {}
    ELSE {m.path[k] : k \in {k \in DOMAIN m.path : k > 1 /\ m.path[k - 1] = w.eta}} : b \in Targets(alpha)}

\* Edges with a vertex of one M in common are of one class.
Merged(partition, M) ==
  [b \in DOMAIN partition |->
     IF \E m \in M : partition[m] = partition[b] THEN Min({partition[m] : m \in M}) ELSE partition[b]]
Partition(w, alpha) == Loop(LAMBDA part, e : Merged(part, w.M[e.to]), w.partition, input.out[alpha])

\* echo_phase, when every edge has transmitted.
Echo(d, alpha) ==
  LET w == d.vp[alpha]
      told == IF w.parent = null_vertex THEN << >>
              ELSE << Message(alpha, w.parent, [kind |-> "tree", gamma |-> w.eta, bicomp |-> Bicomp(w, alpha)]) >>
  IN IF w.left > 0 THEN d
     ELSE [d EXCEPT !.vp[alpha] = [w EXCEPT !.phase = 4, !.partition = Partition(w, alpha)], !.sends = @ \o told]

Heard(w, m) == [w EXCEPT !.left = @ - 1, !.msg[m.from] = m]

\* The first path makes the sender the parent, and goes on to the others.
FirstPath(d, alpha, m) ==
  LET parent == Last(m.path)
      w == [Heard(d.vp[alpha], m) EXCEPT !.phase = 2, !.parent = parent, !.eta = parent, !.path_from_root = m.path,
                                         !.M[m.from] = {parent}, !.tree_edges = @ \cup {m.from}]
  IN Echo([d EXCEPT !.vp[alpha] = w,
                    !.sends = @ \o ToEach(alpha, Targets(alpha) \ {m.from}, PathMessage(Append(m.path, alpha)))], alpha)

\* Another path shows a cycle, through alpha or through its parent.
LaterPath(d, alpha, m) ==
  LET w == Heard(d.vp[alpha], m)
      beta == m.path[Position(m.path, alpha) + 1]
      through == [w EXCEPT !.M[m.from] = IF alpha = Last(m.path) THEN {} ELSE {beta, Last(m.path)}]
      beside == [w EXCEPT !.M[m.from] = {Last(m.path), w.parent},
                          !.eta = infimum(w.path_from_root, w.eta, branch_point(w.path_from_root, m.path))]
  IN Echo([d EXCEPT !.vp[alpha] = IF On(m.path, alpha) THEN through ELSE beside], alpha)

\* The echo of a child.
TreeMessage(d, alpha, m) ==
  LET w == [Heard(d.vp[alpha], m) EXCEPT !.tree_edges = @ \cup {m.from}]
      here == [w EXCEPT !.M[m.from] = m.bicomp]
      above == [w EXCEPT !.M[m.from] = {w.parent, m.from}, !.eta = infimum(w.path_from_root, w.eta, m.gamma)]
  IN Echo([d EXCEPT !.vp[alpha] = IF m.gamma = alpha THEN here ELSE above], alpha)

\* The name of the bicomponent of alpha and its parent goes on to the children in it.
NameMessage(d, alpha, m) ==
  LET w == d.vp[alpha]
      children == {b \in w.tree_edges \ {w.parent} : w.parent \in w.M[b]}
  IN [d EXCEPT !.vp[alpha] = [w EXCEPT !.phase = 5, !.name[w.partition[w.parent]] = m.name],
               !.sends = @ \o ToEach(alpha, children, [kind |-> "name", name |-> m.name])]

Received1(d, m) ==
  LET w == d.vp[m.alpha] IN
  CASE m.kind = "path" /\ w.phase = 1 -> FirstPath(d, m.alpha, m)
    [] m.kind = "path" /\ w.phase # 1 -> LaterPath(d, m.alpha, m)
    [] m.kind = "tree" -> TreeMessage(d, m.alpha, m)
    [] m.kind = "name" -> NameMessage(d, m.alpha, m)

-----------------------------------------------------------------------------
\* The classes that begin at alpha: their tree edges lead to children only.
Begins(w) == {b \in w.tree_edges : w.parent \notin w.M[b]}
Starting(w) == {w.partition[b] : b \in Begins(w)}
Before(p, alpha) == {v \in Vertex : input.owner[v] < p \/ (Own(p, v) /\ v < alpha)}
StartingAt(S) == FoldLeft(LAMBDA n, v : n + Cardinality(Starting(data[input.owner[v]].vp[v])), 0, SetToSeq(S))

\* num_starting_bicomponents and start_naming_phase: numbers follow those of the
\* processes and vertices before.
StartNaming(d, p, alpha) ==
  LET w == d.vp[alpha]
      number(c) == StartingAt(Before(p, alpha)) + Cardinality({b \in Starting(w) : b < c})
      named == [w EXCEPT !.name = [b \in DOMAIN @ |-> IF b \in Starting(w) THEN number(b) ELSE not_mapped],
                         !.phase = IF w.tree_edges \subseteq Begins(w) THEN 5 ELSE 4]
  IN [d EXCEPT !.vp[alpha] = named,
               !.sends = @ \o SetToSeq({Message(alpha, b, [kind |-> "name", name |-> number(w.partition[b])]) : b \in Begins(w)})]

RunsHo == Runs("hohberg_biconnected_components")
Own_vertices(p) == SetToSortSeq(Local(p), <)
ho_Work(p) ==
  /\ RunsHo /\ Turn(p)
  /\ \E d \in {CASE data[p].stage = "lead" ->
                      Loop(ho_Lead, data[p], SelectSeq(Own_vertices(p), LAMBDA v : v \in Leaders))
                 [] data[p].stage = "name" ->
                      Loop(LAMBDA e, v : StartNaming(e, p, v), data[p], Own_vertices(p))
                 [] data[p].stage = "receive" -> Loop(Received1, data[p], data[p].inbox)} :
       Works(p, [d EXCEPT !.sends = << >>, !.inbox = << >>], d.sends, "sync")

\* The phases of all vertices decide, except right after a stage that only sends.
Phases == UNION {{data[p].vp[v].phase : v \in Local(p)} : p \in Proc}
Receiving(p) == [data[p] EXCEPT !.inbox = Received(p), !.stage = "receive"]
ho_Round ==
  LET checked == \A p \in Proc : data[p].stage = "receive"
  IN /\ RunsHo /\ AllSync
     /\ \/ checked /\ Phases = {5} /\ Returns(data, << StartingAt(Vertex) >>)
        \/ checked /\ Phases = {4} /\ Resumes([p \in Proc |-> [data[p] EXCEPT !.stage = "name"]])
        \/ (~checked \/ Phases \notin {{4}, {5}}) /\ Resumes([p \in Proc |-> Receiving(p)])

ho_Next == (\E p \in Proc : ho_Work(p)) \/ ho_Round

-----------------------------------------------------------------------------
NameOf(v, b) == LET w == data[input.owner[v]].vp[v] IN w.name[w.partition[b]]

\* What can be reached from a without passing v.
Around(v, a) ==
  LET within[n \in Nat] ==
        IF n = 0 THEN {a}
        ELSE LET known == within[n - 1] IN known \cup (UNION {Targets(u) : u \in known} \ {v})
  IN within[Cardinality(Vertex)]

\* Two edges of a vertex have the same name if their other ends are connected
\* without it, and only then.
Biconnected ==
  input.algorithm = "hohberg_biconnected_components" /\ done =>
    \A v \in Vertex : \A a, b \in Targets(v) : NameOf(v, a) = NameOf(v, b) <=> b \in Around(v, a)
=============================================================================
