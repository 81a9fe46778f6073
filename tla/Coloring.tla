------------------------------ MODULE Coloring ------------------------------
(***************************************************************************)
(* boman_et_al_graph_coloring with first_fit_color.  In each round every   *)
(* process colors a block of its vertices from what it knows, and sends    *)
(* the colors to the owners of the neighbors; of two neighbors that took   *)
(* the same color the lower is colored again, after the rounds.            *)
(*                                                                         *)
(* A process that has run out of blocks receives when the rounds are over; *)
(* here it does at once, as it does not look at the colors until then.     *)
(***************************************************************************)
EXTENDS BSP

no_color == MaxDist
BlockSize == input.param
BlocksOf(n) == (n + BlockSize - 1) \div BlockSize

color_Start(p) ==
  [color |-> [v \in Vertex |-> no_color], vertices_to_color |-> SetToSortSeq(Local(p), <),
   first |-> 1, conflicting_vertices |-> << >>,
   rounds |-> Max({BlocksOf(Cardinality(Local(q))) : q \in Proc}), sends |-> << >>]

Block(d) == SubSeq(d.vertices_to_color, d.first, Min({d.first + BlockSize - 1, Len(d.vertices_to_color)}))

first_fit_color(marked) == CHOOSE k \in 0 .. Cardinality(Vertex) : k \notin marked /\ \A j \in 0 .. k - 1 : j \in marked

ColorVertex(d, p, v) ==
  LET k == first_fit_color({d.color[u] : u \in Targets(v)} \ {no_color})
      owners == {input.owner[u] : u \in Targets(v)} \ {p}
  IN [d EXCEPT !.color[v] = k,
               !.sends = @ \o SetToSeq({[to |-> q, body |-> [v |-> v, color |-> k]] : q \in owners})]

color_Block(p) ==
  /\ Runs("boman_et_al_graph_coloring") /\ Turn(p) /\ data[p].rounds > 0
  /\ LET d == Loop(LAMBDA e, v : ColorVertex(e, p, v), data[p], Block(data[p]))
     IN Works(p, [d EXCEPT !.sends = << >>], d.sends, "sync")

\* std::less of the descriptors: the owner comes first.
ordering(v, w) == input.owner[v] < input.owner[w] \/ (Own(input.owner[w], v) /\ v < w)

Cached(d, m) == [d EXCEPT !.color[m.v] = m.color]
Conflicts(d, p, v) == \E w \in Targets(v) : ~Own(p, w) /\ d.color[v] = d.color[w] /\ ordering(v, w)
EndOfBlock_Before(d, p, received) ==
  LET again == SelectSeq(Block(d), LAMBDA v : Conflicts(d, p, v))
      cached == Loop(Cached, d, received)
  IN [cached EXCEPT !.conflicting_vertices = @ \o again, !.first = @ + BlockSize, !.rounds = @ - 1,
                    !.color = [v \in Vertex |-> IF v \in {again[k] : k \in DOMAIN again} THEN no_color ELSE @[v]]]
EndOfBlock(d, p, received) ==
  LET cached == Loop(Cached, d, received)
      again == SelectSeq(Block(d), LAMBDA v : Conflicts(cached, p, v))
  IN [cached EXCEPT !.conflicting_vertices = @ \o again, !.first = @ + BlockSize, !.rounds = @ - 1,
                    !.color = [v \in Vertex |-> IF v \in {again[k] : k \in DOMAIN again} THEN no_color ELSE @[v]]]

NumColors(d, p) == Cardinality({d.color[v] : v \in Local(p)})

color_Round ==
  LET new == [p \in Proc |-> EndOfBlock(data[p], p, Received(p))]
      over == \A p \in Proc : new[p].rounds = 0
      rounds == Max({BlocksOf(Len(new[p].conflicting_vertices)) : p \in Proc})
      again == [p \in Proc |-> [new[p] EXCEPT !.vertices_to_color = new[p].conflicting_vertices, !.first = 1,
                                              !.conflicting_vertices = << >>, !.rounds = rounds]]
  IN /\ Runs("boman_et_al_graph_coloring") /\ AllSync
     /\ \/ ~over /\ Resumes(new)
        \/ over /\ rounds > 0 /\ Resumes(again)
        \/ over /\ rounds = 0 /\ Returns(new, << Max({NumColors(new[p], p) : p \in Proc}) >>)

color_Next == (\E p \in Proc : color_Block(p)) \/ color_Round

-----------------------------------------------------------------------------
ColorOf(v) == data[input.owner[v]].color[v]

\* Every vertex ends with a color that no neighbor has, and that is at most its
\* degree; conflicts between processes have all been seen by exactly one of them.
ProperlyColored ==
  input.algorithm = "boman_et_al_graph_coloring" /\ done =>
    \A v \in Vertex :
      ColorOf(v) <= Cardinality(Targets(v)) /\ \A w \in Targets(v) : ColorOf(v) # ColorOf(w)

=============================================================================
