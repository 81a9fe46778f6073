-------------------------- MODULE HookingComponents --------------------------
(***************************************************************************)
(* connected_components: each process finds the components of its own part *)
(* of the graph and a root for each; then, in rounds, roots hook to lesser *)
(* roots they are adjacent to, pointers jump until every root that ever    *)
(* hooked has a root for its parent, and the adjacency lists of those that *)
(* hooked go to their new roots.                                           *)
(*                                                                         *)
(* The parent map is a distributed property map: parent[v] is the value of *)
(* a vertex of the process, or the ghost cell of another's.  A put for     *)
(* another's vertex sets the ghost cell and is sent to the owner, and a    *)
(* get without a ghost cell asks the owner.  Adjacency lists are sorted    *)
(* and only their order matters, so that they are sets.                    *)
(***************************************************************************)
EXTENDS BSP

RunsCC == Runs("connected_components")

\* Descriptors are ordered by owner, then by number at the owner.
LocalNumber(v) == Cardinality({u \in Vertex : u < v /\ input.owner[u] = input.owner[v]})
Descriptors_less(x, y) == input.owner[x] < input.owner[y] \/ (input.owner[x] = input.owner[y] /\ x < y)
\* hashed_vertex_compare
v_compare(x, y) ==
  LocalNumber(x) < LocalNumber(y) \/ (LocalNumber(x) = LocalNumber(y) /\ input.owner[x] < input.owner[y])
LastOf(S) == CHOOSE x \in S : \A y \in S \ {x} : Descriptors_less(y, x)

-----------------------------------------------------------------------------
(* The property map. *)

Get(d, v) == IF v \in DOMAIN d.parent THEN d.parent[v] ELSE data[input.owner[v]].parent[v]
Put(d, v, x) == [d EXCEPT !.parent = (v :> x) @@ @]
\* A get of each v of S leaves a ghost cell.
Got(d, S) == [d EXCEPT !.parent = @ @@ [v \in S |-> Get(d, v)]]
\* synchronize(p), where keys are the ghost cells.
Refreshed(p, d, keys) == [d EXCEPT !.parent = [v \in Local(p) \cup keys |-> data[input.owner[v]].parent[v]]]
Adjacent(d) == UNION {d.adj[x] : x \in ToSet(d.roots)}

-----------------------------------------------------------------------------
(* Local components. *)

LocalComponent(v) ==
  LET within[n \in Nat] ==
        IF n = 0 THEN {v}
        ELSE LET known == within[n - 1]
             IN {u \in Vertex : u \in known \/ (input.owner[u] = input.owner[v] /\ \E w \in known : u \in Targets(w))}
  IN within[Cardinality(Vertex)]

cc_Start(p) ==
  LET root(v) == Min(LocalComponent(v)) IN
  [stage |-> "start", parent |-> [v \in Local(p) |-> root(v)],
   roots |-> SetToSortSeq({root(v) : v \in Local(p)}, <), old_roots |-> << >>, completed_roots |-> << >>,
   adj |-> [x \in Local(p) |-> UNION {{u \in Targets(v) : ~Own(p, u)} : v \in {v \in Local(p) : root(v) = x}}],
   hooked |-> FALSE, done |-> FALSE, inbox |-> << >>, sends |-> << >>, c |-> << >>]

\* cull_adjacency_list
Culled(d) ==
  LET seen == Got(d, Adjacent(d))
  IN [seen EXCEPT !.adj = [x \in DOMAIN @ |->
        IF x \in ToSet(d.roots) THEN {y \in @[x] : seen.parent[y] # x /\ y # x} ELSE @[x]]]

\* The lists of the roots become lists of roots.
Gathered(d) == Culled([d EXCEPT !.adj = [x \in DOMAIN @ |-> {Get(d, y) : y \in @[x]}]])
Dropped(d) == [d EXCEPT !.roots = SelectSeq(@, LAMBDA x : d.adj[x] # {})]

-----------------------------------------------------------------------------
(* A round. *)

Hooks(d, x) ==
  LET better == {y \in d.adj[x] : v_compare(Get(d, y), x)}
  IN IF better = {} THEN [d EXCEPT !.roots = Append(@, x)]
     ELSE [Put(d, x, Get(d, LastOf(better))) EXCEPT
             !.hooked = TRUE, !.old_roots = Append(@, x), !.completed_roots = Append(@, x)]
Hooked(d) == Loop(Hooks, [d EXCEPT !.hooked = FALSE, !.completed_roots = << >>, !.roots = << >>], d.roots)

\* The parents of the roots that hooked, by process.
parent_requests(d, q) == {y \in {d.parent[x] : x \in ToSet(d.old_roots)} : input.owner[y] = q}
Asks(p, d) ==
  [k \in 1 .. Cardinality(Proc) |-> [to |-> k - 1, body |-> [kind |-> "req_parents", keys |-> parent_requests(d, k - 1)]]]
Requested(p, d) == SelectSeq(Asks(p, d), LAMBDA m : m.to # p /\ m.body.keys # {})

Replies(d) ==
  [k \in DOMAIN d.inbox |->
     [to |-> d.inbox[k].from,
      body |-> [kind |-> "parents", parents |-> [v \in d.inbox[k].keys |-> d.parent[v]]]]]

\* The replies are put, and so sent back to the owners; then each pointer jumps.
PutReply(d, m) ==
  [d EXCEPT !.parent = m.parents @@ @,
            !.sends = @ \o [k \in 1 .. Cardinality(DOMAIN m.parents) |->
                 LET v == SetToSortSeq(DOMAIN m.parents, <)[k]
                 IN [to |-> input.owner[v], body |-> [kind |-> "put", v |-> v, parent |-> m.parents[v]]]]]
Jumps(d, x) == Put(d, x, Get(d, Get(d, x)))
Jumped(d) == Loop(Jumps, Loop(PutReply, [d EXCEPT !.inbox = << >>, !.sends = << >>], d.inbox), d.old_roots)

\* The parents whose own parents are not known here are asked for: their owners may
\* have handled a put or not.
Unknown(d) == {d.parent[x] : x \in ToSet(d.old_roots)} \ DOMAIN d.parent
Answer(v) ==
  {data[input.owner[v]].parent[v]}
    \cup UNION {{m.body.parent : m \in {m \in ToSet(data[q].sends) : m.body.v = v}} : q \in Proc}
Counted(d) == [d EXCEPT !.done = \A x \in ToSet(d.old_roots) : d.parent[x] = d.parent[d.parent[x]]]

\* The lists of those that hooked go to their parents.
Merges(p, d, x) ==
  LET y == d.parent[x] IN
  IF Own(p, y) THEN [d EXCEPT !.adj[y] = @ \cup d.adj[x]]
  ELSE IF d.adj[x] = {} THEN d
  ELSE [d EXCEPT !.adj[x] = {}, !.sends = Append(@, [to |-> input.owner[y], body |-> [kind |-> "edges", root |-> y, adj |-> d.adj[x]]])]
Merged_lists(p, d) == Loop(LAMBDA e, x : Merges(p, e, x), [d EXCEPT !.sends = << >>], d.completed_roots)
Received_lists(d) == Loop(LAMBDA e, m : [e EXCEPT !.adj[m.root] = @ \cup m.adj], [d EXCEPT !.inbox = << >>], d.inbox)

\* In the end every vertex takes the parent of its parent.
Finished_parents(p, d) == Loop(Jumps, d, SetToSortSeq(Local(p), <))

-----------------------------------------------------------------------------
Stage == data[0].stage
cc_Work(p) ==
  /\ RunsCC /\ Turn(p)
  /\ LET d == data[p]
         quiet(e) == Works(p, e, << >>, "sync")
     IN \/ Stage \in {"start", "drop"} /\ quiet(IF Stage = "drop" THEN Dropped(d) ELSE d)
        \/ Stage = "gather" /\ quiet(Gathered(d))
        \/ Stage = "hook" /\ \E e \in {Hooked(d)} : Works(p, e, Requested(p, e), "sync")
        \/ Stage = "ask" /\ Works(p, d, Requested(p, d), "sync")
        \/ Stage = "reply" /\ Works(p, [d EXCEPT !.inbox = << >>], Replies(d), "sync")
        \/ Stage = "count" /\ \E known \in [Unknown(d) -> UNION {Answer(v) : v \in Unknown(d)}] :
             /\ \A v \in Unknown(d) : known[v] \in Answer(v)
             /\ Works(p, Counted([d EXCEPT !.parent = @ @@ known]), d.sends, "sync")
        \/ Stage = "merge" /\ \E e \in {Merged_lists(p, d)} : Works(p, [e EXCEPT !.sends = << >>], e.sends, "sync")
        \/ Stage = "cull" /\ quiet(Culled(Received_lists(d)))
        \/ Stage = "finish" /\ quiet(Finished_parents(p, d))

\* A put is handled at once, other messages when the process receives.
cc_handle(d, p, from, m) ==
  [data |-> IF m.kind = "put" THEN Put(d, m.v, m.parent) ELSE [d EXCEPT !.inbox = Append(@, [from |-> from] @@ m)],
   sends |-> << >>]
cc_Handle == RunsCC /\ Handles(cc_handle)

Enters(stage, new) == Resumes([p \in Proc |-> [new[p] EXCEPT !.stage = stage]])
\* number_components_from_parents
MyRoots(p) == LET vs == SetToSortSeq(Local(p), <) IN [k \in DOMAIN vs |-> data[p].parent[vs[k]]]
AllRoots == FlattenSeq([k \in 1 .. Cardinality(Proc) |-> MyRoots(k - 1)])
ComponentNumber(all, x) ==
  LET first == Min({k \in DOMAIN all : all[k] = x}) IN Cardinality({all[k] : k \in 1 .. first - 1})
cc_Round ==
  /\ RunsCC /\ Quiet
  /\ \/ Stage = "start" /\ Enters("gather", [p \in Proc |-> Refreshed(p, data[p], Adjacent(data[p]))])
     \/ Stage = "gather" /\ Enters("drop", [p \in Proc |-> Refreshed(p, data[p], Adjacent(data[p]))])
     \/ Stage = "drop" /\ Enters("hook", [p \in Proc |-> Refreshed(p, data[p], DOMAIN data[p].parent)])
     \/ Stage \in {"hook", "ask"} /\ Enters("reply", data)
     \/ Stage = "reply" /\ Enters("count", [p \in Proc |-> Jumped(data[p])])
     \/ Stage = "count" /\ Enters(IF \A p \in Proc : data[p].done THEN "merge" ELSE "ask", data)
     \/ Stage = "merge" /\ Enters("cull", data)
     \/ /\ Stage = "cull"
        /\ IF \E p \in Proc : data[p].hooked
           THEN Enters("hook", [p \in Proc |-> Refreshed(p, data[p], DOMAIN data[p].parent)])
           ELSE Enters("finish", data)
     \/ /\ Stage = "finish"
        /\ \E all \in {AllRoots} :
             Returns([p \in Proc |-> [data[p] EXCEPT !.c = [v \in Local(p) |-> ComponentNumber(all, data[p].parent[v])]]],
                     << Cardinality(ToSet(all)) >>)

cc_Next == (\E p \in Proc : cc_Work(p)) \/ cc_Handle \/ cc_Round

=============================================================================
