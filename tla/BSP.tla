-------------------------------- MODULE BSP --------------------------------
(***************************************************************************)
(* The setting of the distributed graph algorithms.  Every process runs    *)
(* the same program over the vertices it owns; a superstep is some work    *)
(* of its own, in which it sends, and then synchronize.  What the process  *)
(* group does for them is that of Supersteps: messages of one process to   *)
(* another come in order, are handled by triggers while the receiver is in *)
(* synchronize, and have all been handled when it returns; without a       *)
(* trigger they are received afterwards.  After it, all_reduce shows every *)
(* process the same value.                                                 *)
(*                                                                         *)
(* Work between two synchronizes reads nothing that another process        *)
(* changes, so that it is enough to let the processes work one after the   *)
(* other (Turn), and the handlers run when all have done so.               *)
(***************************************************************************)
EXTENDS Integers, Sequences, FiniteSets, SequencesExt, FiniteSetsExt, Functions

CONSTANTS
  Proc,     \* 0 .. P-1
  MaxDist,  \* the largest value of the type of distances, colors and components
  Inputs    \* what the algorithms are called with

\* owner[v], out[v] (the out-edges in order, as [to, w]), the vertices s and t,
\* and param: the lookahead, delta or block size.
ASSUME InputsAssumption ==
  MaxDist \in Nat /\
  \A i \in Inputs :
    /\ \A v \in DOMAIN i.owner : i.owner[v] \in Proc
    /\ \A v \in DOMAIN i.owner : \A k \in DOMAIN i.out[v] : i.out[v][k].to \in DOMAIN i.owner /\ i.out[v][k].w \in Nat

VARIABLES
  input,    \* the call
  at,       \* [process] "work" or "sync"
  data,     \* [process] the variables of the algorithm
  mail,     \* [from][to] messages sent and not handled
  done,     \* whether the algorithm has returned
  result    \* what it returned

bsp_vars == <<input, at, data, mail, done, result>>

Vertex == DOMAIN input.owner  \* 0 .. n-1
Local(p) == {v \in Vertex : input.owner[v] = p}
Own(p, v) == input.owner[v] = p
Targets(v) == {input.out[v][k].to : k \in DOMAIN input.out[v]}
EmptyMail == [p \in Proc |-> [q \in Proc |-> << >>]]
\* What int addition gives when it passes the largest value (undefined; it wraps).
Wrapped(n) == IF n > MaxDist THEN n - 2 * (MaxDist + 1) ELSE n
MinOf(S) == IF S = {} THEN MaxDist ELSE Min(S)

\* op from left to right over s; each result is evaluated once.
Loop(op(_, _), d, s) == FoldLeft(LAMBDA e, x : CHOOSE r \in {op(y, x) : y \in {e}} : TRUE, d, s)

Starts(name, first(_)) ==
  /\ input.algorithm = name
  /\ data = [p \in Proc |-> first(p)]
  /\ at = [p \in Proc |-> "work"] /\ mail = EmptyMail
  /\ done = FALSE /\ result = << >>

Runs(name) == ~done /\ input.algorithm = name
Turn(p) == at[p] = "work" /\ \A q \in Proc : q < p => at[q] = "sync"

\* sends: a sequence of [to, body].
Post(p, sends) ==
  [mail EXCEPT ![p] = [q \in Proc |->
     LET mine == SelectSeq(sends, LAMBDA m : m.to = q)
     IN mail[p][q] \o [i \in DOMAIN mine |-> mine[i].body]]]

WorksOn(p, new, sends, next) ==
  /\ at[p] = "work"
  /\ data' = [data EXCEPT ![p] = new]
  /\ mail' = Post(p, sends)
  /\ at' = [at EXCEPT ![p] = next]
  /\ UNCHANGED <<input, done, result>>
Works(p, new, sends, next) == Turn(p) /\ WorksOn(p, new, sends, next)

AllSync == \A p \in Proc : at[p] = "sync"

\* handler(d, p, from, body) is the new data of p, and what it sends.
Handles(handler(_, _, _, _)) ==
  /\ AllSync
  /\ \E from, p \in Proc :
       /\ mail[from][p] # << >>
       /\ LET out == handler(data[p], p, from, Head(mail[from][p]))
          IN /\ data' = [data EXCEPT ![p] = out.data]
             /\ mail' = [Post(p, out.sends) EXCEPT ![from][p] = Tail(@)]
  /\ UNCHANGED <<input, at, done, result>>

Quiet == AllSync /\ mail = EmptyMail
\* What synchronize has left for p to receive, by source.
Received(p) == FlattenSeq([i \in 1 .. Cardinality(Proc) |-> mail[i - 1][p]])

Resumes(new) ==
  /\ data' = new
  /\ at' = [p \in Proc |-> "work"] /\ mail' = EmptyMail
  /\ UNCHANGED <<input, done, result>>
Returns(new, value) ==
  /\ data' = new
  /\ done' = TRUE /\ result' = value
  /\ UNCHANGED <<input, at, mail>>

Reachable(s) ==
  LET within[n \in Nat] ==
        IF n = 0 THEN {s}
        ELSE LET known == within[n - 1] IN {u \in Vertex : u \in known \/ \E v \in known : u \in Targets(v)}
  IN within[Cardinality(Vertex)]
=============================================================================
