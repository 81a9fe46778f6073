----------------------------- MODULE Supersteps -----------------------------
(***************************************************************************)
(* What a process group promises (Graph_Parallel/doc/process_group.rst):   *)
(* messages may come at any time after they are sent, handlers may answer  *)
(* them with more messages, and no process leaves synchronize before all   *)
(* have entered it and every message of the superstep has been received.   *)
(***************************************************************************)
EXTENDS Integers

CONSTANTS Proc, MaxStep

VARIABLES
  step,       \* how often a process has left synchronize
  inside,     \* whether it is in synchronize
  inflight    \* [receiver][superstep of the sender]: messages not yet handled

superstep_vars == <<step, inside, inflight>>

SuperstepsInit ==
  /\ step = [p \in Proc |-> 0] /\ inside = [p \in Proc |-> FALSE]
  /\ inflight = [p \in Proc |-> [k \in 0 .. MaxStep |-> 0]]

\* p handles some messages to itself, and sends; in synchronize it only answers.
Exchange(p) ==
  /\ \A k \in 0 .. MaxStep \ {step[p]} :
       /\ inflight'[p][k] <= inflight[p][k]
       /\ \A q \in Proc \ {p} : inflight'[q][k] = inflight[q][k]
       /\ k > step[p] => inflight'[p][k] = inflight[p][k]
  /\ \A q \in Proc \ {p} : inflight'[q][step[p]] >= inflight[q][step[p]]
  /\ inside[p] /\ inflight' # inflight => \E k \in 0 .. step[p] : inflight[p][k] > 0
  /\ UNCHANGED <<step, inside>>

Enter(p) ==
  /\ ~inside[p]
  /\ inside' = [inside EXCEPT ![p] = TRUE]
  /\ UNCHANGED <<step, inflight>>

Leave(p) ==
  /\ inside[p]
  /\ \A q \in Proc : step[q] > step[p] \/ inside[q]
  /\ \A q \in Proc : inflight[q][step[p]] = 0
  /\ step' = [step EXCEPT ![p] = @ + 1]
  /\ inside' = [inside EXCEPT ![p] = FALSE]
  /\ UNCHANGED inflight

SuperstepsNext == \E p \in Proc : Exchange(p) \/ Enter(p) \/ Leave(p)
SuperstepsSpec == SuperstepsInit /\ [][SuperstepsNext]_superstep_vars
=============================================================================
