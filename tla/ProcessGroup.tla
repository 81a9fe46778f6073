---------------------------- MODULE ProcessGroup ----------------------------
(***************************************************************************)
(* mpi_process_group: messages are collected into batches for each         *)
(* process; a batch leaves when it is full or when its process             *)
(* synchronizes.  synchronize goes through stages: in each, every process  *)
(* tells every other how many batches to expect, or -1 when it had nothing *)
(* new to send, waits until all have done so and the batches are in, and   *)
(* sends what the handlers of these messages have sent.                    *)
(*                                                                         *)
(* A message is the route it still has to go, with the superstep in which  *)
(* it was sent: its handler passes it on to the first process of the       *)
(* route.  Batches are received by MPI_Irecv and the counts by probing, so *)
(* that a batch and a count of one process may be seen in either order.    *)
(* The pool of 250 send buffers, the limit on the bytes of a batch, and    *)
(* out-of-band messages are left out.                                      *)
(***************************************************************************)
EXTENDS Integers, Sequences, FiniteSets, SequencesExt, Functions

CONSTANTS
  Proc,                 \* 0 .. P-1
  batch_header_number,  \* messages in a full batch
  Routes,               \* what the program may send in a superstep
  MaxSends, MaxStep     \* bounds on the sends of a process and its supersteps

ASSUME ProcessGroupAssumption ==
  /\ IsFiniteSet(Proc) /\ Proc = 0 .. Cardinality(Proc) - 1 /\ Proc # {}
  /\ batch_header_number \in Nat \ {0}
  /\ Routes \subseteq Seq(Proc) /\ << >> \notin Routes
  /\ MaxSends \in Nat /\ MaxStep \in Nat

VARIABLES
  pc,             \* "work", or where in synchronize
  impl,           \* the fields of struct impl
  batches, counts,\* [from][to]: sent over MPI and not received
  step, sends     \* supersteps done; messages the program has sent in all

group_vars == <<pc, impl, batches, counts, step, sends>>

Zero == [q \in Proc |-> 0]
Nobody == [q \in Proc |-> << >>]
Impl0 == [outgoing |-> Nobody, number_sent_batches |-> Zero, number_received_batches |-> Zero,
          new_batches |-> << >>, processing |-> << >>, synchronizing_stage |-> [q \in Proc |-> -1],
          synchronizing_unfinished |-> << >>, processors_synchronizing_stage |-> << >>,
          stage |-> -1, no_new_messages |-> FALSE, dest |-> 0]

ProcessGroupInit ==
  /\ pc = [p \in Proc |-> "work"]
  /\ impl = [p \in Proc |-> Impl0]
  /\ batches = [p \in Proc |-> Nobody] /\ counts = [p \in Proc |-> Nobody]
  /\ step = [p \in Proc |-> 0] /\ sends = [p \in Proc |-> 0]

-----------------------------------------------------------------------------
(* Sending and handling.  out: the fields and the wires of the process that    *)
(* sends.                                                                      *)

Out(p) == [impl |-> impl[p], wire |-> batches[p]]
\* A batch for the process itself is queued: it is received next.
send_batch(out, me, dest) ==
  LET batch == out.impl.outgoing[dest]
      sent == [out EXCEPT !.impl.outgoing[dest] = << >>, !.impl.number_sent_batches[dest] = @ + 1]
  IN CASE batch = << >> -> out
       [] batch # << >> /\ dest = me ->
            [sent EXCEPT !.impl.new_batches = Append(@, [source |-> me, messages |-> batch])]
       [] OTHER -> [sent EXCEPT !.wire[dest] = Append(@, batch)]

Full_TooLate(messages) == Len(messages) > batch_header_number
Full(messages) == Len(messages) >= batch_header_number

Message(me, route) == [route |-> Tail(route), step |-> step[me]]
send(out, me, route) ==
  LET dest == Head(route)
      queued == [out EXCEPT !.impl.outgoing[dest] = Append(@, Message(me, route))]
  IN IF Full(queued.impl.outgoing[dest]) THEN send_batch(queued, me, dest) ELSE queued

\* The messages of a batch wait in `processing' until they are handled.
receive_batch(im, source, messages) ==
  [im EXCEPT !.number_received_batches[source] = @ + 1, !.processing = messages]

Sets(p, out) ==
  /\ impl' = [impl EXCEPT ![p] = out.impl]
  /\ batches' = [batches EXCEPT ![p] = out.wire]

\* The handler of a message passes it on, if it has a way to go.
process_batch(p) ==
  /\ impl[p].processing # << >>
  /\ LET m == Head(impl[p].processing)
         out == [Out(p) EXCEPT !.impl.processing = Tail(@)]
     IN Sets(p, IF m.route = << >> THEN out ELSE send(out, p, m.route))
  /\ UNCHANGED <<pc, counts, step, sends>>

\* Batches that wait are processed before the process does anything else.
ProcessQueued(p) ==
  /\ impl[p].processing = << >> /\ impl[p].new_batches # << >>
  /\ LET b == Head(impl[p].new_batches)
         im == receive_batch(impl[p], b.source, b.messages)
     IN impl' = [impl EXCEPT ![p] = [im EXCEPT !.new_batches = Tail(@)]]
  /\ UNCHANGED <<pc, batches, counts, step, sends>>

Free(p) == impl[p].processing = << >> /\ impl[p].new_batches = << >>
Send(p) ==
  /\ pc[p] = "work" /\ Free(p) /\ sends[p] < MaxSends /\ step[p] < MaxStep
  /\ \E route \in Routes : Sets(p, send(Out(p), p, route))
  /\ sends' = [sends EXCEPT ![p] = @ + 1]
  /\ UNCHANGED <<pc, counts, step>>

-----------------------------------------------------------------------------
(* poll: in a superstep when the program asks for it, and in synchronize: after each  *)
(* MPI_Isend of a count, while that is under way, and in the two loops that wait.     *)

JustSent(p) == pc[p] = "send" /\ impl[p].dest \notin {0, p + 1}
Polls(p) == Free(p) /\ (pc[p] \in {"work", "wait", "drain"} \/ JustSent(p))

handle_batch(p, source) ==
  /\ Polls(p) /\ batches[source][p] # << >>
  /\ impl' = [impl EXCEPT ![p] = receive_batch(@, source, Head(batches[source][p]))]
  /\ batches' = [batches EXCEPT ![source][p] = Tail(@)]
  /\ UNCHANGED <<pc, counts, step, sends>>

\* The two sequences grow by one when the first process reaches a stage.
Added(s, stage, i) == IF Len(s) <= stage THEN Append(s, i) ELSE [s EXCEPT ![stage + 1] = @ + i]
Reached(im, stage, unfinished) ==
  [im EXCEPT
     !.synchronizing_unfinished = Added(im.synchronizing_unfinished, stage, IF unfinished THEN 1 ELSE 0),
     !.processors_synchronizing_stage = Added(im.processors_synchronizing_stage, stage, 1)]

handle_sync_IgnoresCount(p, source) ==
  /\ Polls(p) /\ counts[source][p] # << >>
  /\ LET val == Head(counts[source][p])
         stage == impl[p].synchronizing_stage[source] + 1
         im == Reached(impl[p], stage, val >= 0)
     IN impl' = [impl EXCEPT ![p] = [im EXCEPT !.synchronizing_stage[source] = stage]]
  /\ counts' = [counts EXCEPT ![source][p] = Tail(@)]
  /\ UNCHANGED <<pc, batches, step, sends>>
handle_sync(p, source) ==
  /\ Polls(p) /\ counts[source][p] # << >>
  /\ LET val == Head(counts[source][p])
         stage == impl[p].synchronizing_stage[source] + 1
         im == Reached(impl[p], stage, val >= 0)
     IN impl' = [impl EXCEPT ![p] =
                   [im EXCEPT !.synchronizing_stage[source] = stage,
                              !.number_received_batches[source] = IF val > 0 THEN @ - val ELSE @]]
  /\ counts' = [counts EXCEPT ![source][p] = Tail(@)]
  /\ UNCHANGED <<pc, batches, step, sends>>

-----------------------------------------------------------------------------
(* synchronize *)

StartStage(im, p, no_new) ==
  [Reached(im, im.stage + 1, ~no_new) EXCEPT
     !.stage = @ + 1, !.synchronizing_stage[p] = im.stage + 1,
     !.no_new_messages = no_new, !.dest = 0]

synchronize(p) ==
  /\ pc[p] = "work" /\ Free(p) /\ step[p] < MaxStep
  /\ LET im == [impl[p] EXCEPT !.stage = -1]
     IN impl' = [impl EXCEPT ![p] = StartStage(im, p, FALSE)]
  /\ pc' = [pc EXCEPT ![p] = "send"]
  /\ UNCHANGED <<batches, counts, step, sends>>

\* One turn of the loop over all processes: an MPI_Isend, after which the process polls,
\* or for the process itself a subtraction, after which it does not.
SendCount(p) ==
  LET im == impl[p]
      dest == im.dest
      next == [im EXCEPT !.number_sent_batches[dest] = 0, !.dest = @ + 1]
  IN /\ pc[p] = "send" /\ Free(p)
     /\ IF dest = p
        THEN /\ impl' = [impl EXCEPT ![p] =
                  [next EXCEPT !.number_received_batches[p] = @ - im.number_sent_batches[p]]]
             /\ UNCHANGED counts
        ELSE /\ counts' = [counts EXCEPT ![p][dest] =
                  Append(@, IF im.no_new_messages THEN -1 ELSE im.number_sent_batches[dest])]
             /\ impl' = [impl EXCEPT ![p] = next]
     /\ pc' = [pc EXCEPT ![p] = IF dest + 1 \in Proc THEN "send" ELSE "wait"]
     /\ UNCHANGED <<batches, step, sends>>

AllHere_AtOnce(p) ==
  /\ pc[p] = "wait" /\ Free(p)
  /\ pc' = [pc EXCEPT ![p] = "drain"]
  /\ UNCHANGED <<impl, batches, counts, step, sends>>
AllHere(p) ==
  /\ pc[p] = "wait" /\ Free(p)
  /\ impl[p].processors_synchronizing_stage[impl[p].stage + 1] >= Cardinality(Proc)
  /\ pc' = [pc EXCEPT ![p] = "drain"]
  /\ UNCHANGED <<impl, batches, counts, step, sends>>

Drained_AtOnce(p) == TRUE
Drained(p) == \A q \in Proc : impl[p].number_received_batches[q] >= 0
Finished(p) == impl[p].synchronizing_unfinished[impl[p].stage + 1] = 0

\* The loop over the processes is run in order: a batch for the process itself is
\* processed before later ones are sent.
Flush(p) ==
  /\ pc[p] = "drain" /\ Free(p) /\ Drained(p) /\ ~Finished(p)
  /\ impl' = [impl EXCEPT ![p].no_new_messages = TRUE, ![p].dest = 0]
  /\ pc' = [pc EXCEPT ![p] = "flush"]
  /\ UNCHANGED <<batches, counts, step, sends>>
FlushTo(p) ==
  LET im == impl[p]
      dest == im.dest
      no_new == im.no_new_messages
                /\ im.outgoing[dest] = << >> /\ im.number_sent_batches[dest] <= 0
      out == send_batch(Out(p), p, dest)
  IN /\ pc[p] = "flush" /\ Free(p)
     /\ IF dest \in Proc
        THEN /\ Sets(p, [out EXCEPT !.impl.no_new_messages = no_new, !.impl.dest = @ + 1])
             /\ UNCHANGED pc
        ELSE /\ impl' = [impl EXCEPT ![p] = StartStage(im, p, im.no_new_messages)]
             /\ pc' = [pc EXCEPT ![p] = "send"]
             /\ UNCHANGED batches
     /\ UNCHANGED <<counts, step, sends>>

EnterBarrier(p) ==
  /\ pc[p] = "drain" /\ Free(p) /\ Drained(p) /\ Finished(p)
  /\ pc' = [pc EXCEPT ![p] = "barrier"]
  /\ UNCHANGED <<impl, batches, counts, step, sends>>

LeaveBarrier_KeepsStages(p) ==
  /\ pc[p] = "barrier"
  /\ \A q \in Proc : pc[q] = "barrier" \/ step[q] > step[p]
  /\ pc' = [pc EXCEPT ![p] = "work"]
  /\ step' = [step EXCEPT ![p] = @ + 1]
  /\ impl' = [impl EXCEPT ![p].synchronizing_unfinished = << >>,
                          ![p].processors_synchronizing_stage = << >>]
  /\ UNCHANGED <<batches, counts, sends>>
\* MPI_Barrier returns; the records of the stages are cleared.
LeaveBarrier(p) ==
  /\ pc[p] = "barrier"
  /\ \A q \in Proc : pc[q] = "barrier" \/ step[q] > step[p]
  /\ pc' = [pc EXCEPT ![p] = "work"]
  /\ step' = [step EXCEPT ![p] = @ + 1]
  /\ impl' = [impl EXCEPT ![p].synchronizing_stage = [q \in Proc |-> -1],
                          ![p].synchronizing_unfinished = << >>,
                          ![p].processors_synchronizing_stage = << >>]
  /\ UNCHANGED <<batches, counts, sends>>

Works(p) ==
  \/ process_batch(p) \/ ProcessQueued(p) \/ \E q \in Proc : handle_batch(p, q) \/ handle_sync(p, q)
  \/ SendCount(p) \/ AllHere(p) \/ Flush(p) \/ FlushTo(p) \/ EnterBarrier(p) \/ LeaveBarrier(p)

\* Every process has done its supersteps.
Done == (\A p \in Proc : step[p] = MaxStep) /\ UNCHANGED group_vars

ProcessGroupNext == (\E p \in Proc : Works(p) \/ Send(p) \/ synchronize(p)) \/ Done
ProcessGroupSpec == ProcessGroupInit /\ [][ProcessGroupNext]_group_vars

\* Processes run; the program calls synchronize in each of them; MPI delivers.
FairProcessGroupSpec ==
  ProcessGroupSpec /\ \A p \in Proc : WF_group_vars(Works(p)) /\ WF_group_vars(synchronize(p))

-----------------------------------------------------------------------------
(* Properties *)

ProcessGroupTypeOK ==
  \A p \in Proc :
    /\ pc[p] \in {"work", "send", "wait", "drain", "flush", "barrier"}
    /\ \A q \in Proc : /\ impl[p].number_sent_batches[q] \in Nat
                       /\ Len(impl[p].outgoing[q]) < batch_header_number
                       /\ impl[p].synchronizing_stage[q] \in -1 .. Len(impl[p].processors_synchronizing_stage)
    /\ impl[p].dest \in 0 .. Cardinality(Proc)

\* The assertions of handle_sync and of synchronize (the one after the barrier is commented
\* out in the code): the records of the stages grow by one; a process that goes on in a stage
\* has heard from all; all leave in the same stage, no word of it is still on its way, and
\* none goes on past a stage in which another has ended.
StagesInStep ==
  \A p, q \in Proc :
    /\ counts[q][p] # << >> /\ pc[p] # "barrier" =>
         LET stage == impl[p].synchronizing_stage[q] + 1
         IN stage <= Len(impl[p].synchronizing_unfinished)
    /\ pc[p] = "drain" => impl[p].synchronizing_stage[q] >= impl[p].stage
    /\ pc[p] = "barrier" /\ pc[q] = "barrier" /\ step[p] = step[q] =>
         /\ impl[p].synchronizing_stage[q] = impl[p].stage /\ impl[q].stage = impl[p].stage
         /\ counts[q][p] = << >>
    /\ pc[p] = "barrier" /\ pc[q] # "work" /\ step[p] = step[q] =>
         impl[q].stage <= impl[p].stage

\* The assertions at the end of synchronize: every batch was counted, by its
\* sender and by its receiver, and nothing waits to be sent.
CountsMatch ==
  \A p \in Proc : pc[p] = "barrier" =>
    /\ \A q \in Proc : impl[p].number_received_batches[q] = 0
    /\ \A q \in Proc : impl[p].outgoing[q] = << >>

\* What the documentation promises of synchronize: nobody leaves it before all have
\* entered it and every message of the superstep has been handled.
Waiting(p) ==
  LET of(messages, k) == Cardinality({i \in DOMAIN messages : messages[i].step = k})
      queued == impl[p].new_batches
      from(q, k) == of(impl[q].outgoing[p], k) + of(FlattenSeq(batches[q][p]), k)
  IN [k \in 0 .. MaxStep |->
        SumFunction([q \in Proc |-> from(q, k)])
          + of(impl[p].processing, k) + of(FlattenSeq([i \in DOMAIN queued |-> queued[i].messages]), k)]
Promised ==
  INSTANCE Supersteps WITH inside <- [p \in Proc |-> pc[p] # "work"],
                           inflight <- [p \in Proc |-> Waiting(p)]
KeepsPromise == Promised!SuperstepsSpec

\* A superstep ends in every process, once all have come to its end.
StepsEnd == \A p \in Proc : <>(step[p] = MaxStep)
=============================================================================
