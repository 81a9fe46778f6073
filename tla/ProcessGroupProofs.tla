------------------------- MODULE ProcessGroupProofs -------------------------
(***************************************************************************)
(* The stages of synchronize, for any number of processes, any batches and *)
(* any messages: types, and StagesInStep with the invariants that it needs *)
(* (what was heard and what is on its way make up what was told; what was  *)
(* said in a stage is said to all).  What batches carry plays no part.     *)
(***************************************************************************)
EXTENDS ProcessGroup, FiniteSetTheorems, TLAPS

P == Cardinality(Proc)
Msg == [route : Seq(Proc), step : Nat]
Batch == [source : Proc, messages : Seq(Msg)]
Impl ==
  [ outgoing : [Proc -> Seq(Msg)], number_sent_batches : [Proc -> Nat],
    number_received_batches : [Proc -> Int], new_batches : Seq(Batch), processing : Seq(Msg),
    synchronizing_stage : [Proc -> Int], synchronizing_unfinished : Seq(Nat),
    processors_synchronizing_stage : Seq(Nat), stage : Int, no_new_messages : BOOLEAN,
    dest : Nat ]
Wire == [Proc -> Seq(Seq(Msg))]
Place == {"work", "send", "wait", "drain", "flush", "barrier"}

\* No batch that is full stays with its process.
Fitting(im) == \A q \in Proc : Len(im.outgoing[q]) < batch_header_number

Types ==
  /\ pc \in [Proc -> Place] /\ impl \in [Proc -> Impl]
  /\ batches \in [Proc -> Wire] /\ counts \in [Proc -> [Proc -> Seq(Int)]]
  /\ step \in [Proc -> Nat] /\ sends \in [Proc -> Nat]

\* The records of the stages, and the stage the process is in.
Lengths(im) ==
  LET n == Len(im.processors_synchronizing_stage)
  IN /\ Len(im.synchronizing_unfinished) = n
     /\ \A q \in Proc : im.synchronizing_stage[q] \in -1 .. n - 1
OwnStage(im, p, place) ==
  /\ place = "work" => im.synchronizing_stage[p] = -1
  /\ place # "work" => im.stage \in Nat /\ im.synchronizing_stage[p] = im.stage

Good(im, p, place) ==
  /\ Fitting(im) /\ Lengths(im) /\ OwnStage(im, p, place)
  /\ im.dest \in 0 .. P /\ (place = "send" => im.dest \in Proc)
GroupTypes == Types /\ \A p \in Proc : Good(impl[p], p, pc[p])

\* The fields in which the stages of synchronize are recorded.
SameStages(im, old) ==
  /\ im.synchronizing_stage = old.synchronizing_stage
  /\ im.synchronizing_unfinished = old.synchronizing_unfinished
  /\ im.processors_synchronizing_stage = old.processors_synchronizing_stage
  /\ im.stage = old.stage
SameLoop(im, old) == im.no_new_messages = old.no_new_messages /\ im.dest = old.dest

LEMMA ProcIs == P \in Nat \ {0} /\ Proc = 0 .. P - 1 /\ IsFiniteSet(Proc)
<1>1. P \in Nat
  BY ProcessGroupAssumption, FS_CardinalityType DEF P
<1> QED
  BY <1>1, ProcessGroupAssumption DEF P

-----------------------------------------------------------------------------
(* Sending *)

Outs == [ impl : Impl, wire : Wire ]

\* What sending changes of a process that was im.
Sent(out, im) ==
  /\ out \in Outs /\ Fitting(out.impl)
  /\ SameStages(out.impl, im) /\ SameLoop(out.impl, im)

LEMMA SentIs ==
  ASSUME NEW im \in Impl, NEW im2 \in Impl, NEW w \in Wire, Fitting(im2),
         SameStages(im2, im), SameLoop(im2, im)
  PROVE  Sent([impl |-> im2, wire |-> w], im)
BY DEF Sent, Outs

LEMMA SameThrough ==
  ASSUME NEW out, NEW im, NEW im2, Sent(out, im2),
         SameStages(im2, im), SameLoop(im2, im)
  PROVE  Sent(out, im)
BY DEF Sent, SameStages, SameLoop

LEMMA BatchTyped ==
  ASSUME NEW out \in Outs, NEW me \in Proc, NEW dest \in Proc,
         \A q \in Proc : q # dest => Len(out.impl.outgoing[q]) < batch_header_number,
         out.impl.outgoing[dest] = << >> => Fitting(out.impl)
  PROVE  Sent(send_batch(out, me, dest), out.impl)
<1> DEFINE batch == out.impl.outgoing[dest]
           im == out.impl
           left == [im.outgoing EXCEPT ![dest] = << >>]
           number == [im.number_sent_batches EXCEPT ![dest] = @ + 1]
           one == [source |-> me, messages |-> batch]
           im2 == [im EXCEPT !.outgoing = left, !.number_sent_batches = number]
           im3 == [im2 EXCEPT !.new_batches = Append(@, one)]
           wire2 == [out.wire EXCEPT ![dest] = Append(@, batch)]
<1>1. im \in Impl /\ out.wire \in Wire /\ out = [impl |-> im, wire |-> out.wire]
  BY DEF Outs
<1>2. /\ im.outgoing \in [Proc -> Seq(Msg)] /\ im.number_sent_batches \in [Proc -> Nat]
      /\ im.new_batches \in Seq(Batch) /\ batch \in Seq(Msg)
  BY <1>1 DEF Impl
<1>3. left \in [Proc -> Seq(Msg)] /\ number \in [Proc -> Nat]
  BY <1>2
<1>4. /\ im2 \in Impl /\ im2.outgoing = left /\ im2.new_batches = im.new_batches
  BY <1>1, <1>3 DEF Impl
<1>5. SameStages(im2, im) /\ SameLoop(im2, im)
  BY <1>1 DEF Impl, SameStages, SameLoop
<1>6. one \in Batch /\ Append(im2.new_batches, one) \in Seq(Batch)
  BY <1>2, <1>4 DEF Batch
<1>7. /\ im3 \in Impl /\ im3.outgoing = im2.outgoing
      /\ SameStages(im3, im2) /\ SameLoop(im3, im2)
  <2> HIDE DEF im2, one
  <2> QED
    BY <1>4, <1>6 DEF Impl, SameStages, SameLoop
<1>8. wire2 \in Wire
  BY <1>1, <1>2 DEF Wire
<1>9. \A q \in Proc : Len(left[q]) < batch_header_number
  BY <1>2, ProcessGroupAssumption
<1>10. Fitting(im2) /\ Fitting(im3)
  BY <1>4, <1>7, <1>9 DEF Fitting
<1>11. SameStages(im3, im) /\ SameLoop(im3, im)
  BY <1>4, <1>5, <1>7 DEF SameStages, SameLoop
<1>12. CASE batch = << >>
  BY <1>12 DEF send_batch, SameStages, SameLoop, Sent
<1>13. CASE batch # << >> /\ dest = me
  <2>1. send_batch(out, me, dest) = [impl |-> im3, wire |-> out.wire]
    BY <1>1, <1>13 DEF send_batch, Impl
  <2> HIDE DEF im3
  <2> QED
    BY <1>1, <1>7, <1>10, <1>11, <2>1, SentIs
<1>14. CASE batch # << >> /\ dest # me
  <2>1. send_batch(out, me, dest) = [impl |-> im2, wire |-> wire2]
    BY <1>1, <1>14 DEF send_batch, Impl
  <2> HIDE DEF im2, wire2
  <2> QED
    BY <1>1, <1>4, <1>5, <1>8, <1>10, <2>1, SentIs
<1> QED
  BY <1>12, <1>13, <1>14

LEMMA NestedUpdate ==
  ASSUME NEW out \in Outs, NEW d \in Proc, NEW x \in Seq(Msg),
         NEW y, y = [out EXCEPT !.impl.outgoing[d] = x]
  PROVE  y = [impl |-> [out.impl EXCEPT !.outgoing = [out.impl.outgoing EXCEPT ![d] = x]],
              wire |-> out.wire]
<1>1. y.impl = [out.impl EXCEPT !.outgoing = [out.impl.outgoing EXCEPT ![d] = x]]
  BY DEF Outs, Impl
<1>2. y.wire = out.wire
  BY DEF Outs, Impl
<1>3. y = [impl |-> y.impl, wire |-> y.wire]
  BY DEF Outs, Impl
<1> QED
  BY <1>1, <1>2, <1>3

LEMMA NestedProcessing ==
  ASSUME NEW out \in Outs, NEW x \in Seq(Msg), NEW y, y = [out EXCEPT !.impl.processing = x]
  PROVE  y = [impl |-> [out.impl EXCEPT !.processing = x], wire |-> out.wire]
<1>1. y.impl = [out.impl EXCEPT !.processing = x]
  BY DEF Outs, Impl
<1>2. y.wire = out.wire
  BY DEF Outs, Impl
<1>3. y = [impl |-> y.impl, wire |-> y.wire]
  BY DEF Outs, Impl
<1> QED
  BY <1>1, <1>2, <1>3

LEMMA SendTyped ==
  ASSUME NEW out \in Outs, NEW me \in Proc, NEW route \in Seq(Proc), route # << >>,
         Fitting(out.impl), step[me] \in Nat
  PROVE  Sent(send(out, me, route), out.impl)
<1> DEFINE dest == Head(route)
           im == out.impl
           m == Message(me, route)
           more == [im.outgoing EXCEPT ![dest] = Append(@, m)]
           im2 == [im EXCEPT !.outgoing = more]
           queued == [out EXCEPT !.impl.outgoing[dest] = Append(@, m)]
<1>1. im \in Impl /\ out.wire \in Wire /\ out = [impl |-> im, wire |-> out.wire]
  BY DEF Outs
<1>2. dest \in Proc /\ Tail(route) \in Seq(Proc)
  OBVIOUS
<1>3. m \in Msg
  BY <1>2 DEF Message, Msg
<1>4. im.outgoing \in [Proc -> Seq(Msg)] /\ im.outgoing[dest] \in Seq(Msg)
  BY <1>1, <1>2 DEF Impl
<1>5. more \in [Proc -> Seq(Msg)] /\ more[dest] = Append(im.outgoing[dest], m)
  BY <1>2, <1>3, <1>4
<1>6. im2 \in Impl /\ im2.outgoing = more /\ SameStages(im2, im) /\ SameLoop(im2, im)
  BY <1>1, <1>5 DEF Impl, SameStages, SameLoop
<1>7. /\ queued \in Outs /\ queued.impl = im2
      /\ send(out, me, route) = IF Full(more[dest]) THEN send_batch(queued, me, dest) ELSE queued
  <2>1. queued = [impl |-> im2, wire |-> out.wire]
    <3>1. PICK new \in Seq(Msg) : new = Append(im.outgoing[dest], m)
      <4>1. PICK old \in Seq(Msg), n \in Msg : old = im.outgoing[dest] /\ n = m
        BY <1>3, <1>4
      <4>2. Append(old, n) \in Seq(Msg)
        OBVIOUS
      <4> QED
        BY <4>1, <4>2
    <3>2. queued = [out EXCEPT !.impl.outgoing[dest] = new]
      <4> HIDE DEF m
      <4> QED
        BY <1>1, <3>1
    <3>3. im2 = [im EXCEPT !.outgoing = [im.outgoing EXCEPT ![dest] = new]]
      BY <3>1
    <3> HIDE DEF queued, im2
    <3> QED
      BY <1>1, <1>2, <3>2, <3>3, NestedUpdate
  <2>2. queued.impl.outgoing[dest] = more[dest]
    BY <1>6, <2>1
  <2> QED
    BY <1>1, <1>6, <2>1, <2>2 DEF Outs, send
<1> HIDE DEF queued, im2, m
<1>8. \A q \in Proc : q # dest => Len(im2.outgoing[q]) < batch_header_number
  BY <1>2, <1>4, <1>6 DEF Fitting
<1>9. Len(more[dest]) = Len(im.outgoing[dest]) + 1 /\ more[dest] # << >>
  <2>1. PICK s \in Seq(Msg) : s = im.outgoing[dest]
    BY <1>4
  <2>2. PICK n \in Msg : n = m
    BY <1>3
  <2>3. more[dest] = Append(s, n)
    BY <1>5, <2>1, <2>2
  <2>4. Len(Append(s, n)) = Len(s) + 1 /\ Append(s, n) # << >>
    OBVIOUS
  <2> QED
    BY <2>1, <2>3, <2>4
<1>10. CASE Full(more[dest])
  <2>1. send(out, me, route) = send_batch(queued, me, dest)
    BY <1>7, <1>10
  <2>2. Sent(send_batch(queued, me, dest), im2)
    BY <1>2, <1>6, <1>7, <1>8, <1>9, BatchTyped
  <2> QED
    BY <1>6, <2>1, <2>2, SameThrough
<1>11. CASE ~Full(more[dest])
  <2>1. Len(im2.outgoing[dest]) < batch_header_number
    BY <1>4, <1>6, <1>9, <1>11, ProcessGroupAssumption DEF Full
  <2> QED
    BY <1>6, <1>7, <1>8, <1>11, <2>1 DEF Fitting, Sent
<1> QED
  BY <1>10, <1>11
-----------------------------------------------------------------------------
(* What a step does to the stages.  One process acts. *)

Only(p, im, place) ==
  /\ impl' = [impl EXCEPT ![p] = im] /\ pc' = [pc EXCEPT ![p] = place]

\* It sends and handles what others sent.
Handles(p) ==
  /\ \E im \in Impl : /\ Only(p, im, pc[p])
                      /\ SameStages(im, impl[p]) /\ SameLoop(im, impl[p])
  /\ UNCHANGED <<counts, step>>

\* It goes on within synchronize.
GoesOn(p) ==
  /\ \E im \in Impl, place \in Place : Only(p, im, place) /\ SameStages(im, impl[p])
  /\ LET im == impl[p]
     IN \/ /\ pc[p] = "wait" /\ pc'[p] = "drain"
           /\ im.processors_synchronizing_stage[im.stage + 1] >= P
        \/ /\ pc[p] = "drain" /\ pc'[p] = "flush"
           /\ im.synchronizing_unfinished[im.stage + 1] # 0
        \/ pc[p] = "flush" /\ pc'[p] = "flush"
        \/ /\ pc[p] = "drain" /\ pc'[p] = "barrier"
           /\ im.synchronizing_unfinished[im.stage + 1] = 0
  /\ UNCHANGED <<counts, step>>

\* The records im become im2: process q has reached a stage, with i = 1 if it had sent.
Records(im2, im, q, stage, i) ==
  /\ im2.synchronizing_stage = [im.synchronizing_stage EXCEPT ![q] = stage]
  /\ im2.synchronizing_unfinished = Added(im.synchronizing_unfinished, stage, i)
  /\ im2.processors_synchronizing_stage = Added(im.processors_synchronizing_stage, stage, 1)

\* It reads the oldest word of q.
Hears(p, q) ==
  /\ pc[p] \notin {"flush", "barrier"} /\ counts[q][p] # << >>
  /\ \E im \in Impl :
       /\ Only(p, im, pc[p])
       /\ \E i \in {0, 1} :
            /\ i = 1 <=> Head(counts[q][p]) >= 0
            /\ Records(im, impl[p], q, impl[p].synchronizing_stage[q] + 1, i)
       /\ im.stage = impl[p].stage /\ SameLoop(im, impl[p])
  /\ counts' = [counts EXCEPT ![q][p] = Tail(@)]
  /\ UNCHANGED step

\* It enters a stage.
StartsStage(p, stage, no_new) ==
  /\ \/ pc[p] = "work" /\ stage = 0
     \/ pc[p] = "flush" /\ stage = impl[p].stage + 1
  /\ \E im \in Impl :
       /\ Only(p, im, "send")
       /\ \E i \in {0, 1} : (i = 0 <=> no_new) /\ Records(im, impl[p], p, stage, i)
       /\ im.stage = stage /\ im.no_new_messages = no_new /\ im.dest = 0
  /\ UNCHANGED <<counts, step>>

\* It tells the next process.
Tells(p) ==
  LET dest == impl[p].dest
  IN /\ pc[p] = "send"
     /\ \E im \in Impl :
          /\ Only(p, im, IF dest + 1 \in Proc THEN "send" ELSE "wait")
          /\ SameStages(im, impl[p]) /\ im.no_new_messages = impl[p].no_new_messages
          /\ im.dest = dest + 1
     /\ IF dest = p THEN UNCHANGED counts
        ELSE \E val \in Int : /\ counts' = [counts EXCEPT ![p][dest] = Append(@, val)]
                              /\ val >= 0 <=> ~impl[p].no_new_messages
     /\ UNCHANGED step

\* It leaves the barrier.
Leaves(p) ==
  /\ pc[p] = "barrier" /\ \A q \in Proc : pc[q] = "barrier" \/ step[q] > step[p]
  /\ \E im \in Impl :
       /\ Only(p, im, "work") /\ im.stage = impl[p].stage
       /\ im.synchronizing_stage = [q \in Proc |-> -1]
       /\ im.synchronizing_unfinished = << >> /\ im.processors_synchronizing_stage = << >>
  /\ step' = [step EXCEPT ![p] = @ + 1]
  /\ UNCHANGED counts

Kinds(p) ==
  \/ Handles(p) \/ GoesOn(p) \/ Tells(p) \/ Leaves(p)
  \/ \E q \in Proc : Hears(p, q)
  \/ \E stage \in Nat, no_new \in BOOLEAN : StartsStage(p, stage, no_new)

\* The types after a step of p.
LEMMA TypesStep ==
  ASSUME GroupTypes, NEW p \in Proc, NEW im \in Impl, NEW place \in Place, Only(p, im, place),
         Good(im, p, place), batches' \in [Proc -> Wire], counts' \in [Proc -> [Proc -> Seq(Int)]],
         step' \in [Proc -> Nat], sends' \in [Proc -> Nat]
  PROVE  GroupTypes'
<1>1. impl' \in [Proc -> Impl] /\ pc' \in [Proc -> Place]
  BY DEF Only, GroupTypes, Types
<1>2. \A q \in Proc : Good(impl'[q], q, pc'[q])
  BY DEF Only, GroupTypes, Types
<1>3. \A q \in Proc : Good(impl[q], q, pc[q])' <=> Good(impl'[q], q, pc'[q])
  BY DEF Good, Fitting, Lengths, OwnStage
<1> QED
  BY <1>1, <1>2, <1>3 DEF GroupTypes, Types

\* Sending and receiving leave a process good.
LEMMA StaysGood ==
  ASSUME GroupTypes, NEW p \in Proc, NEW im, Fitting(im), SameStages(im, impl[p]), SameLoop(im, impl[p])
  PROVE  Good(im, p, pc[p])
BY DEF GroupTypes, Good, SameStages, SameLoop, Lengths, OwnStage

LEMMA SamePlace ==
  ASSUME GroupTypes, NEW p \in Proc, NEW im, impl' = [impl EXCEPT ![p] = im], UNCHANGED pc
  PROVE  Only(p, im, pc[p]) /\ pc[p] \in Place
BY DEF Only, GroupTypes, Types

LEMMA OwnTypes ==
  ASSUME GroupTypes, NEW p \in Proc
  PROVE  /\ impl[p] \in Impl /\ batches[p] \in Wire /\ Out(p) \in Outs /\ Fitting(impl[p])
         /\ step[p] \in Nat /\ pc[p] \in Place /\ Good(impl[p], p, pc[p])
         /\ counts \in [Proc -> [Proc -> Seq(Int)]] /\ batches \in [Proc -> Wire]
         /\ Out(p).impl = impl[p] /\ Out(p).wire = batches[p]
BY DEF GroupTypes, Types, Good, Out, Outs
LEMMA HandlesTyped ==
  ASSUME GroupTypes, NEW p \in Proc, NEW out, Sent(out, impl[p]), Sets(p, out),
         UNCHANGED <<pc, counts, step>>, sends' \in [Proc -> Nat]
  PROVE  GroupTypes' /\ Handles(p)
<1>1. out.impl \in Impl /\ out.wire \in Wire /\ Fitting(out.impl)
  BY DEF Sent, Outs
<1>2. Only(p, out.impl, pc[p]) /\ pc[p] \in Place /\ Good(out.impl, p, pc[p])
  BY SamePlace, StaysGood DEF Sets, Sent
<1>3. batches' \in [Proc -> Wire]
  BY <1>1, OwnTypes DEF Sets
<1>4. GroupTypes'
  <2>1. counts' \in [Proc -> [Proc -> Seq(Int)]] /\ step' \in [Proc -> Nat]
    BY DEF GroupTypes, Types
  <2> QED
    BY <1>1, <1>2, <1>3, <2>1, TypesStep
<1> QED
  BY <1>1, <1>2, <1>4 DEF Handles, Sent

LEMMA SendKeeps ==
  ASSUME GroupTypes, NEW p \in Proc, Send(p)
  PROVE  GroupTypes' /\ Handles(p)
<1>1. PICK route \in Routes : Sets(p, send(Out(p), p, route))
  BY DEF Send
<1>2. route \in Seq(Proc) /\ route # << >>
  BY ProcessGroupAssumption
<1>3. Sent(send(Out(p), p, route), impl[p])
  BY <1>2, OwnTypes, SendTyped
<1>4. sends' \in [Proc -> Nat] /\ UNCHANGED <<pc, counts, step>>
  BY DEF Send, GroupTypes, Types
<1> QED
  BY <1>1, <1>3, <1>4, HandlesTyped

LEMMA ReceiveTyped ==
  ASSUME NEW im \in Impl, NEW source \in Proc, NEW messages \in Seq(Msg), Fitting(im)
  PROVE  LET im2 == receive_batch(im, source, messages)
         IN im2 \in Impl /\ Fitting(im2) /\ SameStages(im2, im) /\ SameLoop(im2, im)
            /\ im2.new_batches = im.new_batches
<1> DEFINE number == [im.number_received_batches EXCEPT ![source] = @ + 1]
           im2 == [im EXCEPT !.number_received_batches = number, !.processing = messages]
<1>1. number \in [Proc -> Int]
  BY DEF Impl
<1>2. receive_batch(im, source, messages) = im2
  BY DEF receive_batch, Impl
<1>3. im2 \in Impl /\ im2.outgoing = im.outgoing /\ im2.new_batches = im.new_batches
  <2> HIDE DEF number
  <2> QED
    BY <1>1 DEF Impl
<1>4. SameStages(im2, im) /\ SameLoop(im2, im)
  BY DEF Impl, SameStages, SameLoop
<1> QED
  BY <1>2, <1>3, <1>4 DEF Fitting

LEMMA HandleBatchKeeps ==
  ASSUME GroupTypes, NEW p \in Proc, NEW q \in Proc, handle_batch(p, q)
  PROVE  GroupTypes' /\ Handles(p)
<1> DEFINE wire == batches[q][p]
<1>1. wire \in Seq(Seq(Msg)) /\ wire # << >>
  BY OwnTypes DEF Wire, handle_batch
<1>2. PICK messages \in Seq(Msg) : messages = Head(wire)
  BY <1>1
<1>3. PICK im \in Impl : im = receive_batch(impl[p], q, messages)
  BY OwnTypes, ReceiveTyped
<1>4. /\ Fitting(im) /\ SameStages(im, impl[p]) /\ SameLoop(im, impl[p])
  BY <1>3, OwnTypes, ReceiveTyped
<1>5. impl' = [impl EXCEPT ![p] = im] /\ UNCHANGED <<pc, counts, step, sends>>
  BY <1>2, <1>3 DEF handle_batch
<1>6. batches' \in [Proc -> Wire]
  <2>1. Tail(wire) \in Seq(Seq(Msg))
    BY <1>1
  <2>2. batches' = [batches EXCEPT ![q] = [batches[q] EXCEPT ![p] = Tail(wire)]]
    BY DEF handle_batch
  <2>3. [batches[q] EXCEPT ![p] = Tail(wire)] \in Wire
    BY <2>1, OwnTypes DEF Wire
  <2> QED
    BY <2>2, <2>3, OwnTypes
<1>7. Only(p, im, pc[p]) /\ pc[p] \in Place /\ Good(im, p, pc[p])
  BY <1>4, <1>5, SamePlace, StaysGood
<1>8. /\ counts' \in [Proc -> [Proc -> Seq(Int)]] /\ step' \in [Proc -> Nat]
      /\ sends' \in [Proc -> Nat]
  BY <1>5 DEF GroupTypes, Types
<1>9. GroupTypes'
  BY <1>6, <1>7, <1>8, TypesStep
<1> QED
  BY <1>4, <1>5, <1>7, <1>9 DEF Handles

LEMMA ProcessQueuedKeeps ==
  ASSUME GroupTypes, NEW p \in Proc, ProcessQueued(p)
  PROVE  GroupTypes' /\ Handles(p)
<1> DEFINE queue == impl[p].new_batches
<1>1. queue \in Seq(Batch) /\ queue # << >>
  BY OwnTypes DEF Impl, ProcessQueued
<1>2. PICK b \in Batch : b = Head(queue)
  BY <1>1
<1>3. b.source \in Proc /\ b.messages \in Seq(Msg) /\ Tail(queue) \in Seq(Batch)
  BY <1>1 DEF Batch
<1>4. PICK im \in Impl : im = receive_batch(impl[p], b.source, b.messages)
  BY <1>3, OwnTypes, ReceiveTyped
<1>5. Fitting(im) /\ SameStages(im, impl[p]) /\ SameLoop(im, impl[p])
  BY <1>3, <1>4, OwnTypes, ReceiveTyped
<1>6. PICK rest \in Seq(Batch) : rest = Tail(queue)
  BY <1>3
<1> DEFINE im2 == [im EXCEPT !.new_batches = rest]
<1>7. im2 \in Impl /\ SameStages(im2, im) /\ SameLoop(im2, im) /\ im2.outgoing = im.outgoing
  BY DEF Impl, SameStages, SameLoop
<1>8. im2 = [im EXCEPT !.new_batches = Tail(@)]
  <2>1. im.new_batches = queue
    BY <1>3, <1>4, OwnTypes, ReceiveTyped
  <2> QED
    BY <1>6, <2>1
<1>9. impl' = [impl EXCEPT ![p] = im2] /\ UNCHANGED <<pc, batches, counts, step, sends>>
  BY <1>2, <1>4, <1>8, Zenon DEF ProcessQueued
<1> HIDE DEF im2
<1>10. /\ Only(p, im2, pc[p]) /\ pc[p] \in Place /\ Good(im2, p, pc[p])
       /\ SameStages(im2, impl[p]) /\ SameLoop(im2, impl[p])
  <2>1. Fitting(im2) /\ SameStages(im2, impl[p]) /\ SameLoop(im2, impl[p])
    BY <1>5, <1>7 DEF SameStages, SameLoop, Fitting
  <2> QED
    BY <1>9, <2>1, SamePlace, StaysGood
<1>11. /\ counts' \in [Proc -> [Proc -> Seq(Int)]] /\ step' \in [Proc -> Nat]
       /\ sends' \in [Proc -> Nat] /\ batches' \in [Proc -> Wire]
  BY <1>9 DEF GroupTypes, Types
<1>12. GroupTypes'
  BY <1>7, <1>10, <1>11, TypesStep
<1> QED
  BY <1>7, <1>9, <1>10, <1>12 DEF Handles
LEMMA HandlesNone ==
  ASSUME NEW im \in Impl, NEW rest \in Seq(Msg), Fitting(im)
  PROVE  LET im2 == [im EXCEPT !.processing = rest]
         IN im2 \in Impl /\ Fitting(im2) /\ SameStages(im2, im) /\ SameLoop(im2, im)
BY DEF Impl, Fitting, SameStages, SameLoop

LEMMA ProcessBatchKeeps ==
  ASSUME GroupTypes, NEW p \in Proc, process_batch(p)
  PROVE  GroupTypes' /\ Handles(p)
<1> DEFINE queue == impl[p].processing
           m == Head(queue)
           out == [Out(p) EXCEPT !.impl.processing = Tail(@)]
<1>1. queue \in Seq(Msg) /\ queue # << >>
  BY OwnTypes DEF Impl, process_batch
<1>2. m \in Msg /\ Tail(queue) \in Seq(Msg)
  BY <1>1
<1>3. PICK rest \in Seq(Msg) : rest = Tail(queue)
  BY <1>2
<1> DEFINE im2 == [impl[p] EXCEPT !.processing = rest]
<1>4. im2 \in Impl /\ Fitting(im2) /\ SameStages(im2, impl[p]) /\ SameLoop(im2, impl[p])
  BY OwnTypes, HandlesNone
<1>5. out.impl = im2 /\ out.wire = batches[p] /\ out = [impl |-> im2, wire |-> batches[p]]
  <2>1. PICK o \in Outs : o = Out(p)
    BY OwnTypes
  <2>2. out = [o EXCEPT !.impl.processing = rest]
    BY <1>3, <2>1, OwnTypes
  <2>3. out = [impl |-> [o.impl EXCEPT !.processing = rest], wire |-> o.wire]
    <3> HIDE DEF out
    <3> QED
      BY <2>2, NestedProcessing
  <2> QED
    BY <2>1, <2>3, OwnTypes
<1>6. \/ Sets(p, out)
      \/ m.route # << >> /\ Sets(p, send(out, p, m.route))
  BY DEF process_batch
<1> HIDE DEF im2, out
<1>7. out \in Outs
  BY <1>4, <1>5, OwnTypes DEF Outs
<1>8. Sent(out, im2)
  BY <1>4, <1>5, OwnTypes, SentIs DEF SameStages, SameLoop
<1>9. m.route # << >> => Sent(send(out, p, m.route), im2)
  <2>1. m.route \in Seq(Proc)
    BY <1>2 DEF Msg
  <2> QED
    BY <1>4, <1>5, <1>7, <2>1, OwnTypes, SendTyped
<1>10. PICK out2 : Sent(out2, im2) /\ Sets(p, out2)
  BY <1>6, <1>8, <1>9
<1>11. Sent(out2, impl[p])
  BY <1>4, <1>10, SameThrough
<1>12. UNCHANGED <<pc, counts, step>> /\ sends' \in [Proc -> Nat]
  BY DEF process_batch, GroupTypes, Types
<1> QED
  BY <1>10, <1>11, <1>12, HandlesTyped

-----------------------------------------------------------------------------
(* synchronize *)

LEMMA AddedTyped ==
  ASSUME NEW s \in Seq(Nat), NEW stage \in Nat, stage <= Len(s), NEW i \in {0, 1}
  PROVE  /\ Added(s, stage, i) \in Seq(Nat)
         /\ Len(s) = stage => Len(Added(s, stage, i)) = stage + 1 /\ Added(s, stage, i)[stage + 1] = i
         /\ stage < Len(s) => /\ Len(Added(s, stage, i)) = Len(s)
                              /\ Added(s, stage, i)[stage + 1] = s[stage + 1] + i
         /\ \A t \in 0 .. Len(s) - 1 : t # stage => Added(s, stage, i)[t + 1] = s[t + 1]
<1>1. CASE Len(s) = stage
  <2>1. PICK n \in Nat : n = i
    OBVIOUS
  <2>2. Added(s, stage, i) = Append(s, n)
    BY <1>1, <2>1 DEF Added
  <2> QED
    BY <1>1, <2>1, <2>2
<1>2. CASE stage < Len(s)
  <2>1. PICK n \in Nat : n = i
    OBVIOUS
  <2>2. Added(s, stage, i) = [s EXCEPT ![stage + 1] = s[stage + 1] + n]
    BY <1>2, <2>1 DEF Added
  <2>3. stage + 1 \in 1 .. Len(s) /\ s[stage + 1] \in Nat
    BY <1>2
  <2>4. s[stage + 1] + n \in Nat
    BY <2>3
  <2> QED
    BY <1>2, <2>1, <2>2, <2>3, <2>4
<1> QED
  BY <1>1, <1>2

StagesTyped(im) ==
  /\ im.synchronizing_stage \in [Proc -> Int] /\ im.synchronizing_unfinished \in Seq(Nat)
  /\ im.processors_synchronizing_stage \in Seq(Nat) /\ Lengths(im)

LEMMA RecordsTyped ==
  ASSUME NEW im \in Impl, NEW im2, NEW q \in Proc, NEW stage \in Nat, NEW i \in {0, 1},
         Lengths(im), im.synchronizing_stage[q] = stage - 1, Records(im2, im, q, stage, i)
  PROVE  StagesTyped(im2)
<1>1. PICK view \in [Proc -> Int], u \in Seq(Nat), r \in Seq(Nat) :
        /\ view = im.synchronizing_stage /\ u = im.synchronizing_unfinished
        /\ r = im.processors_synchronizing_stage
  BY DEF Impl
<1>2. PICK n \in Nat : n = Len(r) /\ n = Len(u)
  BY <1>1 DEF Lengths
<1>3. \A x \in Proc : view[x] \in -1 .. n - 1
  BY <1>1, <1>2 DEF Lengths
<1>4. stage <= n
  <2>1. view[q] = stage - 1 /\ view[q] \in -1 .. n - 1
    BY <1>1, <1>3
  <2> QED
    BY <2>1
<1>5. /\ im2.synchronizing_stage = [view EXCEPT ![q] = stage]
      /\ im2.synchronizing_unfinished = Added(u, stage, i)
      /\ im2.processors_synchronizing_stage = Added(r, stage, 1)
  BY <1>1 DEF Records
<1>6. PICK m \in Nat : m = IF n = stage THEN stage + 1 ELSE n
  OBVIOUS
<1>7. /\ Added(u, stage, i) \in Seq(Nat) /\ Len(Added(u, stage, i)) = m
      /\ Added(r, stage, 1) \in Seq(Nat) /\ Len(Added(r, stage, 1)) = m
  <2>1. ASSUME NEW s \in Seq(Nat), NEW k \in {0, 1}, Len(s) = n
        PROVE  Added(s, stage, k) \in Seq(Nat) /\ Len(Added(s, stage, k)) = m
    <3>1. CASE n = stage
      BY <1>6, <2>1, <3>1, AddedTyped
    <3>2. CASE n # stage
      <4>1. stage < Len(s) /\ stage <= Len(s)
        BY <1>4, <2>1, <3>2
      <4> QED
        BY <1>6, <2>1, <3>2, <4>1, AddedTyped
    <3> QED
      BY <3>1, <3>2
  <2>2. 1 \in {0, 1}
    OBVIOUS
  <2> QED
    BY <1>2, <2>1, <2>2
<1>8. \A x \in Proc : [view EXCEPT ![q] = stage][x] \in -1 .. m - 1
  <2> TAKE x \in Proc
  <2>1. view[x] \in -1 .. n - 1 /\ n <= m /\ stage \in -1 .. m - 1
    BY <1>3, <1>4, <1>6
  <2>2. view[x] \in -1 .. m - 1
    BY <2>1
  <2> QED
    BY <2>1, <2>2
<1>9. [view EXCEPT ![q] = stage] \in [Proc -> Int]
  OBVIOUS
<1> QED
  BY <1>5, <1>7, <1>8, <1>9 DEF Lengths, StagesTyped

LEMMA HandleSyncKeeps ==
  ASSUME GroupTypes, NEW p \in Proc, NEW q \in Proc, q # p, handle_sync(p, q)
  PROVE  GroupTypes' /\ Hears(p, q)
<1>1. PICK im \in Impl, words \in Seq(Int) : im = impl[p] /\ words = counts[q][p]
  BY OwnTypes
<1>2. words # << >> /\ pc[p] \notin {"flush", "barrier"} /\ Good(im, p, pc[p])
  BY <1>1, OwnTypes DEF handle_sync, Polls, JustSent
<1>3. PICK val \in Int, rest \in Seq(Int) : val = Head(words) /\ rest = Tail(words)
  <2>1. Head(words) \in Int /\ Tail(words) \in Seq(Int)
    BY <1>2
  <2> QED
    BY <2>1
<1>4. PICK seen \in [Proc -> Int], old \in [Proc -> Int] :
        seen = im.synchronizing_stage /\ old = im.number_received_batches
  BY DEF Impl
<1>5. PICK stage \in Nat : stage = seen[q] + 1 /\ seen[q] = stage - 1
  <2>1. PICK n \in Nat : n = Len(im.processors_synchronizing_stage)
    BY DEF Impl
  <2>2. seen[q] \in -1 .. n - 1
    BY <1>2, <1>4, <2>1 DEF Good, Lengths
  <2>3. seen[q] + 1 \in Nat /\ seen[q] = seen[q] + 1 - 1
    BY <2>2
  <2> QED
    BY <2>3
<1>6. PICK i \in {0, 1} : i = 1 <=> val >= 0
  OBVIOUS
<1>7. PICK view \in [Proc -> Int], number \in [Proc -> Int] :
        /\ view = [seen EXCEPT ![q] = stage]
        /\ number = [old EXCEPT ![q] = IF val > 0 THEN old[q] - val ELSE old[q]]
  <2>1. [seen EXCEPT ![q] = stage] \in [Proc -> Int]
    OBVIOUS
  <2>2. [old EXCEPT ![q] = IF val > 0 THEN old[q] - val ELSE old[q]] \in [Proc -> Int]
    OBVIOUS
  <2> QED
    BY <2>1, <2>2
<1>8. PICK u, r : /\ u = Added(im.synchronizing_unfinished, stage, i)
                  /\ r = Added(im.processors_synchronizing_stage, stage, 1)
  OBVIOUS
<1> DEFINE im2 == [im EXCEPT !.synchronizing_unfinished = u, !.processors_synchronizing_stage = r,
                             !.synchronizing_stage = view, !.number_received_batches = number]
<1>9. impl' = [impl EXCEPT ![p] = im2]
  <2>1. PICK reached : /\ reached = Reached(im, stage, val >= 0)
                       /\ impl' = [impl EXCEPT ![p] =
                            [reached EXCEPT
                               !.synchronizing_stage[q] = stage,
                               !.number_received_batches[q] = IF val > 0 THEN @ - val ELSE @]]
    BY <1>1, <1>3, <1>4, <1>5, Zenon DEF handle_sync
  <2>2. reached = [im EXCEPT !.synchronizing_unfinished = u, !.processors_synchronizing_stage = r]
    <3>1. i = IF val >= 0 THEN 1 ELSE 0
      BY <1>6
    <3> QED
      BY <1>8, <2>1, <3>1 DEF Reached
  <2>3. [reached EXCEPT !.synchronizing_stage[q] = stage,
                        !.number_received_batches[q] = IF val > 0 THEN @ - val ELSE @] = im2
    <3>1. reached.synchronizing_stage = seen /\ reached.number_received_batches = old
      BY <1>4, <2>2 DEF Impl
    <3> QED
      BY <1>4, <1>7, <2>2, <3>1 DEF Impl
  <2> QED
    BY <2>1, <2>3
<1>10. PICK new : new = im2
  OBVIOUS
<1>11. /\ new.synchronizing_stage = view /\ new.synchronizing_unfinished = u
       /\ new.processors_synchronizing_stage = r /\ new.stage = im.stage
       /\ SameLoop(new, im) /\ new.outgoing = im.outgoing
  BY <1>10 DEF Impl, SameLoop
<1>12. Records(new, im, q, stage, i)
  BY <1>4, <1>7, <1>8, <1>11 DEF Records
<1>13. u \in Seq(Nat) /\ r \in Seq(Nat) /\ Lengths(new)
  <2>1. Lengths(im) /\ im.synchronizing_stage[q] = stage - 1
    BY <1>2, <1>4, <1>5 DEF Good
  <2> HIDE DEF im2
  <2>2. StagesTyped(new)
    BY <1>12, <2>1, RecordsTyped
  <2> QED
    BY <1>11, <2>2 DEF StagesTyped
<1>14. new \in Impl
  BY <1>10, <1>13 DEF Impl
<1> HIDE DEF im2
<1>15. Only(p, new, pc[p]) /\ pc[p] \in Place
  BY <1>9, <1>10, SamePlace DEF handle_sync
<1>16. Good(new, p, pc[p])
  <2>1. view[p] = seen[p]
    BY <1>7
  <2>2. OwnStage(new, p, pc[p])
    BY <1>2, <1>4, <1>11, <2>1 DEF Good, OwnStage
  <2> QED
    BY <1>2, <1>11, <1>13, <2>2 DEF Good, Fitting, SameLoop
<1>17. counts' = [counts EXCEPT ![q][p] = Tail(@)] /\ UNCHANGED <<pc, batches, step, sends>>
  BY DEF handle_sync
<1>18. counts' \in [Proc -> [Proc -> Seq(Int)]]
  <2>1. counts' = [counts EXCEPT ![q] = [counts[q] EXCEPT ![p] = rest]]
    BY <1>1, <1>3, <1>17
  <2> QED
    BY <2>1, OwnTypes
<1>19. step' \in [Proc -> Nat] /\ sends' \in [Proc -> Nat] /\ batches' \in [Proc -> Wire]
  BY <1>17 DEF GroupTypes, Types
<1>20. GroupTypes'
  BY <1>14, <1>15, <1>16, <1>18, <1>19, TypesStep
<1>21. Records(new, impl[p], q, impl[p].synchronizing_stage[q] + 1, i)
  BY <1>1, <1>4, <1>5, <1>12
<1> QED
  BY <1>1, <1>2, <1>3, <1>6, <1>11, <1>14, <1>15, <1>17, <1>20, <1>21 DEF Hears

\* im has become new, in which p has started a stage.
Started(new, im, p, stage, no_new) ==
  /\ new \in Impl /\ Fitting(new) /\ Lengths(new)
  /\ new.stage = stage /\ new.dest = 0 /\ new.no_new_messages = no_new
  /\ new.synchronizing_stage[p] = stage
  /\ \E i \in {0, 1} : (i = 0 <=> no_new) /\ Records(new, im, p, stage, i)

LEMMA StartStageTyped ==
  ASSUME NEW im \in Impl, NEW p \in Proc, NEW no_new \in BOOLEAN, NEW stage \in Nat,
         stage = im.stage + 1, im.synchronizing_stage[p] = stage - 1, Lengths(im), Fitting(im)
  PROVE  Started(StartStage(im, p, no_new), im, p, stage, no_new)
<1>1. PICK i \in {0, 1} : (i = 0 <=> no_new) /\ i = IF ~no_new THEN 1 ELSE 0
  OBVIOUS
<1>2. PICK seen \in [Proc -> Int] : seen = im.synchronizing_stage
  BY DEF Impl
<1>3. PICK view \in [Proc -> Int] : view = [seen EXCEPT ![p] = stage]
  <2>1. [seen EXCEPT ![p] = stage] \in [Proc -> Int]
    OBVIOUS
  <2> QED
    BY <2>1
<1>4. PICK u, r : /\ u = Added(im.synchronizing_unfinished, stage, i)
                  /\ r = Added(im.processors_synchronizing_stage, stage, 1)
  OBVIOUS
<1>5. PICK new : /\ new = [im EXCEPT !.synchronizing_unfinished = u,
                                     !.processors_synchronizing_stage = r,
                                     !.stage = stage, !.synchronizing_stage = view,
                                     !.no_new_messages = no_new, !.dest = 0]
  OBVIOUS
<1>6. StartStage(im, p, no_new) = new
  <2>1. PICK reached : reached = Reached(im, stage, ~no_new)
    OBVIOUS
  <2>2. reached = [im EXCEPT !.synchronizing_unfinished = u, !.processors_synchronizing_stage = r]
    BY <1>1, <1>4, <2>1 DEF Reached
  <2>3. StartStage(im, p, no_new) =
          [reached EXCEPT !.stage = @ + 1, !.synchronizing_stage[p] = stage,
                          !.no_new_messages = no_new, !.dest = 0]
    BY <2>1 DEF StartStage
  <2>4. reached.stage + 1 = stage /\ reached.synchronizing_stage = seen
    BY <1>2, <2>2 DEF Impl
  <2> QED
    BY <1>2, <1>3, <1>5, <2>2, <2>3, <2>4 DEF Impl
<1>7. /\ new.synchronizing_stage = view /\ new.synchronizing_unfinished = u
      /\ new.processors_synchronizing_stage = r /\ new.stage = stage
      /\ new.no_new_messages = no_new /\ new.dest = 0 /\ new.outgoing = im.outgoing
  BY <1>5 DEF Impl
<1>8. Records(new, im, p, stage, i)
  BY <1>2, <1>3, <1>4, <1>7 DEF Records
<1>9. StagesTyped(new)
  BY <1>8, RecordsTyped
<1>10. u \in Seq(Nat) /\ r \in Seq(Nat) /\ Lengths(new) /\ view[p] = stage
  BY <1>3, <1>7, <1>9 DEF StagesTyped
<1>11. new \in Impl
  BY <1>5, <1>10 DEF Impl
<1> QED
  BY <1>1, <1>6, <1>7, <1>8, <1>10, <1>11 DEF Started, Fitting

\* What is common to synchronize and to the end of the loop that flushes.
LEMMA StartKeeps ==
  ASSUME GroupTypes, NEW p \in Proc, NEW im,
         im.synchronizing_stage = impl[p].synchronizing_stage,
         im.synchronizing_unfinished = impl[p].synchronizing_unfinished,
         im.processors_synchronizing_stage = impl[p].processors_synchronizing_stage,
         NEW new, NEW stage \in Nat, NEW no_new \in BOOLEAN, Started(new, im, p, stage, no_new),
         \/ pc[p] = "work" /\ stage = 0
         \/ pc[p] = "flush" /\ stage = impl[p].stage + 1,
         impl' = [impl EXCEPT ![p] = new], pc' = [pc EXCEPT ![p] = "send"],
         UNCHANGED <<batches, counts, step, sends>>
  PROVE  GroupTypes' /\ StartsStage(p, stage, no_new)
<1>1. Only(p, new, "send") /\ "send" \in Place
  BY DEF Only, Place
<1>2. PICK i \in {0, 1} : (i = 0 <=> no_new) /\ Records(new, im, p, stage, i)
  BY DEF Started
<1>3. Records(new, impl[p], p, stage, i)
  BY <1>2 DEF Records
<1>4. new \in Impl /\ Good(new, p, "send")
  <2>1. 0 \in Proc /\ 0 \in 0 .. P
    BY ProcIs
  <2> QED
    BY <2>1 DEF Started, Good, OwnStage
<1>5. /\ batches' \in [Proc -> Wire] /\ counts' \in [Proc -> [Proc -> Seq(Int)]]
      /\ step' \in [Proc -> Nat] /\ sends' \in [Proc -> Nat]
  BY DEF GroupTypes, Types
<1>6. GroupTypes'
  BY <1>1, <1>4, <1>5, TypesStep
<1> QED
  BY <1>1, <1>2, <1>3, <1>4, <1>6 DEF StartsStage, Started

LEMMA SynchronizeKeeps ==
  ASSUME GroupTypes, NEW p \in Proc, synchronize(p)
  PROVE  GroupTypes' /\ StartsStage(p, 0, FALSE)
<1>1. PICK im \in Impl : im = [impl[p] EXCEPT !.stage = -1]
  <2>1. PICK old \in Impl, n \in Int : old = impl[p] /\ n = -1
    BY OwnTypes
  <2>2. [old EXCEPT !.stage = n] \in Impl
    BY DEF Impl
  <2> QED
    BY <2>1, <2>2
<1>2. /\ im.synchronizing_stage = impl[p].synchronizing_stage /\ im.stage = -1
      /\ im.synchronizing_unfinished = impl[p].synchronizing_unfinished
      /\ im.processors_synchronizing_stage = impl[p].processors_synchronizing_stage
      /\ im.outgoing = impl[p].outgoing
  BY <1>1, OwnTypes DEF Impl
<1>3. PICK no_new \in BOOLEAN : no_new = FALSE
  OBVIOUS
<1>4. PICK new : new = StartStage(im, p, no_new) /\ impl' = [impl EXCEPT ![p] = new]
  BY <1>3, <1>1 DEF synchronize
<1>5. im.synchronizing_stage[p] = -1 /\ Lengths(im) /\ Fitting(im)
  BY <1>2, OwnTypes DEF synchronize, Good, OwnStage, Lengths, Fitting
<1>6. Started(new, im, p, 0, no_new)
  BY <1>3, <1>2, <1>4, <1>5, StartStageTyped
<1>7. /\ pc[p] = "work" /\ pc' = [pc EXCEPT ![p] = "send"]
      /\ UNCHANGED <<batches, counts, step, sends>>
  BY DEF synchronize
<1>8. GroupTypes' /\ StartsStage(p, 0, no_new)
  BY <1>2, <1>4, <1>6, <1>7, StartKeeps
<1> QED
  BY <1>3, <1>8

\* A step that goes on leaves a process good, if the stages are left alone.
LEMMA GoodAt ==
  ASSUME GroupTypes, NEW p \in Proc, NEW im, NEW place, pc[p] # "work", place # "work",
         Fitting(im), SameStages(im, impl[p]), im.dest \in 0 .. P, place = "send" => im.dest \in Proc
  PROVE  Good(im, p, place)
BY OwnTypes DEF Good, Lengths, OwnStage, SameStages

LEMMA SendCountKeeps ==
  ASSUME GroupTypes, NEW p \in Proc, SendCount(p)
  PROVE  GroupTypes' /\ Tells(p)
<1>1. PICK im \in Impl : im = impl[p]
  BY OwnTypes
<1>2. PICK dest \in Proc : dest = im.dest
  BY <1>1, OwnTypes DEF SendCount, Good
<1>3. PICK number \in [Proc -> Nat], old \in [Proc -> Int] :
        number = im.number_sent_batches /\ old = im.number_received_batches
  BY DEF Impl
<1>4. PICK zero \in [Proc -> Nat], less \in [Proc -> Int] :
        /\ zero = [number EXCEPT ![dest] = 0] /\ less = [old EXCEPT ![p] = old[p] - number[p]]
  <2>1. [number EXCEPT ![dest] = 0] \in [Proc -> Nat]
    OBVIOUS
  <2>2. [old EXCEPT ![p] = old[p] - number[p]] \in [Proc -> Int]
    OBVIOUS
  <2> QED
    BY <2>1, <2>2
<1>5. dest + 1 \in Nat /\ dest + 1 \in 0 .. P /\ (dest + 1 = P <=> dest + 1 \notin Proc)
  BY ProcIs
<1>6. PICK next \in Impl : next = [im EXCEPT !.number_sent_batches = zero, !.dest = dest + 1]
  <2>1. [im EXCEPT !.number_sent_batches = zero, !.dest = dest + 1] \in Impl
    BY <1>5 DEF Impl
  <2> QED
    BY <2>1
<1>7. next = [im EXCEPT !.number_sent_batches[dest] = 0, !.dest = @ + 1]
  BY <1>2, <1>3, <1>4, <1>6 DEF Impl
<1>8. PICK place \in Place : /\ place = IF dest + 1 \in Proc THEN "send" ELSE "wait"
  BY DEF Place
<1>9. PICK new \in Impl : /\ impl' = [impl EXCEPT ![p] = new]
                          /\ SameStages(new, im) /\ new.no_new_messages = im.no_new_messages
                          /\ new.dest = dest + 1 /\ new.outgoing = im.outgoing
  <2>1. /\ SameStages(next, im) /\ next.no_new_messages = im.no_new_messages
        /\ next.dest = dest + 1 /\ next.outgoing = im.outgoing
        /\ next.number_received_batches = old
    BY <1>3, <1>6 DEF Impl, SameStages
  <2>2. CASE dest # p
    <3>1. impl' = [impl EXCEPT ![p] = next]
      BY <1>1, <1>2, <1>7, <2>2 DEF SendCount
    <3> QED
      BY <2>1, <3>1
  <2>3. CASE dest = p
    <3>1. PICK x \in Impl : x = [next EXCEPT !.number_received_batches = less]
      <4>1. [next EXCEPT !.number_received_batches = less] \in Impl
        BY DEF Impl
      <4> QED
        BY <4>1
    <3>2. /\ SameStages(x, next) /\ x.no_new_messages = next.no_new_messages
          /\ x.dest = next.dest /\ x.outgoing = next.outgoing
      BY <3>1 DEF Impl, SameStages
    <3>3. impl' = [impl EXCEPT ![p] = [next EXCEPT !.number_received_batches[p] =
                                          @ - im.number_sent_batches[p]]]
      BY <1>1, <1>2, <1>7, <2>3 DEF SendCount
    <3>4. [next EXCEPT !.number_received_batches[p] = @ - im.number_sent_batches[p]] = x
      BY <1>3, <1>4, <2>1, <2>3, <3>1 DEF Impl
    <3> QED
      BY <2>1, <3>2, <3>3, <3>4 DEF SameStages
  <2> QED
    BY <2>2, <2>3
<1>10. pc[p] = "send" /\ Only(p, new, place) /\ UNCHANGED <<batches, step, sends>>
  BY <1>1, <1>2, <1>8, <1>9 DEF SendCount, Only
<1>11. Good(new, p, place)
  BY <1>1, <1>5, <1>8, <1>9, <1>10, OwnTypes, GoodAt DEF Fitting
<1>12. IF dest = p THEN UNCHANGED counts
       ELSE \E val \in Int : /\ counts' = [counts EXCEPT ![p][dest] = Append(@, val)]
                             /\ val >= 0 <=> ~im.no_new_messages
  <2>1. CASE dest = p
    BY <1>1, <1>2, <2>1 DEF SendCount
  <2>2. CASE dest # p
    <3>1. PICK val \in Int : val = IF im.no_new_messages THEN -1 ELSE number[dest]
      OBVIOUS
    <3>2. counts' = [counts EXCEPT ![p][dest] = Append(@, val)]
      BY <1>1, <1>2, <1>3, <2>2, <3>1 DEF SendCount
    <3>3. val >= 0 <=> ~im.no_new_messages
      BY <3>1
    <3> QED
      BY <2>2, <3>2, <3>3
  <2> QED
    BY <2>1, <2>2
<1>13. counts' \in [Proc -> [Proc -> Seq(Int)]]
  <2>1. CASE dest = p
    BY <1>12, <2>1, OwnTypes
  <2>2. CASE dest # p
    <3>1. PICK val \in Int : counts' = [counts EXCEPT ![p][dest] = Append(@, val)]
      BY <1>12, <2>2
    <3>2. PICK words \in Seq(Int) : words = counts[p][dest]
      BY OwnTypes
    <3>3. PICK more \in Seq(Int) : more = Append(words, val)
      <4>1. Append(words, val) \in Seq(Int)
        OBVIOUS
      <4> QED
        BY <4>1
    <3>4. counts' = [counts EXCEPT ![p] = [counts[p] EXCEPT ![dest] = more]]
      BY <3>1, <3>2, <3>3
    <3> QED
      BY <3>4, OwnTypes
  <2> QED
    BY <2>1, <2>2
<1>14. /\ batches' \in [Proc -> Wire] /\ step' \in [Proc -> Nat] /\ sends' \in [Proc -> Nat]
  BY <1>10 DEF GroupTypes, Types
<1>15. GroupTypes'
  BY <1>10, <1>11, <1>13, <1>14, TypesStep
<1> QED
  BY <1>1, <1>2, <1>8, <1>9, <1>10, <1>12, <1>15 DEF Tells

\* AllHere, Flush and EnterBarrier: the process goes on, and sends nothing.
LEMMA GoesOnTyped ==
  ASSUME GroupTypes, NEW p \in Proc, NEW im \in Impl, NEW place \in Place \ {"work", "send"},
         pc[p] # "work", Only(p, im, place), Fitting(im), SameStages(im, impl[p]), im.dest \in 0 .. P,
         UNCHANGED <<counts, step>>, batches' \in [Proc -> Wire], UNCHANGED sends
  PROVE  /\ GroupTypes'
         /\ \E new \in Impl, to \in Place : Only(p, new, to) /\ SameStages(new, impl[p])
<1>1. Good(im, p, place)
  BY GoodAt
<1>2. /\ counts' \in [Proc -> [Proc -> Seq(Int)]] /\ step' \in [Proc -> Nat]
      /\ sends' \in [Proc -> Nat]
  BY DEF GroupTypes, Types
<1> QED
  BY <1>1, <1>2, TypesStep

LEMMA SameProcess ==
  ASSUME GroupTypes, NEW p \in Proc, NEW place, UNCHANGED impl, pc' = [pc EXCEPT ![p] = place]
  PROVE  Only(p, impl[p], place) /\ SameStages(impl[p], impl[p]) /\ impl[p].dest \in 0 .. P
BY OwnTypes DEF Only, SameStages, GroupTypes, Types, Good

LEMMA AllHereKeeps ==
  ASSUME GroupTypes, NEW p \in Proc, AllHere(p)
  PROVE  GroupTypes' /\ GoesOn(p)
<1>1. /\ pc[p] = "wait" /\ pc' = [pc EXCEPT ![p] = "drain"]
      /\ impl[p].processors_synchronizing_stage[impl[p].stage + 1] >= P
      /\ UNCHANGED <<impl, batches, counts, step, sends>>
  BY DEF AllHere, P
<1>2. Only(p, impl[p], "drain") /\ SameStages(impl[p], impl[p]) /\ impl[p].dest \in 0 .. P
  BY <1>1, SameProcess
<1>3. batches' \in [Proc -> Wire] /\ pc'[p] = "drain" /\ "drain" \in Place \ {"work", "send"}
  BY <1>1 DEF GroupTypes, Types, Place
<1>4. GroupTypes' /\ \E new \in Impl, to \in Place : Only(p, new, to) /\ SameStages(new, impl[p])
  BY <1>1, <1>2, <1>3, OwnTypes, GoesOnTyped
<1> QED
  BY <1>1, <1>3, <1>4 DEF GoesOn

LEMMA EnterBarrierKeeps ==
  ASSUME GroupTypes, NEW p \in Proc, EnterBarrier(p)
  PROVE  GroupTypes' /\ GoesOn(p)
<1>1. /\ pc[p] = "drain" /\ pc' = [pc EXCEPT ![p] = "barrier"]
      /\ impl[p].synchronizing_unfinished[impl[p].stage + 1] = 0
      /\ UNCHANGED <<impl, batches, counts, step, sends>>
  BY DEF EnterBarrier, Finished
<1>2. Only(p, impl[p], "barrier") /\ SameStages(impl[p], impl[p]) /\ impl[p].dest \in 0 .. P
  BY <1>1, SameProcess
<1>3. batches' \in [Proc -> Wire] /\ pc'[p] = "barrier" /\ "barrier" \in Place \ {"work", "send"}
  BY <1>1 DEF GroupTypes, Types, Place
<1>4. GroupTypes' /\ \E new \in Impl, to \in Place : Only(p, new, to) /\ SameStages(new, impl[p])
  BY <1>1, <1>2, <1>3, OwnTypes, GoesOnTyped
<1> QED
  BY <1>1, <1>3, <1>4 DEF GoesOn

LEMMA FlushKeeps ==
  ASSUME GroupTypes, NEW p \in Proc, Flush(p)
  PROVE  GroupTypes' /\ GoesOn(p)
<1>1. PICK old \in Impl : old = impl[p] /\ Fitting(old)
  BY OwnTypes
<1>2. PICK im \in Impl : im = [old EXCEPT !.no_new_messages = TRUE, !.dest = 0]
  <2>1. [old EXCEPT !.no_new_messages = TRUE, !.dest = 0] \in Impl
    BY DEF Impl
  <2> QED
    BY <2>1
<1>3. SameStages(im, old) /\ Fitting(im) /\ im.dest = 0
  BY <1>1, <1>2 DEF Impl, SameStages, Fitting
<1>4. /\ pc[p] = "drain" /\ pc' = [pc EXCEPT ![p] = "flush"]
      /\ old.synchronizing_unfinished[old.stage + 1] # 0
      /\ UNCHANGED <<batches, counts, step, sends>>
  BY <1>1 DEF Flush, Finished
<1>5. impl' = [impl EXCEPT ![p] = im]
  BY <1>1, <1>2 DEF Flush
<1>6. Only(p, im, "flush") /\ 0 \in 0 .. P
  BY <1>4, <1>5, ProcIs DEF Only
<1>7. batches' \in [Proc -> Wire] /\ pc'[p] = "flush" /\ "flush" \in Place \ {"work", "send"}
  BY <1>4 DEF GroupTypes, Types, Place
<1>8. GroupTypes' /\ \E new \in Impl, to \in Place : Only(p, new, to) /\ SameStages(new, impl[p])
  BY <1>1, <1>3, <1>4, <1>6, <1>7, GoesOnTyped
<1> QED
  BY <1>1, <1>4, <1>7, <1>8 DEF GoesOn

LEMMA FlushToKeeps ==
  ASSUME GroupTypes, NEW p \in Proc, FlushTo(p)
  PROVE  GroupTypes' /\ (GoesOn(p) \/ \E stage \in Nat, no_new \in BOOLEAN : StartsStage(p, stage, no_new))
<1>1. PICK im \in Impl : im = impl[p] /\ Good(im, p, pc[p]) /\ Fitting(im)
  BY OwnTypes
<1>2. pc[p] = "flush" /\ UNCHANGED <<counts, step, sends>>
  BY DEF FlushTo
<1>3. CASE im.dest \in Proc
  <2>1. PICK dest \in Proc : dest = im.dest
    BY <1>3
  <2>2. PICK no_new \in BOOLEAN :
          no_new <=> /\ im.no_new_messages
                     /\ im.outgoing[dest] = << >> /\ im.number_sent_batches[dest] <= 0
    OBVIOUS
  <2>3. PICK out : out = send_batch(Out(p), p, dest)
    OBVIOUS
  <2>4. Sent(out, im)
    <3>1. Sent(send_batch(Out(p), p, dest), Out(p).impl)
      <4>1. PICK o \in Outs : o = Out(p) /\ o.impl = im
        BY <1>1, OwnTypes
      <4>2. \A q \in Proc : q # dest => Len(o.impl.outgoing[q]) < batch_header_number
        BY <1>1, <4>1 DEF Fitting
      <4>3. Sent(send_batch(o, p, dest), o.impl)
        BY <1>1, <4>1, <4>2, BatchTyped
      <4> QED
        BY <4>1, <4>3
    <3> QED
      BY <1>1, <2>3, <3>1, OwnTypes
  <2>5. out.impl \in Impl /\ out.wire \in Wire /\ Fitting(out.impl)
        /\ SameStages(out.impl, im) /\ out.impl.dest = dest /\ out = [impl |-> out.impl, wire |-> out.wire]
    BY <2>1, <2>4 DEF Sent, Outs, SameLoop
  <2>6. PICK sent \in Impl : sent = out.impl
    BY <2>5
  <2>7. PICK new \in Impl : new = [sent EXCEPT !.no_new_messages = no_new, !.dest = dest + 1]
    <3>1. dest + 1 \in Nat
      BY ProcIs
    <3>2. [sent EXCEPT !.no_new_messages = no_new, !.dest = dest + 1] \in Impl
      BY <3>1 DEF Impl
    <3> QED
      BY <3>2
  <2>8. SameStages(new, sent) /\ new.dest = dest + 1 /\ Fitting(new)
    BY <2>5, <2>6, <2>7 DEF Impl, SameStages, Fitting
  <2>9. /\ impl' = [impl EXCEPT ![p] = new]
        /\ batches' = [batches EXCEPT ![p] = out.wire] /\ UNCHANGED pc
    <3>1. PICK all : /\ all = [out EXCEPT !.impl.no_new_messages = no_new, !.impl.dest = @ + 1]
                     /\ Sets(p, all) /\ UNCHANGED pc
      BY <1>1, <1>3, <2>1, <2>2, <2>3 DEF FlushTo
    <3>2. all.impl = new /\ all.wire = out.wire
      <4>1. PICK w : out = [impl |-> sent, wire |-> w] /\ out.wire = w
        BY <2>5, <2>6
      <4>2. sent.dest = dest
        BY <2>5, <2>6
      <4> QED
        BY <2>7, <3>1, <4>1, <4>2 DEF Impl
    <3> QED
      BY <3>1, <3>2 DEF Sets
  <2>10. Only(p, new, "flush") /\ pc'[p] = "flush" /\ "flush" \in Place \ {"work", "send"}
    BY <1>2, <2>9 DEF Only, GroupTypes, Types, Place
  <2>11. batches' \in [Proc -> Wire] /\ dest + 1 \in 0 .. P
    BY <2>5, <2>9, OwnTypes, ProcIs
  <2>12. SameStages(new, impl[p])
    BY <1>1, <2>5, <2>6, <2>8 DEF SameStages
  <2>13. GroupTypes' /\ \E x \in Impl, to \in Place : Only(p, x, to) /\ SameStages(x, impl[p])
    BY <1>2, <2>8, <2>10, <2>11, <2>12, GoesOnTyped
  <2> QED
    BY <1>2, <2>10, <2>13 DEF GoesOn
<1>4. CASE im.dest \notin Proc
  <2>1. PICK no_new \in BOOLEAN : no_new = im.no_new_messages
    BY DEF Impl
  <2>2. PICK stage \in Nat : stage = im.stage + 1
    BY <1>1, <1>2 DEF Good, OwnStage
  <2>3. PICK new : new = StartStage(im, p, no_new) /\ impl' = [impl EXCEPT ![p] = new]
                   /\ pc' = [pc EXCEPT ![p] = "send"] /\ UNCHANGED batches
    BY <1>1, <1>4, <2>1 DEF FlushTo
  <2>4. im.synchronizing_stage[p] = stage - 1 /\ Lengths(im)
    BY <1>1, <1>2, <2>2 DEF Good, OwnStage
  <2>5. Started(new, im, p, stage, no_new)
    BY <1>1, <2>2, <2>3, <2>4, StartStageTyped
  <2>6. /\ im.synchronizing_stage = impl[p].synchronizing_stage
        /\ im.synchronizing_unfinished = impl[p].synchronizing_unfinished
        /\ im.processors_synchronizing_stage = impl[p].processors_synchronizing_stage
        /\ pc[p] = "flush" /\ stage = impl[p].stage + 1
    BY <1>1, <1>2, <2>2
  <2>7. GroupTypes' /\ StartsStage(p, stage, no_new)
    BY <1>2, <2>3, <2>5, <2>6, StartKeeps, Zenon
  <2> QED
    BY <2>7
<1> QED
  BY <1>3, <1>4

LEMMA LeaveBarrierKeeps ==
  ASSUME GroupTypes, NEW p \in Proc, LeaveBarrier(p)
  PROVE  GroupTypes' /\ Leaves(p)
<1>1. PICK im \in Impl : im = impl[p] /\ Good(im, p, pc[p])
  BY OwnTypes
<1>2. PICK none \in [Proc -> Int] : none = [q \in Proc |-> -1]
  <2>1. [q \in Proc |-> -1] \in [Proc -> Int]
    OBVIOUS
  <2> QED
    BY <2>1
<1>3. PICK new \in Impl : new = [im EXCEPT !.synchronizing_stage = none,
                                           !.synchronizing_unfinished = << >>,
                                           !.processors_synchronizing_stage = << >>]
  <2>1. << >> \in Seq(Nat)
    OBVIOUS
  <2>2. [im EXCEPT !.synchronizing_stage = none, !.synchronizing_unfinished = << >>,
                   !.processors_synchronizing_stage = << >>] \in Impl
    BY <2>1 DEF Impl
  <2> QED
    BY <2>2
<1>4. impl' = [impl EXCEPT ![p] = new]
  BY <1>1, <1>2, <1>3 DEF LeaveBarrier
<1>5. /\ new.synchronizing_stage = none /\ new.synchronizing_unfinished = << >>
      /\ new.processors_synchronizing_stage = << >> /\ new.stage = im.stage
      /\ new.outgoing = im.outgoing /\ new.dest = im.dest
  BY <1>3 DEF Impl
<1>6. /\ pc[p] = "barrier" /\ \A q \in Proc : pc[q] = "barrier" \/ step[q] > step[p]
      /\ pc' = [pc EXCEPT ![p] = "work"] /\ step' = [step EXCEPT ![p] = @ + 1]
      /\ UNCHANGED <<batches, counts, sends>>
  BY DEF LeaveBarrier
<1>7. Good(new, p, "work")
  <2>1. Lengths(new)
    <3>1. Len(<< >>) = 0
      OBVIOUS
    <3>2. \A q \in Proc : none[q] \in -1 .. 0 - 1
      BY <1>2
    <3> QED
      BY <1>5, <3>1, <3>2 DEF Lengths
  <2>2. OwnStage(new, p, "work")
    BY <1>2, <1>5 DEF OwnStage
  <2> QED
    BY <1>1, <1>5, <2>1, <2>2 DEF Good, Fitting
<1>8. Only(p, new, "work") /\ "work" \in Place
  BY <1>4, <1>6 DEF Only, Place
<1>9. /\ batches' \in [Proc -> Wire] /\ counts' \in [Proc -> [Proc -> Seq(Int)]]
      /\ sends' \in [Proc -> Nat] /\ step' \in [Proc -> Nat]
  BY <1>6 DEF GroupTypes, Types
<1>10. GroupTypes'
  BY <1>7, <1>8, <1>9, TypesStep
<1> QED
  BY <1>1, <1>2, <1>5, <1>6, <1>8, <1>10 DEF Leaves

LEMMA KindOfStep ==
  ASSUME GroupTypes, NEW p \in Proc, Works(p) \/ Send(p) \/ synchronize(p),
         \A q \in Proc : counts[q][q] = << >>
  PROVE  GroupTypes' /\ Kinds(p)
<1>1. ASSUME NEW q \in Proc, handle_sync(p, q) PROVE GroupTypes' /\ Kinds(p)
  <2>1. q # p
    BY <1>1 DEF handle_sync
  <2> QED
    BY <1>1, <2>1, HandleSyncKeeps DEF Kinds
<1>2. CASE synchronize(p)
  <2>1. 0 \in Nat /\ FALSE \in BOOLEAN
    OBVIOUS
  <2>2. GroupTypes' /\ StartsStage(p, 0, FALSE)
    BY <1>2, SynchronizeKeeps
  <2> QED
    BY <2>1, <2>2 DEF Kinds
<1>3. CASE process_batch(p) \/ ProcessQueued(p) \/ \E q \in Proc : handle_batch(p, q)
  BY <1>3, ProcessBatchKeeps, ProcessQueuedKeeps, HandleBatchKeeps DEF Kinds
<1>4. CASE SendCount(p) \/ AllHere(p) \/ Flush(p)
  BY <1>4, SendCountKeeps, AllHereKeeps, FlushKeeps DEF Kinds
<1>5. CASE FlushTo(p) \/ EnterBarrier(p) \/ LeaveBarrier(p)
  BY <1>5, FlushToKeeps, EnterBarrierKeeps, LeaveBarrierKeeps DEF Kinds
<1>6. CASE Send(p)
  BY <1>6, SendKeeps DEF Kinds
<1> QED
  BY <1>1, <1>2, <1>3, <1>4, <1>5, <1>6 DEF Works

-----------------------------------------------------------------------------
(* The invariant.  A stage is counted once for each process that was heard to *)
(* have reached it; what was heard and what is on its way make up what was    *)
(* told; a process that has left the barrier is one superstep ahead of those  *)
(* still in it, and they have all that it told in the superstep it left.      *)

Seen(p, q) == impl[p].synchronizing_stage[q]

\* The last stage that p has told q of.
Announced(p, q) ==
  IF pc[p] = "work" THEN -1
  ELSE IF pc[p] = "send" /\ impl[p].dest <= q THEN impl[p].stage - 1
  ELSE impl[p].stage

\* Who was heard in stage t with the word 1, and a sequence that counts them.
Words == [Nat -> {0, 1}]
Past(seen, words, t) == {q \in Proc : seen[q] >= t /\ words[q][t] = 1}
Counted(numbers, seen, words) ==
  \A t \in 0 .. Len(numbers) - 1 : numbers[t + 1] = Cardinality(Past(seen, words, t))

Anything == [q \in Proc |-> [t \in Nat |-> 1]]
Heard(im) == Counted(im.processors_synchronizing_stage, im.synchronizing_stage, Anything)

AllIn(im, place) ==
  place \in {"drain", "flush", "barrier"} =>
    \A q \in Proc : im.synchronizing_stage[q] >= im.stage

Ahead(p, q) == step[p] > step[q] => step[p] = step[q] + 1 /\ pc[q] = "barrier"

Channel(p, q) ==
  LET waiting == Len(counts[p][q])
  IN /\ step[p] = step[q] => Seen(q, p) + waiting = Announced(p, q)
     /\ step[p] = step[q] + 1 => /\ Seen(q, p) = impl[q].stage
                                 /\ waiting = Announced(p, q) + 1
     /\ step[q] = step[p] + 1 => Seen(q, p) = -1 /\ waiting = 0

Alone == \A p \in Proc : counts[p][p] = << >> /\ Heard(impl[p]) /\ AllIn(impl[p], pc[p])
Between == \A p, q \in Proc : Ahead(p, q) /\ (p # q => Channel(p, q))
GroupInv == GroupTypes /\ Alone /\ Between

LEMMA OnlyOne ==
  ASSUME GroupTypes, NEW p \in Proc, NEW im, NEW place, Only(p, im, place)
  PROVE  /\ impl'[p] = im /\ pc'[p] = place
         /\ \A q \in Proc : q # p => impl'[q] = impl[q] /\ pc'[q] = pc[q]
BY DEF Only, GroupTypes, Types

LEMMA SeenTyped ==
  ASSUME GroupTypes, NEW p \in Proc, NEW q \in Proc
  PROVE  /\ Seen(p, q) \in Int /\ Announced(p, q) \in Int /\ Len(counts[p][q]) \in Nat
         /\ step[p] \in Nat /\ impl[p].stage \in Int /\ impl[p].dest \in Nat
         /\ counts[p][q] \in Seq(Int) /\ p \in Nat
<1>1. impl[p] \in Impl /\ counts[p][q] \in Seq(Int) /\ step[p] \in Nat
  BY OwnTypes
<1>2. impl[p].synchronizing_stage[q] \in Int /\ impl[p].stage \in Int /\ impl[p].dest \in Nat
  BY <1>1 DEF Impl
<1>3. p \in Nat
  BY ProcIs
<1>4. PICK words \in Seq(Int) : words = counts[p][q]
  BY <1>1
<1>5. Len(words) \in Nat
  OBVIOUS
<1> QED
  BY <1>1, <1>2, <1>3, <1>4, <1>5 DEF Seen, Announced

LEMMA AllCounted ==
  ASSUME NEW S \in SUBSET Proc, Cardinality(S) >= P
  PROVE  S = Proc
<1>1. IsFiniteSet(Proc) /\ IsFiniteSet(S) /\ Cardinality(S) \in Nat /\ P \in Nat
  BY ProcIs, FS_Subset, FS_CardinalityType
<1>2. Cardinality(S) <= P /\ (Cardinality(S) = P => S = Proc)
  BY <1>1, FS_Subset DEF P
<1> QED
  BY <1>1, <1>2

\* A step that leaves the stages and the words alone.
LEMMA QuietKeeps ==
  ASSUME GroupInv, GroupTypes', NEW p \in Proc, NEW im \in Impl, NEW place \in Place,
         Only(p, im, place), SameStages(im, impl[p]), UNCHANGED <<counts, step>>,
         \/ place = pc[p] /\ im.dest = impl[p].dest
         \/ pc[p] \notin {"work", "send", "barrier"} /\ place \notin {"work", "send"},
         AllIn(im, place)
  PROVE  GroupInv'
<1>1. /\ impl'[p] = im /\ pc'[p] = place
      /\ \A q \in Proc : q # p => impl'[q] = impl[q] /\ pc'[q] = pc[q]
  BY OnlyOne DEF GroupInv
<1>2. \A x \in Proc : SameStages(impl'[x], impl[x])
  BY <1>1 DEF SameStages
<1>3. Alone'
  <2> SUFFICES ASSUME NEW x \in Proc
               PROVE  (counts[x][x] = << >> /\ Heard(impl[x]) /\ AllIn(impl[x], pc[x]))'
    BY DEF Alone
  <2>1. counts'[x][x] = << >>
    BY DEF GroupInv, Alone
  <2>2. Heard(impl'[x])
    BY <1>2 DEF GroupInv, Alone, Heard, SameStages
  <2>3. AllIn(impl'[x], pc'[x])
    BY <1>1 DEF GroupInv, Alone
  <2> QED
    BY <2>1, <2>2, <2>3 DEF Heard, AllIn
<1>4. \A x, y \in Proc : Seen(x, y)' = Seen(x, y) /\ Announced(x, y)' = Announced(x, y)
  BY <1>1, <1>2 DEF Seen, Announced, SameStages
<1>5. Between'
  <2> SUFFICES ASSUME NEW x \in Proc, NEW y \in Proc
               PROVE  Ahead(x, y)' /\ (x # y => Channel(x, y)')
    BY DEF Between
  <2>1. Ahead(x, y)'
    <3>1. pc[y] = "barrier" => pc'[y] = "barrier"
      BY <1>1
    <3> QED
      BY <3>1 DEF GroupInv, Between, Ahead
  <2>2. x # y => Channel(x, y)'
    BY <1>2, <1>4 DEF GroupInv, Between, Channel, SameStages
  <2> QED
    BY <2>1, <2>2
<1> QED
  BY <1>3, <1>5 DEF GroupInv

LEMMA HandlesKeepsInv ==
  ASSUME GroupInv, GroupTypes', NEW p \in Proc, Handles(p)
  PROVE  GroupInv'
<1>1. PICK im \in Impl : Only(p, im, pc[p]) /\ SameStages(im, impl[p]) /\ SameLoop(im, impl[p])
  BY DEF Handles
<1>2. AllIn(im, pc[p])
  BY <1>1 DEF GroupInv, Alone, AllIn, SameStages
<1>3. pc[p] \in Place /\ im.dest = impl[p].dest /\ UNCHANGED <<counts, step>>
  BY <1>1, OwnTypes DEF GroupInv, Handles, SameLoop
<1> QED
  BY <1>1, <1>2, <1>3, QuietKeeps

\* Who goes on from waiting has heard from all.
LEMMA GoesOnKeepsInv ==
  ASSUME GroupInv, GroupTypes', NEW p \in Proc, GoesOn(p)
  PROVE  GroupInv'
<1>1. PICK im \in Impl, place \in Place : Only(p, im, place) /\ SameStages(im, impl[p])
  BY DEF GoesOn
<1>2. pc'[p] = place
  BY <1>1, OnlyOne DEF GroupInv
<1>3. pc[p] \notin {"work", "send", "barrier"} /\ place \notin {"work", "send"}
  BY <1>2 DEF GoesOn
<1>4. AllIn(im, place)
  <2>1. CASE pc[p] \in {"drain", "flush"}
    BY <1>1, <2>1 DEF GroupInv, Alone, AllIn, SameStages
  <2>2. CASE pc[p] = "wait"
    <3>1. impl[p].processors_synchronizing_stage[impl[p].stage + 1] >= P
      BY <2>2 DEF GoesOn
    <3>2. PICK seen \in [Proc -> Int], reached \in Seq(Nat), stage \in Nat :
            /\ seen = impl[p].synchronizing_stage /\ stage = impl[p].stage
            /\ reached = impl[p].processors_synchronizing_stage
      BY <2>2, OwnTypes DEF GroupInv, Impl, Good, OwnStage
    <3>3. stage \in 0 .. Len(reached) - 1
      <4>1. seen[p] = stage /\ seen[p] \in -1 .. Len(reached) - 1
        BY <2>2, <3>2, OwnTypes DEF GroupInv, Good, OwnStage, Lengths
      <4> QED
        BY <4>1
    <3>4. Cardinality(Past(seen, Anything, stage)) >= P
      BY <3>1, <3>2, <3>3 DEF GroupInv, Alone, Heard, Counted
    <3>5. Past(seen, Anything, stage) = Proc
      BY <3>4, AllCounted DEF Past
    <3> QED
      BY <1>1, <3>2, <3>5 DEF AllIn, SameStages, Past
  <2> QED
    BY <1>3, <2>1, <2>2 DEF GoesOn
<1>5. UNCHANGED <<counts, step>>
  BY DEF GoesOn
<1> QED
  BY <1>1, <1>3, <1>4, <1>5, QuietKeeps

\* A process is counted for the stage that it has reached, with its word.
LEMMA CountedMore ==
  ASSUME NEW numbers \in Seq(Nat), NEW seen \in [Proc -> Int], NEW q \in Proc, NEW stage \in Nat,
         NEW words \in [Proc -> Words], NEW i \in {0, 1}, i = words[q][stage],
         Counted(numbers, seen, words), seen[q] = stage - 1,
         \A x \in Proc : seen[x] \in -1 .. Len(numbers) - 1
  PROVE  Counted(Added(numbers, stage, i), [seen EXCEPT ![q] = stage], words)
<1> DEFINE view == [seen EXCEPT ![q] = stage]
           more == Added(numbers, stage, i)
           Were(t) == Past(seen, words, t)
           Are(t) == Past(view, words, t)
<1>1. PICK n \in Nat : n = Len(numbers)
  OBVIOUS
<1>2. stage <= n /\ stage <= Len(numbers)
  <2>1. seen[q] \in -1 .. n - 1
    BY <1>1
  <2> QED
    BY <1>1, <2>1
<1>3. \A t \in Nat : t # stage => Are(t) = Were(t)
  <2> SUFFICES ASSUME NEW t \in Nat, t # stage, NEW x \in Proc
               PROVE  view[x] >= t <=> seen[x] >= t
    BY DEF Past
  <2>1. CASE x = q
    BY <2>1
  <2>2. CASE x # q
    BY <2>2
  <2> QED
    BY <2>1, <2>2
<1>4. q \notin Were(stage) /\ Are(stage) = IF i = 1 THEN Were(stage) \cup {q} ELSE Were(stage)
  <2>1. q \notin Were(stage)
    BY DEF Past
  <2>2. \A x \in Proc : view[x] >= stage <=> seen[x] >= stage \/ x = q
    OBVIOUS
  <2>3. \A x \in Proc : x \in Are(stage) <=> x \in Were(stage) \/ (x = q /\ i = 1)
    BY <2>2 DEF Past
  <2>4. Are(stage) \in SUBSET Proc /\ Were(stage) \in SUBSET Proc
    BY DEF Past
  <2> HIDE DEF Are, Were
  <2> QED
    BY <2>1, <2>3, <2>4
<1>5. IsFiniteSet(Were(stage)) /\ Cardinality(Were(stage)) \in Nat
  <2>1. Were(stage) \in SUBSET Proc
    BY DEF Past
  <2> QED
    BY <2>1, ProcIs, FS_Subset, FS_CardinalityType
<1>6. Cardinality(Are(stage)) = Cardinality(Were(stage)) + i
  <2> HIDE DEF Are, Were
  <2>1. CASE i = 1
    BY <1>4, <1>5, <2>1, FS_AddElement
  <2>2. CASE i = 0
    BY <1>4, <1>5, <2>2
  <2> QED
    BY <2>1, <2>2
<1>7. /\ more \in Seq(Nat)
      /\ n = stage => Len(more) = stage + 1 /\ more[stage + 1] = i
      /\ stage < n => Len(more) = n /\ more[stage + 1] = numbers[stage + 1] + i
      /\ \A t \in 0 .. n - 1 : t # stage => more[t + 1] = numbers[t + 1]
  <2>1. /\ Added(numbers, stage, i) \in Seq(Nat)
        /\ Len(numbers) = stage => /\ Len(Added(numbers, stage, i)) = stage + 1
                                  /\ Added(numbers, stage, i)[stage + 1] = i
        /\ stage < Len(numbers) => /\ Len(Added(numbers, stage, i)) = Len(numbers)
                                  /\ Added(numbers, stage, i)[stage + 1] = numbers[stage + 1] + i
        /\ \A t \in 0 .. Len(numbers) - 1 :
             t # stage => Added(numbers, stage, i)[t + 1] = numbers[t + 1]
    BY <1>2, AddedTyped
  <2> QED
    BY <1>1, <2>1
<1>8. \A t \in 0 .. n - 1 : numbers[t + 1] = Cardinality(Were(t))
  BY <1>1 DEF Counted
<1> HIDE DEF more
<1>9. CASE stage = n
  <2>1. Len(more) = n + 1 /\ more[n + 1] = i /\ \A t \in 0 .. n - 1 : more[t + 1] = numbers[t + 1]
    BY <1>7, <1>9
  <2>2. Cardinality(Were(stage)) = 0
    <3>1. Were(stage) = {}
      <4> SUFFICES ASSUME NEW x \in Proc PROVE ~(seen[x] >= stage)
        BY DEF Past
      <4>1. seen[x] \in -1 .. n - 1
        BY <1>1
      <4> QED
        BY <1>9, <4>1
    <3> QED
      BY <3>1, FS_EmptySet
  <2> HIDE DEF Are, Were
  <2>3. ASSUME NEW t \in 0 .. n PROVE more[t + 1] = Cardinality(Are(t))
    <3>1. CASE t = n
      BY <1>6, <1>9, <2>1, <2>2, <3>1
    <3>2. CASE t # n
      <4>1. t \in 0 .. n - 1 /\ t \in Nat
        BY <3>2
      <4>2. more[t + 1] = numbers[t + 1] /\ numbers[t + 1] = Cardinality(Were(t))
        BY <1>8, <2>1, <4>1
      <4> QED
        BY <1>3, <1>9, <3>2, <4>1, <4>2
    <3> QED
      BY <3>1, <3>2
  <2>4. Len(more) - 1 = n
    BY <2>1
  <2>5. \A t \in 0 .. Len(more) - 1 : more[t + 1] = Cardinality(Are(t))
    BY <2>3, <2>4
  <2> QED
    BY <2>5 DEF Counted, more, Are
<1>10. CASE stage # n
  <2>1. Len(more) = n /\ more[stage + 1] = numbers[stage + 1] + i
        /\ \A t \in 0 .. n - 1 : t # stage => more[t + 1] = numbers[t + 1]
    BY <1>2, <1>7, <1>10
  <2> HIDE DEF Are, Were
  <2>2. ASSUME NEW t \in 0 .. n - 1 PROVE more[t + 1] = Cardinality(Are(t))
    <3>1. numbers[t + 1] = Cardinality(Were(t))
      BY <1>8
    <3>2. CASE t = stage
      BY <1>6, <2>1, <3>1, <3>2
    <3>3. CASE t # stage
      BY <1>3, <2>1, <3>1, <3>3
    <3> QED
      BY <3>2, <3>3
  <2>3. \A t \in 0 .. Len(more) - 1 : more[t + 1] = Cardinality(Are(t))
    BY <2>1, <2>2
  <2> QED
    BY <2>3 DEF Counted, more, Are
<1> QED
  BY <1>9, <1>10

\* What a step that counts a process for a stage leaves of the records.
LEMMA RecordsCounted ==
  ASSUME NEW im \in Impl, NEW new, NEW q \in Proc, NEW stage \in Nat, NEW i \in {0, 1},
         Lengths(im), Heard(im), im.synchronizing_stage[q] = stage - 1, Records(new, im, q, stage, i)
  PROVE  /\ Heard(new) /\ new.synchronizing_stage[q] = stage
         /\ \A x \in Proc : x # q => new.synchronizing_stage[x] = im.synchronizing_stage[x]
<1>1. PICK seen \in [Proc -> Int], reached \in Seq(Nat) :
        seen = im.synchronizing_stage /\ reached = im.processors_synchronizing_stage
  BY DEF Impl
<1>2. /\ Counted(reached, seen, Anything) /\ seen[q] = stage - 1
      /\ \A x \in Proc : seen[x] \in -1 .. Len(reached) - 1
  BY <1>1 DEF Heard, Lengths
<1>3. Counted(Added(reached, stage, 1), [seen EXCEPT ![q] = stage], Anything)
  <2>1. Anything \in [Proc -> Words] /\ Anything[q][stage] = 1 /\ 1 \in {0, 1}
    BY DEF Anything, Words
  <2> QED
    BY <1>2, <2>1, CountedMore
<1>4. /\ new.synchronizing_stage = [seen EXCEPT ![q] = stage]
      /\ new.processors_synchronizing_stage = Added(reached, stage, 1)
  BY <1>1 DEF Records
<1> QED
  BY <1>1, <1>3, <1>4 DEF Heard

\* The process itself, after a step in which it counts q for a stage.
LEMMA AloneAfter ==
  ASSUME GroupInv, NEW p \in Proc, NEW new, NEW place, Only(p, new, place),
         Heard(new), AllIn(new, place), \A x \in Proc : counts'[x][x] = counts[x][x]
  PROVE  Alone'
<1>1. /\ impl'[p] = new /\ pc'[p] = place
      /\ \A x \in Proc : x # p => impl'[x] = impl[x] /\ pc'[x] = pc[x]
  BY OnlyOne DEF GroupInv
<1>2. \A x \in Proc : counts'[x][x] = << >> /\ Heard(impl'[x]) /\ AllIn(impl'[x], pc'[x])
  BY <1>1 DEF GroupInv, Alone
<1>3. \A x \in Proc : /\ Heard(impl[x])' <=> Heard(impl'[x])
                      /\ AllIn(impl[x], pc[x])' <=> AllIn(impl'[x], pc'[x])
  BY DEF Heard, AllIn, Counted, Past
<1> QED
  BY <1>2, <1>3 DEF Alone

LEMMA Steps ==
  ASSUME GroupInv, NEW p \in Proc, NEW q \in Proc
  PROVE  /\ step[p] \in Nat /\ step[q] \in Nat
         /\ step[p] = step[q] \/ step[p] = step[q] + 1 \/ step[q] = step[p] + 1
<1>1. step[p] \in Nat /\ step[q] \in Nat
  BY OwnTypes DEF GroupInv
<1>2. Ahead(p, q) /\ Ahead(q, p)
  BY DEF GroupInv, Between
<1> QED
  BY <1>1, <1>2 DEF Ahead

\* A word is read in the superstep in which it was told, for the next stage.
LEMMA HeardInStep ==
  ASSUME GroupInv, NEW p \in Proc, NEW q \in Proc, Hears(p, q)
  PROVE  /\ q # p /\ step[q] = step[p] /\ step[p] \in Nat
         /\ \E stage \in Nat : stage = Seen(p, q) + 1 /\ Seen(p, q) = stage - 1
<1>1. pc[p] # "barrier" /\ counts[q][p] # << >>
  BY DEF Hears
<1>2. q # p
  BY <1>1 DEF GroupInv, Alone
<1>3. PICK w \in Seq(Int) : w = counts[q][p] /\ w # << >> /\ Len(w) # 0
  BY <1>1, OwnTypes DEF GroupInv
<1>4. step[q] = step[p]
  <2>1. ~(step[q] > step[p])
    BY <1>1 DEF GroupInv, Between, Ahead
  <2>2. ~(step[p] > step[q])
    BY <1>2, <1>3 DEF GroupInv, Between, Ahead, Channel
  <2> QED
    BY <2>1, <2>2, Steps
<1>5. \E stage \in Nat : stage = Seen(p, q) + 1 /\ Seen(p, q) = stage - 1
  <2>1. Seen(p, q) \in -1 .. Len(impl[p].processors_synchronizing_stage) - 1
    BY OwnTypes DEF GroupInv, Good, Lengths, Seen
  <2>2. Len(impl[p].processors_synchronizing_stage) \in Nat
    <3>1. PICK s \in Seq(Nat) : s = impl[p].processors_synchronizing_stage
      BY OwnTypes DEF GroupInv, Impl
    <3>2. Len(s) \in Nat
      OBVIOUS
    <3> QED
      BY <3>1, <3>2
  <2>3. PICK v \in Int : v = Seen(p, q)
    BY SeenTyped DEF GroupInv
  <2>4. v + 1 \in Nat /\ v = v + 1 - 1
    BY <2>1, <2>2, <2>3
  <2> QED
    BY <2>3, <2>4
<1> QED
  BY <1>2, <1>4, <1>5, Steps

LEMMA HearsKeepsInv ==
  ASSUME GroupInv, GroupTypes', NEW p \in Proc, NEW q \in Proc, Hears(p, q)
  PROVE  GroupInv'
<1>1. PICK new \in Impl, i \in {0, 1} :
        /\ Only(p, new, pc[p]) /\ new.stage = impl[p].stage /\ new.dest = impl[p].dest
        /\ Records(new, impl[p], q, impl[p].synchronizing_stage[q] + 1, i)
  BY DEF Hears, SameLoop
<1>2. /\ pc[p] # "barrier" /\ counts[q][p] # << >> /\ UNCHANGED step
      /\ counts' = [counts EXCEPT ![q][p] = Tail(@)]
  BY DEF Hears
<1>3. q # p /\ step[q] = step[p]
  BY HeardInStep
<1>4. PICK stage \in Nat : stage = Seen(p, q) + 1 /\ Seen(p, q) = stage - 1
  BY HeardInStep
<1>5. /\ Heard(new) /\ new.synchronizing_stage[q] = stage
      /\ \A x \in Proc : x # q => new.synchronizing_stage[x] = impl[p].synchronizing_stage[x]
  <2>1. impl[p] \in Impl /\ Lengths(impl[p]) /\ Heard(impl[p])
    BY OwnTypes DEF GroupInv, Alone, Good
  <2>2. Records(new, impl[p], q, stage, i) /\ impl[p].synchronizing_stage[q] = stage - 1
    BY <1>1, <1>4 DEF Seen
  <2> QED
    BY <2>1, <2>2, RecordsCounted
<1>6. /\ impl'[p] = new /\ pc'[p] = pc[p]
      /\ \A x \in Proc : x # p => impl'[x] = impl[x] /\ pc'[x] = pc[x]
  BY <1>1, OnlyOne DEF GroupInv
<1>7. AllIn(new, pc[p])
  <2>1. AllIn(impl[p], pc[p])
    BY DEF GroupInv, Alone
  <2>2. \A x \in Proc : impl[p].synchronizing_stage[x] \in Int /\ impl[p].stage \in Int
    BY SeenTyped DEF GroupInv, Seen
  <2>3. \A x \in Proc : impl[p].synchronizing_stage[x] >= impl[p].stage
                         => new.synchronizing_stage[x] >= impl[p].stage
    BY <1>4, <1>5, <2>2 DEF Seen
  <2> QED
    BY <1>1, <2>1, <2>3 DEF AllIn
<1>8. Alone'
  <2>1. \A x \in Proc : counts'[x][x] = counts[x][x]
    BY <1>2, <1>3, OwnTypes DEF GroupInv
  <2> QED
    BY <1>1, <1>5, <1>7, <2>1, AloneAfter
<1>9. PICK w \in Seq(Int) : w = counts[q][p] /\ w # << >> /\ Len(w) # 0
  BY <1>2, OwnTypes DEF GroupInv
<1>10. Between'
  <2> SUFFICES ASSUME NEW x \in Proc, NEW y \in Proc
               PROVE  Ahead(x, y)' /\ (x # y => Channel(x, y)')
    BY DEF Between
  <2>1. Ahead(x, y)'
    BY <1>2, <1>6 DEF GroupInv, Between, Ahead
  <2>2. Announced(x, y)' = Announced(x, y) /\ impl'[y].stage = impl[y].stage
    BY <1>1, <1>6 DEF Announced
  <2>3. ASSUME x # y, x # q \/ y # p PROVE Channel(x, y)'
    <3>1. Seen(y, x)' = Seen(y, x)
      BY <1>5, <1>6, <2>3 DEF Seen
    <3>2. counts'[x][y] = counts[x][y]
      BY <1>2, <2>3, OwnTypes DEF GroupInv
    <3>3. Channel(x, y)
      BY <2>3 DEF GroupInv, Between
    <3>4. step'[x] = step[x] /\ step'[y] = step[y]
      BY <1>2
    <3> QED
      BY <2>2, <3>1, <3>2, <3>3, <3>4 DEF Channel
  <2>4. ASSUME x = q, y = p PROVE Channel(x, y)'
    <3>1. PICK n \in Nat : w = counts[q][p] /\ w # << >> /\ n = Len(w)
      BY <1>9
    <3>2. PICK rest \in Seq(Int) : rest = counts'[q][p] /\ Len(rest) = n - 1
      <4>1. Tail(w) \in Seq(Int) /\ Len(Tail(w)) = n - 1
        BY <3>1
      <4>2. counts'[q][p] = Tail(w)
        BY <1>2, <3>1, OwnTypes DEF GroupInv
      <4> QED
        BY <4>1, <4>2
    <3>3. Seen(p, q)' = stage
      BY <1>5, <1>6 DEF Seen
    <3>4. Seen(p, q) + n = Announced(q, p)
      BY <1>3, <3>1 DEF GroupInv, Between, Channel
    <3>5. stage + (n - 1) = Announced(q, p)
      BY <1>4, <3>4, SeenTyped DEF GroupInv
    <3>6. step'[q] = step[q] /\ step'[p] = step[p] /\ step[p] \in Nat
      BY <1>2, OwnTypes DEF GroupInv
    <3>7. Announced(q, p)' = Announced(q, p)
      BY <2>2, <2>4
    <3>8. Channel(q, p)'
      BY <1>3, <3>2, <3>3, <3>5, <3>6, <3>7 DEF Channel
    <3> QED
      BY <2>4, <3>8
  <2> QED
    BY <2>1, <2>3, <2>4
<1> QED
  BY <1>8, <1>10 DEF GroupInv

LEMMA StartsKeepsInv ==
  ASSUME GroupInv, GroupTypes', NEW p \in Proc, NEW stage \in Nat, NEW no_new \in BOOLEAN,
         StartsStage(p, stage, no_new)
  PROVE  GroupInv'
<1>1. PICK new \in Impl, i \in {0, 1} :
        /\ Only(p, new, "send") /\ Records(new, impl[p], p, stage, i)
        /\ new.stage = stage /\ new.dest = 0
  BY DEF StartsStage
<1>2. UNCHANGED <<counts, step>>
  BY DEF StartsStage
<1>3. /\ impl'[p] = new /\ pc'[p] = "send" /\ pc[p] # "barrier"
      /\ \A x \in Proc : x # p => impl'[x] = impl[x] /\ pc'[x] = pc[x]
  BY <1>1, OnlyOne DEF GroupInv, StartsStage
<1>4. impl[p].synchronizing_stage[p] = stage - 1 /\ \A y \in Proc : Announced(p, y) = stage - 1
  <2>1. CASE pc[p] = "work"
    <3>1. stage = 0
      BY <2>1 DEF StartsStage
    <3>2. impl[p].synchronizing_stage[p] = -1
      BY <2>1, OwnTypes DEF GroupInv, Good, OwnStage
    <3> QED
      BY <2>1, <3>1, <3>2 DEF Announced
  <2>2. CASE pc[p] = "flush"
    <3>1. stage = impl[p].stage + 1
      BY <2>2 DEF StartsStage
    <3>2. impl[p].synchronizing_stage[p] = impl[p].stage /\ impl[p].stage \in Nat
      BY <2>2, OwnTypes DEF GroupInv, Good, OwnStage
    <3> QED
      BY <2>2, <3>1, <3>2 DEF Announced
  <2> QED
    BY <2>1, <2>2 DEF StartsStage
<1>5. /\ Heard(new) /\ new.synchronizing_stage[p] = stage
      /\ \A x \in Proc : x # p => new.synchronizing_stage[x] = impl[p].synchronizing_stage[x]
  <2>1. impl[p] \in Impl /\ Lengths(impl[p]) /\ Heard(impl[p])
    BY OwnTypes DEF GroupInv, Alone, Good
  <2>2. Records(new, impl[p], p, stage, i) /\ impl[p].synchronizing_stage[p] = stage - 1
    BY <1>1, <1>4
  <2>3. PICK old \in Impl : old = impl[p]
    BY <2>1
  <2>4. /\ Heard(new) /\ new.synchronizing_stage[p] = stage
        /\ \A x \in Proc : x # p => new.synchronizing_stage[x] = old.synchronizing_stage[x]
    BY <2>1, <2>2, <2>3, RecordsCounted
  <2> QED
    BY <2>3, <2>4
<1>6. Alone'
  <2>1. \A x \in Proc : counts'[x][x] = counts[x][x]
    BY <1>2
  <2>2. AllIn(new, "send")
    BY DEF AllIn
  <2> QED
    BY <1>1, <1>5, <2>1, <2>2, AloneAfter
<1>7. Between'
  <2> SUFFICES ASSUME NEW x \in Proc, NEW y \in Proc
               PROVE  Ahead(x, y)' /\ (x # y => Channel(x, y)')
    BY DEF Between
  <2>1. Ahead(x, y)'
    BY <1>2, <1>3 DEF GroupInv, Between, Ahead
  <2>2. ASSUME x # y PROVE Channel(x, y)'
    <3>1. Seen(y, x)' = Seen(y, x)
      BY <1>3, <1>5, <2>2 DEF Seen
    <3>2. Announced(x, y)' = Announced(x, y)
      <4>1. CASE x # p
        BY <1>3, <4>1 DEF Announced
      <4>2. CASE x = p
        <5>1. 0 <= y
          BY SeenTyped DEF GroupInv
        <5> QED
          BY <1>1, <1>3, <1>4, <4>2, <5>1 DEF Announced
      <4> QED
        BY <4>1, <4>2
    <3>3. step[x] = step[y] + 1 => impl'[y].stage = impl[y].stage
      <4>1. step[x] = step[y] + 1 => pc[y] = "barrier"
        BY OwnTypes DEF GroupInv, Between, Ahead
      <4> QED
        BY <1>3, <4>1
    <3>4. Channel(x, y)
      BY <2>2 DEF GroupInv, Between
    <3>5. step'[x] = step[x] /\ step'[y] = step[y] /\ counts'[x][y] = counts[x][y]
      BY <1>2
    <3> QED
      BY <3>1, <3>2, <3>3, <3>4, <3>5 DEF Channel
  <2> QED
    BY <2>1, <2>2
<1> QED
  BY <1>6, <1>7 DEF GroupInv

LEMMA TellsKeepsInv ==
  ASSUME GroupInv, GroupTypes', NEW p \in Proc, Tells(p)
  PROVE  GroupInv'
<1>1. PICK new \in Impl, place \in {"send", "wait"}, dest \in Proc :
        /\ dest = impl[p].dest /\ place = IF dest + 1 \in Proc THEN "send" ELSE "wait"
        /\ Only(p, new, place) /\ SameStages(new, impl[p]) /\ new.dest = dest + 1
  <2>1. impl[p].dest \in Proc
    BY OwnTypes DEF GroupInv, Good, Tells
  <2> QED
    BY <2>1 DEF Tells
<1>2. pc[p] = "send" /\ UNCHANGED step
  BY DEF Tells
<1>3. /\ impl'[p] = new /\ pc'[p] = place
      /\ \A x \in Proc : x # p => impl'[x] = impl[x] /\ pc'[x] = pc[x]
  BY <1>1, OnlyOne DEF GroupInv
<1>4. dest = p => UNCHANGED counts
  BY <1>1 DEF Tells
<1>5. ASSUME dest # p
      PROVE  \E val \in Int : counts' = [counts EXCEPT ![p][dest] = Append(@, val)]
  BY <1>1, <1>5 DEF Tells
<1>6. \A x, y \in Proc : x # p \/ y # dest \/ x = y => counts'[x][y] = counts[x][y]
  BY <1>4, <1>5, OwnTypes DEF GroupInv
<1>7. dest # p => Len(counts'[p][dest]) = Len(counts[p][dest]) + 1
  <2> SUFFICES ASSUME dest # p PROVE Len(counts'[p][dest]) = Len(counts[p][dest]) + 1
    OBVIOUS
  <2>1. PICK val \in Int : counts' = [counts EXCEPT ![p][dest] = Append(@, val)]
    BY <1>5
  <2>2. PICK w \in Seq(Int) : w = counts[p][dest]
    BY OwnTypes DEF GroupInv
  <2>3. counts'[p][dest] = Append(w, val)
    BY <2>1, <2>2, OwnTypes DEF GroupInv
  <2>4. Len(Append(w, val)) = Len(w) + 1
    OBVIOUS
  <2> QED
    BY <2>2, <2>3, <2>4
<1>8. Alone'
  <2>1. Heard(new)
    BY <1>1 DEF GroupInv, Alone, Heard, SameStages
  <2>2. AllIn(new, place)
    BY DEF AllIn
  <2> QED
    BY <1>1, <1>6, <2>1, <2>2, AloneAfter
<1>9. \A x, y \in Proc : Seen(x, y)' = Seen(x, y) /\ impl'[x].stage = impl[x].stage
  BY <1>1, <1>3 DEF Seen, SameStages
<1>10. \A y \in Proc : Announced(p, y)' = IF y = dest THEN Announced(p, y) + 1 ELSE Announced(p, y)
  <2> SUFFICES ASSUME NEW y \in Proc
               PROVE  Announced(p, y)' = IF y = dest THEN Announced(p, y) + 1 ELSE Announced(p, y)
    OBVIOUS
  <2>1. PICK stage \in Int : stage = impl[p].stage /\ stage = impl'[p].stage
    BY <1>9, SeenTyped DEF GroupInv
  <2>2. Announced(p, y) = IF dest <= y THEN stage - 1 ELSE stage
    BY <1>1, <1>2, <2>1 DEF Announced
  <2>3. Announced(p, y)' = IF place = "send" /\ dest + 1 <= y THEN stage - 1 ELSE stage
    BY <1>1, <1>3, <2>1 DEF Announced
  <2>4. place # "send" => y <= dest
    BY <1>1, ProcIs
  <2>5. dest \in Nat /\ y \in Nat
    BY ProcIs
  <2> QED
    BY <2>2, <2>3, <2>4, <2>5
<1>11. Between'
  <2> SUFFICES ASSUME NEW x \in Proc, NEW y \in Proc
               PROVE  Ahead(x, y)' /\ (x # y => Channel(x, y)')
    BY DEF Between
  <2>1. Ahead(x, y)'
    BY <1>2, <1>3 DEF GroupInv, Between, Ahead
  <2>2. ASSUME x # y, x # p \/ y # dest PROVE Channel(x, y)'
    <3>1. Announced(x, y)' = Announced(x, y)
      <4>1. CASE x # p
        BY <1>3, <4>1 DEF Announced
      <4>2. CASE x = p
        BY <1>10, <2>2, <4>2
      <4> QED
        BY <4>1, <4>2
    <3>2. Channel(x, y) /\ Seen(y, x)' = Seen(y, x) /\ impl'[y].stage = impl[y].stage
      BY <1>9, <2>2 DEF GroupInv, Between
    <3>3. step'[x] = step[x] /\ step'[y] = step[y] /\ counts'[x][y] = counts[x][y]
      BY <1>2, <1>6, <2>2
    <3> QED
      BY <3>1, <3>2, <3>3 DEF Channel
  <2>3. ASSUME dest # p PROVE Channel(p, dest)'
    <3>1. Announced(p, dest)' = Announced(p, dest) + 1
      BY <1>10
    <3>2. Channel(p, dest) /\ Seen(dest, p)' = Seen(dest, p) /\ impl'[dest].stage = impl[dest].stage
      BY <1>9, <2>3 DEF GroupInv, Between
    <3>3. step'[p] = step[p] /\ step'[dest] = step[dest] /\ step[p] \in Nat /\ step[dest] \in Nat
      BY <1>2, OwnTypes DEF GroupInv
    <3>4. ~(step[dest] = step[p] + 1)
      BY <1>2, <3>3 DEF GroupInv, Between, Ahead
    <3>5. PICK n \in Nat, told \in Int, seen \in Int :
            n = Len(counts[p][dest]) /\ told = Announced(p, dest) /\ seen = Seen(dest, p)
      BY SeenTyped DEF GroupInv
    <3>6. Len(counts'[p][dest]) = n + 1
      BY <1>7, <2>3, <3>5
    <3>7. /\ step[p] = step[dest] => seen + n = told
          /\ step[p] = step[dest] + 1 => seen = impl[dest].stage /\ n = told + 1
      BY <3>2, <3>5 DEF Channel
    <3> QED
      BY <3>1, <3>2, <3>3, <3>4, <3>5, <3>6, <3>7 DEF Channel
  <2> QED
    BY <2>1, <2>2, <2>3
<1> QED
  BY <1>8, <1>11 DEF GroupInv

\* In the barrier every word of the superstep has arrived, and all are in the same stage.
LEMMA Together ==
  ASSUME GroupInv, NEW p \in Proc, NEW q \in Proc, pc[p] = "barrier", pc[q] = "barrier",
         step[p] = step[q]
  PROVE  /\ Seen(p, q) = impl[p].stage /\ impl[q].stage = impl[p].stage
         /\ counts[q][p] = << >>
<1>1. CASE p = q
  BY <1>1, OwnTypes DEF GroupInv, Alone, Good, OwnStage, Seen
<1>2. CASE p # q
  <2>1. PICK m \in Int, n \in Int, a \in Int, b \in Int :
          a = Seen(p, q) /\ b = Seen(q, p) /\ m = impl[p].stage /\ n = impl[q].stage
    BY SeenTyped DEF GroupInv
  <2>2. PICK w \in Seq(Int), u \in Seq(Int) : w = counts[q][p] /\ u = counts[p][q]
    BY OwnTypes DEF GroupInv
  <2>3. a >= m /\ b >= n
    BY <2>1 DEF GroupInv, Alone, AllIn, Seen
  <2>4. Channel(p, q) /\ Channel(q, p)
    BY <1>2 DEF GroupInv, Between
  <2>5. a + Len(w) = n /\ b + Len(u) = m
    BY <2>1, <2>2, <2>4 DEF Channel, Announced
  <2>6. PICK i \in Nat, j \in Nat : i = Len(w) /\ j = Len(u)
    OBVIOUS
  <2>7. i = 0 /\ a = m /\ n = m
    BY <2>3, <2>5, <2>6
  <2>8. w = << >>
    <3>1. Len(w) = 0
      BY <2>6, <2>7
    <3> QED
      BY <3>1
  <2> QED
    BY <2>1, <2>2, <2>7, <2>8
<1> QED
  BY <1>1, <1>2

\* Who leaves leaves the others in the barrier, or has seen them leave it.
LEMMA AllHaveCome ==
  ASSUME GroupInv, NEW p \in Proc, Leaves(p), NEW q \in Proc, q # p
  PROVE  \/ step[q] = step[p] /\ pc[q] = "barrier"
         \/ step[q] = step[p] + 1
<1>1. pc[p] = "barrier" /\ (pc[q] = "barrier" \/ step[q] > step[p])
  BY DEF Leaves
<1>2. ~(step[p] = step[q] + 1)
  <2> SUFFICES ASSUME step[p] = step[q] + 1 PROVE FALSE
    OBVIOUS
  <2>1. Seen(p, q) = -1
    BY DEF GroupInv, Between, Channel
  <2>2. Seen(p, q) >= impl[p].stage /\ impl[p].stage \in Nat
    BY <1>1, OwnTypes DEF GroupInv, Alone, AllIn, Seen, Good, OwnStage
  <2> QED
    BY <2>1, <2>2
<1> QED
  BY <1>1, <1>2, Steps

LEMMA LeavesKeepsInv ==
  ASSUME GroupInv, GroupTypes', NEW p \in Proc, Leaves(p)
  PROVE  GroupInv'
<1>1. PICK new \in Impl :
        /\ Only(p, new, "work") /\ new.synchronizing_stage = [q \in Proc |-> -1]
        /\ new.processors_synchronizing_stage = << >> /\ new.stage = impl[p].stage
  BY DEF Leaves
<1>2. /\ pc[p] = "barrier" /\ \A q \in Proc : pc[q] = "barrier" \/ step[q] > step[p]
      /\ step' = [step EXCEPT ![p] = @ + 1] /\ UNCHANGED counts
  BY DEF Leaves
<1>3. /\ impl'[p] = new /\ pc'[p] = "work" /\ step[p] \in Nat /\ step'[p] = step[p] + 1
      /\ \A x \in Proc : x # p => /\ impl'[x] = impl[x] /\ pc'[x] = pc[x]
                                  /\ step'[x] = step[x] /\ step[x] \in Nat
  BY <1>1, <1>2, OnlyOne, OwnTypes DEF GroupInv, GroupTypes, Types
<1>4. Alone'
  <2>1. Heard(new)
    <3>1. Len(<< >>) = 0
      OBVIOUS
    <3> QED
      BY <1>1, <3>1 DEF Heard, Counted
  <2>2. AllIn(new, "work")
    BY DEF AllIn
  <2> QED
    BY <1>1, <1>2, <2>1, <2>2, AloneAfter
<1>5. \A q \in Proc : q # p => \/ step[q] = step[p] /\ pc[q] = "barrier"
                              \/ step[q] = step[p] + 1
  BY AllHaveCome
<1>6. \A x, y \in Proc : x # y => Channel(x, y) /\ (y # p => Seen(y, x)' = Seen(y, x))
                                  /\ (x # p => Announced(x, y)' = Announced(x, y))
  BY <1>3 DEF GroupInv, Between, Seen, Announced
<1>7. \A x \in Proc : Seen(p, x)' = -1 /\ Announced(p, x)' = -1
  BY <1>1, <1>3 DEF Seen, Announced
<1>8. ASSUME NEW q \in Proc, q # p PROVE Channel(p, q)' /\ Channel(q, p)'
  <2>1. step'[q] = step[q] /\ step[q] \in Nat /\ counts' = counts /\ impl'[q].stage = impl[q].stage
    BY <1>2, <1>3, <1>8
  <2>2. PICK w \in Seq(Int), u \in Seq(Int) : w = counts[q][p] /\ u = counts[p][q]
    BY OwnTypes DEF GroupInv
  <2>3. PICK i \in Nat, j \in Nat : i = Len(w) /\ j = Len(u)
    OBVIOUS
  <2>4. CASE step[q] = step[p] /\ pc[q] = "barrier"
    <3>1. w = << >> /\ u = << >> /\ Seen(q, p) = impl[q].stage
      BY <1>2, <2>2, <2>4, Together
    <3>2. Len(w) = 0 /\ Len(u) = 0
      BY <3>1
    <3>3. step'[p] = step[q] + 1
      BY <1>3, <2>4
    <3>4. Channel(p, q)'
      BY <1>6, <1>7, <1>8, <2>1, <2>2, <3>1, <3>2, <3>3 DEF Channel
    <3>5. Channel(q, p)'
      BY <1>7, <1>8, <2>1, <2>2, <3>2, <3>3 DEF Channel
    <3> QED
      BY <3>4, <3>5
  <2>5. CASE step[q] = step[p] + 1
    <3>1. Seen(q, p) = -1 /\ j = 0 /\ i = Announced(q, p) + 1
      BY <1>6, <1>8, <2>2, <2>3, <2>5 DEF Channel
    <3>2. step'[p] = step[q]
      BY <1>3, <2>5
    <3>3. Channel(p, q)'
      BY <1>6, <1>7, <1>8, <2>1, <2>2, <2>3, <3>1, <3>2 DEF Channel
    <3>4. Announced(q, p) \in Int /\ Announced(q, p)' = Announced(q, p)
      BY <1>6, <1>8, SeenTyped DEF GroupInv
    <3>5. PICK told \in Int : told = Announced(q, p) /\ -1 + i = told
      BY <3>1, <3>4
    <3>6. counts'[q][p] = w /\ Seen(p, q)' = -1 /\ Announced(q, p)' = told /\ step'[q] = step'[p]
      BY <1>7, <2>1, <2>2, <3>2, <3>4, <3>5
    <3>7. Channel(q, p)'
      BY <2>1, <2>3, <3>5, <3>6 DEF Channel
    <3> QED
      BY <3>3, <3>7
  <2> QED
    BY <1>5, <1>8, <2>4, <2>5
<1>9. Between'
  <2> SUFFICES ASSUME NEW x \in Proc, NEW y \in Proc
               PROVE  Ahead(x, y)' /\ (x # y => Channel(x, y)')
    BY DEF Between
  <2>1. Ahead(x, y)'
    <3>1. CASE x # p /\ y # p
      BY <1>3, <3>1 DEF GroupInv, Between, Ahead
    <3>2. CASE x = p /\ y # p
      BY <1>3, <1>5, <3>2 DEF Ahead
    <3>3. CASE x # p /\ y = p
      BY <1>3, <1>5, <3>3 DEF Ahead
    <3>4. CASE x = y
      <4>1. step'[x] \in Nat
        BY <1>3
      <4> QED
        BY <3>4, <4>1 DEF Ahead
    <3> QED
      BY <3>1, <3>2, <3>3, <3>4
  <2>2. ASSUME x # y, x # p, y # p PROVE Channel(x, y)'
    <3>1. /\ step'[x] = step[x] /\ step'[y] = step[y] /\ counts'[x][y] = counts[x][y]
          /\ impl'[y].stage = impl[y].stage
      BY <1>2, <1>3, <2>2
    <3>2. /\ Channel(x, y) /\ Seen(y, x)' = Seen(y, x) /\ Announced(x, y)' = Announced(x, y)
      BY <1>6, <2>2
    <3> QED
      BY <3>1, <3>2 DEF Channel
  <2> QED
    BY <1>8, <2>1, <2>2
<1> QED
  BY <1>4, <1>9 DEF GroupInv

-----------------------------------------------------------------------------
(* All leave or none does.  What a process says in a stage it says to all:    *)
(* said[p][k][t] is 1 if p had sent before stage t of superstep k.  A process *)
(* leaves when all have said 0, and goes on when somebody has said 1.         *)

History == [Proc -> [Nat -> Words]]
SaidIn(said, k) == [r \in Proc |-> said[r][k]]

\* Process r has come to stage t of superstep k.
Spoken(r, k, t) == step[r] > k \/ (step[r] = k /\ pc[r] # "work" /\ t <= impl[r].stage)

Own(said, p) ==
  pc[p] = "send" => (impl[p].no_new_messages <=> said[p][step[p]][impl[p].stage] = 0)
Tally(said, p) ==
  Counted(impl[p].synchronizing_unfinished, impl[p].synchronizing_stage, SaidIn(said, step[p]))
Ends(p) ==
  /\ pc[p] = "barrier" => impl[p].synchronizing_unfinished[impl[p].stage + 1] = 0
  /\ pc[p] = "flush" => impl[p].synchronizing_unfinished[impl[p].stage + 1] # 0
Passed(said, p) ==
  pc[p] # "work" =>
    \A t \in Nat : t < impl[p].stage =>
      \E r \in Proc : said[r][step[p]][t] = 1 /\ Spoken(r, step[p], t)
Parts(said, p) == Own(said, p) /\ Tally(said, p) /\ Ends(p) /\ Passed(said, p)

\* The words on their way from p to q, the first of them for the stage after base.
Carries(w, base, words) == \A i \in 1 .. Len(w) : w[i] >= 0 <=> words[base + i] = 1
Base(p, q) == IF step[p] = step[q] THEN Seen(q, p) ELSE -1
OnWay(said, p, q) == Carries(counts[p][q], Base(p, q), said[p][step[p]])

Agreed(said) == \A p \in Proc : Parts(said, p) /\ \A q \in Proc : p # q => OnWay(said, p, q)

LEMMA AnnouncedIs ==
  ASSUME GroupInv, NEW p \in Proc, NEW q \in Proc, NEW t \in Nat, t <= Announced(p, q)
  PROVE  pc[p] # "work" /\ t <= impl[p].stage
BY SeenTyped DEF Announced, GroupInv

LEMMA SeenSpoken ==
  ASSUME GroupInv, NEW p \in Proc, NEW r \in Proc, NEW t \in Nat, Seen(p, r) >= t
  PROVE  Spoken(r, step[p], t)
<1>1. CASE p = r
  BY <1>1, OwnTypes DEF GroupInv, Good, OwnStage, Seen, Spoken
<1>2. CASE p # r
  <2>1. PICK seen \in Int, told \in Int, n \in Nat :
          seen = Seen(p, r) /\ told = Announced(r, p) /\ n = Len(counts[r][p])
    BY SeenTyped DEF GroupInv
  <2>2. /\ step[r] = step[p] => seen + n = told
        /\ step[p] = step[r] + 1 => seen = -1
    BY <1>2, <2>1 DEF GroupInv, Between, Channel
  <2>3. CASE step[r] = step[p]
    <3>1. t <= told
      BY <2>1, <2>2, <2>3
    <3> QED
      BY <2>1, <2>3, <3>1, AnnouncedIs DEF Spoken
  <2>4. CASE step[r] = step[p] + 1
    BY <2>4, Steps DEF Spoken
  <2> QED
    BY <2>1, <2>2, <2>3, <2>4, Steps
<1> QED
  BY <1>1, <1>2

LEMMA WordSpoken ==
  ASSUME GroupInv, NEW p \in Proc, NEW q \in Proc, p # q, NEW i \in 1 .. Len(counts[p][q])
  PROVE  Base(p, q) + i \in Nat /\ Spoken(p, step[p], Base(p, q) + i)
<1>1. PICK seen \in Int, told \in Int, n \in Nat :
        seen = Seen(q, p) /\ told = Announced(p, q) /\ n = Len(counts[p][q])
  BY SeenTyped DEF GroupInv
<1>2. /\ step[p] = step[q] => seen + n = told
      /\ step[p] = step[q] + 1 => n = told + 1
      /\ step[q] = step[p] + 1 => n = 0
  BY <1>1 DEF GroupInv, Between, Channel
<1>3. seen >= -1
  BY <1>1, OwnTypes DEF GroupInv, Good, Lengths, Seen
<1>4. PICK t \in Nat : t = Base(p, q) + i /\ t <= told
  <2>1. i \in 1 .. n
    BY <1>1
  <2>2. CASE step[p] = step[q]
    <3>1. Base(p, q) = seen
      BY <1>1, <2>2 DEF Base
    <3>2. seen + i \in Nat /\ seen + i <= told
      BY <1>2, <1>3, <2>1, <2>2
    <3> QED
      BY <3>1, <3>2
  <2>3. CASE step[p] = step[q] + 1
    <3>1. Base(p, q) = -1
      BY <2>3, Steps DEF Base
    <3>2. -1 + i \in Nat /\ -1 + i <= told
      BY <1>2, <2>1, <2>3
    <3> QED
      BY <3>1, <3>2
  <2>4. CASE step[q] = step[p] + 1
    BY <1>2, <2>1, <2>4
  <2> QED
    BY <2>2, <2>3, <2>4, Steps
<1> QED
  BY <1>1, <1>4, AnnouncedIs DEF Spoken

\* What is said of a stage does not change, and a process that does not act sees no difference.
Extends(said2, said) ==
  \A r \in Proc, k \in Nat, t \in Nat : Spoken(r, k, t) => said2[r][k][t] = said[r][k][t]
Remains == \A r \in Proc, k \in Nat, t \in Nat : Spoken(r, k, t) => Spoken(r, k, t)'

LEMMA SaidTyped ==
  ASSUME NEW said \in History, NEW p \in Proc, NEW k \in Nat
  PROVE  said[p][k] \in Words /\ SaidIn(said, k) \in [Proc -> Words]
         /\ \A r \in Proc : SaidIn(said, k)[r] = said[r][k]
BY DEF History, SaidIn

\* Those heard in a stage are the same.
LEMMA SamePast ==
  ASSUME GroupInv, NEW said \in History, NEW said2 \in History, Extends(said2, said),
         NEW p \in Proc, NEW t \in Nat
  PROVE  Past(impl[p].synchronizing_stage, SaidIn(said2, step[p]), t)
           = Past(impl[p].synchronizing_stage, SaidIn(said, step[p]), t)
<1>1. PICK k \in Nat, seen \in [Proc -> Int] : k = step[p] /\ seen = impl[p].synchronizing_stage
  BY OwnTypes DEF GroupInv, Impl
<1>2. \A r \in Proc : seen[r] >= t => said2[r][k][t] = said[r][k][t]
  <2> SUFFICES ASSUME NEW r \in Proc, seen[r] >= t PROVE said2[r][k][t] = said[r][k][t]
    OBVIOUS
  <2>1. Spoken(r, k, t)
    BY <1>1, SeenSpoken DEF Seen
  <2> QED
    BY <2>1 DEF Extends
<1>3. \A r \in Proc : seen[r] >= t => SaidIn(said2, k)[r][t] = SaidIn(said, k)[r][t]
  BY <1>2, SaidTyped
<1> QED
  BY <1>1, <1>3 DEF Past

\* So what was counted, and what is on its way, is what the longer history says.
LEMMA TallyExtends ==
  ASSUME GroupInv, NEW said \in History, NEW said2 \in History, Extends(said2, said),
         NEW p \in Proc, Tally(said, p)
  PROVE  Tally(said2, p)
<1>1. PICK k \in Nat, numbers \in Seq(Nat), seen \in [Proc -> Int] :
        /\ k = step[p] /\ numbers = impl[p].synchronizing_unfinished
        /\ seen = impl[p].synchronizing_stage
  BY OwnTypes DEF GroupInv, Impl
<1>2. Counted(numbers, seen, SaidIn(said, k))
  BY <1>1 DEF Tally
<1>3. \A t \in Nat : Past(seen, SaidIn(said2, k), t) = Past(seen, SaidIn(said, k), t)
  <2> SUFFICES ASSUME NEW t \in Nat
               PROVE  Past(seen, SaidIn(said2, k), t) = Past(seen, SaidIn(said, k), t)
    OBVIOUS
  <2>1. Past(impl[p].synchronizing_stage, SaidIn(said2, step[p]), t)
          = Past(impl[p].synchronizing_stage, SaidIn(said, step[p]), t)
    BY SamePast
  <2> QED
    BY <1>1, <2>1
<1>4. Counted(numbers, seen, SaidIn(said2, k))
  BY <1>2, <1>3 DEF Counted
<1> QED
  BY <1>1, <1>4 DEF Tally

LEMMA OnWayExtends ==
  ASSUME GroupInv, NEW said \in History, NEW said2 \in History, Extends(said2, said),
         NEW p \in Proc, NEW q \in Proc, p # q, OnWay(said, p, q)
  PROVE  OnWay(said2, p, q)
<1>1. PICK k \in Nat, base \in Int, w \in Seq(Int) :
        k = step[p] /\ base = Base(p, q) /\ w = counts[p][q]
  <2>1. Base(p, q) \in Int
    BY SeenTyped DEF GroupInv, Base
  <2> QED
    BY <2>1, SeenTyped DEF GroupInv
<1>2. Carries(w, base, said[p][k])
  BY <1>1 DEF OnWay
<1>3. \A i \in 1 .. Len(w) : said2[p][k][base + i] = said[p][k][base + i]
  <2> SUFFICES ASSUME NEW i \in 1 .. Len(w) PROVE said2[p][k][base + i] = said[p][k][base + i]
    OBVIOUS
  <2>1. base + i \in Nat /\ Spoken(p, k, base + i)
    BY <1>1, WordSpoken
  <2> QED
    BY <2>1 DEF Extends
<1>4. Carries(w, base, said2[p][k])
  BY <1>2, <1>3 DEF Carries
<1> QED
  BY <1>1, <1>4 DEF OnWay

LEMMA OthersAgree ==
  ASSUME GroupInv, NEW said \in History, NEW said2 \in History, Agreed(said),
         Extends(said2, said), Remains, NEW p \in Proc,
         \A x \in Proc : x # p => impl'[x] = impl[x] /\ pc'[x] = pc[x] /\ step'[x] = step[x],
         \A x, y \in Proc : x # p /\ y # p => counts'[x][y] = counts[x][y],
         Parts(said2, p)', \A x \in Proc : x # p => OnWay(said2, p, x)' /\ OnWay(said2, x, p)'
  PROVE  Agreed(said2)'
<1>1. ASSUME NEW x \in Proc, x # p PROVE Parts(said2, x)'
  <2>1. PICK k \in Nat, stage \in Int : k = step[x] /\ k = step'[x] /\ stage = impl[x].stage
    BY <1>1, SeenTyped DEF GroupInv
  <2>2. Own(said2, x)'
    <3> SUFFICES ASSUME pc[x] = "send"
                 PROVE  impl[x].no_new_messages <=> said2[x][k][stage] = 0
      BY <1>1, <2>1 DEF Own
    <3>1. stage \in Nat /\ Spoken(x, k, stage)
      BY <2>1, OwnTypes DEF GroupInv, Good, OwnStage, Spoken
    <3>2. said2[x][k][stage] = said[x][k][stage]
      BY <3>1 DEF Extends
    <3>3. Own(said, x)
      BY DEF Agreed, Parts
    <3>4. impl[x].no_new_messages <=> said[x][step[x]][impl[x].stage] = 0
      BY <3>3 DEF Own
    <3> QED
      BY <2>1, <3>2, <3>4
  <2>3. Tally(said2, x)'
    <3>1. Counted(impl'[x].synchronizing_unfinished, impl'[x].synchronizing_stage, SaidIn(said2, step'[x]))
      BY <1>1, <2>1, TallyExtends DEF Agreed, Parts, Tally
    <3> QED
      BY <3>1 DEF Tally, Counted, Past, SaidIn
  <2>4. Ends(x)'
    BY <1>1 DEF Agreed, Parts, Ends
  <2>5. Passed(said2, x)'
    <3> SUFFICES ASSUME pc[x] # "work", NEW t \in Nat, t < stage
                 PROVE  \E r \in Proc : said2[r][k][t] = 1 /\ Spoken(r, k, t)'
      BY <1>1, <2>1 DEF Passed
    <3>1. Passed(said, x) /\ t < impl[x].stage
      BY <2>1 DEF Agreed, Parts
    <3>2. \E r \in Proc : said[r][step[x]][t] = 1 /\ Spoken(r, step[x], t)
      BY <3>1 DEF Passed
    <3>3. PICK r \in Proc : said[r][k][t] = 1 /\ Spoken(r, k, t)
      BY <2>1, <3>2
    <3> QED
      BY <3>3 DEF Extends, Remains
  <2> QED
    BY <2>2, <2>3, <2>4, <2>5 DEF Parts
<1>2. ASSUME NEW x \in Proc, NEW y \in Proc, x # y, x # p, y # p PROVE OnWay(said2, x, y)'
  <2>1. OnWay(said2, x, y)
    BY <1>2, OnWayExtends DEF Agreed
  <2>2. Base(x, y)' = Base(x, y) /\ counts'[x][y] = counts[x][y] /\ step'[x] = step[x]
    BY <1>2 DEF Base, Seen
  <2> QED
    BY <2>1, <2>2 DEF OnWay, Carries
<1> QED
  BY <1>1, <1>2 DEF Agreed

LEMMA ExtendsItself == ASSUME NEW said PROVE Extends(said, said)
BY DEF Extends

\* A step that leaves the stages and the words alone.
LEMMA QuietAgrees ==
  ASSUME GroupInv, NEW said \in History, Agreed(said), NEW p \in Proc, NEW im \in Impl, NEW place,
         Only(p, im, place), SameStages(im, impl[p]), UNCHANGED <<counts, step>>,
         pc[p] = "work" <=> place = "work",
         place = "send" => pc[p] = "send" /\ im.no_new_messages = impl[p].no_new_messages,
         place = "barrier" => im.synchronizing_unfinished[im.stage + 1] = 0,
         place = "flush" => im.synchronizing_unfinished[im.stage + 1] # 0
  PROVE  Agreed(said)'
<1>1. /\ impl'[p] = im /\ pc'[p] = place
      /\ \A x \in Proc : x # p => impl'[x] = impl[x] /\ pc'[x] = pc[x]
  BY OnlyOne DEF GroupInv
<1>2. /\ im.stage = impl[p].stage /\ im.synchronizing_stage = impl[p].synchronizing_stage
      /\ im.synchronizing_unfinished = impl[p].synchronizing_unfinished
  BY DEF SameStages
<1>3. \A r \in Proc, k \in Nat, t \in Nat : Spoken(r, k, t)' <=> Spoken(r, k, t)
  BY <1>1, <1>2 DEF Spoken
<1>4. Own(said, p)'
  BY <1>1, <1>2 DEF Agreed, Parts, Own
<1>5. Tally(said, p)'
  <2>1. Counted(impl'[p].synchronizing_unfinished, impl'[p].synchronizing_stage, SaidIn(said, step'[p]))
    BY <1>1, <1>2 DEF Agreed, Parts, Tally
  <2> QED
    BY <2>1 DEF Tally, Counted, Past, SaidIn
<1>6. Ends(p)'
  BY <1>1 DEF Ends
<1>7. Passed(said, p)'
  <2>1. PICK k \in Nat : k = step[p] /\ k = step'[p]
    BY OwnTypes DEF GroupInv
  <2> SUFFICES ASSUME pc'[p] # "work", NEW t \in Nat, t < impl'[p].stage
               PROVE  \E r \in Proc : said[r][k][t] = 1 /\ Spoken(r, k, t)'
    BY <2>1 DEF Passed
  <2>2. Passed(said, p) /\ pc[p] # "work" /\ t < impl[p].stage
    BY <1>1, <1>2 DEF Agreed, Parts
  <2>3. PICK r \in Proc : said[r][step[p]][t] = 1 /\ Spoken(r, step[p], t)
    BY <2>2 DEF Passed
  <2> QED
    BY <1>3, <2>1, <2>3
<1>8. \A x, y \in Proc : x # y => OnWay(said, x, y)'
  <2> SUFFICES ASSUME NEW x \in Proc, NEW y \in Proc, x # y PROVE OnWay(said, x, y)'
    OBVIOUS
  <2>1. OnWay(said, x, y)
    BY DEF Agreed
  <2>2. Base(x, y)' = Base(x, y)
    BY <1>1, <1>2 DEF Base, Seen
  <2>3. counts'[x][y] = counts[x][y] /\ step'[x] = step[x]
    OBVIOUS
  <2> QED
    BY <2>1, <2>2, <2>3 DEF OnWay, Carries
<1>9. Parts(said, p)' /\ Remains
  BY <1>3, <1>4, <1>5, <1>6, <1>7 DEF Parts, Remains
<1> QED
  BY <1>1, <1>8, <1>9, OthersAgree, ExtendsItself

LEMMA HandlesAgrees ==
  ASSUME GroupInv, NEW said \in History, Agreed(said), NEW p \in Proc, Handles(p)
  PROVE  Agreed(said)'
<1>1. PICK im \in Impl : Only(p, im, pc[p]) /\ SameStages(im, impl[p]) /\ SameLoop(im, impl[p])
  BY DEF Handles
<1>2. UNCHANGED <<counts, step>> /\ Ends(p) /\ im.no_new_messages = impl[p].no_new_messages
  BY <1>1 DEF Handles, Agreed, Parts, SameLoop
<1>3. /\ pc[p] = "barrier" => im.synchronizing_unfinished[im.stage + 1] = 0
      /\ pc[p] = "flush" => im.synchronizing_unfinished[im.stage + 1] # 0
  BY <1>1, <1>2 DEF Ends, SameStages
<1> QED
  BY <1>1, <1>2, <1>3, QuietAgrees

LEMMA GoesOnAgrees ==
  ASSUME GroupInv, NEW said \in History, Agreed(said), NEW p \in Proc, GoesOn(p)
  PROVE  Agreed(said)'
<1>1. PICK im \in Impl, place \in Place : Only(p, im, place) /\ SameStages(im, impl[p])
  BY DEF GoesOn
<1>2. pc'[p] = place
  BY <1>1, OnlyOne DEF GroupInv
<1>3. pc[p] # "work" /\ place # "work" /\ place # "send" /\ UNCHANGED <<counts, step>>
  BY <1>2 DEF GoesOn
<1>4. /\ place = "barrier" => im.synchronizing_unfinished[im.stage + 1] = 0
      /\ place = "flush" => im.synchronizing_unfinished[im.stage + 1] # 0
  <2>1. Ends(p)
    BY DEF Agreed, Parts
  <2> QED
    BY <1>1, <1>2, <2>1 DEF GoesOn, Ends, SameStages
<1> QED
  BY <1>1, <1>3, <1>4, QuietAgrees

\* What is on the way after a word more, or one less.
LEMMA CarriesLess ==
  ASSUME NEW w \in Seq(Int), w # << >>, NEW base \in Int, NEW words \in Words, Carries(w, base, words)
  PROVE  Carries(Tail(w), base + 1, words) /\ (Head(w) >= 0 <=> words[base + 1] = 1)
<1>1. PICK n \in Nat : n = Len(w) /\ 1 \in 1 .. n
  OBVIOUS
<1>2. Len(Tail(w)) = n - 1 /\ Head(w) = w[1] /\ \A i \in 1 .. n - 1 : Tail(w)[i] = w[i + 1]
  BY <1>1
<1>3. \A i \in 1 .. n - 1 : w[i + 1] >= 0 <=> words[(base + 1) + i] = 1
  <2> SUFFICES ASSUME NEW i \in 1 .. n - 1 PROVE w[i + 1] >= 0 <=> words[(base + 1) + i] = 1
    OBVIOUS
  <2>1. i + 1 \in 1 .. n /\ base + (i + 1) = (base + 1) + i
    BY <1>1
  <2>2. w[i + 1] >= 0 <=> words[base + (i + 1)] = 1
    BY <1>1, <2>1 DEF Carries
  <2> QED
    BY <2>1, <2>2
<1>4. w[1] >= 0 <=> words[base + 1] = 1
  BY <1>1 DEF Carries
<1> QED
  BY <1>2, <1>3, <1>4 DEF Carries

LEMMA CarriesMore ==
  ASSUME NEW w \in Seq(Int), NEW val \in Int, NEW base \in Int, NEW words \in Words,
         Carries(w, base, words), val >= 0 <=> words[base + Len(w) + 1] = 1
  PROVE  Carries(Append(w, val), base, words)
<1>1. PICK n \in Nat : n = Len(w)
  OBVIOUS
<1>2. /\ Len(Append(w, val)) = n + 1 /\ Append(w, val)[n + 1] = val
      /\ \A i \in 1 .. n : Append(w, val)[i] = w[i]
  BY <1>1
<1>3. base + n + 1 = base + (n + 1)
  OBVIOUS
<1>4. ASSUME NEW i \in 1 .. n + 1
      PROVE  Append(w, val)[i] >= 0 <=> words[base + i] = 1
  <2>1. CASE i = n + 1
    BY <1>1, <1>2, <1>3, <2>1
  <2>2. CASE i # n + 1
    <3>1. i \in 1 .. n
      BY <2>2
    <3> QED
      BY <1>1, <1>2, <3>1 DEF Carries
  <2> QED
    BY <2>1, <2>2
<1> QED
  BY <1>2, <1>4 DEF Carries

\* A word that is read is counted as it was said.
LEMMA HearsAgrees ==
  ASSUME GroupInv, NEW said \in History, Agreed(said), NEW p \in Proc, NEW q \in Proc, Hears(p, q)
  PROVE  Agreed(said)'
<1>1. PICK new \in Impl, i \in {0, 1} :
        /\ Only(p, new, pc[p]) /\ new.stage = impl[p].stage
        /\ new.no_new_messages = impl[p].no_new_messages
        /\ i = 1 <=> Head(counts[q][p]) >= 0
        /\ Records(new, impl[p], q, impl[p].synchronizing_stage[q] + 1, i)
  BY DEF Hears, SameLoop
<1>2. /\ pc[p] \notin {"flush", "barrier"} /\ counts[q][p] # << >> /\ UNCHANGED step
      /\ counts' = [counts EXCEPT ![q][p] = Tail(@)]
  BY DEF Hears
<1>3. PICK k \in Nat, stage \in Nat :
        /\ q # p /\ k = step[p] /\ k = step[q] /\ k = step'[p] /\ k = step'[q]
        /\ stage = Seen(p, q) + 1 /\ Seen(p, q) = stage - 1
  BY <1>2, HeardInStep
<1>4. PICK numbers \in Seq(Nat), seen \in [Proc -> Int] :
        numbers = impl[p].synchronizing_unfinished /\ seen = impl[p].synchronizing_stage
  BY OwnTypes DEF GroupInv, Impl
<1>5. /\ impl'[p] = new /\ pc'[p] = pc[p]
      /\ \A x \in Proc : x # p => impl'[x] = impl[x] /\ pc'[x] = pc[x]
  BY <1>1, OnlyOne DEF GroupInv
<1>6. /\ new.synchronizing_stage = [seen EXCEPT ![q] = stage]
      /\ new.synchronizing_unfinished = Added(numbers, stage, i)
  BY <1>1, <1>3, <1>4 DEF Records, Seen
<1>7. PICK w \in Seq(Int), base \in Int :
        w = counts[q][p] /\ w # << >> /\ base = Seen(p, q) /\ base + 1 = stage
  BY <1>2, <1>3, OwnTypes, SeenTyped DEF GroupInv
<1>8. Carries(Tail(w), stage, said[q][k]) /\ i = said[q][k][stage]
  <2>1. Carries(w, base, said[q][k])
    BY <1>3, <1>7 DEF Agreed, OnWay, Base
  <2>2. said[q][k] \in Words /\ said[q][k][stage] \in {0, 1}
    BY DEF History, Words
  <2>3. Carries(Tail(w), base + 1, said[q][k]) /\ (Head(w) >= 0 <=> said[q][k][base + 1] = 1)
    BY <1>7, <2>1, <2>2, CarriesLess
  <2> QED
    BY <1>1, <1>7, <2>2, <2>3
<1>9. Parts(said, p)'
  <2>1. Own(said, p)'
    <3> SUFFICES ASSUME pc'[p] = "send"
                 PROVE  impl'[p].no_new_messages <=> said[p][k][impl'[p].stage] = 0
      BY <1>3 DEF Own
    <3>1. Own(said, p) /\ pc[p] = "send"
      BY <1>5 DEF Agreed, Parts
    <3>2. impl[p].no_new_messages <=> said[p][step[p]][impl[p].stage] = 0
      BY <3>1 DEF Own
    <3> QED
      BY <1>1, <1>3, <1>5, <3>2
  <2>2. Tally(said, p)'
    <3>1. Counted(numbers, seen, SaidIn(said, k)) /\ seen[q] = stage - 1
      BY <1>3, <1>4 DEF Agreed, Parts, Tally, Seen
    <3>2. SaidIn(said, k) \in [Proc -> Words] /\ i = SaidIn(said, k)[q][stage]
      BY <1>8, SaidTyped
    <3>3. \A x \in Proc : seen[x] \in -1 .. Len(numbers) - 1
      BY <1>4, OwnTypes DEF GroupInv, Good, Lengths
    <3>4. Counted(Added(numbers, stage, i), [seen EXCEPT ![q] = stage], SaidIn(said, k))
      BY <3>1, <3>2, <3>3, CountedMore
    <3>5. Counted(impl'[p].synchronizing_unfinished, impl'[p].synchronizing_stage,
                  SaidIn(said, step'[p]))
      BY <1>3, <1>5, <1>6, <3>4
    <3> QED
      BY <3>5 DEF Tally, Counted, Past, SaidIn
  <2>3. Ends(p)'
    BY <1>2, <1>5 DEF Ends
  <2>4. Passed(said, p)'
    <3> SUFFICES ASSUME pc'[p] # "work", NEW t \in Nat, t < impl'[p].stage
                 PROVE  \E r \in Proc : said[r][k][t] = 1 /\ Spoken(r, k, t)'
      BY <1>3 DEF Passed
    <3>1. Passed(said, p) /\ pc[p] # "work" /\ t < impl[p].stage
      BY <1>1, <1>5 DEF Agreed, Parts
    <3>2. PICK r \in Proc : said[r][step[p]][t] = 1 /\ Spoken(r, step[p], t)
      BY <3>1 DEF Passed
    <3> QED
      BY <1>1, <1>2, <1>3, <1>5, <3>2 DEF Spoken
  <2> QED
    BY <2>1, <2>2, <2>3, <2>4 DEF Parts
<1>10. ASSUME NEW x \in Proc, x # p PROVE OnWay(said, p, x)' /\ OnWay(said, x, p)'
  <2>1. OnWay(said, p, x)'
    <3>1. counts'[p][x] = counts[p][x] /\ step'[p] = step[p] /\ Base(p, x)' = Base(p, x)
      BY <1>2, <1>3, <1>5, <1>10, OwnTypes DEF GroupInv, Base, Seen
    <3>2. OnWay(said, p, x)
      BY <1>10 DEF Agreed
    <3> QED
      BY <3>1, <3>2 DEF OnWay, Carries
  <2>2. CASE x # q
    <3>1. counts'[x][p] = counts[x][p] /\ step'[x] = step[x]
      BY <1>2, <2>2, OwnTypes DEF GroupInv
    <3>2. Base(x, p)' = Base(x, p)
      BY <1>2, <1>4, <1>5, <1>6, <2>2 DEF Base, Seen
    <3>3. OnWay(said, x, p)
      BY <1>10 DEF Agreed
    <3> QED
      BY <2>1, <3>1, <3>2, <3>3 DEF OnWay, Carries
  <2>3. CASE x = q
    <3>1. counts'[q][p] = Tail(w) /\ Base(q, p)' = stage
      BY <1>2, <1>3, <1>4, <1>5, <1>6, <1>7, OwnTypes DEF GroupInv, Base, Seen
    <3> QED
      BY <1>3, <1>8, <2>1, <2>3, <3>1 DEF OnWay, Carries
  <2> QED
    BY <2>1, <2>2, <2>3
<1>11. Remains
  BY <1>1, <1>2, <1>5 DEF Remains, Spoken
<1>12. \A x, y \in Proc : x # p /\ y # p => counts'[x][y] = counts[x][y]
  BY <1>2, OwnTypes DEF GroupInv
<1> QED
  BY <1>2, <1>5, <1>9, <1>10, <1>11, <1>12, OthersAgree, ExtendsItself

\* What is told is what was said.
LEMMA TellsAgrees ==
  ASSUME GroupInv, NEW said \in History, Agreed(said), NEW p \in Proc, Tells(p)
  PROVE  Agreed(said)'
<1>1. PICK new \in Impl, place \in {"send", "wait"}, dest \in Proc :
        /\ dest = impl[p].dest /\ Only(p, new, place) /\ SameStages(new, impl[p])
        /\ new.no_new_messages = impl[p].no_new_messages
  <2>1. impl[p].dest \in Proc
    BY OwnTypes DEF GroupInv, Good, Tells
  <2> QED
    BY <2>1 DEF Tells
<1>2. pc[p] = "send" /\ UNCHANGED step
  BY DEF Tells
<1>3. /\ impl'[p] = new /\ pc'[p] = place /\ new.stage = impl[p].stage
      /\ new.synchronizing_stage = impl[p].synchronizing_stage
      /\ new.synchronizing_unfinished = impl[p].synchronizing_unfinished
      /\ \A x \in Proc : x # p => impl'[x] = impl[x] /\ pc'[x] = pc[x]
  BY <1>1, OnlyOne DEF GroupInv, SameStages
<1>4. dest = p => UNCHANGED counts
  BY <1>1 DEF Tells
<1>5. ASSUME dest # p
      PROVE  \E val \in Int : /\ counts' = [counts EXCEPT ![p][dest] = Append(@, val)]
                              /\ val >= 0 <=> ~impl[p].no_new_messages
  BY <1>1, <1>5 DEF Tells
<1>6. \A x, y \in Proc : x # p \/ y # dest \/ x = y => counts'[x][y] = counts[x][y]
  <2>1. CASE dest = p
    BY <1>4, <2>1
  <2>2. CASE dest # p
    <3>1. PICK val \in Int : counts' = [counts EXCEPT ![p][dest] = Append(@, val)]
      BY <1>5, <2>2
    <3> QED
      BY <2>2, <3>1, OwnTypes DEF GroupInv
  <2> QED
    BY <2>1, <2>2
<1>7. PICK k \in Nat, stage \in Nat :
        /\ k = step[p] /\ k = step'[p] /\ stage = impl[p].stage /\ stage = impl'[p].stage
  BY <1>2, <1>3, OwnTypes DEF GroupInv, Good, OwnStage
<1>8. impl[p].no_new_messages <=> said[p][k][stage] = 0
  <2>1. Own(said, p)
    BY DEF Agreed, Parts
  <2> QED
    BY <1>2, <1>7, <2>1 DEF Own
<1>9. \A r \in Proc, n \in Nat, t \in Nat : Spoken(r, n, t)' <=> Spoken(r, n, t)
  BY <1>1, <1>2, <1>3 DEF Spoken
<1>10. Parts(said, p)'
  <2>1. Own(said, p)'
    <3> SUFFICES ASSUME pc'[p] = "send"
                 PROVE  impl'[p].no_new_messages <=> said[p][k][stage] = 0
      BY <1>7 DEF Own
    <3> QED
      BY <1>1, <1>3, <1>8
  <2>2. Tally(said, p)'
    <3>1. Counted(impl'[p].synchronizing_unfinished, impl'[p].synchronizing_stage,
                  SaidIn(said, step'[p]))
      BY <1>3, <1>7 DEF Agreed, Parts, Tally
    <3> QED
      BY <3>1 DEF Tally, Counted, Past, SaidIn
  <2>3. Ends(p)'
    BY <1>1, <1>3 DEF Ends
  <2>4. Passed(said, p)'
    <3> SUFFICES ASSUME NEW t \in Nat, t < stage
                 PROVE  \E r \in Proc : said[r][k][t] = 1 /\ Spoken(r, k, t)'
      BY <1>7 DEF Passed
    <3>1. Passed(said, p) /\ pc[p] # "work" /\ t < impl[p].stage
      BY <1>2, <1>7 DEF Agreed, Parts
    <3>2. PICK r \in Proc : said[r][step[p]][t] = 1 /\ Spoken(r, step[p], t)
      BY <3>1 DEF Passed
    <3> QED
      BY <1>7, <1>9, <3>2
  <2> QED
    BY <2>1, <2>2, <2>3, <2>4 DEF Parts
<1>11. \A x, y \in Proc : Base(x, y)' = Base(x, y)
  BY <1>2, <1>3 DEF Base, Seen
<1>12. ASSUME NEW x \in Proc, NEW y \in Proc, x # y, x # p \/ y # dest PROVE OnWay(said, x, y)'
  <2>1. OnWay(said, x, y)
    BY <1>12 DEF Agreed
  <2>2. counts'[x][y] = counts[x][y] /\ step'[x] = step[x] /\ Base(x, y)' = Base(x, y)
    BY <1>2, <1>6, <1>11, <1>12
  <2> QED
    BY <2>1, <2>2 DEF OnWay, Carries
<1>13. ASSUME dest # p PROVE OnWay(said, p, dest)'
  <2>1. PICK val \in Int : /\ counts' = [counts EXCEPT ![p][dest] = Append(@, val)]
                           /\ val >= 0 <=> ~impl[p].no_new_messages
    BY <1>5, <1>13
  <2>2. PICK w \in Seq(Int), base \in Int, n \in Nat :
          w = counts[p][dest] /\ base = Base(p, dest) /\ n = Len(w)
    <3>1. Base(p, dest) \in Int
      BY SeenTyped DEF GroupInv, Base
    <3> QED
      BY <3>1, SeenTyped DEF GroupInv
  <2>3. counts'[p][dest] = Append(w, val)
    BY <2>1, <2>2, OwnTypes DEF GroupInv
  <2>4. base + n + 1 = stage
    <3>1. Announced(p, dest) = stage - 1
      BY <1>1, <1>2, <1>7, ProcIs DEF Announced
    <3>2. ~(step[dest] = step[p] + 1)
      BY <1>2, Steps DEF GroupInv, Between, Ahead
    <3>3. Channel(p, dest)
      BY <1>13 DEF GroupInv, Between
    <3>4. CASE step[p] = step[dest]
      <4>1. base = Seen(dest, p)
        BY <2>2, <3>4 DEF Base
      <4>2. base + n = stage - 1
        BY <2>2, <3>1, <3>3, <3>4, <4>1 DEF Channel
      <4> QED
        BY <4>2
    <3>5. CASE step[p] = step[dest] + 1
      <4>1. base = -1
        BY <2>2, <3>5, Steps DEF Base
      <4>2. n = stage
        BY <2>2, <3>1, <3>3, <3>5 DEF Channel
      <4> QED
        BY <4>1, <4>2
    <3> QED
      BY <3>2, <3>4, <3>5, Steps
  <2>5. said[p][k] \in Words /\ said[p][k][stage] \in {0, 1}
    BY DEF History, Words
  <2>6. Carries(w, base, said[p][k])
    BY <1>7, <1>13, <2>2 DEF Agreed, OnWay
  <2>7. val >= 0 <=> said[p][k][base + Len(w) + 1] = 1
    BY <1>8, <2>1, <2>2, <2>4, <2>5
  <2>8. Carries(Append(w, val), base, said[p][k])
    BY <2>5, <2>6, <2>7, CarriesMore
  <2> QED
    BY <1>7, <1>11, <2>2, <2>3, <2>8 DEF OnWay
<1>14. Remains
  BY <1>9 DEF Remains
<1>15. \A x \in Proc : x # p => OnWay(said, p, x)' /\ OnWay(said, x, p)'
  BY <1>12, <1>13
<1> QED
  BY <1>2, <1>3, <1>6, <1>10, <1>14, <1>15, OthersAgree, ExtendsItself

\* A process that goes on has heard of one that had sent.
LEMMA SomebodyHadSent ==
  ASSUME GroupInv, NEW said \in History, Agreed(said), NEW p \in Proc, pc[p] = "flush"
  PROVE  \E r \in Proc : said[r][step[p]][impl[p].stage] = 1 /\ Spoken(r, step[p], impl[p].stage)
<1>1. PICK k \in Nat, t \in Nat, numbers \in Seq(Nat), seen \in [Proc -> Int] :
        /\ k = step[p] /\ t = impl[p].stage /\ numbers = impl[p].synchronizing_unfinished
        /\ seen = impl[p].synchronizing_stage
  BY OwnTypes DEF GroupInv, Impl, Good, OwnStage
<1>2. t \in 0 .. Len(numbers) - 1
  <2>1. PICK n \in Nat : n = Len(numbers)
    OBVIOUS
  <2>2. seen[p] = t /\ seen[p] \in -1 .. n - 1
    BY <1>1, <2>1, OwnTypes DEF GroupInv, Good, OwnStage, Lengths
  <2> QED
    BY <2>1, <2>2
<1>3. numbers[t + 1] # 0
  BY <1>1 DEF Agreed, Parts, Ends
<1>4. numbers[t + 1] = Cardinality(Past(seen, SaidIn(said, k), t))
  BY <1>1, <1>2 DEF Agreed, Parts, Tally, Counted
<1>5. PICK r \in Proc : seen[r] >= t /\ SaidIn(said, k)[r][t] = 1
  <2>1. Past(seen, SaidIn(said, k), t) # {}
    BY <1>3, <1>4, FS_EmptySet
  <2> QED
    BY <2>1 DEF Past
<1>6. Spoken(r, k, t)
  BY <1>1, <1>5, SeenSpoken DEF Seen
<1>7. said[r][k][t] = 1
  BY <1>5, SaidTyped
<1> QED
  BY <1>1, <1>6, <1>7

\* A process that enters a stage says there whether it had sent.
LEMMA StartsAgrees ==
  ASSUME GroupInv, NEW said \in History, Agreed(said), NEW p \in Proc,
         NEW stage \in Nat, NEW no_new \in BOOLEAN, StartsStage(p, stage, no_new)
  PROVE  \E said2 \in History : /\ Agreed(said2)' /\ Extends(said2, said)
                                /\ said2[p][step[p]][stage] = 0 <=> no_new
<1>1. PICK new \in Impl, i \in {0, 1} :
        /\ Only(p, new, "send") /\ (i = 0 <=> no_new)
        /\ Records(new, impl[p], p, stage, i)
        /\ new.stage = stage /\ new.no_new_messages = no_new
  BY DEF StartsStage
<1>2. /\ UNCHANGED <<counts, step>>
      /\ \/ pc[p] = "work" /\ stage = 0
         \/ pc[p] = "flush" /\ stage = impl[p].stage + 1
  BY DEF StartsStage
<1>3. /\ impl'[p] = new /\ pc'[p] = "send"
      /\ \A x \in Proc : x # p => impl'[x] = impl[x] /\ pc'[x] = pc[x]
  BY <1>1, OnlyOne DEF GroupInv
<1>4. PICK k \in Nat, numbers \in Seq(Nat), seen \in [Proc -> Int], now \in Int :
        /\ k = step[p] /\ k = step'[p] /\ now = impl[p].stage
        /\ numbers = impl[p].synchronizing_unfinished
        /\ seen = impl[p].synchronizing_stage
  BY <1>2, OwnTypes DEF GroupInv, Impl
<1>5. seen[p] = stage - 1 /\ ~Spoken(p, k, stage)
  <2>1. CASE pc[p] = "work"
    <3>1. seen[p] = -1
      BY <1>4, <2>1, OwnTypes DEF GroupInv, Good, OwnStage
    <3> QED
      BY <1>2, <1>4, <2>1, <3>1 DEF Spoken
  <2>2. CASE pc[p] = "flush"
    <3>1. seen[p] = now /\ stage = now + 1
      BY <1>2, <1>4, <2>2, OwnTypes DEF GroupInv, Good, OwnStage
    <3>2. ~(stage <= now) /\ ~(k > k)
      BY <3>1
    <3> QED
      BY <1>4, <3>1, <3>2 DEF Spoken
  <2> QED
    BY <1>2, <2>1, <2>2
<1> DEFINE said2 == [r \in Proc |-> [n \in Nat |-> [t \in Nat |->
                       IF r = p /\ n = k /\ t = stage THEN i ELSE said[r][n][t]]]]
<1>6. /\ said2 \in History /\ said2[p][k][stage] = i
      /\ \A r \in Proc, n \in Nat, t \in Nat :
           r # p \/ n # k \/ t # stage => said2[r][n][t] = said[r][n][t]
  <2>1. \A r \in Proc, n \in Nat, t \in Nat : said[r][n][t] \in {0, 1}
    BY DEF History, Words
  <2> QED
    BY <2>1 DEF History, Words
<1> HIDE DEF said2
<1>7. Extends(said2, said)
  BY <1>5, <1>6 DEF Extends
<1>8. Remains
  <2> SUFFICES ASSUME NEW n \in Nat, NEW t \in Nat, Spoken(p, n, t) PROVE Spoken(p, n, t)'
    BY <1>2, <1>3 DEF Remains, Spoken
  <2>1. pc[p] # "work" /\ t <= now => t <= stage
    BY <1>2, <1>4
  <2> QED
    BY <1>1, <1>2, <1>3, <1>4, <2>1 DEF Spoken
<1>9. Parts(said2, p)'
  <2>1. Own(said2, p)'
    <3> SUFFICES impl'[p].no_new_messages <=> said2[p][k][stage] = 0
      BY <1>1, <1>3, <1>4 DEF Own
    <3> QED
      BY <1>1, <1>3, <1>6
  <2>2. Tally(said2, p)'
    <3>1. Counted(numbers, seen, SaidIn(said2, k))
      <4>1. Tally(said2, p)
        BY <1>6, <1>7, TallyExtends DEF Agreed, Parts
      <4> QED
        BY <1>4, <4>1 DEF Tally
    <3>2. SaidIn(said2, k) \in [Proc -> Words] /\ i = SaidIn(said2, k)[p][stage]
      BY <1>6, SaidTyped
    <3>3. \A x \in Proc : seen[x] \in -1 .. Len(numbers) - 1
      BY <1>4, OwnTypes DEF GroupInv, Good, Lengths
    <3>4. Counted(Added(numbers, stage, i), [seen EXCEPT ![p] = stage], SaidIn(said2, k))
      BY <1>5, <3>1, <3>2, <3>3, CountedMore
    <3>5. Counted(impl'[p].synchronizing_unfinished, impl'[p].synchronizing_stage,
                  SaidIn(said2, step'[p]))
      BY <1>1, <1>3, <1>4, <3>4 DEF Records
    <3> QED
      BY <3>5 DEF Tally, Counted, Past, SaidIn
  <2>3. Ends(p)'
    BY <1>3 DEF Ends
  <2>4. Passed(said2, p)'
    <3> SUFFICES ASSUME NEW t \in Nat, t < stage
                 PROVE  \E r \in Proc : said2[r][k][t] = 1 /\ Spoken(r, k, t)'
      BY <1>1, <1>3, <1>4 DEF Passed
    <3>1. pc[p] = "flush" /\ stage = now + 1
      BY <1>2, <1>4
    <3>2. PICK r \in Proc : said[r][k][t] = 1 /\ Spoken(r, k, t)
      <4>1. CASE t = now
        BY <1>4, <3>1, <4>1, SomebodyHadSent
      <4>2. CASE t < now
        <5>1. Passed(said, p)
          BY DEF Agreed, Parts
        <5> QED
          BY <1>4, <3>1, <4>2, <5>1 DEF Passed
      <4> QED
        BY <3>1, <4>1, <4>2
    <3> QED
      BY <1>7, <1>8, <3>2 DEF Extends, Remains
  <2> QED
    BY <2>1, <2>2, <2>3, <2>4 DEF Parts
<1>10. ASSUME NEW x \in Proc, x # p PROVE OnWay(said2, p, x)' /\ OnWay(said2, x, p)'
  <2>1. OnWay(said2, p, x) /\ OnWay(said2, x, p)
    BY <1>6, <1>7, <1>10, OnWayExtends DEF Agreed
  <2>2. Base(p, x)' = Base(p, x) /\ Base(x, p)' = Base(x, p)
    BY <1>1, <1>2, <1>3, <1>4, <1>10 DEF Base, Seen, Records
  <2>3. \A y, z \in Proc : counts'[y][z] = counts[y][z] /\ step'[y] = step[y]
    BY <1>2
  <2> QED
    BY <2>1, <2>2, <2>3 DEF OnWay, Carries
<1>11. Agreed(said2)'
  BY <1>2, <1>3, <1>6, <1>7, <1>8, <1>9, <1>10, OthersAgree
<1> QED
  BY <1>1, <1>4, <1>6, <1>7, <1>11

\* What is told in a superstep is read in it.
LEMMA LeavesAgrees ==
  ASSUME GroupInv, NEW said \in History, Agreed(said), NEW p \in Proc, Leaves(p)
  PROVE  Agreed(said)'
<1>1. PICK new \in Impl :
        /\ Only(p, new, "work") /\ new.synchronizing_stage = [q \in Proc |-> -1]
        /\ new.synchronizing_unfinished = << >>
  BY DEF Leaves
<1>2. /\ pc[p] = "barrier" /\ step' = [step EXCEPT ![p] = @ + 1] /\ UNCHANGED counts
  BY DEF Leaves
<1>3. /\ impl'[p] = new /\ pc'[p] = "work" /\ step[p] \in Nat /\ step'[p] = step[p] + 1
      /\ \A x \in Proc : x # p => impl'[x] = impl[x] /\ pc'[x] = pc[x] /\ step'[x] = step[x]
  BY <1>1, <1>2, OnlyOne, OwnTypes DEF GroupInv, GroupTypes, Types
<1>4. Parts(said, p)'
  <2>1. Tally(said, p)'
    <3>1. Len(<< >>) = 0
      OBVIOUS
    <3> QED
      BY <1>1, <1>3, <3>1 DEF Tally, Counted
  <2> QED
    BY <1>3, <2>1 DEF Parts, Own, Ends, Passed
<1>5. ASSUME NEW x \in Proc, x # p PROVE OnWay(said, p, x)' /\ OnWay(said, x, p)'
  <2>1. PICK w \in Seq(Int), u \in Seq(Int) : w = counts[x][p] /\ u = counts[p][x]
    BY OwnTypes DEF GroupInv
  <2>2. Len(<< >>) = 0
    OBVIOUS
  <2>3. CASE step[x] = step[p] /\ pc[x] = "barrier"
    <3>1. w = << >> /\ u = << >>
      BY <1>2, <2>1, <2>3, Together
    <3> QED
      BY <1>2, <2>1, <2>2, <3>1 DEF OnWay, Carries
  <2>4. CASE step[x] = step[p] + 1
    <3>1. OnWay(said, p, x)'
      <4>1. Len(u) = 0
        BY <1>5, <2>1, <2>4 DEF GroupInv, Between, Channel
      <4> QED
        BY <1>2, <2>1, <4>1 DEF OnWay, Carries
    <3>2. OnWay(said, x, p)'
      <4>1. Base(x, p) = -1 /\ Base(x, p)' = -1
        BY <1>1, <1>3, <1>5, <2>4, Steps DEF Base, Seen
      <4>2. counts'[x][p] = counts[x][p] /\ step'[x] = step[x] /\ OnWay(said, x, p)
        BY <1>2, <1>3, <1>5 DEF Agreed
      <4> QED
        BY <4>1, <4>2 DEF OnWay, Carries
    <3> QED
      BY <3>1, <3>2
  <2> QED
    BY <1>5, <2>3, <2>4, AllHaveCome
<1>6. Remains
  <2> SUFFICES ASSUME NEW n \in Nat, NEW t \in Nat, Spoken(p, n, t) PROVE step'[p] > n
    BY <1>3 DEF Remains, Spoken
  <2> QED
    BY <1>3 DEF Spoken
<1> QED
  BY <1>2, <1>3, <1>4, <1>5, <1>6, OthersAgree, ExtendsItself

-----------------------------------------------------------------------------
LEMMA InitInv == ProcessGroupInit => GroupInv
<1> SUFFICES ASSUME ProcessGroupInit PROVE GroupInv
  OBVIOUS
<1>1. Nobody \in [Proc -> Seq(Msg)] /\ Nobody \in Wire /\ Nobody \in [Proc -> Seq(Int)]
  <2>1. << >> \in Seq(Msg) /\ << >> \in Seq(Seq(Msg)) /\ << >> \in Seq(Int)
    OBVIOUS
  <2> QED
    BY <2>1 DEF Nobody, Wire
<1>2. Impl0 \in Impl
  <2>1. << >> \in Seq(Batch) /\ << >> \in Seq(Msg) /\ << >> \in Seq(Nat)
    OBVIOUS
  <2>2. Zero \in [Proc -> Nat] /\ Zero \in [Proc -> Int] /\ [q \in Proc |-> -1] \in [Proc -> Int]
    BY DEF Zero
  <2> QED
    BY <1>1, <2>1, <2>2 DEF Impl0, Impl
<1>3. /\ Impl0.synchronizing_stage = [q \in Proc |-> -1] /\ Impl0.outgoing = Nobody
      /\ Impl0.synchronizing_unfinished = << >> /\ Impl0.processors_synchronizing_stage = << >>
      /\ Impl0.dest = 0
  BY DEF Impl0
<1>4. Len(<< >>) = 0
  OBVIOUS
<1>5. Types
  BY <1>1, <1>2 DEF ProcessGroupInit, Types, Place
<1>6. \A p \in Proc : Good(impl[p], p, pc[p])
  <2> SUFFICES ASSUME NEW p \in Proc PROVE Good(Impl0, p, "work")
    BY DEF ProcessGroupInit
  <2>1. Fitting(Impl0)
    BY <1>3, <1>4, ProcessGroupAssumption DEF Fitting, Nobody
  <2>2. Lengths(Impl0)
    BY <1>3, <1>4 DEF Lengths
  <2>3. 0 \in 0 .. P
    BY ProcIs
  <2> QED
    BY <1>3, <2>1, <2>2, <2>3 DEF Good, OwnStage
<1>7. Alone
  <2>1. Heard(Impl0)
    BY <1>3, <1>4 DEF Heard, Counted
  <2>2. AllIn(Impl0, "work")
    BY DEF AllIn
  <2> QED
    BY <2>1, <2>2 DEF Alone, ProcessGroupInit, Nobody
<1>8. Between
  <2> SUFFICES ASSUME NEW p \in Proc, NEW q \in Proc PROVE Ahead(p, q) /\ Channel(p, q)
    BY DEF Between
  <2>1. step[p] = 0 /\ step[q] = 0 /\ counts[p][q] = << >>
    BY DEF ProcessGroupInit, Nobody
  <2>2. Announced(p, q) = -1 /\ Seen(q, p) = -1
    BY <1>3 DEF ProcessGroupInit, Announced, Seen
  <2> QED
    BY <1>4, <2>1, <2>2 DEF Ahead, Channel
<1> QED
  BY <1>5, <1>6, <1>7, <1>8 DEF GroupInv, GroupTypes

LEMMA NextInv == GroupInv /\ [ProcessGroupNext]_group_vars => GroupInv'
<1> SUFFICES ASSUME GroupInv, [ProcessGroupNext]_group_vars PROVE GroupInv'
  OBVIOUS
<1>1. ASSUME NEW p \in Proc, Works(p) \/ Send(p) \/ synchronize(p) PROVE GroupInv'
  <2>1. GroupTypes' /\ Kinds(p)
    BY <1>1, KindOfStep DEF GroupInv, Alone
  <2>2. ASSUME NEW q \in Proc, Hears(p, q) PROVE GroupInv'
    BY <2>1, <2>2, HearsKeepsInv
  <2>3. ASSUME NEW stage \in Nat, NEW no_new \in BOOLEAN, StartsStage(p, stage, no_new)
        PROVE  GroupInv'
    BY <2>1, <2>3, StartsKeepsInv
  <2> QED
    BY <2>1, <2>2, <2>3, HandlesKeepsInv, GoesOnKeepsInv, TellsKeepsInv, LeavesKeepsInv DEF Kinds
<1>2. CASE UNCHANGED group_vars
  BY <1>2 DEF group_vars, GroupInv, GroupTypes, Types, Good, Fitting, Lengths, OwnStage, Alone,
              Heard, AllIn, Between, Ahead, Channel, Seen, Announced
<1> QED
  BY <1>1, <1>2 DEF ProcessGroupNext, Done

Agreement == \E said \in History : Agreed(said)

LEMMA InitAgrees == ProcessGroupInit => Agreement
<1> SUFFICES ASSUME ProcessGroupInit PROVE Agreement
  OBVIOUS
<1> DEFINE said == [p \in Proc |-> [k \in Nat |-> [t \in Nat |-> 0]]]
<1>1. said \in History
  BY DEF History, Words
<1>2. Len(<< >>) = 0
  OBVIOUS
<1>3. ASSUME NEW p \in Proc PROVE Parts(said, p)
  <2>1. pc[p] = "work" /\ impl[p].synchronizing_unfinished = << >>
    BY DEF ProcessGroupInit, Impl0
  <2> QED
    BY <1>2, <2>1 DEF Parts, Own, Tally, Counted, Ends, Passed
<1>4. ASSUME NEW p \in Proc, NEW q \in Proc PROVE OnWay(said, p, q)
  <2>1. counts[p][q] = << >>
    BY DEF ProcessGroupInit, Nobody
  <2> QED
    BY <1>2, <2>1 DEF OnWay, Carries
<1> QED
  BY <1>1, <1>3, <1>4 DEF Agreement, Agreed

LEMMA NextAgrees == GroupInv /\ Agreement /\ [ProcessGroupNext]_group_vars => Agreement'
<1> SUFFICES ASSUME GroupInv, NEW said \in History, Agreed(said), [ProcessGroupNext]_group_vars
             PROVE  \E said2 \in History : Agreed(said2)'
  BY DEF Agreement
<1>1. ASSUME NEW p \in Proc, Works(p) \/ Send(p) \/ synchronize(p)
      PROVE  \E said2 \in History : Agreed(said2)'
  <2>1. Kinds(p)
    BY <1>1, KindOfStep DEF GroupInv, Alone
  <2>2. ASSUME NEW q \in Proc, Hears(p, q) PROVE Agreed(said)'
    BY <2>2, HearsAgrees
  <2>3. ASSUME NEW stage \in Nat, NEW no_new \in BOOLEAN, StartsStage(p, stage, no_new)
        PROVE  \E said2 \in History : Agreed(said2)'
    BY <2>3, StartsAgrees
  <2>4. Handles(p) \/ GoesOn(p) \/ Tells(p) \/ Leaves(p) => Agreed(said)'
    BY HandlesAgrees, GoesOnAgrees, TellsAgrees, LeavesAgrees
  <2> QED
    BY <2>1, <2>2, <2>3, <2>4 DEF Kinds
<1>2. CASE UNCHANGED group_vars
  <2>1. PICK p \in Proc : TRUE
    BY ProcessGroupAssumption
  <2>2. impl[p] \in Impl /\ Only(p, impl[p], pc[p]) /\ UNCHANGED <<counts, step>>
    BY <1>2 DEF group_vars, Only, GroupInv, GroupTypes, Types
  <2>3. Handles(p)
    BY <2>2 DEF Handles, SameStages, SameLoop
  <2> QED
    BY <2>3, HandlesAgrees
<1> QED
  BY <1>1, <1>2 DEF ProcessGroupNext, Done

\* The invariant, for any number of processes, any routes and any size of a batch.
THEOREM GroupInvariant == ProcessGroupSpec => [](GroupInv /\ Agreement)
<1>1. ProcessGroupInit => GroupInv /\ Agreement
  BY InitInv, InitAgrees
<1>2. GroupInv /\ Agreement /\ [ProcessGroupNext]_group_vars => (GroupInv /\ Agreement)'
  BY NextInv, NextAgrees
<1> QED
  BY <1>1, <1>2, PTL DEF ProcessGroupSpec

\* Where a process ends, all whom it has heard have said 0 in its stage.
LEMMA AllHadNothing ==
  ASSUME GroupInv, NEW said \in History, Agreed(said), NEW p \in Proc, pc[p] \in {"drain", "barrier"},
         impl[p].synchronizing_unfinished[impl[p].stage + 1] = 0
  PROVE  \A x \in Proc : said[x][step[p]][impl[p].stage] = 0 /\ Seen(p, x) >= impl[p].stage
<1>1. PICK k \in Nat, t \in Nat, numbers \in Seq(Nat), seen \in [Proc -> Int] :
        /\ k = step[p] /\ t = impl[p].stage
        /\ numbers = impl[p].synchronizing_unfinished /\ seen = impl[p].synchronizing_stage
  BY OwnTypes DEF GroupInv, Impl, Good, OwnStage
<1>2. t \in 0 .. Len(numbers) - 1
  <2>1. PICK n \in Nat : n = Len(numbers)
    OBVIOUS
  <2>2. seen[p] = t /\ seen[p] \in -1 .. n - 1
    BY <1>1, <2>1, OwnTypes DEF GroupInv, Good, OwnStage, Lengths
  <2> QED
    BY <2>1, <2>2
<1>3. numbers[t + 1] = 0
  BY <1>1
<1>4. numbers[t + 1] = Cardinality(Past(seen, SaidIn(said, k), t))
  BY <1>1, <1>2 DEF Agreed, Parts, Tally, Counted
<1>5. Past(seen, SaidIn(said, k), t) = {}
  <2>1. IsFiniteSet(Past(seen, SaidIn(said, k), t))
    <3>1. Past(seen, SaidIn(said, k), t) \in SUBSET Proc
      BY DEF Past
    <3> QED
      BY <3>1, ProcIs, FS_Subset
  <2> QED
    BY <1>3, <1>4, <2>1, FS_EmptySet
<1>6. \A x \in Proc : seen[x] >= t
  BY <1>1 DEF GroupInv, Alone, AllIn
<1>7. ASSUME NEW x \in Proc PROVE said[x][k][t] = 0
  <2>1. said[x][k][t] \in {0, 1}
    BY DEF History, Words
  <2>2. SaidIn(said, k)[x][t] # 1
    BY <1>5, <1>6 DEF Past
  <2> QED
    BY <2>1, <2>2, SaidTyped
<1> QED
  BY <1>1, <1>6, <1>7 DEF Seen

\* When a process ends, all have said 0 in its stage: nobody goes on from there.
LEMMA NobodyGoesOn ==
  ASSUME GroupInv, Agreement, NEW p \in Proc, NEW q \in Proc,
         pc[p] = "barrier", pc[q] # "work", step[p] = step[q]
  PROVE  impl[q].stage <= impl[p].stage
<1>1. PICK said \in History : Agreed(said)
  BY DEF Agreement
<1>2. PICK k \in Nat, t \in Nat : k = step[p] /\ k = step[q] /\ t = impl[p].stage
  BY OwnTypes DEF GroupInv, Good, OwnStage
<1>3. impl[p].synchronizing_unfinished[t + 1] = 0
  BY <1>1, <1>2 DEF Agreed, Parts, Ends
<1>4. \A r \in Proc : said[r][k][t] = 0
  BY <1>1, <1>2, <1>3, AllHadNothing
<1> SUFFICES ASSUME ~(impl[q].stage <= impl[p].stage) PROVE FALSE
  OBVIOUS
<1>5. t < impl[q].stage
  <2>1. PICK there \in Int : there = impl[q].stage
    BY SeenTyped DEF GroupInv
  <2>2. ~(there <= t)
    BY <1>2, <2>1
  <2>3. t < there
    BY <2>2
  <2> QED
    BY <2>1, <2>3
<1>6. PICK r \in Proc : said[r][k][t] = 1
  BY <1>1, <1>2, <1>5 DEF Agreed, Parts, Passed
<1> QED
  BY <1>4, <1>6

\* Types, for any number of processes: what synchronize counts stays in its bounds,
\* and no batch that is full is kept.
THEOREM ProcessGroupTypesCorrect == ProcessGroupSpec => []ProcessGroupTypeOK
<1>1. GroupInv => ProcessGroupTypeOK
  <2> SUFFICES ASSUME GroupInv, NEW p \in Proc
               PROVE  /\ pc[p] \in {"work", "send", "wait", "drain", "flush", "barrier"}
                      /\ \A q \in Proc :
                           /\ impl[p].number_sent_batches[q] \in Nat
                           /\ Len(impl[p].outgoing[q]) < batch_header_number
                           /\ impl[p].synchronizing_stage[q]
                                \in -1 .. Len(impl[p].processors_synchronizing_stage)
                      /\ impl[p].dest \in 0 .. Cardinality(Proc)
    BY DEF ProcessGroupTypeOK
  <2>1. PICK im \in Impl, n \in Nat :
          /\ im = impl[p] /\ n = Len(im.processors_synchronizing_stage)
          /\ Good(im, p, pc[p]) /\ pc[p] \in Place
    <3>1. PICK im \in Impl : im = impl[p]
      BY OwnTypes DEF GroupInv
    <3>2. PICK s \in Seq(Nat) : s = im.processors_synchronizing_stage
      BY DEF Impl
    <3>3. Len(s) \in Nat
      OBVIOUS
    <3> QED
      BY <3>1, <3>2, <3>3, OwnTypes DEF GroupInv
  <2>2. \A q \in Proc : im.number_sent_batches[q] \in Nat
    BY DEF Impl
  <2>3. \A q \in Proc : im.synchronizing_stage[q] \in -1 .. n
    BY <2>1 DEF Good, Lengths
  <2> QED
    BY <2>1, <2>2, <2>3 DEF Good, Fitting, Place, P
<1> QED
  BY <1>1, GroupInvariant, PTL

\* What MPI_Barrier is for: a process is never more than one superstep ahead of another,
\* and only of one that has done all of this superstep and is about to leave the barrier.
THEOREM OneStepApart == ProcessGroupSpec => [](\A p, q \in Proc : Ahead(p, q))
<1>1. GroupInv => \A p, q \in Proc : Ahead(p, q)
  BY DEF GroupInv, Between
<1> QED
  BY <1>1, GroupInvariant, PTL

\* The assertions of synchronize, for any number of processes: no process counts a
\* stage before the one below it, none goes on before it has heard from all, all
\* leave the superstep from the same stage, with no word of it on its way, and where one
\* ends none goes on.
THEOREM StagesInStepCorrect == ProcessGroupSpec => []StagesInStep
<1>1. GroupInv /\ Agreement => StagesInStep
  <2> SUFFICES ASSUME GroupInv, Agreement, NEW p \in Proc, NEW q \in Proc
               PROVE  /\ impl[p].synchronizing_stage[q] + 1 <= Len(impl[p].synchronizing_unfinished)
                      /\ pc[p] = "drain" => impl[p].synchronizing_stage[q] >= impl[p].stage
                      /\ pc[p] = "barrier" /\ pc[q] = "barrier" /\ step[p] = step[q] =>
                           /\ impl[p].synchronizing_stage[q] = impl[p].stage
                           /\ impl[q].stage = impl[p].stage /\ counts[q][p] = << >>
                      /\ pc[p] = "barrier" /\ pc[q] # "work" /\ step[p] = step[q] =>
                           impl[q].stage <= impl[p].stage
    BY DEF StagesInStep
  <2>1. impl[p].synchronizing_stage[q] + 1 <= Len(impl[p].synchronizing_unfinished)
    <3>1. PICK s \in Seq(Nat) : s = impl[p].synchronizing_unfinished
      BY OwnTypes DEF GroupInv, Impl
    <3>2. PICK n \in Nat : n = Len(s)
      OBVIOUS
    <3>3. impl[p].synchronizing_stage[q] \in -1 .. n - 1
      BY <3>1, <3>2, OwnTypes DEF GroupInv, Good, Lengths
    <3> QED
      BY <3>1, <3>2, <3>3
  <2>2. pc[p] = "drain" => impl[p].synchronizing_stage[q] >= impl[p].stage
    BY DEF GroupInv, Alone, AllIn
  <2>3. pc[p] = "barrier" /\ pc[q] = "barrier" /\ step[p] = step[q] =>
          /\ impl[p].synchronizing_stage[q] = impl[p].stage
          /\ impl[q].stage = impl[p].stage /\ counts[q][p] = << >>
    BY Together DEF Seen
  <2> QED
    BY <2>1, <2>2, <2>3, NobodyGoesOn
<1> QED
  BY <1>1, GroupInvariant, PTL
=============================================================================
