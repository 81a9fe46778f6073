---------------------- MODULE ProcessGroupBatchProofs ----------------------
(***************************************************************************)
(* The batches of a superstep, for any number of processes, any routes and *)
(* any size of a batch: when all leave synchronize, every batch has been   *)
(* counted by its sender and its receiver, and no message is left anywhere.*)
(* This holds as long as no process says -1 to one to which it has sent a  *)
(* batch since its last word: TellsTruth, which handlers can break (the    *)
(* run of MCProcessGroup with batches of one message shows how).           *)
(***************************************************************************)
EXTENDS ProcessGroupProofs

\* A process that says -1 has sent nothing since its last word.
TellsTruth ==
  \A p \in Proc :
    pc[p] = "send" /\ impl[p].no_new_messages /\ impl[p].dest # p =>
      impl[p].number_sent_batches[impl[p].dest] = 0

\* Process im has something for d, or has sent it a batch of which it has not told.
Busy(im, d) == im.outgoing[d] # << >> \/ im.number_sent_batches[d] > 0
Idle(im) == im.processing = << >> /\ im.new_batches = << >>
Clean(im) == Idle(im) /\ \A d \in Proc : ~Busy(im, d)

\* Batches that a process has queued for itself.
OwnBatches(queue, p) == \A i \in 1 .. Len(queue) : queue[i].source = p

-----------------------------------------------------------------------------
(* What sending does to the counts of batches. *)

Even(a, b, c, d) == a + b = c + d

\* Process p has sent: from im and the wires w it has come to im2 and w2.
Passes(p, im2, w2, im, w) ==
  /\ im2.number_received_batches = im.number_received_batches
  /\ \A d \in Proc : Busy(im, d) => Busy(im2, d)
  /\ \A d \in Proc : d # p =>
       /\ Even(im2.number_sent_batches[d], Len(w[d]), im.number_sent_batches[d], Len(w2[d]))
       /\ w2[d] # w[d] => Busy(im2, d)
  /\ Even(im2.number_sent_batches[p], Len(im.new_batches),
          im.number_sent_batches[p], Len(im2.new_batches))
  /\ w2[p] = w[p]
  /\ OwnBatches(im.new_batches, p) => OwnBatches(im2.new_batches, p)

\* The same of the fields and the wires together.
PassesTo(p, new, out) ==
  /\ new.impl \in Impl /\ new.wire \in Wire
  /\ Passes(p, new.impl, new.wire, out.impl, out.wire)
  /\ new.impl.processing = out.impl.processing

\* The fields that sending concerns.
SameQueues(im2, im) ==
  /\ im2.outgoing = im.outgoing /\ im2.number_sent_batches = im.number_sent_batches
  /\ im2.number_received_batches = im.number_received_batches
  /\ im2.new_batches = im.new_batches

LEMMA OwnMore ==
  ASSUME NEW p \in Proc, NEW queue \in Seq(Batch), NEW b \in Batch, b.source = p, OwnBatches(queue, p)
  PROVE  OwnBatches(Append(queue, b), p)
<1>1. PICK n \in Nat : n = Len(queue)
  OBVIOUS
<1>2. /\ Len(Append(queue, b)) = n + 1 /\ Append(queue, b)[n + 1] = b
      /\ \A i \in 1 .. n : Append(queue, b)[i] = queue[i]
  BY <1>1
<1>3. ASSUME NEW i \in 1 .. n + 1 PROVE Append(queue, b)[i].source = p
  <2>1. CASE i = n + 1
    BY <1>2, <2>1
  <2>2. CASE i # n + 1
    <3>1. i \in 1 .. n
      BY <2>2
    <3> QED
      BY <1>1, <1>2, <3>1 DEF OwnBatches
  <2> QED
    BY <2>1, <2>2
<1> QED
  BY <1>2, <1>3 DEF OwnBatches

LEMMA OwnLess ==
  ASSUME NEW p \in Proc, NEW queue \in Seq(Batch), queue # << >>, OwnBatches(queue, p)
  PROVE  OwnBatches(Tail(queue), p) /\ Head(queue).source = p
<1>1. PICK n \in Nat : n = Len(queue) /\ n > 0
  OBVIOUS
<1>2. /\ Len(Tail(queue)) = n - 1 /\ \A i \in 1 .. n - 1 : Tail(queue)[i] = queue[i + 1]
      /\ Head(queue) = queue[1]
  BY <1>1
<1>3. ASSUME NEW i \in 1 .. n - 1 PROVE Tail(queue)[i].source = p
  <2>1. i + 1 \in 1 .. n
    BY <1>1
  <2> QED
    BY <1>1, <1>2, <2>1 DEF OwnBatches
<1>4. 1 \in 1 .. n
  BY <1>1
<1> QED
  BY <1>1, <1>2, <1>3, <1>4 DEF OwnBatches

\* A batch goes: to another process over its wire, to the process itself into its queue.
LEMMA BatchPasses ==
  ASSUME NEW out \in Outs, NEW me \in Proc, NEW dest \in Proc
  PROVE  /\ PassesTo(me, send_batch(out, me, dest), out)
         /\ out.impl.outgoing[dest] # << >> => Busy(send_batch(out, me, dest).impl, dest)
         /\ out.impl.outgoing[dest] = << >> => send_batch(out, me, dest) = out
<1> DEFINE batch == out.impl.outgoing[dest]
           im == out.impl
           left == [im.outgoing EXCEPT ![dest] = << >>]
           number == [im.number_sent_batches EXCEPT ![dest] = @ + 1]
           one == [source |-> me, messages |-> batch]
           im2 == [im EXCEPT !.outgoing = left, !.number_sent_batches = number]
           im3 == [im2 EXCEPT !.new_batches = Append(@, one)]
           wire2 == [out.wire EXCEPT ![dest] = Append(@, batch)]
<1>1. im \in Impl /\ out.wire \in Wire /\ out = [impl |-> im, wire |-> out.wire]
  BY DEF Outs
<1>2. /\ im.outgoing \in [Proc -> Seq(Msg)] /\ im.number_sent_batches \in [Proc -> Nat]
      /\ im.new_batches \in Seq(Batch) /\ batch \in Seq(Msg) /\ out.wire[dest] \in Seq(Seq(Msg))
  BY <1>1 DEF Impl, Wire
<1>3. /\ left \in [Proc -> Seq(Msg)] /\ number \in [Proc -> Nat] /\ number[dest] > 0
      /\ number[dest] = im.number_sent_batches[dest] + 1
      /\ \A d \in Proc : d # dest => left[d] = im.outgoing[d] /\ number[d] = im.number_sent_batches[d]
  BY <1>2
<1>4. /\ im2 \in Impl /\ im2.outgoing = left /\ im2.number_sent_batches = number
      /\ im2.new_batches = im.new_batches /\ im2.processing = im.processing
      /\ im2.number_received_batches = im.number_received_batches
  <2> HIDE DEF left, number
  <2> QED
    BY <1>1, <1>3 DEF Impl
<1>5. one \in Batch /\ one.source = me
  BY <1>2 DEF Batch
<1>6. PICK queue \in Seq(Batch), b \in Batch : queue = im.new_batches /\ b = one /\ b.source = me
  BY <1>2, <1>5
<1>7. Append(queue, b) \in Seq(Batch) /\ Len(Append(queue, b)) = Len(queue) + 1
  OBVIOUS
<1>8. /\ im3 \in Impl /\ im3.outgoing = left /\ im3.number_sent_batches = number
      /\ im3.new_batches = Append(queue, b) /\ im3.processing = im.processing
      /\ im3.number_received_batches = im.number_received_batches
  <2> HIDE DEF im2, one, left, number
  <2> QED
    BY <1>4, <1>6, <1>7 DEF Impl
<1>9. /\ wire2 \in Wire /\ Len(wire2[dest]) = Len(out.wire[dest]) + 1
      /\ \A d \in Proc : d # dest => wire2[d] = out.wire[d]
  BY <1>1, <1>2 DEF Wire
<1>10. ASSUME NEW new \in Impl, new.outgoing = left, new.number_sent_batches = number
       PROVE  /\ \A d \in Proc : Busy(im, d) => Busy(new, d)
              /\ Busy(new, dest)
  BY <1>3, <1>10 DEF Busy
<1>11. CASE batch = << >>
  <2>1. send_batch(out, me, dest) = out
    BY <1>11 DEF send_batch
  <2> QED
    BY <1>1, <1>11, <2>1 DEF PassesTo, Passes, Even
<1>12. CASE batch # << >> /\ dest = me
  <2>1. send_batch(out, me, dest) = [impl |-> im3, wire |-> out.wire]
    BY <1>1, <1>12 DEF send_batch, Impl
  <2>2. Passes(me, im3, out.wire, im, out.wire)
    <3>1. number[me] + Len(queue) = im.number_sent_batches[me] + Len(Append(queue, b))
      <4>1. PICK m \in Nat : m = im.number_sent_batches[me]
        BY <1>2
      <4>2. PICK n \in Nat : n = Len(queue)
        OBVIOUS
      <4>3. number[me] = m + 1 /\ Len(Append(queue, b)) = n + 1
        BY <1>3, <1>7, <1>12, <4>1, <4>2
      <4> HIDE DEF number
      <4> QED
        BY <4>1, <4>2, <4>3
    <3>2. OwnBatches(queue, me) => OwnBatches(Append(queue, b), me)
      BY <1>6, OwnMore
    <3>3. \A d \in Proc : Busy(im, d) => Busy(im3, d)
      BY <1>8, <1>10
    <3> HIDE DEF im3, number, left
    <3> QED
      BY <1>3, <1>6, <1>8, <1>12, <3>1, <3>2, <3>3 DEF Passes, Even
  <2>3. Busy(im3, dest)
    BY <1>8, <1>10
  <2> HIDE DEF im3
  <2> QED
    BY <1>1, <1>8, <1>12, <2>1, <2>2, <2>3 DEF PassesTo
<1>13. CASE batch # << >> /\ dest # me
  <2>1. send_batch(out, me, dest) = [impl |-> im2, wire |-> wire2]
    BY <1>1, <1>13 DEF send_batch, Impl
  <2>2. Passes(me, im2, wire2, im, out.wire)
    <3>1. \A d \in Proc : number[d] + Len(out.wire[d]) = im.number_sent_batches[d] + Len(wire2[d])
      <4>1. ASSUME NEW d \in Proc
            PROVE  number[d] + Len(out.wire[d]) = im.number_sent_batches[d] + Len(wire2[d])
        <5>1. PICK m \in Nat : m = im.number_sent_batches[d]
          BY <1>2
        <5>2. PICK n \in Nat : n = Len(out.wire[d])
          <6>1. PICK wire \in Seq(Seq(Msg)) : wire = out.wire[d]
            BY <1>1 DEF Wire
          <6>2. Len(wire) \in Nat
            OBVIOUS
          <6> QED
            BY <6>1, <6>2
        <5> HIDE DEF number, wire2
        <5>3. CASE d = dest
          <6>1. number[d] = m + 1 /\ Len(wire2[d]) = n + 1
            BY <1>3, <1>9, <5>1, <5>2, <5>3
          <6>2. PICK a \in Nat, b2 \in Nat : a = m + 1 /\ b2 = n + 1
            OBVIOUS
          <6>3. a + n = m + b2
            BY <6>2
          <6> QED
            BY <5>1, <5>2, <6>1, <6>2, <6>3
        <5>4. CASE d # dest
          BY <1>3, <1>9, <5>1, <5>2, <5>4
        <5> QED
          BY <5>3, <5>4
      <4> QED
        BY <4>1
    <3>2. \A d \in Proc : Busy(im, d) => Busy(im2, d)
      BY <1>4, <1>10
    <3>3. \A d \in Proc : wire2[d] # out.wire[d] => Busy(im2, d)
      BY <1>4, <1>9, <1>10
    <3> HIDE DEF im2, number, left, wire2
    <3> QED
      BY <1>3, <1>4, <1>9, <1>13, <3>1, <3>2, <3>3 DEF Passes, Even
  <2>3. Busy(im2, dest)
    BY <1>4, <1>10
  <2> HIDE DEF im2, wire2
  <2> QED
    BY <1>1, <1>4, <1>9, <1>13, <2>1, <2>2, <2>3 DEF PassesTo
<1> QED
  BY <1>11, <1>12, <1>13

LEMMA LenTyped ==
  ASSUME NEW im \in Impl, NEW w \in Wire, NEW d \in Proc
  PROVE  /\ im.number_sent_batches[d] \in Nat /\ im.number_received_batches[d] \in Int
         /\ Len(w[d]) \in Nat /\ Len(im.new_batches) \in Nat
         /\ w[d] \in Seq(Seq(Msg)) /\ im.new_batches \in Seq(Batch)
         /\ im.outgoing[d] \in Seq(Msg) /\ im.processing \in Seq(Msg)
<1>1. PICK wire \in Seq(Seq(Msg)) : wire = w[d]
  BY DEF Wire
<1>2. PICK queue \in Seq(Batch) : queue = im.new_batches
  BY DEF Impl
<1>3. Len(wire) \in Nat /\ Len(queue) \in Nat
  OBVIOUS
<1>4. /\ im.number_sent_batches[d] \in Nat /\ im.number_received_batches[d] \in Int
      /\ im.outgoing[d] \in Seq(Msg) /\ im.processing \in Seq(Msg)
  BY DEF Impl
<1> QED
  BY <1>1, <1>2, <1>3, <1>4

LEMMA Evens ==
  ASSUME NEW a \in Int, NEW b \in Int, NEW c \in Int, NEW d \in Int, NEW e \in Int, NEW f \in Int,
         Even(a, d, c, b), Even(c, f, e, d)
  PROVE  Even(a, f, e, b)
BY DEF Even

LEMMA PassesOn ==
  ASSUME NEW p \in Proc, NEW im \in Impl, NEW im2 \in Impl, NEW im3 \in Impl,
         NEW w \in Wire, NEW w2 \in Wire, NEW w3 \in Wire,
         Passes(p, im2, w2, im, w), Passes(p, im3, w3, im2, w2)
  PROVE  Passes(p, im3, w3, im, w)
<1>1. ASSUME NEW d \in Proc, d # p
      PROVE  /\ Even(im3.number_sent_batches[d], Len(w[d]), im.number_sent_batches[d], Len(w3[d]))
             /\ w3[d] # w[d] => Busy(im3, d)
  <2>1. /\ Even(im2.number_sent_batches[d], Len(w[d]), im.number_sent_batches[d], Len(w2[d]))
        /\ Even(im3.number_sent_batches[d], Len(w2[d]), im2.number_sent_batches[d], Len(w3[d]))
        /\ w2[d] # w[d] => Busy(im2, d)
        /\ w3[d] # w2[d] => Busy(im3, d)
        /\ Busy(im2, d) => Busy(im3, d)
    BY <1>1 DEF Passes
  <2>2. /\ im.number_sent_batches[d] \in Int /\ im2.number_sent_batches[d] \in Int
        /\ im3.number_sent_batches[d] \in Int
        /\ Len(w[d]) \in Int /\ Len(w2[d]) \in Int /\ Len(w3[d]) \in Int
    BY LenTyped
  <2>3. Even(im3.number_sent_batches[d], Len(w[d]), im.number_sent_batches[d], Len(w3[d]))
    BY <2>1, <2>2, Evens
  <2> QED
    BY <2>1, <2>3
<1>2. Even(im3.number_sent_batches[p], Len(im.new_batches),
           im.number_sent_batches[p], Len(im3.new_batches))
  <2>1. /\ Even(im2.number_sent_batches[p], Len(im.new_batches),
                im.number_sent_batches[p], Len(im2.new_batches))
        /\ Even(im3.number_sent_batches[p], Len(im2.new_batches),
                im2.number_sent_batches[p], Len(im3.new_batches))
    BY DEF Passes
  <2>2. /\ im.number_sent_batches[p] \in Int /\ im2.number_sent_batches[p] \in Int
        /\ im3.number_sent_batches[p] \in Int /\ Len(im.new_batches) \in Int
        /\ Len(im2.new_batches) \in Int /\ Len(im3.new_batches) \in Int
    BY LenTyped
  <2> QED
    BY <2>1, <2>2, Evens
<1> QED
  BY <1>1, <1>2 DEF Passes

\* A message waits for its batch to fill, or fills it.
LEMMA SendPasses ==
  ASSUME NEW out \in Outs, NEW me \in Proc, NEW route \in Seq(Proc), route # << >>, step[me] \in Nat
  PROVE  PassesTo(me, send(out, me, route), out)
<1> DEFINE im == out.impl
<1>1. im \in Impl /\ out.wire \in Wire /\ out = [impl |-> im, wire |-> out.wire]
  BY DEF Outs
<1>2. PICK dest \in Proc, m \in Msg : dest = Head(route) /\ m = Message(me, route)
  <2>1. Head(route) \in Proc /\ Tail(route) \in Seq(Proc)
    OBVIOUS
  <2> QED
    BY <2>1 DEF Message, Msg
<1>3. PICK new \in Seq(Msg) : new = Append(im.outgoing[dest], m) /\ new # << >>
  <2>1. PICK old \in Seq(Msg) : old = im.outgoing[dest]
    BY <1>1 DEF Impl
  <2>2. Append(old, m) \in Seq(Msg) /\ Append(old, m) # << >>
    OBVIOUS
  <2> QED
    BY <2>1, <2>2
<1> DEFINE more == [im.outgoing EXCEPT ![dest] = new]
           im2 == [im EXCEPT !.outgoing = more]
           queued == [out EXCEPT !.impl.outgoing[dest] = Append(@, m)]
<1>4. /\ more \in [Proc -> Seq(Msg)] /\ more[dest] = new
      /\ \A d \in Proc : d # dest => more[d] = im.outgoing[d]
  BY <1>1 DEF Impl
<1>5. /\ im2 \in Impl /\ im2.outgoing = more /\ im2.number_sent_batches = im.number_sent_batches
      /\ im2.number_received_batches = im.number_received_batches
      /\ im2.new_batches = im.new_batches /\ im2.processing = im.processing
  <2> HIDE DEF more
  <2> QED
    BY <1>1, <1>4 DEF Impl
<1>6. queued = [impl |-> im2, wire |-> out.wire]
  <2>1. queued = [out EXCEPT !.impl.outgoing[dest] = new]
    BY <1>1, <1>3
  <2> HIDE DEF queued, im2
  <2>2. im2 = [im EXCEPT !.outgoing = [im.outgoing EXCEPT ![dest] = new]]
    BY DEF im2
  <2> QED
    BY <1>1, <2>1, <2>2, NestedUpdate
<1>7. send(out, me, route) = IF Full(queued.impl.outgoing[dest])
                             THEN send_batch(queued, me, dest) ELSE queued
  BY <1>2 DEF send
<1>8. Passes(me, im2, out.wire, im, out.wire)
  <2>1. \A d \in Proc : Busy(im, d) => Busy(im2, d)
    <3> HIDE DEF im2, more
    <3> QED
      BY <1>3, <1>4, <1>5 DEF Busy
  <2> HIDE DEF im2, more
  <2> QED
    BY <1>5, <2>1 DEF Passes, Even
<1> HIDE DEF queued, im2, more
<1>9. queued \in Outs /\ queued.impl = im2 /\ queued.wire = out.wire
  BY <1>1, <1>5, <1>6 DEF Outs
<1>10. CASE Full(queued.impl.outgoing[dest])
  <2>1. PICK last : last = send_batch(queued, me, dest) /\ last = send(out, me, route)
    BY <1>7, <1>10
  <2>2. PassesTo(me, last, queued)
    BY <1>9, <2>1, BatchPasses
  <2>3. /\ last.impl \in Impl /\ last.wire \in Wire
        /\ Passes(me, last.impl, last.wire, im2, out.wire)
        /\ last.impl.processing = im2.processing
    BY <1>9, <2>2 DEF PassesTo
  <2>4. Passes(me, last.impl, last.wire, im, out.wire)
    BY <1>1, <1>5, <1>8, <2>3, PassesOn
  <2> QED
    BY <1>5, <2>1, <2>3, <2>4 DEF PassesTo
<1>11. CASE ~Full(queued.impl.outgoing[dest])
  BY <1>1, <1>5, <1>7, <1>8, <1>9, <1>11 DEF PassesTo
<1> QED
  BY <1>10, <1>11

-----------------------------------------------------------------------------
(* What a step of p does to its batches. *)

Elsewhere(p) == \A q \in Proc : q # p => batches'[q] = batches[q]

\* It sends: in a superstep, in a handler, or what is left when it flushes.
Moves(p) ==
  /\ Passes(p, impl'[p], batches'[p], impl[p], batches[p]) /\ Elsewhere(p)
  /\ \/ /\ pc[p] = "work" \/ impl[p].processing # << >>
        /\ SameLoop(impl'[p], impl[p])
     \/ /\ pc[p] = "flush" /\ Idle(impl[p]) /\ impl[p].dest \in Proc
        /\ impl'[p].dest = impl[p].dest + 1
        /\ \/ impl'[p].no_new_messages = FALSE
           \/ /\ impl'[p].no_new_messages = impl[p].no_new_messages
              /\ ~Busy(impl[p], impl[p].dest)
              /\ SameQueues(impl'[p], impl[p]) /\ impl'[p].processing = impl[p].processing
              /\ UNCHANGED batches

\* It takes a batch of q.
Takes(p, q) ==
  /\ impl'[p].outgoing = impl[p].outgoing
  /\ impl'[p].number_sent_batches = impl[p].number_sent_batches
  /\ SameLoop(impl'[p], impl[p])
  /\ impl'[p].number_received_batches = [impl[p].number_received_batches EXCEPT ![q] = @ + 1]
  /\ \/ /\ impl[p].new_batches # << >> /\ Head(impl[p].new_batches).source = q
        /\ impl'[p].new_batches = Tail(impl[p].new_batches) /\ UNCHANGED batches
     \/ /\ pc[p] \notin {"flush", "barrier"} /\ batches[q][p] # << >>
        /\ impl'[p].new_batches = impl[p].new_batches
        /\ batches' = [batches EXCEPT ![q] = [batches[q] EXCEPT ![p] = Tail(@)]]

\* It reads how many batches of q to expect.
Positive(val) == IF val > 0 THEN val ELSE 0
Reads(p, q) ==
  /\ impl'[p].outgoing = impl[p].outgoing
  /\ impl'[p].number_sent_batches = impl[p].number_sent_batches
  /\ impl'[p].new_batches = impl[p].new_batches /\ impl'[p].processing = impl[p].processing
  /\ impl'[p].number_received_batches =
       [impl[p].number_received_batches EXCEPT ![q] = @ - Positive(Head(counts[q][p]))]
  /\ UNCHANGED batches

\* It tells how many it has sent.
Says(p) ==
  LET im == impl[p]
  IN /\ im.dest \in Proc
     /\ impl'[p].outgoing = im.outgoing
     /\ impl'[p].new_batches = im.new_batches /\ impl'[p].processing = im.processing
     /\ impl'[p].number_sent_batches = [im.number_sent_batches EXCEPT ![im.dest] = 0]
     /\ im.dest = p => impl'[p].number_received_batches =
          [im.number_received_batches EXCEPT ![p] = @ - im.number_sent_batches[p]]
     /\ im.dest # p =>
          /\ impl'[p].number_received_batches = im.number_received_batches
          /\ counts' = [counts EXCEPT ![p] = [counts[p] EXCEPT ![im.dest] =
               Append(@, IF im.no_new_messages THEN -1 ELSE im.number_sent_batches[im.dest])]]
     /\ UNCHANGED batches

\* Its batches stay as they are.
Stays(p) ==
  /\ SameQueues(impl'[p], impl[p]) /\ impl'[p].processing = impl[p].processing
  /\ UNCHANGED batches

\* After Sets: the fields and the wires of p, and of nobody else.
LEMMA SetsIs ==
  ASSUME GroupTypes, NEW p \in Proc, NEW out, Sets(p, out)
  PROVE  /\ impl'[p] = out.impl /\ batches'[p] = out.wire /\ Elsewhere(p)
BY DEF Sets, Elsewhere, GroupTypes, Types

LEMMA SendMoves ==
  ASSUME GroupTypes, NEW p \in Proc, Send(p)
  PROVE  Moves(p)
<1>1. PICK route \in Routes : Sets(p, send(Out(p), p, route))
  BY DEF Send
<1>2. route \in Seq(Proc) /\ route # << >>
  BY ProcessGroupAssumption
<1>3. PICK o \in Outs : o = Out(p) /\ o.impl = impl[p] /\ o.wire = batches[p] /\ Fitting(o.impl)
  BY OwnTypes
<1>4. PICK new : new = send(o, p, route)
  OBVIOUS
<1>5. PassesTo(p, new, o) /\ Sent(new, o.impl)
  BY <1>2, <1>3, <1>4, OwnTypes, SendPasses, SendTyped
<1>6. impl'[p] = new.impl /\ batches'[p] = new.wire /\ Elsewhere(p)
  BY <1>1, <1>3, <1>4, SetsIs
<1>7. pc[p] = "work"
  BY DEF Send
<1> QED
  BY <1>3, <1>5, <1>6, <1>7 DEF Moves, PassesTo, Sent

LEMMA ProcessBatchMoves ==
  ASSUME GroupTypes, NEW p \in Proc, process_batch(p)
  PROVE  Moves(p)
<1> DEFINE queue == impl[p].processing
           m == Head(queue)
           out == [Out(p) EXCEPT !.impl.processing = Tail(@)]
<1>1. queue \in Seq(Msg) /\ queue # << >>
  BY OwnTypes DEF Impl, process_batch
<1>2. m \in Msg /\ Tail(queue) \in Seq(Msg)
  BY <1>1
<1>3. PICK rest \in Seq(Msg) : rest = Tail(queue)
  BY <1>2
<1> DEFINE im2 == [impl[p] EXCEPT !.processing = rest]
<1>4. /\ im2 \in Impl /\ Fitting(im2) /\ SameLoop(im2, impl[p])
      /\ SameQueues(im2, impl[p])
  <2>1. im2 \in Impl /\ Fitting(im2) /\ SameLoop(im2, impl[p])
    BY OwnTypes, HandlesNone
  <2>2. SameQueues(im2, impl[p])
    BY OwnTypes DEF SameQueues, Impl
  <2> QED
    BY <2>1, <2>2
<1>5. out.impl = im2 /\ out.wire = batches[p] /\ out = [impl |-> im2, wire |-> batches[p]]
  <2>1. PICK o \in Outs : o = Out(p)
    BY OwnTypes
  <2>2. out = [o EXCEPT !.impl.processing = rest]
    BY <1>3, <2>1, OwnTypes
  <2>3. out = [impl |-> [o.impl EXCEPT !.processing = rest], wire |-> o.wire]
    <3> HIDE DEF out
    <3> QED
      BY <2>2, NestedProcessing
  <2> QED
    BY <2>1, <2>3, OwnTypes
<1>6. \/ Sets(p, out)
      \/ m.route # << >> /\ Sets(p, send(out, p, m.route))
  BY DEF process_batch
<1> HIDE DEF im2, out
<1>7. out \in Outs /\ batches[p] \in Wire
  BY <1>4, <1>5, OwnTypes DEF Outs
<1>8. Passes(p, im2, batches[p], impl[p], batches[p])
  BY <1>4 DEF Passes, SameQueues, Even, Busy
<1>9. PICK new : PassesTo(p, new, out) /\ Sets(p, new) /\ SameLoop(new.impl, im2)
  <2>1. CASE Sets(p, out)
    <3>1. PassesTo(p, out, out)
      BY <1>4, <1>5, <1>7 DEF PassesTo, Passes, Even
    <3> QED
      BY <1>5, <2>1, <3>1 DEF SameLoop
  <2>2. CASE m.route # << >> /\ Sets(p, send(out, p, m.route))
    <3>1. m.route \in Seq(Proc) /\ step[p] \in Nat
      BY <1>2, OwnTypes DEF Msg
    <3>2. PassesTo(p, send(out, p, m.route), out)
      BY <1>7, <2>2, <3>1, SendPasses
    <3>3. Sent(send(out, p, m.route), out.impl)
      BY <1>4, <1>5, <1>7, <2>2, <3>1, SendTyped
    <3> QED
      BY <1>5, <2>2, <3>2, <3>3 DEF Sent
  <2> QED
    BY <1>6, <2>1, <2>2
<1>10. impl'[p] = new.impl /\ batches'[p] = new.wire /\ Elsewhere(p)
  BY <1>9, SetsIs
<1>11. new.impl \in Impl /\ new.wire \in Wire /\ Passes(p, new.impl, new.wire, im2, batches[p])
  BY <1>5, <1>9 DEF PassesTo
<1>12. Passes(p, new.impl, new.wire, impl[p], batches[p])
  BY <1>4, <1>7, <1>8, <1>11, OwnTypes, PassesOn
<1>13. SameLoop(new.impl, impl[p])
  BY <1>4, <1>9 DEF SameLoop
<1> QED
  BY <1>1, <1>10, <1>12, <1>13 DEF Moves

\* The end of the loop that flushes starts a stage; before it the process sends what is left.
FlushEnds(p) ==
  /\ pc[p] = "flush" /\ impl[p].dest \notin Proc /\ Stays(p)
  /\ StartsStage(p, impl[p].stage + 1, impl[p].no_new_messages)

LEMMA FlushToMoves ==
  ASSUME GroupTypes, NEW p \in Proc, FlushTo(p), impl[p].dest \in Proc
  PROVE  Moves(p) /\ pc' = pc
<1>1. PICK im \in Impl, dest \in Proc : im = impl[p] /\ dest = im.dest
  BY OwnTypes
<1>2. pc[p] = "flush" /\ Free(p) /\ Idle(im)
  BY <1>1 DEF FlushTo, Free, Idle
<1>3. PICK no_new \in BOOLEAN :
        no_new <=> /\ im.no_new_messages
                   /\ im.outgoing[dest] = << >> /\ im.number_sent_batches[dest] <= 0
  OBVIOUS
<1>4. PICK o \in Outs : o = Out(p) /\ o.impl = im /\ o.wire = batches[p]
  BY <1>1, OwnTypes
<1>5. PICK out : out = send_batch(o, p, dest)
  OBVIOUS
<1>6. /\ PassesTo(p, out, o)
      /\ im.outgoing[dest] # << >> => Busy(out.impl, dest)
      /\ im.outgoing[dest] = << >> => out = o
  BY <1>4, <1>5, BatchPasses
<1>7. out = [impl |-> out.impl, wire |-> out.wire] /\ out.impl.dest = dest
  <2>1. \A q \in Proc : q # dest => Len(o.impl.outgoing[q]) < batch_header_number
    BY <1>1, <1>4, OwnTypes DEF Fitting
  <2>2. Fitting(o.impl)
    BY <1>1, <1>4, OwnTypes
  <2>3. Sent(out, o.impl)
    BY <1>5, <2>1, <2>2, BatchTyped
  <2> QED
    BY <1>1, <1>4, <2>3 DEF Sent, Outs, SameLoop
<1>8. PICK sent \in Impl, w \in Wire : sent = out.impl /\ w = out.wire /\ sent.dest = dest
  BY <1>6, <1>7 DEF PassesTo
<1>9. PICK new \in Impl : new = [sent EXCEPT !.no_new_messages = no_new, !.dest = dest + 1]
  <2>1. dest + 1 \in Nat
    BY ProcIs
  <2>2. [sent EXCEPT !.no_new_messages = no_new, !.dest = dest + 1] \in Impl
    BY <2>1 DEF Impl
  <2> QED
    BY <2>2
<1>10. /\ new.dest = dest + 1 /\ new.no_new_messages = no_new /\ SameQueues(new, sent)
       /\ new.processing = sent.processing
  BY <1>9 DEF Impl, SameQueues
<1>11. PICK all : /\ all = [out EXCEPT !.impl.no_new_messages = no_new, !.impl.dest = @ + 1]
                  /\ Sets(p, all) /\ UNCHANGED pc
  BY <1>1, <1>3, <1>4, <1>5 DEF FlushTo
<1>12. all.impl = new /\ all.wire = w
  <2>1. out = [impl |-> sent, wire |-> w]
    BY <1>7, <1>8
  <2> QED
    BY <1>8, <1>9, <1>11, <2>1 DEF Impl
<1>13. impl'[p] = new /\ batches'[p] = w /\ Elsewhere(p)
  BY <1>11, <1>12, SetsIs
<1>14. Passes(p, new, w, im, batches[p])
  <2>1. Passes(p, sent, w, im, batches[p])
    BY <1>4, <1>6, <1>8 DEF PassesTo
  <2> QED
    BY <1>10, <2>1 DEF Passes, SameQueues, Busy
<1>15. \/ no_new = FALSE
       \/ /\ no_new = im.no_new_messages /\ ~Busy(im, dest)
          /\ SameQueues(new, im) /\ new.processing = im.processing /\ UNCHANGED batches
  <2> SUFFICES ASSUME no_new PROVE /\ no_new = im.no_new_messages /\ ~Busy(im, dest)
                                   /\ SameQueues(new, im) /\ new.processing = im.processing
                                   /\ UNCHANGED batches
    OBVIOUS
  <2>1. im.outgoing[dest] = << >> /\ out = o /\ im.no_new_messages /\ no_new = im.no_new_messages
    <3>1. im.no_new_messages \in BOOLEAN
      BY DEF Impl
    <3> QED
      BY <1>3, <1>6, <3>1
  <2>2. ~Busy(im, dest)
    <3>1. PICK n \in Nat : n = im.number_sent_batches[dest]
      BY LenTyped, OwnTypes
    <3> QED
      BY <1>3, <2>1, <3>1 DEF Busy
  <2>3. sent = im /\ w = batches[p]
    BY <1>4, <1>8, <2>1
  <2>4. UNCHANGED batches
    <3>1. \A q \in Proc : batches'[q] = batches[q]
      BY <1>13, <2>3 DEF Elsewhere
    <3>2. batches' = [batches EXCEPT ![p] = w]
      BY <1>11, <1>12 DEF Sets
    <3> QED
      BY <2>3, <3>2, OwnTypes
  <2> QED
    BY <1>10, <2>1, <2>2, <2>3, <2>4
<1> QED
  BY <1>1, <1>2, <1>10, <1>11, <1>13, <1>14, <1>15 DEF Moves

LEMMA ProcessQueuedTakes ==
  ASSUME GroupTypes, NEW p \in Proc, ProcessQueued(p)
  PROVE  \E q \in Proc : Takes(p, q)
<1>1. PICK im \in Impl, queue \in Seq(Batch) : im = impl[p] /\ queue = im.new_batches /\ queue # << >>
  <2>1. impl[p].new_batches # << >> /\ impl[p] \in Impl
    BY OwnTypes DEF ProcessQueued
  <2> QED
    BY <2>1 DEF Impl
<1>2. PICK b \in Batch : b = Head(queue)
  BY <1>1
<1>3. b.source \in Proc /\ b.messages \in Seq(Msg)
  BY DEF Batch
<1>4. PICK got : got = receive_batch(im, b.source, b.messages)
  OBVIOUS
<1>5. /\ got.outgoing = im.outgoing /\ got.number_sent_batches = im.number_sent_batches
      /\ got.no_new_messages = im.no_new_messages /\ got.dest = im.dest
      /\ got.new_batches = im.new_batches
      /\ got.number_received_batches = [im.number_received_batches EXCEPT ![b.source] = @ + 1]
  BY <1>3, <1>4 DEF receive_batch, Impl
<1>6. impl'[p] = [got EXCEPT !.new_batches = Tail(@)] /\ UNCHANGED batches
  <2>1. impl' = [impl EXCEPT ![p] = [got EXCEPT !.new_batches = Tail(@)]] /\ UNCHANGED batches
    BY <1>1, <1>2, <1>4 DEF ProcessQueued
  <2> QED
    BY <2>1 DEF GroupTypes, Types
<1>7. PICK new : /\ new = impl'[p] /\ new.outgoing = im.outgoing
                 /\ new.number_sent_batches = im.number_sent_batches
                 /\ new.no_new_messages = im.no_new_messages /\ new.dest = im.dest
                 /\ new.new_batches = Tail(queue)
                 /\ new.number_received_batches = got.number_received_batches
  <2>1. PICK im2 \in Impl : im2 = got
    BY <1>1, <1>3, <1>4, OwnTypes, ReceiveTyped
  <2>2. PICK rest : rest = Tail(queue)
    OBVIOUS
  <2>3. PICK new : new = [im2 EXCEPT !.new_batches = rest]
    OBVIOUS
  <2>4. /\ new.outgoing = im2.outgoing /\ new.number_sent_batches = im2.number_sent_batches
        /\ new.no_new_messages = im2.no_new_messages /\ new.dest = im2.dest
        /\ new.new_batches = rest /\ new.number_received_batches = im2.number_received_batches
    BY <2>3 DEF Impl
  <2>5. new = impl'[p]
    BY <1>1, <1>5, <1>6, <2>1, <2>2, <2>3
  <2> QED
    BY <1>5, <2>1, <2>2, <2>4, <2>5
<1> QED
  BY <1>1, <1>2, <1>3, <1>5, <1>6, <1>7 DEF Takes, SameLoop

LEMMA HandleBatchTakes ==
  ASSUME GroupTypes, NEW p \in Proc, NEW q \in Proc, handle_batch(p, q)
  PROVE  Takes(p, q)
<1>1. PICK im \in Impl : im = impl[p]
  BY OwnTypes
<1>2. PICK messages \in Seq(Msg) : messages = Head(batches[q][p])
  <2>1. PICK wire \in Seq(Seq(Msg)) : wire = batches[q][p]
    BY OwnTypes DEF Wire
  <2>2. wire # << >>
    BY <2>1 DEF handle_batch
  <2>3. Head(wire) \in Seq(Msg)
    BY <2>2
  <2> QED
    BY <2>1, <2>3
<1>3. PICK got : got = receive_batch(im, q, messages)
  OBVIOUS
<1>4. /\ got.outgoing = im.outgoing /\ got.number_sent_batches = im.number_sent_batches
      /\ got.no_new_messages = im.no_new_messages /\ got.dest = im.dest
      /\ got.new_batches = im.new_batches
      /\ got.number_received_batches = [im.number_received_batches EXCEPT ![q] = @ + 1]
  BY <1>3 DEF receive_batch, Impl
<1>5. impl'[p] = got
  <2>1. impl' = [impl EXCEPT ![p] = got]
    BY <1>1, <1>2, <1>3 DEF handle_batch
  <2> QED
    BY <2>1 DEF GroupTypes, Types
<1>6. batches' = [batches EXCEPT ![q] = [batches[q] EXCEPT ![p] = Tail(@)]]
  BY DEF handle_batch
<1>7. batches[q][p] # << >> /\ pc[p] \notin {"flush", "barrier"}
  BY DEF handle_batch, Polls, JustSent
<1> QED
  BY <1>1, <1>4, <1>5, <1>6, <1>7 DEF Takes, SameLoop

LEMMA HandleSyncReads ==
  ASSUME GroupTypes, NEW p \in Proc, NEW q \in Proc, handle_sync(p, q)
  PROVE  Reads(p, q)
<1>1. PICK im \in Impl, words \in Seq(Int) : im = impl[p] /\ words = counts[q][p]
  BY OwnTypes
<1>2. words # << >>
  BY <1>1 DEF handle_sync
<1>3. PICK val \in Int : val = Head(words)
  BY <1>2
<1>4. PICK seen \in [Proc -> Int], old \in [Proc -> Int] :
        seen = im.synchronizing_stage /\ old = im.number_received_batches
  BY DEF Impl
<1>5. PICK reached, stage :
        /\ reached = Reached(im, stage, val >= 0)
        /\ impl' = [impl EXCEPT ![p] =
             [reached EXCEPT !.synchronizing_stage[q] = stage,
                             !.number_received_batches[q] = IF val > 0 THEN @ - val ELSE @]]
  BY <1>1, <1>3, Zenon DEF handle_sync
<1>6. PICK u, r : reached = [im EXCEPT !.synchronizing_unfinished = u,
                                       !.processors_synchronizing_stage = r]
  BY <1>5 DEF Reached
<1>7. PICK number : number = [old EXCEPT ![q] = @ - Positive(val)]
  OBVIOUS
<1>8. PICK view : view = [seen EXCEPT ![q] = stage]
  OBVIOUS
<1> DEFINE im2 == [im EXCEPT !.synchronizing_unfinished = u, !.processors_synchronizing_stage = r,
                             !.synchronizing_stage = view, !.number_received_batches = number]
<1>9. impl' = [impl EXCEPT ![p] = im2]
  <2>1. (IF val > 0 THEN old[q] - val ELSE old[q]) = old[q] - Positive(val)
    BY DEF Positive
  <2>2. [reached EXCEPT !.synchronizing_stage[q] = stage,
                        !.number_received_batches[q] = IF val > 0 THEN @ - val ELSE @] = im2
    <3>1. reached.synchronizing_stage = seen /\ reached.number_received_batches = old
      BY <1>4, <1>6 DEF Impl
    <3> QED
      BY <1>4, <1>6, <1>7, <1>8, <2>1, <3>1 DEF Impl
  <2> QED
    BY <1>5, <2>2
<1>10. PICK new : new = im2
  OBVIOUS
<1>11. /\ new.outgoing = im.outgoing /\ new.number_sent_batches = im.number_sent_batches
       /\ new.new_batches = im.new_batches /\ new.processing = im.processing
       /\ new.number_received_batches = number
  BY <1>10 DEF Impl
<1> HIDE DEF im2
<1>12. impl'[p] = new /\ UNCHANGED batches
  BY <1>9, <1>10 DEF GroupTypes, Types, handle_sync
<1> QED
  BY <1>1, <1>3, <1>4, <1>7, <1>11, <1>12 DEF Reads

LEMMA SendCountSays ==
  ASSUME GroupTypes, NEW p \in Proc, SendCount(p)
  PROVE  Says(p)
<1>1. PICK im \in Impl, dest \in Proc : im = impl[p] /\ dest = im.dest
  BY OwnTypes DEF SendCount, Good
<1>2. PICK number \in [Proc -> Nat], old \in [Proc -> Int] :
        number = im.number_sent_batches /\ old = im.number_received_batches
  BY DEF Impl
<1>3. PICK zero \in [Proc -> Nat], less \in [Proc -> Int] :
        /\ zero = [number EXCEPT ![dest] = 0] /\ less = [old EXCEPT ![p] = old[p] - number[p]]
  <2>1. [number EXCEPT ![dest] = 0] \in [Proc -> Nat]
    OBVIOUS
  <2>2. [old EXCEPT ![p] = old[p] - number[p]] \in [Proc -> Int]
    OBVIOUS
  <2> QED
    BY <2>1, <2>2
<1>4. PICK next : next = [im EXCEPT !.number_sent_batches = zero, !.dest = dest + 1]
  OBVIOUS
<1>5. next = [im EXCEPT !.number_sent_batches[dest] = 0, !.dest = @ + 1]
  BY <1>1, <1>2, <1>3, <1>4 DEF Impl
<1>6. /\ next.outgoing = im.outgoing /\ next.number_sent_batches = zero
      /\ next.new_batches = im.new_batches /\ next.processing = im.processing
      /\ next.number_received_batches = old
  BY <1>2, <1>4 DEF Impl
<1>7. UNCHANGED batches
  BY DEF SendCount
<1>8. CASE dest # p
  <2>1. /\ impl' = [impl EXCEPT ![p] = next]
        /\ counts' = [counts EXCEPT ![p][dest] =
             Append(@, IF im.no_new_messages THEN -1 ELSE im.number_sent_batches[dest])]
    BY <1>1, <1>5, <1>8 DEF SendCount
  <2>2. impl'[p] = next
    BY <2>1 DEF GroupTypes, Types
  <2>3. counts' = [counts EXCEPT ![p] = [counts[p] EXCEPT ![dest] =
             Append(@, IF im.no_new_messages THEN -1 ELSE im.number_sent_batches[dest])]]
    BY <2>1
  <2> QED
    BY <1>1, <1>2, <1>3, <1>6, <1>7, <1>8, <2>2, <2>3 DEF Says
<1>9. CASE dest = p
  <2>1. PICK x : x = [next EXCEPT !.number_received_batches = less]
    OBVIOUS
  <2>2. /\ x.outgoing = next.outgoing /\ x.number_sent_batches = next.number_sent_batches
        /\ x.new_batches = next.new_batches /\ x.processing = next.processing
        /\ x.number_received_batches = less
    BY <1>4, <2>1 DEF Impl
  <2>3. impl' = [impl EXCEPT ![p] = [next EXCEPT !.number_received_batches[p] =
                                        @ - im.number_sent_batches[p]]]
    BY <1>1, <1>5, <1>9 DEF SendCount
  <2>4. [next EXCEPT !.number_received_batches[p] = @ - im.number_sent_batches[p]] = x
    BY <1>2, <1>3, <1>4, <1>6, <2>1 DEF Impl
  <2>5. impl'[p] = x
    BY <2>3, <2>4 DEF GroupTypes, Types
  <2> QED
    BY <1>1, <1>2, <1>3, <1>6, <1>7, <1>9, <2>2, <2>5 DEF Says
<1> QED
  BY <1>8, <1>9

LEMMA StartStageStays ==
  ASSUME NEW im \in Impl, NEW p \in Proc, NEW no_new \in BOOLEAN
  PROVE  /\ SameQueues(StartStage(im, p, no_new), im)
         /\ StartStage(im, p, no_new).processing = im.processing
<1>1. PICK stage, reached : stage = im.stage + 1 /\ reached = Reached(im, stage, ~no_new)
  OBVIOUS
<1>2. PICK u, r : reached = [im EXCEPT !.synchronizing_unfinished = u,
                                       !.processors_synchronizing_stage = r]
  BY <1>1 DEF Reached
<1>3. PICK view : view = [reached.synchronizing_stage EXCEPT ![p] = stage]
  OBVIOUS
<1>4. StartStage(im, p, no_new) =
        [reached EXCEPT !.stage = @ + 1, !.synchronizing_stage[p] = stage,
                        !.no_new_messages = no_new, !.dest = 0]
  BY <1>1 DEF StartStage
<1>5. PICK next : next = reached.stage + 1
  OBVIOUS
<1>6. PICK new : new = [reached EXCEPT !.stage = next, !.synchronizing_stage = view,
                                       !.no_new_messages = no_new, !.dest = 0]
  OBVIOUS
<1>7. StartStage(im, p, no_new) = new
  BY <1>2, <1>3, <1>4, <1>5, <1>6 DEF Impl
<1>8. SameQueues(new, im) /\ new.processing = im.processing
  BY <1>2, <1>6 DEF Impl, SameQueues
<1> QED
  BY <1>7, <1>8

LEMMA SynchronizeStays ==
  ASSUME GroupTypes, NEW p \in Proc, synchronize(p)
  PROVE  Stays(p) /\ Idle(impl[p])
<1>1. PICK im \in Impl : im = [impl[p] EXCEPT !.stage = -1]
  <2>1. PICK old \in Impl, n \in Int : old = impl[p] /\ n = -1
    BY OwnTypes
  <2>2. [old EXCEPT !.stage = n] \in Impl
    BY DEF Impl
  <2> QED
    BY <2>1, <2>2
<1>2. SameQueues(im, impl[p]) /\ im.processing = impl[p].processing
  BY <1>1, OwnTypes DEF Impl, SameQueues
<1>3. PICK no_new \in BOOLEAN : no_new = FALSE
  OBVIOUS
<1>4. PICK new : new = StartStage(im, p, no_new) /\ impl' = [impl EXCEPT ![p] = new]
  BY <1>1, <1>3 DEF synchronize
<1>5. SameQueues(new, im) /\ new.processing = im.processing
  BY <1>4, StartStageStays
<1>6. impl'[p] = new /\ UNCHANGED batches /\ Idle(impl[p])
  BY <1>4 DEF GroupTypes, Types, synchronize, Free, Idle
<1> QED
  BY <1>2, <1>5, <1>6 DEF Stays, SameQueues

LEMMA FlushToEnds ==
  ASSUME GroupTypes, NEW p \in Proc, FlushTo(p), impl[p].dest \notin Proc
  PROVE  FlushEnds(p) /\ Idle(impl[p])
<1>1. PICK im \in Impl : im = impl[p] /\ Good(im, p, pc[p])
  BY OwnTypes
<1>2. PICK no_new \in BOOLEAN : no_new = im.no_new_messages
  BY DEF Impl
<1>3. pc[p] = "flush" /\ Free(p) /\ UNCHANGED <<counts, step, sends>>
  BY DEF FlushTo
<1>4. PICK stage \in Nat : stage = im.stage + 1
  BY <1>1, <1>3 DEF Good, OwnStage
<1>5. PICK new : /\ new = StartStage(im, p, no_new) /\ impl' = [impl EXCEPT ![p] = new]
                 /\ pc' = [pc EXCEPT ![p] = "send"] /\ UNCHANGED batches
  BY <1>1, <1>2 DEF FlushTo
<1>6. SameQueues(new, im) /\ new.processing = im.processing /\ impl'[p] = new
  BY <1>5, StartStageStays DEF GroupTypes, Types
<1>7. Started(new, im, p, stage, no_new)
  BY <1>1, <1>3, <1>4, <1>5, StartStageTyped DEF Good, OwnStage
<1>8. StartsStage(p, stage, no_new)
  <2>1. /\ im.synchronizing_stage = impl[p].synchronizing_stage
        /\ im.synchronizing_unfinished = impl[p].synchronizing_unfinished
        /\ im.processors_synchronizing_stage = impl[p].processors_synchronizing_stage
        /\ pc[p] = "flush" /\ stage = impl[p].stage + 1
    BY <1>1, <1>3, <1>4
  <2> QED
    BY <1>3, <1>5, <1>7, <2>1, StartKeeps, Zenon
<1> QED
  BY <1>1, <1>2, <1>3, <1>4, <1>5, <1>6, <1>8 DEF FlushEnds, Stays, Free, Idle

\* AllHere, Flush and EnterBarrier: where the process goes.
Arrives(p) == pc[p] = "wait" /\ pc'[p] = "drain" /\ impl'[p] = impl[p]
Flushes(p) ==
  /\ pc[p] = "drain" /\ pc'[p] = "flush" /\ Idle(impl[p])
  /\ \A q \in Proc : impl[p].number_received_batches[q] >= 0
  /\ impl'[p].no_new_messages = TRUE /\ impl'[p].dest = 0
  /\ impl[p].synchronizing_unfinished[impl[p].stage + 1] # 0
EndsStage(p) ==
  /\ pc[p] = "drain" /\ pc'[p] = "barrier" /\ impl'[p] = impl[p]
  /\ impl[p].synchronizing_unfinished[impl[p].stage + 1] = 0

LEMMA AllHereStays ==
  ASSUME GroupTypes, NEW p \in Proc, AllHere(p)
  PROVE  Stays(p) /\ Arrives(p)
BY DEF AllHere, Stays, SameQueues, Arrives, GroupTypes, Types

LEMMA EnterBarrierStays ==
  ASSUME GroupTypes, NEW p \in Proc, EnterBarrier(p)
  PROVE  Stays(p) /\ EndsStage(p)
BY DEF EnterBarrier, Finished, Stays, SameQueues, EndsStage, GroupTypes, Types

LEMMA FlushStays ==
  ASSUME GroupTypes, NEW p \in Proc, Flush(p)
  PROVE  Stays(p) /\ Flushes(p)
<1>1. PICK im \in Impl : im = impl[p]
  BY OwnTypes
<1>2. PICK new : new = [im EXCEPT !.no_new_messages = TRUE, !.dest = 0]
  OBVIOUS
<1>3. /\ SameQueues(new, im) /\ new.processing = im.processing
      /\ new.no_new_messages = TRUE /\ new.dest = 0
  BY <1>2 DEF Impl, SameQueues
<1>4. impl' = [impl EXCEPT ![p] = new]
  BY <1>1, <1>2 DEF Flush
<1>5. impl'[p] = new /\ pc'[p] = "flush"
  BY <1>4 DEF Flush, GroupTypes, Types
<1> QED
  BY <1>1, <1>3, <1>5 DEF Flush, Finished, Drained, Free, Idle, Stays, Flushes

LEMMA LeaveBarrierStays ==
  ASSUME GroupTypes, NEW p \in Proc, LeaveBarrier(p)
  PROVE  Stays(p)
<1>1. PICK im \in Impl : im = impl[p]
  BY OwnTypes
<1>2. PICK none : none = [q \in Proc |-> -1]
  OBVIOUS
<1>3. PICK new : new = [im EXCEPT !.synchronizing_stage = none,
                                  !.synchronizing_unfinished = << >>,
                                  !.processors_synchronizing_stage = << >>]
  OBVIOUS
<1>4. impl' = [impl EXCEPT ![p] = new]
  BY <1>1, <1>2, <1>3 DEF LeaveBarrier
<1>5. SameQueues(new, im) /\ new.processing = im.processing
  BY <1>3 DEF Impl, SameQueues
<1>6. impl'[p] = new /\ UNCHANGED batches
  BY <1>4 DEF LeaveBarrier, GroupTypes, Types
<1> QED
  BY <1>1, <1>5, <1>6 DEF Stays

-----------------------------------------------------------------------------
(* What a process has received and what is on the wire to it is what was sent  *)
(* to it and not told, and what was told and not read.                         *)

\* f[i] is what the first i words promise.
Sums(f, words) ==
  f[0] = 0 /\ \A i \in 1 .. Len(words) : f[i] = f[i - 1] + Positive(words[i])
Balanced(received, wire, sent, words) ==
  \E f \in [Nat -> Int] : Sums(f, words) /\ received + wire = sent + f[Len(words)]

Balance(p, q) ==
  Balanced(impl[p].number_received_batches[q], Len(batches[q][p]),
           impl[q].number_sent_batches[p], counts[q][p])
OwnBalance(p) ==
  /\ impl[p].number_received_batches[p] + Len(impl[p].new_batches) = impl[p].number_sent_batches[p]
  /\ OwnBatches(impl[p].new_batches, p) /\ batches[p][p] = << >>
Conserved == \A p \in Proc : OwnBalance(p) /\ \A q \in Proc : q # p => Balance(p, q)

LEMMA Slots ==
  ASSUME NEW S, NEW w \in Seq(S), NEW i \in 1 .. Len(w)
  PROVE  w[i] \in S
OBVIOUS

LEMMA Regroup ==
  ASSUME NEW a \in Int, NEW b \in Int, NEW c \in Int, NEW x \in Int, NEW y \in Int,
         a = b + x, b = c + y
  PROVE  a = c + (x + y)
OBVIOUS

LEMMA BalancedNone ==
  ASSUME NEW r \in Int, NEW n \in Nat, NEW s \in Nat
  PROVE  Balanced(r, n, s, << >>) <=> r + n = s
<1>1. Len(<< >>) = 0 /\ 1 .. 0 = {}
  OBVIOUS
<1>2. ASSUME Balanced(r, n, s, << >>) PROVE r + n = s
  BY <1>1, <1>2 DEF Balanced, Sums
<1>3. ASSUME r + n = s PROVE Balanced(r, n, s, << >>)
  <2>1. [i \in Nat |-> 0] \in [Nat -> Int]
    OBVIOUS
  <2>2. PICK f \in [Nat -> Int] : f = [i \in Nat |-> 0]
    BY <2>1
  <2>3. f[0] = 0
    BY <2>2
  <2>4. Sums(f, << >>) /\ r + n = s + f[Len(<< >>)]
    BY <1>1, <1>3, <2>3 DEF Sums
  <2> QED
    BY <2>4 DEF Balanced
<1> QED
  BY <1>2, <1>3

LEMMA BalancedOne ==
  ASSUME NEW r \in Int, NEW n \in Nat, NEW s \in Nat, NEW words \in Seq(Int), Len(words) = 1,
         Balanced(r, n, s, words)
  PROVE  r + n = s + Positive(words[1])
<1>1. PICK f \in [Nat -> Int] : Sums(f, words) /\ r + n = s + f[1]
  BY DEF Balanced
<1>2. f[0] = 0 /\ f[1] = f[0] + Positive(words[1])
  <2>1. 1 \in 1 .. 1 /\ 1 - 1 = 0
    OBVIOUS
  <2> QED
    BY <1>1, <2>1 DEF Sums
<1>3. words[1] \in Int
  <2>1. 1 \in 1 .. Len(words)
    OBVIOUS
  <2> QED
    BY <2>1, Slots
<1>4. PICK plus \in Int : plus = Positive(words[1])
  BY <1>3 DEF Positive
<1> QED
  BY <1>1, <1>2, <1>4

\* Another word that promises val, and as much less to be told.
LEMMA BalancedMore ==
  ASSUME NEW r \in Int, NEW n \in Nat, NEW s \in Nat, NEW s2 \in Nat,
         NEW words \in Seq(Int), NEW val \in Int, Balanced(r, n, s, words), s = s2 + Positive(val)
  PROVE  Balanced(r, n, s2, Append(words, val))
<1>1. PICK f \in [Nat -> Int] : Sums(f, words) /\ r + n = s + f[Len(words)]
  BY DEF Balanced
<1>2. PICK m \in Nat : m = Len(words)
  OBVIOUS
<1>3. /\ Len(Append(words, val)) = m + 1 /\ Append(words, val)[m + 1] = val
      /\ \A i \in 1 .. m : Append(words, val)[i] = words[i]
  BY <1>2
<1>4. PICK plus \in Int : plus = Positive(val)
  BY DEF Positive
<1>5. PICK g \in [Nat -> Int] : g = [f EXCEPT ![m + 1] = f[m] + plus]
  <2>1. f[m] + plus \in Int
    OBVIOUS
  <2>2. [f EXCEPT ![m + 1] = f[m] + plus] \in [Nat -> Int]
    BY <2>1
  <2> QED
    BY <2>2
<1>6. g[m + 1] = f[m] + plus /\ \A i \in 0 .. m : g[i] = f[i]
  BY <1>5
<1>7. Sums(g, Append(words, val))
  <2>1. g[0] = 0
    BY <1>1, <1>6 DEF Sums
  <2>2. ASSUME NEW i \in 1 .. m + 1 PROVE g[i] = g[i - 1] + Positive(Append(words, val)[i])
    <3>1. CASE i = m + 1
      <4>1. i - 1 = m /\ m \in 0 .. m
        BY <3>1
      <4> QED
        BY <1>3, <1>4, <1>6, <3>1, <4>1
    <3>2. CASE i # m + 1
      <4>1. i \in 1 .. m /\ i \in 0 .. m /\ i - 1 \in 0 .. m
        BY <3>2
      <4>2. f[i] = f[i - 1] + Positive(words[i])
        BY <1>1, <1>2, <4>1 DEF Sums
      <4> QED
        BY <1>3, <1>6, <4>1, <4>2
    <3> QED
      BY <3>1, <3>2
  <2> QED
    BY <1>3, <2>1, <2>2 DEF Sums
<1>8. r + n = s2 + g[m + 1]
  <2>1. PICK x \in Int : x = f[m]
    OBVIOUS
  <2>2. r + n = s + x /\ s = s2 + plus /\ g[m + 1] = x + plus
    BY <1>1, <1>2, <1>4, <1>6, <2>1
  <2>3. r + n = s + x /\ s = s2 + plus
    BY <2>2
  <2>4. PICK all \in Int : all = r + n
    OBVIOUS
  <2>5. all = s2 + (x + plus)
    <3>1. all = s + x /\ s2 \in Int /\ s \in Int
      BY <2>3, <2>4
    <3> QED
      BY <2>3, <3>1, Regroup
  <2> QED
    BY <2>2, <2>4, <2>5
<1> QED
  BY <1>3, <1>7, <1>8 DEF Balanced

\* One word less, which promised val.
LEMMA BalancedLess ==
  ASSUME NEW r \in Int, NEW n \in Nat, NEW s \in Nat, NEW words \in Seq(Int), words # << >>,
         Balanced(r, n, s, words)
  PROVE  Balanced(r - Positive(Head(words)), n, s, Tail(words))
<1>1. PICK f \in [Nat -> Int] : Sums(f, words) /\ r + n = s + f[Len(words)]
  BY DEF Balanced
<1>2. PICK m \in Nat : m + 1 = Len(words)
  <2>1. PICK l \in Nat : l = Len(words) /\ l # 0
    OBVIOUS
  <2>2. l - 1 \in Nat /\ (l - 1) + 1 = l
    BY <2>1
  <2> QED
    BY <2>1, <2>2
<1>3. /\ Len(Tail(words)) = m /\ Head(words) = words[1]
      /\ \A i \in 1 .. m : Tail(words)[i] = words[i + 1]
  BY <1>2
<1>4. PICK plus \in Int : plus = Positive(Head(words))
  <2>1. Head(words) \in Int
    OBVIOUS
  <2> QED
    BY <2>1 DEF Positive
<1>5. f[1] = plus
  <2>1. 1 \in 1 .. m + 1 /\ 1 - 1 = 0
    OBVIOUS
  <2>2. f[1] = f[0] + Positive(words[1]) /\ f[0] = 0
    BY <1>1, <1>2, <2>1 DEF Sums
  <2> QED
    BY <1>3, <1>4, <2>2
<1>6. PICK g \in [Nat -> Int] : \A i \in Nat : g[i] = f[i + 1] - plus
  <2>1. [i \in Nat |-> f[i + 1] - plus] \in [Nat -> Int]
    OBVIOUS
  <2> QED
    BY <2>1
<1>7. Sums(g, Tail(words))
  <2>1. g[0] = 0
    BY <1>5, <1>6
  <2>2. ASSUME NEW i \in 1 .. m PROVE g[i] = g[i - 1] + Positive(Tail(words)[i])
    <3>1. i + 1 \in 1 .. m + 1 /\ (i + 1) - 1 = i /\ i \in Nat /\ i - 1 \in Nat /\ (i - 1) + 1 = i
      OBVIOUS
    <3>2. f[i + 1] = f[i] + Positive(words[i + 1])
      BY <1>1, <1>2, <3>1 DEF Sums
    <3>3. PICK more \in Int : more = Positive(words[i + 1])
      <4>1. words[i + 1] \in Int
        BY <1>2, <3>1
      <4> QED
        BY <4>1 DEF Positive
    <3>4. PICK x \in Int : x = f[i]
      BY <3>1
    <3>5. f[i + 1] = x + more
      BY <3>2, <3>3, <3>4
    <3>6. g[i] = (x + more) - plus
      BY <1>6, <3>1, <3>5
    <3>7. g[i - 1] = x - plus
      <4>1. PICK j \in Nat : j = i - 1 /\ j + 1 = i
        BY <3>1
      <4>2. g[j] = f[j + 1] - plus
        BY <1>6
      <4> QED
        BY <3>4, <4>1, <4>2
    <3>8. (x + more) - plus = (x - plus) + more
      OBVIOUS
    <3>9. Tail(words)[i] = words[i + 1]
      BY <1>3
    <3> QED
      BY <3>3, <3>6, <3>7, <3>8, <3>9
  <2> QED
    BY <1>3, <2>1, <2>2 DEF Sums
<1>8. (r - plus) + n = s + g[m]
  <2>1. m + 1 \in Nat
    OBVIOUS
  <2>2. PICK x \in Int : x = f[m + 1]
    BY <2>1
  <2>3. r + n = s + x /\ g[m] = x - plus
    BY <1>1, <1>2, <1>6, <2>2
  <2>4. (r - plus) + n = s + (x - plus)
    BY <2>3
  <2> QED
    BY <2>3, <2>4
<1> QED
  BY <1>3, <1>4, <1>7, <1>8 DEF Balanced

\* As many received or on the wire, and as many sent.
LEMMA BalancedSame ==
  ASSUME NEW r \in Int, NEW n \in Nat, NEW s \in Nat, NEW r2 \in Int, NEW n2 \in Nat, NEW s2 \in Nat,
         NEW words \in Seq(Int), Balanced(r, n, s, words), (r2 + n2) + s = (r + n) + s2
  PROVE  Balanced(r2, n2, s2, words)
<1>1. PICK f \in [Nat -> Int] : Sums(f, words) /\ r + n = s + f[Len(words)]
  BY DEF Balanced
<1>2. Len(words) \in Nat
  OBVIOUS
<1>3. PICK x \in Int : x = f[Len(words)]
  BY <1>2
<1>4. r + n = s + x
  BY <1>1, <1>3
<1>5. r2 + n2 = s2 + x
  BY <1>4
<1> QED
  BY <1>1, <1>3, <1>5 DEF Balanced

-----------------------------------------------------------------------------
(* What a step is, with its batches and its stages. *)

\* A step of p changes nothing of the others.
Others(p) == \A x \in Proc : x # p => impl'[x] = impl[x] /\ pc'[x] = pc[x] /\ step'[x] = step[x]
\* It leaves p where it is.
InPlace(p) ==
  /\ pc'[p] = pc[p] /\ SameStages(impl'[p], impl[p]) /\ UNCHANGED <<counts, step>>

BatchKinds(p) ==
  \/ Moves(p) /\ InPlace(p)
  \/ InPlace(p) /\ \E q \in Proc : Takes(p, q)
  \/ \E q \in Proc : q # p /\ Reads(p, q) /\ Hears(p, q)
  \/ Says(p) /\ Tells(p)
  \/ Stays(p) /\ StartsStage(p, 0, FALSE)
  \/ FlushEnds(p)
  \/ Stays(p) /\ GoesOn(p) /\ (Arrives(p) \/ Flushes(p) \/ EndsStage(p))
  \/ Stays(p) /\ Leaves(p)

LEMMA HandlesInPlace ==
  ASSUME GroupTypes, NEW p \in Proc, Handles(p)
  PROVE  InPlace(p) /\ Others(p)
<1>1. PICK im \in Impl : Only(p, im, pc[p]) /\ SameStages(im, impl[p])
  BY DEF Handles
<1>2. UNCHANGED <<counts, step>>
  BY DEF Handles
<1> QED
  BY <1>1, <1>2, OnlyOne DEF InPlace, Others

LEMMA BatchKindOfStep ==
  ASSUME GroupTypes, NEW p \in Proc, Works(p) \/ Send(p) \/ synchronize(p),
         \A q \in Proc : counts[q][q] = << >>
  PROVE  BatchKinds(p)
<1>1. CASE Send(p)
  BY <1>1, SendMoves, SendKeeps, HandlesInPlace DEF BatchKinds
<1>2. CASE process_batch(p)
  BY <1>2, ProcessBatchMoves, ProcessBatchKeeps, HandlesInPlace DEF BatchKinds
<1>3. CASE ProcessQueued(p)
  BY <1>3, ProcessQueuedTakes, ProcessQueuedKeeps, HandlesInPlace DEF BatchKinds
<1>4. ASSUME NEW q \in Proc, handle_batch(p, q) PROVE BatchKinds(p)
  BY <1>4, HandleBatchTakes, HandleBatchKeeps, HandlesInPlace DEF BatchKinds
<1>5. ASSUME NEW q \in Proc, handle_sync(p, q) PROVE BatchKinds(p)
  <2>1. q # p
    BY <1>5 DEF handle_sync
  <2> QED
    BY <1>5, <2>1, HandleSyncReads, HandleSyncKeeps DEF BatchKinds
<1>6. CASE SendCount(p)
  BY <1>6, SendCountSays, SendCountKeeps DEF BatchKinds
<1>7. CASE synchronize(p)
  BY <1>7, SynchronizeStays, SynchronizeKeeps DEF BatchKinds
<1>8. CASE AllHere(p) \/ Flush(p) \/ EnterBarrier(p)
  BY <1>8, AllHereStays, AllHereKeeps, FlushStays, FlushKeeps, EnterBarrierStays, EnterBarrierKeeps
     DEF BatchKinds
<1>9. CASE FlushTo(p)
  <2>1. CASE impl[p].dest \in Proc
    <3>1. Moves(p) /\ pc' = pc /\ pc[p] = "flush"
      BY <1>9, <2>1, FlushToMoves DEF FlushTo
    <3>2. GoesOn(p) \/ \E stage \in Nat, no_new \in BOOLEAN : StartsStage(p, stage, no_new)
      BY <1>9, FlushToKeeps
    <3>3. ASSUME NEW stage \in Nat, NEW no_new \in BOOLEAN, StartsStage(p, stage, no_new) PROVE FALSE
      <4>1. PICK im \in Impl : Only(p, im, "send")
        BY <3>3 DEF StartsStage
      <4>2. pc'[p] = "send"
        BY <4>1, OnlyOne
      <4> QED
        BY <3>1, <4>2
    <3>4. PICK im \in Impl, place \in Place : Only(p, im, place) /\ SameStages(im, impl[p])
      BY <3>2, <3>3 DEF GoesOn
    <3>5. UNCHANGED <<counts, step>>
      BY <3>2, <3>3 DEF GoesOn
    <3>6. InPlace(p)
      BY <3>1, <3>4, <3>5, OnlyOne DEF InPlace
    <3> QED
      BY <3>1, <3>6 DEF BatchKinds
  <2>2. CASE impl[p].dest \notin Proc
    BY <1>9, <2>2, FlushToEnds DEF BatchKinds
  <2> QED
    BY <2>1, <2>2
<1>10. CASE LeaveBarrier(p)
  BY <1>10, LeaveBarrierStays, LeaveBarrierKeeps DEF BatchKinds
<1> QED
  BY <1>1, <1>2, <1>3, <1>4, <1>5, <1>6, <1>7, <1>8, <1>9, <1>10 DEF Works

LEMMA NothingElse ==
  ASSUME GroupTypes, NEW p \in Proc, Kinds(p)
  PROVE  Others(p)
<1>1. (\E im, place : Only(p, im, place)) /\ (Leaves(p) \/ UNCHANGED step)
  BY DEF Kinds, Handles, GoesOn, Tells, Leaves, Hears, StartsStage
<1>2. ASSUME NEW x \in Proc, x # p PROVE step'[x] = step[x]
  BY <1>1, <1>2 DEF Leaves, GroupTypes, Types
<1> QED
  BY <1>1, <1>2, OnlyOne DEF Others

-----------------------------------------------------------------------------
(* No batch and no word about one is lost. *)

LEMMA NumbersTyped ==
  ASSUME GroupTypes, NEW p \in Proc, NEW q \in Proc
  PROVE  /\ impl[p].number_received_batches[q] \in Int /\ impl[q].number_sent_batches[p] \in Nat
         /\ Len(batches[q][p]) \in Nat /\ Len(impl[p].new_batches) \in Nat
         /\ batches[q][p] \in Seq(Seq(Msg)) /\ impl[p].new_batches \in Seq(Batch)
         /\ counts[q][p] \in Seq(Int) /\ impl[p].outgoing[q] \in Seq(Msg)
         /\ impl[p].processing \in Seq(Msg)
<1>1. /\ impl[p] \in Impl /\ impl[q] \in Impl /\ batches[q] \in Wire
      /\ counts[q][p] \in Seq(Int)
  BY OwnTypes
<1> QED
  BY <1>1, LenTyped

LEMMA NumbersNext ==
  ASSUME GroupTypes', NEW p \in Proc, NEW q \in Proc
  PROVE  /\ impl'[p].number_received_batches[q] \in Int /\ impl'[q].number_sent_batches[p] \in Nat
         /\ Len(batches'[q][p]) \in Nat /\ Len(impl'[p].new_batches) \in Nat
         /\ batches'[q][p] \in Seq(Seq(Msg)) /\ impl'[p].new_batches \in Seq(Batch)
         /\ counts'[q][p] \in Seq(Int)
<1>1. /\ impl'[p] \in Impl /\ impl'[q] \in Impl /\ batches'[q] \in Wire
      /\ counts'[q][p] \in Seq(Int)
  BY DEF GroupTypes, Types
<1> QED
  BY <1>1, LenTyped

LEMMA BalanceNext ==
  ASSUME NEW p \in Proc, NEW q \in Proc,
         Balanced(impl'[p].number_received_batches[q], Len(batches'[q][p]),
                  impl'[q].number_sent_batches[p], counts'[q][p])
  PROVE  Balance(p, q)'
BY DEF Balance, Balanced, Sums, Positive

LEMMA OwnBalanceNext ==
  ASSUME NEW p \in Proc,
         impl'[p].number_received_batches[p] + Len(impl'[p].new_batches) = impl'[p].number_sent_batches[p],
         OwnBatches(impl'[p].new_batches, p), batches'[p][p] = << >>
  PROVE  OwnBalance(p)'
BY DEF OwnBalance, OwnBatches

\* Two of the numbers of a pair change by as much.
LEMMA PairChanges ==
  ASSUME GroupTypes, GroupTypes', NEW p \in Proc, NEW q \in Proc, Balance(p, q),
         counts'[q][p] = counts[q][p],
         (impl'[p].number_received_batches[q] + Len(batches'[q][p])) + impl[q].number_sent_batches[p]
           = (impl[p].number_received_batches[q] + Len(batches[q][p])) + impl'[q].number_sent_batches[p]
  PROVE  Balance(p, q)'
<1>1. PICK r \in Int, r2 \in Int :
        r = impl[p].number_received_batches[q] /\ r2 = impl'[p].number_received_batches[q]
  BY NumbersTyped, NumbersNext
<1>2. PICK n \in Nat, n2 \in Nat : n = Len(batches[q][p]) /\ n2 = Len(batches'[q][p])
  BY NumbersTyped, NumbersNext
<1>3. PICK s \in Nat, s2 \in Nat :
        s = impl[q].number_sent_batches[p] /\ s2 = impl'[q].number_sent_batches[p]
  BY NumbersTyped, NumbersNext
<1>4. PICK words \in Seq(Int) : words = counts[q][p]
  BY NumbersTyped
<1>5. Balanced(r, n, s, words) /\ (r2 + n2) + s = (r + n) + s2
  BY <1>1, <1>2, <1>3, <1>4 DEF Balance
<1>6. Balanced(r2, n2, s2, words)
  BY <1>5, BalancedSame
<1> QED
  BY <1>1, <1>2, <1>3, <1>4, <1>6, BalanceNext

LEMMA PairStays ==
  ASSUME NEW p \in Proc, NEW q \in Proc, Balance(p, q), counts'[q][p] = counts[q][p],
         impl'[p].number_received_batches[q] = impl[p].number_received_batches[q],
         batches'[q][p] = batches[q][p], impl'[q].number_sent_batches[p] = impl[q].number_sent_batches[p]
  PROVE  Balance(p, q)'
BY BalanceNext DEF Balance

LEMMA OwnStays ==
  ASSUME NEW p \in Proc, OwnBalance(p),
         impl'[p].number_received_batches[p] = impl[p].number_received_batches[p],
         impl'[p].new_batches = impl[p].new_batches,
         batches'[p][p] = batches[p][p], impl'[p].number_sent_batches[p] = impl[p].number_sent_batches[p]
  PROVE  OwnBalance(p)'
BY OwnBalanceNext DEF OwnBalance

\* A step of a in which only a and what is on its wires change.
LEMMA ConservedBy ==
  ASSUME Conserved, NEW a \in Proc, OwnBalance(a)',
         \A x \in Proc : x # a => impl'[x] = impl[x] /\ batches'[x][x] = batches[x][x],
         \A x \in Proc : x # a => Balance(a, x)' /\ Balance(x, a)',
         \A x, y \in Proc : x # a /\ y # a => /\ counts'[x][y] = counts[x][y]
                                              /\ batches'[x][y] = batches[x][y]
  PROVE  Conserved'
<1>1. ASSUME NEW x \in Proc PROVE OwnBalance(x)'
  BY <1>1, OwnStays DEF Conserved
<1>2. ASSUME NEW x \in Proc, NEW y \in Proc, x # y PROVE Balance(x, y)'
  <2>1. CASE x # a /\ y # a
    BY <1>2, <2>1, PairStays DEF Conserved
  <2> QED
    BY <1>2, <2>1
<1> QED
  BY <1>1, <1>2 DEF Conserved

LEMMA MovesConserves ==
  ASSUME GroupTypes, GroupTypes', Conserved, NEW a \in Proc, Moves(a), Others(a), UNCHANGED counts
  PROVE  Conserved'
<1>1. Passes(a, impl'[a], batches'[a], impl[a], batches[a])
  BY DEF Moves
<1>2. \A x \in Proc : x # a => impl'[x] = impl[x] /\ batches'[x] = batches[x]
  BY DEF Moves, Elsewhere, Others
<1>3. OwnBalance(a)'
  <2>1. PICK r \in Int, n \in Nat, s \in Nat, n2 \in Nat, s2 \in Nat :
          /\ r = impl[a].number_received_batches[a] /\ n = Len(impl[a].new_batches)
          /\ s = impl[a].number_sent_batches[a] /\ n2 = Len(impl'[a].new_batches)
          /\ s2 = impl'[a].number_sent_batches[a]
    BY NumbersTyped, NumbersNext
  <2>2. OwnBalance(a)
    BY DEF Conserved
  <2>3. r + n = s /\ s2 + n = s + n2
    BY <1>1, <2>1, <2>2 DEF OwnBalance, Passes, Even
  <2>4. r + n2 = s2
    BY <2>3
  <2> QED
    BY <1>1, <2>1, <2>2, <2>4, OwnBalanceNext DEF OwnBalance, Passes
<1>4. ASSUME NEW x \in Proc, x # a PROVE Balance(a, x)'
  <2>1. Balance(a, x)
    BY <1>4 DEF Conserved
  <2> QED
    BY <1>1, <1>2, <1>4, <2>1, PairStays DEF Passes
<1>5. ASSUME NEW x \in Proc, x # a PROVE Balance(x, a)'
  <2>1. PICK r \in Int, n \in Nat, s \in Nat, n2 \in Nat, s2 \in Nat :
          /\ r = impl[x].number_received_batches[a] /\ n = Len(batches[a][x])
          /\ s = impl[a].number_sent_batches[x] /\ n2 = Len(batches'[a][x])
          /\ s2 = impl'[a].number_sent_batches[x]
    BY NumbersTyped, NumbersNext
  <2>2. s2 + n = s + n2
    BY <1>1, <1>5, <2>1 DEF Passes, Even
  <2>3. (r + n2) + s = (r + n) + s2
    BY <2>2
  <2>4. Balance(x, a)
    BY <1>5 DEF Conserved
  <2> QED
    BY <1>2, <1>5, <2>1, <2>3, <2>4, PairChanges
<1> QED
  BY <1>2, <1>3, <1>4, <1>5, ConservedBy

LEMMA LenLess ==
  ASSUME NEW S, NEW w \in Seq(S), w # << >>
  PROVE  Len(Tail(w)) + 1 = Len(w) /\ Len(Tail(w)) \in Nat
OBVIOUS

LEMMA TakesConserves ==
  ASSUME GroupTypes, GroupTypes', Conserved, NEW a \in Proc, NEW q \in Proc, Takes(a, q),
         Others(a), UNCHANGED counts
  PROVE  Conserved'
<1>1. PICK old \in [Proc -> Int], new \in [Proc -> Int] :
        old = impl[a].number_received_batches /\ new = impl'[a].number_received_batches
  <2>1. impl[a] \in Impl /\ impl'[a] \in Impl
    BY OwnTypes DEF GroupTypes, Types
  <2> QED
    BY <2>1 DEF Impl
<1>2. new[q] = old[q] + 1 /\ \A x \in Proc : x # q => new[x] = old[x]
  <2>1. new = [old EXCEPT ![q] = @ + 1]
    BY <1>1 DEF Takes
  <2> QED
    BY <2>1
<1>3. OwnBalance(a) /\ \A x \in Proc : x # a => Balance(a, x) /\ Balance(x, a)
  BY DEF Conserved
<1>4. PICK queue \in Seq(Batch) : queue = impl[a].new_batches
  BY NumbersTyped
<1>5. impl'[a].number_sent_batches = impl[a].number_sent_batches
  BY DEF Takes
<1>6. CASE queue # << >> /\ Head(queue).source = q /\ impl'[a].new_batches = Tail(queue)
           /\ UNCHANGED batches
  <2>1. OwnBatches(Tail(queue), a) /\ q = a
    BY <1>3, <1>4, <1>6, OwnLess DEF OwnBalance
  <2>2. OwnBalance(a)'
    <3>1. PICK m \in Nat : m = Len(Tail(queue)) /\ m + 1 = Len(queue)
      BY <1>6, LenLess
    <3>2. PICK r \in Int, s \in Nat : r = old[a] /\ s = impl[a].number_sent_batches[a]
      BY NumbersTyped
    <3>3. new[a] = r + 1
      BY <1>2, <2>1, <3>2
    <3>4. r + (m + 1) = s
      BY <1>1, <1>3, <1>4, <3>1, <3>2 DEF OwnBalance
    <3>5. (r + 1) + m = s
      BY <3>4
    <3>6. impl'[a].number_received_batches[a] + Len(impl'[a].new_batches) = impl'[a].number_sent_batches[a]
      BY <1>1, <1>5, <1>6, <3>1, <3>2, <3>3, <3>5
    <3>7. batches'[a][a] = << >>
      BY <1>3, <1>6 DEF OwnBalance
    <3> QED
      BY <1>6, <2>1, <3>6, <3>7, OwnBalanceNext
  <2>3. ASSUME NEW x \in Proc, x # a PROVE Balance(a, x)' /\ Balance(x, a)'
    <3>1. impl'[x] = impl[x] /\ new[x] = old[x]
      BY <1>2, <2>1, <2>3 DEF Others
    <3> QED
      BY <1>1, <1>3, <1>5, <1>6, <2>3, <3>1, PairStays
  <2> QED
    BY <1>6, <2>2, <2>3, ConservedBy DEF Others
<1>7. CASE batches[q][a] # << >> /\ impl'[a].new_batches = impl[a].new_batches
           /\ batches' = [batches EXCEPT ![q] = [batches[q] EXCEPT ![a] = Tail(@)]]
  <2>1. q # a
    BY <1>3, <1>7 DEF OwnBalance
  <2>2. PICK wire \in Seq(Seq(Msg)) : wire = batches[q][a] /\ wire # << >>
    BY <1>7, NumbersTyped
  <2>3. /\ batches'[q][a] = Tail(wire)
        /\ \A x, y \in Proc : x # q \/ y # a => batches'[x][y] = batches[x][y]
    <3>1. batches \in [Proc -> Wire] /\ batches[q] \in [Proc -> Seq(Seq(Msg))]
      BY OwnTypes DEF Wire
    <3> QED
      BY <1>7, <2>2, <3>1
  <2>4. OwnBalance(a)'
    BY <1>1, <1>2, <1>3, <1>5, <1>7, <2>1, <2>3, OwnStays
  <2>5. Balance(a, q)'
    <3>1. PICK m \in Nat : m = Len(Tail(wire)) /\ m + 1 = Len(wire)
      BY <2>2, LenLess
    <3>2. PICK r \in Int, s \in Nat : r = old[q] /\ s = impl[q].number_sent_batches[a]
      BY NumbersTyped
    <3>3. new[q] = r + 1
      BY <1>2, <3>2
    <3>4. ((r + 1) + m) + s = (r + (m + 1)) + s
      OBVIOUS
    <3>5. impl'[q] = impl[q]
      BY <2>1 DEF Others
    <3> QED
      BY <1>1, <1>3, <2>1, <2>2, <2>3, <3>1, <3>2, <3>3, <3>4, <3>5, PairChanges
  <2>6. ASSUME NEW x \in Proc, x # a, x # q PROVE Balance(a, x)'
    <3>1. impl'[x] = impl[x] /\ new[x] = old[x]
      BY <1>2, <2>6 DEF Others
    <3> QED
      BY <1>1, <1>3, <2>3, <2>6, <3>1, PairStays
  <2>7. ASSUME NEW x \in Proc, x # a PROVE Balance(x, a)'
    <3>1. impl'[x] = impl[x] /\ batches'[a][x] = batches[a][x]
      BY <2>1, <2>3, <2>7 DEF Others
    <3> QED
      BY <1>3, <1>5, <2>7, <3>1, PairStays
  <2>8. \A x \in Proc : x # a => Balance(a, x)'
    BY <2>5, <2>6
  <2> QED
    BY <2>3, <2>4, <2>7, <2>8, ConservedBy DEF Others
<1> QED
  BY <1>4, <1>6, <1>7 DEF Takes

LEMMA ReadsConserves ==
  ASSUME GroupTypes, GroupTypes', Conserved, NEW a \in Proc, NEW q \in Proc, q # a, Reads(a, q),
         Others(a), Hears(a, q)
  PROVE  Conserved'
<1>1. PICK old \in [Proc -> Int], new \in [Proc -> Int] :
        old = impl[a].number_received_batches /\ new = impl'[a].number_received_batches
  <2>1. impl[a] \in Impl /\ impl'[a] \in Impl
    BY OwnTypes DEF GroupTypes, Types
  <2> QED
    BY <2>1 DEF Impl
<1>2. PICK words \in Seq(Int) : words = counts[q][a] /\ words # << >>
  BY NumbersTyped DEF Hears
<1>3. PICK plus : plus = Positive(Head(words))
  OBVIOUS
<1>4. new[q] = old[q] - plus /\ \A x \in Proc : x # q => new[x] = old[x]
  <2>1. new = [old EXCEPT ![q] = @ - plus]
    BY <1>1, <1>2, <1>3 DEF Reads
  <2> QED
    BY <2>1
<1>5. OwnBalance(a) /\ \A x \in Proc : x # a => Balance(a, x) /\ Balance(x, a)
  BY DEF Conserved
<1>6. /\ counts'[q][a] = Tail(words)
      /\ \A x, y \in Proc : x # q \/ y # a => counts'[x][y] = counts[x][y]
  <2>1. counts \in [Proc -> [Proc -> Seq(Int)]]
    BY OwnTypes
  <2> QED
    BY <1>2, <2>1 DEF Hears
<1>7. /\ impl'[a].number_sent_batches = impl[a].number_sent_batches
      /\ impl'[a].new_batches = impl[a].new_batches /\ UNCHANGED batches
  BY DEF Reads
<1>8. OwnBalance(a)'
  BY <1>1, <1>4, <1>5, <1>7, OwnStays
<1>9. ASSUME NEW x \in Proc, x # a PROVE Balance(x, a)'
  <2>1. impl'[x] = impl[x] /\ counts'[a][x] = counts[a][x]
    BY <1>6, <1>9 DEF Others
  <2> QED
    BY <1>5, <1>7, <1>9, <2>1, PairStays
<1>10. ASSUME NEW x \in Proc, x # a, x # q PROVE Balance(a, x)'
  <2>1. impl'[x] = impl[x] /\ counts'[x][a] = counts[x][a] /\ new[x] = old[x]
    BY <1>4, <1>6, <1>10 DEF Others
  <2> QED
    BY <1>1, <1>5, <1>7, <1>10, <2>1, PairStays
<1>11. Balance(a, q)'
  <2>1. PICK r \in Int, n \in Nat, s \in Nat :
          r = old[q] /\ n = Len(batches[q][a]) /\ s = impl[q].number_sent_batches[a]
    BY NumbersTyped
  <2>2. Balanced(r, n, s, words)
    BY <1>1, <1>2, <1>5, <2>1 DEF Balance
  <2>3. Balanced(r - plus, n, s, Tail(words))
    BY <1>2, <1>3, <2>2, BalancedLess
  <2>4. impl'[q] = impl[q]
    BY DEF Others
  <2> QED
    BY <1>1, <1>4, <1>6, <1>7, <2>1, <2>3, <2>4, BalanceNext
<1>12. \A x \in Proc : x # a => Balance(a, x)'
  BY <1>10, <1>11
<1> QED
  BY <1>6, <1>7, <1>8, <1>9, <1>12, ConservedBy DEF Others

\* What it says of the batches it has sent to another is their number.
LEMMA SaysConserves ==
  ASSUME GroupTypes, GroupTypes', Conserved, TellsTruth, NEW a \in Proc, Says(a), Tells(a), Others(a)
  PROVE  Conserved'
<1>1. PICK d \in Proc : d = impl[a].dest
  BY DEF Says
<1>2. PICK sent \in [Proc -> Nat], sent2 \in [Proc -> Nat] :
        sent = impl[a].number_sent_batches /\ sent2 = impl'[a].number_sent_batches
  <2>1. impl[a] \in Impl /\ impl'[a] \in Impl
    BY OwnTypes DEF GroupTypes, Types
  <2> QED
    BY <2>1 DEF Impl
<1>3. sent2[d] = 0 /\ \A x \in Proc : x # d => sent2[x] = sent[x]
  <2>1. sent2 = [sent EXCEPT ![d] = 0]
    BY <1>1, <1>2 DEF Says
  <2> QED
    BY <2>1
<1>4. OwnBalance(a) /\ \A x \in Proc : x # a => Balance(a, x) /\ Balance(x, a)
  BY DEF Conserved
<1>5. impl'[a].new_batches = impl[a].new_batches /\ UNCHANGED batches
  BY DEF Says
<1>6. CASE d = a
  <2>1. UNCHANGED counts
    BY <1>1, <1>6 DEF Tells
  <2>2. PICK old \in [Proc -> Int], new \in [Proc -> Int] :
          old = impl[a].number_received_batches /\ new = impl'[a].number_received_batches
    <3>1. impl[a] \in Impl /\ impl'[a] \in Impl
      BY OwnTypes DEF GroupTypes, Types
    <3> QED
      BY <3>1 DEF Impl
  <2>3. new[a] = old[a] - sent[a] /\ \A x \in Proc : x # a => new[x] = old[x]
    <3>1. new = [old EXCEPT ![a] = @ - sent[a]]
      BY <1>1, <1>2, <1>6, <2>2 DEF Says
    <3> QED
      BY <3>1
  <2>4. OwnBalance(a)'
    <3>1. PICK r \in Int, n \in Nat, s \in Nat : r = old[a] /\ n = Len(impl[a].new_batches) /\ s = sent[a]
      BY NumbersTyped
    <3>2. r + n = s
      BY <1>2, <1>4, <2>2, <3>1 DEF OwnBalance
    <3>3. (r - s) + n = 0
      BY <3>2
    <3>4. impl'[a].number_received_batches[a] + Len(impl'[a].new_batches) = impl'[a].number_sent_batches[a]
      BY <1>2, <1>3, <1>5, <1>6, <2>2, <2>3, <3>1, <3>3
    <3> QED
      BY <1>4, <1>5, <3>4, OwnBalanceNext DEF OwnBalance
  <2>5. ASSUME NEW x \in Proc, x # a PROVE Balance(a, x)' /\ Balance(x, a)'
    <3>1. impl'[x] = impl[x] /\ new[x] = old[x] /\ sent2[x] = sent[x]
      BY <1>3, <1>6, <2>3, <2>5 DEF Others
    <3> QED
      BY <1>2, <1>4, <1>5, <2>1, <2>2, <2>5, <3>1, PairStays
  <2> QED
    BY <1>5, <2>1, <2>4, <2>5, ConservedBy DEF Others
<1>7. CASE d # a
  <2>1. impl'[a].number_received_batches = impl[a].number_received_batches
    BY <1>1, <1>7 DEF Says
  <2>2. PICK words \in Seq(Int) : words = counts[a][d]
    BY NumbersTyped
  <2>3. PICK val \in Int : val = IF impl[a].no_new_messages THEN -1 ELSE sent[d]
    <3>1. PICK n \in Nat : n = sent[d]
      OBVIOUS
    <3>2. PICK x \in Int : x = IF impl[a].no_new_messages THEN -1 ELSE n
      <4>1. CASE impl[a].no_new_messages
        BY <4>1
      <4>2. CASE ~impl[a].no_new_messages
        BY <4>2
      <4> QED
        BY <4>1, <4>2
    <3> QED
      BY <3>1, <3>2
  <2>4. /\ counts'[a][d] = Append(words, val)
        /\ \A x, y \in Proc : x # a \/ y # d => counts'[x][y] = counts[x][y]
    <3>1. counts' = [counts EXCEPT ![a] = [counts[a] EXCEPT ![d] = Append(@, val)]]
      BY <1>1, <1>2, <1>7, <2>3 DEF Says
    <3>2. counts \in [Proc -> [Proc -> Seq(Int)]]
      BY OwnTypes
    <3> QED
      BY <2>2, <3>1, <3>2
  <2>5. OwnBalance(a)'
    <3>1. sent2[a] = sent[a]
      BY <1>3, <1>7
    <3> QED
      BY <1>2, <1>4, <1>5, <2>1, <3>1, OwnStays
  <2>6. ASSUME NEW x \in Proc, x # a PROVE Balance(a, x)'
    <3>1. impl'[x] = impl[x] /\ counts'[x][a] = counts[x][a]
      BY <2>4, <2>6 DEF Others
    <3> QED
      BY <1>4, <1>5, <2>1, <2>6, <3>1, PairStays
  <2>7. ASSUME NEW x \in Proc, x # a, x # d PROVE Balance(x, a)'
    <3>1. impl'[x] = impl[x] /\ counts'[a][x] = counts[a][x] /\ sent2[x] = sent[x]
      BY <1>3, <2>4, <2>7 DEF Others
    <3> QED
      BY <1>2, <1>4, <1>5, <2>7, <3>1, PairStays
  <2>8. Balance(d, a)'
    <3>1. PICK r \in Int, n \in Nat, s \in Nat :
            r = impl[d].number_received_batches[a] /\ n = Len(batches[a][d]) /\ s = sent[d]
      BY NumbersTyped
    <3>2. Balanced(r, n, s, words)
      BY <1>2, <1>4, <1>7, <2>2, <3>1 DEF Balance
    <3>3. s = 0 + Positive(val)
      <4>1. CASE impl[a].no_new_messages
        <5>1. pc[a] = "send"
          BY DEF Tells
        <5>2. s = 0
          BY <1>1, <1>2, <1>7, <3>1, <4>1, <5>1 DEF TellsTruth
        <5> QED
          BY <2>3, <4>1, <5>2 DEF Positive
      <4>2. CASE ~impl[a].no_new_messages
        BY <2>3, <3>1, <4>2 DEF Positive
      <4> QED
        BY <4>1, <4>2
    <3>4. Balanced(r, n, 0, Append(words, val))
      BY <3>2, <3>3, BalancedMore
    <3>5. impl'[d] = impl[d]
      BY <1>7 DEF Others
    <3> QED
      BY <1>2, <1>3, <1>5, <2>4, <3>1, <3>4, <3>5, BalanceNext
  <2>9. \A x \in Proc : x # a => Balance(x, a)'
    BY <2>7, <2>8
  <2> QED
    BY <1>5, <2>4, <2>5, <2>6, <2>9, ConservedBy DEF Others
<1> QED
  BY <1>6, <1>7

LEMMA StaysConserves ==
  ASSUME GroupTypes, Conserved, NEW a \in Proc, Stays(a), Others(a), UNCHANGED counts
  PROVE  Conserved'
<1>1. /\ impl'[a].number_received_batches = impl[a].number_received_batches
      /\ impl'[a].number_sent_batches = impl[a].number_sent_batches
      /\ impl'[a].new_batches = impl[a].new_batches /\ UNCHANGED batches
  BY DEF Stays, SameQueues
<1>2. OwnBalance(a)'
  BY <1>1, OwnStays DEF Conserved
<1>3. ASSUME NEW x \in Proc, x # a PROVE Balance(a, x)' /\ Balance(x, a)'
  BY <1>1, <1>3, PairStays DEF Others, Conserved
<1> QED
  BY <1>1, <1>2, <1>3, ConservedBy DEF Others

LEMMA KindConserves ==
  ASSUME GroupTypes, GroupTypes', Conserved, TellsTruth, NEW a \in Proc, BatchKinds(a), Others(a)
  PROVE  Conserved'
<1>1. CASE Moves(a) /\ InPlace(a)
  BY <1>1, MovesConserves DEF InPlace
<1>2. ASSUME NEW q \in Proc, Takes(a, q), InPlace(a) PROVE Conserved'
  BY <1>2, TakesConserves DEF InPlace
<1>3. ASSUME NEW q \in Proc, q # a, Reads(a, q), Hears(a, q) PROVE Conserved'
  BY <1>3, ReadsConserves
<1>4. CASE Says(a) /\ Tells(a)
  BY <1>4, SaysConserves
<1>5. CASE Stays(a) /\ (StartsStage(a, 0, FALSE) \/ GoesOn(a) \/ Leaves(a))
  <2>1. UNCHANGED counts
    BY <1>5 DEF StartsStage, GoesOn, Leaves
  <2> QED
    BY <1>5, <2>1, StaysConserves
<1>6. CASE FlushEnds(a)
  <2>1. UNCHANGED counts /\ Stays(a)
    BY <1>6 DEF FlushEnds, StartsStage
  <2> QED
    BY <2>1, StaysConserves
<1> QED
  BY <1>1, <1>2, <1>3, <1>4, <1>5, <1>6 DEF BatchKinds

-----------------------------------------------------------------------------
(* What a process says is true of its batches.  A process that says 0 in a    *)
(* stage has nothing, and nothing is on its way to it; or somebody has said 1 *)
(* there, or will: it has sent in the stage before and told of it.            *)

\* A process is heard in the stage before one's own.
Behind(p) == pc[p] # "work" => \A x \in Proc : Seen(p, x) >= impl[p].stage - 1

\* Who flushes has all batches of which it was told, and nothing for those it has passed.
Flushing(p) ==
  pc[p] = "flush" =>
    /\ \A q \in Proc : impl[p].number_received_batches[q] >= 0
    /\ impl[p].no_new_messages =>
         Idle(impl[p]) /\ \A d \in Proc : d < impl[p].dest => ~Busy(impl[p], d)

AtEnd(p) ==
  pc[p] = "barrier" =>
    Clean(impl[p]) /\ \A q \in Proc : impl[p].number_received_batches[q] = 0

\* Who has left the superstep before another takes nothing of it.
Left(p, q) == step[p] = step[q] + 1 => batches[q][p] = << >>

\* In the first stage all say 1.
First(said, p) == pc[p] # "work" => said[p][step[p]][0] = 1

\* A process holds what it will say 1 of in the next stage.
Holds(im, place) ==
  \/ place = "flush" /\ (~im.no_new_messages \/ \E d \in Proc : d >= im.dest /\ Busy(im, d))
  \/ place = "send" /\ \E d \in Proc : d < im.dest /\ Busy(im, d)
  \/ place \in {"wait", "drain"} /\ \E d \in Proc : Busy(im, d)
Dirty(said, r, k, s) ==
  \/ Spoken(r, k, s) /\ said[r][k][s] = 1
  \/ /\ step[r] = k /\ pc[r] # "work" /\ impl[r].stage = s - 1
     /\ Holds(impl[r], pc[r])

Still(p) ==
  Clean(impl[p]) /\ \A r \in Proc : r # p /\ step[r] = step[p] => batches[r][p] = << >>
Quiet(said, p) ==
  pc[p] # "work" /\ said[p][step[p]][impl[p].stage] = 0 =>
    Still(p) \/ \E r \in Proc : Dirty(said, r, step[p], impl[p].stage)

QuietAt(said, p) ==
  Behind(p) /\ Flushing(p) /\ AtEnd(p) /\ First(said, p) /\ Quiet(said, p) /\ \A q \in Proc : Left(p, q)
AllQuiet(said) == Conserved /\ \A p \in Proc : QuietAt(said, p)

-----------------------------------------------------------------------------
(* The process that acts: what it has heard, and what it flushes. *)

LEMMA SameBehind ==
  ASSUME NEW a \in Proc, Behind(a), SameStages(impl'[a], impl[a]), pc[a] # "work"
  PROVE  Behind(a)'
BY DEF Behind, Seen, SameStages

LEMMA HearsBehind ==
  ASSUME GroupInv, NEW a \in Proc, NEW q \in Proc, Behind(a), Hears(a, q)
  PROVE  Behind(a)'
<1>1. PICK im \in Impl, i \in {0, 1} :
        /\ Only(a, im, pc[a]) /\ im.stage = impl[a].stage
        /\ Records(im, impl[a], q, impl[a].synchronizing_stage[q] + 1, i)
  BY DEF Hears
<1>2. PICK seen \in [Proc -> Int] : seen = impl[a].synchronizing_stage
  BY OwnTypes DEF GroupInv, Impl
<1>3. im.synchronizing_stage = [seen EXCEPT ![q] = seen[q] + 1]
  BY <1>1, <1>2 DEF Records
<1>4. impl'[a] = im /\ pc'[a] = pc[a]
  BY <1>1, OnlyOne DEF GroupInv
<1> SUFFICES ASSUME pc[a] # "work", NEW x \in Proc PROVE im.synchronizing_stage[x] >= im.stage - 1
  BY <1>4 DEF Behind, Seen
<1>5. PICK s \in Int : s = impl[a].stage
  BY SeenTyped DEF GroupInv
<1>6. seen[x] >= s - 1
  BY <1>2, <1>5 DEF Behind, Seen
<1>7. im.synchronizing_stage[x] = seen[x] \/ im.synchronizing_stage[x] = seen[x] + 1
  BY <1>3
<1>8. PICK y \in Int : y = seen[x]
  OBVIOUS
<1>9. y >= s - 1 /\ y + 1 >= s - 1
  BY <1>6, <1>8
<1> QED
  BY <1>1, <1>5, <1>7, <1>8, <1>9

LEMMA StartsBehind ==
  ASSUME GroupInv, GroupTypes', NEW a \in Proc, NEW stage \in Nat, NEW no_new,
         StartsStage(a, stage, no_new)
  PROVE  Behind(a)'
<1>1. PICK im \in Impl, i \in {0, 1} :
        /\ Only(a, im, "send") /\ Records(im, impl[a], a, stage, i) /\ im.stage = stage
  BY DEF StartsStage
<1>2. PICK seen \in [Proc -> Int] : seen = impl[a].synchronizing_stage
  BY OwnTypes DEF GroupInv, Impl
<1>3. im.synchronizing_stage = [seen EXCEPT ![a] = stage]
  BY <1>1, <1>2 DEF Records
<1>4. impl'[a] = im /\ pc'[a] = "send"
  BY <1>1, OnlyOne DEF GroupInv
<1> SUFFICES ASSUME NEW x \in Proc PROVE im.synchronizing_stage[x] >= stage - 1
  BY <1>1, <1>4 DEF Behind, Seen
<1>5. CASE pc[a] = "work" /\ stage = 0
  <2>1. seen[x] \in -1 .. Len(impl[a].processors_synchronizing_stage) - 1
    BY <1>2, OwnTypes DEF GroupInv, Good, Lengths
  <2>2. PICK n \in Nat : n = Len(impl[a].processors_synchronizing_stage)
    <3>1. PICK numbers \in Seq(Nat) : numbers = impl[a].processors_synchronizing_stage
      BY OwnTypes DEF GroupInv, Impl
    <3>2. Len(numbers) \in Nat
      OBVIOUS
    <3> QED
      BY <3>1, <3>2
  <2>3. seen[x] >= -1
    BY <2>1, <2>2
  <2> QED
    BY <1>3, <1>5, <2>3
<1>6. CASE pc[a] = "flush" /\ stage = impl[a].stage + 1
  <2>1. PICK s \in Int : s = impl[a].stage
    BY SeenTyped DEF GroupInv
  <2>2. seen[x] >= s
    BY <1>2, <1>6, <2>1 DEF GroupInv, Alone, AllIn
  <2> QED
    BY <1>3, <1>6, <2>1, <2>2
<1> QED
  BY <1>5, <1>6 DEF StartsStage

LEMMA KindBehind ==
  ASSUME GroupInv, GroupTypes', NEW a \in Proc, Behind(a), BatchKinds(a)
  PROVE  Behind(a)'
<1>1. CASE InPlace(a)
  BY <1>1, SameBehind DEF InPlace, Behind
<1>2. CASE \E q \in Proc : Hears(a, q)
  BY <1>2, HearsBehind
<1>3. CASE Tells(a) \/ GoesOn(a)
  <2>1. PICK im, place : Only(a, im, place) /\ SameStages(im, impl[a])
    BY <1>3 DEF Tells, GoesOn
  <2>2. impl'[a] = im /\ pc[a] # "work"
    BY <1>3, <2>1, OnlyOne DEF GroupInv, Tells, GoesOn
  <2> QED
    BY <2>1, <2>2, SameBehind
<1>4. CASE StartsStage(a, 0, FALSE)
  BY <1>4, StartsBehind
<1>5. CASE FlushEnds(a)
  <2>1. impl[a].stage + 1 \in Nat
    BY <1>5, OwnTypes DEF GroupInv, Good, OwnStage, FlushEnds
  <2> QED
    BY <1>5, <2>1, StartsBehind DEF FlushEnds
<1>6. CASE Leaves(a)
  <2>1. pc'[a] = "work"
    BY <1>6, OnlyOne DEF Leaves, GroupInv
  <2> QED
    BY <2>1 DEF Behind
<1> QED
  BY <1>1, <1>2, <1>3, <1>4, <1>5, <1>6 DEF BatchKinds

LEMMA FlushingNext ==
  ASSUME NEW a \in Proc,
         pc'[a] = "flush" =>
           /\ \A q \in Proc : impl'[a].number_received_batches[q] >= 0
           /\ impl'[a].no_new_messages =>
                Idle(impl'[a]) /\ \A d \in Proc : d < impl'[a].dest => ~Busy(impl'[a], d)
  PROVE  Flushing(a)'
BY DEF Flushing, Idle, Busy

LEMMA KindFlushing ==
  ASSUME GroupInv, GroupTypes', NEW a \in Proc, Flushing(a), BatchKinds(a), Others(a)
  PROVE  Flushing(a)'
<1>1. CASE Moves(a) /\ InPlace(a)
  <2> SUFFICES ASSUME pc[a] = "flush" PROVE Flushing(a)'
    BY <1>1, FlushingNext DEF InPlace
  <2>1. pc'[a] = "flush" /\ impl'[a].number_received_batches = impl[a].number_received_batches
    BY <1>1 DEF Moves, Passes, InPlace
  <2>2. \A q \in Proc : impl'[a].number_received_batches[q] >= 0
    BY <2>1 DEF Flushing
  <2>3. CASE impl[a].processing # << >> /\ SameLoop(impl'[a], impl[a])
    <3>1. ~impl'[a].no_new_messages
      BY <2>3 DEF Flushing, Idle, SameLoop
    <3> QED
      BY <2>2, <3>1, FlushingNext
  <2>4. CASE /\ Idle(impl[a]) /\ impl[a].dest \in Proc /\ impl'[a].dest = impl[a].dest + 1
             /\ \/ impl'[a].no_new_messages = FALSE
                \/ /\ impl'[a].no_new_messages = impl[a].no_new_messages
                   /\ ~Busy(impl[a], impl[a].dest)
                   /\ SameQueues(impl'[a], impl[a]) /\ impl'[a].processing = impl[a].processing
                   /\ UNCHANGED batches
    <3> SUFFICES ASSUME impl'[a].no_new_messages
                 PROVE  Idle(impl'[a]) /\ \A d \in Proc : d < impl'[a].dest => ~Busy(impl'[a], d)
      BY <2>2, FlushingNext
    <3>1. /\ impl[a].no_new_messages /\ ~Busy(impl[a], impl[a].dest)
          /\ SameQueues(impl'[a], impl[a]) /\ impl'[a].processing = impl[a].processing
      BY <2>4
    <3>2. Idle(impl'[a])
      BY <2>4, <3>1 DEF Idle, SameQueues
    <3>3. ASSUME NEW d \in Proc, d < impl'[a].dest PROVE ~Busy(impl'[a], d)
      <4>1. PICK now \in Nat : now = impl[a].dest /\ impl'[a].dest = now + 1
        BY <2>4, ProcIs
      <4>2. d < now \/ d = now
        BY <3>3, <4>1, ProcIs
      <4>3. ~Busy(impl[a], d)
        BY <2>1, <3>1, <4>1, <4>2 DEF Flushing
      <4> QED
        BY <3>1, <4>3 DEF Busy, SameQueues
    <3> QED
      BY <3>2, <3>3
  <2> QED
    BY <1>1, <2>3, <2>4 DEF Moves
<1>2. ASSUME NEW q \in Proc, Takes(a, q), InPlace(a) PROVE Flushing(a)'
  <2> SUFFICES ASSUME pc[a] = "flush" PROVE Flushing(a)'
    BY <1>2, FlushingNext DEF InPlace
  <2>1. impl[a].new_batches # << >> /\ SameLoop(impl'[a], impl[a])
    BY <1>2 DEF Takes
  <2>2. ~impl'[a].no_new_messages
    BY <2>1 DEF Flushing, Idle, SameLoop
  <2>3. PICK old \in [Proc -> Int] : old = impl[a].number_received_batches
    BY OwnTypes DEF GroupInv, Impl
  <2>4. impl'[a].number_received_batches = [old EXCEPT ![q] = old[q] + 1]
    BY <1>2, <2>3 DEF Takes
  <2>5. ASSUME NEW x \in Proc PROVE impl'[a].number_received_batches[x] >= 0
    <3>1. PICK n \in Int : n = old[x] /\ n >= 0
      BY <2>3 DEF Flushing
    <3>2. impl'[a].number_received_batches[x] = n \/ impl'[a].number_received_batches[x] = n + 1
      BY <2>4, <3>1
    <3>3. n + 1 >= 0
      BY <3>1
    <3> QED
      BY <3>1, <3>2, <3>3
  <2> QED
    BY <2>2, <2>5, FlushingNext
<1>3. ASSUME NEW q \in Proc, Hears(a, q) PROVE Flushing(a)'
  <2>1. pc'[a] = pc[a] /\ pc[a] # "flush"
    BY <1>3, OnlyOne DEF Hears, GroupInv
  <2> QED
    BY <2>1, FlushingNext
<1>4. CASE Tells(a)
  <2>1. PICK im \in Impl : Only(a, im, IF impl[a].dest + 1 \in Proc THEN "send" ELSE "wait")
    BY <1>4 DEF Tells
  <2>2. pc'[a] # "flush"
    BY <2>1, OnlyOne DEF GroupInv
  <2> QED
    BY <2>2, FlushingNext
<1>5. ASSUME NEW stage, NEW no_new, StartsStage(a, stage, no_new) PROVE Flushing(a)'
  <2>1. pc'[a] = "send"
    BY <1>5, OnlyOne DEF StartsStage, GroupInv
  <2> QED
    BY <2>1, FlushingNext
<1>6. CASE Leaves(a)
  <2>1. pc'[a] = "work"
    BY <1>6, OnlyOne DEF Leaves, GroupInv
  <2> QED
    BY <2>1, FlushingNext
<1>7. CASE Arrives(a) \/ EndsStage(a)
  BY <1>7, FlushingNext DEF Arrives, EndsStage
<1>8. CASE Stays(a) /\ Flushes(a)
  <2>1. /\ Idle(impl'[a]) /\ impl'[a].dest = 0
        /\ impl'[a].number_received_batches = impl[a].number_received_batches
        /\ \A q \in Proc : impl[a].number_received_batches[q] >= 0
    BY <1>8 DEF Stays, Flushes, SameQueues, Idle
  <2>2. \A d \in Proc : ~(d < 0)
    BY ProcIs
  <2> QED
    BY <2>1, <2>2, FlushingNext
<1> QED
  BY <1>1, <1>2, <1>3, <1>4, <1>5, <1>6, <1>7, <1>8 DEF BatchKinds, FlushEnds

-----------------------------------------------------------------------------
(* Where the others are. *)

LEMMA CleanIs ==
  ASSUME NEW im \in Impl, Clean(im), NEW d \in Proc
  PROVE  /\ im.number_sent_batches[d] = 0 /\ im.outgoing[d] = << >>
         /\ im.processing = << >> /\ im.new_batches = << >>
<1>1. PICK n \in Nat : n = im.number_sent_batches[d]
  BY DEF Impl
<1>2. ~(n > 0)
  BY <1>1 DEF Clean, Busy
<1> QED
  BY <1>1, <1>2 DEF Clean, Busy, Idle

LEMMA AnnouncedMost ==
  ASSUME GroupInv, NEW p \in Proc, NEW q \in Proc, pc[p] # "work"
  PROVE  Announced(p, q) <= impl[p].stage
<1>1. PICK s \in Int : s = impl[p].stage
  BY SeenTyped DEF GroupInv
<1>2. s - 1 <= s /\ s <= s
  OBVIOUS
<1> QED
  BY <1>1, <1>2 DEF Announced

\* One that has left the superstep is known to be gone, and only from the barrier.
LEMMA SameStep ==
  ASSUME GroupInv, NEW p \in Proc, NEW r \in Proc, r # p, Seen(p, r) >= 0, pc[p] # "barrier"
  PROVE  step[r] = step[p]
<1>1. ~(step[r] = step[p] + 1)
  <2>1. Ahead(r, p) /\ step[p] \in Nat /\ step[r] \in Nat
    BY SeenTyped DEF GroupInv, Between
  <2> QED
    BY <2>1 DEF Ahead
<1>2. ~(step[p] = step[r] + 1)
  <2>1. Channel(r, p)
    BY DEF GroupInv, Between
  <2> QED
    BY <2>1 DEF Channel
<1> QED
  BY <1>1, <1>2, Steps

\* The words of r for p, in the superstep both are in.
LEMMA WordsOf ==
  ASSUME GroupInv, NEW p \in Proc, NEW r \in Proc, r # p, step[r] = step[p]
  PROVE  Seen(p, r) + Len(counts[r][p]) = Announced(r, p)
BY DEF GroupInv, Between, Channel

\* Who is in a stage has been told of the one before it.
LEMMA ToldBefore ==
  ASSUME GroupInv, NEW p \in Proc, NEW r \in Proc, r # p, step[r] = step[p], pc[p] # "work",
         Behind(p), NEW s \in Nat, s + 1 = impl[p].stage
  PROVE  Announced(r, p) >= s /\ pc[r] # "work" /\ s <= impl[r].stage
<1>1. PICK v \in Int, n \in Nat, w \in Int :
        v = Seen(p, r) /\ n = Len(counts[r][p]) /\ w = Announced(r, p)
  BY SeenTyped DEF GroupInv
<1>2. v + n = w
  BY <1>1, WordsOf
<1>3. v >= s
  <2>1. (s + 1) - 1 = s
    OBVIOUS
  <2> QED
    BY <1>1, <2>1 DEF Behind
<1>4. w >= s /\ s <= w
  BY <1>2, <1>3
<1> QED
  BY <1>1, <1>4, AnnouncedIs

\* So no two are further apart than a stage.
LEMMA NearStage ==
  ASSUME GroupInv, NEW p \in Proc, NEW r \in Proc, r # p, step[r] = step[p],
         pc[p] # "work", pc[r] # "work", Behind(r), NEW s \in Nat, s = impl[p].stage
  PROVE  impl[r].stage <= s + 1
<1>1. PICK t \in Nat : t = impl[r].stage
  BY OwnTypes DEF GroupInv, Good, OwnStage
<1> SUFFICES ASSUME ~(t <= s + 1) PROVE FALSE
  BY <1>1
<1>2. PICK u \in Nat : u + 1 = t /\ ~(u <= s)
  <2>1. t - 1 \in Nat /\ (t - 1) + 1 = t /\ ~(t - 1 <= s)
    OBVIOUS
  <2> QED
    BY <2>1
<1>3. u <= impl[p].stage
  BY <1>1, <1>2, ToldBefore
<1> QED
  BY <1>2, <1>3

LEMMA SpokenIs ==
  ASSUME NEW r \in Proc, NEW k \in Nat, NEW s \in Nat, Spoken(r, k, s), step[r] = k
  PROVE  pc[r] # "work" /\ s <= impl[r].stage
BY DEF Spoken

-----------------------------------------------------------------------------
(* The end of a superstep. *)

LEMMA AtEndNext ==
  ASSUME NEW a \in Proc,
         pc'[a] = "barrier" =>
           Clean(impl'[a]) /\ \A q \in Proc : impl'[a].number_received_batches[q] = 0
  PROVE  AtEnd(a)'
BY DEF AtEnd, Clean, Idle, Busy

\* Where one ends nobody has said 1, and nobody holds anything.
LEMMA NobodyDirty ==
  ASSUME GroupInv, NEW said \in History, Agreed(said), NEW p \in Proc, pc[p] = "drain",
         impl[p].synchronizing_unfinished[impl[p].stage + 1] = 0,
         NEW r \in Proc
  PROVE  ~Dirty(said, r, step[p], impl[p].stage)
<1>1. PICK k \in Nat, s \in Nat : k = step[p] /\ s = impl[p].stage
  BY OwnTypes DEF GroupInv, Good, OwnStage
<1>2. said[r][k][s] = 0 /\ Seen(p, r) >= s
  BY <1>1, AllHadNothing
<1>3. Spoken(r, k, s)
  BY <1>1, <1>2, SeenSpoken
<1>4. ASSUME step[r] = k, impl[r].stage = s - 1 PROVE FALSE
  <2>1. s <= s - 1
    BY <1>3, <1>4, SpokenIs
  <2> QED
    BY <2>1
<1> QED
  BY <1>1, <1>2, <1>4 DEF Dirty

LEMMA EndsClean ==
  ASSUME GroupInv, GroupTypes', NEW said \in History, Agreed(said), AllQuiet(said),
         NEW a \in Proc, Stays(a), EndsStage(a)
  PROVE  AtEnd(a)'
<1>1. PICK k \in Nat, s \in Nat : k = step[a] /\ s = impl[a].stage
  BY OwnTypes DEF GroupInv, Good, OwnStage, EndsStage
<1>2. pc[a] = "drain" /\ impl[a].synchronizing_unfinished[s + 1] = 0
  BY <1>1 DEF EndsStage
<1>3. \A x \in Proc : said[x][k][s] = 0 /\ Seen(a, x) >= s
  BY <1>1, <1>2, AllHadNothing
<1>4. \A x \in Proc : ~Dirty(said, x, k, s)
  BY <1>1, <1>2, NobodyDirty
<1>5. Still(a)
  BY <1>1, <1>2, <1>3, <1>4 DEF AllQuiet, QuietAt, Quiet
<1>6. Clean(impl[a])
  BY <1>5 DEF Still
<1>7. ASSUME NEW r \in Proc, r # a PROVE impl[a].number_received_batches[r] = 0
  <2>1. PICK v \in Int, n \in Nat, w \in Int :
          v = Seen(a, r) /\ n = Len(counts[r][a]) /\ w = Announced(r, a)
    BY SeenTyped DEF GroupInv
  <2>2. v >= s /\ v >= 0
    BY <1>3, <2>1
  <2>3. step[r] = k
    BY <1>1, <1>2, <1>7, <2>1, <2>2, SameStep
  <2>4. Spoken(r, k, s)
    BY <1>1, <1>3, SeenSpoken
  <2>5. PICK t \in Nat : t = impl[r].stage /\ pc[r] # "work" /\ s <= t
    BY <2>3, <2>4, SpokenIs, OwnTypes DEF GroupInv, Good, OwnStage
  <2>6. t = s
    <3> SUFFICES ASSUME s < t PROVE FALSE
      BY <2>5
    <3>1. \E x \in Proc : said[x][k][s] = 1
      BY <2>3, <2>5 DEF Agreed, Parts, Passed
    <3> QED
      BY <1>3, <3>1
  <2>7. Clean(impl[r])
    BY <1>3, <1>4, <2>3, <2>5, <2>6 DEF AllQuiet, QuietAt, Quiet, Still
  <2>8. impl[r].number_sent_batches[a] = 0
    BY <2>7, CleanIs, OwnTypes DEF GroupInv
  <2>9. n = 0
    <3>1. v + n = w
      BY <1>1, <1>7, <2>1, <2>3, WordsOf
    <3>2. w <= s
      BY <2>1, <2>5, <2>6, AnnouncedMost
    <3> QED
      BY <2>2, <3>1, <3>2
  <2>10. counts[r][a] = << >>
    <3>1. PICK words \in Seq(Int) : words = counts[r][a] /\ Len(words) = 0
      BY <2>1, <2>9, SeenTyped DEF GroupInv
    <3> QED
      BY <3>1
  <2>11. Len(batches[r][a]) = 0
    <3>1. batches[r][a] = << >>
      BY <1>1, <1>5, <1>7, <2>3 DEF Still
    <3> QED
      BY <3>1
  <2>12. PICK x \in Int : x = impl[a].number_received_batches[r]
    BY NumbersTyped DEF GroupInv
  <2>13. Balanced(x, 0, 0, << >>)
    BY <1>7, <2>8, <2>10, <2>11, <2>12 DEF AllQuiet, Conserved, Balance
  <2> QED
    BY <2>12, <2>13, BalancedNone
<1>8. impl[a].number_received_batches[a] = 0
  <2>1. PICK x \in Int : x = impl[a].number_received_batches[a]
    BY NumbersTyped DEF GroupInv
  <2>2. impl[a].new_batches = << >> /\ impl[a].number_sent_batches[a] = 0
    BY <1>6, CleanIs, OwnTypes DEF GroupInv
  <2>3. x + Len(<< >>) = 0
    BY <2>1, <2>2 DEF AllQuiet, Conserved, OwnBalance
  <2> QED
    BY <2>1, <2>3
<1>9. impl'[a] = impl[a]
  BY DEF EndsStage
<1> QED
  BY <1>6, <1>7, <1>8, <1>9, AtEndNext

LEMMA KindAtEnd ==
  ASSUME GroupInv, GroupTypes', NEW said \in History, Agreed(said), AllQuiet(said),
         NEW a \in Proc, BatchKinds(a)
  PROVE  AtEnd(a)'
<1>1. pc[a] = "barrier" => impl[a].processing = << >> /\ impl[a].new_batches = << >>
  BY DEF AllQuiet, QuietAt, AtEnd, Clean, Idle
<1>2. CASE Moves(a) /\ InPlace(a)
  <2>1. pc'[a] # "barrier"
    BY <1>1, <1>2 DEF Moves, InPlace
  <2> QED
    BY <2>1, AtEndNext
<1>3. ASSUME NEW q \in Proc, Takes(a, q), InPlace(a) PROVE AtEnd(a)'
  <2>1. pc'[a] # "barrier"
    BY <1>1, <1>3 DEF Takes, InPlace
  <2> QED
    BY <2>1, AtEndNext
<1>4. ASSUME NEW q \in Proc, Hears(a, q) PROVE AtEnd(a)'
  <2>1. pc'[a] = pc[a] /\ pc[a] # "barrier"
    BY <1>4, OnlyOne DEF Hears, GroupInv
  <2> QED
    BY <2>1, AtEndNext
<1>5. CASE Tells(a)
  <2>1. PICK im \in Impl : Only(a, im, IF impl[a].dest + 1 \in Proc THEN "send" ELSE "wait")
    BY <1>5 DEF Tells
  <2>2. pc'[a] # "barrier"
    BY <2>1, OnlyOne DEF GroupInv
  <2> QED
    BY <2>2, AtEndNext
<1>6. ASSUME NEW stage, NEW no_new, StartsStage(a, stage, no_new) PROVE AtEnd(a)'
  <2>1. pc'[a] = "send"
    BY <1>6, OnlyOne DEF StartsStage, GroupInv
  <2> QED
    BY <2>1, AtEndNext
<1>7. CASE Leaves(a)
  <2>1. pc'[a] = "work"
    BY <1>7, OnlyOne DEF Leaves, GroupInv
  <2> QED
    BY <2>1, AtEndNext
<1>8. CASE Arrives(a) \/ Flushes(a)
  BY <1>8, AtEndNext DEF Arrives, Flushes
<1>9. CASE Stays(a) /\ EndsStage(a)
  BY <1>9, EndsClean
<1> QED
  BY <1>2, <1>3, <1>4, <1>5, <1>6, <1>7, <1>8, <1>9 DEF BatchKinds, FlushEnds

-----------------------------------------------------------------------------
(* Where a step takes its process, and what is said then. *)

Goes(a) ==
  \/ /\ step'[a] = step[a] /\ impl'[a].stage = impl[a].stage
     /\ pc[a] = "work" <=> pc'[a] = "work"
     /\ pc'[a] = "send" => pc[a] = "send"
  \/ /\ step'[a] = step[a] /\ pc[a] = "work" /\ pc'[a] = "send"
     /\ impl'[a].stage = 0 /\ ~impl'[a].no_new_messages
  \/ step'[a] = step[a] /\ pc[a] = "flush" /\ pc'[a] = "send" /\ impl'[a].stage = impl[a].stage + 1
  \/ step'[a] = step[a] + 1 /\ pc[a] = "barrier" /\ pc'[a] = "work"

LEMMA StartsGoes ==
  ASSUME GroupTypes, NEW a \in Proc, NEW stage, NEW no_new, StartsStage(a, stage, no_new)
  PROVE  /\ step'[a] = step[a] /\ pc[a] # "send" /\ pc'[a] = "send" /\ impl'[a].stage = stage
         /\ impl'[a].no_new_messages = no_new
         /\ (pc[a] = "work" /\ stage = 0) \/ (pc[a] = "flush" /\ stage = impl[a].stage + 1)
<1>1. PICK im \in Impl : Only(a, im, "send") /\ im.stage = stage /\ im.no_new_messages = no_new
  BY DEF StartsStage
<1> QED
  BY <1>1, OnlyOne DEF StartsStage

LEMMA KindGoes ==
  ASSUME GroupTypes, NEW a \in Proc, BatchKinds(a)
  PROVE  Goes(a)
<1>1. CASE InPlace(a)
  BY <1>1 DEF InPlace, SameStages, Goes
<1>2. ASSUME NEW q \in Proc, Hears(a, q) PROVE Goes(a)
  BY <1>2, OnlyOne DEF Hears, Goes
<1>3. CASE Tells(a)
  <2>1. PICK im \in Impl : /\ Only(a, im, IF impl[a].dest + 1 \in Proc THEN "send" ELSE "wait")
                           /\ SameStages(im, impl[a])
    BY <1>3 DEF Tells
  <2> QED
    BY <1>3, <2>1, OnlyOne DEF Tells, SameStages, Goes
<1>4. CASE StartsStage(a, 0, FALSE) \/ FlushEnds(a)
  BY <1>4, StartsGoes DEF Goes, FlushEnds
<1>5. CASE Leaves(a)
  <2>1. pc'[a] = "work" /\ pc[a] = "barrier"
    BY <1>5, OnlyOne DEF Leaves
  <2>2. step'[a] = step[a] + 1
    BY <1>5 DEF Leaves, GroupTypes, Types
  <2> QED
    BY <2>1, <2>2 DEF Goes
<1>6. CASE GoesOn(a)
  <2>1. PICK im \in Impl, place \in Place : Only(a, im, place) /\ SameStages(im, impl[a])
    BY <1>6 DEF GoesOn
  <2> QED
    BY <1>6, <2>1, OnlyOne DEF GoesOn, SameStages, Goes
<1> QED
  BY <1>1, <1>2, <1>3, <1>4, <1>5, <1>6 DEF BatchKinds

LEMMA KindRemains ==
  ASSUME GroupTypes, NEW a \in Proc, Goes(a), Others(a)
  PROVE  Remains
<1> SUFFICES ASSUME NEW r \in Proc, NEW k \in Nat, NEW t \in Nat, Spoken(r, k, t)
             PROVE  Spoken(r, k, t)'
  BY DEF Remains
<1>1. CASE r # a
  BY <1>1 DEF Others, Spoken
<1>2. CASE r = a
  <2>1. PICK n \in Nat, s \in Int : n = step[a] /\ s = impl[a].stage
    BY OwnTypes DEF Impl
  <2>2. /\ n > k => n + 1 > k
        /\ n = k => n + 1 > k
        /\ t <= s => t <= s + 1
    OBVIOUS
  <2> QED
    BY <1>2, <2>1, <2>2 DEF Goes, Spoken
<1> QED
  BY <1>1, <1>2

\* Who starts a stage says there whether it had something new.
Word(a, said2) ==
  pc[a] # "send" /\ pc'[a] = "send" =>
    (said2[a][step[a]][impl'[a].stage] = 0 <=> impl'[a].no_new_messages)

LEMMA SaidNext ==
  ASSUME GroupInv, NEW said \in History, Agreed(said), NEW a \in Proc, Kinds(a)
  PROVE  \E said2 \in History : Agreed(said2)' /\ Extends(said2, said) /\ Word(a, said2)
<1>1. ASSUME NEW stage \in Nat, NEW no_new \in BOOLEAN, StartsStage(a, stage, no_new)
      PROVE  \E said2 \in History : Agreed(said2)' /\ Extends(said2, said) /\ Word(a, said2)
  <2>1. PICK said2 \in History : /\ Agreed(said2)' /\ Extends(said2, said)
                                 /\ said2[a][step[a]][stage] = 0 <=> no_new
    BY <1>1, StartsAgrees
  <2>2. impl'[a].stage = stage /\ impl'[a].no_new_messages = no_new
    BY <1>1, StartsGoes DEF GroupInv
  <2> QED
    BY <2>1, <2>2 DEF Word
<1>2. ASSUME Agreed(said)', pc'[a] = "send" => pc[a] = "send"
      PROVE  \E said2 \in History : Agreed(said2)' /\ Extends(said2, said) /\ Word(a, said2)
  BY <1>2, ExtendsItself DEF Word
<1>3. CASE Handles(a)
  <2>1. pc'[a] = pc[a]
    BY <1>3, OnlyOne DEF Handles, GroupInv
  <2> QED
    BY <1>2, <1>3, <2>1, HandlesAgrees
<1>4. CASE GoesOn(a)
  BY <1>2, <1>4, GoesOnAgrees DEF GoesOn
<1>5. CASE Tells(a)
  BY <1>2, <1>5, TellsAgrees DEF Tells
<1>6. CASE Leaves(a)
  <2>1. pc'[a] = "work"
    BY <1>6, OnlyOne DEF Leaves, GroupInv
  <2> QED
    BY <1>2, <1>6, <2>1, LeavesAgrees
<1>7. ASSUME NEW q \in Proc, Hears(a, q)
      PROVE  \E said2 \in History : Agreed(said2)' /\ Extends(said2, said) /\ Word(a, said2)
  <2>1. pc'[a] = pc[a]
    BY <1>7, OnlyOne DEF Hears, GroupInv
  <2> QED
    BY <1>2, <1>7, <2>1, HearsAgrees
<1> QED
  BY <1>1, <1>3, <1>4, <1>5, <1>6, <1>7 DEF Kinds

LEMMA KindFirst ==
  ASSUME GroupInv, NEW said \in History, NEW said2 \in History, Extends(said2, said),
         NEW a \in Proc, Goes(a), Others(a), Word(a, said2), NEW x \in Proc, First(said, x)
  PROVE  First(said2, x)'
<1> SUFFICES ASSUME pc'[x] # "work" PROVE said2[x][step'[x]][0] = 1
  BY DEF First
<1>1. PICK k \in Nat : k = step[x]
  BY OwnTypes DEF GroupInv
<1>2. CASE pc[x] # "work"
  <2>1. Spoken(x, k, 0)
    <3>1. impl[x].stage \in Nat
      BY <1>2, OwnTypes DEF GroupInv, Good, OwnStage
    <3>2. 0 <= impl[x].stage
      BY <3>1
    <3> QED
      BY <1>1, <1>2, <3>2 DEF Spoken
  <2>2. said2[x][k][0] = 1
    BY <1>1, <1>2, <2>1 DEF Extends, First
  <2>3. step'[x] = k
    BY <1>1, <1>2 DEF Goes, Others
  <2> QED
    BY <2>2, <2>3
<1>3. CASE pc[x] = "work"
  <2>1. x = a
    BY <1>3 DEF Others
  <2>2. step'[a] = k /\ pc[a] # "send" /\ pc'[a] = "send" /\ impl'[a].stage = 0
        /\ ~impl'[a].no_new_messages
    BY <1>1, <1>3, <2>1 DEF Goes
  <2>3. said2[x][k][0] # 0
    BY <1>1, <2>1, <2>2 DEF Word
  <2>4. said2[x][k][0] \in {0, 1}
    BY DEF History, Words
  <2> QED
    BY <2>1, <2>2, <2>3, <2>4
<1> QED
  BY <1>2, <1>3

-----------------------------------------------------------------------------
(* Nothing of a superstep is on its way to one that has left it. *)

\* The end of a superstep for two processes: nothing is between them.
LEMMA NothingBetween ==
  ASSUME GroupInv, NEW said, AllQuiet(said), NEW p \in Proc, NEW q \in Proc, p # q,
         pc[p] = "barrier", pc[q] = "barrier", step[p] = step[q]
  PROVE  batches[q][p] = << >>
<1>1. PICK wire \in Seq(Seq(Msg)), n \in Nat : wire = batches[q][p] /\ n = Len(wire)
  <2>1. PICK wire \in Seq(Seq(Msg)) : wire = batches[q][p]
    BY NumbersTyped DEF GroupInv
  <2>2. Len(wire) \in Nat
    OBVIOUS
  <2> QED
    BY <2>1, <2>2
<1>2. impl[p].number_received_batches[q] = 0
  BY DEF AllQuiet, QuietAt, AtEnd
<1>3. impl[q].number_sent_batches[p] = 0
  <2>1. Clean(impl[q])
    BY DEF AllQuiet, QuietAt, AtEnd
  <2> QED
    BY <2>1, CleanIs, OwnTypes DEF GroupInv
<1>4. counts[q][p] = << >>
  BY Together
<1>5. Balanced(0, n, 0, << >>)
  BY <1>1, <1>2, <1>3, <1>4 DEF AllQuiet, Conserved, Balance
<1>6. 0 + n = 0
  BY <1>5, BalancedNone
<1> QED
  BY <1>1, <1>6

LEMMA KindLeft ==
  ASSUME GroupInv, NEW said \in History, Agreed(said), AllQuiet(said),
         NEW a \in Proc, BatchKinds(a), Others(a), NEW p \in Proc, NEW q \in Proc
  PROVE  Left(p, q)'
<1> SUFFICES ASSUME step'[p] = step'[q] + 1 PROVE batches'[q][p] = << >>
  BY DEF Left
<1>1. CASE Stays(a) /\ Leaves(a)
  <2>1. /\ UNCHANGED batches /\ step[a] \in Nat /\ step[p] \in Nat /\ step[q] \in Nat
        /\ step'[a] = step[a] + 1
        /\ \A x \in Proc : x # a => step'[x] = step[x]
    BY <1>1, SeenTyped DEF Stays, Leaves, GroupInv, GroupTypes, Types
  <2>2. CASE p = a
    <3>1. q # a /\ step[q] = step[a]
      BY <2>1, <2>2
    <3>2. pc[q] = "barrier" /\ pc[a] = "barrier"
      BY <1>1, <2>1, <3>1, AllHaveCome DEF Leaves
    <3> QED
      BY <2>1, <2>2, <3>1, <3>2, NothingBetween
  <2>3. CASE p # a /\ q = a
    <3>1. step[p] = step[a] + 2
      BY <2>1, <2>3
    <3> QED
      BY <2>1, <3>1, Steps
  <2>4. CASE p # a /\ q # a
    BY <2>1, <2>4 DEF AllQuiet, QuietAt, Left
  <2> QED
    BY <2>2, <2>3, <2>4
<1>2. CASE UNCHANGED step
  <2>1. batches[q][p] = << >> /\ pc[q] = "barrier"
    <3>1. PICK n \in Nat, m \in Nat : n = step[q] /\ m = step[p]
      BY SeenTyped DEF GroupInv
    <3>2. m = n + 1
      BY <1>2, <3>1
    <3>3. step[p] = step[q] + 1 /\ step[p] > step[q]
      BY <3>1, <3>2
    <3> QED
      BY <3>3 DEF AllQuiet, QuietAt, Left, GroupInv, Between, Ahead
  <2>2. CASE Moves(a)
    <3>1. q # a
      BY <2>1, <2>2 DEF Moves, AllQuiet, QuietAt, AtEnd, Clean, Idle
    <3> QED
      BY <2>1, <2>2, <3>1 DEF Moves, Elsewhere
  <2>3. ASSUME NEW r \in Proc, Takes(a, r) PROVE batches'[q][p] = << >>
    <3>1. CASE UNCHANGED batches
      BY <2>1, <3>1
    <3>2. CASE batches[r][a] # << >>
               /\ batches' = [batches EXCEPT ![r] = [batches[r] EXCEPT ![a] = Tail(@)]]
      <4>1. r # q \/ a # p
        BY <2>1, <3>2
      <4>2. batches \in [Proc -> Wire] /\ batches[r] \in [Proc -> Seq(Seq(Msg))]
        BY OwnTypes DEF Wire, GroupInv
      <4> QED
        BY <2>1, <3>2, <4>1, <4>2
    <3> QED
      BY <2>3, <3>1, <3>2 DEF Takes
  <2>4. CASE UNCHANGED batches
    BY <2>1, <2>4
  <2> QED
    BY <2>2, <2>3, <2>4 DEF BatchKinds, Reads, Says, Stays, FlushEnds
<1>3. Leaves(a) \/ UNCHANGED step
  BY DEF BatchKinds, InPlace, Hears, Tells, StartsStage, FlushEnds, GoesOn
<1>4. Leaves(a) /\ ~UNCHANGED step => Stays(a)
  BY DEF BatchKinds, InPlace, Hears, Tells, StartsStage, FlushEnds, GoesOn
<1> QED
  BY <1>1, <1>2, <1>3, <1>4

-----------------------------------------------------------------------------
(* Who holds something goes on holding it until it says so. *)

LEMMA DirtyNext ==
  ASSUME NEW said, NEW r \in Proc, NEW k, NEW s,
         \/ Spoken(r, k, s)' /\ said[r][k][s] = 1
         \/ /\ step'[r] = k /\ pc'[r] # "work" /\ impl'[r].stage = s - 1
            /\ Holds(impl'[r], pc'[r])
  PROVE  Dirty(said, r, k, s)'
BY DEF Dirty, Holds, Busy

LEMMA HoldsMoves ==
  ASSUME GroupInv, NEW a \in Proc, Moves(a), InPlace(a), Holds(impl[a], pc[a])
  PROVE  Holds(impl'[a], pc'[a])
<1>1. pc'[a] = pc[a] /\ \A d \in Proc : Busy(impl[a], d) => Busy(impl'[a], d)
  BY DEF Moves, Passes, InPlace
<1>2. CASE SameLoop(impl'[a], impl[a])
  BY <1>1, <1>2 DEF Holds, SameLoop
<1>3. CASE /\ pc[a] = "flush" /\ impl[a].dest \in Proc /\ impl'[a].dest = impl[a].dest + 1
           /\ \/ impl'[a].no_new_messages = FALSE
              \/ /\ impl'[a].no_new_messages = impl[a].no_new_messages
                 /\ ~Busy(impl[a], impl[a].dest)
  <2> SUFFICES ASSUME impl'[a].no_new_messages, impl[a].no_new_messages,
                      ~Busy(impl[a], impl[a].dest)
               PROVE  \E d \in Proc : d >= impl'[a].dest /\ Busy(impl'[a], d)
    BY <1>1, <1>3 DEF Holds
  <2>1. PICK d \in Proc : d >= impl[a].dest /\ Busy(impl[a], d)
    BY <1>3 DEF Holds
  <2>2. PICK now \in Nat : now = impl[a].dest /\ d >= now /\ d # now /\ d \in Nat
    BY <1>3, <2>1, ProcIs
  <2>3. d >= now + 1
    BY <2>2
  <2> QED
    BY <1>1, <1>3, <2>1, <2>2, <2>3
<1> QED
  BY <1>2, <1>3 DEF Moves

LEMMA SameBusy ==
  ASSUME NEW im, NEW im2, im2.outgoing = im.outgoing,
         im2.number_sent_batches = im.number_sent_batches, NEW d \in Proc
  PROVE  Busy(im2, d) <=> Busy(im, d)
BY DEF Busy

LEMMA HoldsTells ==
  ASSUME GroupInv, NEW a \in Proc, Says(a), Tells(a), Holds(impl[a], pc[a])
  PROVE  Holds(impl'[a], pc'[a])
<1>1. PICK im \in Impl : /\ Only(a, im, IF impl[a].dest + 1 \in Proc THEN "send" ELSE "wait")
                         /\ im.dest = impl[a].dest + 1
  BY DEF Tells
<1>2. impl'[a] = im /\ pc'[a] \in {"send", "wait"} /\ pc[a] = "send"
  BY <1>1, OnlyOne DEF GroupInv, Tells
<1>3. PICK d \in Proc : d < impl[a].dest /\ Busy(impl[a], d)
  BY <1>2 DEF Holds
<1>4. PICK now \in Nat : now = impl[a].dest /\ d < now /\ d < now + 1 /\ d # now
  <2>1. PICK now \in Nat : now = impl[a].dest /\ d < now
    BY <1>3, SeenTyped DEF GroupInv
  <2> QED
    BY <2>1, ProcIs
<1>5. Busy(im, d)
  <2>1. impl[a].number_sent_batches \in [Proc -> Nat]
    BY OwnTypes DEF GroupInv, Impl
  <2>2. im.outgoing = impl[a].outgoing
        /\ im.number_sent_batches = [impl[a].number_sent_batches EXCEPT ![now] = 0]
    BY <1>2, <1>4 DEF Says
  <2>3. im.number_sent_batches[d] = impl[a].number_sent_batches[d]
    BY <1>4, <2>1, <2>2
  <2> QED
    BY <1>3, <2>2, <2>3 DEF Busy
<1> QED
  BY <1>1, <1>2, <1>4, <1>5 DEF Holds

LEMMA HoldsHears ==
  ASSUME GroupInv, NEW a \in Proc, NEW q \in Proc, Reads(a, q), Hears(a, q), Holds(impl[a], pc[a])
  PROVE  Holds(impl'[a], pc'[a])
<1>1. PICK im \in Impl : Only(a, im, pc[a]) /\ SameLoop(im, impl[a])
  BY DEF Hears
<1>2. impl'[a] = im /\ pc'[a] = pc[a]
  BY <1>1, OnlyOne DEF GroupInv
<1>3. \A d \in Proc : Busy(impl'[a], d) <=> Busy(impl[a], d)
  BY SameBusy DEF Reads
<1> QED
  BY <1>1, <1>2, <1>3 DEF Holds, SameLoop

LEMMA HoldsTakes ==
  ASSUME NEW a \in Proc, NEW q \in Proc, Takes(a, q), InPlace(a), Holds(impl[a], pc[a])
  PROVE  Holds(impl'[a], pc'[a])
<1>1. \A d \in Proc : Busy(impl'[a], d) <=> Busy(impl[a], d)
  BY SameBusy DEF Takes
<1> QED
  BY <1>1 DEF Holds, SameLoop, Takes, InPlace

\* A process that waits, and then flushes.
LEMMA HoldsGoes ==
  ASSUME NEW a \in Proc, Stays(a), Arrives(a) \/ Flushes(a), Holds(impl[a], pc[a])
  PROVE  Holds(impl'[a], pc'[a])
<1>1. \A d \in Proc : Busy(impl'[a], d) <=> Busy(impl[a], d)
  BY SameBusy DEF Stays, SameQueues
<1>2. CASE Arrives(a)
  BY <1>2 DEF Arrives, Holds
<1>3. CASE Flushes(a)
  <2>1. PICK d \in Proc : Busy(impl[a], d)
    BY <1>3 DEF Flushes, Holds
  <2>2. d >= 0
    BY ProcIs
  <2> QED
    BY <1>1, <1>3, <2>1, <2>2 DEF Flushes, Holds
<1> QED
  BY <1>2, <1>3

\* Who holds something at the end of a stage says so in the next.
LEMMA FlushSays ==
  ASSUME GroupInv, NEW said2 \in History, NEW a \in Proc, FlushEnds(a), Word(a, said2),
         Holds(impl[a], pc[a]), NEW k \in Nat, NEW s \in Nat, step[a] = k, impl[a].stage = s - 1
  PROVE  Dirty(said2, a, k, s)'
<1>1. /\ step'[a] = step[a] /\ pc[a] # "send" /\ pc'[a] = "send" /\ impl'[a].stage = impl[a].stage + 1
      /\ impl'[a].no_new_messages = impl[a].no_new_messages
  BY StartsGoes DEF FlushEnds, GroupInv
<1>2. impl'[a].stage = s
  <2>1. (s - 1) + 1 = s
    OBVIOUS
  <2> QED
    BY <1>1, <2>1
<1>3. ~impl[a].no_new_messages
  <2>1. \A d \in Proc : ~(d >= impl[a].dest)
    <3>1. PICK n \in Nat : n = impl[a].dest /\ n \in 0 .. P
      <4>1. PICK n \in Nat : n = impl[a].dest
        BY OwnTypes DEF GroupInv, Impl
      <4>2. n \in 0 .. P
        BY <4>1, OwnTypes DEF GroupInv, Good
      <4> QED
        BY <4>1, <4>2
    <3>2. n \notin 0 .. P - 1
      BY <3>1, ProcIs DEF FlushEnds
    <3>3. \A d \in 0 .. P - 1 : ~(d >= n)
      BY <3>1, <3>2, ProcIs
    <3> QED
      BY <3>1, <3>3, ProcIs
  <2> QED
    BY <2>1 DEF Holds, FlushEnds
<1>4. said2[a][k][s] = 1
  <2>1. said2[a][k][s] # 0
    BY <1>1, <1>2, <1>3 DEF Word
  <2>2. said2[a][k][s] \in {0, 1}
    BY DEF History, Words
  <2> QED
    BY <2>1, <2>2
<1>5. Spoken(a, k, s)'
  <2>1. s <= s
    OBVIOUS
  <2> QED
    BY <1>1, <1>2, <2>1 DEF Spoken
<1> QED
  BY <1>4, <1>5, DirtyNext

LEMMA DirtyStays ==
  ASSUME GroupInv, NEW said \in History, NEW said2 \in History, Agreed(said), Extends(said2, said),
         NEW a \in Proc, BatchKinds(a), Goes(a), Others(a), Word(a, said2),
         NEW x \in Proc, pc[x] # "work", NEW k \in Nat, NEW s \in Nat, k = step[x], s = impl[x].stage,
         NEW r \in Proc, Dirty(said, r, k, s)
  PROVE  Dirty(said2, r, k, s)'
<1>1. CASE Spoken(r, k, s) /\ said[r][k][s] = 1
  <2>1. Remains
    BY KindRemains DEF GroupInv
  <2> QED
    BY <1>1, <2>1, DirtyNext DEF Extends, Remains
<1>2. CASE /\ step[r] = k /\ pc[r] # "work" /\ impl[r].stage = s - 1
           /\ Holds(impl[r], pc[r])
  <2>1. CASE r # a
    BY <1>2, <2>1, DirtyNext DEF Others
  <2>2. ASSUME r = a, Holds(impl'[a], pc'[a]), step'[a] = step[a], impl'[a].stage = impl[a].stage,
               pc'[a] # "work"
        PROVE  Dirty(said2, r, k, s)'
    BY <1>2, <2>2, DirtyNext
  <2> SUFFICES ASSUME r = a PROVE Dirty(said2, r, k, s)'
    BY <2>1
  <2>3. pc[a] # "barrier" /\ pc[a] # "work" /\ impl[a].stage \in Nat
    BY <1>2, OwnTypes DEF Holds, GroupInv, Good, OwnStage
  <2>4. CASE FlushEnds(a)
    <3>1. Dirty(said2, a, k, s)'
      BY <1>2, <2>4, FlushSays
    <3> QED
      BY <3>1
  <2>5. CASE StartsStage(a, 0, FALSE)
    <3>1. 0 = impl[a].stage + 1
      BY <2>3, <2>5, StartsGoes DEF GroupInv
    <3> QED
      BY <2>3, <3>1
  <2>6. CASE EndsStage(a)
    <3>1. PICK t \in Nat : t = impl[a].stage /\ t < s
      <4>1. PICK t \in Nat : t = impl[a].stage
        BY <2>3
      <4> QED
        BY <1>2, <4>1
    <3>2. \A y \in Proc : said[y][k][t] = 0
      BY <1>2, <2>6, <3>1, AllHadNothing DEF EndsStage
    <3>3. \E y \in Proc : said[y][k][t] = 1
      BY <3>1 DEF Agreed, Parts, Passed
    <3> QED
      BY <3>2, <3>3
  <2>7. CASE pc'[a] # "send" \/ pc[a] = "send"
    <3>1. step'[a] = step[a] /\ impl'[a].stage = impl[a].stage /\ pc'[a] # "work"
      BY <2>3, <2>7 DEF Goes
    <3>2. CASE ~FlushEnds(a) /\ ~StartsStage(a, 0, FALSE) /\ ~EndsStage(a)
      <4>1. ~Leaves(a)
        BY <2>3 DEF Leaves
      <4>2. Holds(impl'[a], pc'[a])
        BY <1>2, <3>2, <4>1, HoldsMoves, HoldsTells, HoldsHears, HoldsTakes, HoldsGoes DEF BatchKinds
      <4> QED
        BY <2>2, <3>1, <4>2
    <3> QED
      BY <2>4, <2>5, <2>6, <3>2
  <2>8. CASE pc'[a] = "send" /\ pc[a] # "send"
    <3>1. FlushEnds(a) \/ StartsStage(a, 0, FALSE)
      <4>1. ~InPlace(a)
        BY <2>8 DEF InPlace
      <4>2. ~Tells(a)
        BY <2>8 DEF Tells
      <4>3. ASSUME NEW q \in Proc PROVE ~Hears(a, q)
        BY <2>8, OnlyOne DEF Hears, GroupInv
      <4>4. ~GoesOn(a)
        BY <2>8 DEF GoesOn
      <4>5. ~Leaves(a)
        BY <2>3 DEF Leaves
      <4> QED
        BY <4>1, <4>2, <4>3, <4>4, <4>5 DEF BatchKinds
    <3> QED
      BY <2>4, <2>5, <3>1
  <2> QED
    BY <2>7, <2>8
<1> QED
  BY <1>1, <1>2 DEF Dirty

-----------------------------------------------------------------------------
(* A batch that is sent is somebody's who will say 1, or somebody has.        *)

LEMMA QuietNext ==
  ASSUME NEW said, NEW x \in Proc, NEW k, NEW s, k = step'[x], s = impl'[x].stage,
         pc'[x] # "work" /\ said[x][k][s] = 0 =>
           \/ /\ Clean(impl'[x])
              /\ \A r \in Proc : r # x /\ step'[r] = k => batches'[r][x] = << >>
           \/ \E r \in Proc : Dirty(said, r, k, s)'
  PROVE  Quiet(said, x)'
BY DEF Quiet, Still, Clean, Idle, Busy, Dirty, Spoken, Holds

LEMMA MovesInFlush ==
  ASSUME NEW a \in Proc, Moves(a), Flushing(a), batches' # batches, pc[a] = "flush"
  PROVE  ~impl'[a].no_new_messages
BY DEF Moves, Flushing, Idle, SameLoop

LEMMA MovesHolds ==
  ASSUME GroupInv, NEW said, AllQuiet(said), NEW a \in Proc, NEW x \in Proc, x # a,
         Moves(a), InPlace(a), batches' # batches, Busy(impl'[a], x), pc[a] # "work",
         Announced(a, x) >= impl[a].stage
  PROVE  Holds(impl'[a], pc'[a])
<1>1. pc'[a] = pc[a] /\ pc[a] \in Place
  BY OwnTypes DEF InPlace, GroupInv
<1>2. CASE pc[a] = "flush"
  <2>1. Flushing(a)
    BY DEF AllQuiet, QuietAt
  <2> QED
    BY <1>1, <1>2, <2>1, MovesInFlush DEF Holds
<1>3. CASE pc[a] = "send"
  <2>1. SameLoop(impl'[a], impl[a])
    BY <1>3 DEF Moves
  <2>2. PICK n \in Nat, s \in Int : n = impl[a].dest /\ s = impl[a].stage /\ x \in Nat
    BY SeenTyped DEF GroupInv
  <2>3. ~(n <= x)
    <3> SUFFICES ASSUME n <= x PROVE FALSE
      OBVIOUS
    <3>1. Announced(a, x) = s - 1
      BY <1>3, <2>2 DEF Announced
    <3>2. s - 1 >= s
      BY <2>2, <3>1
    <3> QED
      BY <3>2
  <2>4. x < n
    BY <2>2, <2>3
  <2> QED
    BY <1>1, <1>3, <2>1, <2>2, <2>4 DEF Holds, SameLoop
<1>4. CASE pc[a] \in {"wait", "drain"}
  BY <1>1, <1>4 DEF Holds
<1>5. CASE pc[a] = "barrier"
  <2>1. impl[a].processing = << >>
    BY <1>5 DEF AllQuiet, QuietAt, AtEnd, Clean, Idle
  <2> QED
    BY <1>5, <2>1 DEF Moves
<1> QED
  BY <1>1, <1>2, <1>3, <1>4, <1>5 DEF Place

\* Process a sends to x, which has said 0 in stage s.
LEMMA MovesDirty ==
  ASSUME GroupInv, NEW said \in History, Agreed(said), AllQuiet(said),
         NEW a \in Proc, NEW x \in Proc, x # a, Moves(a), InPlace(a), batches' # batches,
         Busy(impl'[a], x), NEW k \in Nat, NEW s \in Nat, step[a] = k, step[x] = k,
         pc[x] # "work", impl[x].stage = s, s # 0
  PROVE  \/ \E y \in Proc : Dirty(said, y, k, s)
         \/ pc[a] # "work" /\ impl[a].stage = s - 1 /\ Holds(impl'[a], pc'[a])
<1>1. Behind(x) /\ Behind(a) /\ Quiet(said, a)
  BY DEF AllQuiet, QuietAt
<1>2. PICK u \in Nat : u + 1 = s /\ u = s - 1
  <2>1. s - 1 \in Nat /\ (s - 1) + 1 = s
    OBVIOUS
  <2> QED
    BY <2>1
<1>3. Announced(a, x) >= u /\ pc[a] # "work" /\ u <= impl[a].stage
  BY <1>1, <1>2, ToldBefore
<1>4. impl[a].stage <= s + 1
  BY <1>1, <1>3, NearStage
<1>5. PICK t \in Nat : t = impl[a].stage
  BY <1>3, OwnTypes DEF GroupInv, Good, OwnStage
<1>6. t = s + 1 \/ t = s \/ t = u
  BY <1>2, <1>3, <1>4, <1>5
<1>7. CASE t = s + 1
  <2>1. s < t
    BY <1>7
  <2> QED
    BY <1>3, <1>5, <2>1 DEF Agreed, Parts, Passed, Dirty
<1>8. CASE t = s
  <2>1. said[a][k][s] \in {0, 1}
    BY DEF History, Words
  <2>2. CASE said[a][k][s] = 1
    <3>1. Spoken(a, k, s)
      <4>1. s <= t
        BY <1>8
      <4> QED
        BY <1>3, <1>5, <4>1 DEF Spoken
    <3> QED
      BY <2>2, <3>1 DEF Dirty
  <2>3. CASE said[a][k][s] = 0 /\ Still(a)
    <3>1. pc[a] = "flush"
      BY <1>3, <2>3 DEF Moves, Still, Clean, Idle
    <3> QED
      BY <1>5, <1>8, <3>1, SomebodyHadSent DEF Dirty
  <2> QED
    BY <1>1, <1>3, <1>5, <1>8, <2>1, <2>2, <2>3 DEF Quiet
<1>9. CASE t = u
  BY <1>2, <1>3, <1>5, <1>9, MovesHolds
<1> QED
  BY <1>6, <1>7, <1>8, <1>9

\* One that is ahead of another is in its first stage.
LEMMA AheadSays ==
  ASSUME GroupInv, NEW said, AllQuiet(said), NEW a \in Proc, NEW x \in Proc,
         step[x] = step[a] + 1, pc[x] # "work"
  PROVE  said[x][step[x]][impl[x].stage] = 1
<1>1. PICK s \in Nat : s = impl[x].stage
  BY OwnTypes DEF GroupInv, Good, OwnStage
<1>2. a # x
  <2>1. PICK n \in Nat : n = step[a]
    BY SeenTyped DEF GroupInv
  <2> QED
    BY <2>1
<1>3. Seen(x, a) = -1
  BY <1>2 DEF GroupInv, Between, Channel
<1>4. -1 >= s - 1
  BY <1>1, <1>3 DEF AllQuiet, QuietAt, Behind
<1>5. s = 0
  BY <1>4
<1> QED
  BY <1>1, <1>5 DEF AllQuiet, QuietAt, First

\* A process that does not act: what is sent to it is somebody's who will say 1.
LEMMA OthersQuiet ==
  ASSUME GroupInv, NEW said \in History, NEW said2 \in History, Agreed(said), AllQuiet(said),
         Extends(said2, said), NEW a \in Proc, BatchKinds(a), Goes(a), Others(a), Word(a, said2),
         NEW x \in Proc, x # a
  PROVE  Quiet(said2, x)'
<1>1. impl'[x] = impl[x] /\ pc'[x] = pc[x] /\ step'[x] = step[x]
  BY DEF Others
<1>2. CASE pc[x] = "work"
  BY <1>1, <1>2, QuietNext
<1>3. CASE pc[x] # "work"
  <2>1. PICK k \in Nat, s \in Nat : k = step[x] /\ s = impl[x].stage
    BY <1>3, OwnTypes DEF GroupInv, Good, OwnStage
  <2> SUFFICES ASSUME said2[x][k][s] = 0, \A r \in Proc : ~Dirty(said2, r, k, s)'
               PROVE  /\ Clean(impl'[x])
                      /\ \A r \in Proc : r # x /\ step'[r] = k => batches'[r][x] = << >>
    BY <1>1, <2>1, QuietNext
  <2>2. Spoken(x, k, s)
    <3>1. s <= s
      OBVIOUS
    <3> QED
      BY <1>3, <2>1, <3>1 DEF Spoken
  <2>3. said[x][k][s] = 0
    BY <2>2 DEF Extends
  <2>4. \A r \in Proc : ~Dirty(said, r, k, s)
    BY <1>3, <2>1, DirtyStays
  <2>5. Still(x)
    BY <1>3, <2>1, <2>3, <2>4 DEF AllQuiet, QuietAt, Quiet
  <2>6. s # 0
    BY <1>3, <2>1, <2>3 DEF AllQuiet, QuietAt, First
  <2>7. ASSUME NEW r \in Proc, r # x, step'[r] = k PROVE batches'[r][x] = << >>
    <3>1. step[r] = k
      <4> SUFFICES ASSUME step[r] # k PROVE FALSE
        OBVIOUS
      <4>1. r = a /\ k = step[a] + 1
        BY <2>7 DEF Others, Goes
      <4>2. step[x] = step[a] + 1
        BY <2>1, <4>1
      <4>3. said[x][k][s] = 1
        BY <1>3, <2>1, <4>2, AheadSays
      <4> QED
        BY <2>3, <4>3
    <3>2. batches[r][x] = << >>
      BY <2>1, <2>5, <2>7, <3>1 DEF Still
    <3>3. CASE Moves(a) /\ InPlace(a)
      <4> SUFFICES ASSUME batches'[r][x] # batches[r][x] PROVE FALSE
        BY <3>2
      <4>1. r = a /\ batches' # batches
        BY <3>3 DEF Moves, Elsewhere
      <4>2. Busy(impl'[a], x)
        BY <3>3, <4>1 DEF Moves, Passes
      <4>3. pc[a] # "work" /\ impl[a].stage = s - 1 /\ Holds(impl'[a], pc'[a])
        BY <1>3, <2>1, <2>4, <2>6, <3>1, <3>3, <4>1, <4>2, MovesDirty
      <4>4. pc'[a] # "work" /\ impl'[a].stage = s - 1 /\ step'[a] = k
        BY <2>7, <3>3, <4>1, <4>3 DEF InPlace, SameStages
      <4>5. Dirty(said2, a, k, s)'
        BY <4>3, <4>4, DirtyNext
      <4> QED
        BY <4>5
    <3>4. ASSUME NEW q \in Proc, Takes(a, q) PROVE batches'[r][x] = << >>
      <4>1. CASE UNCHANGED batches
        BY <3>2, <4>1
      <4>2. CASE batches' = [batches EXCEPT ![q] = [batches[q] EXCEPT ![a] = Tail(@)]]
        <5>1. batches \in [Proc -> Wire] /\ batches[q] \in [Proc -> Seq(Seq(Msg))]
          BY OwnTypes DEF Wire, GroupInv
        <5> QED
          BY <3>2, <4>2, <5>1
      <4> QED
        BY <3>4, <4>1, <4>2 DEF Takes
    <3> QED
      BY <3>2, <3>3, <3>4 DEF BatchKinds, Reads, Says, Stays, FlushEnds
  <2> QED
    BY <1>1, <2>5, <2>7 DEF Still
<1> QED
  BY <1>2, <1>3

-----------------------------------------------------------------------------
(* The process that acts. *)

\* Nothing is taken from the wire but of the own superstep.
LEMMA TakesOwnStep ==
  ASSUME GroupInv, NEW said, AllQuiet(said), NEW a \in Proc, NEW q \in Proc,
         batches[q][a] # << >>, pc[a] # "barrier"
  PROVE  step[q] = step[a] /\ q # a
<1>1. q # a
  BY DEF AllQuiet, Conserved, OwnBalance
<1>2. step[a] # step[q] + 1
  BY DEF AllQuiet, QuietAt, Left
<1>3. step[q] # step[a] + 1
  <2>1. Ahead(q, a) /\ step[a] \in Nat /\ step[q] \in Nat
    BY SeenTyped DEF GroupInv, Between
  <2> QED
    BY <2>1 DEF Ahead
<1> QED
  BY <1>1, <1>2, <1>3, Steps

\* It stays in its stage, in which it has said 0.
LEMMA OwnQuiet ==
  ASSUME GroupInv, NEW said \in History, NEW said2 \in History, Agreed(said), AllQuiet(said),
         Extends(said2, said), NEW a \in Proc, BatchKinds(a), Goes(a), Others(a), Word(a, said2),
         pc[a] # "work", step'[a] = step[a], impl'[a].stage = impl[a].stage
  PROVE  Quiet(said2, a)'
<1>1. PICK k \in Nat, s \in Nat : k = step[a] /\ s = impl[a].stage
  BY OwnTypes DEF GroupInv, Good, OwnStage
<1> SUFFICES ASSUME said2[a][k][s] = 0, \A r \in Proc : ~Dirty(said2, r, k, s)'
             PROVE  /\ Clean(impl'[a])
                    /\ \A r \in Proc : r # a /\ step'[r] = k => batches'[r][a] = << >>
  BY <1>1, QuietNext
<1>2. Spoken(a, k, s)
  <2>1. s <= s
    OBVIOUS
  <2> QED
    BY <1>1, <2>1 DEF Spoken
<1>3. said[a][k][s] = 0
  BY <1>2 DEF Extends
<1>4. \A r \in Proc : ~Dirty(said, r, k, s)
  BY <1>1, DirtyStays
<1>5. Clean(impl[a]) /\ \A r \in Proc : r # a /\ step[r] = k => batches[r][a] = << >>
  BY <1>1, <1>3, <1>4 DEF AllQuiet, QuietAt, Quiet, Still
<1>6. Idle(impl[a]) /\ \A d \in Proc : ~Busy(impl[a], d)
  BY <1>5 DEF Clean
<1>7. CASE Moves(a)
  <2>1. pc[a] = "flush"
    BY <1>6, <1>7 DEF Moves, Idle
  <2>2. \E r \in Proc : Dirty(said, r, k, s)
    BY <1>1, <2>1, SomebodyHadSent DEF Dirty
  <2> QED
    BY <1>4, <2>2
<1>8. ASSUME NEW q \in Proc, Takes(a, q) PROVE FALSE
  <2>1. batches[q][a] # << >> /\ pc[a] # "barrier"
    BY <1>6, <1>8 DEF Takes, Idle
  <2>2. step[q] = step[a] /\ q # a
    BY <2>1, TakesOwnStep
  <2> QED
    BY <1>1, <1>5, <2>1, <2>2
<1>9. ASSUME UNCHANGED batches, Clean(impl'[a])
      PROVE  /\ Clean(impl'[a])
             /\ \A r \in Proc : r # a /\ step'[r] = k => batches'[r][a] = << >>
  BY <1>1, <1>5, <1>9 DEF Others
<1>10. ASSUME UNCHANGED batches, impl'[a].outgoing = impl[a].outgoing,
              impl'[a].number_sent_batches = impl[a].number_sent_batches,
              impl'[a].new_batches = impl[a].new_batches, impl'[a].processing = impl[a].processing
       PROVE  Clean(impl'[a])
  BY <1>5, <1>10 DEF Clean, Idle, Busy
<1>11. CASE Says(a)
  <2>1. impl[a].number_sent_batches \in [Proc -> Nat] /\ impl[a].dest \in Proc
    BY <1>11, OwnTypes DEF Says, GroupInv, Impl
  <2>2. impl'[a].number_sent_batches = [impl[a].number_sent_batches EXCEPT ![impl[a].dest] = 0]
    BY <1>11 DEF Says
  <2>3. ASSUME NEW d \in Proc PROVE ~Busy(impl'[a], d)
    <3>1. impl'[a].number_sent_batches[d] = 0 \/
          impl'[a].number_sent_batches[d] = impl[a].number_sent_batches[d]
      BY <2>1, <2>2
    <3>2. impl'[a].outgoing = impl[a].outgoing
      BY <1>11 DEF Says
    <3>3. ~(0 > 0)
      OBVIOUS
    <3> QED
      BY <1>6, <3>1, <3>2, <3>3 DEF Busy
  <2>4. Clean(impl'[a])
    BY <1>6, <1>11, <2>3 DEF Clean, Idle, Says
  <2> QED
    BY <1>9, <1>11, <2>4 DEF Says
<1> QED
  BY <1>7, <1>8, <1>9, <1>10, <1>11 DEF BatchKinds, Reads, Stays, SameQueues, FlushEnds

\* It starts a stage with nothing to tell: it has nothing, and what is on its way to
\* it is of one that will say 1 there.
LEMMA StartsQuiet ==
  ASSUME GroupInv, NEW said \in History, NEW said2 \in History, Agreed(said), AllQuiet(said),
         Extends(said2, said), NEW a \in Proc, BatchKinds(a), Goes(a), Others(a), Word(a, said2),
         FlushEnds(a)
  PROVE  Quiet(said2, a)'
<1>1. /\ step'[a] = step[a] /\ pc[a] = "flush" /\ pc'[a] = "send"
      /\ impl'[a].stage = impl[a].stage + 1
      /\ impl'[a].no_new_messages = impl[a].no_new_messages
  BY StartsGoes DEF FlushEnds, GroupInv
<1>2. PICK k \in Nat, u \in Nat : k = step[a] /\ u = impl[a].stage
  BY <1>1, OwnTypes DEF GroupInv, Good, OwnStage
<1>3. PICK s \in Nat : s = u + 1 /\ u = s - 1 /\ ~(s <= u) /\ s # 0
  <2>1. u + 1 \in Nat /\ u = (u + 1) - 1 /\ ~(u + 1 <= u) /\ u + 1 # 0
    OBVIOUS
  <2> QED
    BY <2>1
<1> SUFFICES ASSUME said2[a][k][s] = 0, \A r \in Proc : ~Dirty(said2, r, k, s)'
             PROVE  /\ Clean(impl'[a])
                    /\ \A r \in Proc : r # a /\ step'[r] = k => batches'[r][a] = << >>
  BY <1>1, <1>2, <1>3, QuietNext
<1>4. impl[a].no_new_messages
  BY <1>1, <1>2, <1>3 DEF Word
<1>5. Clean(impl[a])
  <2>1. Idle(impl[a]) /\ \A d \in Proc : d < impl[a].dest => ~Busy(impl[a], d)
    BY <1>1, <1>4 DEF AllQuiet, QuietAt, Flushing
  <2>2. ASSUME NEW d \in Proc PROVE d < impl[a].dest
    <3>1. PICK n \in Nat : n = impl[a].dest /\ n \in 0 .. P
      <4>1. PICK n \in Nat : n = impl[a].dest
        BY OwnTypes DEF GroupInv, Impl
      <4>2. n \in 0 .. P
        BY <4>1, OwnTypes DEF GroupInv, Good
      <4> QED
        BY <4>1, <4>2
    <3>2. n \notin 0 .. P - 1 /\ d \in 0 .. P - 1
      BY <3>1, ProcIs DEF FlushEnds
    <3>3. d < n
      BY <3>1, <3>2, ProcIs
    <3> QED
      BY <3>1, <3>3
  <2> QED
    BY <2>1, <2>2 DEF Clean
<1>6. Clean(impl'[a]) /\ UNCHANGED batches
  BY <1>5 DEF FlushEnds, Stays, SameQueues, Clean, Idle, Busy
<1>7. ASSUME NEW r \in Proc, r # a, Dirty(said, r, k, s) PROVE FALSE
  <2>1. CASE Spoken(r, k, s) /\ said[r][k][s] = 1
    <3>1. Remains
      BY KindRemains DEF GroupInv
    <3>2. Dirty(said2, r, k, s)'
      BY <2>1, <3>1, DirtyNext DEF Extends, Remains
    <3> QED
      BY <3>2
  <2>2. CASE step[r] = k /\ pc[r] # "work" /\ impl[r].stage = s - 1 /\ Holds(impl[r], pc[r])
    <3>1. Dirty(said2, r, k, s)'
      BY <1>7, <2>2, DirtyNext DEF Others
    <3> QED
      BY <3>1
  <2> QED
    BY <1>7, <2>1, <2>2 DEF Dirty
<1>8. ASSUME NEW r \in Proc, r # a, step'[r] = k, batches[r][a] # << >> PROVE FALSE
  <2>1. step[r] = k
    BY <1>8 DEF Others
  <2>2. PICK v \in Int, n \in Nat, w \in Int :
          v = Seen(a, r) /\ n = Len(counts[r][a]) /\ w = Announced(r, a)
    BY SeenTyped DEF GroupInv
  <2>3. v >= u /\ v + n = w
    <3>1. Seen(a, r) >= u
      BY <1>1, <1>2 DEF GroupInv, Alone, AllIn, Seen
    <3> QED
      BY <1>2, <1>8, <2>1, <2>2, <3>1, WordsOf
  <2>4. w >= u
    BY <2>2, <2>3
  <2>5. pc[r] # "work" /\ u <= impl[r].stage
    BY <1>2, <2>2, <2>4, AnnouncedIs
  <2>6. PICK t \in Nat : t = impl[r].stage
    BY <2>5, OwnTypes DEF GroupInv, Good, OwnStage
  <2>7. t <= u + 1
    <3>1. Behind(r) /\ pc[a] # "work"
      BY <1>1 DEF AllQuiet, QuietAt
    <3> QED
      BY <1>2, <1>8, <2>1, <2>5, <2>6, <3>1, NearStage
  <2>8. t = u \/ t = s
    BY <1>3, <2>5, <2>6, <2>7
  <2>9. PICK x \in Int, m \in Nat, sent \in Nat, words \in Seq(Int) :
          /\ x = impl[a].number_received_batches[r] /\ m = Len(batches[r][a])
          /\ sent = impl[r].number_sent_batches[a] /\ words = counts[r][a]
    BY NumbersTyped DEF GroupInv
  <2>10. Balanced(x, m, sent, words) /\ Len(words) = n
    BY <1>8, <2>2, <2>9 DEF AllQuiet, Conserved, Balance
  <2>11. x >= 0 /\ m > 0
    <3>1. x >= 0
      BY <1>1, <2>9 DEF AllQuiet, QuietAt, Flushing
    <3>2. PICK wire \in Seq(Seq(Msg)) : wire = batches[r][a] /\ wire # << >>
      BY <1>8, NumbersTyped DEF GroupInv
    <3>3. Len(wire) > 0
      BY <3>2
    <3> QED
      BY <2>9, <3>1, <3>2, <3>3
  <2>12. w <= t
    BY <2>2, <2>5, <2>6, AnnouncedMost
  <2>13. CASE t = s
    <3>1. ~Dirty(said, r, k, s)
      BY <1>7, <1>8
    <3>2. Spoken(r, k, s)
      <4>1. s <= t
        BY <2>13
      <4> QED
        BY <2>1, <2>5, <2>6, <4>1 DEF Spoken
    <3>3. said[r][k][s] = 0
      <4>1. said[r][k][s] \in {0, 1}
        BY DEF History, Words
      <4> QED
        BY <3>1, <3>2, <4>1 DEF Dirty
    <3>4. \A y \in Proc : ~Dirty(said, y, k, s)
      BY <2>1, <2>5, <2>6, <2>13, DirtyStays
    <3>5. Clean(impl[r])
      BY <2>1, <2>5, <2>6, <2>13, <3>3, <3>4 DEF AllQuiet, QuietAt, Quiet, Still
    <3>6. sent = 0
      BY <2>9, <3>5, CleanIs, OwnTypes DEF GroupInv
    <3>7. n <= 1
      BY <1>3, <2>3, <2>12, <2>13
    <3>8. CASE n = 0
      <4>1. words = << >>
        BY <2>10, <3>8
      <4>2. x + m = 0
        BY <2>10, <3>6, <4>1, BalancedNone
      <4> QED
        BY <2>11, <4>2
    <3>9. CASE n = 1
      <4>1. x + m = 0 + Positive(words[1])
        BY <2>10, <3>6, <3>9, BalancedOne
      <4>2. words[1] \in Int
        <5>1. 1 \in 1 .. Len(words)
          BY <2>10, <3>9
        <5> QED
          BY <5>1, Slots
      <4>3. words[1] >= 0
        <5> SUFFICES ASSUME ~(words[1] >= 0) PROVE FALSE
          OBVIOUS
        <5>1. ~(words[1] > 0)
          BY <4>2
        <5>2. x + m = 0
          BY <4>1, <5>1 DEF Positive
        <5> QED
          BY <2>11, <5>2
      <4>4. OnWay(said, r, a)
        BY <1>8 DEF Agreed
      <4>5. Base(r, a) = u
        <5>1. w = u + 1 /\ v = u
          BY <1>3, <2>3, <2>12, <2>13, <3>9
        <5> QED
          BY <1>2, <2>1, <2>2, <5>1 DEF Base
      <4>6. words[1] >= 0 <=> said[r][k][u + 1] = 1
        <5>1. 1 \in 1 .. Len(words)
          BY <2>10, <3>9
        <5> QED
          BY <2>1, <2>9, <4>4, <4>5, <5>1 DEF OnWay, Carries
      <4> QED
        BY <1>3, <3>3, <4>3, <4>6
    <3> QED
      BY <3>7, <3>8, <3>9
  <2>14. CASE t = u
    <3>1. n = 0 /\ w = u
      BY <2>3, <2>12, <2>14
    <3>2. words = << >>
      BY <2>10, <3>1
    <3>3. x + m = sent
      BY <2>10, <3>2, BalancedNone
    <3>4. sent > 0
      BY <2>11, <3>3
    <3>5. Busy(impl[r], a)
      BY <2>9, <3>4 DEF Busy
    <3>6. Holds(impl[r], pc[r])
      <4>1. Flushing(r) /\ AtEnd(r)
        BY DEF AllQuiet, QuietAt
      <4>2. PICK d \in Nat : d = impl[r].dest /\ a \in Nat
        BY SeenTyped DEF GroupInv
      <4>3. CASE pc[r] = "flush"
        <5>1. impl[r].no_new_messages => ~(a < d)
          BY <3>5, <4>1, <4>2, <4>3 DEF Flushing
        <5>2. ~(a < d) => a >= d
          BY <4>2
        <5> QED
          BY <3>5, <4>2, <4>3, <5>1, <5>2 DEF Holds
      <4>4. CASE pc[r] = "send"
        <5>1. ~(d <= a)
          <6> SUFFICES ASSUME d <= a PROVE FALSE
            OBVIOUS
          <6>1. w = t - 1
            BY <2>2, <2>6, <4>2, <4>4 DEF Announced
          <6> QED
            BY <2>14, <3>1, <6>1
        <5>2. a < d
          BY <4>2, <5>1
        <5> QED
          BY <3>5, <4>2, <4>4, <5>2 DEF Holds
      <4>5. CASE pc[r] \in {"wait", "drain"}
        BY <3>5, <4>5 DEF Holds
      <4>6. pc[r] # "barrier"
        BY <3>5, <4>1 DEF AtEnd, Clean
      <4>7. pc[r] \in Place
        BY OwnTypes DEF GroupInv
      <4> QED
        BY <2>5, <4>3, <4>4, <4>5, <4>6, <4>7 DEF Place
    <3>7. Dirty(said, r, k, s)
      BY <1>3, <2>1, <2>5, <2>6, <2>14, <3>6 DEF Dirty
    <3> QED
      BY <1>7, <1>8, <3>7
  <2> QED
    BY <2>8, <2>13, <2>14
<1> QED
  BY <1>6, <1>8

\* What was said extends over every step, and the process of the step keeps its promise.
LEMMA ActorQuiet ==
  ASSUME GroupInv, NEW said \in History, NEW said2 \in History, Agreed(said), AllQuiet(said),
         Extends(said2, said), NEW a \in Proc, BatchKinds(a), Goes(a), Others(a), Word(a, said2)
  PROVE  Quiet(said2, a)'
<1>1. CASE pc'[a] = "work"
  BY <1>1 DEF Quiet
<1>2. CASE step'[a] = step[a] /\ impl'[a].stage = impl[a].stage /\ pc[a] # "work"
  BY <1>2, OwnQuiet
<1>3. CASE /\ step'[a] = step[a] /\ pc[a] = "work" /\ pc'[a] = "send"
           /\ impl'[a].stage = 0 /\ ~impl'[a].no_new_messages
  <2>1. said2[a][step'[a]][impl'[a].stage] # 0
    BY <1>3 DEF Word
  <2> QED
    BY <2>1, QuietNext
<1>4. CASE /\ step'[a] = step[a] /\ pc[a] = "flush" /\ pc'[a] = "send"
           /\ impl'[a].stage = impl[a].stage + 1
  <2>1. FlushEnds(a)
    <3>1. pc'[a] # pc[a]
      BY <1>4
    <3>2. ~InPlace(a) /\ ~Leaves(a) /\ ~StartsStage(a, 0, FALSE)
      <4>1. ~StartsStage(a, 0, FALSE)
        <5> SUFFICES ASSUME StartsStage(a, 0, FALSE) PROVE FALSE
          OBVIOUS
        <5>1. impl'[a].stage = 0
          BY StartsGoes DEF GroupInv
        <5>2. PICK n \in Nat : n = impl[a].stage
          BY <1>4, OwnTypes DEF GroupInv, Good, OwnStage
        <5> QED
          BY <1>4, <5>1, <5>2
      <4> QED
        BY <1>4, <3>1, <4>1 DEF InPlace, Leaves
    <3>3. ~Arrives(a) /\ ~Flushes(a) /\ ~EndsStage(a)
      BY <1>4 DEF Arrives, Flushes, EndsStage
    <3>4. ~Tells(a)
      BY <1>4 DEF Tells
    <3>5. \A q \in Proc : ~Hears(a, q)
      BY <3>1, OnlyOne DEF Hears, GroupInv
    <3> QED
      BY <3>2, <3>3, <3>4, <3>5 DEF BatchKinds
  <2> QED
    BY <2>1, StartsQuiet
<1> QED
  BY <1>1, <1>2, <1>3, <1>4 DEF Goes

\* A step of a process keeps all.
LEMMA StepQuiet ==
  ASSUME GroupInv, GroupTypes', TellsTruth, NEW said \in History, Agreed(said), AllQuiet(said),
         NEW a \in Proc, Kinds(a), BatchKinds(a)
  PROVE  \E said2 \in History : Agreed(said2)' /\ AllQuiet(said2)'
<1>1. PICK said2 \in History : Agreed(said2)' /\ Extends(said2, said) /\ Word(a, said2)
  BY SaidNext
<1>2. Others(a) /\ Goes(a)
  BY NothingElse, KindGoes DEF GroupInv
<1>3. Conserved'
  BY <1>2, KindConserves DEF GroupInv, AllQuiet
<1>4. ASSUME NEW x \in Proc PROVE QuietAt(said2, x)'
  <2>1. Behind(x) /\ Flushing(x) /\ AtEnd(x) /\ First(said, x)
    BY DEF AllQuiet, QuietAt
  <2>2. First(said2, x)'
    BY <1>1, <1>2, <2>1, KindFirst
  <2>3. \A q \in Proc : Left(x, q)'
    BY <1>2, KindLeft
  <2>4. CASE x = a
    <3>1. Behind(a)' /\ Flushing(a)' /\ AtEnd(a)'
      BY <1>2, <2>1, <2>4, KindBehind, KindFlushing, KindAtEnd
    <3>2. Quiet(said2, a)'
      BY <1>1, <1>2, ActorQuiet
    <3> QED
      BY <2>2, <2>3, <2>4, <3>1, <3>2 DEF QuietAt
  <2>5. CASE x # a
    <3>1. Behind(x)' /\ Flushing(x)' /\ AtEnd(x)'
      BY <1>2, <2>1, <2>5 DEF Others, Behind, Seen, Flushing, AtEnd, Idle, Busy, Clean
    <3>2. Quiet(said2, x)'
      BY <1>1, <1>2, <2>5, OthersQuiet
    <3> QED
      BY <2>2, <2>3, <3>1, <3>2 DEF QuietAt
  <2> QED
    BY <2>4, <2>5
<1> QED
  BY <1>1, <1>3, <1>4 DEF AllQuiet

Quietness == \E said \in History : Agreed(said) /\ AllQuiet(said)

LEMMA InitQuiet == ProcessGroupInit => Quietness
<1> SUFFICES ASSUME ProcessGroupInit PROVE Quietness
  OBVIOUS
<1>1. PICK said \in History : Agreed(said)
  BY InitAgrees DEF Agreement
<1>2. GroupTypes
  BY InitInv DEF GroupInv
<1>3. \A p \in Proc : pc[p] = "work" /\ step[p] = 0
  BY DEF ProcessGroupInit
<1>4. ASSUME NEW p \in Proc, NEW q \in Proc
      PROVE  /\ impl[p].number_received_batches[q] = 0 /\ impl[p].number_sent_batches[q] = 0
             /\ impl[p].new_batches = << >> /\ batches[p][q] = << >> /\ counts[p][q] = << >>
  BY DEF ProcessGroupInit, Impl0, Zero, Nobody
<1>5. Len(<< >>) = 0
  OBVIOUS
<1>6. ASSUME NEW p \in Proc PROVE OwnBalance(p)
  BY <1>4, <1>5 DEF OwnBalance, OwnBatches
<1>7. ASSUME NEW p \in Proc, NEW q \in Proc PROVE Balance(p, q)
  <2>1. Balanced(0, 0, 0, << >>)
    BY BalancedNone
  <2> QED
    BY <1>4, <1>5, <2>1 DEF Balance
<1>8. ASSUME NEW p \in Proc PROVE QuietAt(said, p)
  BY <1>3 DEF QuietAt, Behind, Flushing, AtEnd, First, Quiet, Left
<1> QED
  BY <1>1, <1>6, <1>7, <1>8 DEF Quietness, AllQuiet, Conserved

LEMMA NextQuiet == GroupInv /\ Quietness /\ TellsTruth /\ [ProcessGroupNext]_group_vars => Quietness'
<1> SUFFICES ASSUME GroupInv, NEW said \in History, Agreed(said), AllQuiet(said), TellsTruth,
                    [ProcessGroupNext]_group_vars
             PROVE  \E said2 \in History : Agreed(said2)' /\ AllQuiet(said2)'
  BY DEF Quietness
<1>1. ASSUME NEW p \in Proc, Works(p) \/ Send(p) \/ synchronize(p)
      PROVE  \E said2 \in History : Agreed(said2)' /\ AllQuiet(said2)'
  <2>1. GroupTypes' /\ Kinds(p) /\ BatchKinds(p)
    BY <1>1, KindOfStep, BatchKindOfStep DEF GroupInv, Alone
  <2> QED
    BY <2>1, StepQuiet
<1>2. CASE UNCHANGED group_vars
  <2>1. PICK p \in Proc : TRUE
    BY ProcessGroupAssumption
  <2>2. impl[p] \in Impl /\ Only(p, impl[p], pc[p]) /\ UNCHANGED <<counts, step>>
    BY <1>2 DEF group_vars, Only, GroupInv, GroupTypes, Types
  <2>3. Handles(p)
    BY <2>2 DEF Handles, SameStages, SameLoop
  <2>4. Agreed(said)'
    BY <2>3, HandlesAgrees
  <2>5. Conserved'
    BY <1>2 DEF group_vars, AllQuiet, Conserved, OwnBalance, OwnBatches, Balance
  <2>6. ASSUME NEW x \in Proc PROVE QuietAt(said, x)'
    <3>1. QuietAt(said, x)
      BY DEF AllQuiet
    <3> QED
      BY <1>2, <3>1 DEF group_vars, QuietAt, Behind, Seen, Flushing, AtEnd, Idle, Busy, Clean, First,
                       Quiet, Still, Dirty, Holds, Spoken, Left
  <2> QED
    BY <2>4, <2>5, <2>6 DEF AllQuiet
<1> QED
  BY <1>1, <1>2 DEF ProcessGroupNext, Done

\* No batch is lost or counted twice, and who says that he had nothing new has nothing, or
\* somebody still has.
THEOREM Quieted == ProcessGroupSpec /\ []TellsTruth => [](GroupInv /\ Quietness)
<1>1. ProcessGroupInit => GroupInv /\ Quietness
  BY InitInv, InitQuiet
<1>2. GroupInv /\ Quietness /\ TellsTruth /\ [ProcessGroupNext]_group_vars => (GroupInv /\ Quietness)'
  BY NextInv, NextQuiet
<1> QED
  BY <1>1, <1>2, PTL DEF ProcessGroupSpec

LEMMA EndsMatch == Quietness => CountsMatch
<1> SUFFICES ASSUME NEW said \in History, AllQuiet(said), NEW p \in Proc, pc[p] = "barrier", NEW q \in Proc
             PROVE  impl[p].number_received_batches[q] = 0 /\ impl[p].outgoing[q] = << >>
  BY DEF Quietness, CountsMatch
<1>1. AtEnd(p)
  BY DEF AllQuiet, QuietAt
<1> QED
  BY <1>1 DEF AtEnd, Clean, Busy

\* The assertions at the end of synchronize, for any number of processes, any handlers and any
\* size of a batch: they hold wherever no process tells another -1 for batches it has sent.
THEOREM CountsMatchTold == ProcessGroupSpec /\ []TellsTruth => []CountsMatch
  BY Quieted, EndsMatch, PTL

-----------------------------------------------------------------------------
(* What the messages are that a process holds, or has sent and nobody has     *)
(* received: members of M.                                                     *)

QueueOf(queue, M) == \A i \in 1 .. Len(queue) : queue[i].messages \in Seq(M)
Content(im, w, M) ==
  /\ im.outgoing \in [Proc -> Seq(M)] /\ im.processing \in Seq(M) /\ QueueOf(im.new_batches, M)
  /\ w \in [Proc -> Seq(Seq(M))]

LEMMA QueueMore ==
  ASSUME NEW M, NEW queue \in Seq(Batch), NEW b \in Batch, b.messages \in Seq(M), QueueOf(queue, M)
  PROVE  QueueOf(Append(queue, b), M)
BY DEF QueueOf

LEMMA QueueLess ==
  ASSUME NEW M, NEW queue \in Seq(Batch), queue # << >>, QueueOf(queue, M)
  PROVE  QueueOf(Tail(queue), M) /\ Head(queue).messages \in Seq(M)
BY DEF QueueOf

LEMMA ContentBatch ==
  ASSUME NEW M, NEW out \in Outs, NEW me \in Proc, NEW dest \in Proc, Content(out.impl, out.wire, M)
  PROVE  Content(send_batch(out, me, dest).impl, send_batch(out, me, dest).wire, M)
<1> DEFINE im == out.impl
           w == out.wire
           batch == im.outgoing[dest]
           new == send_batch(out, me, dest)
           b == [source |-> me, messages |-> batch]
<1>1. im \in Impl /\ w \in Wire
  BY DEF Outs
<1>2. batch \in Seq(Msg) /\ batch \in Seq(M)
  BY <1>1 DEF Impl, Content
<1>3. CASE batch = << >>
  BY <1>3 DEF send_batch
<1>4. CASE batch # << >> /\ dest = me
  <2>1. /\ new.impl.outgoing = [im.outgoing EXCEPT ![dest] = << >>]
        /\ new.impl.new_batches = Append(im.new_batches, b)
        /\ new.impl.processing = im.processing /\ new.wire = w
    BY <1>1, <1>4 DEF send_batch, Outs, Impl
  <2>2. b \in Batch /\ b.messages \in Seq(M) /\ im.new_batches \in Seq(Batch)
    BY <1>1, <1>2 DEF Batch, Impl
  <2>3. QueueOf(new.impl.new_batches, M)
    BY <2>1, <2>2, QueueMore DEF Content
  <2>4. << >> \in Seq(M)
    OBVIOUS
  <2>5. Content(new.impl, new.wire, M)
    <3> HIDE DEF new
    <3> QED
      BY <2>1, <2>3, <2>4 DEF Content
  <2> QED
    BY <2>5
<1>5. CASE batch # << >> /\ dest # me
  <2>1. /\ new.impl.outgoing = [im.outgoing EXCEPT ![dest] = << >>]
        /\ new.impl.new_batches = im.new_batches
        /\ new.impl.processing = im.processing
        /\ new.wire = [w EXCEPT ![dest] = Append(w[dest], batch)]
    BY <1>1, <1>5 DEF send_batch, Outs, Impl, Wire
  <2>2. Append(w[dest], batch) \in Seq(Seq(M)) /\ << >> \in Seq(M)
    BY <1>2 DEF Content
  <2>3. Content(new.impl, new.wire, M)
    <3> HIDE DEF new
    <3> QED
      BY <2>1, <2>2 DEF Content
  <2> QED
    BY <2>3
<1> QED
  BY <1>3, <1>4, <1>5

LEMMA ContentSend ==
  ASSUME NEW M, NEW out \in Outs, NEW me \in Proc, NEW route \in Seq(Proc), route # << >>,
         step[me] \in Nat, Message(me, route) \in M, Content(out.impl, out.wire, M)
  PROVE  Content(send(out, me, route).impl, send(out, me, route).wire, M)
<1> DEFINE im == out.impl
<1>1. im \in Impl /\ out.wire \in Wire
  BY DEF Outs
<1>2. PICK dest \in Proc, m \in Msg : dest = Head(route) /\ m = Message(me, route)
  <2>1. Head(route) \in Proc /\ Tail(route) \in Seq(Proc)
    OBVIOUS
  <2> QED
    BY <2>1 DEF Message, Msg
<1>3. m \in M /\ im.outgoing[dest] \in Seq(M) /\ im.outgoing[dest] \in Seq(Msg)
  BY <1>1, <1>2 DEF Content, Impl
<1>4. Append(im.outgoing[dest], m) \in Seq(M) /\ Append(im.outgoing[dest], m) \in Seq(Msg)
  BY <1>3
<1> DEFINE queued == [out EXCEPT !.impl.outgoing[dest] = Append(@, m)]
           more == [im.outgoing EXCEPT ![dest] = Append(im.outgoing[dest], m)]
<1>5. /\ more \in [Proc -> Seq(Msg)] /\ more \in [Proc -> Seq(M)]
  BY <1>1, <1>4 DEF Content, Impl
<1>6. /\ queued.impl = [im EXCEPT !.outgoing = more] /\ queued.wire = out.wire
      /\ queued = [impl |-> queued.impl, wire |-> queued.wire]
  BY DEF Outs
<1>7. queued \in Outs
  <2>1. [im EXCEPT !.outgoing = more] \in Impl
    <3> HIDE DEF more
    <3> QED
      BY <1>1, <1>5 DEF Impl
  <2> HIDE DEF more, queued
  <2> QED
    BY <1>1, <1>6, <2>1 DEF Outs
<1>8. Content(queued.impl, queued.wire, M)
  <2>1. /\ queued.impl.outgoing = more /\ queued.impl.processing = im.processing
        /\ queued.impl.new_batches = im.new_batches /\ queued.wire = out.wire
    <3> HIDE DEF more, queued
    <3> QED
      BY <1>1, <1>6 DEF Impl
  <2> HIDE DEF more, queued
  <2> QED
    BY <1>5, <2>1 DEF Content
<1>9. send(out, me, route) = queued \/ send(out, me, route) = send_batch(queued, me, dest)
  BY <1>2 DEF send
<1> QED
  <2> HIDE DEF queued
  <2> QED
    BY <1>7, <1>8, <1>9, ContentBatch

\* One step of a: what it holds is of M, if what it sends and what it gets is.
Adds(a, M) ==
  \A route \in Seq(Proc) :
    route # << >> /\ (route \in Routes \/ \E m \in M : m.route = route) => Message(a, route) \in M
Content2(a, M) == Content(impl[a], batches[a], M)

LEMMA ContentStays ==
  ASSUME NEW M, NEW a \in Proc, SameQueues(impl'[a], impl[a]), impl'[a].processing = impl[a].processing,
         batches'[a] = batches[a], Content2(a, M)
  PROVE  Content(impl'[a], batches'[a], M)
BY DEF Content2, Content, SameQueues

LEMMA ContentSets ==
  ASSUME GroupTypes, NEW M, NEW a \in Proc, NEW out, Sets(a, out), Content(out.impl, out.wire, M)
  PROVE  Content(impl'[a], batches'[a], M)
BY SetsIs

LEMMA SendContent ==
  ASSUME GroupTypes, NEW M, NEW a \in Proc, Send(a), Adds(a, M), Content2(a, M)
  PROVE  Content(impl'[a], batches'[a], M)
<1>1. PICK route \in Routes : Sets(a, send(Out(a), a, route))
  BY DEF Send
<1>2. route \in Seq(Proc) /\ route # << >> /\ step[a] \in Nat
  BY ProcessGroupAssumption DEF GroupTypes, Types
<1>3. Message(a, route) \in M
  BY <1>2 DEF Adds
<1> QED
  BY <1>1, <1>2, <1>3, OwnTypes, ContentSend, ContentSets DEF Content2

LEMMA HandlerContent ==
  ASSUME GroupTypes, NEW M, NEW a \in Proc, process_batch(a), Adds(a, M), Content2(a, M)
  PROVE  Content(impl'[a], batches'[a], M)
<1>1. PICK im \in Impl : im = impl[a] /\ im.processing # << >>
  BY OwnTypes DEF process_batch
<1>2. PICK queue \in Seq(Msg) : queue = im.processing /\ queue \in Seq(M) /\ queue # << >>
  BY <1>1 DEF Content2, Content, Impl
<1>3. PICK m \in Msg : m = Head(im.processing) /\ m \in M
  BY <1>2
<1>4. PICK rest \in Seq(Msg) : rest = Tail(im.processing) /\ rest \in Seq(M)
  <2>1. Tail(queue) \in Seq(Msg)
    BY <1>2
  <2>2. Tail(queue) \in Seq(M)
    BY <1>2
  <2> QED
    BY <1>2, <2>1, <2>2
<1> DEFINE out == [impl |-> [im EXCEPT !.processing = rest], wire |-> batches[a]]
<1>5. [Out(a) EXCEPT !.impl.processing = Tail(@)] = out
  <2>1. PICK o \in Outs : o = Out(a) /\ o.impl = im /\ o.wire = batches[a]
    BY <1>1, OwnTypes
  <2>2. PICK y : y = [o EXCEPT !.impl.processing = rest]
    OBVIOUS
  <2>3. y = [impl |-> [o.impl EXCEPT !.processing = rest], wire |-> o.wire]
    BY <2>2, NestedProcessing
  <2>4. [Out(a) EXCEPT !.impl.processing = Tail(@)] = y
    BY <1>4, <2>1, <2>2
  <2> QED
    BY <2>1, <2>3, <2>4
<1>6. out \in Outs /\ Content(out.impl, out.wire, M)
  <2>1. PICK im2 \in Impl : im2 = [im EXCEPT !.processing = rest]
    BY DEF Impl
  <2>2. im2.outgoing = im.outgoing /\ im2.new_batches = im.new_batches /\ im2.processing = rest
    BY <2>1 DEF Impl
  <2>3. Content(im2, batches[a], M)
    BY <1>1, <1>4, <2>2 DEF Content2, Content
  <2> QED
    BY <2>1, <2>3, OwnTypes DEF Outs
<1>7. Sets(a, IF m.route = << >> THEN out ELSE send(out, a, m.route))
  BY <1>1, <1>3, <1>5 DEF process_batch
<1> HIDE DEF out
<1>8. CASE m.route = << >>
  BY <1>6, <1>7, <1>8, ContentSets
<1>9. CASE m.route # << >>
  <2>1. m.route \in Seq(Proc) /\ step[a] \in Nat
    BY DEF Msg, GroupTypes, Types
  <2>2. Message(a, m.route) \in M
    BY <1>3, <1>9, <2>1 DEF Adds
  <2> QED
    BY <1>6, <1>7, <1>9, <2>1, <2>2, ContentSend, ContentSets
<1> QED
  BY <1>8, <1>9

LEMMA QueuedContent ==
  ASSUME GroupTypes, NEW M, NEW a \in Proc, ProcessQueued(a), Content2(a, M)
  PROVE  Content(impl'[a], batches'[a], M)
<1>1. PICK im \in Impl, queue \in Seq(Batch) : im = impl[a] /\ queue = im.new_batches /\ queue # << >>
  <2>1. impl[a].new_batches # << >> /\ impl[a] \in Impl
    BY OwnTypes DEF ProcessQueued
  <2> QED
    BY <2>1 DEF Impl
<1>2. PICK b \in Batch : b = Head(queue)
  BY <1>1
<1>3. QueueOf(Tail(queue), M) /\ b.messages \in Seq(M)
  BY <1>1, <1>2, QueueLess DEF Content2, Content
<1>4. PICK messages \in Seq(Msg) : messages = b.messages /\ b.source \in Proc
  BY DEF Batch
<1>5. PICK got : got = receive_batch(im, b.source, messages)
  OBVIOUS
<1>6. got.outgoing = im.outgoing /\ got.processing = messages
  BY <1>4, <1>5 DEF receive_batch, Impl
<1>7. PICK im2 \in Impl : im2 = got
  BY <1>1, <1>4, <1>5, ReceiveTyped, OwnTypes
<1>8. impl'[a] = [got EXCEPT !.new_batches = Tail(@)] /\ UNCHANGED batches
  <2>1. impl' = [impl EXCEPT ![a] = [got EXCEPT !.new_batches = Tail(@)]] /\ UNCHANGED batches
    BY <1>1, <1>2, <1>4, <1>5 DEF ProcessQueued
  <2> QED
    BY <2>1 DEF GroupTypes, Types
<1>9. got.new_batches = queue
  BY <1>1, <1>4, <1>5 DEF receive_batch, Impl
<1>10. PICK rest : rest = Tail(queue)
  OBVIOUS
<1>11. PICK new : new = [im2 EXCEPT !.new_batches = rest]
  OBVIOUS
<1>12. new.outgoing = im2.outgoing /\ new.processing = im2.processing /\ new.new_batches = rest
  BY <1>11 DEF Impl
<1>13. new = impl'[a]
  BY <1>7, <1>8, <1>9, <1>10, <1>11
<1> QED
  BY <1>1, <1>3, <1>4, <1>6, <1>7, <1>8, <1>10, <1>12, <1>13 DEF Content2, Content

LEMMA BatchContent ==
  ASSUME GroupTypes, NEW M, NEW a \in Proc, NEW q \in Proc, handle_batch(a, q), Content2(a, M),
         batches[q][a] \in Seq(Seq(M))
  PROVE  Content(impl'[a], batches'[a], M)
<1>1. PICK im \in Impl : im = impl[a]
  BY OwnTypes
<1>2. batches[q][a] # << >> /\ Tail(batches[q][a]) \in Seq(Seq(M))
  BY DEF handle_batch
<1>3. PICK messages \in Seq(M) : messages = Head(batches[q][a])
  BY <1>2
<1>4. PICK got : got = receive_batch(im, q, messages)
  OBVIOUS
<1>5. /\ got.outgoing = im.outgoing /\ got.new_batches = im.new_batches
      /\ got.processing = messages
  BY <1>4 DEF receive_batch, Impl
<1>6. impl'[a] = got
  <2>1. impl' = [impl EXCEPT ![a] = got]
    BY <1>1, <1>3, <1>4 DEF handle_batch
  <2> QED
    BY <2>1 DEF GroupTypes, Types
<1>7. batches' = [batches EXCEPT ![q] = [batches[q] EXCEPT ![a] = Tail(@)]]
  BY DEF handle_batch
<1>8. batches'[a] \in [Proc -> Seq(Seq(M))]
  <2>1. PICK w : w = batches[a] /\ w \in [Proc -> Seq(Seq(M))]
    BY DEF Content2, Content
  <2>2. PICK rest \in Seq(Seq(M)) : rest = Tail(batches[q][a])
    BY <1>2
  <2>3. CASE q = a
    <3>1. batches'[a] = [w EXCEPT ![a] = rest]
      BY <1>7, <2>1, <2>2, <2>3 DEF GroupTypes, Types
    <3> QED
      BY <2>1, <3>1
  <2>4. CASE q # a
    <3>1. batches'[a] = w
      BY <1>7, <2>1, <2>4 DEF GroupTypes, Types
    <3> QED
      BY <2>1, <3>1
  <2> QED
    BY <2>3, <2>4
<1> QED
  BY <1>1, <1>5, <1>6, <1>8 DEF Content2, Content

LEMMA FlushContent ==
  ASSUME GroupTypes, NEW M, NEW a \in Proc, FlushTo(a), impl[a].dest \in Proc, Content2(a, M)
  PROVE  Content(impl'[a], batches'[a], M)
<1>1. PICK im \in Impl, dest \in Proc : im = impl[a] /\ dest = im.dest
  BY OwnTypes
<1>2. PICK o \in Outs : o = Out(a) /\ o.impl = im /\ o.wire = batches[a]
  BY <1>1, OwnTypes
<1>3. PICK out : out = send_batch(o, a, dest)
  OBVIOUS
<1>4. Content(out.impl, out.wire, M) /\ PassesTo(a, out, o)
  BY <1>1, <1>2, <1>3, ContentBatch, BatchPasses DEF Content2
<1>5. PICK sent \in Impl, w \in Wire : sent = out.impl /\ w = out.wire
  BY <1>4 DEF PassesTo
<1>6. out = [impl |-> sent, wire |-> w]
  <2>1. \A q \in Proc : q # dest => Len(o.impl.outgoing[q]) < batch_header_number
    BY <1>1, <1>2, OwnTypes DEF Fitting
  <2>2. Fitting(o.impl)
    BY <1>1, <1>2, OwnTypes
  <2>3. Sent(out, o.impl)
    BY <1>3, <2>1, <2>2, BatchTyped
  <2> QED
    BY <1>5, <2>3 DEF Sent, Outs
<1>7. PICK all, no_new : /\ all = [out EXCEPT !.impl.no_new_messages = no_new, !.impl.dest = @ + 1]
                         /\ Sets(a, all)
  BY <1>1, <1>2, <1>3 DEF FlushTo
<1>8. /\ all.impl.outgoing = sent.outgoing /\ all.impl.processing = sent.processing
      /\ all.impl.new_batches = sent.new_batches /\ all.wire = w
  BY <1>6, <1>7 DEF Impl
<1>9. Content(all.impl, all.wire, M)
  BY <1>4, <1>5, <1>8 DEF Content
<1> QED
  BY <1>7, <1>9, ContentSets

LEMMA StepContent ==
  ASSUME GroupTypes, NEW M, NEW a \in Proc, Works(a) \/ Send(a) \/ synchronize(a),
         Adds(a, M), Content2(a, M),
         \A q \in Proc : batches[q][a] # << >> /\ pc[a] # "barrier" => batches[q][a] \in Seq(Seq(M))
  PROVE  Content(impl'[a], batches'[a], M)
<1>1. ASSUME Stays(a) PROVE Content(impl'[a], batches'[a], M)
  BY <1>1, ContentStays DEF Stays
<1>2. ASSUME NEW q \in Proc, handle_batch(a, q) PROVE Content(impl'[a], batches'[a], M)
  <2>1. batches[q][a] # << >> /\ pc[a] # "barrier"
    BY <1>2 DEF handle_batch, Polls, JustSent
  <2> QED
    BY <1>2, <2>1, BatchContent
<1>3. ASSUME NEW q \in Proc, handle_sync(a, q) PROVE Content(impl'[a], batches'[a], M)
  <2>1. Reads(a, q)
    BY <1>3, HandleSyncReads
  <2> QED
    BY <2>1 DEF Reads, Content2, Content
<1>4. ASSUME SendCount(a) PROVE Content(impl'[a], batches'[a], M)
  <2>1. Says(a)
    BY <1>4, SendCountSays
  <2> QED
    BY <2>1 DEF Says, Content2, Content
<1>5. ASSUME FlushTo(a) PROVE Content(impl'[a], batches'[a], M)
  <2>1. CASE impl[a].dest \in Proc
    BY <1>5, <2>1, FlushContent
  <2>2. CASE impl[a].dest \notin Proc
    BY <1>1, <1>5, <2>2, FlushToEnds DEF FlushEnds
  <2> QED
    BY <2>1, <2>2
<1>6. AllHere(a) \/ Flush(a) \/ EnterBarrier(a) \/ LeaveBarrier(a) \/ synchronize(a) => Stays(a)
  BY AllHereStays, FlushStays, EnterBarrierStays, LeaveBarrierStays, SynchronizeStays
<1> QED
  BY <1>1, <1>2, <1>3, <1>4, <1>5, <1>6, HandlerContent, QueuedContent, SendContent DEF Works

\* What the others have sent only gets less.
LEMMA OthersContent ==
  ASSUME GroupTypes, NEW N, NEW a \in Proc, BatchKinds(a), Others(a), NEW x \in Proc, x # a, Content2(x, N)
  PROVE  Content(impl'[x], batches'[x], N)
<1>1. impl'[x] = impl[x]
  BY DEF Others
<1>2. batches'[x] = batches[x] => Content(impl'[x], batches'[x], N)
  BY <1>1 DEF Content2
<1>3. CASE Moves(a)
  BY <1>2, <1>3 DEF Moves, Elsewhere
<1>4. ASSUME NEW q \in Proc, Takes(a, q) PROVE Content(impl'[x], batches'[x], N)
  <2>1. CASE batches' = batches
    BY <1>2, <2>1
  <2>2. CASE /\ batches[q][a] # << >>
             /\ batches' = [batches EXCEPT ![q] = [batches[q] EXCEPT ![a] = Tail(@)]]
    <3>1. CASE q # x
      BY <1>2, <2>2, <3>1 DEF GroupTypes, Types
    <3>2. CASE q = x
      <4>1. PICK w : w = batches[x] /\ w \in [Proc -> Seq(Seq(N))]
        BY DEF Content2, Content
      <4>2. Tail(w[a]) \in Seq(Seq(N))
        BY <2>2, <3>2, <4>1
      <4>3. batches'[x] = [w EXCEPT ![a] = Tail(w[a])]
        BY <2>2, <3>2, <4>1 DEF GroupTypes, Types
      <4>4. batches'[x] \in [Proc -> Seq(Seq(N))]
        BY <4>1, <4>2, <4>3
      <4> QED
        BY <1>1, <4>4 DEF Content2, Content
    <3> QED
      BY <3>1, <3>2
  <2> QED
    BY <1>4, <2>1, <2>2 DEF Takes
<1>5. CASE UNCHANGED batches
  BY <1>2, <1>5
<1> QED
  BY <1>3, <1>4, <1>5 DEF BatchKinds, Reads, Says, Stays, FlushEnds

-----------------------------------------------------------------------------
(* Handlers that send nothing: what a process tells is what it has sent.      *)

HandlersSendNothing == \A route \in Routes : Len(route) = 1

Mute == [route : {<< >>}, step : Nat]
Truthful(p) ==
  pc[p] = "send" /\ impl[p].no_new_messages =>
    \A d \in Proc : d # p /\ ~(d < impl[p].dest) => impl[p].number_sent_batches[d] = 0
Silence == \A p \in Proc : Flushing(p) /\ Truthful(p) /\ Content2(p, Mute)

LEMMA NoneLeft ==
  ASSUME NEW S, NEW w \in Seq(S), Len(w) = 0
  PROVE  w = << >>
OBVIOUS

LEMMA OneLeft ==
  ASSUME NEW S, NEW w \in Seq(S), Len(w) = 1
  PROVE  Tail(w) = << >>
<1>1. w # << >>
  OBVIOUS
<1>2. Tail(w) \in Seq(S)
  BY <1>1
<1>3. Len(Tail(w)) + 1 = 1 /\ Len(Tail(w)) \in Nat
  BY <1>1, LenLess
<1>4. Len(Tail(w)) = 0
  BY <1>3
<1> QED
  BY <1>2, <1>4, NoneLeft

LEMMA MuteAdds ==
  ASSUME HandlersSendNothing, GroupTypes, NEW a \in Proc
  PROVE  Adds(a, Mute)
<1> SUFFICES ASSUME NEW route \in Seq(Proc), route # << >>,
                    route \in Routes \/ \E m \in Mute : m.route = route
             PROVE  Message(a, route) \in Mute
  BY DEF Adds
<1>1. Len(route) = 1
  BY DEF HandlersSendNothing, Mute
<1>2. Tail(route) = << >>
  BY <1>1, OneLeft
<1>3. step[a] \in Nat
  BY OwnTypes
<1> QED
  BY <1>2, <1>3 DEF Message, Mute

LEMMA MuteHandler ==
  ASSUME GroupTypes, NEW a \in Proc, process_batch(a), Content2(a, Mute)
  PROVE  impl'[a].number_sent_batches = impl[a].number_sent_batches
<1>1. PICK queue \in Seq(Mute) : queue = impl[a].processing /\ queue # << >>
  BY DEF process_batch, Content2, Content
<1>2. Head(queue) \in Mute
  BY <1>1
<1>3. PICK m \in Mute : m = Head(queue) /\ m.route = << >>
  BY <1>2 DEF Mute
<1>4. PICK o \in Outs : o = Out(a) /\ o.impl = impl[a] /\ o.wire = batches[a]
  BY OwnTypes
<1>5. PICK rest \in Seq(Msg) : rest = Tail(impl[a].processing)
  <2>1. PICK old \in Seq(Msg) : old = impl[a].processing /\ old # << >>
    BY <1>1, OwnTypes DEF Impl
  <2>2. Tail(old) \in Seq(Msg)
    BY <2>1
  <2> QED
    BY <2>1, <2>2
<1>6. PICK y : y = [o EXCEPT !.impl.processing = rest]
  OBVIOUS
<1>7. y = [impl |-> [o.impl EXCEPT !.processing = rest], wire |-> o.wire]
  BY <1>6, NestedProcessing
<1>8. y.impl.number_sent_batches = impl[a].number_sent_batches
  BY <1>4, <1>7, OwnTypes DEF Impl
<1>9. Sets(a, y)
  BY <1>1, <1>3, <1>4, <1>5, <1>6 DEF process_batch
<1> QED
  BY <1>8, <1>9, SetsIs

LEMMA TruthfulNext ==
  ASSUME NEW a \in Proc,
         pc'[a] = "send" /\ impl'[a].no_new_messages =>
           \A d \in Proc : d # a /\ ~(d < impl'[a].dest) => impl'[a].number_sent_batches[d] = 0
  PROVE  Truthful(a)'
BY DEF Truthful

LEMMA TruthfulSame ==
  ASSUME NEW a \in Proc, Truthful(a), pc'[a] = pc[a], SameLoop(impl'[a], impl[a]),
         impl'[a].number_sent_batches = impl[a].number_sent_batches
  PROVE  Truthful(a)'
BY TruthfulNext DEF Truthful, SameLoop

\* In the loop that tells the counts nothing is handled but what came, and that sends nothing.
LEMMA BusyHandling ==
  ASSUME GroupTypes, NEW a \in Proc, Works(a) \/ Send(a) \/ synchronize(a),
         pc[a] = "send", impl[a].processing # << >>
  PROVE  process_batch(a)
BY DEF Works, Send, synchronize, ProcessQueued, handle_batch, handle_sync, Polls, JustSent, Free, SendCount,
       AllHere, Flush, FlushTo, EnterBarrier, LeaveBarrier

LEMMA StepTruthful ==
  ASSUME GroupInv, GroupTypes', NEW a \in Proc, Works(a) \/ Send(a) \/ synchronize(a), BatchKinds(a),
         Others(a), Flushing(a), Truthful(a), Content2(a, Mute)
  PROVE  Truthful(a)'
<1>1. CASE pc'[a] # "send"
  BY <1>1, TruthfulNext
<1>2. CASE Moves(a) /\ InPlace(a) /\ pc[a] = "send"
  <2>1. process_batch(a) /\ SameLoop(impl'[a], impl[a]) /\ pc'[a] = pc[a]
    BY <1>2, BusyHandling DEF Moves, InPlace, GroupInv
  <2> QED
    BY <2>1, MuteHandler, TruthfulSame DEF GroupInv
<1>3. ASSUME NEW q \in Proc, Takes(a, q), InPlace(a) PROVE Truthful(a)'
  BY <1>3, TruthfulSame DEF Takes, InPlace
<1>4. ASSUME NEW q \in Proc, Reads(a, q), Hears(a, q) PROVE Truthful(a)'
  <2>1. pc'[a] = pc[a] /\ SameLoop(impl'[a], impl[a])
    BY <1>4, OnlyOne DEF Hears, GroupInv
  <2> QED
    BY <1>4, <2>1, TruthfulSame DEF Reads
<1>5. CASE Says(a) /\ Tells(a)
  <2>1. PICK dest \in Proc : dest = impl[a].dest
    BY <1>5 DEF Says
  <2>2. /\ pc[a] = "send" /\ impl'[a].no_new_messages = impl[a].no_new_messages
        /\ impl'[a].dest = dest + 1
    BY <1>5, <2>1, OnlyOne DEF Tells, GroupInv
  <2>3. PICK old \in [Proc -> Nat] : /\ old = impl[a].number_sent_batches
                                     /\ impl'[a].number_sent_batches = [old EXCEPT ![dest] = 0]
    BY <1>5, <2>1, OwnTypes DEF Says, GroupInv, Impl
  <2>4. ASSUME NEW d \in Proc, d # a, ~(d < dest + 1), impl[a].no_new_messages
        PROVE  impl'[a].number_sent_batches[d] = 0
    <3>1. d # dest /\ ~(d < dest)
      BY <2>4, ProcIs
    <3>2. old[d] = 0
      BY <2>1, <2>2, <2>3, <2>4, <3>1 DEF Truthful
    <3> QED
      BY <2>3, <3>1, <3>2
  <2> QED
    BY <2>2, <2>4, TruthfulNext
<1>6. CASE StartsStage(a, 0, FALSE)
  <2>1. impl'[a].no_new_messages = FALSE
    BY <1>6, StartsGoes DEF GroupInv
  <2> QED
    BY <2>1, TruthfulNext
<1>7. CASE FlushEnds(a)
  <2>1. /\ pc[a] = "flush" /\ impl'[a].no_new_messages = impl[a].no_new_messages
        /\ impl'[a].number_sent_batches = impl[a].number_sent_batches
    <3>1. StartsStage(a, impl[a].stage + 1, impl[a].no_new_messages)
      BY <1>7 DEF FlushEnds
    <3> QED
      BY <1>7, <3>1, StartsGoes DEF FlushEnds, Stays, SameQueues, GroupInv
  <2>2. ASSUME NEW d \in Proc, impl[a].no_new_messages PROVE impl'[a].number_sent_batches[d] = 0
    <3>1. PICK n \in 0 .. P : n = impl[a].dest /\ n \notin Proc
      BY <1>7, OwnTypes DEF FlushEnds, GroupInv, Good
    <3>2. d < n
      BY <3>1, ProcIs
    <3>3. ~Busy(impl[a], d)
      BY <2>1, <2>2, <3>1, <3>2 DEF Flushing
    <3>4. impl[a].number_sent_batches[d] \in Nat
      BY NumbersTyped DEF GroupInv
    <3> QED
      BY <2>1, <3>3, <3>4 DEF Busy
  <2> QED
    BY <2>1, <2>2, TruthfulNext
<1>8. CASE Moves(a) /\ InPlace(a) /\ pc[a] # "send"
  BY <1>1, <1>8 DEF InPlace
<1>9. CASE Arrives(a) \/ Flushes(a) \/ EndsStage(a) \/ Leaves(a)
  <2>1. pc'[a] # "send"
    <3>1. Leaves(a) => pc'[a] = "work"
      BY OnlyOne DEF Leaves, GroupInv
    <3> QED
      BY <1>9, <3>1 DEF Arrives, Flushes, EndsStage
  <2> QED
    BY <1>1, <2>1
<1> QED
  BY <1>2, <1>3, <1>4, <1>5, <1>6, <1>7, <1>8, <1>9 DEF BatchKinds

LEMMA StepSilence ==
  ASSUME HandlersSendNothing, GroupInv, GroupTypes', Silence,
         NEW a \in Proc, Works(a) \/ Send(a) \/ synchronize(a), BatchKinds(a), Kinds(a)
  PROVE  Silence'
<1>1. Others(a)
  BY NothingElse DEF GroupInv
<1>2. ASSUME NEW q \in Proc PROVE batches[q][a] \in Seq(Seq(Mute))
  BY DEF Silence, Content2, Content
<1>3. Flushing(a)' /\ Truthful(a)'
  BY <1>1, KindFlushing, StepTruthful DEF Silence
<1>4. Content(impl'[a], batches'[a], Mute)
  BY <1>2, MuteAdds, StepContent DEF Silence, GroupInv
<1>5. ASSUME NEW x \in Proc, x # a PROVE /\ Flushing(x)' /\ Truthful(x)'
                                         /\ Content(impl'[x], batches'[x], Mute)
  <2>1. Flushing(x)' /\ Truthful(x)'
    BY <1>1, <1>5 DEF Silence, Others, Flushing, Idle, Busy, Truthful
  <2>2. Content(impl'[x], batches'[x], Mute)
    BY <1>1, <1>5, OthersContent DEF Silence, GroupInv
  <2> QED
    BY <2>1, <2>2
<1>6. \A x \in Proc : Content2(x, Mute)'
  BY <1>4, <1>5 DEF Content2, Content, QueueOf
<1> QED
  BY <1>3, <1>5, <1>6 DEF Silence

LEMMA InitSilence == ProcessGroupInit => Silence
<1> SUFFICES ASSUME ProcessGroupInit, NEW p \in Proc
             PROVE  Flushing(p) /\ Truthful(p) /\ Content2(p, Mute)
  BY DEF Silence
<1>1. Flushing(p) /\ Truthful(p)
  BY DEF ProcessGroupInit, Flushing, Truthful
<1>2. /\ impl[p].outgoing = Nobody /\ impl[p].processing = << >> /\ impl[p].new_batches = << >>
      /\ batches[p] = Nobody
  BY DEF ProcessGroupInit, Impl0
<1>3. << >> \in Seq(Mute) /\ << >> \in Seq(Seq(Mute)) /\ Len(<< >>) = 0
  OBVIOUS
<1>4. Nobody \in [Proc -> Seq(Mute)] /\ Nobody \in [Proc -> Seq(Seq(Mute))]
  BY <1>3 DEF Nobody
<1>5. QueueOf(<< >>, Mute)
  BY <1>3 DEF QueueOf
<1> QED
  BY <1>1, <1>2, <1>3, <1>4, <1>5 DEF Content2, Content

LEMMA NextSilence ==
  ASSUME HandlersSendNothing
  PROVE  GroupInv /\ Silence /\ [ProcessGroupNext]_group_vars => Silence'
<1> SUFFICES ASSUME GroupInv, Silence, [ProcessGroupNext]_group_vars PROVE Silence'
  OBVIOUS
<1>1. ASSUME NEW p \in Proc, Works(p) \/ Send(p) \/ synchronize(p) PROVE Silence'
  <2>1. GroupTypes' /\ Kinds(p) /\ BatchKinds(p)
    BY <1>1, KindOfStep, BatchKindOfStep DEF GroupInv, Alone
  <2> QED
    BY <1>1, <2>1, StepSilence
<1>2. CASE UNCHANGED group_vars
  BY <1>2 DEF group_vars, Silence, Flushing, Idle, Busy, Truthful, Content2, Content, QueueOf
<1> QED
  BY <1>1, <1>2 DEF ProcessGroupNext, Done

LEMMA SilenceTells == GroupInv /\ Silence => TellsTruth
<1> SUFFICES ASSUME GroupInv, Silence, NEW p \in Proc, pc[p] = "send", impl[p].no_new_messages,
                    impl[p].dest # p
             PROVE  impl[p].number_sent_batches[impl[p].dest] = 0
  BY DEF TellsTruth
<1>1. PICK dest \in Proc : dest = impl[p].dest
  BY OwnTypes DEF GroupInv, Good
<1>2. Truthful(p) /\ ~(dest < dest)
  BY ProcIs DEF Silence
<1> QED
  BY <1>1, <1>2 DEF Truthful

\* Where handlers send nothing, each process tells the others what it has sent, so that the
\* assertions at the end of synchronize hold: for any number of processes, whatever the program
\* sends and however large a batch is.
THEOREM CountsMatchSilent ==
  ASSUME HandlersSendNothing
  PROVE  ProcessGroupSpec => []CountsMatch
<1>1. ProcessGroupInit => GroupInv /\ Quietness /\ Silence
  BY InitInv, InitQuiet, InitSilence
<1>2. GroupInv /\ Quietness /\ Silence /\ [ProcessGroupNext]_group_vars
        => (GroupInv /\ Quietness /\ Silence)'
  BY NextInv, NextQuiet, NextSilence, SilenceTells
<1> QED
  BY <1>1, <1>2, EndsMatch, PTL DEF ProcessGroupSpec

-----------------------------------------------------------------------------
(* The messages of a superstep are handled in it.                             *)

Of(k) == {m \in Msg : m.step = k}
InStep == \A p \in Proc : Content2(p, Of(step[p]))

\* A message that p has still to handle, wherever it is.
WaitsFor(m, p) ==
  \/ \E i \in 1 .. Len(impl[p].processing) : m = impl[p].processing[i]
  \/ \E i \in 1 .. Len(impl[p].new_batches) :
       \E j \in 1 .. Len(impl[p].new_batches[i].messages) : m = impl[p].new_batches[i].messages[j]
  \/ \E q \in Proc : \E i \in 1 .. Len(impl[q].outgoing[p]) : m = impl[q].outgoing[p][i]
  \/ \E q \in Proc : \E i \in 1 .. Len(batches[q][p]) :
       \E j \in 1 .. Len(batches[q][p][i]) : m = batches[q][p][i][j]
HandledInTime == \A p, q \in Proc, m \in Msg : WaitsFor(m, p) => step[q] <= m.step

LEMMA StepAdds ==
  ASSUME GroupTypes, NEW a \in Proc
  PROVE  Adds(a, Of(step[a]))
<1> SUFFICES ASSUME NEW route \in Seq(Proc), route # << >> PROVE Message(a, route) \in Of(step[a])
  BY DEF Adds
<1>1. Tail(route) \in Seq(Proc) /\ step[a] \in Nat
  BY OwnTypes
<1> QED
  BY <1>1 DEF Message, Of, Msg

\* Who is at the end of a superstep when all the others are, or are ahead, has sent nothing
\* that is not received.
LEMMA NothingSent ==
  ASSUME GroupInv, NEW said, AllQuiet(said), NEW a \in Proc, pc[a] = "barrier",
         \A q \in Proc : pc[q] = "barrier" \/ step[q] > step[a], NEW q \in Proc
  PROVE  batches[a][q] = << >>
<1>1. CASE q = a
  BY <1>1 DEF AllQuiet, Conserved, OwnBalance
<1>2. CASE step[q] > step[a]
  <2>1. step[q] = step[a] + 1
    BY <1>2 DEF GroupInv, Between, Ahead
  <2> QED
    BY <2>1 DEF AllQuiet, QuietAt, Left
<1>3. CASE q # a /\ pc[q] = "barrier" /\ ~(step[q] > step[a])
  <2>1. CASE step[q] = step[a]
    BY <1>3, <2>1, NothingBetween
  <2>2. CASE step[a] > step[q]
    <3>1. step[a] = step[q] + 1
      BY <2>2 DEF GroupInv, Between, Ahead
    <3>2. Seen(a, q) = -1
      BY <1>3, <3>1 DEF GroupInv, Between, Channel
    <3>3. PICK n \in Nat : n = impl[a].stage /\ Seen(a, q) >= n
      BY OwnTypes DEF GroupInv, Good, OwnStage, Alone, AllIn, Seen
    <3> QED
      BY <3>2, <3>3
  <2>3. step[q] \in Nat /\ step[a] \in Nat
    BY SeenTyped DEF GroupInv
  <2> QED
    BY <1>3, <2>1, <2>2, <2>3
<1> QED
  BY <1>1, <1>2, <1>3

LEMMA LeavesEmpty ==
  ASSUME GroupInv, NEW said, AllQuiet(said), NEW M, NEW a \in Proc, Leaves(a), Stays(a)
  PROVE  Content(impl'[a], batches'[a], M)
<1>1. Clean(impl[a])
  BY DEF Leaves, AllQuiet, QuietAt, AtEnd
<1>2. \A q \in Proc : batches[a][q] = << >>
  BY NothingSent DEF Leaves
<1>3. << >> \in Seq(M) /\ << >> \in Seq(Seq(M)) /\ Len(<< >>) = 0
  OBVIOUS
<1>4. impl[a].outgoing \in [Proc -> Seq(M)]
  <2>1. PICK out \in [Proc -> Seq(Msg)] : out = impl[a].outgoing /\ \A q \in Proc : out[q] = << >>
    BY <1>1, OwnTypes DEF GroupInv, Impl, Clean, Busy
  <2>2. out \in [Proc -> Seq(M)]
    BY <1>3, <2>1
  <2> QED
    BY <2>1, <2>2
<1>5. batches[a] \in [Proc -> Seq(Seq(M))]
  <2>1. PICK w \in [Proc -> Seq(Seq(Msg))] : w = batches[a] /\ \A q \in Proc : w[q] = << >>
    BY <1>2, OwnTypes DEF GroupInv, Wire
  <2>2. w \in [Proc -> Seq(Seq(M))]
    BY <1>3, <2>1
  <2> QED
    BY <2>1, <2>2
<1>6. impl[a].processing = << >> /\ impl[a].new_batches = << >>
  BY <1>1 DEF Clean, Idle
<1>7. QueueOf(<< >>, M)
  BY <1>3 DEF QueueOf
<1> QED
  BY <1>3, <1>4, <1>5, <1>6, <1>7 DEF Content, Stays, SameQueues

LEMMA StepInStep ==
  ASSUME GroupInv, GroupTypes', NEW said, AllQuiet(said), InStep,
         NEW a \in Proc, Works(a) \/ Send(a) \/ synchronize(a), BatchKinds(a), Kinds(a)
  PROVE  InStep'
<1>1. Others(a) /\ Goes(a)
  BY NothingElse, KindGoes DEF GroupInv
<1>2. Content(impl'[a], batches'[a], Of(step'[a]))
  <2>1. CASE step'[a] = step[a]
    <3>1. ASSUME NEW q \in Proc, batches[q][a] # << >>, pc[a] # "barrier"
          PROVE  batches[q][a] \in Seq(Seq(Of(step[a])))
      <4>1. step[q] = step[a]
        BY <3>1, TakesOwnStep
      <4> QED
        BY <4>1 DEF InStep, Content2, Content
    <3>2. Content(impl'[a], batches'[a], Of(step[a]))
      BY <3>1, StepAdds, StepContent DEF InStep, GroupInv
    <3> QED
      BY <2>1, <3>2
  <2>2. CASE step'[a] # step[a]
    <3>1. Leaves(a) /\ Stays(a)
      <4>1. \A q \in Proc : ~Hears(a, q)
        BY <2>2 DEF Hears
      <4>2. ~Tells(a) /\ ~InPlace(a) /\ ~GoesOn(a)
        BY <2>2 DEF Tells, InPlace, GoesOn
      <4>3. ~FlushEnds(a) /\ ~StartsStage(a, 0, FALSE)
        BY <2>2 DEF FlushEnds, StartsStage
      <4> QED
        BY <4>1, <4>2, <4>3 DEF BatchKinds
    <3> QED
      BY <3>1, LeavesEmpty
  <2> QED
    BY <2>1, <2>2
<1>3. ASSUME NEW x \in Proc, x # a PROVE Content(impl'[x], batches'[x], Of(step'[x]))
  <2>1. step'[x] = step[x]
    BY <1>1, <1>3 DEF Others
  <2>2. Content(impl'[x], batches'[x], Of(step[x]))
    BY <1>1, <1>3, OthersContent DEF InStep, GroupInv
  <2> QED
    BY <2>1, <2>2
<1> QED
  BY <1>2, <1>3 DEF InStep, Content2, Content, QueueOf, Of

LEMMA InitInStep == ProcessGroupInit => InStep
<1> SUFFICES ASSUME ProcessGroupInit, NEW p \in Proc, NEW M PROVE Content2(p, M)
  BY DEF InStep
<1>1. /\ impl[p].outgoing = Nobody /\ impl[p].processing = << >> /\ impl[p].new_batches = << >>
      /\ batches[p] = Nobody
  BY DEF ProcessGroupInit, Impl0
<1>2. << >> \in Seq(M) /\ << >> \in Seq(Seq(M)) /\ Len(<< >>) = 0
  OBVIOUS
<1>3. Nobody \in [Proc -> Seq(M)] /\ Nobody \in [Proc -> Seq(Seq(M))]
  BY <1>2 DEF Nobody
<1>4. QueueOf(<< >>, M)
  BY <1>2 DEF QueueOf
<1> QED
  BY <1>1, <1>2, <1>3, <1>4 DEF Content2, Content

LEMMA NextInStep == GroupInv /\ Quietness /\ InStep /\ [ProcessGroupNext]_group_vars => InStep'
<1> SUFFICES ASSUME GroupInv, NEW said \in History, AllQuiet(said), InStep, [ProcessGroupNext]_group_vars
             PROVE  InStep'
  BY DEF Quietness
<1>1. ASSUME NEW p \in Proc, Works(p) \/ Send(p) \/ synchronize(p) PROVE InStep'
  <2>1. GroupTypes' /\ Kinds(p) /\ BatchKinds(p)
    BY <1>1, KindOfStep, BatchKindOfStep DEF GroupInv, Alone
  <2> QED
    BY <1>1, <2>1, StepInStep
<1>2. CASE UNCHANGED group_vars
  BY <1>2 DEF group_vars, InStep, Content2, Content, QueueOf, Of
<1> QED
  BY <1>1, <1>2 DEF ProcessGroupNext, Done

\* Who holds something, or has sent what is not received, is behind nobody.
LEMMA NobodyAhead ==
  ASSUME GroupInv, NEW said, AllQuiet(said), NEW r \in Proc, NEW p \in Proc,
         \/ impl[r].processing # << >> \/ impl[r].new_batches # << >>
         \/ impl[r].outgoing[p] # << >> \/ batches[r][p] # << >>,
         NEW q \in Proc
  PROVE  step[q] <= step[r]
<1>1. step[q] \in Nat /\ step[r] \in Nat
  BY SeenTyped DEF GroupInv
<1> SUFFICES ASSUME step[q] > step[r] PROVE FALSE
  BY <1>1
<1>2. pc[r] = "barrier" /\ step[q] = step[r] + 1
  BY DEF GroupInv, Between, Ahead
<1>3. Clean(impl[r])
  BY <1>2 DEF AllQuiet, QuietAt, AtEnd
<1>4. ASSUME NEW x \in Proc PROVE pc[x] = "barrier" \/ step[x] > step[r]
  <2>1. step[x] \in Nat
    BY SeenTyped DEF GroupInv
  <2>2. CASE step[q] > step[x]
    BY <2>2 DEF GroupInv, Between, Ahead
  <2>3. CASE ~(step[q] > step[x])
    BY <1>1, <1>2, <2>1, <2>3
  <2> QED
    BY <2>2, <2>3
<1>5. batches[r][p] = << >>
  BY <1>2, <1>4, NothingSent
<1> QED
  BY <1>3, <1>5 DEF Clean, Idle, Busy

LEMMA InStepInTime == GroupInv /\ Quietness /\ InStep => HandledInTime
<1> SUFFICES ASSUME GroupInv, NEW said, AllQuiet(said), InStep,
                    NEW p \in Proc, NEW q \in Proc, NEW m \in Msg, WaitsFor(m, p)
             PROVE  step[q] <= m.step
  BY DEF Quietness, HandledInTime
<1>1. ASSUME NEW r \in Proc,
             \/ impl[r].processing # << >> \/ impl[r].new_batches # << >>
             \/ impl[r].outgoing[p] # << >> \/ batches[r][p] # << >>,
             m \in Of(step[r])
      PROVE  step[q] <= m.step
  BY <1>1, NobodyAhead DEF Of
<1>2. ASSUME NEW i \in 1 .. Len(impl[p].processing), m = impl[p].processing[i]
      PROVE  step[q] <= m.step
  <2>1. PICK queue \in Seq(Of(step[p])) : queue = impl[p].processing
    BY DEF InStep, Content2, Content
  <2>2. m \in Of(step[p]) /\ queue # << >>
    BY <1>2, <2>1, Slots
  <2> QED
    BY <1>1, <2>1, <2>2
<1>3. ASSUME NEW i \in 1 .. Len(impl[p].new_batches),
             NEW j \in 1 .. Len(impl[p].new_batches[i].messages), m = impl[p].new_batches[i].messages[j]
      PROVE  step[q] <= m.step
  <2>1. PICK queue \in Seq(Of(step[p])) : queue = impl[p].new_batches[i].messages
    BY DEF InStep, Content2, Content, QueueOf
  <2>2. m \in Of(step[p])
    BY <1>3, <2>1, Slots
  <2>3. impl[p].new_batches # << >>
    BY <1>3
  <2> QED
    BY <1>1, <2>2, <2>3
<1>4. ASSUME NEW r \in Proc, NEW i \in 1 .. Len(impl[r].outgoing[p]), m = impl[r].outgoing[p][i]
      PROVE  step[q] <= m.step
  <2>1. PICK queue \in Seq(Of(step[r])) : queue = impl[r].outgoing[p]
    BY DEF InStep, Content2, Content
  <2>2. m \in Of(step[r]) /\ queue # << >>
    BY <1>4, <2>1, Slots
  <2> QED
    BY <1>1, <2>1, <2>2
<1>5. ASSUME NEW r \in Proc, NEW i \in 1 .. Len(batches[r][p]), NEW j \in 1 .. Len(batches[r][p][i]),
             m = batches[r][p][i][j]
      PROVE  step[q] <= m.step
  <2>1. PICK wire \in Seq(Seq(Of(step[r]))) : wire = batches[r][p]
    BY DEF InStep, Content2, Content
  <2>2. PICK queue \in Seq(Of(step[r])) : queue = wire[i] /\ wire # << >>
    BY <1>5, <2>1, Slots
  <2>3. m \in Of(step[r])
    BY <1>5, <2>1, <2>2, Slots
  <2> QED
    BY <1>1, <2>1, <2>2, <2>3
<1> QED
  BY <1>2, <1>3, <1>4, <1>5 DEF WaitsFor

\* What the documentation promises of synchronize, for any number of processes: nobody has
\* left the superstep of a message that a process still holds, or that is still on its way.
THEOREM MessagesInTime == ProcessGroupSpec /\ []TellsTruth => []HandledInTime
<1>1. ProcessGroupInit => GroupInv /\ Quietness /\ InStep
  BY InitInv, InitQuiet, InitInStep
<1>2. GroupInv /\ Quietness /\ InStep /\ TellsTruth /\ [ProcessGroupNext]_group_vars
        => (GroupInv /\ Quietness /\ InStep)'
  BY NextInv, NextQuiet, NextInStep
<1> QED
  BY <1>1, <1>2, InStepInTime, PTL DEF ProcessGroupSpec

\* Unconditionally, where handlers send nothing.
THEOREM MessagesInTimeSilent ==
  ASSUME HandlersSendNothing
  PROVE  ProcessGroupSpec => []HandledInTime
<1>1. ProcessGroupInit => GroupInv /\ Quietness /\ Silence /\ InStep
  BY InitInv, InitQuiet, InitSilence, InitInStep
<1>2. GroupInv /\ Quietness /\ Silence /\ InStep /\ [ProcessGroupNext]_group_vars
        => (GroupInv /\ Quietness /\ Silence /\ InStep)'
  BY NextInv, NextQuiet, NextSilence, NextInStep, SilenceTells
<1> QED
  BY <1>1, <1>2, InStepInTime, PTL DEF ProcessGroupSpec
=============================================================================
