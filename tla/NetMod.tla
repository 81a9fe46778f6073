------------------------------- MODULE NetMod -------------------------------
(***************************************************************************)
(* net_mod.cc: the sockets of the crawl server.  `net' is what net_mod     *)
(* keeps (the descriptors in use, its two descriptor sets, max_socket),    *)
(* `wire' is the TCP connection behind each descriptor, `now' the tick     *)
(* counter that times() returns, a signed integer of 2 * HalfRange values. *)
(*                                                                         *)
(* Data travels in pieces.  A peer may be slow, close, or break the        *)
(* connection at any time; a write takes any part of what it is given.     *)
(***************************************************************************)
EXTENDS Integers, Sequences, FiniteSets, FiniteSetsExt

CONSTANTS
  MaxFD,        \* the largest descriptor the process may open
  HalfRange     \* 2^31: ticks are in -HalfRange .. HalfRange - 1

ASSUME NetAssumption == MaxFD \in Nat \ {0} /\ HalfRange \in Nat \ {0}

VARIABLES net, wire, now

FD == 1 .. MaxFD
None == 0           \* no descriptor (-1 in the code)

-----------------------------------------------------------------------------
(* Descriptor sets.  (Operators whose names end in a word after an underscore, like *)
(* suspend_NoSearch, are plausible mistakes: PROJECT.json pairs each with the       *)
(* property that must catch it.)                                                    *)

set_read(n, sd) ==
  [n EXCEPT !.readfds = @ \cup {sd}, !.writefds = @ \ {sd},
            !.max_socket = IF @ < sd THEN sd ELSE @]

set_write(n, sd) ==
  [n EXCEPT !.writefds = @ \cup {sd}, !.readfds = @ \ {sd},
            !.max_socket = IF @ < sd THEN sd ELSE @]

\* The sets lose sd; max_socket falls to the largest descriptor that is left.
suspend_NoSearch(n, sd) ==
  [n EXCEPT !.readfds = @ \ {sd}, !.writefds = @ \ {sd},
            !.max_socket = IF @ = sd THEN -1 ELSE @]

suspend(n, sd) ==
  LET kept == (n.readfds \cup n.writefds) \ {sd}
  IN [n EXCEPT !.readfds = @ \ {sd}, !.writefds = @ \ {sd},
               !.max_socket = IF @ = sd THEN Max(kept \cup {-1}) ELSE @]

close(n, sd) == [suspend(n, sd) EXCEPT !.open = @ \ {sd}]
close_write(n, sd) == [n EXCEPT !.writefds = @ \ {sd}]

\* The kernel hands out the lowest descriptor that is not in use.
CanOpen(n) == FD \ n.open # {}
NewFD(n) == Min(FD \ n.open)

Opened(n, sd) == [n EXCEPT !.open = @ \cup {sd}]
accept(n) == set_read(Opened(n, NewFD(n)), NewFD(n))
connect(n) == set_write(Opened(n, NewFD(n)), NewFD(n))

-----------------------------------------------------------------------------
(* Connections *)

Closed == [state |-> "closed", to |-> "nobody", unread |-> << >>, fin |-> FALSE, shut |-> FALSE,
           sent |-> 0, ticket |-> 0]
Fresh(state, peer) == [Closed EXCEPT !.state = state, !.to = peer]

\* poll(0) and FD_ISSET: select looks at no descriptor above max_socket.
ready(n, sd) ==
  /\ sd <= n.max_socket
  /\ \/ /\ sd \in n.readfds
        /\ (wire[sd].unread # << >> \/ wire[sd].fin \/ wire[sd].state = "broken")
     \/ sd \in n.writefds /\ wire[sd].state \in {"up", "broken"}

\* What read may return: pieces, nothing more to come, or an error.
ReadBroken(sd) == wire[sd].state = "broken"
ReadEof(sd) == wire[sd].state # "broken" /\ wire[sd].fin /\ wire[sd].unread = << >>
ReadSizes(sd, space) ==
  IF wire[sd].state = "broken" THEN {} ELSE 1 .. Min({Len(wire[sd].unread), space})
Received(sd, k) == SubSeq(wire[sd].unread, 1, k)
AfterRead(sd, k) ==
  [wire EXCEPT ![sd].unread = SubSeq(@, k + 1, Len(@))]

WriteBroken(sd) == wire[sd].state = "broken"
AfterWrite(sd, k) == [wire EXCEPT ![sd].sent = @ + k]

\* net_mod::read and net_mod::write assert that the descriptor is in their set.
MayRead(sd) == sd \in net.readfds /\ sd <= net.max_socket
MayWrite(sd) == sd \in net.writefds /\ sd <= net.max_socket

NetInit(main_sd) ==
  /\ net = set_read([open |-> {main_sd}, readfds |-> {}, writefds |-> {}, max_socket |-> -1],
                    main_sd)
  /\ wire = [sd \in FD |-> IF sd = main_sd THEN Fresh("up", "listen") ELSE Closed]

\* What may happen to a connection at any time.
ConnectionUp(sd) ==
  /\ wire[sd].state = "connecting"
  /\ wire' = [wire EXCEPT ![sd].state = "up"]
  /\ UNCHANGED net
ConnectionBreaks(sd) ==
  /\ wire[sd].state \in {"connecting", "up"} /\ wire[sd].to # "listen"
  /\ wire' = [wire EXCEPT ![sd].state = "broken"]
  /\ UNCHANGED net

-----------------------------------------------------------------------------
(* Ticks: the int arithmetic of get_time, time_diff and time_add *)

Ticks == -HalfRange .. HalfRange - 1
Wrap(t) == ((t + HalfRange) % (2 * HalfRange)) - HalfRange
get_time(diff) == Wrap(now + diff)
time_diff(time1, time2) == Wrap(time1 - time2)

NetTypeOK ==
  /\ net.open \subseteq FD /\ net.readfds \subseteq FD /\ net.writefds \subseteq FD
  /\ net.max_socket \in {-1} \cup FD
  /\ DOMAIN wire = FD
  /\ now \in Ticks
=============================================================================
