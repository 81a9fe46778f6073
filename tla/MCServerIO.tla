----------------------------- MODULE MCServerIO -----------------------------
(* A small I/O layer for TLC. *)
EXTENDS ServerIO

Quiet == [ commands |-> {}, reports |-> {}, cursor |-> 0, pages |-> 0, answers |-> 0,
           breaks |-> 0, ticks |-> 0, start |-> 0 ]

\* Two commands; two reports, with a stale cursor or not; a command and a report while a
\* page is fetched; long answers; ids that wrap around; timeouts, with a tick counter that
\* wraps around or not.
MCLoads ==
  { [Quiet EXCEPT !.commands = {"c1", "c2"}, !.breaks = 1],
    [Quiet EXCEPT !.commands = {"c1"}, !.reports = {"r1"}, !.pages = 1],
    [Quiet EXCEPT !.pages = 2, !.answers = 3, !.breaks = 1],
    [Quiet EXCEPT !.pages = 4] }
  \cup { [Quiet EXCEPT !.reports = {"r1", "r2"}, !.cursor = k, !.breaks = 2] : k \in 0 .. 3 }
  \cup { [Quiet EXCEPT !.pages = 2, !.ticks = 4, !.start = t] : t \in {0, 6} }
=============================================================================
