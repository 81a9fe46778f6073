---------------------------- MODULE MCProcessGroup ----------------------------
(* Values of the constants that a configuration cannot state.               *)
EXTENDS ProcessGroup

Two == 0 .. 1

\* Messages to another process, to oneself, and with an answer.
Answers == {<<1>>, <<1, 0>>, <<0, 1>>}
Three == 0 .. 2
\* A handler that passes a message on, past the first process that gets a count.
Relays == {<<0, 2>>}
=============================================================================
