---------------------------- MODULE LineChannel ----------------------------
(* What both ends of a connection rely on: lines are handled whole, once,  *)
(* in the order they were sent, and each of them is handled, unless the    *)
(* reader is one that decodes chunks and gives the connection up.          *)
EXTENDS Sequences

CONSTANT Line

VARIABLES reader,    \* "server" or "dashboard"; never changes
          queue,     \* lines sent and not yet handled
          handled,   \* lines handled so far
          broken     \* the reader has given up

vars == <<reader, queue, handled, broken>>

Init == queue = << >> /\ handled = << >> /\ broken = FALSE

Send ==
  /\ ~broken
  /\ \E line \in Line : queue' = Append(queue, line)
  /\ UNCHANGED <<reader, handled, broken>>

Handle ==
  /\ queue # << >>
  /\ handled' = Append(handled, Head(queue))
  /\ queue' = Tail(queue)
  /\ UNCHANGED <<reader, broken>>

(* Whatever was not handled is lost.                                       *)
Break ==
  /\ reader = "dashboard" /\ ~broken
  /\ broken' = TRUE
  /\ queue' = << >>
  /\ UNCHANGED <<reader, handled>>

Safe == Init /\ [][Send \/ Handle \/ Break]_vars

Fairness == WF_vars(Handle)

Spec == Safe /\ Fairness
=============================================================================
