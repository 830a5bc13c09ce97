---------------------------- MODULE FrameChannel ----------------------------
(***************************************************************************)
(* What the delivery pump promises of each connection: a socket.  Frames   *)
(* arrive complete, once and in the order they were written.               *)
(***************************************************************************)
EXTENDS Integers, Sequences

CONSTANT Conns

VARIABLES
  wire,       \* wire[c]: the frames in flight on c, oldest first
  written,    \* written[c]: frames written to c
  arrived     \* arrived[c]: frames that arrived

vars == <<wire, written, arrived>>

Init ==
  /\ wire = [c \in Conns |-> <<>>]
  /\ written = [c \in Conns |-> 0]
  /\ arrived = [c \in Conns |-> 0]

Write(c) ==
  /\ written' = [written EXCEPT ![c] = @ + 1]
  /\ wire' = [wire EXCEPT ![c] = Append(@, written[c] + 1)]
  /\ UNCHANGED arrived

Arrive(c) ==
  /\ wire[c] # <<>>
  /\ Head(wire[c]) = arrived[c] + 1
  /\ wire' = [wire EXCEPT ![c] = Tail(@)]
  /\ arrived' = [arrived EXCEPT ![c] = @ + 1]
  /\ UNCHANGED written

Next == \E c \in Conns : Write(c) \/ Arrive(c)

Safe == Init /\ [][Next]_vars

=============================================================================
