-------------------------------- MODULE Fifo --------------------------------
(***************************************************************************)
(* What one message queue of the driver promises, whatever its ring looks  *)
(* like: messages come out once and in the order they were accepted, none  *)
(* is lost, for as long as nobody asked an empty queue for a message.      *)
(* Asking an empty queue succeeds and hands out a value that is no message *)
(* of this queue; from then on the queue is "wedged" and accepts nothing   *)
(* until it is released and obtained again.                                *)
(***************************************************************************)
EXTENDS Integers, Sequences

CONSTANTS
  Capacity,   \* messages a queue holds
  Msgs,       \* messages that can be posted
  Junk        \* content of memory nobody wrote

VARIABLES
  open,     \* the queue is registered
  buf,      \* messages accepted and not yet taken, oldest first
  wedged,   \* an empty queue was read
  out,      \* the value handed out last
  ret       \* the value returned last: 0 or a negative error

fifoVars == <<open, buf, wedged, out, ret>>

Init ==
  /\ open = TRUE
  /\ buf = << >>
  /\ wedged = FALSE
  /\ out = Junk
  /\ ret = 0

Open ==
  /\ ~open
  /\ open' = TRUE
  /\ buf' = << >>
  /\ wedged' = FALSE
  /\ UNCHANGED <<out, ret>>

Close ==
  /\ open
  /\ open' = FALSE
  /\ UNCHANGED <<buf, wedged, out, ret>>

Put(m) ==
  /\ open
  /\ ~wedged
  /\ Len(buf) < Capacity
  /\ buf' = Append(buf, m)
  /\ ret' = 0
  /\ UNCHANGED <<open, wedged, out>>

Refuse ==
  /\ open
  /\ wedged \/ Len(buf) = Capacity
  /\ ret' = -1
  /\ UNCHANGED <<open, buf, wedged, out>>

Take ==
  /\ buf # << >>
  /\ out' = Head(buf)
  /\ buf' = Tail(buf)
  /\ ret' = 0
  /\ UNCHANGED <<open, wedged>>

(* The last message of a queue is not handed out on its own.               *)
Miss ==
  /\ wedged \/ Len(buf) = 1
  /\ ret' = -1
  /\ UNCHANGED <<open, buf, wedged, out>>

(* An empty queue is read: the caller is told it got a message.            *)
Phantom ==
  /\ buf = << >>
  /\ out' \in Msgs \cup {Junk}
  /\ wedged' = TRUE
  /\ ret' = 0
  /\ UNCHANGED <<open, buf>>

Next ==
  \/ Open
  \/ Close
  \/ \E m \in Msgs : Put(m)
  \/ Refuse
  \/ Take
  \/ Miss
  \/ Phantom

Spec == Init /\ [][Next]_fifoVars

=============================================================================
