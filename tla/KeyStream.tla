----------------------------- MODULE KeyStream -----------------------------
(***************************************************************************)
(* What the keyboard path promises to the kernel: the bytes a keyboard     *)
(* sends are read one by one, each once and in order.                      *)
(***************************************************************************)
EXTENDS Sequences

CONSTANT Bytes

VARIABLES
  unread,       \* what has been sent and not been read
  last          \* the byte read last

Init == unread = <<>> /\ last \notin Bytes

Send(s) == unread' = Append(unread, s) /\ UNCHANGED last

Read ==
  /\ unread # <<>>
  /\ last' = Head(unread)
  /\ unread' = Tail(unread)

Next == Read \/ \E s \in Bytes : Send(s)

Spec == Init /\ [][Next]_<<unread, last>>
=============================================================================
