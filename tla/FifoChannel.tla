----------------------------- MODULE FifoChannel -----------------------------
(***************************************************************************)
(* What a message queue of a virtual connection promises to the            *)
(* application that sends through it: a message that has been accepted is  *)
(* handed to the network at most once, and messages are handed over in the *)
(* order they were accepted.  Nothing is said of whether or when a pending *)
(* message is handed over.                                                 *)
(*                                                                         *)
(* MessageQueue (internal/peer/virtual_connection.go) is shown to          *)
(* implement this specification.                                           *)
(***************************************************************************)
EXTENDS Sequences

CONSTANT Messages

VARIABLES pending,  \* accepted and not yet handed to the network, oldest first
          out       \* handed to the network, oldest first

vars == <<pending, out>>

Init == /\ pending = <<>>
        /\ out = <<>>

\* The application's message is accepted.
Accept(m) == /\ pending' = Append(pending, m)
             /\ UNCHANGED out

\* The oldest pending message is handed to the network.
Transmit == /\ pending # <<>>
            /\ out' = Append(out, Head(pending))
            /\ pending' = Tail(pending)

Next == (\E m \in Messages : Accept(m)) \/ Transmit

Spec == Init /\ [][Next]_vars
==============================================================================
