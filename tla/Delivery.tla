------------------------------ MODULE Delivery ------------------------------
(***************************************************************************)
(* What an ack tells the page that asked for one: the client and its       *)
(* server (Client) with the queue that the server puts the messages of     *)
(* send in (FifoChannel, which MessageQueue implements).  All messages are *)
(* for one remote peer and protocol, hence for one queue.                  *)
(*                                                                         *)
(* handleSend puts the message into the queue and acks it before it        *)
(* returns; the queue's processor hands it to the network at some other    *)
(* time.                                                                   *)
(***************************************************************************)
EXTENDS Client

VARIABLES
  queued,  \* the sends in the queue, oldest first
  handed   \* the sends handed to the network, oldest first

SendQueue == INSTANCE FifoChannel WITH Messages <- Ids, pending <- queued, out <- handed

DeliveryInit == Init /\ SendQueue!Init

\* SendToQueue and the rest of the step are one: the ack follows in SendMessage.
Queues == \E i \in accepted' \ accepted : SendQueue!Accept(i)

ClientStep ==
  /\ Next
  /\ IF accepted' = accepted THEN UNCHANGED <<queued, handed>> ELSE Queues

Transmit == SendQueue!Transmit /\ UNCHANGED vars

DeliveryNext == ClientStep \/ Transmit

DeliverySpec == DeliveryInit /\ [][DeliveryNext]_<<vars, queued, handed>>

-----------------------------------------------------------------------------
(* Properties                                                              *)

\* The documents call an ack the confirmation that the message was delivered (client.ts:103,
\* README.md:179-182, README.md:253).  Then the message has at least been handed to the
\* network when its onAck callback runs.  It need not have: handleSend acks what the queue
\* has accepted (handler.go:120), however long the peer cannot be reached.
AckedWasDelivered ==
  \A r \in running : r.msg.type = "ack" => \E k \in DOMAIN handed : handed[k] = r.msg.id
=============================================================================
