-------------------------- MODULE MCInboxConsumer --------------------------
(* A small instance of InboxConsumer: one message, up to three workers.    *)
EXTENDS InboxConsumer

CONSTANTS m1, w1, w2, w3
=============================================================================
