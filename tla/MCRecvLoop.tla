----------------------------- MODULE MCRecvLoop -----------------------------
(***************************************************************************)
(* RecvLoop for TLC: a message of two bytes read through a buffer of two;  *)
(* a Template Provider that answers a message with two or three bytes,     *)
(* written in fragments, up to five bytes on a connection, so that an      *)
(* answer arrives whole, in fragments, or with a byte of the next message  *)
(* behind it, and the answer to a receiveMessage follows that of the       *)
(* handshake; a clock that leaves time for two calls to run into their     *)
(* timeout; two testers, one built after the other is gone, as in the      *)
(* lifecycle test.                                                         *)
(***************************************************************************)
EXTENDS TPTester

=============================================================================
