---------------------------- MODULE MCClientSession ----------------------------
(* Two writes; one thread is enough for the user and asio, beside the       *)
(* deleter.                                                                *)
EXTENDS ClientSession
=============================================================================
