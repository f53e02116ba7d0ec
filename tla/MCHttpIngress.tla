---------------------------- MODULE MCHttpIngress ----------------------------
(* A small instance of HttpIngress: two request slots shared by two devices. *)
EXTENDS HttpIngress
=============================================================================
