-------------------------- MODULE MCRatchetChannel --------------------------
(* RatchetChannel on a small instance. *)
EXTENDS RatchetChannel
=============================================================================
