--------------------------- MODULE MCSynchDevice ----------------------------
(***************************************************************************)
(* Three threads with two calls each, of one request (a sector, a          *)
(* character) or two (an integer of two digits).                           *)
(***************************************************************************)
EXTENDS SynchDevice
=============================================================================
