---------------------------- MODULE MCLiveOrders ----------------------------
(* A small instance of LiveOrders for TLC.  Orders meet only in the queue of
   the event loop, which any order may be kept waiting in anyway: one is
   enough. *)
EXTENDS LiveOrders
CONSTANT order
MCOrders == {order}
=============================================================================
