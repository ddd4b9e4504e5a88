------------------------------- MODULE MCFeed -------------------------------
(***************************************************************************)
(* A small instance of EventFeed: one tunnel, two calls at a time, two     *)
(* streams of the client, a channel with one place and a wire with one.    *)
(***************************************************************************)
EXTENDS EventFeed

=============================================================================
