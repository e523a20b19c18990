----------------------------- MODULE MCSubscriber -----------------------------
(***************************************************************************)
(* Subscriber as MCSubscriber.cfg and FindTwoHandlers.cfg bound it: each   *)
(* task of Tasks is one start(), and MaxCalls bounds the callers of        *)
(* get_one and the iterator.                                               *)
(***************************************************************************)
EXTENDS Subscriber
=============================================================================
