------------------------------ MODULE MCOutbox ------------------------------
(***************************************************************************)
(* Two relays that compete for two events, in four environments: anything  *)
(* goes wrong with events that are never overdue; the dispatcher and the   *)
(* relays fail; only the dispatcher fails; events are overdue as well.     *)
(***************************************************************************)
EXTENDS Outbox, TLC

CONSTANTS e1, e2, r1, r2

MCEvents == {e1, e2}
MCRelays == {r1, r2}
MCSettings == {{"crash", "dbError", "dispatchError"}, {"crash", "dispatchError"},
               {"dispatchError"}, {"lostAck", "overdue"}}
=============================================================================
