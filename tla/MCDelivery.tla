------------------------------ MODULE MCDelivery -------------------------------
(* An instance of Delivery for TLC.                                          *)
EXTENDS Delivery

MCMaxCalls == [approvals |-> 3, market |-> 2, compliance |-> 1]
MCMaxTrouble == [approvals |-> 1, market |-> 1, compliance |-> 2]
MCMaxMoves == [approvals |-> 2, market |-> 2, compliance |-> 2]
MCWishes == {<<"shop", "analytics.enable">>, <<"shop", "app.payments.enable">>}
================================================================================
