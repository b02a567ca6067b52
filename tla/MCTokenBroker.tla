---------------------------- MODULE MCTokenBroker ----------------------------
(* TokenBroker for TLC: two accounts, the first of which gets a second login. *)
EXTENDS TokenBroker

SomeLogins == {<<0, 0>>, <<0, 1>>, <<1, 0>>}
=============================================================================
