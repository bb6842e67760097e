----------------------------- MODULE MCChannel -----------------------------
(* Channel on a small instance: send of 0 to 2 bytes, sendmsg of two pieces. *)
EXTENDS Channel

MCMessages == {<<0>>, <<1>>, <<2>>, <<1, 2>>}
NonEmpty == {<<1>>, <<2>>}
============================================================================
