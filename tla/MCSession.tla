------------------------------ MODULE MCSession -----------------------------
(* Constant values for model checking Session.                             *)
EXTENDS Session

MCSeatings == {<<1, 2, <<0, 3>> >>, <<1, 2, <<3, 3>> >>}
MCListings == {<< >>, <<5>>, <<5, 2>>}
MCGarbage  == -1

=============================================================================
