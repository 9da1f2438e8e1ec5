------------------------------- MODULE MCRange -------------------------------
(***************************************************************************)
(* Integer types of a few values, in their order.                          *)
(***************************************************************************)
EXTENDS RangePackets

MCNumbers == {0, 3, 15}
MCQuadruples == {<<1, 1, 3, 1>>, <<0, 0, 7, 3>>, <<2, 1, 6, 2>>, <<3, 6, 2, 1>>,
                 <<5, 2, 5, 6>>, <<1, 2, 15, 2>>}
=============================================================================
