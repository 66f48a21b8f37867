--------------------------- MODULE MCNegotiation ---------------------------
(***************************************************************************)
(* Codec lists for TLC: one codec, two in either order, and one that the   *)
(* others do not have.                                                     *)
(***************************************************************************)
EXTENDS Negotiation

SomeCodecLists == {<<1>>, <<1, 2>>, <<2, 1>>, <<3>>}
=============================================================================
