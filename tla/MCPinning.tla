----------------------------- MODULE MCPinning ------------------------------
(***************************************************************************)
(* A leaf, the intermediate that signed it, the root above, and a stranger *)
(* that signed itself: chains in order, out of order, with a gap, and with *)
(* certificates of somebody else.                                          *)
(***************************************************************************)
EXTENDS Pinning

MCSigns == {<<"root", "ca">>, <<"ca", "leaf">>, <<"root", "root">>,
            <<"other", "other">>}
=============================================================================
