--------------------------- MODULE MCDisassembly ---------------------------
(* Readable areas with and without an edge on either side, and a symbol that  *)
(* lies inside of them, at their edge, or is absent.                          *)
EXTENDS Disassembly

MCReadables == {<<0, 5>>, <<2, 5>>, <<0, 3>>, <<1, 4>>}
MCSymbols == {<<0, 0>>, <<2, 4>>}
=============================================================================
