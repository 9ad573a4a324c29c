----------------------------- MODULE MCConsole -----------------------------
(* One character in a buffer of five, on a screen of five columns: after    *)
(* the prompt a line of two leaves a cell free, one of three reaches the    *)
(* right edge, one of four wraps. A history of two lines and a page of two; *)
(* ports of binary digits up to 5 in an integer of four bits, so that 10001 *)
(* comes out as 1 when it has wrapped around.                               *)
EXTENDS Console

MCPorts == {<<>>, <<0>>, <<1, 0, 1>>, <<1, 1, 0>>, <<1, 0, 0, 0, 1>>, <<1, 2>>}
=============================================================================
