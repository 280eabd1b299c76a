---------------------------- MODULE MCServerTcp ----------------------------
(* Instances of ServerTcp for TLC: the options of a restart.               *)
EXTENDS ServerTcp

Either == {TRUE, FALSE}
Always == {TRUE}
Never == {FALSE}
=============================================================================
