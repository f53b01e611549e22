--------------------------- MODULE MCEchoServers ---------------------------
EXTENDS EchoServers

(* A short line, and one of the longest, which fgets() cut before its end. *)
MCLines == {<<"a", LF>>, <<"a", "b", "c">>}
=============================================================================
