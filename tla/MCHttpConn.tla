----------------------------- MODULE MCHttpConn -----------------------------
(* A small web server for model checking HttpConn. *)
EXTENDS HttpConn

CONSTANTS c1, c2

\* The card of the product has no index.shtml, but index.ssi, and 404.htm.
MCBlocks == [f \in {"index.ssi", "demo.ssi", "404.htm"} |-> IF f = "demo.ssi" THEN 2 ELSE 1]

MCUris == { [kind |-> "nohttp", name |-> "none"], [kind |-> "root", name |-> "none"],
            [kind |-> "file", name |-> "demo.ssi"], [kind |-> "cgi", name |-> "set.cgi"] }

MCDefaultFilenames == <<"index.shtml", "index.ssi">>

MCErrorFilenames == <<"404.html", "404.htm">>

\* Two requests on one connection, the other one stays idle.
MCRequests == [c \in Conns |-> IF c = c1 THEN 2 ELSE 0]

MCCgiPages == {"set_ok.ssi"}
=============================================================================
