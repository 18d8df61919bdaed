----------------------------- MODULE MCSockets -----------------------------
(* TLC instance of Sockets: the web server's task with its listening socket *)
(* and the connections it accepts, and a task with one connection.          *)
EXTENDS Sockets

MCOwner == [c \in 1 .. 3 |-> IF c = 3 THEN "other" ELSE "httpd"]
MCChunks == [c \in 1 .. 3 |-> IF c = 3 THEN {[len |-> 1, push |-> TRUE]}
                               ELSE {[len |-> 3, push |-> FALSE]}]
=============================================================================
