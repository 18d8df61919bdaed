--------------------------- MODULE MCDevDownloads ---------------------------
(* TLC instance of DevDownloads: the constants are given by the .cfg file. *)
EXTENDS DevDownloads
=============================================================================
