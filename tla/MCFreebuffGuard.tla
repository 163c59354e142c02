--------------------------- MODULE MCFreebuffGuard ---------------------------
(* Small instances of FreebuffGuard for TLC. *)
EXTENDS FreebuffGuard
=============================================================================
