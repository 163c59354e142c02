----------------------------- MODULE MCFileCache -----------------------------
(* Small instances of FileCache for TLC. *)
EXTENDS FileCache
=============================================================================
