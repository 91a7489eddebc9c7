------------------------------ MODULE MCChunks ------------------------------
(* Modules Chunks and FileDialogs for TLC.                                  *)
EXTENDS FileDialogs
CONSTANTS r, n, x
MCOthers == {r, n, x}
MCPresent == {r, x}
=============================================================================
