--------------------------- MODULE MCSymbolServer ---------------------------
(* SymbolServer for TLC: three threads and two non-empty strings.          *)
EXTENDS SymbolServer
=============================================================================
