---------------------------- MODULE MCSizeClass -----------------------------
(* Every request the memory pool serves from its lists. *)
EXTENDS SizeClass

AllSizes == 1..MAX_BYTES
=============================================================================
