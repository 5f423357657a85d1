------------------------------ MODULE MCAround ------------------------------
(* A small instance of Around for TLC. *)
EXTENDS Around, TLC

CONSTANTS Pair,   \* two interchangeable actors
          Twin    \* two interchangeable things they act on

Interchangeable == Permutations(Pair) \cup Permutations(Twin)
=============================================================================
