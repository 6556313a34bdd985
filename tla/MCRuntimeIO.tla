----------------------------- MODULE MCRuntimeIO -----------------------------
(***************************************************************************)
(* Instances of RuntimeIO for TLC: a buffer of three bytes, so that lines  *)
(* of one byte are short, lines of two fill it and longer ones overflow.   *)
(***************************************************************************)
EXTENDS RuntimeIO

CONSTANTS a, b, p, nl, cr, nul,
  MaxInput   \* bound: the bytes of stdin

AllStdins == UNION {[1 .. n -> {a, b, nl, cr}] : n \in 0 .. MaxInput}

Printed == <<p, p>>
=============================================================================
