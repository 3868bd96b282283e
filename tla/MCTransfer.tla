----------------------------- MODULE MCTransfer -----------------------------
(* Small instances of Transfer for TLC.                                    *)
EXTENDS Transfer

CONSTANTS c1, c2

MCSize == [c \in Content |-> IF c = c1 THEN 2 ELSE 3]
=============================================================================
