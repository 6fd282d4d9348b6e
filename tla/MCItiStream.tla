---------------------------- MODULE MCItiStream -----------------------------
(* A small instance of ItiStream for TLC: bytes that occur in the pattern, *)
(* and increments on both sides of every threshold.                        *)
EXTENDS ItiStream

Bytes == {0, 80, 224}
MCPayloads == Bytes \cup {15}
MCDiffs == {15, 16, 4095, 4096, 1048575, 1048576, MaxDiff}
           \cup {16 * a + 4096 * b + 1048576 * c : a, b, c \in Bytes}
=============================================================================
