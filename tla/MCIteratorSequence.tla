------------------------- MODULE MCIteratorSequence -------------------------
(* Small instance of IteratorSequence for TLC: one item of every class that *)
(* getEffectiveBooleanValue tells apart.                                    *)
EXTENDS IteratorSequence

CONSTANTS node, yes, no, qname

MCValue == {node, yes, no, qname}
MCNodes == {node}
MCTruthy == {yes}
MCFalsy == {no}
=============================================================================
