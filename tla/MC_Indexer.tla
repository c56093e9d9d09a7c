------------------------------ MODULE MC_Indexer ------------------------------
(* Model-checking instances of Indexer.                                    *)
EXTENDS Indexer

CONSTANTS ann, tick1, tick2
==============================================================================
