---------------------------- MODULE MCBoardSync ----------------------------
EXTENDS BoardSync, TLC

CONSTANTS c1, c2, k1, k2    \* c2 is to be created

MCTables == {(c1 :> [column |-> k1, key |-> 1, n |-> 0]) @@ (c2 :> Nothing)}
=============================================================================
