-------------------------- MODULE MCOperationGate --------------------------
EXTENDS OperationGate, TLC

CONSTANTS o1, o2, o3, p1, p2, c1, c2

\* Two operations on one connection, in two processes, and one on another.
TwoProcesses == (o1 :> p1) @@ (o2 :> p2) @@ (o3 :> p2)
TwoConnections == (o1 :> c1) @@ (o2 :> c1) @@ (o3 :> c2)
=============================================================================
