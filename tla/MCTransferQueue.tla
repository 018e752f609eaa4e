-------------------------- MODULE MCTransferQueue --------------------------
(* Instances of TransferQueue for TLC: one user and one connection. *)
EXTENDS TransferQueue

OneOwner == [j \in Jobs |-> "u"]
\* fail: retryBaseMs * 2 ** Math.max(0, attempt_count - 1), with a base of 1 tick
DoublingBackoff == [n \in 0..MaxAttempts |-> IF n = 0 THEN 1 ELSE 2^(n - 1)]

OneConnection == [j \in Jobs |-> "c"]
=============================================================================
