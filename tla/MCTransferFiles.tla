-------------------------- MODULE MCTransferFiles --------------------------
EXTENDS TransferFiles

CONSTANTS a, b

MCSize == [c \in {a, b} |-> IF c = a THEN 2 ELSE 1]
MCFile == <<b>>
=============================================================================
