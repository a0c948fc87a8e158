--------------------------- MODULE MCShardEncoder ---------------------------
(* Small instances of ShardEncoder for TLC. *)
EXTENDS ShardEncoder, TLC

CONSTANTS small, full, xl, huge,  \* spans that fit, fill a batch, must be cut, cannot be
          w1, w2                  \* workers

MCSize    == [s \in Span |-> CASE s = small -> 1 [] s = full -> 2 [] OTHER -> 3]
MCCutSize == [s \in Span |-> IF s = huge THEN 3 ELSE 2]
=============================================================================
