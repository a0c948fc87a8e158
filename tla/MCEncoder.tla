----------------------------- MODULE MCEncoder ------------------------------
(* Small instances of Encoder for TLC. *)
EXTENDS Encoder

CONSTANTS s1, s2,        \* spans that can be encoded
          s3, s4,        \* a span that cannot, and one that no shard covers
          c1, c2,        \* calls of EncodeSpans
          w1, w2,        \* workers
          shA, shB,      \* shards
          one, split, bad  \* valid on one shard, valid on two, invalid

\* Two batches of two spans, or what is left of them when Span is smaller: a batch may be
\* empty.
MCSpansOf  == [c \in Caller |-> SelectSeq(IF c = c1 THEN <<s1, s2>> ELSE <<s3, s4>>,
                                          LAMBDA s : s \in Span)]
MCShardsOf == [c \in Valid |-> Shard \cap (IF c = one THEN {shA} ELSE {shA, shB})]

MCShardOf == [c \in Valid |-> [s \in Span |-> IF s = s4 THEN NoShard
                                              ELSE IF s = s2 /\ c = split /\ shB \in Shard THEN shB
                                              ELSE shA]]
=============================================================================
