----------------------------- MODULE MCExporter -----------------------------
(* Small instances of Exporter for TLC. *)
EXTENDS Exporter

CONSTANTS s1, s2, s3,     \* spans
          w1,             \* a worker
          c1, c2          \* senders of the client
=============================================================================
