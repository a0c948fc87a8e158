----------------------------- MODULE SpanLedger -----------------------------
(***************************************************************************)
(* What a stage of the export pipeline promises about spans, with nothing  *)
(* of how it is done: a span that was accepted is pending until it leaves  *)
(* the stage in exactly one way, inside a batch that is emitted or by      *)
(* being given back through the failure callback.                          *)
(*                                                                         *)
(* This is the promise the comment of shardEncoder.Stop makes ("either     *)
(* spans will be encoded and will be emitted via onRecordReady or will be  *)
(* returned via onSpanProcessFail, so no spans will be lost even during    *)
(* stopping").  ShardEncoder keeps it for one shard, Encoder for all of    *)
(* them through any replacement of the shards, and Exporter for its spans, *)
(* where those that were delivered count as emitted and those that were    *)
(* dropped, or lost when it shuts down, as given back.                     *)
(***************************************************************************)
CONSTANT Span

VARIABLES pending,    \* accepted and still inside the stage
          emitted,    \* left inside an emitted batch
          returned    \* given back through the failure callback

ledgerVars == <<pending, emitted, returned>>

Init == pending = {} /\ emitted = {} /\ returned = {}

\* A span is accepted once, by itself or in a batch.
Accept(batch) ==
  /\ batch \cap (pending \cup emitted \cup returned) = {}
  /\ pending' = pending \cup batch
  /\ UNCHANGED <<emitted, returned>>

\* A non-empty batch of pending spans is emitted as one record.
Emit(batch) ==
  /\ batch # {}
  /\ pending' = pending \ batch
  /\ emitted' = emitted \cup batch
  /\ UNCHANGED returned

\* A non-empty batch of pending spans is given back.
GiveBack(batch) ==
  /\ batch # {}
  /\ pending' = pending \ batch
  /\ returned' = returned \cup batch
  /\ UNCHANGED emitted

Next ==
  \/ \E batch \in SUBSET Span : Accept(batch)
  \/ \E batch \in SUBSET pending : Emit(batch) \/ GiveBack(batch)

\* What may happen to a span.
Safety == Init /\ [][Next]_ledgerVars

\* What must happen to it.
Settles == \A s \in Span : s \in pending ~> s \in emitted \cup returned

Promise == Safety /\ Settles
=============================================================================
