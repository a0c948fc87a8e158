--------------------------- MODULE ShardingConfig ---------------------------
(***************************************************************************)
(* How a sharding configuration that came from the server becomes the      *)
(* in-memory one (exporter/omnishard/sharding_config.go), and how a span   *)
(* finds its shard in it.  Hash keys are the 128-bit numbers that MD5      *)
(* makes of a trace id; here any natural number.  sort.Sort is not stable, *)
(* so the order of equal elements is a choice.                             *)
(***************************************************************************)
EXTENDS Integers, Sequences, Functions

CONSTANTS
  ShardId,     \* shard identifiers
  HashKey,     \* starting and ending keys that definitions use
  MaxShards    \* bound: definitions in one configuration

ASSUME HashKeysAreNumbers == HashKey \subseteq Nat

Shard == [shardID : ShardId, startingHashKey : HashKey, endingHashKey : HashKey]

VARIABLES
  definitions,  \* the configuration on the wire, in the server's order
  shards,       \* sc.shards of the configuration that was built
  verdict       \* "pending", "accepted", or the error that was returned

vars == <<definitions, shards, verdict>>

-----------------------------------------------------------------------------
\* Every definition parsed has its keys in order.
KeysInOrder(ds) ==
  \A i \in DOMAIN ds : ds[i].startingHashKey <= ds[i].endingHashKey

SortedByStart(ss) ==
  \A i, j \in DOMAIN ss : i < j => ss[i].startingHashKey <= ss[j].startingHashKey

\* MUTANT of Sortings: the shards are checked in the order they came.
SortingsUnsorted(ds) == {ds}

\* The results sort.Sort(byStartingHashKey(sc.shards)) may have.
Sortings(ds) ==
  {ss \in {[i \in DOMAIN ds |-> ds[p[i]]] : p \in Bijection(DOMAIN ds, DOMAIN ds)} :
     SortedByStart(ss)}

\* MUTANT of NextStartsLater: shards that share a boundary key are let through.
NextStartsNotEarlier(ss) ==
  \A i \in DOMAIN ss \ {1} : ss[i - 1].endingHashKey <= ss[i].startingHashKey

\* Each shard starts after the one before it has ended.
NextStartsLater(ss) ==
  \A i \in DOMAIN ss \ {1} : ss[i - 1].endingHashKey < ss[i].startingHashKey

BelongsToShard(shard, key) ==
  key >= shard.startingHashKey /\ key <= shard.endingHashKey

-----------------------------------------------------------------------------
Init == definitions = <<>> /\ shards = <<>> /\ verdict = "pending"

\* The server composes a configuration.
AddDefinition(d) ==
  /\ verdict = "pending"
  /\ Len(definitions) < MaxShards
  /\ definitions' = Append(definitions, d)
  /\ UNCHANGED <<shards, verdict>>

RejectKeys ==
  /\ verdict = "pending"
  /\ ~KeysInOrder(definitions)
  /\ verdict' = "startingHashKey is bigger than endingHashKey"
  /\ UNCHANGED <<definitions, shards>>

\* newShardingInMemConfig after its first loop.
Build(sorted) ==
  /\ verdict = "pending"
  /\ KeysInOrder(definitions)
  /\ \/ /\ NextStartsLater(sorted)
        /\ shards' = sorted /\ verdict' = "accepted"
     \/ /\ ~NextStartsLater(sorted)
        /\ verdict' = "endingHashKey overlaps with next startingHashKey"
        /\ UNCHANGED shards
  /\ UNCHANGED definitions

Next ==
  \/ \E d \in Shard : AddDefinition(d)
  \/ RejectKeys
  \/ \E sorted \in Sortings(definitions) : Build(sorted)

Spec == Init /\ [][Next]_vars

-----------------------------------------------------------------------------
Overlap(s, t) ==
  s.startingHashKey <= t.endingHashKey /\ t.startingHashKey <= s.endingHashKey

\* A configuration is refused exactly when a range is reversed or two ranges meet,
\* wherever the two stand and however the unstable sort orders equal starts: comparing
\* neighbours after the sort is enough.
RefusedIffRangesMeet ==
  verdict # "pending" =>
    (verdict # "accepted" <=>
       \/ ~KeysInOrder(definitions)
       \/ \E i, j \in DOMAIN definitions :
            i # j /\ Overlap(definitions[i], definitions[j]))

\* In a configuration that was accepted a key belongs to one shard at most, so the linear
\* scan of getShardEncoder finds the shard of a span and not merely a shard.
RoutesUnique ==
  \A key \in HashKey : \A i, j \in DOMAIN shards :
    BelongsToShard(shards[i], key) /\ BelongsToShard(shards[j], key) => i = j
=============================================================================
