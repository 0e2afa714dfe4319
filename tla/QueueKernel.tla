---------------------------- MODULE QueueKernel ----------------------------
(***************************************************************************)
(* The pure part of the queue (crate queue-kernel): sharded FIFO counters. *)
(*                                                                         *)
(* Every enroll increments one of several shard counters, chosen by a hash *)
(* of the session id, and a position in line is the sum over all shards.   *)
(* The sum is written as the cardinality of the set of tickets the         *)
(* counters have handed out: shard s with value n has handed out the       *)
(* tickets <<s, 1>>, ..., <<s, n>>.  It is the same number, and facts      *)
(* about it are facts about finite sets.                                   *)
(***************************************************************************)
EXTENDS Naturals, FiniteSets

CONSTANTS
    Sessions,   \* the session ids that visitors carry
    Shards,     \* the shards of the plan, 0 .. shard_count - 1
    ShardOf     \* assign_shard: the FNV-1a hash of a session, modulo the plan

\* ShardPlan::new never yields an empty plan.
ASSUME ShardPlanAssumption == IsFiniteSet(Shards) /\ Shards # {}

\* assign_shard is a function of the session id alone, so it is stable.
ASSUME AssignShardAssumption == ShardOf \in [Sessions -> Shards]

\* The values a vector of shard counters can take.
ShardCounters == [Shards -> Nat]

NoEnrollments == [s \in Shards |-> 0]

Tickets(counters) == UNION {{s} \X (1 .. counters[s]) : s \in Shards}

MergeCounterShards(counters) == Cardinality(Tickets(counters))

\* The counters after one more enrollment on a shard.
CountOne(counters, shard) == [counters EXCEPT ![shard] = @ + 1]

\* One vector of counters was taken no later than another: counters only grow.
NoLater(earlier, later) == \A s \in Shards : earlier[s] <= later[s]

=============================================================================
