------------------------------ MODULE MCShardKv ------------------------------
(* Two groups, two shards, one of which goes to the other group and back.  *)
EXTENDS ShardKv

CONSTANT c1

RoundTrip ==
    << [op |-> "Join", gids |-> {1, 2}],
       [op |-> "Move", shard |-> 0, gid |-> 2],
       [op |-> "Move", shard |-> 0, gid |-> 1] >>
OneAppend == c1 :> <<[op |-> "append", shard |-> 0]>>
=============================================================================
