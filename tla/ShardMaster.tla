----------------------------- MODULE ShardMaster -----------------------------
(***************************************************************************)
(* The shard master of LAB4 (shardKv/shardmaster/shardMaster.hpp): the     *)
(* sequence of configurations, each an assignment of shards to groups, and *)
(* the balancing of the load after a Join or a Leave.                      *)
(*                                                                         *)
(* Raft is external: it hands every master the same operations in the same *)
(* order, an operation of a clerk that tried twice twice.  So the masters  *)
(* are one.  Which of several groups of equal load is on top of a queue is *)
(* left open.  The loops of balanceWorkLoad are steps, so that their end   *)
(* is something to check.                                                  *)
(***************************************************************************)
EXTENDS Integers, Sequences, FiniteSets, FiniteSetsExt, SequencesExt

CONSTANTS
    NShards,     \* number of shards
    Gids,        \* ids of the groups that may join, none of them 0
    Clerks,      \* the clients of the master
    MaxRequest,  \* bound: requests of a clerk
    Operations,  \* bound: the kinds of requests
    ForeignMove  \* whether Move may name a group that has not joined

ASSUME ShardMasterAssumption ==
    /\ NShards \in Nat \ {0}
    /\ Gids \subseteq Nat \ {0} /\ IsFiniteSet(Gids)
    /\ MaxRequest \in Nat
    /\ Operations \subseteq {"Join", "Leave", "Move", "Query"}
    /\ ForeignMove \in BOOLEAN

Shard == 0..(NShards - 1)
Idle == <<>>

VARIABLES
    configs,     \* configs[i].configNum is i - 1
    clientSeq,   \* m_clientSeqMap: the request of a clerk applied last, 0 for none
    request,     \* the operation of that request
    work         \* balanceWorkLoad: Idle, or <<[groups, load, todo]>>

masterVars == <<configs, clientSeq, request, work>>

NoConfig == [groups |-> {}, shards |-> [s \in Shard |-> 0]]
NoRequest == [op |-> "none"]

\* The requests a clerk can make of a configuration.
Request(config) ==
    [op : Operations \cap {"Join", "Leave"}, gids : SUBSET Gids]
    \cup [op : Operations \cap {"Move"}, shard : Shard,
          gid : IF ForeignMove THEN Gids ELSE config.groups]
    \cup [op : Operations \cap {"Query"}]

MasterInit ==
    /\ configs = <<NoConfig>>
    /\ clientSeq = [c \in Clerks |-> 0]
    /\ request = [c \in Clerks |-> NoRequest]
    /\ work = Idle

-----------------------------------------------------------------------------
(* balanceWorkLoad.                                                        *)

Load(load, g) == Len(load[g])
\* The groups that may be on top of lowerLoadSize and of upperLoadSize.
Lightest(load) == {g \in DOMAIN load : \A h \in DOMAIN load : Load(load, g) <= Load(load, h)}
Heaviest(load) == {g \in DOMAIN load : \A h \in DOMAIN load : Load(load, g) >= Load(load, h)}

\* The shards of a set in the order in which the loop over config.shards meets them.
InOrder(S) ==
    CHOOSE q \in [1..Cardinality(S) -> S] :
        \A i, j \in DOMAIN q : i < j => q[i] < q[j]

\* workLoad: the shards of every group, also of one that shards names and groups
\* does not.
WorkLoad(groups, shards) ==
    [g \in groups \cup (Range(shards) \ {0}) |->
        InOrder({s \in Shard : shards[s] = g})]

\* mutant: all shards are dealt out anew
StartBalanceAfresh(groups, shards) ==
    work' = <<[groups |-> groups, load |-> [g \in groups |-> <<>>], todo |-> Shard]>>
StartBalance(groups, shards) ==
    work' = <<[groups |-> groups, load |-> WorkLoad(groups, shards),
               todo |-> {s \in Shard : shards[s] = 0}]>>

\* mutant: the loop ends only when all loads are equal
SpreadStrict(groups, load) == \E g, h \in DOMAIN load : Load(load, g) # Load(load, h)
\* mutant: a spread of two is let be
SpreadLoose(groups, load) == \E g, h \in DOMAIN load : Load(load, g) - Load(load, h) > 2
\* Whether the second loop goes on: the loads must be equal when they can be.
Spread(groups, load) ==
    \E g, h \in DOMAIN load :
        IF NShards % Cardinality(groups) = 0
        THEN Load(load, g) # Load(load, h)
        ELSE Load(load, g) - Load(load, h) > 1

\* mutant: the shard is not done with
AssignedTwice(w, s, g) == [w EXCEPT !.load[g] = Append(@, s)]
Assigned(w, s, g) == [w EXCEPT !.load[g] = Append(@, s), !.todo = @ \ {s}]
\* A shard without a group goes to a least loaded one.
Assign ==
    /\ work # Idle
    /\ work[1].todo # {}
    /\ \E g \in Lightest(work[1].load) : work' = <<Assigned(work[1], Min(work[1].todo), g)>>
    /\ UNCHANGED <<configs, clientSeq, request>>

\* mutant: no pop_back
GivenKept(load, h, g) == [load EXCEPT ![g] = Append(@, Last(load[h]))]
Given(load, h, g) == [load EXCEPT ![g] = Append(@, Last(load[h])), ![h] = Front(@)]
\* A most loaded group gives its last shard to a least loaded one.
Even ==
    /\ work # Idle
    /\ work[1].todo = {}
    /\ Spread(work[1].groups, work[1].load)
    /\ \E g \in Lightest(work[1].load), h \in Heaviest(work[1].load) :
          work' = <<[work[1] EXCEPT !.load = Given(@, h, g)]>>
    /\ UNCHANGED <<configs, clientSeq, request>>

Owner(load, s) == CHOOSE g \in DOMAIN load : s \in Range(load[g])
\* The result is pushed onto configs.
Push ==
    /\ work # Idle
    /\ work[1].todo = {}
    /\ ~Spread(work[1].groups, work[1].load)
    /\ configs' = Append(configs, [groups |-> work[1].groups,
                                   shards |-> [s \in Shard |-> Owner(work[1].load, s)]])
    /\ work' = Idle
    /\ UNCHANGED <<clientSeq, request>>

-----------------------------------------------------------------------------
(* applyLoop and doJoinLeaveMove.                                          *)

Join(config, gids) ==
    LET groups == config.groups \cup gids IN
    /\ IF groups = {} THEN UNCHANGED work ELSE StartBalance(groups, config.shards)
    /\ UNCHANGED configs

\* mutant: the shards of the groups that leave keep their group
LeftShardsKept(config, gids) == config.shards
\* The shards of the groups that leave have no group.
LeftShards(config, gids) ==
    [s \in Shard |-> IF config.shards[s] \in gids THEN 0 ELSE config.shards[s]]

\* When the last group leaves nothing is pushed: the configuration stays.
Leave(config, gids) ==
    LET groups == config.groups \ gids IN
    /\ IF groups = {} THEN UNCHANGED work ELSE StartBalance(groups, LeftShards(config, gids))
    /\ UNCHANGED configs

Move(config, s, g) ==
    /\ configs' = Append(configs, [config EXCEPT !.shards[s] = g])
    /\ UNCHANGED work

\* mutant: every operation counts as new
FreshAlways(c, r) == TRUE
Fresh(c, r) == clientSeq[c] < r

\* An operation comes out of the log: the next of its clerk, or the last once more.
Apply(c, r, req) ==
    LET config == Last(configs) IN
    /\ work = Idle
    /\ clientSeq' = [clientSeq EXCEPT ![c] = r]
    /\ request' = [request EXCEPT ![c] = req]
    /\ IF ~Fresh(c, r) \/ req.op = "Query"
       THEN UNCHANGED <<configs, work>>
       ELSE CASE req.op = "Join" -> Join(config, req.gids)
              [] req.op = "Leave" -> Leave(config, req.gids)
              [] req.op = "Move" -> Move(config, req.shard, req.gid)

\* What a Query is answered with.
QueryAnswer(num) == configs[IF num >= Len(configs) \/ num = -1 THEN Len(configs) ELSE num + 1]

ApplyNew(c) ==
    /\ clientSeq[c] < MaxRequest
    /\ \E req \in Request(Last(configs)) : Apply(c, clientSeq[c] + 1, req)
ApplyAgain(c) ==
    /\ clientSeq[c] > 0
    /\ Apply(c, clientSeq[c], request[c])

Balance == Assign \/ Even \/ Push
MasterNext == Balance \/ \E c \in Clerks : ApplyNew(c) \/ ApplyAgain(c)

MasterSpec == MasterInit /\ [][MasterNext]_masterVars /\ WF_masterVars(Balance)

-----------------------------------------------------------------------------
(* Properties.                                                             *)

Config == [groups : SUBSET Gids, shards : [Shard -> Gids \cup {0}]]
\* Types of configs, m_clientSeqMap and workLoad; a group's load holds no shard twice.
MasterTypeOK ==
    /\ configs \in Seq(Config)
    /\ clientSeq \in [Clerks -> 0..MaxRequest]
    /\ work # Idle =>
          /\ work[1].groups \subseteq Gids
          /\ work[1].todo \subseteq Shard
          /\ \A g \in DOMAIN work[1].load : IsInjective(work[1].load[g])

\* From the first Join on every shard belongs to a group of its configuration.
AllOwned ==
    \A i \in 2..Len(configs) : \A s \in Shard : configs[i].shards[s] \in configs[i].groups

\* During balanceWorkLoad every shard is in exactly one place: without a group, or
\* in the load of one group.
NoShardLost ==
    work # Idle => \A s \in Shard :
        LET at == {g \in DOMAIN work[1].load : s \in Range(work[1].load[g])} IN
        Cardinality(at) = IF s \in work[1].todo THEN 0 ELSE 1

Held(config, g) == {s \in Shard : config.shards[s] = g}
\* Join and Leave leave the groups with loads that differ by one at most, and by
\* nothing when the number of groups divides NShards.
BalancedResult ==
    [][work # Idle /\ work' = Idle =>
        LET config == Last(configs') IN
        \A g, h \in config.groups :
            Cardinality(Held(config, g)) - Cardinality(Held(config, h)) <=
                IF NShards % Cardinality(config.groups) = 0 THEN 0 ELSE 1]_masterVars

\* Balancing moves no more shards than it must: a group that stays does not both
\* give a shard away and get another.
MinimalMovement ==
    [][work # Idle /\ work' = Idle =>
        LET old == Last(configs)  new == Last(configs') IN
        \A g \in old.groups \cap new.groups :
            Held(old, g) \subseteq Held(new, g) \/ Held(new, g) \subseteq Held(old, g)]_masterVars

\* What balanceWorkLoad is for: even loads at the least cost.
BalancedAndMinimal == BalancedResult /\ MinimalMovement

\* The requests that have been applied, each once.
Applied == {r \in Clerks \X (1..MaxRequest) : r[2] <= clientSeq[r[1]]}
\* A request that is applied again makes no further configuration.
OneConfigPerRequest == Len(configs) - 1 + Len(work) <= Cardinality(Applied)

\* Every configuration assigns every shard, once, and answers a request of its own.
ConfigsSound == MasterTypeOK /\ AllOwned /\ NoShardLost /\ OneConfigPerRequest

\* balanceWorkLoad ends: the apply loop, and with it every clerk, waits for it.
BalanceEnds == work # Idle ~> work = Idle
=============================================================================
