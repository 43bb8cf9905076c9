------------------------------- MODULE ShardKv -------------------------------
(***************************************************************************)
(* The sharded key-value server of LAB4 (shardKv/server.cpp, client.cpp)   *)
(* together with the shard master it asks for configurations.              *)
(*                                                                         *)
(* A group is the state machine its servers replicate, and the loops of its*)
(* leader.  Raft is external: start() puts a command into the group's log, *)
(* Apply takes the commands out in order, and a change of leader loses the *)
(* last ones.  A shard holds one key; a value is the sequence of its       *)
(* appends, each <<client, request>>.                                      *)
(***************************************************************************)
EXTENDS ShardMaster

CONSTANTS
    Plan,       \* the requests made to the master, in this order
    Clients,    \* the clients of the store
    Script,     \* Script[c]: the requests of a client: [op, shard]
    MaxCopies,  \* bound: copies of a command in a log at the same time
    MaxTrouble, \* bound: changes of leader, and calls that time out although their
                \* command is in a log
    Timings     \* which of the following timings may happen:
                \* "refused": a request is applied when its shard is not available
                \* "iterator": comeInShards changes while threads walk over it

ASSUME ShardKvAssumption ==
    /\ \A c \in Clients : \A i \in DOMAIN Script[c] :
          Script[c][i] \in [op : {"append", "get"}, shard : Shard]
    /\ {MaxCopies, MaxTrouble} \subseteq Nat
    /\ Timings \subseteq {"refused", "iterator"}

VARIABLES
    log,       \* commands started and not applied yet
    cfg,       \* m_config.configNum
    avail,     \* m_AvailableShards
    comeIn,    \* comeInShards: [shard, num]
    toOut,     \* toOutShards: [num, shard, data]
    db,        \* m_database
    seq,       \* m_clientSeqMap, 0 for none
    garb,      \* garbages of the leader: [shard, num]
    keptGarb,  \* garbages of the other servers
    uc,        \* updateConfigLoop between reading the state and start(): <<num>>
    pullLeft,  \* threads of pullShardLoop that have not read pullShardIter yet
    pull,      \* threads that have: [item, reply]
    sweep,     \* threads of garbagesCollectLoop: [item, st]
    client,    \* [done, cfg, at]: requests finished, cached config, group called
    troubles,  \* how many there were
    flaw       \* history: "null" context used, "iterator" past its end

groupVars == <<cfg, avail, comeIn, toOut, db, seq, garb, keptGarb>>
loopVars == <<uc, pullLeft, pull, sweep>>
kvVars == <<log, groupVars, loopVars, client, troubles, flaw>>
vars == <<masterVars, kvVars>>

None == 0
Allowed(t) == t \in Timings

KvInit ==
    /\ log = [g \in Gids |-> <<>>]
    /\ cfg = [g \in Gids |-> 0]
    /\ avail = [g \in Gids |-> {}]
    /\ comeIn = [g \in Gids |-> {}]
    /\ toOut = [g \in Gids |-> {}]
    /\ db = [g \in Gids |-> [s \in Shard |-> <<>>]]
    /\ seq = [g \in Gids |-> [c \in Clients |-> 0]]
    /\ garb = [g \in Gids |-> {}]
    /\ keptGarb = [g \in Gids |-> {}]
    /\ uc = [g \in Gids |-> <<>>]
    /\ pullLeft = [g \in Gids |-> 0]
    /\ pull = [g \in Gids |-> {}]
    /\ sweep = [g \in Gids |-> {}]
    /\ client = [c \in Clients |-> [done |-> 0, cfg |-> 0, at |-> None]]
    /\ troubles = 0
    /\ flaw = {}
Init == MasterInit /\ KvInit

\* The answer to Query(num).
ConfigOf(num) == QueryAnswer(num)
OwnerIn(num, s) == ConfigOf(num).shards[s]

\* m_raft.start() of the leader.  The loops start a command again and again until
\* it is applied: no more than MaxCopies of it are kept.
Started(g, cmd) ==
    IF Cardinality({i \in DOMAIN log[g] : log[g][i] = cmd}) < MaxCopies
    THEN [log EXCEPT ![g] = Append(@, cmd)] ELSE log

-----------------------------------------------------------------------------
(* updateConfigLoop.                                                       *)

\* mutant: the next configuration is fetched while shards are on their way
MayUpdateAlways(g) == TRUE
MayUpdate(g) == comeIn[g] = {}

\* mutant: a configuration is skipped
NextNumSkips(g) == cfg[g] + 2
NextNum(g) == cfg[g] + 1

\* Query answers an unknown number with the latest configuration and nothing is
\* done: rounds of the loop without a next configuration are left out.
UcRead(g) ==
    /\ uc[g] = <<>>
    /\ MayUpdate(g)
    /\ cfg[g] + 1 < Len(configs)
    /\ uc' = [uc EXCEPT ![g] = <<NextNum(g)>>]
    /\ UNCHANGED <<masterVars, log, groupVars, pullLeft, pull, sweep, client, troubles, flaw>>

UcStart(g) ==
    /\ uc[g] # <<>>
    /\ uc' = [uc EXCEPT ![g] = <<>>]
    /\ log' = Started(g, [op |-> "UC", num |-> uc[g][1]])
    /\ UNCHANGED <<masterVars, groupVars, pullLeft, pull, sweep, client, troubles, flaw>>

-----------------------------------------------------------------------------
(* pullShardLoop, doPullShard and the handler shardMigration.              *)

PullBegin(g) ==
    /\ pullLeft[g] = 0 /\ pull[g] = {}
    /\ comeIn[g] # {}
    /\ pullLeft' = [pullLeft EXCEPT ![g] = Cardinality(comeIn[g])]
    /\ UNCHANGED <<masterVars, log, groupVars, uc, pull, sweep, client, troubles, flaw>>

\* A thread reads the shared iterator and moves it on.
PullPick(g) ==
    LET rest == comeIn[g] \ {t.item : t \in pull[g]} IN
    /\ pullLeft[g] > 0
    /\ pullLeft' = [pullLeft EXCEPT ![g] = @ - 1]
    /\ IF rest = {}
       THEN flaw' = flaw \cup {"iterator"} /\ UNCHANGED pull
       ELSE /\ \E item \in rest :
                  pull' = [pull EXCEPT ![g] = @ \cup {[item |-> item, reply |-> <<>>]}]
            /\ UNCHANGED flaw
    /\ UNCHANGED <<masterVars, log, groupVars, uc, sweep, client, troubles>>

Out(h, item) == {r \in toOut[h] : r.num = item.num /\ r.shard = item.shard}

\* mutant: the group asked need not have left the configuration
HasLeftOff(h, num) == num <= cfg[h]
HasLeft(h, num) == num < cfg[h]

\* The call: a group that has not left the configuration refuses.  toOutShards[n][s]
\* makes an empty entry where there is none any more.
PullCall(g) ==
    \E t \in pull[g] : LET h == OwnerIn(t.item.num, t.item.shard) IN
        /\ t.reply = <<>>
        /\ IF ~HasLeft(h, t.item.num)
           THEN pull' = [pull EXCEPT ![g] = @ \ {t}] /\ UNCHANGED toOut
           ELSE LET rec == IF Out(h, t.item) # {} THEN CHOOSE r \in Out(h, t.item) : TRUE
                           ELSE [num |-> t.item.num, shard |-> t.item.shard, data |-> <<>>]
                IN  /\ pull' = [pull EXCEPT ![g] =
                          (@ \ {t}) \cup {[t EXCEPT !.reply = <<rec.data, seq[h]>>]}]
                    /\ toOut' = [toOut EXCEPT ![h] = @ \cup {rec}]
        /\ UNCHANGED <<masterVars, log, cfg, avail, comeIn, db, seq, garb, keptGarb, uc,
                       pullLeft, sweep, client, troubles, flaw>>

\* The data goes through the group's own log.
PullStart(g) ==
    \E t \in pull[g] :
        /\ t.reply # <<>>
        /\ pull' = [pull EXCEPT ![g] = @ \ {t}]
        /\ log' = Started(g, [op |-> "UD", num |-> t.item.num, shard |-> t.item.shard,
                              data |-> t.reply[1], seq |-> t.reply[2]])
        /\ UNCHANGED <<masterVars, groupVars, uc, pullLeft, sweep, client, troubles, flaw>>

-----------------------------------------------------------------------------
(* garbagesCollectLoop, doGarbage and the handler garbagesCollect.         *)

\* The entries of one configuration at a time, a thread for each.
GcBegin(g) ==
    /\ sweep[g] = {}
    /\ \E num \in {item.num : item \in garb[g]} :
          sweep' = [sweep EXCEPT ![g] =
              {[item |-> item, st |-> "call"] : item \in {i \in garb[g] : i.num = num}}]
    /\ UNCHANGED <<masterVars, log, groupVars, uc, pullLeft, pull, client, troubles, flaw>>

Gc(g, item) == [op |-> "GC", num |-> item.num, shard |-> item.shard, from |-> g]

\* The group that gave the shard away is told.  A group without the entry refuses.
\* (Like PullCall: sic, the group asked is the owner in the old configuration.)
GcCall(g) ==
    \E t \in sweep[g] : LET h == OwnerIn(t.item.num, t.item.shard) IN
        /\ t.st = "call"
        /\ IF Out(h, t.item) = {}
           THEN sweep' = [sweep EXCEPT ![g] = @ \ {t}] /\ UNCHANGED log
           ELSE /\ sweep' = [sweep EXCEPT ![g] = (@ \ {t}) \cup {[t EXCEPT !.st = "wait"]}]
                /\ log' = Started(h, Gc(g, t.item))
        /\ UNCHANGED <<masterVars, groupVars, uc, pullLeft, pull, client, troubles, flaw>>

\* Answered OK: the leader, and nobody else, forgets the entry.
GcErase(g) ==
    \E t \in sweep[g] :
        /\ t.st = "ok"
        /\ sweep' = [sweep EXCEPT ![g] = @ \ {t}]
        /\ garb' = [garb EXCEPT ![g] = @ \ {t.item}]
        /\ UNCHANGED <<masterVars, log, cfg, avail, comeIn, toOut, db, seq, keptGarb, uc,
                       pullLeft, pull, client, troubles, flaw>>

Trouble == troubles < MaxTrouble /\ troubles' = troubles + 1
\* A call whose command is lost times out in any case.
TimedOut(inLog) == IF inLog THEN Trouble ELSE UNCHANGED troubles

GcTimeout(g) ==
    \E t \in sweep[g] :
        /\ t.st = "wait"
        /\ TimedOut(\E h \in Gids : Gc(g, t.item) \in Range(log[h]))
        /\ sweep' = [sweep EXCEPT ![g] = @ \ {t}]
        /\ UNCHANGED <<masterVars, log, groupVars, uc, pullLeft, pull, client, flaw>>

-----------------------------------------------------------------------------
(* Clients: Clerk::putAppend and get, and the handlers up to start().      *)

Current(c) == Script[c][client[c].done + 1]
Running(c) == client[c].done < Len(Script[c])
Command(c) ==
    [op |-> Current(c).op, client |-> c, req |-> client[c].done + 1, shard |-> Current(c).shard]

\* isMatchShard, of a group the clerk knows.
Matches(g, s) == g # 0 /\ OwnerIn(cfg[g], s) = g

\* isMatchShard, then start().  A request that a change of the configuration could
\* overtake is let through only when that timing is allowed.
Call(c) ==
    LET s == Current(c).shard  g == OwnerIn(client[c].cfg, s) IN
    /\ Running(c) /\ client[c].at = None
    /\ Matches(g, s)
    /\ Allowed("refused") \/ (s \in avail[g] /\ \A cmd \in Range(log[g]) : cmd.op # "UC")
    /\ client' = [client EXCEPT ![c].at = g]
    /\ log' = Started(g, Command(c))
    /\ UNCHANGED <<masterVars, groupVars, loopVars, troubles, flaw>>

\* Refused by isMatchShard, or no group known: Query(-1).
Refresh(c) ==
    LET s == Current(c).shard  g == OwnerIn(client[c].cfg, s) IN
    /\ Running(c) /\ client[c].at = None
    /\ ~Matches(g, s)
    /\ client' = [client EXCEPT ![c].cfg = Len(configs) - 1]
    /\ UNCHANGED <<masterVars, log, groupVars, loopVars, troubles, flaw>>

\* No answer: the clerk goes round the servers and asks for the configuration.
Timeout(c) ==
    /\ client[c].at # None
    /\ TimedOut(Command(c) \in Range(log[client[c].at]))
    /\ client' = [client EXCEPT ![c].at = None, ![c].cfg = Len(configs) - 1]
    /\ UNCHANGED <<masterVars, log, groupVars, loopVars, flaw>>

-----------------------------------------------------------------------------
(* applyLoop.                                                              *)

\* mutant: the shards that go are not put aside
PutAsideNothing(g, lost) == toOut[g]
PutAside(g, lost) ==
    toOut[g] \cup {[num |-> cfg[g], shard |-> s, data |-> db[g][s]] : s \in lost}

\* updateComeInAndOutShrads.  With the first configuration a group has all its
\* shards at once.
ApplyUC(g, cmd) ==
    LET own == {s \in Shard : OwnerIn(cmd.num, s) = g}
        keep == IF cfg[g] = 0 THEN own ELSE own \cap avail[g]
        lost == avail[g] \ own
        new == own \ keep
    IN  /\ IF cmd.num <= cfg[g]
           THEN UNCHANGED <<cfg, avail, comeIn, toOut, db>>
           ELSE /\ cfg' = [cfg EXCEPT ![g] = cmd.num]
                /\ avail' = [avail EXCEPT ![g] = keep]
                /\ comeIn' = [comeIn EXCEPT ![g] =
                      {i \in @ : i.shard \notin new} \cup {[shard |-> s, num |-> cfg[g]] : s \in new}]
                /\ toOut' = [toOut EXCEPT ![g] = PutAside(g, lost)]
                /\ db' = [db EXCEPT ![g] = [s \in Shard |-> IF s \in lost THEN <<>> ELSE @[s]]]
        /\ UNCHANGED <<seq, garb, keptGarb, sweep, client, flaw>>

\* mutant: the sequence numbers stay behind
MergedSeqForgotten(old, new) == old
MergedSeq(old, new) == [c \in Clients |-> Max({old[c], new[c]})]

\* Data is taken for the configuration before the present one only.
Expects(g, cmd) == cmd.num = cfg[g] - 1

\* updateDataBaseWithMigrateReply.  insert() does not overwrite.
ApplyUD(g, cmd) ==
    LET item == [shard |-> cmd.shard, num |-> cmd.num] IN
    /\ comeIn' = IF Expects(g, cmd)
                 THEN [comeIn EXCEPT ![g] = {i \in @ : i.shard # cmd.shard}] ELSE comeIn
    /\ IF ~Expects(g, cmd) \/ cmd.shard \in avail[g]
       THEN UNCHANGED <<avail, db, seq, garb, keptGarb>>
       ELSE /\ db' = [db EXCEPT ![g][cmd.shard] = IF @ = <<>> THEN cmd.data ELSE @]
            /\ seq' = [seq EXCEPT ![g] = MergedSeq(@, cmd.seq)]
            /\ avail' = [avail EXCEPT ![g] = @ \cup {cmd.shard}]
            /\ garb' = [garb EXCEPT ![g] = @ \cup {item}]
            /\ keptGarb' = [keptGarb EXCEPT ![g] = @ \cup {item}]
    /\ UNCHANGED <<cfg, toOut, sweep, client, flaw>>

\* clearToOutData, and the answer to the group that waits.
ApplyGC(g, cmd) ==
    LET item == [shard |-> cmd.shard, num |-> cmd.num] IN
    /\ toOut' = [toOut EXCEPT ![g] = @ \ Out(g, item)]
    /\ sweep' = [sweep EXCEPT ![cmd.from] =
          {IF t.item = item /\ t.st = "wait" THEN [t EXCEPT !.st = "ok"] ELSE t : t \in @}]
    /\ UNCHANGED <<cfg, avail, comeIn, db, seq, garb, keptGarb, client, flaw>>

FreshRequest(g, cmd) == seq[g][cmd.client] < cmd.req

\* getPutAppendOnDataBase.  The request counts as done even when it is refused, and
\* the refusal is written through a context that only one server, if any, has.
ApplyRequest(g, cmd) ==
    LET c == cmd.client
        here == cmd.shard \in avail[g]
        waiting == client[c].at = g /\ client[c].done + 1 = cmd.req
    IN  /\ seq' = [seq EXCEPT ![g][c] = cmd.req]
        /\ db' = IF here /\ cmd.op = "append" /\ FreshRequest(g, cmd)
                 THEN [db EXCEPT ![g][cmd.shard] = Append(@, <<c, cmd.req>>)] ELSE db
        /\ flaw' = IF here THEN flaw ELSE flaw \cup {"null"}
        /\ client' = IF ~waiting THEN client
              ELSE IF here THEN [client EXCEPT ![c].done = @ + 1, ![c].at = None]
              ELSE [client EXCEPT ![c].at = None, ![c].cfg = Len(configs) - 1]
        /\ UNCHANGED <<cfg, avail, comeIn, toOut, garb, keptGarb, sweep>>

Apply1(g) ==
    LET cmd == Head(log[g]) IN
    /\ log[g] # <<>>
    /\ log' = [log EXCEPT ![g] = Tail(@)]
    /\ CASE cmd.op = "UC" -> ApplyUC(g, cmd)
         [] cmd.op = "UD" -> ApplyUD(g, cmd)
         [] cmd.op = "GC" -> ApplyGC(g, cmd)
         [] cmd.op \in {"append", "get"} -> ApplyRequest(g, cmd)
    /\ UNCHANGED <<masterVars, uc, pullLeft, pull, troubles>>

-----------------------------------------------------------------------------
\* Another server becomes the leader: the last commands are lost, the loops begin
\* again, and the garbage the old leader has got rid of is back.
LeaderChange(g) ==
    /\ Trouble
    /\ \E n \in 0..Len(log[g]) : log' = [log EXCEPT ![g] = SubSeq(@, 1, n)]
    /\ uc' = [uc EXCEPT ![g] = <<>>]
    /\ pullLeft' = [pullLeft EXCEPT ![g] = 0]
    /\ pull' = [pull EXCEPT ![g] = {}]
    /\ sweep' = [sweep EXCEPT ![g] = {}]
    /\ garb' = [garb EXCEPT ![g] = keptGarb[g]]
    /\ UNCHANGED <<masterVars, cfg, avail, comeIn, toOut, db, seq, keptGarb, client, flaw>>

Update(g) == UcRead(g) \/ UcStart(g)
Pull(g) == PullBegin(g) \/ PullPick(g) \/ PullCall(g) \/ PullStart(g)
Collect(g) == GcBegin(g) \/ GcCall(g) \/ GcErase(g)
ClientNext == \E c \in Clients : Call(c) \/ Refresh(c) \/ Timeout(c)
GroupNext ==
    \E g \in Gids :
        Update(g) \/ PullBegin(g) \/ PullCall(g) \/ PullStart(g) \/ Collect(g) \/ GcTimeout(g) \/ Apply1(g) \/ LeaderChange(g)
ApplyPlanned ==
    \E c \in Clerks :
        /\ clientSeq[c] < Len(Plan)
        /\ Apply(c, clientSeq[c] + 1, Plan[clientSeq[c] + 1])
MasterStep == (Balance \/ ApplyPlanned) /\ UNCHANGED kvVars
\* The threads of pullShardLoop read the iterator as soon as they are created.
Settled == Allowed("iterator") \/ \A g \in Gids : pullLeft[g] = 0
\* What balanceWorkLoad does before its end is seen by nobody: nothing is
\* interleaved with it.
Next ==
    \/ MasterStep
    \/ work = Idle /\ \E g \in Gids : PullPick(g)
    \/ work = Idle /\ Settled /\ (GroupNext \/ ClientNext)

\* The loops of a group and its Raft go on for ever; a call whose command is lost
\* times out.
Fairness ==
    /\ WF_vars(Balance /\ UNCHANGED kvVars)
    /\ \A g \in Gids :
          /\ WF_vars(Update(g)) /\ WF_vars(Pull(g)) /\ WF_vars(Collect(g))
          /\ WF_vars(Apply1(g))
          /\ WF_vars(GcTimeout(g) /\ UNCHANGED troubles)

Spec == Init /\ [][Next]_vars /\ Fairness

-----------------------------------------------------------------------------
(* Properties.                                                             *)

Item == [shard : Shard, num : Nat]
Data == Seq(Clients \X Nat)
TypeOK ==
    /\ MasterTypeOK
    /\ \A g \in Gids :
          /\ cfg[g] \in 0..(Len(configs) - 1)
          /\ \A cmd \in Range(log[g]) : cmd.op = "UC" => cmd.num \in 1..(Len(configs) - 1)
          /\ avail[g] \subseteq Shard
          /\ comeIn[g] \subseteq Item
          /\ garb[g] \subseteq keptGarb[g] /\ keptGarb[g] \subseteq Item
          /\ \A r \in toOut[g] : r.data \in Data
          /\ seq[g] \in [Clients -> Nat]

\* A shard is served by one group at most, whatever configurations the groups have
\* got to.
OneServer ==
    \A g, h \in Gids : g # h => avail[g] \cap avail[h] = {}

\* Every append a client was told is done is in the shard, once: in the database of
\* the group that serves it, or on its way in the data put aside last.
NowAt(s) ==
    LET at == {g \in Gids : s \in avail[g]}
        out == {r \in UNION {toOut[g] : g \in Gids} : r.shard = s}
    IN  IF at # {} THEN {db[g][s] : g \in at}
        ELSE {r.data : r \in {x \in out : \A y \in out : y.num <= x.num}}
NoAppendLost ==
    \A c \in Clients : \A i \in 1..client[c].done :
        Script[c][i].op = "append" =>
            LET s == Script[c][i].shard IN
            NowAt(s) # {} /\ \A data \in NowAt(s) : <<c, i>> \in Range(data)
NoAppendTwice == \A s \in Shard : \A data \in NowAt(s) : IsInjective(data)

\* A group is still to be given only shards of the configuration before its own: it
\* never goes on while something is missing.
NothingSkipped ==
    \A g \in Gids : \A item \in comeIn[g] :
        item.num = cfg[g] - 1 /\ item.shard \notin avail[g]

\* Shards change hands in the order of the configurations: a group serves only what
\* the last owner has given up, and goes on only with all it was to be given.
HandedOver == TypeOK /\ OneServer /\ NothingSkipped

\* What an append is acknowledged for, wherever the shard has moved since.
EveryAppendOnce == NoAppendLost /\ NoAppendTwice

\* No server writes a refusal through a context it does not have.
NoNullContext == "null" \notin flaw
\* No thread of pullShardLoop reads an iterator past the end.
IteratorValid == "iterator" \notin flaw

\* In the end every group has the last configuration and all its shards.
ShardsArrive ==
    <>[](\A g \in Gids :
            /\ cfg[g] = Len(configs) - 1
            /\ avail[g] = {s \in Shard : OwnerIn(cfg[g], s) = g})

\* In the end no group keeps the data of a shard it gave away.
DataFreed == <>[](\A g \in Gids : \A r \in toOut[g] : r.data = <<>>)

\* In the end no leader has garbage left to report.
GarbageForgotten == <>[](\A g \in Gids : garb[g] = {})
=============================================================================
