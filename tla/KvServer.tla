------------------------------ MODULE KvServer ------------------------------
(***************************************************************************)
(* The replicated key-value service of LAB3: the RPC handlers, the apply   *)
(* loop and the FIFOs of kvRaft/server.cpp, called by the clerks of        *)
(* kvRaft/client.cpp.  A step is a critical section of m_lock or a system  *)
(* call on a FIFO.                                                         *)
(*                                                                         *)
(* Raft is external here: the log of each term's leader, which starts as a *)
(* part of an older one that holds every committed entry, and the entries  *)
(* committed so far.  An old leader may go on believing that it leads.     *)
(* The store is one key holding the sequence of the writes in its value.   *)
(***************************************************************************)
EXTENDS Integers, Sequences, FiniteSets, SequencesExt

CONSTANTS
    Server,
    First,       \* the leader of term 1
    Clerk,
    Script,      \* Script[c]: the operations clerk c calls
    MaxTerm,     \* bound: terms
    MaxLog,      \* bound: entries of a log
    MaxEarly,    \* bound: time-outs of a handler that could still be answered
    LateNotify,  \* may a handler return while the apply loop is about to open
                 \* its FIFO?
    QuickRetry   \* may a retry make its FIFO before the reader of the clerk's
                 \* earlier call has unlinked the name?

ASSUME FirstAssumption == First \in Server
ASSUME KvScriptAssumption == Script \in [Clerk -> Seq({"put", "append", "get"})]
ASSUME KvBoundsAssumption ==
    /\ {MaxTerm, MaxLog, MaxEarly} \subseteq Nat /\ MaxTerm >= 1
    /\ {LateNotify, QuickRetry} \subseteq BOOLEAN

Term == 1..MaxTerm
None == "none"
ASSUME KvNamesAssumption == None \notin Server /\ None \notin Clerk
NoName == <<>>
NoValue == <<>>

VARIABLES
    leader,    \* leader[t]: the leader of term t, None before its election
    leading,   \* terms whose leader still has m_state LEADER
    log,       \* log[t]: entries [clerk, id, op, term] of that leader
    chosen,    \* the committed entries
    applied,   \* m_lastAppliedIndex
    db,        \* m_database: the value of the key
    seqMap,    \* m_clientSeqMap: 0 when the clerk is not in it
    requestMap,\* m_requestMap: index -> the clerk whose context is there
    call,      \* call[c]: the handler of clerk c's RPC, with its OpContext
    applier,   \* applier[s]: name of the FIFO the apply loop is about to open
    fifo,      \* names that exist: <<clerk, id>>
    orphans,   \* names with a blocked reader whose handler has returned
    unlinkers, \* names about to be unlinked by a reader
    requestId, \* requests a clerk has made so far
    busy,      \* clerks inside get or putAppend
    answer,    \* what a clerk's last finished request returned
    store,     \* history: the value of the key after the chosen entries
    seen,      \* history: seen[c], values of store since c's request was made
    early      \* counter for the bound

raftVars == <<leader, leading, log, chosen>>
stateVars == <<applied, db, seqMap>>
rpcVars == <<requestMap, call, applier, fifo, orphans, unlinkers, early>>
clerkVars == <<requestId, busy, answer>>
historyVars == <<store, seen>>
vars == <<raftVars, stateVars, rpcVars, clerkVars, historyVars>>

NoCall == [pc |-> "idle", server |-> None, index |-> 0, term |-> 0, wrong |-> FALSE,
           value |-> NoValue, recved |-> FALSE]

\* StartKvServer, once Raft has elected a first leader.
Init ==
    /\ leader = [t \in Term |-> IF t = 1 THEN First ELSE None]
    /\ leading = {1}
    /\ log = [t \in Term |-> <<>>]
    /\ chosen = <<>>
    /\ applied = [s \in Server |-> 0]
    /\ db = [s \in Server |-> NoValue]
    /\ seqMap = [s \in Server |-> [c \in Clerk |-> 0]]
    /\ requestMap = [s \in Server |-> [i \in 1..MaxLog |-> None]]
    /\ call = [c \in Clerk |-> NoCall]
    /\ applier = [s \in Server |-> NoName]
    /\ fifo = {}
    /\ orphans = {}
    /\ unlinkers = {}
    /\ early = 0
    /\ requestId = [c \in Clerk |-> 0]
    /\ busy = {}
    /\ answer = [c \in Clerk |-> NoValue]
    /\ store = NoValue
    /\ seen = [c \in Clerk |-> {}]

Name(c) == <<c, requestId[c]>>

\* put and append, the effect on the value of the key.
Written(value, e) ==
    IF e.op = "put" THEN <<<<e.clerk, e.id>>>> ELSE Append(value, <<e.clerk, e.id>>)

-----------------------------------------------------------------------------
(* Raft, external: what server.cpp relies on.                              *)

Latest == CHOOSE t \in Term : leader[t] # None /\ \A u \in Term : u > t => leader[u] = None
HasChosen(l) == IsPrefix(chosen, l)

\* s wins the next term.  What it has of the older logs is up to date for a
\* majority, so it holds every committed entry; the rest may be lost.
Elect(s) ==
    LET t == Latest + 1 IN
    /\ t \in Term
    /\ \E u \in 1..Latest : \E n \in 0..Len(log[u]) :
          /\ HasChosen(SubSeq(log[u], 1, n))
          /\ log' = [log EXCEPT ![t] = SubSeq(log[u], 1, n)]
    /\ leader' = [leader EXCEPT ![t] = s]
    /\ leading' = {u \in leading : leader[u] # s} \cup {t}
    /\ UNCHANGED <<chosen, stateVars, rpcVars, clerkVars, historyVars>>

\* An old leader hears of a newer term.
StepDown(t) ==
    /\ t \in leading /\ t # Latest
    /\ leading' = leading \ {t}
    /\ UNCHANGED <<leader, log, chosen, stateVars, rpcVars, clerkVars, historyVars>>

\* The leader of the newest term has an entry of its own term at a majority:
\* the entries up to it commit, in order.
Commit ==
    LET t == Latest
        e == log[t][Len(chosen) + 1]
        again == \E i \in DOMAIN chosen : chosen[i].clerk = e.clerk /\ chosen[i].id = e.id
    IN  /\ \E n \in (Len(chosen) + 1)..Len(log[t]) : log[t][n].term = t
        /\ chosen' = Append(chosen, e)
        /\ store' = IF e.op = "get" \/ again THEN store ELSE Written(store, e)
        /\ seen' = [c \in Clerk |-> IF c \in busy THEN seen[c] \cup {store'} ELSE seen[c]]
        /\ UNCHANGED <<leader, leading, log, stateVars, rpcVars, clerkVars>>

\* Server s can be told that entry i is committed: an old leader only as far as
\* its own log agrees.
Known(s, i) ==
    /\ i <= Len(chosen)
    /\ \A t \in leading : leader[t] = s => Len(log[t]) >= i /\ log[t][i] = chosen[i]

-----------------------------------------------------------------------------
(* The clerk, and the handlers KVServer::get and KVServer::putAppend.      *)

\* mutant: the index counts from zero
StartFromZero(c, id) ==
    /\ call[c].pc = "idle"
    /\ \E t \in leading :
          /\ Len(log[t]) < MaxLog
          /\ log' = [log EXCEPT ![t] = Append(@,
                [clerk |-> c, id |-> id, op |-> Script[c][id], term |-> t])]
          /\ call' = [call EXCEPT ![c] = [NoCall EXCEPT !.pc = "started",
                !.server = leader[t], !.index = Len(log[t]), !.term = t]]
    /\ UNCHANGED <<leader, leading, chosen, stateVars, requestMap, applier, fifo,
                   orphans, unlinkers, early>>
\* m_raft.start at the server the clerk calls.  A server that does not lead
\* answers "wrong leader" and the clerk calls the next one (getChangeLeader):
\* only the round that meets a leader, the current or an old one, is a step.
\* That server appends the operation and says at which index and in which term.
Start(c, id) ==
    /\ call[c].pc = "idle"
    /\ \E t \in leading :
          /\ Len(log[t]) < MaxLog
          /\ log' = [log EXCEPT ![t] = Append(@,
                [clerk |-> c, id |-> id, op |-> Script[c][id], term |-> t])]
          /\ call' = [call EXCEPT ![c] = [NoCall EXCEPT !.pc = "started",
                !.server = leader[t], !.index = Len(log[t]) + 1, !.term = t]]
    /\ UNCHANGED <<leader, leading, chosen, stateVars, requestMap, applier, fifo,
                   orphans, unlinkers, early>>

\* Clerk::get, Clerk::putAppend: a new request, with the next request number.
Request(c) ==
    LET id == requestId[c] + 1 IN
    /\ c \notin busy
    /\ id <= Len(Script[c])
    /\ requestId' = [requestId EXCEPT ![c] = id]
    /\ busy' = busy \cup {c}
    /\ seen' = [seen EXCEPT ![c] = {store}]
    /\ Start(c, id)
    /\ UNCHANGED <<answer, store>>

\* The clerk's loop goes round: the same request, with the same number.
Retry(c) ==
    /\ c \in busy
    /\ Start(c, requestId[c])
    /\ UNCHANGED <<clerkVars, historyVars>>

\* m_requestMap[ret.m_cmdIndex] = &opctx, over whatever was there.
Register(c) ==
    /\ call[c].pc = "started"
    /\ requestMap' = [requestMap EXCEPT ![call[c].server][call[c].index] = c]
    /\ call' = [call EXCEPT ![c].pc = "registered"]
    /\ UNCHANGED <<raftVars, stateVars, applier, fifo, orphans,
                   unlinkers, early, clerkVars, historyVars>>

\* Select: mkfifo, which leaves an existing FIFO alone, and a reader thread.
MakeFifo(c) ==
    /\ call[c].pc = "registered"
    /\ QuickRetry \/ Name(c) \notin unlinkers
    /\ fifo' = fifo \cup {Name(c)}
    /\ call' = [call EXCEPT ![c].pc =
                   IF Name(c) \in orphans \cup unlinkers THEN "created" ELSE "waiting"]
    /\ UNCHANGED <<raftVars, stateVars, requestMap, applier, orphans, unlinkers,
                   early, clerkVars, historyVars>>

\* Select::work opens the FIFO for reading; when the name is gone again the
\* open and the read fail and isRecved is set all the same.  A step of its own
\* only where another reader of the name can unlink it in between.
OpenFifo(c) ==
    /\ call[c].pc = "created"
    /\ call' = [call EXCEPT ![c].pc = "waiting", ![c].recved = Name(c) \notin fifo]
    /\ UNCHANGED <<raftVars, stateVars, requestMap, applier, fifo, orphans,
                   unlinkers, early, clerkVars, historyVars>>

\* Nothing will be written to the FIFO for this call any more.
Hopeless(c) ==
    LET s == call[c].server  i == call[c].index IN
    /\ ~ \E t \in Server : applier[t] = Name(c)
    /\ \/ requestMap[s][i] # c
       \/ applied[s] >= i
       \/ call[c].term \notin leading

\* mutant: m_requestMap keeps the context
ReplyKeepsContext(c, wrong, value) ==
    /\ UNCHANGED requestMap
    /\ call' = [call EXCEPT ![c] = NoCall]
    /\ busy' = IF wrong THEN busy ELSE busy \ {c}
    /\ answer' = IF wrong THEN answer ELSE [answer EXCEPT ![c] = value]
    /\ seen' = IF wrong THEN seen ELSE [seen EXCEPT ![c] = {}]
    /\ UNCHANGED <<requestId, store>>
\* The tail of a handler: the context leaves m_requestMap (whoever's it is by
\* now) and the reply goes to the clerk, which tries the next server or is done.
Reply(c, wrong, value) ==
    LET s == call[c].server  i == call[c].index IN
    /\ requestMap' = [requestMap EXCEPT ![s][i] = None]
    /\ call' = [call EXCEPT ![c] = NoCall]
    /\ busy' = IF wrong THEN busy ELSE busy \ {c}
    /\ answer' = IF wrong THEN answer ELSE [answer EXCEPT ![c] = value]
    /\ seen' = IF wrong THEN seen ELSE [seen EXCEPT ![c] = {}]
    /\ UNCHANGED <<requestId, store>>

\* mutant: opctx.isWrongLeader is not looked at
ReturnRecvedUnchecked(c) ==
    /\ call[c].pc = "waiting"
    /\ call[c].recved
    /\ Reply(c, FALSE, call[c].value)
    /\ UNCHANGED <<raftVars, stateVars, applier, fifo, orphans, unlinkers, early>>
\* The handler found isRecved set.
ReturnRecved(c) ==
    /\ call[c].pc = "waiting"
    /\ call[c].recved
    /\ Reply(c, call[c].wrong, call[c].value)
    /\ UNCHANGED <<raftVars, stateVars, applier, fifo, orphans, unlinkers, early>>

\* Two seconds are over.
ReturnTimeout(c) ==
    /\ call[c].pc = "waiting"
    /\ ~call[c].recved
    /\ LateNotify \/ applier[call[c].server] # Name(c)
    /\ IF Hopeless(c) THEN UNCHANGED early
       ELSE early < MaxEarly /\ early' = early + 1
    /\ Reply(c, TRUE, NoValue)
    /\ orphans' = orphans \cup {Name(c)}
    /\ UNCHANGED <<raftVars, stateVars, applier, fifo, unlinkers>>

-----------------------------------------------------------------------------
(* The apply loop.                                                         *)

\* mutant: retries are executed again
FreshNever(s, e) == TRUE
\* Not a repetition: the clerk is new or its last request is an older one.
Fresh(s, e) == seqMap[s][e.clerk] = 0 \/ seqMap[s][e.clerk] < e.id

\* The next committed entry is applied, under m_lock.
Apply(s) ==
    LET i == applied[s] + 1
        e == chosen[i]
        c == requestMap[s][i]
    IN  /\ applier[s] = NoName
        /\ Known(s, i)
        /\ applied' = [applied EXCEPT ![s] = i]
        /\ seqMap' = [seqMap EXCEPT ![s][e.clerk] = e.id]
        /\ db' = IF e.op # "get" /\ Fresh(s, e)
                 THEN [db EXCEPT ![s] = Written(@, e)] ELSE db
        /\ IF c = None
           THEN UNCHANGED <<call, applier>>
           ELSE /\ call' = [call EXCEPT ![c].wrong = @ \/ call[c].term # e.term,
                               ![c].value = IF e.op = "get" THEN db[s] ELSE @]
                /\ applier' = [applier EXCEPT ![s] = Name(c)]
        /\ UNCHANGED <<raftVars, requestMap, fifo, orphans, unlinkers, early, clerkVars, historyVars>>

\* The FIFO named by the context is opened, which waits for a reader, and
\* written: every reader waiting on that name is woken.  Without a FIFO of that
\* name nobody is told.  When the handler has returned, the name is read from
\* freed memory: the right name or no name at all.  The reader's unlink is a step
\* of its own unless the request is answered and its name not used again.
Notify(s) ==
    LET n == applier[s]
        waiting == {c \in Clerk : call[c].pc = "waiting" /\ Name(c) = n}
        live == \E c \in Clerk : call[c].pc # "idle" /\ Name(c) = n
    IN  /\ applier[s] # NoName
        /\ applier' = [applier EXCEPT ![s] = NoName]
        /\ \/ /\ n \in fifo
              /\ waiting # {} \/ n \in orphans
              /\ call' = [c \in Clerk |-> [call[c] EXCEPT !.recved = @ \/ c \in waiting]]
              /\ orphans' = orphans \ {n}
              /\ IF \E c \in waiting : ~call[c].wrong
                 THEN fifo' = fifo \ {n} /\ UNCHANGED unlinkers
                 ELSE unlinkers' = unlinkers \cup {n} /\ UNCHANGED fifo
           \/ /\ n \notin fifo \/ ~live
              /\ UNCHANGED <<call, orphans, fifo, unlinkers>>
        /\ UNCHANGED <<raftVars, stateVars, requestMap, early, clerkVars, historyVars>>

\* The end of Select::work.  (An apply loop that waits in its open at this moment
\* would wait for ever, see WriterHasReader; here it goes on.)
Unlink(n) ==
    /\ n \in unlinkers
    /\ unlinkers' = unlinkers \ {n}
    /\ fifo' = fifo \ {n}
    /\ orphans' = orphans \ {n}
    /\ UNCHANGED <<raftVars, stateVars, requestMap, call, applier, early, clerkVars,
                   historyVars>>

RaftStep ==
    \/ \E s \in Server : Elect(s)
    \/ \E t \in Term : StepDown(t)
    \/ Commit
HandlerStep ==
    \E c \in Clerk :
        \/ Request(c) \/ Retry(c) \/ Register(c) \/ MakeFifo(c) \/ OpenFifo(c)
        \/ ReturnRecved(c) \/ ReturnTimeout(c)
ServerStep ==
    \/ \E s \in Server : Apply(s)
    \/ \E s \in Server : Notify(s)
    \/ \E n \in unlinkers : Unlink(n)
Next == RaftStep \/ HandlerStep \/ ServerStep

Spec == Init /\ [][Next]_vars

-----------------------------------------------------------------------------
(* Properties.                                                             *)

TypeOK ==
    /\ leader \in [Term -> Server \cup {None}]
    /\ leading \subseteq Term
    /\ \A t \in Term : Len(log[t]) <= MaxLog
    /\ applied \in [Server -> 0..MaxLog]
    /\ requestMap \in [Server -> [1..MaxLog -> Clerk \cup {None}]]
    /\ \A c \in Clerk : call[c].pc # "idle" =>
          /\ call[c].pc \in {"started", "registered", "created", "waiting"}
          /\ call[c].server \in Server
          /\ call[c].index \in 1..MaxLog
    /\ busy \subseteq Clerk
    /\ early \in 0..MaxEarly

\* The value of the key after a sequence of entries, each request once.
Repeated(es, i) ==
    \E j \in 1..(i - 1) : es[j].clerk = es[i].clerk /\ es[j].id = es[i].id
Effect(es) ==
    LET value[i \in 0..Len(es)] ==
            IF i = 0 THEN NoValue
            ELSE IF es[i].op = "get" \/ Repeated(es, i) THEN value[i - 1]
            ELSE Written(value[i - 1], es[i])
    IN  value[Len(es)]

\* The state of a server is the effect of the entries it has applied, each
\* request once, however often its clerk retried it and wherever.
AppliedOnce ==
    \A s \in Server : db[s] = Effect(SubSeq(chosen, 1, applied[s]))

\* m_requestMap never points at the context of a handler that has returned:
\* what the apply loop writes through it goes to a live call on that index.
ContextsLive ==
    \A s \in Server : \A i \in 1..MaxLog : requestMap[s][i] # None =>
        LET c == call[requestMap[s][i]] IN
        c.pc \in {"registered", "created", "waiting"} /\ c.server = s /\ c.index = i

\* The fields of the server, and above all the pointers to the handlers' contexts
\* on the stack (server.cpp:232, 289), fit together.
CallsConsistent == TypeOK /\ ContextsLive

\* The FIFO the apply loop is about to open belongs to a call that still waits.
NotifiesLive ==
    \A s \in Server : applier[s] # NoName =>
        \E c \in Clerk : call[c].pc # "idle" /\ Name(c) = applier[s]

\* A FIFO the apply loop opens for writing has a reader, or is about to have one:
\* without one the open blocks, and for ever once the name is unlinked.
WriterHasReader ==
    \A s \in Server : applier[s] \in fifo =>
        \/ applier[s] \in orphans
        \/ \E c \in Clerk : call[c].pc \in {"created", "waiting"} /\ Name(c) = applier[s]

\* The service as the clerks see it: one store, each write executed exactly once
\* while it is open, each read answered with a value of that time.
KV == INSTANCE KvStore WITH
    called <- requestId,
    open <- [c \in Clerk |-> c \in busy],
    executed <- [c \in Clerk |->
        \E i \in DOMAIN chosen : Name(c) = <<chosen[i].clerk, chosen[i].id>>
                               /\ chosen[i].op # "get"]
OneStore == KV!Spec
=============================================================================
