--------------------------- MODULE KvServerProofs ---------------------------
(***************************************************************************)
(* Theorems about the key-value service of KvServer.                       *)
(*                                                                         *)
(* The service implements the single store of KvStore (KvOneStore).  The   *)
(* argument goes in layers, each an invariant of its own that uses the     *)
(* ones before it:                                                         *)
(*   Typed     every field keeps its range;                                *)
(*   LogInv    a clerk's requests stand in every log in order, and every   *)
(*             entry is where its own leader put it;                       *)
(*   CallInv   the registered contexts are those of live handlers;         *)
(*   StateInv  a server's state is the effect of what it has applied;      *)
(*   SeenInv   what a waiting clerk may be answered;                       *)
(*   ToldInv   what a handler has been told when it returns.               *)
(* Two facts hold between a state and the next one and are proved once:    *)
(* logs only grow (LogsGrow), and so does what is chosen, applied and seen *)
(* (MoreKnown).                                                            *)
(***************************************************************************)
EXTENDS KvServer, SequenceTheorems, FiniteSetTheorems, WellFoundedInduction, TLAPS

\* Types.  A value is the sequence of the writes it holds; a handler's context is
\* one record (OpContext, and what m_raft.start answered).
Value == Seq(Clerk \X Nat)
Operation == {"put", "append", "get"}
Entry == [clerk : Clerk, id : Nat \ {0}, op : Operation, term : Term]
Place == {"idle", "started", "registered", "created", "waiting"}
Handler == [pc : Place, server : Server \cup {None}, index : Nat, term : Nat,
            wrong : BOOLEAN, value : Value, recved : BOOLEAN]
FifoName == Clerk \X Nat

\* The leaders so far are those of the terms up to n.
Elected(n) == \A t \in Term : leader[t] # None <=> t <= n

\* The terms up to the newest have leaders, and the newest leader leads.
RaftTyped ==
    /\ leader \in [Term -> Server \cup {None}]
    /\ \E n \in Term : Elected(n) /\ n \in leading /\ leading \subseteq 1..n
    /\ log \in [Term -> Seq(Entry)] /\ chosen \in Seq(Entry)
    /\ \A t \in Term : Len(log[t]) <= MaxLog
    /\ Len(chosen) <= MaxLog
\* m_lastAppliedIndex, m_database and m_clientSeqMap.
StateTyped ==
    /\ applied \in [Server -> 0..MaxLog]
    /\ db \in [Server -> Value]
    /\ seqMap \in [Server -> [Clerk -> Nat]]
\* m_requestMap, the handlers' contexts and the FIFOs.
CallsTyped ==
    /\ requestMap \in [Server -> [1..MaxLog -> Clerk \cup {None}]]
    /\ call \in [Clerk -> Handler]
    /\ applier \in [Server -> FifoName \cup {NoName}]
    /\ fifo \subseteq FifoName /\ orphans \subseteq FifoName /\ unlinkers \subseteq FifoName
    /\ early \in 0..MaxEarly
\* The clerks: requests are numbered from 1, along the script.
ClerksTyped ==
    /\ requestId \in [Clerk -> Nat]
    /\ \A c \in Clerk : requestId[c] <= Len(Script[c])
    /\ busy \subseteq Clerk /\ \A c \in busy : requestId[c] # 0
    /\ answer \in [Clerk -> Value]
\* The history variables.
HistoryTyped ==
    /\ store \in Value
    /\ seen \in [Clerk -> SUBSET Value]
\* The type invariant: what each field of the servers and clerks ranges over.
Typed == RaftTyped /\ StateTyped /\ CallsTyped /\ ClerksTyped /\ HistoryTyped

\* An entry of a log is one its clerk asked for; the leader of its term, whose
\* m_raft.start appended it, has it at the same index; and no entry of a newer
\* request of that clerk stands before it.
EntrySound(t, i) ==
    LET e == log[t][i] IN
    /\ e.id <= requestId[e.clerk]
    /\ e.op = Script[e.clerk][e.id]
    /\ e.term <= t
    /\ i <= Len(log[e.term]) /\ log[e.term][i] = e
    /\ \A j \in 1..i : log[t][j].clerk = e.clerk => log[t][j].id <= e.id
\* The logs: none after the newest term, the newest holds what is chosen, and
\* every entry is sound.
LogInv ==
    /\ \A t \in Term : t > Latest => log[t] = <<>>
    /\ Len(chosen) <= Len(log[Latest])
    /\ \A i \in 1..Len(chosen) : chosen[i] = log[Latest][i]
    /\ \A t \in Term : \A i \in 1..Len(log[t]) : EntrySound(t, i)

\* A handler that runs serves its clerk's current request, and its index and term
\* (ret.m_cmdIndex, ret.m_cmdTerm) name the entry start appended for it.
CallSound(c) ==
    LET h == call[c] IN
    h.pc # "idle" =>
        /\ c \in busy
        /\ h.server \in Server
        /\ h.index \in 1..MaxLog
        /\ h.term \in Term /\ h.term <= Latest
        /\ h.index <= Len(log[h.term])
        /\ log[h.term][h.index] =
              [clerk |-> c, id |-> requestId[c], op |-> Script[c][requestId[c]], term |-> h.term]
\* The contexts: m_requestMap points at live ones only, and each is sound.
CallInv == ContextsLive /\ \A c \in Clerk : CallSound(c)

\* m_clientSeqMap has the newest request of each clerk among the applied entries.
LastId(s, c) ==
    /\ \A i \in 1..applied[s] : chosen[i].clerk = c => chosen[i].id <= seqMap[s][c]
    /\ \/ seqMap[s][c] = 0
       \/ \E i \in 1..applied[s] : chosen[i].clerk = c /\ chosen[i].id = seqMap[s][c]
\* A server has applied only chosen entries, and its state is their effect.
StateInv ==
    /\ \A s \in Server : applied[s] <= Len(chosen)
    /\ store = Effect(chosen)
    /\ AppliedOnce
    /\ \A s \in Server : \A c \in Clerk : LastId(s, c)

\* Entry i is of the request clerk c is waiting for.
Of(c, i) == chosen[i].clerk = c /\ chosen[i].id = requestId[c]
\* A waiting clerk has seen the newest value, and every value the store had from
\* the choice of its entry on: a read executed there may be answered.
SeenInv ==
    \A c \in busy :
        /\ store \in seen[c]
        /\ \A i \in 1..Len(chosen) : Of(c, i) =>
              \A k \in (i - 1)..Len(chosen) : Effect(SubSeq(chosen, 1, k)) \in seen[c]

\* The operation clerk c is waiting for.
CurrentOp(c) == Script[c][requestId[c]]
\* The answer in c's context is right: the entry at its index is its own, and a
\* read has a value of the time of the call.
Right(c) ==
    /\ call[c].index <= Len(chosen)
    /\ chosen[call[c].index].term = call[c].term
    /\ CurrentOp(c) = "get" => call[c].value \in seen[c]
    /\ CurrentOp(c) # "get" => call[c].value = NoValue
\* The entry at c's index is applied, and the context holds the right answer
\* unless isWrongLeader was set.
Told(c) ==
    /\ call[c].pc # "idle"
    /\ applied[call[c].server] >= call[c].index
    /\ call[c].wrong \/ Right(c)
\* Request n of clerk c is chosen.
Done(c, n) == \E i \in 1..Len(chosen) : chosen[i].clerk = c /\ chosen[i].id = n
\* What a context holds: the apply loop opens its FIFO, and its reader is woken,
\* only after the answer was written; a FIFO that still has to be opened is there
\* unless that has happened.
CallTold(c) ==
    call[c].pc # "idle" =>
        /\ ~call[c].wrong /\ CurrentOp(c) # "get" => call[c].value = NoValue
        /\ call[c].recved => call[c].pc = "waiting" /\ Told(c)
        /\ applier[call[c].server] = Name(c) => call[c].pc # "started" /\ Told(c) /\ ~call[c].recved
        /\ call[c].pc = "created" =>
              \/ Name(c) \in fifo /\ Name(c) \notin unlinkers
              \/ Told(c) /\ applier[call[c].server] # Name(c)
\* The FIFO the apply loop of s is about to open is that of a live call at s.
Addressed(s) ==
    applier[s] # NoName =>
        \E c \in Clerk : applier[s] = Name(c) /\ call[c].pc # "idle" /\ call[c].server = s
\* Every write that has returned to clerk c is chosen.
WritesDone(c) ==
    \A n \in 1..requestId[c] :
        (n < requestId[c] \/ c \notin busy) /\ Script[c][n] # "get" => Done(c, n)
\* What the handlers know when they return.
ToldInv ==
    /\ \A c \in Clerk : CallTold(c)
    /\ \A s \in Server : Addressed(s)
    /\ \A c \in Clerk : WritesDone(c)

-----------------------------------------------------------------------------
(* Types.                                                                  *)

\* The newest term with a leader is the one the leaders so far end with.
LEMMA LatestIs ==
    ASSUME NEW n \in Term, leader \in [Term -> Server \cup {None}], Elected(n)
    PROVE  Latest = n
<1>1. Term \subseteq Nat
  BY KvBoundsAssumption DEF Term
<1>2. leader[n] # None /\ \A u \in Term : u > n => leader[u] = None
  BY <1>1 DEF Elected
<1>3. \A m \in Term : leader[m] # None /\ (\A u \in Term : u > m => leader[u] = None) => m = n
  BY <1>1 DEF Elected
<1> QED BY <1>2, <1>3 DEF Latest

\* The servers start well typed (StartKvServer).
LEMMA TypedInit == Init => Typed
<1> SUFFICES ASSUME Init PROVE Typed
  OBVIOUS
<1> USE DEF Init
<1>1. 1 \in Term
  BY KvBoundsAssumption DEF Term
<1>2. leader \in [Term -> Server \cup {None}]
  BY FirstAssumption
<1>3. Elected(1) /\ 1 \in leading /\ leading \subseteq 1..1
  BY FirstAssumption, KvNamesAssumption, KvBoundsAssumption DEF Elected, Term
<1>4. NoCall \in Handler
  BY KvBoundsAssumption DEF NoCall, Handler, Place, NoValue, Value
<1>5. call \in [Clerk -> Handler]
  BY <1>4
<1>6. \A c \in Clerk : requestId[c] <= Len(Script[c])
  BY KvScriptAssumption
<1>7. early \in 0..MaxEarly
  BY KvBoundsAssumption
<1>8. /\ log \in [Term -> Seq(Entry)] /\ chosen \in Seq(Entry)
      /\ db \in [Server -> Value]
      /\ answer \in [Clerk -> Value] /\ store \in Value
      /\ \A t \in Term : Len(log[t]) <= MaxLog
      /\ Len(chosen) <= MaxLog
  BY KvBoundsAssumption DEF NoValue, Value
<1>9. /\ applied \in [Server -> 0..MaxLog]
      /\ seqMap \in [Server -> [Clerk -> Nat]]
      /\ requestMap \in [Server -> [1..MaxLog -> Clerk \cup {None}]]
      /\ applier \in [Server -> FifoName \cup {NoName}]
      /\ fifo \subseteq FifoName /\ orphans \subseteq FifoName /\ unlinkers \subseteq FifoName
      /\ requestId \in [Clerk -> Nat]
      /\ busy \subseteq Clerk /\ \A c \in busy : requestId[c] # 0
      /\ seen \in [Clerk -> SUBSET Value]
  BY KvBoundsAssumption
<1> QED
  BY <1>1, <1>2, <1>3, <1>5, <1>6, <1>7, <1>8, <1>9
  DEF Typed, RaftTyped, StateTyped, CallsTyped, ClerksTyped, HistoryTyped

\* The terms, the bounds and the scripts, in the form the proofs use them.
LEMMA Constants ==
    /\ Term \subseteq Nat \ {0} /\ 1 \in Term
    /\ \A t, u \in Nat : t \in Term /\ 1 <= u /\ u <= t => u \in Term
    /\ MaxLog \in Nat /\ MaxEarly \in Nat
    /\ \A c \in Clerk : Script[c] \in Seq(Operation)
BY KvBoundsAssumption, KvScriptAssumption DEF Term, Operation

\* The fields that a step leaves alone keep their types.
LEMMA TypedUnchanged ==
    /\ RaftTyped /\ UNCHANGED raftVars => RaftTyped'
    /\ StateTyped /\ UNCHANGED stateVars => StateTyped'
    /\ CallsTyped /\ UNCHANGED rpcVars => CallsTyped'
    /\ ClerksTyped /\ UNCHANGED clerkVars => ClerksTyped'
    /\ HistoryTyped /\ UNCHANGED historyVars => HistoryTyped'
BY DEF RaftTyped, StateTyped, CallsTyped, ClerksTyped, HistoryTyped, Elected,
       raftVars, stateVars, rpcVars, clerkVars, historyVars

\* m_requestMap holds clerks' contexts or nothing.
LEMMA ContextTyped ==
    CallsTyped => \A s \in Server, i \in 1..MaxLog : requestMap[s][i] \in Clerk \cup {None}
BY DEF CallsTyped

\* The newest term: it has a leader, which leads.
LEMMA LatestTyped ==
    ASSUME RaftTyped
    PROVE  Latest \in Term /\ Elected(Latest) /\ Latest \in leading /\ leading \subseteq 1..Latest
BY LatestIs DEF RaftTyped

\* Latest is the newest term that has a leader, before and after a step.
LatestSound == Latest \in Term /\ \A t \in Term : leader[t] # None <=> t <= Latest

\* The same fact of Latest after a step.
LEMMA LatestPrimed == RaftTyped' => LatestSound'
<1>1. RaftTyped => LatestSound
  BY LatestTyped DEF LatestSound, Elected
<1> QED BY <1>1, PTL

\* The operation a handler hands to start is a log entry.
LEMMA EntryOf ==
    ASSUME ClerksTyped, NEW c \in Clerk, NEW id \in Nat \ {0}, id <= Len(Script[c]), NEW t \in Term
    PROVE  [clerk |-> c, id |-> id, op |-> Script[c][id], term |-> t] \in Entry
<1>1. Script[c] \in Seq(Operation)
  BY Constants
<1>2. id \in 1..Len(Script[c])
  BY <1>1
<1>3. Script[c][id] \in Operation
  BY <1>1, <1>2, ElementOfSeq
<1> QED BY <1>3 DEF Entry

\* The assignments to the fields of one call.
LEMMA SetFields ==
    ASSUME call \in [Clerk -> Handler], NEW c \in Clerk
    PROVE  /\ \A w \in BOOLEAN, v \in Value :
                 call' = [call EXCEPT ![c].wrong = w, ![c].value = v] => call' \in [Clerk -> Handler]
           /\ \A p \in Place, r \in BOOLEAN :
                 call' = [call EXCEPT ![c].pc = p, ![c].recved = r] => call' \in [Clerk -> Handler]
           /\ \A p \in Place : call' = [call EXCEPT ![c].pc = p] => call' \in [Clerk -> Handler]
<1>1. ASSUME NEW w \in BOOLEAN, NEW v \in Value, call' = [call EXCEPT ![c].wrong = w, ![c].value = v]
      PROVE  call' \in [Clerk -> Handler]
  <2>1. PICK h : h = [call[c] EXCEPT !.wrong = w, !.value = v] /\ call' = [call EXCEPT ![c] = h]
    BY <1>1
  <2>2. h \in Handler
    BY <2>1 DEF Handler
  <2> QED BY <2>1, <2>2
<1>2. ASSUME NEW p \in Place, NEW r \in BOOLEAN, call' = [call EXCEPT ![c].pc = p, ![c].recved = r]
      PROVE  call' \in [Clerk -> Handler]
  <2>1. PICK h : h = [call[c] EXCEPT !.pc = p, !.recved = r] /\ call' = [call EXCEPT ![c] = h]
    BY <1>2
  <2>2. h \in Handler
    BY <2>1 DEF Handler
  <2> QED BY <2>1, <2>2
<1>3. ASSUME NEW p \in Place, call' = [call EXCEPT ![c].pc = p]
      PROVE  call' \in [Clerk -> Handler]
  BY <1>3 DEF Handler
<1> QED BY <1>1, <1>2, <1>3

\* The context of a handler whose start has just returned, field by field.
LEMMA StartedCall ==
    ASSUME NEW s, NEW i \in Nat, NEW t \in Nat, NEW h,
           h = [NoCall EXCEPT !.pc = "started", !.server = s, !.index = i, !.term = t]
    PROVE  /\ h = [pc |-> "started", server |-> s, index |-> i, term |-> t,
                   wrong |-> FALSE, value |-> NoValue, recved |-> FALSE]
           /\ s \in Server \cup {None} => h \in Handler
<1>1. h = [pc |-> "started", server |-> s, index |-> i, term |-> t,
           wrong |-> FALSE, value |-> NoValue, recved |-> FALSE]
  BY DEF NoCall
<1>2. NoValue \in Value
  BY DEF NoValue, Value
<1>3. ASSUME s \in Server \cup {None} PROVE h \in Handler
  <2>1. [pc |-> "started", server |-> s, index |-> i, term |-> t,
         wrong |-> FALSE, value |-> NoValue, recved |-> FALSE] \in Handler
    BY <1>2, <1>3 DEF Handler, Place
  <2> QED BY <1>1, <2>1
<1> QED BY <1>1, <1>3

\* m_raft.start keeps the types of Raft, the state and the calls.
LEMMA StartTyped ==
    ASSUME Typed, NEW c \in Clerk, NEW id \in Nat \ {0}, id <= Len(Script[c]), Start(c, id)
    PROVE  RaftTyped' /\ StateTyped' /\ CallsTyped'
<1>1. PICK t \in leading :
          /\ Len(log[t]) < MaxLog
          /\ log' = [log EXCEPT ![t] = Append(@,
                [clerk |-> c, id |-> id, op |-> Script[c][id], term |-> t])]
          /\ call' = [call EXCEPT ![c] = [NoCall EXCEPT !.pc = "started",
                !.server = leader[t], !.index = Len(log[t]) + 1, !.term = t]]
  BY DEF Start
<1>2. t \in Term /\ log[t] \in Seq(Entry) /\ leader[t] \in Server \cup {None}
  BY LatestTyped, Constants DEF Typed, RaftTyped
<1>3. [clerk |-> c, id |-> id, op |-> Script[c][id], term |-> t] \in Entry
  BY <1>2, EntryOf DEF Typed
<1>4. log' \in [Term -> Seq(Entry)] /\ \A u \in Term : Len(log'[u]) <= MaxLog
  <2>1. Append(log[t], [clerk |-> c, id |-> id, op |-> Script[c][id], term |-> t]) \in Seq(Entry)
    BY <1>2, <1>3
  <2>2. Len(Append(log[t], [clerk |-> c, id |-> id, op |-> Script[c][id], term |-> t])) <= MaxLog
    BY <1>1, <1>2, <1>3, Constants
  <2> QED BY <1>1, <1>2, <2>1, <2>2 DEF Typed, RaftTyped
<1>5. RaftTyped'
  BY <1>4 DEF Start, Typed, RaftTyped, Elected
<1>6. PICK h : /\ h = [NoCall EXCEPT !.pc = "started",
                          !.server = leader[t], !.index = Len(log[t]) + 1, !.term = t]
               /\ call' = [call EXCEPT ![c] = h]
  BY <1>1
<1>7. h \in Handler
  <2>1. Len(log[t]) + 1 \in Nat /\ t \in Nat
    BY <1>2, Constants
  <2> QED BY <2>1, <1>2, <1>6, StartedCall
<1>8. CallsTyped'
  BY <1>6, <1>7 DEF Start, Typed, CallsTyped
<1> QED BY <1>5, <1>8, TypedUnchanged DEF Start, Typed

\* A new request of a clerk keeps the types.
LEMMA RequestTyped ==
    ASSUME Typed, NEW c \in Clerk, Request(c)
    PROVE  Typed'
<1> DEFINE id == requestId[c] + 1
<1>1. id \in Nat \ {0} /\ id <= Len(Script[c]) /\ Start(c, id)
  BY DEF Request, Typed, ClerksTyped
<1>2. RaftTyped' /\ StateTyped' /\ CallsTyped'
  <2> HIDE DEF id
  <2> QED BY <1>1, StartTyped
<1>3. ClerksTyped'
  BY <1>1 DEF Request, Typed, ClerksTyped
<1>4. HistoryTyped'
  BY DEF Request, Typed, HistoryTyped
<1> QED BY <1>2, <1>3, <1>4 DEF Typed

\* The first n elements of a sequence.
LEMMA FirstOf ==
    ASSUME NEW S, NEW q \in Seq(S), NEW n \in 0..Len(q)
    PROVE  /\ SubSeq(q, 1, n) \in Seq(S)
           /\ Len(SubSeq(q, 1, n)) = n
           /\ \A i \in 1..n : SubSeq(q, 1, n)[i] = q[i]
<1>1. Len(q) \in Nat
  OBVIOUS
<1>2. \A i \in 1..n : q[i] \in S
  BY <1>1
<1>3. 1 \in Int /\ n \in Int
  BY <1>1
<1> QED BY <1>1, <1>2, <1>3, SubSeqProperties

\* IsPrefix, element by element.
LEMMA IsPrefixElements ==
    ASSUME NEW S, NEW q \in Seq(S), NEW r \in Seq(S)
    PROVE  IsPrefix(q, r) => Len(q) <= Len(r) /\ \A i \in 1..Len(q) : q[i] = r[i]
<1> SUFFICES ASSUME IsPrefix(q, r) PROVE Len(q) <= Len(r) /\ \A i \in 1..Len(q) : q[i] = r[i]
  OBVIOUS
<1>1. Len(q) \in Nat /\ Len(r) \in Nat /\ Len(q) <= Len(r)
  BY DEF IsPrefix
<1>2. Len(q) \in 0..Len(q) /\ Len(q) \in 0..Len(r)
  BY <1>1
<1>3. /\ \A i \in 1..Len(q) : SubSeq(q, 1, Len(q))[i] = q[i]
      /\ \A i \in 1..Len(q) : SubSeq(r, 1, Len(q))[i] = r[i]
  BY <1>2, FirstOf
<1> QED BY <1>1, <1>3 DEF IsPrefix

\* put and append yield a value.
LEMMA WrittenTyped ==
    ASSUME NEW v \in Value, NEW e \in Entry
    PROVE  Written(v, e) \in Value
<1>1. PICK w \in Clerk \X Nat : w = <<e.clerk, e.id>>
  BY DEF Entry
<1>2. <<w>> \in Seq(Clerk \X Nat) /\ Append(v, w) \in Seq(Clerk \X Nat)
  BY DEF Value
<1> QED BY <1>1, <1>2 DEF Written, Value

\* Elections, step downs and commits keep the types.
LEMMA RaftStepTyped ==
    ASSUME Typed, RaftStep
    PROVE  Typed'
<1> USE DEF Typed
<1>1. ASSUME NEW s \in Server, Elect(s) PROVE Typed'
  <2>0. PICK t \in Nat : t = Latest + 1
    BY LatestTyped, Constants
  <2>1. PICK u \in 1..Latest : \E n \in 0..Len(log[u]) : log' = [log EXCEPT ![t] = SubSeq(log[u], 1, n)]
    BY <1>1, <2>0 DEF Elect
  <2>2. PICK n \in 0..Len(log[u]) : log' = [log EXCEPT ![t] = SubSeq(log[u], 1, n)]
    BY <2>1
  <2>3. Latest \in Nat /\ u \in Nat /\ 1 <= u /\ u <= Latest
    BY LatestTyped, Constants
  <2>4. u \in Term
    BY <2>3, LatestTyped, Constants
  <2>5. log[u] \in Seq(Entry) /\ Len(log[u]) <= MaxLog
    BY <2>4 DEF RaftTyped
  <2>6. SubSeq(log[u], 1, n) \in Seq(Entry) /\ Len(SubSeq(log[u], 1, n)) = n /\ n <= MaxLog
    BY <2>5, FirstOf, Constants
  <2>7. log' \in [Term -> Seq(Entry)] /\ \A v \in Term : Len(log'[v]) <= MaxLog
    BY <2>2, <2>6 DEF RaftTyped
  <2>8. t \in Term /\ t \in Nat
    BY <1>1, <2>0, <2>3 DEF Elect
  <2>9. leader' \in [Term -> Server \cup {None}]
    BY <1>1, <2>0, <2>8 DEF Elect, RaftTyped
  <2>10. Elected(t)'
    <3>1. \A v \in Term : leader'[v] = IF v = t THEN s ELSE leader[v]
      BY <1>1, <2>0, <2>8 DEF Elect, RaftTyped
    <3>2. Elected(Latest) /\ s # None
      BY LatestTyped, KvNamesAssumption
    <3> QED BY <3>1, <3>2, <2>0, <2>3, <2>8, Constants DEF Elected
  <2>11. t \in leading' /\ leading' \subseteq 1..t
    BY <1>1, <2>0, <2>3, <2>8, LatestTyped DEF Elect
  <2>12. RaftTyped'
    <3>1. \E v \in Term : Elected(v)' /\ v \in leading' /\ leading' \subseteq 1..v
      BY <2>8, <2>10, <2>11
    <3>2. UNCHANGED chosen
      BY <1>1 DEF Elect
    <3> QED BY <3>1, <3>2, <2>7, <2>9 DEF RaftTyped
  <2> QED BY <1>1, <2>12, TypedUnchanged DEF Elect
<1>2. ASSUME NEW t \in Term, StepDown(t) PROVE Typed'
  <2>1. \E n \in Term : Elected(n)' /\ n \in leading' /\ leading' \subseteq 1..n
    <3>1. leading' = leading \ {t} /\ t # Latest /\ UNCHANGED leader
      BY <1>2 DEF StepDown
    <3>2. Latest \in Term /\ Elected(Latest) /\ Latest \in leading /\ leading \subseteq 1..Latest
      BY LatestTyped
    <3>3. PICK n \in Term : n = Latest /\ Elected(n)
      BY <3>2
    <3> QED BY <3>1, <3>2, <3>3 DEF Elected
  <2>2. RaftTyped'
    BY <1>2, <2>1 DEF StepDown, RaftTyped, raftVars
  <2> QED BY <1>2, <2>2, TypedUnchanged DEF StepDown
<1>3. ASSUME Commit PROVE Typed'
  <2> DEFINE e == log[Latest][Len(chosen) + 1]
  <2>1. Latest \in Term /\ log[Latest] \in Seq(Entry) /\ chosen \in Seq(Entry) /\ Len(log[Latest]) <= MaxLog
    BY LatestTyped DEF RaftTyped
  <2>2. Len(chosen) + 1 \in 1..Len(log[Latest])
    BY <1>3, <2>1 DEF Commit
  <2>3. e \in Entry
    BY <2>1, <2>2
  <2>4. chosen' = Append(chosen, e)
    BY <1>3 DEF Commit
  <2>5. chosen' \in Seq(Entry) /\ Len(chosen') <= MaxLog
    <3> HIDE DEF e
    <3> QED BY <2>1, <2>2, <2>3, <2>4, Constants
  <2>6. RaftTyped'
    BY <1>3, <2>5 DEF Commit, RaftTyped, Elected
  <2>7. store' \in Value
    <3>1. store' = store \/ store' = Written(store, e)
      BY <1>3 DEF Commit
    <3> HIDE DEF e
    <3> QED BY <3>1, <2>3, WrittenTyped DEF HistoryTyped
  <2>8. seen' \in [Clerk -> SUBSET Value]
    BY <1>3, <2>7 DEF Commit, HistoryTyped
  <2> QED BY <1>3, <2>6, <2>7, <2>8, TypedUnchanged DEF Commit, HistoryTyped
<1> QED BY <1>1, <1>2, <1>3 DEF RaftStep

\* The tail of a handler.
LEMMA ReplyTyped ==
    ASSUME Typed, NEW c \in Clerk, NEW wrong \in BOOLEAN, NEW value \in Value, Reply(c, wrong, value)
    PROVE  /\ requestMap' \in [Server -> [1..MaxLog -> Clerk \cup {None}]]
           /\ call' \in [Clerk -> Handler]
           /\ ClerksTyped' /\ HistoryTyped'
<1> USE DEF Typed
<1>1. requestMap' \in [Server -> [1..MaxLog -> Clerk \cup {None}]]
  BY DEF Reply, CallsTyped
<1>2. NoCall \in Handler
  BY DEF NoCall, Handler, Place, NoValue, Value
<1>3. call' \in [Clerk -> Handler]
  BY <1>2 DEF Reply, CallsTyped
<1>4. ClerksTyped'
  BY DEF Reply, ClerksTyped
<1>5. HistoryTyped'
  BY DEF Reply, HistoryTyped
<1> QED BY <1>1, <1>3, <1>4, <1>5

\* The steps of a handler, get or putAppend, keep the types.
LEMMA HandlerStepTyped ==
    ASSUME Typed, NEW c \in Clerk,
           \/ Retry(c) \/ Register(c) \/ MakeFifo(c) \/ OpenFifo(c)
           \/ ReturnRecved(c) \/ ReturnTimeout(c)
    PROVE  Typed'
<1> USE DEF Typed
<1>1. Name(c) \in FifoName
  BY DEF Name, FifoName, ClerksTyped
<1>2. CASE Retry(c)
  <2>1. RaftTyped' /\ StateTyped' /\ CallsTyped'
    <3>1. requestId[c] \in Nat \ {0} /\ requestId[c] <= Len(Script[c])
      BY <1>2 DEF ClerksTyped, Retry
    <3>2. Start(c, requestId[c])
      BY <1>2 DEF Retry
    <3> QED BY <3>1, <3>2, StartTyped
  <2> QED BY <1>2, <2>1, TypedUnchanged DEF Retry
<1>3. CASE Register(c)
  <2>1. requestMap' \in [Server -> [1..MaxLog -> Clerk \cup {None}]]
    BY <1>3 DEF Register, CallsTyped
  <2>2. call' \in [Clerk -> Handler]
    BY <1>3, SetFields DEF Register, CallsTyped, Place
  <2> QED BY <1>3, <2>1, <2>2, TypedUnchanged DEF Register, CallsTyped
<1>4. CASE MakeFifo(c)
  <2>1. call' \in [Clerk -> Handler]
    <3>1. \E p \in Place : call' = [call EXCEPT ![c].pc = p]
      BY <1>4 DEF MakeFifo, Place
    <3> QED BY <3>1, SetFields DEF CallsTyped
  <2> QED BY <1>1, <1>4, <2>1, TypedUnchanged DEF MakeFifo, CallsTyped
<1>5. CASE OpenFifo(c)
  <2>1. call' \in [Clerk -> Handler]
    <3>1. \E r \in BOOLEAN : call' = [call EXCEPT ![c].pc = "waiting", ![c].recved = r]
      BY <1>5 DEF OpenFifo
    <3> QED BY <3>1, SetFields DEF CallsTyped, Place
  <2> QED BY <1>5, <2>1, TypedUnchanged DEF OpenFifo, CallsTyped
<1>6. CASE ReturnRecved(c)
  <2>1. call[c].wrong \in BOOLEAN /\ call[c].value \in Value /\ Reply(c, call[c].wrong, call[c].value)
    BY <1>6 DEF ReturnRecved, CallsTyped, Handler
  <2>2. /\ requestMap' \in [Server -> [1..MaxLog -> Clerk \cup {None}]]
        /\ call' \in [Clerk -> Handler]
        /\ ClerksTyped' /\ HistoryTyped'
    BY <2>1, ReplyTyped
  <2> QED BY <1>6, <2>2, TypedUnchanged DEF ReturnRecved, CallsTyped
<1>7. CASE ReturnTimeout(c)
  <2>1. NoValue \in Value
    BY DEF NoValue, Value
  <2>2. /\ requestMap' \in [Server -> [1..MaxLog -> Clerk \cup {None}]]
        /\ call' \in [Clerk -> Handler]
        /\ ClerksTyped' /\ HistoryTyped'
    BY <1>7, <2>1, ReplyTyped DEF ReturnTimeout
  <2>3. early' \in 0..MaxEarly
    BY <1>7, Constants DEF ReturnTimeout, CallsTyped
  <2> QED BY <1>1, <1>7, <2>2, <2>3, TypedUnchanged DEF ReturnTimeout, CallsTyped
<1> QED BY <1>2, <1>3, <1>4, <1>5, <1>6, <1>7

\* The apply loop and the readers of the FIFOs keep the types.
LEMMA ServerStepTyped ==
    ASSUME Typed, ServerStep
    PROVE  Typed'
<1> USE DEF Typed
<1>1. ASSUME NEW s \in Server, Apply(s) PROVE Typed'
  <2> DEFINE i == applied[s] + 1
             e == chosen[i]
             c == requestMap[s][i]
  <2>1. i \in 1..Len(chosen) /\ i \in 1..MaxLog
    BY <1>1, Constants DEF Apply, Known, RaftTyped, StateTyped
  <2>2. e \in Entry
    BY <2>1 DEF RaftTyped
  <2>3. applied' \in [Server -> 0..MaxLog]
    BY <1>1, <2>1 DEF Apply, StateTyped
  <2>4. seqMap' \in [Server -> [Clerk -> Nat]]
    BY <1>1, <2>2 DEF Apply, StateTyped, Entry
  <2>5. db' \in [Server -> Value]
    <3>1. db' = db \/ db' = [db EXCEPT ![s] = Written(@, e)]
      BY <1>1 DEF Apply
    <3>2. Written(db[s], e) \in Value
      BY <2>2, WrittenTyped DEF StateTyped
    <3> QED BY <3>1, <3>2 DEF StateTyped
  <2>6. CallsTyped'
    <3>1. CASE c = None
      BY <1>1, <3>1 DEF Apply, CallsTyped
    <3>2. CASE c # None
      <4>1. c \in Clerk
        <5>1. PICK j \in 1..MaxLog : j = i
          BY <2>1
        <5>2. requestMap[s][j] \in Clerk \cup {None}
          BY <1>1 DEF CallsTyped
        <5> QED BY <5>1, <5>2, <3>2
      <4>2. Name(c) \in FifoName
        BY <4>1 DEF Name, FifoName, ClerksTyped
      <4>3. applier' \in [Server -> FifoName \cup {NoName}]
        BY <1>1, <3>2, <4>2 DEF Apply, CallsTyped
      <4>4. PICK w, v : call' = [call EXCEPT ![c].wrong = w, ![c].value = v]
                        /\ w \in BOOLEAN /\ v \in Value
        <5>1. call' = [call EXCEPT ![c].wrong = @ \/ call[c].term # e.term,
                                   ![c].value = IF e.op = "get" THEN db[s] ELSE @]
          BY <1>1, <3>2 DEF Apply
        <5>2. db[s] \in Value /\ call[c].value \in Value /\ call[c].wrong \in BOOLEAN
          BY <4>1 DEF StateTyped, CallsTyped, Handler
        <5> QED BY <5>1, <5>2
      <4>5. call' \in [Clerk -> Handler]
        BY <4>1, <4>4, SetFields DEF CallsTyped
      <4> QED BY <1>1, <4>3, <4>5 DEF Apply, CallsTyped
    <3> QED BY <3>1, <3>2
  <2> QED BY <1>1, <2>3, <2>4, <2>5, <2>6, TypedUnchanged DEF Apply, StateTyped
<1>2. ASSUME NEW s \in Server, Notify(s) PROVE Typed'
  <2>1. call' \in [Clerk -> Handler]
    <3>1. PICK W : call' = call \/ call' = [c \in Clerk |-> [call[c] EXCEPT !.recved = @ \/ c \in W]]
      BY <1>2 DEF Notify
    <3>2. \A c \in Clerk : [call[c] EXCEPT !.recved = @ \/ c \in W] \in Handler
      BY DEF CallsTyped, Handler
    <3> QED BY <3>1, <3>2 DEF CallsTyped
  <2>2. applier' \in [Server -> FifoName \cup {NoName}]
    BY <1>2 DEF Notify, CallsTyped
  <2>3. applier[s] \in FifoName
    BY <1>2 DEF Notify, CallsTyped
  <2>4. fifo' \subseteq FifoName /\ orphans' \subseteq FifoName /\ unlinkers' \subseteq FifoName
    BY <1>2, <2>3 DEF Notify, CallsTyped
  <2> QED BY <1>2, <2>1, <2>2, <2>4, TypedUnchanged DEF Notify, CallsTyped
<1>3. ASSUME NEW n \in unlinkers, Unlink(n) PROVE Typed'
  BY <1>3, TypedUnchanged DEF Unlink, CallsTyped
<1> QED BY <1>1, <1>2, <1>3 DEF ServerStep

\* Every step keeps the types.
LEMMA TypedNext == Typed /\ [Next]_vars => Typed'
<1> SUFFICES ASSUME Typed, [Next]_vars PROVE Typed'
  OBVIOUS
<1>1. CASE RaftStep
  BY <1>1, RaftStepTyped
<1>2. CASE HandlerStep
  BY <1>2, RequestTyped, HandlerStepTyped DEF HandlerStep
<1>3. CASE ServerStep
  BY <1>3, ServerStepTyped
<1>4. CASE UNCHANGED vars
  BY <1>4, TypedUnchanged DEF vars, Typed
<1> QED BY <1>1, <1>2, <1>3, <1>4 DEF Next

\* The type invariant holds: every field of the servers, the handlers' contexts
\* and the clerks keeps its range through every operation of kvRaft/server.cpp.
THEOREM KvTyped == Spec => []Typed
BY TypedInit, TypedNext, PTL DEF Spec

-----------------------------------------------------------------------------
(* The logs.                                                               *)

\* The empty logs are sound.
LEMMA LogInit == Init => LogInv
<1> SUFFICES ASSUME Init PROVE LogInv
  OBVIOUS
<1>1. \A t \in Term : log[t] = <<>>
  BY DEF Init
<1>2. Typed
  BY TypedInit
<1>3. Latest \in Term
  BY <1>2, LatestTyped DEF Typed
<1>4. chosen = <<>>
  BY DEF Init
<1> QED BY <1>1, <1>3, <1>4 DEF LogInv

\* A new leader's log is a part of an older one that holds every chosen entry.
LEMMA ElectLog ==
    ASSUME Typed, Typed', NEW s \in Server, Elect(s)
    PROVE  \E t \in Term, u \in Term, q \in Seq(Entry) :
             /\ t = Latest + 1 /\ Latest' = t /\ u < t
             /\ Len(q) <= Len(log[u]) /\ \A i \in 1..Len(q) : q[i] = log[u][i]
             /\ Len(chosen) <= Len(q) /\ \A i \in 1..Len(chosen) : chosen[i] = q[i]
             /\ \A v \in Term : log'[v] = IF v = t THEN q ELSE log[v]
             /\ UNCHANGED <<chosen, requestId>>
<1> USE DEF Typed
<1>0. PICK t \in Nat : t = Latest + 1 /\ t \in Term
  BY LatestTyped, Constants DEF Elect
<1>1. PICK u \in 1..Latest : \E n \in 0..Len(log[u]) :
        HasChosen(SubSeq(log[u], 1, n)) /\ log' = [log EXCEPT ![t] = SubSeq(log[u], 1, n)]
  BY <1>0 DEF Elect
<1>2. PICK n \in 0..Len(log[u]) :
        HasChosen(SubSeq(log[u], 1, n)) /\ log' = [log EXCEPT ![t] = SubSeq(log[u], 1, n)]
  BY <1>1
<1>3. Latest \in Term /\ Latest \in Nat /\ u \in Nat /\ 1 <= u /\ u <= Latest /\ u < t
  BY <1>0, LatestTyped, Constants
<1>4. u \in Term
  BY <1>3, Constants
<1>5. log[u] \in Seq(Entry) /\ chosen \in Seq(Entry) /\ Len(chosen) \in Nat
  BY <1>4 DEF RaftTyped
<1>6. PICK q \in Seq(Entry) : q = SubSeq(log[u], 1, n) /\ Len(q) = n /\ \A i \in 1..n : q[i] = log[u][i]
  <2>1. /\ SubSeq(log[u], 1, n) \in Seq(Entry)
        /\ Len(SubSeq(log[u], 1, n)) = n
        /\ \A i \in 1..n : SubSeq(log[u], 1, n)[i] = log[u][i]
    BY <1>5, FirstOf
  <2> QED BY <2>1
<1>7. \A v \in Term : log'[v] = IF v = t THEN q ELSE log[v]
  BY <1>0, <1>2, <1>6 DEF RaftTyped
<1>8. Latest' = t
  <2>1. leader' \in [Term -> Server \cup {None}] /\ \A v \in Term : leader'[v] = IF v = t THEN s ELSE leader[v]
    BY <1>0 DEF Elect, RaftTyped
  <2>2. Elected(Latest) /\ s # None
    BY LatestTyped, KvNamesAssumption
  <2>3. Elected(t)'
    BY <2>1, <2>2, <1>0, <1>3, Constants DEF Elected
  <2>4. RaftTyped'
    OBVIOUS
  <2>5. PICK m \in Term : m = Latest' /\ \A v \in Term : leader'[v] # None <=> v <= m
    BY <2>4, LatestPrimed DEF LatestSound
  <2> QED BY <2>3, <2>5, <1>0, Constants DEF Elected
<1>9. UNCHANGED <<chosen, requestId>>
  BY DEF Elect, clerkVars
<1>10. Len(chosen) <= n /\ \A i \in 1..Len(chosen) : chosen[i] = q[i]
  BY <1>2, <1>5, <1>6, IsPrefixElements DEF HasChosen
<1> QED
  <2>1. t \in Term /\ u \in Term /\ q \in Seq(Entry)
    BY <1>0, <1>4
  <2>2. Len(q) <= Len(log[u]) /\ \A i \in 1..Len(q) : q[i] = log[u][i]
    BY <1>5, <1>6
  <2>3. Len(chosen) <= Len(q) /\ \A i \in 1..Len(chosen) : chosen[i] = q[i]
    BY <1>6, <1>10
  <2> QED BY <2>1, <2>2, <2>3, <1>0, <1>3, <1>7, <1>8, <1>9

\* A new leader's log is sound: its entries keep their places.
LEMMA LogElect ==
    ASSUME Typed, Typed', LogInv, NEW s \in Server, Elect(s)
    PROVE  LogInv'
<1> USE DEF Typed
<1>1. PICK t \in Term, u \in Term, q \in Seq(Entry) :
             /\ t = Latest + 1 /\ Latest' = t /\ u < t
             /\ Len(q) <= Len(log[u]) /\ \A i \in 1..Len(q) : q[i] = log[u][i]
             /\ Len(chosen) <= Len(q) /\ \A i \in 1..Len(chosen) : chosen[i] = q[i]
             /\ \A v \in Term : log'[v] = IF v = t THEN q ELSE log[v]
             /\ UNCHANGED <<chosen, requestId>>
  BY ElectLog
<1>2. Latest \in Nat /\ t \in Nat /\ u \in Nat
  BY LatestTyped, Constants
<1>11. \A v \in Term : v > Latest => log[v] = <<>>
  BY DEF LogInv
<1>12. ASSUME NEW v \in Term, NEW i \in 1..Len(log'[v]) PROVE EntrySound(v, i)'
  <2>1. PICK w \in Term : /\ i \in 1..Len(log[w]) /\ w # t /\ w <= v
                          /\ log'[v][i] = log[w][i]
                          /\ \A j \in 1..i : log'[v][j] = log[w][j]
    <3>1. CASE v = t
      <4>1. i \in 1..Len(q) /\ Len(q) \in Nat
        BY <3>1, <1>1
      <4>2. i \in 1..Len(log[u])
        <5>1. Len(log[u]) \in Nat
          BY DEF RaftTyped
        <5> QED BY <4>1, <5>1, <1>1
      <4>3. u \in Term /\ u # t /\ u <= v /\ \A j \in 1..i : j \in 1..Len(q)
        BY <3>1, <4>1, <1>1, <1>2
      <4> QED BY <3>1, <4>1, <4>2, <4>3, <1>1
    <3>2. CASE v # t
      BY <3>2, <1>1, Constants
    <3> QED BY <3>1, <3>2
  <2>2. EntrySound(w, i)
    BY <2>1 DEF LogInv
  <2>3. PICK e \in Entry : e = log[w][i]
    <3>1. log[w] \in Seq(Entry)
      BY <2>1 DEF RaftTyped
    <3> QED BY <2>1, <3>1
  <2>4. e.term \in Term /\ e.term # t
    <3>1. log[t] = <<>>
      BY <1>1, <1>2, <1>11
    <3> QED BY <2>1, <2>2, <2>3, <3>1 DEF EntrySound, Entry
  <2>5. log'[e.term] = log[e.term]
    BY <2>4, <1>1
  <2>6. e.term <= v
    <3>1. e.term <= w
      BY <2>2, <2>3 DEF EntrySound
    <3>2. e.term \in Nat /\ w \in Nat /\ v \in Nat /\ w <= v
      BY <2>1, <2>4, Constants
    <3> QED BY <3>1, <3>2
  <2> QED BY <2>1, <2>2, <2>3, <2>5, <2>6, <1>1 DEF EntrySound
<1>13. \A v \in Term : v > Latest' => log'[v] = <<>>
  BY <1>1, <1>2, <1>11, Constants
<1>14. Len(chosen') <= Len(log'[Latest']) /\ \A i \in 1..Len(chosen') : chosen'[i] = log'[Latest'][i]
  BY <1>1
<1> QED BY <1>12, <1>13, <1>14 DEF LogInv

\* Nothing of what LogInv is about changes.
LEMMA LogUnchanged ==
    LogInv /\ UNCHANGED <<raftVars, requestId>> => LogInv'
<1> SUFFICES ASSUME LogInv, UNCHANGED <<raftVars, requestId>> PROVE LogInv'
  OBVIOUS
<1>1. Latest' = Latest /\ \A t, i : EntrySound(t, i)' <=> EntrySound(t, i)
  BY DEF EntrySound, raftVars, Latest
<1> QED BY <1>1 DEF LogInv, raftVars

\* Committing the next entry of the newest log keeps the logs sound.
LEMMA LogCommit ==
    ASSUME Typed, LogInv, Commit
    PROVE  LogInv'
<1> USE DEF Typed
<1>1. Latest' = Latest /\ UNCHANGED <<log, requestId>>
  BY DEF Commit, Latest, clerkVars
<1>2. Latest \in Term /\ log[Latest] \in Seq(Entry) /\ chosen \in Seq(Entry)
  BY LatestTyped DEF RaftTyped
<1>3. Len(chosen) + 1 \in 1..Len(log[Latest]) /\ chosen' = Append(chosen, log[Latest][Len(chosen) + 1])
  BY <1>2 DEF Commit
<1>4. Len(chosen') = Len(chosen) + 1
      /\ \A i \in 1..(Len(chosen) + 1) :
            chosen'[i] = IF i = Len(chosen) + 1 THEN log[Latest][Len(chosen) + 1] ELSE chosen[i]
  <2>1. PICK e \in Entry : e = log[Latest][Len(chosen) + 1]
    BY <1>2, <1>3
  <2> QED BY <2>1, <1>2, <1>3
<1>5. Len(chosen') <= Len(log'[Latest']) /\ \A i \in 1..Len(chosen') : chosen'[i] = log'[Latest'][i]
  BY <1>1, <1>2, <1>3, <1>4 DEF LogInv
<1> QED BY <1>1, <1>5 DEF LogInv, EntrySound

\* What m_raft.start leaves: its entry at the end of the log of term t, and the
\* call h that waits for it.
StartedAt(c, id, t, h) ==
    /\ t \in leading
    /\ t \in Term /\ t <= Latest
    /\ log[t] \in Seq(Entry) /\ Len(log[t]) < MaxLog
    /\ LET e == [clerk |-> c, id |-> id, op |-> Script[c][id], term |-> t] IN
       /\ e \in Entry
       /\ \A u \in Term : u # t => log'[u] = log[u]
       /\ Len(log'[t]) = Len(log[t]) + 1
       /\ \A i \in 1..Len(log[t]) : log'[t][i] = log[t][i]
       /\ log'[t][Len(log[t]) + 1] = e
    /\ h = [pc |-> "started", server |-> leader[t], index |-> Len(log[t]) + 1,
            term |-> t, wrong |-> FALSE, value |-> NoValue, recved |-> FALSE]
    /\ call' = [call EXCEPT ![c] = h]

\* m_raft.start appends to one log an entry of its clerk's newest request.
LEMMA StartLog ==
    ASSUME Typed, NEW c \in Clerk, NEW id \in Nat \ {0}, id <= Len(Script[c]), Start(c, id)
    PROVE  \E t, h : StartedAt(c, id, t, h)
<1> USE DEF Typed
<1>1. PICK t \in leading :
          /\ Len(log[t]) < MaxLog
          /\ log' = [log EXCEPT ![t] = Append(@,
                [clerk |-> c, id |-> id, op |-> Script[c][id], term |-> t])]
          /\ call' = [call EXCEPT ![c] = [NoCall EXCEPT !.pc = "started",
                !.server = leader[t], !.index = Len(log[t]) + 1, !.term = t]]
  BY DEF Start
<1>2. t \in Term /\ t \in Nat /\ t <= Latest /\ log[t] \in Seq(Entry) /\ Len(log[t]) \in Nat
  BY LatestTyped, Constants DEF RaftTyped
<1>3. PICK e \in Entry : e = [clerk |-> c, id |-> id, op |-> Script[c][id], term |-> t]
  BY <1>2, EntryOf
<1>4. log' = [log EXCEPT ![t] = Append(@, e)]
  BY <1>1, <1>3
<1>5. /\ \A u \in Term : u # t => log'[u] = log[u]
      /\ log'[t] = Append(log[t], e)
  BY <1>2, <1>4 DEF RaftTyped
<1>6. /\ Len(log'[t]) = Len(log[t]) + 1
      /\ \A i \in 1..Len(log[t]) : log'[t][i] = log[t][i]
      /\ log'[t][Len(log[t]) + 1] = e
  BY <1>2, <1>5
<1>7. PICK h : /\ h = [NoCall EXCEPT !.pc = "started",
                          !.server = leader[t], !.index = Len(log[t]) + 1, !.term = t]
               /\ call' = [call EXCEPT ![c] = h]
  BY <1>1
<1>8. h = [pc |-> "started", server |-> leader[t], index |-> Len(log[t]) + 1,
           term |-> t, wrong |-> FALSE, value |-> NoValue, recved |-> FALSE]
  <2>1. Len(log[t]) + 1 \in Nat
    BY <1>2
  <2> QED BY <2>1, <1>2, <1>7, StartedCall
<1>9. [clerk |-> c, id |-> id, op |-> Script[c][id], term |-> t] \in Entry
  BY <1>3
<1> HIDE DEF Typed
<1>10. t \in leading /\ t \in Term /\ t <= Latest /\ log[t] \in Seq(Entry) /\ Len(log[t]) < MaxLog
  BY <1>1, <1>2
<1>11. log'[t][Len(log[t]) + 1] = [clerk |-> c, id |-> id, op |-> Script[c][id], term |-> t]
  BY <1>3, <1>6
<1>12. Len(log'[t]) = Len(log[t]) + 1 /\ \A i \in 1..Len(log[t]) : log'[t][i] = log[t][i]
  BY <1>6
<1>13. \A u \in Term : u # t => log'[u] = log[u]
  BY <1>5
<1>14. call' = [call EXCEPT ![c] = h]
  BY <1>7
<1>15. StartedAt(c, id, t, h)
  BY <1>8, <1>9, <1>10, <1>11, <1>12, <1>13, <1>14, Zenon DEF StartedAt
<1> QED BY <1>15

\* m_raft.start keeps the logs sound: its entry is of its clerk's newest request.
LEMMA LogStart ==
    ASSUME Typed, LogInv, NEW c \in Clerk, NEW id \in Nat \ {0}, id <= Len(Script[c]), Start(c, id),
           requestId[c] <= id, requestId' = [requestId EXCEPT ![c] = id]
    PROVE  LogInv'
<1>0. PICK t, h : StartedAt(c, id, t, h)
  BY StartLog
<1>1. /\ t \in leading
      /\ t \in Term /\ t <= Latest
      /\ log[t] \in Seq(Entry) /\ Len(log[t]) < MaxLog
      /\ LET e == [clerk |-> c, id |-> id, op |-> Script[c][id], term |-> t] IN
         /\ e \in Entry
         /\ \A u \in Term : u # t => log'[u] = log[u]
         /\ Len(log'[t]) = Len(log[t]) + 1
         /\ \A i \in 1..Len(log[t]) : log'[t][i] = log[t][i]
         /\ log'[t][Len(log[t]) + 1] = e
  BY <1>0 DEF StartedAt
<1> USE DEF Typed
<1>2. Latest' = Latest /\ UNCHANGED chosen
  BY DEF Start, Latest
<1>3. Latest \in Term /\ Latest \in Nat /\ t \in Nat
  BY <1>1, LatestTyped, Constants
<1>4. PICK n \in Nat : n = Len(log[t])
  BY <1>1
<1>5. PICK e \in Entry : e = [clerk |-> c, id |-> id, op |-> Script[c][id], term |-> t]
  BY <1>1
<1>6. /\ \A u \in Term : u # t => log'[u] = log[u]
      /\ Len(log'[t]) = n + 1
      /\ \A i \in 1..n : log'[t][i] = log[t][i]
      /\ log'[t][n + 1] = e
  BY <1>1, <1>4, <1>5
<1>7. ASSUME NEW v \in Term PROVE Len(log[v]) \in Nat /\ Len(log[v]) <= Len(log'[v])
                                  /\ \A i \in 1..Len(log[v]) : log'[v][i] = log[v][i]
  <2>1. Len(log[v]) \in Nat
    BY DEF RaftTyped
  <2> QED BY <2>1, <1>4, <1>6
<1>8. ASSUME NEW d \in Clerk PROVE requestId[d] \in Nat /\ requestId[d] <= requestId'[d]
  BY DEF ClerksTyped
<1>9. ASSUME NEW v \in Term, NEW i \in 1..Len(log'[v]), v # t \/ i # n + 1 PROVE EntrySound(v, i)'
  <2>1. i \in 1..Len(log[v])
    BY <1>9, <1>4, <1>6
  <2>2. PICK x \in Entry : x = log[v][i]
    BY <2>1 DEF RaftTyped
  <2>3. x.id \in Nat /\ x.clerk \in Clerk /\ x.term \in Term
    BY <2>2 DEF Entry
  <2>4. EntrySound(v, i)
    BY <2>1 DEF LogInv
  <2>5. \A j \in 1..i : j \in 1..Len(log[v]) /\ log'[v][j] = log[v][j]
    BY <2>1, <1>7
  <2>6. log'[v][i] = x
    BY <2>1, <2>2, <1>7
  <2>7. x.id <= requestId'[x.clerk]
    BY <2>2, <2>3, <2>4, <1>8 DEF EntrySound
  <2>8. i <= Len(log'[x.term]) /\ log'[x.term][i] = x
    BY <2>1, <2>2, <2>3, <2>4, <1>7 DEF EntrySound
  <2> QED BY <2>2, <2>4, <2>5, <2>6, <2>7, <2>8 DEF EntrySound
<1>10. n + 1 \in 1..Len(log'[t]) /\ EntrySound(t, n + 1)'
  <2>1. log'[t][n + 1] = e /\ e.clerk = c /\ e.id = id /\ e.op = Script[c][id] /\ e.term = t
    BY <1>5, <1>6
  <2>2. requestId'[c] = id
    BY DEF ClerksTyped
  <2>3. ASSUME NEW j \in 1..(n + 1), log'[t][j].clerk = c PROVE log'[t][j].id <= id
    <3>1. CASE j = n + 1
      BY <3>1, <2>1
    <3>2. CASE j # n + 1
      <4>1. j \in 1..Len(log[t]) /\ log'[t][j] = log[t][j]
        BY <3>2, <1>4, <1>6
      <4>2. EntrySound(t, j) /\ log[t][j] \in Entry
        BY <4>1, <1>1 DEF LogInv, RaftTyped
      <4>3. log[t][j].id <= requestId[c] /\ log[t][j].id \in Nat
        BY <4>1, <4>2, <2>3 DEF EntrySound, Entry
      <4> QED BY <4>1, <4>3, <1>8
    <3> QED BY <3>1, <3>2
  <2>4. n + 1 <= Len(log'[t]) /\ t <= t
    BY <1>3, <1>6
  <2> QED BY <2>1, <2>2, <2>3, <2>4 DEF EntrySound
<1>11. \A v \in Term : v > Latest' => log'[v] = <<>>
  <2>1. ASSUME NEW v \in Term, v > Latest PROVE log'[v] = <<>>
    <3>1. v \in Nat /\ v # t
      BY <2>1, <1>1, <1>3, Constants
    <3> QED BY <2>1, <3>1, <1>6 DEF LogInv
  <2> QED BY <2>1, <1>2
<1>12. Len(chosen') <= Len(log'[Latest']) /\ \A i \in 1..Len(chosen') : chosen'[i] = log'[Latest'][i]
  <2>1. Len(chosen) \in Nat
    BY DEF RaftTyped
  <2>2. Len(log[Latest]) \in Nat /\ Len(log[Latest]) <= Len(log'[Latest])
        /\ \A i \in 1..Len(log[Latest]) : log'[Latest][i] = log[Latest][i]
    BY <1>3, <1>7
  <2> QED BY <2>1, <2>2, <1>2 DEF LogInv
<1> QED BY <1>9, <1>10, <1>11, <1>12 DEF LogInv

\* Every step keeps the logs sound.
LEMMA LogNext ==
    ASSUME Typed, Typed', LogInv, [Next]_vars
    PROVE  LogInv'
<1>1. ASSUME NEW c \in Clerk, Request(c) PROVE LogInv'
  <2>1. PICK id \in Nat \ {0} : id = requestId[c] + 1 /\ id <= Len(Script[c]) /\ Start(c, id)
                                /\ requestId' = [requestId EXCEPT ![c] = id] /\ requestId[c] <= id
    <3>1. requestId[c] \in Nat
      BY DEF Typed, ClerksTyped
    <3>2. requestId[c] + 1 \in Nat \ {0} /\ requestId[c] <= requestId[c] + 1
      BY <3>1
    <3> QED BY <1>1, <3>2 DEF Request
  <2> QED BY <2>1, LogStart
<1>2. ASSUME NEW c \in Clerk, Retry(c) PROVE LogInv'
  <2>1. PICK id \in Nat \ {0} : id = requestId[c] /\ id <= Len(Script[c]) /\ Start(c, id)
                                /\ requestId' = [requestId EXCEPT ![c] = id] /\ requestId[c] <= id
    BY <1>2 DEF Retry, Typed, ClerksTyped, clerkVars
  <2> QED BY <2>1, LogStart
<1>3. ASSUME NEW t \in Term, StepDown(t) PROVE LogInv'
  BY <1>3 DEF StepDown, LogInv, EntrySound, Latest, clerkVars
<1>4. ASSUME NEW c \in Clerk, Register(c) \/ MakeFifo(c) \/ OpenFifo(c) \/ ReturnRecved(c) \/ ReturnTimeout(c)
      PROVE  UNCHANGED <<raftVars, requestId>>
  BY <1>4 DEF Register, MakeFifo, OpenFifo, ReturnRecved, ReturnTimeout, Reply, clerkVars
<1>5. ASSUME ServerStep PROVE UNCHANGED <<raftVars, requestId>>
  BY <1>5 DEF ServerStep, Apply, Notify, Unlink, clerkVars
<1>6. UNCHANGED vars => UNCHANGED <<raftVars, requestId>>
  BY DEF vars, clerkVars
<1> QED
  BY <1>1, <1>2, <1>3, <1>4, <1>5, <1>6, LogElect, LogCommit, LogUnchanged
  DEF Next, RaftStep, HandlerStep

\* The entries chosen are those of the newest log, and a clerk's requests stand in
\* every log in the order of their numbers, each at the index m_raft.start gave:
\* what the duplicate check of the apply loop relies on.
THEOREM KvLogs == Spec => []LogInv
BY KvTyped, LogInit, LogNext, PTL DEF Spec

\* A log only grows, and elections only add terms.
LogsGrow ==
    /\ Latest <= Latest'
    /\ \A t \in Term : t <= Latest =>
        /\ Len(log[t]) <= Len(log'[t])
        /\ \A i \in 1..Len(log[t]) : log'[t][i] = log[t][i]

\* m_raft.start only appends.
LEMMA StartGrows ==
    ASSUME Typed, NEW c \in Clerk, NEW id \in Nat \ {0}, id <= Len(Script[c]), Start(c, id)
    PROVE  LogsGrow
<1>0. PICK t, h : StartedAt(c, id, t, h)
  BY StartLog
<1>1. /\ t \in leading
      /\ t \in Term /\ log[t] \in Seq(Entry)
      /\ \A u \in Term : u # t => log'[u] = log[u]
      /\ Len(log'[t]) = Len(log[t]) + 1
      /\ \A i \in 1..Len(log[t]) : log'[t][i] = log[t][i]
  BY <1>0 DEF StartedAt
<1>2. Latest' = Latest /\ Latest \in Nat
  BY LatestTyped, Constants DEF Start, Latest, Typed
<1>3. ASSUME NEW v \in Term PROVE Len(log[v]) \in Nat
  BY DEF Typed, RaftTyped
<1>4. ASSUME NEW v \in Term PROVE Len(log[v]) <= Len(log'[v])
                                  /\ \A i \in 1..Len(log[v]) : log'[v][i] = log[v][i]
  BY <1>1, <1>3
<1> QED BY <1>2, <1>4 DEF LogsGrow

\* No step removes an entry from the log of a term's leader.
LEMMA LogsGrowNext ==
    ASSUME Typed, Typed', [Next]_vars
    PROVE  LogsGrow
<1>1. ASSUME NEW s \in Server, Elect(s) PROVE LogsGrow
  <2>1. PICK t \in Term : /\ t = Latest + 1 /\ Latest' = t
                          /\ \A v \in Term : v # t => log'[v] = log[v]
    BY <1>1, ElectLog
  <2>2. Latest \in Nat
    BY LatestTyped, Constants DEF Typed
  <2>3. ASSUME NEW v \in Term, v <= Latest PROVE Len(log[v]) \in Nat /\ log'[v] = log[v]
    <3>1. v # t
      BY <2>1, <2>2, <2>3, Constants
    <3>2. log[v] \in Seq(Entry)
      BY DEF Typed, RaftTyped
    <3> QED BY <3>1, <3>2, <2>1
  <2>4. ASSUME NEW v \in Term, v <= Latest PROVE
             Len(log[v]) <= Len(log'[v]) /\ \A i \in 1..Len(log[v]) : log'[v][i] = log[v][i]
    BY <2>3, <2>4
  <2>5. Latest <= Latest'
    BY <2>1, <2>2
  <2> HIDE <2>1
  <2> QED BY <2>4, <2>5 DEF LogsGrow
<1>2. ASSUME UNCHANGED <<leader, log>> PROVE LogsGrow
  <2>1. Latest' = Latest /\ Latest \in Nat
    BY <1>2, LatestTyped, Constants DEF Latest, Typed
  <2>2. ASSUME NEW v \in Term PROVE
             Len(log[v]) <= Len(log'[v]) /\ \A i \in 1..Len(log[v]) : log'[v][i] = log[v][i]
    <3>1. Len(log[v]) \in Nat /\ log'[v] = log[v]
      BY <1>2 DEF Typed, RaftTyped
    <3> QED BY <3>1
  <2> QED BY <2>1, <2>2 DEF LogsGrow
<1>3. ASSUME NEW c \in Clerk, Request(c) PROVE LogsGrow
  <2>1. PICK id \in Nat \ {0} : id <= Len(Script[c]) /\ Start(c, id)
    <3>1. requestId[c] \in Nat
      BY DEF Typed, ClerksTyped
    <3>2. requestId[c] + 1 \in Nat \ {0}
      BY <3>1
    <3> QED BY <1>3, <3>2 DEF Request
  <2> QED BY <2>1, StartGrows
<1>4. ASSUME NEW c \in Clerk, Retry(c) PROVE LogsGrow
  <2>1. requestId[c] \in Nat \ {0} /\ requestId[c] <= Len(Script[c]) /\ Start(c, requestId[c])
    BY <1>4 DEF Retry, Typed, ClerksTyped
  <2> QED BY <2>1, StartGrows
<1>5. ASSUME NEW t \in Term, StepDown(t) PROVE LogsGrow
  BY <1>5, <1>2 DEF StepDown
<1>6. ASSUME Commit PROVE LogsGrow
  BY <1>6, <1>2 DEF Commit
<1>7. ASSUME NEW c \in Clerk, Register(c) \/ MakeFifo(c) \/ OpenFifo(c) \/ ReturnRecved(c) \/ ReturnTimeout(c)
      PROVE  LogsGrow
  BY <1>7, <1>2 DEF Register, MakeFifo, OpenFifo, ReturnRecved, ReturnTimeout, raftVars
<1>8. ASSUME ServerStep PROVE LogsGrow
  BY <1>8, <1>2 DEF ServerStep, Apply, Notify, Unlink, raftVars
<1>9. ASSUME UNCHANGED vars PROVE LogsGrow
  BY <1>9, <1>2 DEF vars, raftVars
<1> QED
  BY <1>1, <1>3, <1>4, <1>5, <1>6, <1>7, <1>8, <1>9 DEF Next, RaftStep, HandlerStep

-----------------------------------------------------------------------------
(* The handlers' contexts.                                                 *)

\* No handler runs at the start, and m_requestMap is empty.
LEMMA CallInit == Init => CallInv
<1> SUFFICES ASSUME Init PROVE CallInv
  OBVIOUS
<1>1. \A c \in Clerk : call[c].pc = "idle"
  BY DEF Init, NoCall
<1>2. \A s \in Server : \A i \in 1..MaxLog : requestMap[s][i] = None
  BY DEF Init
<1> QED BY <1>1, <1>2 DEF CallInv, CallSound, ContextsLive

\* A call that keeps its server, index and term stays sound.
LEMMA CallSoundKept ==
    ASSUME Typed, Typed', NEW c \in Clerk, CallSound(c), LogsGrow,
           call[c].pc # "idle",
           call'[c].server = call[c].server, call'[c].index = call[c].index,
           call'[c].term = call[c].term, c \in busy',
           requestId'[c] = requestId[c]
    PROVE  CallSound(c)'
<1>1. PICK t \in Term, i \in 1..MaxLog :
        /\ t = call[c].term /\ i = call[c].index /\ t <= Latest /\ i <= Len(log[t])
        /\ log[t][i] = [clerk |-> c, id |-> requestId[c], op |-> Script[c][requestId[c]], term |-> t]
        /\ call[c].server \in Server
  BY DEF CallSound
<1>2. Len(log[t]) \in Nat /\ i \in Nat
  BY DEF Typed, RaftTyped
<1>3. i \in 1..Len(log[t])
  BY <1>1, <1>2
<1>4. Latest \in Nat /\ t \in Nat
  BY LatestTyped, Constants DEF Typed
<1>5. Len(log[t]) <= Len(log'[t]) /\ log'[t][i] = log[t][i] /\ Latest <= Latest'
  BY <1>1, <1>3 DEF LogsGrow
<1>6. Latest' \in Nat /\ Len(log'[t]) \in Nat
  BY LatestPrimed, Constants DEF Typed, RaftTyped, LatestSound
<1>7. t <= Latest' /\ i <= Len(log'[t])
  <2>1. \A a, b, d \in Nat : a <= b /\ b <= d => a <= d
    OBVIOUS
  <2>2. t <= Latest'
    BY <2>1, <1>1, <1>4, <1>5, <1>6
  <2>3. i <= Len(log'[t])
    BY <2>1, <1>1, <1>2, <1>5, <1>6
  <2> QED BY <2>2, <2>3
<1> QED BY <1>1, <1>5, <1>7 DEF CallSound

\* A handler whose start has returned is sound.
LEMMA CallStart ==
    ASSUME Typed, Typed', CallInv, LogsGrow,
           NEW c \in Clerk, NEW id \in Nat \ {0}, id <= Len(Script[c]), Start(c, id),
           requestId' = [requestId EXCEPT ![c] = id], busy' = busy \cup {c}
    PROVE  CallInv'
<1>0. PICK t, h : StartedAt(c, id, t, h)
  BY StartLog
<1>1. /\ t \in leading
      /\ t \in Term /\ t <= Latest
      /\ log[t] \in Seq(Entry) /\ Len(log[t]) < MaxLog
      /\ LET e == [clerk |-> c, id |-> id, op |-> Script[c][id], term |-> t] IN
         /\ e \in Entry
         /\ \A u \in Term : u # t => log'[u] = log[u]
         /\ Len(log'[t]) = Len(log[t]) + 1
         /\ \A i \in 1..Len(log[t]) : log'[t][i] = log[t][i]
         /\ log'[t][Len(log[t]) + 1] = e
      /\ h = [pc |-> "started", server |-> leader[t], index |-> Len(log[t]) + 1,
              term |-> t, wrong |-> FALSE, value |-> NoValue, recved |-> FALSE]
      /\ call' = [call EXCEPT ![c] = h]
  BY <1>0 DEF StartedAt
<1>2. call'[c] = h /\ \A d \in Clerk : d # c => call'[d] = call[d]
  BY <1>1 DEF Typed, CallsTyped
<1>3. call[c].pc = "idle" /\ UNCHANGED requestMap /\ Latest' = Latest
  BY DEF Start, Latest
<1>4. ContextsLive'
  <2> SUFFICES ASSUME NEW s \in Server, NEW i \in 1..MaxLog, requestMap[s][i] # None
               PROVE  LET k == call'[requestMap[s][i]] IN
                      k.pc \in {"registered", "created", "waiting"} /\ k.server = s /\ k.index = i
    BY <1>3 DEF ContextsLive
  <2>1. requestMap[s][i] \in Clerk
    BY ContextTyped DEF Typed
  <2>2. call[requestMap[s][i]].pc \in {"registered", "created", "waiting"}
    BY DEF CallInv, ContextsLive
  <2>3. requestMap[s][i] # c
    BY <2>2, <1>3
  <2> QED BY <1>2, <2>1, <2>3 DEF CallInv, ContextsLive
<1>5. CallSound(c)'
  <2>1. leader[t] \in Server
    BY <1>1, LatestTyped DEF Typed, RaftTyped, Elected
  <2>2. Len(log[t]) + 1 \in 1..MaxLog
    BY <1>1, Constants
  <2>3. requestId'[c] = id
    BY DEF Typed, ClerksTyped
  <2>4. Len(log[t]) + 1 <= Len(log'[t])
    BY <1>1
  <2>5. /\ h.pc = "started" /\ h.server = leader[t] /\ h.index = Len(log[t]) + 1 /\ h.term = t
    BY <1>1
  <2> QED BY <1>1, <1>2, <1>3, <2>1, <2>2, <2>3, <2>4, <2>5 DEF CallSound
<1>6. ASSUME NEW d \in Clerk, d # c PROVE CallSound(d)'
  <2>1. call'[d] = call[d] /\ requestId'[d] = requestId[d]
    BY <1>2, <1>6 DEF Typed, ClerksTyped
  <2>2. CASE call[d].pc = "idle"
    BY <2>1, <2>2 DEF CallSound
  <2>3. CASE call[d].pc # "idle"
    BY <2>1, <2>3, CallSoundKept DEF CallInv, CallSound
  <2> QED BY <2>2, <2>3
<1> QED BY <1>4, <1>5, <1>6 DEF CallInv

\* Only the progress of live calls and their results change.
CallsGoOn ==
    /\ UNCHANGED <<requestId, busy>>
    /\ \A c \in Clerk :
        /\ call'[c].pc = "idle" <=> call[c].pc = "idle"
        /\ call[c].pc \in {"registered", "created", "waiting"} =>
                call'[c].pc \in {"registered", "created", "waiting"}
        /\ call'[c].server = call[c].server
        /\ call'[c].index = call[c].index
        /\ call'[c].term = call[c].term

\* Steps that only move live calls on keep the contexts sound.
LEMMA CallGoesOn ==
    ASSUME Typed, Typed', CallInv, LogsGrow, CallsGoOn, UNCHANGED requestMap
    PROVE  CallInv'
<1>1. ContextsLive'
  <2>1. \A s \in Server, i \in 1..MaxLog : requestMap[s][i] \in Clerk \cup {None}
    BY ContextTyped DEF Typed
  <2> QED BY <2>1 DEF CallInv, ContextsLive, CallsGoOn
<1>2. ASSUME NEW c \in Clerk PROVE CallSound(c)'
  <2>1. CASE call[c].pc = "idle"
    BY <2>1 DEF CallSound, CallsGoOn
  <2>2. CASE call[c].pc # "idle"
    <3>1. c \in busy
      BY <2>2 DEF CallInv, CallSound
    <3> QED BY <2>2, <3>1, CallSoundKept DEF CallInv, CallsGoOn
  <2> QED BY <2>1, <2>2
<1> QED BY <1>1, <1>2 DEF CallInv

\* Registering a context, over whatever was there, keeps the contexts sound.
LEMMA CallRegister ==
    ASSUME Typed, Typed', CallInv, LogsGrow, NEW c \in Clerk, Register(c)
    PROVE  CallInv'
<1>1. CallsGoOn
  BY DEF Register, CallsGoOn, Typed, CallsTyped, Handler, clerkVars
<1>2. ContextsLive'
  <2> SUFFICES ASSUME NEW s \in Server, NEW i \in 1..MaxLog, requestMap'[s][i] # None
               PROVE  LET k == call'[requestMap'[s][i]] IN
                      k.pc \in {"registered", "created", "waiting"} /\ k.server = s /\ k.index = i
    BY DEF ContextsLive
  <2>1. call[c].server \in Server /\ call[c].index \in 1..MaxLog
    BY DEF Register, CallInv, CallSound
  <2>2. requestMap'[s][i] = IF s = call[c].server /\ i = call[c].index THEN c ELSE requestMap[s][i]
    BY <2>1 DEF Register, Typed, CallsTyped
  <2>3. CASE s = call[c].server /\ i = call[c].index
    <3>1. call'[c].pc = "registered"
      BY DEF Register, Typed, CallsTyped, Handler
    <3> QED BY <2>2, <2>3, <3>1, <1>1 DEF CallsGoOn
  <2>4. CASE ~(s = call[c].server /\ i = call[c].index)
    <3>1. requestMap[s][i] \in Clerk
      BY <2>2, <2>4, ContextTyped DEF Typed
    <3> QED BY <2>2, <2>4, <3>1, <1>1 DEF CallsGoOn, CallInv, ContextsLive
  <2> QED BY <2>3, <2>4
<1>3. ASSUME NEW d \in Clerk PROVE CallSound(d)'
  <2>1. CASE call[d].pc = "idle"
    BY <2>1, <1>1 DEF CallSound, CallsGoOn
  <2>2. CASE call[d].pc # "idle"
    <3>1. d \in busy
      BY <2>2 DEF CallInv, CallSound
    <3> QED BY <2>2, <3>1, <1>1, CallSoundKept DEF CallInv, CallsGoOn
  <2> QED BY <2>1, <2>2
<1> QED BY <1>2, <1>3 DEF CallInv

\* The tail of a handler erases its index from m_requestMap, whoever's context is
\* there by now: no pointer to the context that goes out of scope is left, since
\* a live context is registered only at its own server and index.
LEMMA CallReply ==
    ASSUME Typed, Typed', CallInv, LogsGrow, NEW c \in Clerk, NEW wrong, NEW value, Reply(c, wrong, value),
           call[c].pc # "idle"
    PROVE  CallInv'
<1>1. call'[c] = NoCall /\ \A d \in Clerk : d # c => call'[d] = call[d]
  BY DEF Reply, Typed, CallsTyped
<1>2. call[c].server \in Server /\ call[c].index \in 1..MaxLog
  BY DEF CallInv, CallSound
<1>3. \A s \in Server, i \in 1..MaxLog :
        requestMap'[s][i] = IF s = call[c].server /\ i = call[c].index THEN None ELSE requestMap[s][i]
  BY <1>2 DEF Reply, Typed, CallsTyped
<1>4. ContextsLive'
  <2> SUFFICES ASSUME NEW s \in Server, NEW i \in 1..MaxLog, requestMap'[s][i] # None
               PROVE  LET k == call'[requestMap'[s][i]] IN
                      k.pc \in {"registered", "created", "waiting"} /\ k.server = s /\ k.index = i
    BY DEF ContextsLive
  <2>1. requestMap'[s][i] = requestMap[s][i] /\ ~(s = call[c].server /\ i = call[c].index)
    BY <1>3
  <2>2. requestMap[s][i] \in Clerk /\ requestMap[s][i] # c
    BY <2>1, ContextTyped DEF Typed, CallInv, ContextsLive
  <2> QED BY <2>1, <2>2, <1>1 DEF CallInv, ContextsLive
<1>5. ASSUME NEW d \in Clerk PROVE CallSound(d)'
  <2>1. CASE d = c
    BY <2>1, <1>1 DEF CallSound, NoCall
  <2>2. CASE d # c /\ call[d].pc = "idle"
    BY <2>2, <1>1 DEF CallSound
  <2>3. CASE d # c /\ call[d].pc # "idle"
    <3>1. d \in busy' /\ requestId'[d] = requestId[d]
      BY <2>3 DEF CallInv, CallSound, Reply
    <3>2. call'[d] = call[d] /\ CallSound(d)
      BY <1>1, <2>3 DEF CallInv
    <3> QED BY <2>3, <3>1, <3>2, CallSoundKept
  <2> QED BY <2>1, <2>2, <2>3
<1> QED BY <1>4, <1>5 DEF CallInv

\* Every step keeps the contexts sound.
LEMMA CallNext ==
    ASSUME Typed, Typed', CallInv, [Next]_vars
    PROVE  CallInv'
<1>0. LogsGrow
  BY LogsGrowNext
<1>1. ASSUME NEW c \in Clerk, Request(c) PROVE CallInv'
  <2>1. PICK id \in Nat \ {0} : id <= Len(Script[c]) /\ Start(c, id)
                                /\ requestId' = [requestId EXCEPT ![c] = id] /\ busy' = busy \cup {c}
    <3>1. requestId[c] \in Nat
      BY DEF Typed, ClerksTyped
    <3>2. requestId[c] + 1 \in Nat \ {0}
      BY <3>1
    <3> QED BY <1>1, <3>2 DEF Request
  <2> QED BY <1>0, <2>1, CallStart
<1>2. ASSUME NEW c \in Clerk, Retry(c) PROVE CallInv'
  <2>1. PICK id \in Nat \ {0} : id <= Len(Script[c]) /\ Start(c, id)
                                /\ requestId' = [requestId EXCEPT ![c] = id] /\ busy' = busy \cup {c}
    BY <1>2 DEF Retry, Typed, ClerksTyped, clerkVars
  <2> QED BY <1>0, <2>1, CallStart
<1>3. ASSUME NEW c \in Clerk, MakeFifo(c) \/ OpenFifo(c) PROVE CallInv'
  <2>1. UNCHANGED requestMap /\ UNCHANGED <<requestId, busy>>
    BY <1>3 DEF MakeFifo, OpenFifo, clerkVars
  <2>2. PICK h : /\ h.server = call[c].server /\ h.index = call[c].index /\ h.term = call[c].term
                 /\ h.pc \in {"registered", "created", "waiting"} /\ h.pc # "idle"
                 /\ call[c].pc # "idle"
                 /\ call' = [call EXCEPT ![c] = h]
    <3>1. CASE MakeFifo(c)
      <4>1. PICK p \in {"created", "waiting"} : call' = [call EXCEPT ![c].pc = p]
        BY <3>1 DEF MakeFifo
      <4>2. PICK h : h = [call[c] EXCEPT !.pc = p] /\ call' = [call EXCEPT ![c] = h]
        BY <4>1
      <4>3. call[c] \in Handler
        BY DEF Typed, CallsTyped
      <4> QED BY <3>1, <4>2, <4>3 DEF MakeFifo, Handler
    <3>2. CASE OpenFifo(c)
      <4>1. PICK r, h : h = [call[c] EXCEPT !.pc = "waiting", !.recved = r] /\ call' = [call EXCEPT ![c] = h]
        BY <3>2 DEF OpenFifo
      <4>2. call[c] \in Handler
        BY DEF Typed, CallsTyped
      <4> QED BY <3>2, <4>1, <4>2 DEF OpenFifo, Handler
    <3> QED BY <1>3, <3>1, <3>2
  <2>3. CallsGoOn
    BY <2>1, <2>2 DEF CallsGoOn, Typed, CallsTyped
  <2> QED BY <1>0, <2>1, <2>3, CallGoesOn
<1>4. ASSUME NEW c \in Clerk, ReturnRecved(c) \/ ReturnTimeout(c) PROVE CallInv'
  <2>1. PICK w, v : Reply(c, w, v) /\ call[c].pc # "idle"
    BY <1>4 DEF ReturnRecved, ReturnTimeout
  <2> QED BY <1>0, <2>1, CallReply
<1>5. ASSUME NEW s \in Server, Apply(s) PROVE CallInv'
  <2>1. UNCHANGED requestMap /\ UNCHANGED <<requestId, busy>>
    BY <1>5 DEF Apply, clerkVars
  <2>2. CallsGoOn
    <3> DEFINE e == chosen[applied[s] + 1]
               c == requestMap[s][applied[s] + 1]
    <3>1. CASE UNCHANGED call
      BY <2>1, <3>1 DEF CallsGoOn
    <3>2. CASE ~UNCHANGED call
      <4>0. call' = [call EXCEPT ![c].wrong = @ \/ call[c].term # e.term,
                                 ![c].value = IF e.op = "get" THEN db[s] ELSE @]
        BY <1>5, <3>2 DEF Apply
      <4>1. PICK w, v : call' = [call EXCEPT ![c].wrong = w, ![c].value = v]
        BY <4>0
      <4>2. \A d \in Clerk : call[d] \in Handler
        BY DEF Typed, CallsTyped
      <4>3. \A d \in Clerk : /\ call'[d].pc = call[d].pc /\ call'[d].server = call[d].server
                             /\ call'[d].index = call[d].index /\ call'[d].term = call[d].term
        <5>1. SUFFICES ASSUME NEW d \in Clerk
                       PROVE  /\ call'[d].pc = call[d].pc /\ call'[d].server = call[d].server
                              /\ call'[d].index = call[d].index /\ call'[d].term = call[d].term
          OBVIOUS
        <5>2. CASE d = c
          <6>1. PICK h : h = [call[d] EXCEPT !.wrong = w, !.value = v] /\ call'[d] = h
            BY <4>1, <5>2 DEF Typed, CallsTyped
          <6> QED BY <6>1, <4>2 DEF Handler
        <5>3. CASE d # c
          BY <4>1, <5>3 DEF Typed, CallsTyped
        <5> QED BY <5>2, <5>3
      <4> QED BY <2>1, <4>3 DEF CallsGoOn
    <3> QED BY <3>1, <3>2
  <2> QED BY <1>0, <2>1, <2>2, CallGoesOn
<1>6. ASSUME NEW s \in Server, Notify(s) PROVE CallInv'
  <2>1. UNCHANGED requestMap /\ UNCHANGED <<requestId, busy>>
    BY <1>6 DEF Notify, clerkVars
  <2>2. CallsGoOn
    <3>1. PICK W : call' = call \/ call' = [c \in Clerk |-> [call[c] EXCEPT !.recved = @ \/ c \in W]]
      BY <1>6 DEF Notify
    <3> QED BY <2>1, <3>1 DEF CallsGoOn, Typed, CallsTyped, Handler
  <2> QED BY <1>0, <2>1, <2>2, CallGoesOn
<1>7. ASSUME UNCHANGED <<requestMap, call, requestId, busy>> PROVE CallInv'
  <2>1. CallsGoOn
    BY <1>7 DEF CallsGoOn
  <2> QED BY <1>0, <1>7, <2>1, CallGoesOn
<1>8. ASSUME RaftStep PROVE CallInv'
  BY <1>7, <1>8 DEF RaftStep, Elect, StepDown, Commit, rpcVars, clerkVars
<1>9. ASSUME NEW n \in unlinkers, Unlink(n) PROVE CallInv'
  BY <1>7, <1>9 DEF Unlink, clerkVars
<1>10. ASSUME UNCHANGED vars PROVE CallInv'
  BY <1>7, <1>10 DEF vars, rpcVars, clerkVars
<1>11. ASSUME NEW c \in Clerk, Register(c) PROVE CallInv'
  BY <1>0, <1>11, CallRegister
<1> QED
  BY <1>1, <1>2, <1>3, <1>4, <1>5, <1>6, <1>8, <1>9, <1>10, <1>11 DEF Next, HandlerStep, ServerStep

\* m_requestMap never points at the stack of a handler that has returned, although
\* a handler registers its context over another's and erases whatever is at its
\* index (server.cpp:232, 260, 289, 316): the property CallsConsistent.  A handler's
\* index and term name the entry its own start appended.
THEOREM KvCalls == Spec => [](CallInv /\ CallsConsistent)
<1>1. Typed /\ CallInv => CallsConsistent
  <2> SUFFICES ASSUME Typed, CallInv PROVE CallsConsistent
    OBVIOUS
  <2>1. leading \subseteq Term
    BY LatestTyped, Constants DEF Typed
  <2>2. \A c \in Clerk : call[c].pc # "idle" =>
          /\ call[c].pc \in {"started", "registered", "created", "waiting"}
          /\ call[c].server \in Server
          /\ call[c].index \in 1..MaxLog
    BY DEF Typed, CallsTyped, Handler, Place, CallInv, CallSound
  <2>3. TypeOK
    BY <2>1, <2>2 DEF TypeOK, Typed, RaftTyped, StateTyped, CallsTyped, ClerksTyped
  <2> QED BY <2>3 DEF CallsConsistent, CallInv
<1> QED BY <1>1, KvTyped, CallInit, CallNext, PTL DEF Spec

-----------------------------------------------------------------------------
(* The effect of a sequence of entries, by induction on its length.        *)

\* A set of numbers that has 0 and, with a number, the next one has them all.
LEMMA NatSetInduction ==
    ASSUME NEW S, 0 \in S, \A n \in Nat : n \in S => n + 1 \in S
    PROVE  Nat \subseteq S
<1> SUFFICES ASSUME NEW b \in Nat, b \notin S PROVE FALSE
  OBVIOUS
<1> DEFINE T == {1..n : n \in Nat \ S}
<1>1. T \subseteq FiniteSubsetsOf(Nat)
  <2> SUFFICES ASSUME NEW n \in Nat PROVE 1..n \in FiniteSubsetsOf(Nat)
    OBVIOUS
  <2>1. IsFiniteSet(1..n)
    BY FS_Interval
  <2>2. 1..n \subseteq Nat
    OBVIOUS
  <2> QED BY <2>1, <2>2 DEF FiniteSubsetsOf
<1>2. T # {}
  OBVIOUS
<1>3. PICK x \in T : \A y \in T : ~ (<<y, x>> \in StrictSubsetOrdering(Nat))
  <2> HIDE DEF T
  <2> QED BY <1>1, <1>2, FS_StrictSubsetOrderingWellFounded, WFMin
<1>4. PICK m \in Nat \ S : x = 1..m
  OBVIOUS
<1>5. m # 0 /\ m - 1 \in Nat /\ m - 1 \notin S
  OBVIOUS
<1>6. 1..(m - 1) \in T
  BY <1>5
<1>7. <<1..(m - 1), x>> \in StrictSubsetOrdering(Nat)
  <2>1. 1..(m - 1) \subseteq 1..m /\ m \in 1..m /\ m \notin 1..(m - 1)
    BY <1>5
  <2>2. 1..(m - 1) \subseteq Nat /\ 1..m \subseteq Nat
    OBVIOUS
  <2> QED BY <2>1, <2>2, <1>4 DEF StrictSubsetOrdering
<1> QED BY <1>3, <1>6, <1>7

\* The effect of entry i on a value, and the values after 0, 1, ..., n entries.
StepValue(es, i, v) ==
    IF es[i].op = "get" \/ Repeated(es, i) THEN v ELSE Written(v, es[i])
\* The values after 0, 1, ..., n entries.
IsRun(es, n, g) ==
    g = [i \in 0..n |-> IF i = 0 THEN NoValue ELSE StepValue(es, i, g[i - 1])]

\* There are such values for every n: by induction on n.
LEMMA RunExists ==
    ASSUME NEW es
    PROVE  \A n \in Nat : \E g : IsRun(es, n, g)
<1> DEFINE S == {n \in Nat : \E g : IsRun(es, n, g)}
<1>1. 0 \in S
  <2> DEFINE g == [i \in 0..0 |-> NoValue]
  <2>1. g = [i \in 0..0 |-> IF i = 0 THEN NoValue ELSE StepValue(es, i, g[i - 1])]
    <3>1. \A i \in 0..0 : i = 0
      OBVIOUS
    <3> QED BY <3>1
  <2> QED BY <2>1 DEF IsRun
<1>2. ASSUME NEW n \in Nat, n \in S PROVE n + 1 \in S
  <2>1. PICK g : g = [i \in 0..n |-> IF i = 0 THEN NoValue ELSE StepValue(es, i, g[i - 1])]
    BY <1>2 DEF IsRun
  <2> DEFINE h == [i \in 0..(n + 1) |-> IF i = n + 1 THEN StepValue(es, n + 1, g[n]) ELSE g[i]]
  <2>2. ASSUME NEW i \in 0..(n + 1)
        PROVE  h[i] = IF i = 0 THEN NoValue ELSE StepValue(es, i, h[i - 1])
    <3>1. CASE i = 0
      BY <3>1, <2>1
    <3>2. CASE i = n + 1
      <4>1. h[i] = StepValue(es, n + 1, g[n]) /\ i # 0 /\ i - 1 = n
        BY <3>2
      <4>2. h[n] = g[n]
        OBVIOUS
      <4> QED BY <4>1, <4>2, <3>2
    <3>3. CASE i # 0 /\ i # n + 1
      <4>1. i \in 0..n /\ i - 1 \in 0..n /\ i - 1 # n + 1 /\ i - 1 \in 0..(n + 1)
        BY <3>3
      <4>2. h[i] = g[i] /\ h[i - 1] = g[i - 1]
        BY <3>3, <4>1
      <4>3. g[i] = StepValue(es, i, g[i - 1])
        BY <2>1, <3>3, <4>1
      <4> HIDE DEF h
      <4> QED BY <3>3, <4>2, <4>3
    <3> QED BY <3>1, <3>2, <3>3
  <2>3. h = [i \in 0..(n + 1) |-> IF i = 0 THEN NoValue ELSE StepValue(es, i, h[i - 1])]
    <3>1. h = [i \in 0..(n + 1) |-> h[i]]
      OBVIOUS
    <3> HIDE DEF h
    <3> QED BY <2>2, <3>1
  <2> HIDE DEF h
  <2>4. IsRun(es, n + 1, h)
    BY <2>3 DEF IsRun
  <2> QED BY <2>4
<1>3. Nat \subseteq S
  <2> HIDE DEF S
  <2> QED BY <1>1, <1>2, NatSetInduction
<1> QED BY <1>3

\* Sequences that begin with the same entries have the same values there.
LEMMA RunsAgree ==
    ASSUME NEW es, NEW fs, NEW m \in Nat, NEW n \in Nat, NEW g, NEW h, n <= m,
           \A i \in 1..n : es[i] = fs[i], IsRun(es, n, g), IsRun(fs, m, h)
    PROVE  \A i \in 0..n : g[i] = h[i]
<1> DEFINE S == {k \in Nat : k <= n => g[k] = h[k]}
<1>0. /\ \A i \in 0..n : g[i] = IF i = 0 THEN NoValue ELSE StepValue(es, i, g[i - 1])
      /\ \A i \in 0..m : h[i] = IF i = 0 THEN NoValue ELSE StepValue(fs, i, h[i - 1])
  BY DEF IsRun
<1>1. 0 \in S
  BY <1>0
<1>2. ASSUME NEW k \in Nat, k \in S PROVE k + 1 \in S
  <2> SUFFICES ASSUME k + 1 <= n PROVE g[k + 1] = h[k + 1]
    OBVIOUS
  <2>1. g[k] = h[k]
    BY <1>2
  <2>2. k + 1 \in 0..n /\ k + 1 \in 0..m /\ k + 1 # 0 /\ (k + 1) - 1 = k
    OBVIOUS
  <2>3. g[k + 1] = StepValue(es, k + 1, g[k]) /\ h[k + 1] = StepValue(fs, k + 1, h[k])
    BY <1>0, <2>2
  <2>4. es[k + 1] = fs[k + 1] /\ \A j \in 1..((k + 1) - 1) : es[j] = fs[j]
    OBVIOUS
  <2>5. Repeated(es, k + 1) <=> Repeated(fs, k + 1)
    BY <2>4 DEF Repeated
  <2> QED BY <2>1, <2>3, <2>4, <2>5 DEF StepValue
<1>3. Nat \subseteq S
  <2> HIDE DEF S
  <2> QED BY <1>1, <1>2, NatSetInduction
<1> QED BY <1>3

\* The effect of a sequence is the last of its values.
LEMMA EffectIs ==
    ASSUME NEW es, Len(es) \in Nat
    PROVE  \E g : IsRun(es, Len(es), g) /\ Effect(es) = g[Len(es)]
<1>1. \E g : IsRun(es, Len(es), g)
  BY RunExists
<1>2. PICK g : g = (CHOOSE f : IsRun(es, Len(es), f))
  OBVIOUS
<1>3. IsRun(es, Len(es), g)
  BY <1>1, <1>2
<1>4. Effect(es) = g[Len(es)]
  BY <1>2 DEF Effect, IsRun, StepValue
<1> QED BY <1>3, <1>4

\* No entry, no effect.
LEMMA EffectEmpty ==
    ASSUME NEW es, Len(es) = 0
    PROVE  Effect(es) = NoValue
<1>1. PICK g : IsRun(es, 0, g) /\ Effect(es) = g[0]
  BY EffectIs
<1> QED BY <1>1 DEF IsRun

\* One entry more.
LEMMA EffectStep ==
    ASSUME NEW es, NEW fs, Len(es) \in Nat, Len(fs) = Len(es) + 1,
           \A i \in 1..Len(es) : es[i] = fs[i]
    PROVE  Effect(fs) = StepValue(fs, Len(fs), Effect(es))
<1>1. PICK n \in Nat : n = Len(es) /\ n + 1 = Len(fs) /\ n + 1 \in Nat
  OBVIOUS
<1>2. PICK g : IsRun(es, n, g) /\ Effect(es) = g[n]
  BY <1>1, EffectIs
<1>3. PICK h : IsRun(fs, n + 1, h) /\ Effect(fs) = h[n + 1]
  BY <1>1, EffectIs
<1>4. \A i \in 0..n : g[i] = h[i]
  BY <1>1, <1>2, <1>3, RunsAgree
<1>5. h[n + 1] = StepValue(fs, n + 1, h[n])
  <2>1. n + 1 \in 0..(n + 1) /\ n + 1 # 0 /\ (n + 1) - 1 = n
    OBVIOUS
  <2> QED BY <1>3, <2>1 DEF IsRun
<1> QED BY <1>1, <1>2, <1>3, <1>4, <1>5

\* What a chosen entry is, and that a clerk's requests are chosen in order.
LEMMA ChosenSound ==
    ASSUME Typed, LogInv
    PROVE  \A i \in 1..Len(chosen) :
             /\ chosen[i] \in Entry
             /\ chosen[i].id <= requestId[chosen[i].clerk]
             /\ chosen[i].op = Script[chosen[i].clerk][chosen[i].id]
             /\ \A j \in 1..i : chosen[j].clerk = chosen[i].clerk => chosen[j].id <= chosen[i].id
<1>1. Latest \in Term /\ log[Latest] \in Seq(Entry) /\ chosen \in Seq(Entry)
  BY LatestTyped DEF Typed, RaftTyped
<1> SUFFICES ASSUME NEW i \in 1..Len(chosen)
             PROVE  /\ chosen[i] \in Entry
                    /\ chosen[i].id <= requestId[chosen[i].clerk]
                    /\ chosen[i].op = Script[chosen[i].clerk][chosen[i].id]
                    /\ \A j \in 1..i : chosen[j].clerk = chosen[i].clerk => chosen[j].id <= chosen[i].id
  OBVIOUS
<1>2. i \in 1..Len(log[Latest]) /\ \A j \in 1..i : chosen[j] = log[Latest][j]
  BY <1>1 DEF LogInv
<1>3. EntrySound(Latest, i)
  BY <1>1, <1>2 DEF LogInv
<1>4. chosen[i] \in Entry
  BY <1>1
<1>5. i \in 1..i
  BY <1>1
<1> QED BY <1>2, <1>3, <1>4, <1>5 DEF EntrySound

\* The chosen entries are requests of their clerks.
OpsSound ==
    \A i \in 1..Len(chosen) :
        /\ chosen[i].id <= requestId[chosen[i].clerk]
        /\ chosen[i].op = Script[chosen[i].clerk][chosen[i].id]

\* The same after a step.
LEMMA ChosenSoundPrimed == Typed' /\ LogInv' => OpsSound'
<1>1. Typed /\ LogInv => OpsSound
  BY ChosenSound DEF OpsSound
<1> QED BY <1>1, PTL

\* The empty state is the effect of no entry.
LEMMA StateInit == Init => StateInv
<1> SUFFICES ASSUME Init PROVE StateInv
  OBVIOUS
<1>1. chosen = <<>> /\ Len(chosen) = 0
  BY DEF Init
<1>2. Effect(chosen) = NoValue
  BY <1>1, EffectEmpty
<1>3. SubSeq(chosen, 1, 0) = <<>>
  BY <1>1
<1>4. Effect(SubSeq(chosen, 1, 0)) = NoValue
  BY <1>1, <1>3, <1>2
<1>5. AppliedOnce
  BY <1>4 DEF AppliedOnce, Init
<1>6. \A s \in Server, c \in Clerk : seqMap[s][c] = 0 /\ applied[s] = 0
  BY DEF Init
<1> QED BY <1>1, <1>2, <1>5, <1>6 DEF StateInv, LastId, Init

\* Committing chooses one entry and updates the store unless it is a repetition.
LEMMA CommitState ==
    ASSUME Typed, Commit
    PROVE  \E e \in Entry :
             /\ Len(chosen') = Len(chosen) + 1
             /\ \A i \in 1..Len(chosen) : chosen'[i] = chosen[i]
             /\ chosen'[Len(chosen) + 1] = e
             /\ e = log[Latest][Len(chosen) + 1]
             /\ store' = IF e.op = "get" \/ Repeated(chosen', Len(chosen')) THEN store ELSE Written(store, e)
<1>1. Latest \in Term /\ log[Latest] \in Seq(Entry) /\ chosen \in Seq(Entry)
  BY LatestTyped DEF Typed, RaftTyped
<1>2. Len(chosen) + 1 \in 1..Len(log[Latest]) /\ chosen' = Append(chosen, log[Latest][Len(chosen) + 1])
  BY <1>1 DEF Commit
<1>3. PICK e \in Entry : e = log[Latest][Len(chosen) + 1]
  BY <1>1, <1>2
<1>4. PICK n \in Nat : n = Len(chosen) /\ DOMAIN chosen = 1..n
  BY <1>1
<1>5. /\ Len(chosen') = n + 1
      /\ \A i \in 1..n : chosen'[i] = chosen[i]
      /\ chosen'[n + 1] = e
  BY <1>1, <1>2, <1>3, <1>4
<1>6. Repeated(chosen', n + 1) <=> \E i \in DOMAIN chosen : chosen[i].clerk = e.clerk /\ chosen[i].id = e.id
  <2>1. (n + 1) - 1 = n
    OBVIOUS
  <2> QED BY <2>1, <1>4, <1>5 DEF Repeated
<1>7. store' = IF e.op = "get" \/ Repeated(chosen', n + 1) THEN store ELSE Written(store, e)
  BY <1>3, <1>6 DEF Commit
<1> QED BY <1>3, <1>4, <1>5, <1>7

\* What was chosen stays chosen.
LEMMA ChosenGrows ==
    ASSUME Typed, Typed', Commit
    PROVE  /\ \A k \in 0..Len(chosen) : SubSeq(chosen', 1, k) = SubSeq(chosen, 1, k)
           /\ SubSeq(chosen', 1, Len(chosen')) = chosen'
           /\ SubSeq(chosen', 1, Len(chosen)) = chosen
<1>1. /\ Len(chosen') = Len(chosen) + 1
      /\ \A i \in 1..Len(chosen) : chosen'[i] = chosen[i]
  BY CommitState
<1>2. chosen \in Seq(Entry) /\ chosen' \in Seq(Entry) /\ Len(chosen) \in Nat
  BY DEF Typed, RaftTyped
<1>3. ASSUME NEW a \in 0..Len(chosen) PROVE SubSeq(chosen', 1, a) = SubSeq(chosen, 1, a)
  <2>1. a \in Nat /\ a \in 0..Len(chosen')
    BY <1>1, <1>2
  <2>2. /\ SubSeq(chosen, 1, a) \in Seq(Entry) /\ Len(SubSeq(chosen, 1, a)) = a
        /\ \A i \in 1..a : SubSeq(chosen, 1, a)[i] = chosen[i]
    BY <1>2, FirstOf
  <2>3. /\ SubSeq(chosen', 1, a) \in Seq(Entry) /\ Len(SubSeq(chosen', 1, a)) = a
        /\ \A i \in 1..a : SubSeq(chosen', 1, a)[i] = chosen'[i]
    BY <1>2, <2>1, FirstOf
  <2>4. \A i \in 1..a : chosen'[i] = chosen[i]
    BY <1>1, <1>2
  <2>5. \A p, q \in Seq(Entry) : Len(p) = Len(q) /\ (\A i \in 1..Len(p) : p[i] = q[i]) => p = q
    BY SeqEqual
  <2> QED BY <2>2, <2>3, <2>4, <2>5
<1>4. SubSeq(chosen, 1, Len(chosen)) = chosen /\ SubSeq(chosen', 1, Len(chosen')) = chosen'
  BY <1>2, SubSeqFull
<1>5. Len(chosen) \in 0..Len(chosen)
  BY <1>2
<1> QED BY <1>3, <1>4, <1>5

\* A commit leaves the servers' states alone and keeps the store the effect of
\* the chosen entries.
LEMMA StateCommit ==
    ASSUME Typed, Typed', StateInv, Commit
    PROVE  StateInv'
<1>1. PICK e \in Entry :
             /\ Len(chosen') = Len(chosen) + 1
             /\ \A i \in 1..Len(chosen) : chosen'[i] = chosen[i]
             /\ chosen'[Len(chosen) + 1] = e
             /\ store' = IF e.op = "get" \/ Repeated(chosen', Len(chosen')) THEN store ELSE Written(store, e)
  BY CommitState
<1>2. UNCHANGED <<applied, db, seqMap>>
  BY DEF Commit, stateVars
<1>3. chosen \in Seq(Entry) /\ chosen' \in Seq(Entry) /\ Len(chosen) \in Nat
  BY DEF Typed, RaftTyped
<1>4. \A s \in Server : applied[s] \in Nat /\ applied[s] <= Len(chosen)
  BY Constants DEF StateInv, Typed, StateTyped
<1>5. \A s \in Server : applied[s] <= Len(chosen')
  BY <1>1, <1>3, <1>4
<1>6. store' = Effect(chosen')
  <2>1. Effect(chosen') = StepValue(chosen', Len(chosen'), Effect(chosen))
    BY <1>1, <1>3, EffectStep
  <2> QED BY <2>1, <1>1 DEF StateInv, StepValue
<1>7. ASSUME NEW s \in Server PROVE SubSeq(chosen', 1, applied[s]) = SubSeq(chosen, 1, applied[s])
  <2>1. applied[s] \in 0..Len(chosen)
    BY <1>3, <1>4
  <2> QED BY <2>1, ChosenGrows
<1>8. AppliedOnce'
  BY <1>2, <1>7 DEF StateInv, AppliedOnce
<1>9. ASSUME NEW s \in Server, NEW c \in Clerk PROVE LastId(s, c)'
  <2>1. \A i \in 1..applied[s] : chosen'[i] = chosen[i]
    BY <1>1, <1>3, <1>4
  <2>2. LastId(s, c)
    BY DEF StateInv
  <2> QED BY <2>1, <2>2, <1>2 DEF LastId
<1> QED BY <1>2, <1>5, <1>6, <1>8, <1>9 DEF StateInv

\* The apply loop executes an entry exactly when the clerk's request is a new one.
LEMMA FreshIsNew ==
    ASSUME Typed, LogInv, StateInv, NEW s \in Server, applied[s] + 1 <= Len(chosen)
    PROVE  Fresh(s, chosen[applied[s] + 1]) <=> ~Repeated(chosen, applied[s] + 1)
<1>1. PICK a \in Nat : a = applied[s] /\ a + 1 \in 1..Len(chosen)
  BY Constants DEF Typed, StateTyped, RaftTyped
<1>2. PICK e \in Entry : e = chosen[a + 1]
  BY <1>1, ChosenSound
<1>3. e.clerk \in Clerk /\ e.id \in Nat \ {0} /\ seqMap[s][e.clerk] \in Nat
  BY DEF Entry, Typed, StateTyped
<1>4. LastId(s, e.clerk)
  BY <1>3 DEF StateInv
<1>5. \A j \in 1..a : j \in 1..(a + 1) /\ j \in 1..Len(chosen) /\ chosen[j] \in Entry
  BY <1>1, ChosenSound
<1>6. \A j \in 1..a : chosen[j].clerk = e.clerk => chosen[j].id <= e.id /\ chosen[j].id \in Nat \ {0}
  BY <1>1, <1>2, <1>5, ChosenSound DEF Entry
<1>7. Repeated(chosen, a + 1) <=> \E j \in 1..a : chosen[j].clerk = e.clerk /\ chosen[j].id = e.id
  <2>1. (a + 1) - 1 = a
    OBVIOUS
  <2> QED BY <2>1, <1>2 DEF Repeated
<1>8. Fresh(s, e) <=> (seqMap[s][e.clerk] = 0 \/ seqMap[s][e.clerk] < e.id)
  BY DEF Fresh
<1>9. ASSUME Fresh(s, e), NEW j \in 1..a, chosen[j].clerk = e.clerk, chosen[j].id = e.id PROVE FALSE
  <2>1. chosen[j].id <= seqMap[s][e.clerk]
    BY <1>1, <1>4, <1>9 DEF LastId
  <2> QED BY <2>1, <1>3, <1>8, <1>9
<1>10. ASSUME ~Fresh(s, e) PROVE \E j \in 1..a : chosen[j].clerk = e.clerk /\ chosen[j].id = e.id
  <2>1. seqMap[s][e.clerk] # 0 /\ seqMap[s][e.clerk] >= e.id
    BY <1>3, <1>8, <1>10
  <2>2. PICK j \in 1..a : chosen[j].clerk = e.clerk /\ chosen[j].id = seqMap[s][e.clerk]
    BY <2>1, <1>1, <1>4 DEF LastId
  <2>3. chosen[j].id <= e.id /\ chosen[j].id \in Nat
    BY <2>2, <1>6
  <2>4. chosen[j].id = e.id
    BY <2>1, <2>2, <2>3, <1>3
  <2> QED BY <2>2, <2>4
<1> QED BY <1>1, <1>2, <1>7, <1>9, <1>10

\* Applying the next entry adds its effect to the state, and m_clientSeqMap keeps
\* the clerk's newest request.
LEMMA StateApply ==
    ASSUME Typed, Typed', LogInv, StateInv, NEW s \in Server, Apply(s)
    PROVE  StateInv'
<1>1. PICK a \in Nat : a = applied[s] /\ a + 1 \in 1..Len(chosen)
  BY Constants DEF Apply, Known, Typed, StateTyped, RaftTyped
<1>2. PICK e \in Entry : e = chosen[a + 1]
  BY <1>1, ChosenSound
<1>3. chosen \in Seq(Entry) /\ UNCHANGED <<chosen, store>>
  BY DEF Apply, raftVars, historyVars, Typed, RaftTyped
<1>4. /\ applied' = [applied EXCEPT ![s] = a + 1]
      /\ seqMap' = [seqMap EXCEPT ![s][e.clerk] = e.id]
      /\ db' = IF e.op # "get" /\ Fresh(s, e) THEN [db EXCEPT ![s] = Written(@, e)] ELSE db
  BY <1>1, <1>2 DEF Apply
<1>5. e.clerk \in Clerk /\ e.id \in Nat \ {0}
  BY DEF Entry
<1>6. applied'[s] = a + 1 /\ \A t \in Server : t # s => applied'[t] = applied[t]
  BY <1>4 DEF Typed, StateTyped
<1>7. \A t \in Server, c \in Clerk :
        seqMap'[t][c] = IF t = s /\ c = e.clerk THEN e.id ELSE seqMap[t][c]
  BY <1>4, <1>5 DEF Typed, StateTyped
<1>8. \A t \in Server : applied'[t] <= Len(chosen')
  BY <1>1, <1>3, <1>6 DEF StateInv
<1>9. store' = Effect(chosen')
  BY <1>3 DEF StateInv
<1>10. AppliedOnce'
  <2>1. ASSUME NEW t \in Server, t # s PROVE db'[t] = Effect(SubSeq(chosen, 1, applied[t]))
    <3>1. db'[t] = db[t]
      BY <2>1, <1>4 DEF Typed, StateTyped
    <3> QED BY <3>1 DEF StateInv, AppliedOnce
  <2>2. db'[s] = Effect(SubSeq(chosen, 1, a + 1))
    <3>1. PICK es \in Seq(Entry) : es = SubSeq(chosen, 1, a) /\ Len(es) = a /\ \A i \in 1..a : es[i] = chosen[i]
      <4>1. a \in 0..Len(chosen)
        BY <1>1
      <4>2. /\ SubSeq(chosen, 1, a) \in Seq(Entry)
            /\ Len(SubSeq(chosen, 1, a)) = a
            /\ \A i \in 1..a : SubSeq(chosen, 1, a)[i] = chosen[i]
        BY <4>1, <1>3, FirstOf
      <4> QED BY <4>2
    <3>2. PICK fs \in Seq(Entry) : fs = SubSeq(chosen, 1, a + 1) /\ Len(fs) = a + 1
                                   /\ \A i \in 1..(a + 1) : fs[i] = chosen[i]
      <4>1. a + 1 \in 0..Len(chosen)
        BY <1>1
      <4>2. /\ SubSeq(chosen, 1, a + 1) \in Seq(Entry)
            /\ Len(SubSeq(chosen, 1, a + 1)) = a + 1
            /\ \A i \in 1..(a + 1) : SubSeq(chosen, 1, a + 1)[i] = chosen[i]
        BY <4>1, <1>3, FirstOf
      <4> QED BY <4>2
    <3>3. Effect(fs) = StepValue(fs, a + 1, Effect(es))
      <4>1. \A i \in 1..a : es[i] = fs[i]
        BY <3>1, <3>2
      <4> QED BY <4>1, <3>1, <3>2, EffectStep
    <3>4. fs[a + 1] = e
      BY <1>2, <3>2
    <3>5. Repeated(fs, a + 1) <=> Repeated(chosen, a + 1)
      <4>1. \A i \in 1..((a + 1) - 1) : fs[i] = chosen[i]
        BY <3>2
      <4> QED BY <4>1, <3>4, <1>2 DEF Repeated
    <3>6. Fresh(s, e) <=> ~Repeated(chosen, a + 1)
      BY <1>1, <1>2, FreshIsNew
    <3>7. db[s] = Effect(es)
      BY <1>1, <3>1 DEF StateInv, AppliedOnce
    <3>8. db'[s] = IF e.op # "get" /\ Fresh(s, e) THEN Written(db[s], e) ELSE db[s]
      BY <1>4 DEF Typed, StateTyped
    <3> QED BY <3>2, <3>3, <3>4, <3>5, <3>6, <3>7, <3>8 DEF StepValue
  <2> QED BY <2>1, <2>2, <1>3, <1>6 DEF AppliedOnce
<1>11. ASSUME NEW t \in Server, NEW c \in Clerk PROVE LastId(t, c)'
  <2>1. LastId(t, c)
    BY DEF StateInv
  <2>2. CASE t # s
    BY <2>1, <2>2, <1>3, <1>6, <1>7 DEF LastId
  <2>3. CASE t = s /\ c # e.clerk
    <3>1. seqMap'[t][c] = seqMap[t][c] /\ applied'[t] = a + 1 /\ applied[t] = a
      BY <2>3, <1>1, <1>6, <1>7
    <3>2. \A i \in 1..(a + 1) : chosen[i].clerk = c => i \in 1..a
      BY <2>3, <1>2
    <3>3. 1..a \subseteq 1..(a + 1)
      OBVIOUS
    <3> QED BY <2>1, <3>1, <3>2, <3>3, <1>3 DEF LastId
  <2>4. CASE t = s /\ c = e.clerk
    <3>1. seqMap'[t][c] = e.id /\ applied'[t] = a + 1 /\ a + 1 \in 1..(a + 1)
      BY <2>4, <1>6, <1>7
    <3>2. \A i \in 1..(a + 1) : chosen[i].clerk = c => chosen[i].id <= e.id
      BY <2>4, <1>1, <1>2, ChosenSound
    <3> QED BY <3>1, <3>2, <2>4, <1>2, <1>3 DEF LastId
  <2> QED BY <2>2, <2>3, <2>4
<1> QED BY <1>8, <1>9, <1>10, <1>11 DEF StateInv

\* Nothing of what StateInv is about changes.
LEMMA StateUnchanged ==
    StateInv /\ UNCHANGED <<chosen, store, stateVars>> => StateInv'
<1> SUFFICES ASSUME StateInv, UNCHANGED <<chosen, store, stateVars>> PROVE StateInv'
  OBVIOUS
<1>1. AppliedOnce' /\ \A s, c : LastId(s, c)' <=> LastId(s, c)
  BY DEF StateInv, AppliedOnce, LastId, stateVars
<1> QED BY <1>1 DEF StateInv, stateVars

\* Every step keeps the states the effect of the applied entries.
LEMMA StateNext ==
    ASSUME Typed, Typed', LogInv, StateInv, [Next]_vars
    PROVE  StateInv'
<1>1. ASSUME NEW s \in Server, Elect(s) PROVE StateInv'
  BY <1>1, StateUnchanged DEF Elect, historyVars
<1>2. ASSUME NEW t \in Term, StepDown(t) PROVE StateInv'
  BY <1>2, StateUnchanged DEF StepDown, historyVars
<1>3. ASSUME NEW c \in Clerk,
             Request(c) \/ Retry(c) \/ Register(c) \/ MakeFifo(c) \/ OpenFifo(c) \/ ReturnRecved(c) \/ ReturnTimeout(c)
      PROVE  StateInv'
  BY <1>3, StateUnchanged
  DEF Request, Retry, Start, Register, MakeFifo, OpenFifo, ReturnRecved, ReturnTimeout, Reply,
      raftVars, historyVars
<1>4. ASSUME NEW s \in Server, Notify(s) PROVE StateInv'
  BY <1>4, StateUnchanged DEF Notify, raftVars, historyVars
<1>5. ASSUME NEW n \in unlinkers, Unlink(n) PROVE StateInv'
  BY <1>5, StateUnchanged DEF Unlink, raftVars, historyVars
<1>6. ASSUME UNCHANGED vars PROVE StateInv'
  BY <1>6, StateUnchanged DEF vars, raftVars, historyVars
<1> QED
  BY <1>1, <1>2, <1>3, <1>4, <1>5, <1>6, StateCommit, StateApply
  DEF Next, RaftStep, HandlerStep, ServerStep

\* The states of the servers and the store are effects of the chosen entries.
LEMMA KvState == Spec => []StateInv
BY KvTyped, KvLogs, StateInit, StateNext, PTL DEF Spec

\* The database of every server is the effect of the committed entries it has
\* applied, each request once, however often its clerk retried it and whichever
\* leader appended it again: the apply loop's comparison with m_clientSeqMap
\* (server.cpp:360-368) skips exactly the repetitions.
THEOREM KvAppliedOnce == Spec => []AppliedOnce
<1>1. StateInv => AppliedOnce
  BY DEF StateInv
<1> QED BY <1>1, KvState, PTL

-----------------------------------------------------------------------------
(* The values a clerk may be answered.                                     *)

\* No clerk waits at the start.
LEMMA SeenInit == Init => SeenInv
BY DEF Init, SeenInv

\* A commit shows its value to every waiting clerk.
LEMMA SeenCommit ==
    ASSUME Typed, Typed', StateInv, StateInv', SeenInv, Commit
    PROVE  SeenInv'
<1>1. /\ Len(chosen') = Len(chosen) + 1
      /\ \A i \in 1..Len(chosen) : chosen'[i] = chosen[i]
  BY CommitState
<1>2. Len(chosen) \in Nat
  BY DEF Typed, RaftTyped
<1>3. UNCHANGED <<busy, requestId>> /\ busy \subseteq Clerk
  BY DEF Commit, clerkVars, Typed, ClerksTyped
<1>4. \A c \in busy : seen'[c] = seen[c] \cup {store'}
  BY <1>3 DEF Commit
<1>5. store = Effect(chosen) /\ store' = Effect(chosen')
  BY DEF StateInv
<1> SUFFICES ASSUME NEW c \in busy
             PROVE  /\ store' \in seen'[c]
                    /\ \A i \in 1..Len(chosen') : Of(c, i)' =>
                          \A k \in (i - 1)..Len(chosen') : Effect(SubSeq(chosen', 1, k)) \in seen'[c]
  BY <1>3 DEF SeenInv
<1>6. ASSUME NEW i \in 1..Len(chosen'), Of(c, i)', NEW k \in (i - 1)..Len(chosen')
      PROVE  Effect(SubSeq(chosen', 1, k)) \in seen'[c]
  <2>1. CASE k = Len(chosen')
    BY <2>1, <1>4, <1>5, ChosenGrows
  <2>2. CASE k = Len(chosen)
    BY <2>2, <1>4, <1>5, ChosenGrows DEF SeenInv
  <2>3. CASE k # Len(chosen') /\ k # Len(chosen)
    <3>1. i \in 1..Len(chosen) /\ k \in (i - 1)..Len(chosen) /\ k \in 0..Len(chosen)
      BY <2>3, <1>1, <1>2
    <3>2. Of(c, i)
      BY <3>1, <1>1, <1>3, <1>6 DEF Of
    <3> QED BY <3>1, <3>2, <1>4, ChosenGrows DEF SeenInv
  <2> QED BY <2>1, <2>2, <2>3
<1> QED BY <1>4, <1>6

\* A clerk that begins to wait has seen the store, and nothing of its request is
\* chosen yet.
LEMMA SeenRequest ==
    ASSUME Typed, LogInv, StateInv, SeenInv, NEW c \in Clerk, Request(c)
    PROVE  SeenInv'
<1>1. /\ UNCHANGED <<chosen, store>>
      /\ busy' = busy \cup {c} /\ c \notin busy
      /\ requestId' = [requestId EXCEPT ![c] = requestId[c] + 1]
      /\ seen' = [seen EXCEPT ![c] = {store}]
  BY DEF Request, Start
<1>2. seen'[c] = {store} /\ requestId'[c] = requestId[c] + 1 /\ requestId[c] \in Nat
  BY <1>1 DEF Typed, HistoryTyped, ClerksTyped
<1>3. ASSUME NEW i \in 1..Len(chosen) PROVE ~Of(c, i)'
  <2>1. chosen[i].clerk = c => chosen[i].id <= requestId[c] /\ chosen[i].id \in Nat
    BY ChosenSound DEF Entry
  <2> QED BY <2>1, <1>1, <1>2 DEF Of
<1>4. ASSUME NEW d \in busy PROVE seen'[d] = seen[d] /\ \A i : Of(d, i)' <=> Of(d, i)
  <2>1. d # c /\ d \in Clerk
    BY <1>1 DEF Typed, ClerksTyped
  <2> QED BY <2>1, <1>1 DEF Of, Typed, HistoryTyped, ClerksTyped
<1> QED BY <1>1, <1>2, <1>3, <1>4 DEF SeenInv

\* A reply ends the wait or changes nothing.
LEMMA SeenReply ==
    ASSUME Typed, SeenInv, NEW c \in Clerk, NEW wrong, NEW value, Reply(c, wrong, value), UNCHANGED chosen
    PROVE  SeenInv'
<1>1. UNCHANGED <<chosen, store, requestId>> /\ busy' \subseteq busy
  BY DEF Reply
<1>2. ASSUME NEW d \in busy' PROVE seen'[d] = seen[d]
  BY DEF Reply, Typed, HistoryTyped
<1> QED BY <1>1, <1>2 DEF SeenInv, Of

\* Nothing of what SeenInv is about changes.
LEMMA SeenUnchanged ==
    SeenInv /\ UNCHANGED <<chosen, requestId, busy, historyVars>> => SeenInv'
<1> SUFFICES ASSUME SeenInv, UNCHANGED <<chosen, requestId, busy, historyVars>> PROVE SeenInv'
  OBVIOUS
<1>1. \A c, i : Of(c, i)' <=> Of(c, i)
  BY DEF Of
<1> QED BY <1>1 DEF SeenInv, historyVars

\* Every step keeps what the waiting clerks may be answered.
LEMMA SeenNext ==
    ASSUME Typed, Typed', LogInv, StateInv, StateInv', SeenInv, [Next]_vars
    PROVE  SeenInv'
<1>1. ASSUME NEW s \in Server, Elect(s) \/ Apply(s) \/ Notify(s) PROVE SeenInv'
  BY <1>1, SeenUnchanged DEF Elect, Apply, Notify, raftVars, clerkVars
<1>2. ASSUME NEW t \in Term, StepDown(t) PROVE SeenInv'
  BY <1>2, SeenUnchanged DEF StepDown, clerkVars
<1>3. ASSUME NEW c \in Clerk, Retry(c) \/ Register(c) \/ MakeFifo(c) \/ OpenFifo(c)
      PROVE  SeenInv'
  BY <1>3, SeenUnchanged DEF Retry, Start, Register, MakeFifo, OpenFifo, raftVars, clerkVars
<1>4. ASSUME NEW c \in Clerk, ReturnRecved(c) \/ ReturnTimeout(c) PROVE SeenInv'
  BY <1>4, SeenReply DEF ReturnRecved, ReturnTimeout, raftVars
<1>5. ASSUME NEW n \in unlinkers, Unlink(n) PROVE SeenInv'
  BY <1>5, SeenUnchanged DEF Unlink, raftVars, clerkVars
<1>6. ASSUME UNCHANGED vars PROVE SeenInv'
  BY <1>6, SeenUnchanged DEF vars, raftVars, clerkVars
<1> QED
  BY <1>1, <1>2, <1>3, <1>4, <1>5, <1>6, SeenCommit, SeenRequest
  DEF Next, RaftStep, HandlerStep, ServerStep

\* A waiting clerk has seen every value since the choice of its entry.
LEMMA KvSeen == Spec => []SeenInv
BY KvTyped, KvLogs, KvState, SeenInit, SeenNext, PTL DEF Spec

-----------------------------------------------------------------------------
(* What the handlers have been told when they return.                      *)

\* Names of FIFOs identify clerks.
LEMMA NamesDiffer ==
    /\ \A c, d \in Clerk : Name(c) = Name(d) => c = d
    /\ \A c \in Clerk : Name(c) # NoName
BY DEF Name, NoName

\* The entries chosen, applied and seen only become more.
MoreKnown ==
    /\ Len(chosen) <= Len(chosen')
    /\ \A i \in 1..Len(chosen) : chosen'[i] = chosen[i]
    /\ \A s \in Server : applied[s] <= applied'[s]
    /\ \A c \in busy \cap busy' : requestId'[c] = requestId[c] /\ seen[c] \subseteq seen'[c]

\* Every step keeps what was chosen, applied and seen.
LEMMA MoreKnownNext ==
    ASSUME Typed, Typed', [Next]_vars
    PROVE  MoreKnown
<1>0. /\ Len(chosen) \in Nat
      /\ \A s \in Server : applied[s] \in Nat
      /\ busy \subseteq Clerk
      /\ seen \in [Clerk -> SUBSET Value] /\ requestId \in [Clerk -> Nat]
  BY Constants DEF Typed, RaftTyped, StateTyped, ClerksTyped, HistoryTyped
<1>1. ASSUME UNCHANGED <<chosen, applied, requestId, seen>> PROVE MoreKnown
  BY <1>0, <1>1 DEF MoreKnown
<1>2. ASSUME NEW s \in Server, Elect(s) \/ Notify(s) PROVE MoreKnown
  BY <1>1, <1>2 DEF Elect, Notify, raftVars, stateVars, clerkVars, historyVars
<1>3. ASSUME NEW t \in Term, StepDown(t) PROVE MoreKnown
  BY <1>1, <1>3 DEF StepDown, stateVars, clerkVars, historyVars
<1>4. ASSUME Commit PROVE MoreKnown
  <2>1. /\ Len(chosen') = Len(chosen) + 1
        /\ \A i \in 1..Len(chosen) : chosen'[i] = chosen[i]
    BY <1>4, CommitState
  <2>2. \A c \in busy : seen'[c] = seen[c] \cup {store'}
    BY <1>0, <1>4 DEF Commit
  <2>3. UNCHANGED <<applied, requestId>>
    BY <1>4 DEF Commit, stateVars, clerkVars
  <2> QED BY <1>0, <2>1, <2>2, <2>3 DEF MoreKnown
<1>5. ASSUME NEW c \in Clerk, Retry(c) \/ Register(c) \/ MakeFifo(c) \/ OpenFifo(c) PROVE MoreKnown
  BY <1>1, <1>5 DEF Retry, Start, Register, MakeFifo, OpenFifo, raftVars, stateVars, clerkVars, historyVars
<1>6. ASSUME NEW c \in Clerk, Request(c) PROVE MoreKnown
  <2>1. UNCHANGED <<chosen, applied>> /\ \A d \in busy : requestId'[d] = requestId[d] /\ seen'[d] = seen[d]
    BY <1>0, <1>6 DEF Request, Start, stateVars
  <2> QED BY <1>0, <2>1 DEF MoreKnown
<1>7. ASSUME NEW c \in Clerk, ReturnRecved(c) \/ ReturnTimeout(c) PROVE MoreKnown
  <2>1. UNCHANGED <<chosen, applied, requestId>> /\ \A d \in busy' : seen'[d] = seen[d]
    BY <1>0, <1>7 DEF ReturnRecved, ReturnTimeout, Reply, raftVars, stateVars
  <2> QED BY <1>0, <2>1 DEF MoreKnown
<1>8. ASSUME NEW s \in Server, Apply(s) PROVE MoreKnown
  <2>1. UNCHANGED <<chosen, requestId, seen>> /\ \A t \in Server : applied[t] <= applied'[t]
    BY <1>0, <1>8 DEF Apply, raftVars, clerkVars, historyVars, Typed, StateTyped
  <2> QED BY <1>0, <2>1 DEF MoreKnown
<1>9. ASSUME NEW n \in unlinkers, Unlink(n) PROVE MoreKnown
  BY <1>1, <1>9 DEF Unlink, raftVars, stateVars, clerkVars, historyVars
<1>10. ASSUME UNCHANGED vars PROVE MoreKnown
  BY <1>1, <1>10 DEF vars, raftVars, stateVars, clerkVars, historyVars
<1> QED
  BY <1>2, <1>3, <1>4, <1>5, <1>6, <1>7, <1>8, <1>9, <1>10
  DEF Next, RaftStep, HandlerStep, ServerStep

\* A call that was told stays told.
LEMMA ToldKept ==
    ASSUME Typed, Typed', MoreKnown, NEW c \in Clerk, c \in busy, c \in busy', CallSound(c), Told(c),
           call'[c].pc # "idle", call'[c].server = call[c].server, call'[c].index = call[c].index,
           call'[c].term = call[c].term, call'[c].wrong = call[c].wrong, call'[c].value = call[c].value
    PROVE  Told(c)'
<1>1. call[c].server \in Server /\ call[c].index \in 1..MaxLog
  BY DEF CallSound, Told
<1>2. PICK s \in Server, i \in Nat : s = call[c].server /\ i = call[c].index /\ 1 <= i
  BY <1>1, Constants
<1>3. /\ Len(chosen) \in Nat /\ Len(chosen') \in Nat /\ Len(chosen) <= Len(chosen')
      /\ applied[s] \in Nat /\ applied'[s] \in Nat /\ applied[s] <= applied'[s]
  BY Constants DEF Typed, RaftTyped, StateTyped, MoreKnown
<1>4. requestId'[c] = requestId[c] /\ seen[c] \subseteq seen'[c]
  BY DEF MoreKnown
<1>5. applied'[s] >= i
  BY <1>2, <1>3 DEF Told
<1>6. Right(c) => Right(c)'
  <2> SUFFICES ASSUME Right(c) PROVE Right(c)'
    OBVIOUS
  <2>1. i \in 1..Len(chosen) /\ i <= Len(chosen')
    BY <1>2, <1>3 DEF Right
  <2>2. chosen'[i] = chosen[i]
    BY <2>1 DEF MoreKnown
  <2> QED BY <1>2, <1>4, <2>1, <2>2 DEF Right, CurrentOp
<1> QED BY <1>2, <1>5, <1>6 DEF Told

\* Every write finished before is still chosen.
LEMMA DoneKept ==
    ASSUME Typed, Typed', MoreKnown
    PROVE  \A c, n : Done(c, n) => Done(c, n)'
<1>1. /\ Len(chosen) \in Nat /\ Len(chosen') \in Nat /\ Len(chosen) <= Len(chosen')
      /\ \A i \in 1..Len(chosen) : chosen'[i] = chosen[i]
  BY DEF Typed, RaftTyped, MoreKnown
<1>2. \A i \in 1..Len(chosen) : i \in 1..Len(chosen')
  BY <1>1
<1> QED BY <1>1, <1>2 DEF Done

\* The writes done so far stay done while the clerk begins no new request.
LEMMA WritesDoneKept ==
    ASSUME Typed, Typed', MoreKnown, NEW c \in Clerk, WritesDone(c),
           requestId'[c] = requestId[c], c \in busy => c \in busy'
    PROVE  WritesDone(c)'
BY DoneKept DEF WritesDone

\* What a context holds is not disturbed by a step of another call.
LEMMA CallToldKept ==
    ASSUME Typed, Typed', CallInv, MoreKnown, NEW d \in Clerk, CallTold(d),
           call'[d] = call[d], requestId'[d] = requestId[d], d \in busy => d \in busy',
           \A s \in Server : applier'[s] = Name(d) => applier[s] = Name(d),
           Name(d) \in fifo /\ Name(d) \notin unlinkers => Name(d) \in fifo' /\ Name(d) \notin unlinkers'
    PROVE  CallTold(d)'
<1> SUFFICES ASSUME call[d].pc # "idle" PROVE CallTold(d)'
  BY DEF CallTold
<1>1. CallSound(d) /\ d \in busy /\ call[d].server \in Server
  BY DEF CallInv, CallSound
<1>2. Told(d) => Told(d)'
  BY <1>1, ToldKept
<1>3. Name(d)' = Name(d) /\ CurrentOp(d)' = CurrentOp(d)
  BY DEF Name, CurrentOp
<1> QED BY <1>1, <1>2, <1>3 DEF CallTold

\* The name the apply loop of s is about to open stays that of a live call.
LEMMA AddressedKept ==
    ASSUME NEW s \in Server, Addressed(s), applier'[s] = applier[s],
           \A c \in Clerk : applier[s] = Name(c) /\ call[c].pc # "idle" /\ call[c].server = s =>
              call'[c].pc # "idle" /\ call'[c].server = s /\ requestId'[c] = requestId[c]
    PROVE  Addressed(s)'
BY DEF Addressed, Name

\* No handler runs at the start.
LEMMA ToldInit == Init => ToldInv
<1> SUFFICES ASSUME Init PROVE ToldInv
  OBVIOUS
<1>1. \A c \in Clerk : call[c].pc = "idle" /\ requestId[c] = 0
  BY DEF Init, NoCall
<1>2. \A s \in Server : applier[s] = NoName
  BY DEF Init
<1>3. \A c \in Clerk : WritesDone(c)
  BY <1>1 DEF WritesDone
<1> QED BY <1>1, <1>2, <1>3 DEF ToldInv, CallTold, Addressed

\* Nothing of the calls changes.
LEMMA ToldUnchanged ==
    ASSUME Typed, Typed', CallInv, ToldInv, MoreKnown,
           UNCHANGED <<call, applier, fifo, unlinkers, requestId, busy>>
    PROVE  ToldInv'
<1>1. ASSUME NEW c \in Clerk PROVE CallTold(c)'
  BY CallToldKept DEF ToldInv
<1>2. ASSUME NEW s \in Server PROVE Addressed(s)'
  BY AddressedKept DEF ToldInv
<1>3. ASSUME NEW c \in Clerk PROVE WritesDone(c)'
  BY WritesDoneKept DEF ToldInv
<1> QED BY <1>1, <1>2, <1>3 DEF ToldInv

\* The context after start: nothing in it yet.
LEMMA StartCall ==
    ASSUME Typed, NEW c \in Clerk, NEW id \in Nat \ {0}, id <= Len(Script[c]), Start(c, id)
    PROVE  \E h : /\ call' = [call EXCEPT ![c] = h]
                  /\ h.pc = "started" /\ h.server \in Server /\ h.wrong = FALSE
                  /\ h.value = NoValue /\ h.recved = FALSE
<1>0. PICK t, h : StartedAt(c, id, t, h)
  BY StartLog
<1>1. /\ t \in leading
      /\ t \in Term /\ t <= Latest
      /\ log[t] \in Seq(Entry) /\ Len(log[t]) < MaxLog
      /\ LET e == [clerk |-> c, id |-> id, op |-> Script[c][id], term |-> t] IN
         /\ e \in Entry
         /\ \A u \in Term : u # t => log'[u] = log[u]
         /\ Len(log'[t]) = Len(log[t]) + 1
         /\ \A i \in 1..Len(log[t]) : log'[t][i] = log[t][i]
         /\ log'[t][Len(log[t]) + 1] = e
      /\ h = [pc |-> "started", server |-> leader[t], index |-> Len(log[t]) + 1,
              term |-> t, wrong |-> FALSE, value |-> NoValue, recved |-> FALSE]
      /\ call' = [call EXCEPT ![c] = h]
  BY <1>0 DEF StartedAt
<1>2. leader[t] \in Server
  BY <1>1, LatestTyped DEF Typed, RaftTyped, Elected
<1>3. h.pc = "started" /\ h.server = leader[t] /\ h.wrong = FALSE /\ h.value = NoValue /\ h.recved = FALSE
  BY <1>1
<1> QED BY <1>1, <1>2, <1>3

\* A handler that starts has been told nothing, and its clerk's earlier writes are
\* chosen.
LEMMA ToldStart ==
    ASSUME Typed, Typed', CallInv, ToldInv, MoreKnown,
           NEW c \in Clerk, NEW id \in Nat \ {0}, id <= Len(Script[c]), Start(c, id),
           requestId' = [requestId EXCEPT ![c] = id], busy' = busy \cup {c},
           \/ c \in busy /\ id = requestId[c]
           \/ c \notin busy /\ id = requestId[c] + 1
    PROVE  ToldInv'
<1>1. PICK h : /\ call' = [call EXCEPT ![c] = h]
               /\ h.pc = "started" /\ h.server \in Server /\ h.wrong = FALSE
               /\ h.value = NoValue /\ h.recved = FALSE
  BY StartCall
<1>2. call'[c] = h /\ \A d \in Clerk : d # c => call'[d] = call[d]
  BY <1>1 DEF Typed, CallsTyped
<1>3. call[c].pc = "idle" /\ UNCHANGED <<applier, fifo, unlinkers>>
  BY DEF Start
<1>4. requestId'[c] = id /\ \A d \in Clerk : d # c => requestId'[d] = requestId[d]
  BY DEF Typed, ClerksTyped
<1>5. \A s \in Server, n \in Nat : applier[s] # <<c, n>>
  <2> SUFFICES ASSUME NEW s \in Server, NEW n \in Nat, applier[s] = <<c, n>> PROVE FALSE
    OBVIOUS
  <2>0. applier[s] # NoName /\ Addressed(s)
    BY DEF ToldInv, NoName
  <2>1. PICK d \in Clerk : applier[s] = Name(d) /\ call[d].pc # "idle"
    BY <2>0 DEF Addressed
  <2>2. d = c
    BY <2>1 DEF Name
  <2> QED BY <2>1, <2>2, <1>3
<1>6. CallTold(c)'
  <2>1. Name(c)' = <<c, id>>
    BY <1>4 DEF Name
  <2>2. applier'[h.server] # <<c, id>>
    BY <1>1, <1>3, <1>5
  <2> QED BY <1>1, <1>2, <2>1, <2>2 DEF CallTold
<1>7. ASSUME NEW d \in Clerk, d # c PROVE CallTold(d)'
  BY <1>2, <1>3, <1>4, <1>7, CallToldKept DEF ToldInv
<1>8. ASSUME NEW s \in Server PROVE Addressed(s)'
  <2>1. Addressed(s)
    BY DEF ToldInv
  <2>2. \A d \in Clerk : call[d].pc # "idle" => d # c
    BY <1>3
  <2> QED BY <2>1, <2>2, <1>2, <1>3, <1>4, AddressedKept
<1>9. ASSUME NEW d \in Clerk, d # c PROVE WritesDone(d)'
  BY <1>4, <1>9, WritesDoneKept DEF ToldInv
<1>10. WritesDone(c)'
  <2> SUFFICES ASSUME NEW n \in 1..id, n < id, Script[c][n] # "get" PROVE Done(c, n)'
    BY <1>4 DEF WritesDone
  <2>1. requestId[c] \in Nat
    BY DEF Typed, ClerksTyped
  <2>2. n \in 1..requestId[c] /\ (n < requestId[c] \/ c \notin busy)
    BY <2>1
  <2>3. Done(c, n)
    BY <2>2 DEF ToldInv, WritesDone
  <2> QED BY <2>3, DoneKept
<1> QED BY <1>6, <1>7, <1>8, <1>9, <1>10 DEF ToldInv

\* The steps of a handler before it waits.
LEMMA ToldProgress ==
    ASSUME Typed, Typed', CallInv, ToldInv, MoreKnown, QuickRetry = FALSE,
           NEW c \in Clerk, Register(c) \/ MakeFifo(c) \/ OpenFifo(c)
    PROVE  ToldInv'
<1>1. PICK h : /\ call' = [call EXCEPT ![c] = h]
               /\ h.server = call[c].server /\ h.index = call[c].index /\ h.term = call[c].term
               /\ h.wrong = call[c].wrong /\ h.value = call[c].value
               /\ h.pc \in {"registered", "created", "waiting"} /\ call[c].pc # "idle"
               /\ \/ h.recved = call[c].recved /\ call[c].pc \in {"started", "registered"}
                     /\ (h.pc = "created" => Name(c) \in fifo' /\ Name(c) \notin unlinkers')
                  \/ call[c].pc = "created" /\ h.pc = "waiting" /\ h.recved = (Name(c) \notin fifo)
  <2>0. call[c] \in Handler
    BY DEF Typed, CallsTyped
  <2>1. CASE Register(c)
    <3>1. PICK h : h = [call[c] EXCEPT !.pc = "registered"] /\ call' = [call EXCEPT ![c] = h]
      BY <2>1 DEF Register
    <3>2. /\ h.server = call[c].server /\ h.index = call[c].index /\ h.term = call[c].term
          /\ h.wrong = call[c].wrong /\ h.value = call[c].value
          /\ h.pc = "registered" /\ h.recved = call[c].recved
      BY <2>0, <3>1 DEF Handler
    <3>3. call[c].pc = "started"
      BY <2>1 DEF Register
    <3> QED BY <3>1, <3>2, <3>3
  <2>2. CASE MakeFifo(c)
    <3>1. PICK p \in {"created", "waiting"} : call' = [call EXCEPT ![c].pc = p]
      BY <2>2 DEF MakeFifo
    <3>2. PICK h : h = [call[c] EXCEPT !.pc = p] /\ call' = [call EXCEPT ![c] = h]
      BY <3>1
    <3>3. Name(c) \in fifo' /\ Name(c) \notin unlinkers' /\ call[c].pc = "registered"
      BY <2>2 DEF MakeFifo
    <3>4. /\ h.server = call[c].server /\ h.index = call[c].index /\ h.term = call[c].term
          /\ h.wrong = call[c].wrong /\ h.value = call[c].value
          /\ h.pc = p /\ h.recved = call[c].recved
      BY <2>0, <3>2 DEF Handler
    <3> QED BY <3>2, <3>3, <3>4
  <2>3. CASE OpenFifo(c)
    <3>1. PICK h : h = [call[c] EXCEPT !.pc = "waiting", !.recved = (Name(c) \notin fifo)]
                   /\ call' = [call EXCEPT ![c] = h]
      BY <2>3 DEF OpenFifo
    <3>2. /\ h.server = call[c].server /\ h.index = call[c].index /\ h.term = call[c].term
          /\ h.wrong = call[c].wrong /\ h.value = call[c].value
          /\ h.pc = "waiting" /\ h.recved = (Name(c) \notin fifo)
      BY <2>0, <3>1 DEF Handler
    <3>3. call[c].pc = "created"
      BY <2>3 DEF OpenFifo
    <3> QED BY <3>1, <3>2, <3>3
  <2> QED BY <2>1, <2>2, <2>3
<1>2. call'[c] = h /\ \A d \in Clerk : d # c => call'[d] = call[d]
  BY <1>1 DEF Typed, CallsTyped
<1>3. UNCHANGED <<applier, unlinkers, requestId, busy>> /\ fifo \subseteq fifo'
  BY DEF Register, MakeFifo, OpenFifo, clerkVars
<1>4. CallSound(c) /\ c \in busy /\ call[c].server \in Server /\ CallTold(c)
  BY <1>1 DEF CallInv, CallSound, ToldInv
<1>5. Told(c) => Told(c)'
  BY <1>1, <1>2, <1>3, <1>4, ToldKept
<1>6. Name(c)' = Name(c) /\ CurrentOp(c)' = CurrentOp(c)
  BY <1>3 DEF Name, CurrentOp
<1>7. CallTold(c)'
  <2>1. CASE call[c].pc \in {"started", "registered"}
    BY <1>1, <1>2, <1>3, <1>4, <1>5, <1>6, <2>1 DEF CallTold
  <2>2. CASE call[c].pc = "created"
    BY <1>1, <1>2, <1>3, <1>4, <1>5, <1>6, <2>2 DEF CallTold
  <2> QED BY <1>1, <2>1, <2>2
<1>8. ASSUME NEW d \in Clerk, d # c PROVE CallTold(d)'
  BY <1>2, <1>3, <1>8, CallToldKept DEF ToldInv
<1>9. ASSUME NEW s \in Server PROVE Addressed(s)'
  <2>1. \A d \in Clerk : call[d].pc # "idle" => call'[d].pc # "idle" /\ call'[d].server = call[d].server
    BY <1>1, <1>2
  <2> QED BY <2>1, <1>3, AddressedKept DEF ToldInv
<1>10. ASSUME NEW d \in Clerk PROVE WritesDone(d)'
  BY <1>3, WritesDoneKept DEF ToldInv
<1> QED BY <1>7, <1>8, <1>9, <1>10 DEF ToldInv

\* When the term of the entry chosen at a call's index is the one start answered,
\* the entry is the one start appended.
LEMMA OwnEntry ==
    ASSUME Typed, LogInv, NEW c \in Clerk, CallSound(c), call[c].pc # "idle",
           call[c].index <= Len(chosen), chosen[call[c].index].term = call[c].term
    PROVE  /\ call[c].index \in 1..Len(chosen)
           /\ chosen[call[c].index] = [clerk |-> c, id |-> requestId[c], op |-> CurrentOp(c),
                                       term |-> call[c].term]
<1>1. PICK i \in Nat : i = call[c].index /\ 1 <= i
  BY Constants DEF CallSound
<1>2. i \in 1..Len(chosen)
  BY <1>1 DEF Typed, RaftTyped
<1>3. Latest \in Term /\ i \in 1..Len(log[Latest]) /\ chosen[i] = log[Latest][i]
  BY <1>2, LatestTyped DEF Typed, RaftTyped, LogInv
<1>4. EntrySound(Latest, i)
  BY <1>3 DEF LogInv
<1>5. chosen[i] = log[chosen[i].term][i]
  BY <1>3, <1>4 DEF EntrySound
<1> QED BY <1>1, <1>2, <1>5 DEF CallSound, CurrentOp

\* The tail of a handler, with the right answer or with "wrong leader".
LEMMA ToldReply ==
    ASSUME Typed, Typed', CallInv, ToldInv, MoreKnown,
           NEW c \in Clerk, NEW wrong \in BOOLEAN, NEW value, Reply(c, wrong, value),
           call[c].pc # "idle", applier[call[c].server] # Name(c),
           UNCHANGED <<applier, fifo, unlinkers>>,
           ~wrong /\ CurrentOp(c) # "get" => Done(c, requestId[c])
    PROVE  ToldInv'
<1>1. call'[c] = NoCall /\ \A d \in Clerk : d # c => call'[d] = call[d]
  BY DEF Reply, Typed, CallsTyped
<1>2. UNCHANGED requestId /\ \A d \in Clerk : d # c /\ d \in busy => d \in busy'
  BY DEF Reply
<1>3. ASSUME NEW d \in Clerk PROVE CallTold(d)'
  <2>1. CASE d = c
    BY <2>1, <1>1 DEF CallTold, NoCall
  <2>2. CASE d # c
    BY <2>2, <1>1, <1>2, CallToldKept DEF ToldInv
  <2> QED BY <2>1, <2>2
<1>4. ASSUME NEW s \in Server PROVE Addressed(s)'
  <2>1. ASSUME NEW d \in Clerk, applier[s] = Name(d), call[d].pc # "idle", call[d].server = s
        PROVE  call'[d].pc # "idle" /\ call'[d].server = s /\ requestId'[d] = requestId[d]
    <3>1. d # c
      BY <2>1
    <3> QED BY <2>1, <3>1, <1>1, <1>2
  <2> QED BY <2>1, AddressedKept DEF ToldInv
<1>5. ASSUME NEW d \in Clerk PROVE WritesDone(d)'
  <2>1. CASE d # c \/ wrong
    <3>1. d \in busy => d \in busy'
      BY <2>1, <1>2 DEF Reply
    <3> QED BY <3>1, <1>2, WritesDoneKept DEF ToldInv
  <2>2. CASE d = c /\ ~wrong
    <3> SUFFICES ASSUME NEW n \in 1..requestId[c], Script[c][n] # "get" PROVE Done(c, n)'
      BY <2>2, <1>2 DEF WritesDone
    <3>1. CASE n = requestId[c]
      BY <3>1, <2>2, DoneKept DEF CurrentOp
    <3>2. CASE n # requestId[c]
      <4>1. n < requestId[c]
        BY <3>2 DEF Typed, ClerksTyped
      <4> QED BY <4>1, DoneKept DEF ToldInv, WritesDone
    <3> QED BY <3>1, <3>2
  <2> QED BY <2>1, <2>2
<1> QED BY <1>3, <1>4, <1>5 DEF ToldInv

\* A handler returns the answer it was told, or "wrong leader" after two seconds.
LEMMA ToldReturn ==
    ASSUME Typed, Typed', LogInv, CallInv, ToldInv, MoreKnown, LateNotify = FALSE,
           NEW c \in Clerk, ReturnRecved(c) \/ ReturnTimeout(c)
    PROVE  ToldInv'
<1>1. call[c].pc = "waiting" /\ call[c].pc # "idle" /\ CallTold(c) /\ CallSound(c)
  BY DEF ReturnRecved, ReturnTimeout, ToldInv, CallInv
<1>2. CASE ReturnRecved(c)
  <2>1. Told(c) /\ applier[call[c].server] # Name(c) /\ call[c].wrong \in BOOLEAN
    BY <1>1, <1>2 DEF ReturnRecved, CallTold, Typed, CallsTyped, Handler
  <2>2. ASSUME ~call[c].wrong, CurrentOp(c) # "get" PROVE Done(c, requestId[c])
    <3>1. call[c].index <= Len(chosen) /\ chosen[call[c].index].term = call[c].term
      BY <2>1, <2>2 DEF Told, Right
    <3>2. call[c].index \in 1..Len(chosen)
          /\ chosen[call[c].index] = [clerk |-> c, id |-> requestId[c], op |-> CurrentOp(c),
                                      term |-> call[c].term]
      BY <1>1, <3>1, OwnEntry
    <3>3. chosen[call[c].index].clerk = c /\ chosen[call[c].index].id = requestId[c]
      BY <3>2
    <3> QED BY <3>2, <3>3 DEF Done
  <2> QED BY <1>1, <1>2, <2>1, <2>2, ToldReply DEF ReturnRecved
<1>3. CASE ReturnTimeout(c)
  <2>1. applier[call[c].server] # Name(c) /\ Reply(c, TRUE, NoValue) /\ UNCHANGED <<applier, fifo, unlinkers>>
    BY <1>3 DEF ReturnTimeout
  <2> QED BY <1>1, <2>1, ToldReply
<1> QED BY <1>2, <1>3

\* The apply loop writes the answer into the context at its index before it opens
\* that FIFO: the right one, or isWrongLeader when the entry is another leader's.
LEMMA ToldApply ==
    ASSUME Typed, Typed', LogInv, CallInv, StateInv, SeenInv, ToldInv, MoreKnown,
           NEW s \in Server, Apply(s)
    PROVE  ToldInv'
<1>1. PICK a \in Nat : a = applied[s] /\ a + 1 \in 1..Len(chosen) /\ a + 1 \in 1..MaxLog
  BY Constants DEF Apply, Known, Typed, StateTyped, RaftTyped
<1>2. PICK e \in Entry : e = chosen[a + 1]
  BY <1>1, ChosenSound
<1>3. UNCHANGED <<chosen, fifo, unlinkers, requestId, busy, seen>> /\ applier[s] = NoName
  BY DEF Apply, raftVars, clerkVars, historyVars
<1>4. applied'[s] = a + 1
  BY <1>1 DEF Apply, Typed, StateTyped
<1>5. PICK c : c = requestMap[s][a + 1]
  OBVIOUS
<1>6. c \in Clerk \cup {None}
  BY <1>1, <1>5, ContextTyped DEF Typed
<1>7. CASE c = None
  <2>1. UNCHANGED <<call, applier>>
    BY <1>1, <1>5, <1>7 DEF Apply
  <2> QED BY <1>3, <2>1, ToldUnchanged
<1>8. CASE c # None
  <2>1. c \in Clerk
    BY <1>6, <1>8
  <2>2. /\ call[c].pc \in {"registered", "created", "waiting"} /\ call[c].pc # "idle"
        /\ call[c].server = s /\ call[c].index = a + 1
    BY <1>1, <1>5, <1>8 DEF CallInv, ContextsLive
  <2>3. /\ call' = [call EXCEPT ![c].wrong = @ \/ call[c].term # e.term,
                                ![c].value = IF e.op = "get" THEN db[s] ELSE @]
        /\ applier' = [applier EXCEPT ![s] = Name(c)]
    BY <1>1, <1>2, <1>5, <1>8 DEF Apply
  <2>4. call[c] \in Handler
    BY <2>1 DEF Typed, CallsTyped
  <2>5. PICK h : /\ h = [call[c] EXCEPT !.wrong = call[c].wrong \/ call[c].term # e.term,
                                        !.value = IF e.op = "get" THEN db[s] ELSE call[c].value]
                 /\ call'[c] = h
    BY <2>1, <2>3 DEF Typed, CallsTyped
  <2>6. /\ h.pc = call[c].pc /\ h.server = s /\ h.index = a + 1 /\ h.term = call[c].term
        /\ h.recved = call[c].recved
        /\ h.wrong = (call[c].wrong \/ call[c].term # e.term)
        /\ h.value = IF e.op = "get" THEN db[s] ELSE call[c].value
    BY <2>2, <2>4, <2>5 DEF Handler
  <2>7. \A d \in Clerk : d # c => call'[d] = call[d]
    BY <2>1, <2>3 DEF Typed, CallsTyped
  <2>8. applier'[s] = Name(c) /\ \A t \in Server : t # s => applier'[t] = applier[t]
    BY <2>3 DEF Typed, CallsTyped
  <2>9. CallSound(c) /\ CallTold(c) /\ c \in busy
    BY <2>1, <2>2 DEF CallInv, CallSound, ToldInv
  <2>10. ~Told(c)
    BY <1>1, <2>2 DEF Told
  <2>11. ~call[c].recved
    BY <2>2, <2>9, <2>10 DEF CallTold
  <2>12. ASSUME ~h.wrong
         PROVE  /\ ~call[c].wrong /\ e.op = CurrentOp(c)
                /\ chosen[a + 1].term = call[c].term
                /\ Of(c, a + 1)
    <3>1. ~call[c].wrong /\ chosen[a + 1].term = call[c].term
      BY <2>6, <2>12, <1>2
    <3>2. call[c].index <= Len(chosen)
      BY <1>1, <2>2 DEF Typed, RaftTyped
    <3>3. chosen[a + 1] = [clerk |-> c, id |-> requestId[c], op |-> CurrentOp(c), term |-> call[c].term]
      BY <2>1, <2>2, <2>9, <3>1, <3>2, OwnEntry
    <3> QED BY <3>1, <3>3, <1>2 DEF Of
  <2>13. ASSUME ~h.wrong PROVE Right(c)'
    <3>1. CASE CurrentOp(c) = "get"
      <4>1. h.value = Effect(SubSeq(chosen, 1, a))
        BY <3>1, <2>6, <2>12, <2>13, <1>1 DEF StateInv, AppliedOnce
      <4>2. a \in ((a + 1) - 1)..Len(chosen)
        BY <1>1
      <4>3. h.value \in seen[c]
        BY <4>1, <4>2, <2>9, <2>12, <2>13, <1>1 DEF SeenInv
      <4> QED BY <1>1, <1>3, <2>5, <2>6, <2>12, <2>13, <3>1, <4>3 DEF Right, CurrentOp, Typed, RaftTyped
    <3>2. CASE CurrentOp(c) # "get"
      <4>1. h.value = NoValue
        BY <3>2, <2>2, <2>6, <2>9, <2>12, <2>13 DEF CallTold
      <4> QED BY <1>1, <1>3, <2>5, <2>6, <2>12, <2>13, <3>2, <4>1 DEF Right, CurrentOp, Typed, RaftTyped
    <3> QED BY <3>1, <3>2
  <2>14. Told(c)'
    BY <1>4, <2>2, <2>5, <2>6, <2>13 DEF Told
  <2>15. CallTold(c)'
    <3>1. Name(c)' = Name(c) /\ CurrentOp(c)' = CurrentOp(c)
      BY <1>3 DEF Name, CurrentOp
    <3>2. ~h.wrong /\ CurrentOp(c) # "get" => h.value = NoValue
      BY <2>6, <2>9, <2>12, <2>2 DEF CallTold
    <3>3. h.pc = "created" => Name(c) \in fifo /\ Name(c) \notin unlinkers
      BY <2>2, <2>6, <2>9, <2>10 DEF CallTold
    <3> QED BY <1>3, <2>2, <2>5, <2>6, <2>11, <2>14, <3>1, <3>2, <3>3 DEF CallTold
  <2>16. ASSUME NEW d \in Clerk, d # c PROVE CallTold(d)'
    <3>1. \A t \in Server : applier'[t] = Name(d) => applier[t] = Name(d)
      BY <2>1, <2>8, <2>16, NamesDiffer
    <3> QED BY <3>1, <1>3, <2>7, <2>16, CallToldKept DEF ToldInv
  <2>17. ASSUME NEW t \in Server PROVE Addressed(t)'
    <3>1. CASE t = s
      <4>1. Name(c)' = Name(c)
        BY <1>3 DEF Name
      <4> QED BY <3>1, <4>1, <2>1, <2>2, <2>5, <2>6, <2>8 DEF Addressed
    <3>2. CASE t # s
      <4>1. \A d \in Clerk : call[d].pc # "idle" => call'[d].pc # "idle" /\ call'[d].server = call[d].server
        BY <2>2, <2>5, <2>6, <2>7
      <4> QED BY <3>2, <4>1, <1>3, <2>8, AddressedKept DEF ToldInv
    <3> QED BY <3>1, <3>2
  <2>18. ASSUME NEW d \in Clerk PROVE WritesDone(d)'
    BY <1>3, WritesDoneKept DEF ToldInv
  <2> QED BY <2>15, <2>16, <2>17, <2>18 DEF ToldInv
<1> QED BY <1>7, <1>8

\* The apply loop wakes the readers of one name: they have been told.
LEMMA ToldNotify ==
    ASSUME Typed, Typed', CallInv, ToldInv, MoreKnown, NEW s \in Server, Notify(s)
    PROVE  ToldInv'
<1>1. PICK c \in Clerk : applier[s] = Name(c) /\ call[c].pc # "idle" /\ call[c].server = s
  BY DEF Notify, ToldInv, Addressed
<1>2. CallTold(c) /\ CallSound(c) /\ c \in busy
  BY <1>1 DEF ToldInv, CallInv, CallSound
<1>3. Told(c) /\ call[c].pc # "started" /\ ~call[c].recved
  BY <1>1, <1>2 DEF CallTold
<1>4. UNCHANGED <<requestId, busy>> /\ applier'[s] = NoName /\ \A t \in Server : t # s => applier'[t] = applier[t]
  BY DEF Notify, clerkVars, Typed, CallsTyped
<1>5. PICK W \in SUBSET Clerk : /\ \A d \in W : call[d].pc = "waiting" /\ Name(d) = Name(c)
                     /\ \/ call' = call
                        \/ call' = [d \in Clerk |-> [call[d] EXCEPT !.recved = @ \/ d \in W]]
  <2> DEFINE W == {d \in Clerk : call[d].pc = "waiting" /\ Name(d) = applier[s]}
  <2>1. \/ call' = call
        \/ call' = [d \in Clerk |-> [call[d] EXCEPT !.recved = @ \/ d \in W]]
    BY DEF Notify
  <2>2. W \in SUBSET Clerk /\ \A d \in W : call[d].pc = "waiting" /\ Name(d) = Name(c)
    BY <1>1
  <2> HIDE DEF W
  <2> QED BY <2>1, <2>2
<1>6. \A d \in Clerk : /\ call'[d].pc = call[d].pc /\ call'[d].server = call[d].server
                       /\ call'[d].index = call[d].index /\ call'[d].term = call[d].term
                       /\ call'[d].wrong = call[d].wrong /\ call'[d].value = call[d].value
                       /\ call'[d].recved => call[d].recved \/ d \in W
                       /\ d \notin W => call'[d] = call[d]
  <2> SUFFICES ASSUME NEW d \in Clerk
               PROVE  /\ call'[d].pc = call[d].pc /\ call'[d].server = call[d].server
                      /\ call'[d].index = call[d].index /\ call'[d].term = call[d].term
                      /\ call'[d].wrong = call[d].wrong /\ call'[d].value = call[d].value
                      /\ call'[d].recved => call[d].recved \/ d \in W
                      /\ d \notin W => call'[d] = call[d]
    OBVIOUS
  <2>1. call[d] \in Handler
    BY DEF Typed, CallsTyped
  <2>2. CASE call' = call
    BY <2>2
  <2>3. CASE call' = [b \in Clerk |-> [call[b] EXCEPT !.recved = @ \/ b \in W]]
    <3>1. call'[d] = [call[d] EXCEPT !.recved = @ \/ d \in W]
      BY <2>3
    <3>2. d \notin W => (call[d].recved \/ d \in W) = call[d].recved
      BY <2>1 DEF Handler
    <3> QED BY <2>1, <3>1, <3>2 DEF Handler
  <2> QED BY <1>5, <2>2, <2>3
<1>7. \A d \in Clerk : d # c => d \notin W
  BY <1>5, NamesDiffer
<1>8. \A d \in Clerk : d # c /\ Name(d) \in fifo /\ Name(d) \notin unlinkers
                          => Name(d) \in fifo' /\ Name(d) \notin unlinkers'
  <2>1. \A d \in Clerk : d # c => Name(d) # applier[s]
    BY <1>1, NamesDiffer
  <2> QED BY <2>1 DEF Notify
<1>9. Told(c)'
  BY <1>1, <1>2, <1>3, <1>4, <1>6, ToldKept
<1>10. CallTold(c)'
  <2>1. Name(c)' = Name(c) /\ CurrentOp(c)' = CurrentOp(c)
    BY <1>4 DEF Name, CurrentOp
  <2>2. call'[c].recved => call'[c].pc = "waiting"
    BY <1>2, <1>3, <1>5, <1>6
  <2>3. applier'[s] # Name(c)
    BY <1>4, NamesDiffer
  <2> QED BY <1>1, <1>2, <1>3, <1>6, <1>9, <2>1, <2>2, <2>3 DEF CallTold
<1>11. ASSUME NEW d \in Clerk, d # c PROVE CallTold(d)'
  <2>1. \A t \in Server : applier'[t] = Name(d) => applier[t] = Name(d)
    BY <1>4, NamesDiffer
  <2>2. call'[d] = call[d]
    BY <1>6, <1>7, <1>11
  <2> QED BY <2>1, <2>2, <1>4, <1>8, <1>11, CallToldKept DEF ToldInv
<1>12. ASSUME NEW t \in Server PROVE Addressed(t)'
  <2>1. CASE t = s
    BY <2>1, <1>4 DEF Addressed
  <2>2. CASE t # s
    BY <2>2, <1>4, <1>6, AddressedKept DEF ToldInv
  <2> QED BY <2>1, <2>2
<1>13. ASSUME NEW d \in Clerk PROVE WritesDone(d)'
  BY <1>4, WritesDoneKept DEF ToldInv
<1> QED BY <1>10, <1>11, <1>12, <1>13 DEF ToldInv

\* A reader unlinks its name: only calls that were told lose their FIFO.
LEMMA ToldUnlink ==
    ASSUME Typed, Typed', CallInv, ToldInv, MoreKnown, NEW n \in unlinkers, Unlink(n)
    PROVE  ToldInv'
<1>1. UNCHANGED <<call, applier, requestId, busy>>
  BY DEF Unlink, clerkVars
<1>2. \A d \in Clerk : Name(d) \in fifo /\ Name(d) \notin unlinkers
                          => Name(d) \in fifo' /\ Name(d) \notin unlinkers'
  BY DEF Unlink
<1>3. ASSUME NEW c \in Clerk PROVE CallTold(c)'
  BY <1>1, <1>2, CallToldKept DEF ToldInv
<1>4. ASSUME NEW s \in Server PROVE Addressed(s)'
  BY <1>1, AddressedKept DEF ToldInv
<1>5. ASSUME NEW c \in Clerk PROVE WritesDone(c)'
  BY <1>1, WritesDoneKept DEF ToldInv
<1> QED BY <1>3, <1>4, <1>5 DEF ToldInv

\* Every step keeps what the handlers know.
LEMMA ToldNext ==
    ASSUME LateNotify = FALSE, QuickRetry = FALSE,
           Typed, Typed', LogInv, CallInv, StateInv, SeenInv, ToldInv, [Next]_vars
    PROVE  ToldInv'
<1>0. MoreKnown
  BY MoreKnownNext
<1>1. ASSUME NEW c \in Clerk, Request(c) PROVE ToldInv'
  <2>1. PICK id \in Nat \ {0} : /\ id <= Len(Script[c]) /\ Start(c, id)
                                /\ requestId' = [requestId EXCEPT ![c] = id] /\ busy' = busy \cup {c}
                                /\ c \notin busy /\ id = requestId[c] + 1
    <3>1. requestId[c] \in Nat
      BY DEF Typed, ClerksTyped
    <3>2. requestId[c] + 1 \in Nat \ {0}
      BY <3>1
    <3> QED BY <1>1, <3>2 DEF Request
  <2> QED BY <1>0, <2>1, ToldStart
<1>2. ASSUME NEW c \in Clerk, Retry(c) PROVE ToldInv'
  <2>1. PICK id \in Nat \ {0} : /\ id <= Len(Script[c]) /\ Start(c, id)
                                /\ requestId' = [requestId EXCEPT ![c] = id] /\ busy' = busy \cup {c}
                                /\ c \in busy /\ id = requestId[c]
    BY <1>2 DEF Retry, Typed, ClerksTyped, clerkVars
  <2> QED BY <1>0, <2>1, ToldStart
<1>3. ASSUME RaftStep PROVE ToldInv'
  BY <1>0, <1>3, ToldUnchanged DEF RaftStep, Elect, StepDown, Commit, rpcVars, clerkVars
<1>4. ASSUME UNCHANGED vars PROVE ToldInv'
  BY <1>0, <1>4, ToldUnchanged DEF vars, rpcVars, clerkVars
<1> QED
  BY <1>0, <1>1, <1>2, <1>3, <1>4, ToldProgress, ToldReturn, ToldApply, ToldNotify, ToldUnlink
  DEF Next, HandlerStep, ServerStep

\* A handler that finds isRecved set holds the right answer or "wrong leader".
LEMMA KvTold ==
    ASSUME LateNotify = FALSE, QuickRetry = FALSE
    PROVE  Spec => []ToldInv
BY KvTyped, KvLogs, KvCalls, KvState, KvSeen, ToldInit, ToldNext, PTL DEF Spec

-----------------------------------------------------------------------------
(* The service implements one store.                                       *)

\* The write clerk c called last has taken effect: its entry is chosen.
Executed(c) ==
    \E i \in DOMAIN chosen : Name(c) = <<chosen[i].clerk, chosen[i].id>> /\ chosen[i].op # "get"

\* The refinement mapping: the clerks whose call is open, and those whose write
\* has taken effect.
Opens == [c \in Clerk |-> c \in busy]
Executeds == [c \in Clerk |-> Executed(c)]

\* Functions to the truth values.
LEMMA BooleanUpdate ==
    ASSUME NEW S, NEW f \in [S -> BOOLEAN], NEW g \in [S -> BOOLEAN], NEW c \in S, NEW b \in BOOLEAN,
           g[c] = b, \A d \in S : d # c => g[d] = f[d]
    PROVE  g = [f EXCEPT ![c] = b]
OBVIOUS

\* Such functions with the same values are equal.
LEMMA BooleanSame ==
    ASSUME NEW S, NEW f \in [S -> BOOLEAN], NEW g \in [S -> BOOLEAN], \A d \in S : g[d] = f[d]
    PROVE  g = f
OBVIOUS

\* The open calls, clerk by clerk.
LEMMA OpensIs ==
    /\ Opens \in [Clerk -> BOOLEAN] /\ Opens' \in [Clerk -> BOOLEAN]
    /\ \A d \in Clerk : Opens[d] = (d \in busy)
    /\ \A d \in Clerk : Opens'[d] = (d \in busy')
<1>1. Opens \in [Clerk -> BOOLEAN] /\ Opens' \in [Clerk -> BOOLEAN]
  BY SMT DEF Opens
<1>2. \A d \in Clerk : Opens[d] = (d \in busy)
  BY Zenon DEF Opens
<1>3. \A d \in Clerk : Opens'[d] = (d \in busy')
  BY Zenon DEF Opens
<1> QED BY <1>1, <1>2, <1>3

\* The executed writes, clerk by clerk.
LEMMA ExecutedsIs ==
    /\ Executeds \in [Clerk -> BOOLEAN] /\ Executeds' \in [Clerk -> BOOLEAN]
    /\ \A d \in Clerk : Executeds[d] = Executed(d)
    /\ \A d \in Clerk : Executeds'[d] = Executed(d)'
BY Zenon DEF Executeds, Executed

\* How the clerks' open calls and executed writes change.
LEMMA OpensUpdate ==
    ASSUME NEW c \in Clerk
    PROVE  /\ busy' = busy \cup {c} => Opens' = [Opens EXCEPT ![c] = TRUE]
           /\ busy' = busy \ {c} => Opens' = [Opens EXCEPT ![c] = FALSE]
<1>1. ASSUME busy' = busy \cup {c} PROVE Opens' = [Opens EXCEPT ![c] = TRUE]
  <2>1. Opens'[c] = TRUE /\ \A d \in Clerk : d # c => Opens'[d] = Opens[d]
    BY <1>1, OpensIs
  <2> QED BY <2>1, OpensIs, BooleanUpdate
<1>2. ASSUME busy' = busy \ {c} PROVE Opens' = [Opens EXCEPT ![c] = FALSE]
  <2>1. Opens'[c] = FALSE /\ \A d \in Clerk : d # c => Opens'[d] = Opens[d]
    BY <1>2, OpensIs
  <2> QED BY <2>1, OpensIs, BooleanUpdate
<1> QED BY <1>1, <1>2

\* One clerk's write becomes executed, or a new one is not yet.
LEMMA ExecutedsUpdate ==
    ASSUME NEW c \in Clerk, NEW b \in BOOLEAN, Executed(c)' = b,
           \A d \in Clerk : d # c => (Executed(d)' <=> Executed(d))
    PROVE  Executeds' = [Executeds EXCEPT ![c] = b]
<1>1. Executeds'[c] = b
  BY ExecutedsIs
<1>2. \A d \in Clerk : d # c => Executeds'[d] = Executeds[d]
  BY ExecutedsIs
<1> QED BY <1>1, <1>2, ExecutedsIs, BooleanUpdate

\* No clerk's write becomes executed.
LEMMA ExecutedsSame ==
    ASSUME \A d \in Clerk : Executed(d)' <=> Executed(d)
    PROVE  Executeds' = Executeds
<1>1. \A d \in Clerk : Executeds'[d] = Executeds[d]
  BY ExecutedsIs
<1> QED BY <1>1, ExecutedsIs, BooleanSame

\* The service starts as an empty store.
LEMMA StoreInit == Init => KV!Init
<1> SUFFICES ASSUME Init PROVE KV!Init
  OBVIOUS
<1>1. DOMAIN chosen = {}
  <2>1. chosen \in Seq(Entry) /\ Len(chosen) = 0
    BY DEF Init
  <2> QED BY <2>1
<1>2. PICK none \in [Clerk -> BOOLEAN] : none = [c \in Clerk |-> FALSE] /\ \A c \in Clerk : none[c] = FALSE
  <2>1. [c \in Clerk |-> FALSE] \in [Clerk -> BOOLEAN]
    BY SMT
  <2>2. \A d \in Clerk : [c \in Clerk |-> FALSE][d] = FALSE
    BY Zenon
  <2> QED BY <2>1, <2>2, Zenon
<1>3. Opens = none
  <2>1. \A c \in Clerk : Opens[c] = none[c]
    BY <1>2, OpensIs DEF Init
  <2> QED BY <2>1, OpensIs, BooleanSame
<1>4. Executeds = none
  <2>1. \A c \in Clerk : Executeds[c] = none[c]
    BY <1>1, <1>2, ExecutedsIs DEF Executed
  <2> QED BY <2>1, ExecutedsIs, BooleanSame
<1> QED BY <1>2, <1>3, <1>4 DEF KV!Init, KV!NoAnswer, NoValue, Init, Opens, Executeds, Executed

\* A step that leaves the clerks and the chosen entries alone.
LEMMA StoreStutters ==
    UNCHANGED <<chosen, requestId, busy, answer, store, seen>> => UNCHANGED KV!vars
BY DEF KV!vars, Name

\* A clerk's new request is a call of the store: none of its entries is chosen yet.
LEMMA StoreCall ==
    ASSUME Typed, LogInv, NEW c \in Clerk, Request(c)
    PROVE  KV!Call(c)
<1>1. /\ c \notin busy /\ busy' = busy \cup {c}
      /\ requestId' = [requestId EXCEPT ![c] = requestId[c] + 1] /\ requestId[c] + 1 <= Len(Script[c])
      /\ seen' = [seen EXCEPT ![c] = {store}]
      /\ UNCHANGED <<answer, store, chosen>>
  BY DEF Request, Start
<1>2. requestId[c] \in Nat /\ Script[c] \in Seq(Operation) /\ Len(Script[c]) \in Nat
  BY Constants DEF Typed, ClerksTyped
<1>3. DOMAIN chosen = 1..Len(chosen)
  BY DEF Typed, RaftTyped
<1>4. ~Executed(c)'
  <2>1. ASSUME NEW i \in 1..Len(chosen), chosen[i].clerk = c PROVE chosen[i].id # requestId[c] + 1
    <3>1. chosen[i].id <= requestId[c] /\ chosen[i].id \in Nat
      BY <2>1, ChosenSound DEF Entry
    <3> QED BY <3>1, <1>2
  <2>2. requestId'[c] = requestId[c] + 1
    BY <1>1 DEF Typed, ClerksTyped
  <2> QED BY <2>1, <2>2, <1>1, <1>3 DEF Executed, Name
<1>5. ASSUME NEW d \in Clerk, d # c PROVE Executed(d)' <=> Executed(d)
  <2>1. Name(d)' = Name(d)
    BY <1>1, <1>5 DEF Name, Typed, ClerksTyped
  <2> QED BY <2>1, <1>1 DEF Executed
<1>6. Executeds' = [Executeds EXCEPT ![c] = FALSE]
  <2>1. Executed(c)' = FALSE
    BY <1>4, Zenon DEF Executed
  <2>2. FALSE \in BOOLEAN
    OBVIOUS
  <2>3. \A d \in Clerk : d # c => (Executed(d)' <=> Executed(d))
    BY <1>5
  <2> QED BY <2>1, <2>2, <2>3, ExecutedsUpdate
<1>7. Opens' = [Opens EXCEPT ![c] = TRUE]
  BY <1>1, OpensUpdate
<1>8. requestId[c] < Len(Script[c])
  BY <1>1, <1>2
<1>9. ~Opens[c]
  BY <1>1, OpensIs
<1> QED BY <1>1, <1>6, <1>7, <1>8, <1>9 DEF KV!Call, Opens, Executeds, Executed

\* Choosing the first entry of a write executes it, while its clerk still waits for
\* it; choosing a read or a repetition changes nothing.
LEMMA StoreCommit ==
    ASSUME Typed, Typed', LogInv, LogInv', SeenInv, ToldInv, Commit
    PROVE  (\E c \in Clerk : KV!Execute(c)) \/ UNCHANGED KV!vars
<1>1. PICK e \in Entry :
             /\ Len(chosen') = Len(chosen) + 1
             /\ \A i \in 1..Len(chosen) : chosen'[i] = chosen[i]
             /\ chosen'[Len(chosen) + 1] = e
             /\ store' = IF e.op = "get" \/ Repeated(chosen', Len(chosen')) THEN store ELSE Written(store, e)
  BY CommitState
<1>2. PICK n \in Nat : n = Len(chosen) /\ n + 1 = Len(chosen')
                       /\ DOMAIN chosen = 1..n /\ DOMAIN chosen' = 1..(n + 1)
  BY <1>1 DEF Typed, RaftTyped
<1>3. UNCHANGED <<requestId, busy, answer>> /\ busy \subseteq Clerk
      /\ seen' = [c \in Clerk |-> IF c \in busy THEN seen[c] \cup {store'} ELSE seen[c]]
  BY DEF Commit, clerkVars, Typed, ClerksTyped
<1>4. e.clerk \in Clerk /\ e.id \in Nat \ {0}
  BY DEF Entry
<1>5. Repeated(chosen', n + 1) <=> \E i \in 1..n : chosen[i].clerk = e.clerk /\ chosen[i].id = e.id
  <2>1. (n + 1) - 1 = n
    OBVIOUS
  <2> QED BY <2>1, <1>1, <1>2 DEF Repeated
<1>6. e.op = Script[e.clerk][e.id] /\ e.id <= requestId'[e.clerk]
      /\ \A i \in 1..n : chosen[i].op = Script[chosen[i].clerk][chosen[i].id]
  <2>1. n + 1 \in 1..Len(chosen')
    BY <1>2
  <2>2. e.op = Script[e.clerk][e.id] /\ e.id <= requestId'[e.clerk]
    <3>1. \A i \in 1..Len(chosen') :
             /\ chosen'[i].id <= requestId'[chosen'[i].clerk]
             /\ chosen'[i].op = Script[chosen'[i].clerk][chosen'[i].id]
      BY ChosenSoundPrimed DEF OpsSound
    <3> QED BY <3>1, <2>1, <1>1, <1>2
  <2> QED BY <2>2, <1>2, ChosenSound
<1>7. \A d \in Clerk : Executed(d)' <=> Executed(d) \/ (Name(d) = <<e.clerk, e.id>> /\ e.op # "get")
  <2>1. ASSUME NEW d \in Clerk
        PROVE  Executed(d)' <=> \E i \in 1..(n + 1) : Name(d) = <<chosen'[i].clerk, chosen'[i].id>> /\ chosen'[i].op # "get"
    <3>1. Name(d)' = Name(d)
      BY <1>3 DEF Name
    <3> QED BY <3>1, <1>2 DEF Executed
  <2>2. \A i \in 1..(n + 1) : (i \in 1..n /\ chosen'[i] = chosen[i]) \/ (i = n + 1 /\ chosen'[i] = e)
    <3>1. \A i \in 1..(n + 1) : i \in 1..n \/ i = n + 1
      OBVIOUS
    <3>2. \A i \in 1..n : chosen'[i] = chosen[i]
      BY <1>1, <1>2
    <3>3. chosen'[n + 1] = e
      BY <1>1, <1>2
    <3>4. ASSUME NEW i \in 1..(n + 1)
          PROVE  (i \in 1..n /\ chosen'[i] = chosen[i]) \/ (i = n + 1 /\ chosen'[i] = e)
      <4>1. CASE i \in 1..n
        BY <4>1, <3>2
      <4>2. CASE i = n + 1
        BY <4>2, <3>3
      <4> QED BY <4>1, <4>2, <3>1
    <3> QED BY <3>4
  <2>3. n + 1 \in 1..(n + 1) /\ \A i \in 1..n : i \in 1..(n + 1)
    OBVIOUS
  <2>4. ASSUME NEW d \in Clerk
        PROVE  Executed(d) <=> \E i \in 1..n : Name(d) = <<chosen[i].clerk, chosen[i].id>> /\ chosen[i].op # "get"
    BY <1>2 DEF Executed
  <2>5. chosen'[n + 1] = e /\ \A i \in 1..n : chosen'[i] = chosen[i]
    BY <1>1, <1>2
  <2> QED BY <2>1, <2>2, <2>3, <2>4, <2>5
<1>8. CASE e.op = "get" \/ Repeated(chosen', n + 1)
  <2>1. store' = store
    BY <1>1, <1>2, <1>8
  <2>2. seen' = seen
    BY <1>3, <2>1 DEF SeenInv, Typed, HistoryTyped
  <2>3. ASSUME NEW d \in Clerk PROVE Executed(d)' <=> Executed(d)
    <3>1. ASSUME Name(d) = <<e.clerk, e.id>>, e.op # "get" PROVE Executed(d)
      <4>1. PICK i \in 1..n : chosen[i].clerk = e.clerk /\ chosen[i].id = e.id
        BY <3>1, <1>5, <1>8
      <4>2. chosen[i].op = e.op
        BY <4>1, <1>6
      <4> QED BY <4>1, <4>2, <3>1, <1>2 DEF Executed
    <3> QED BY <3>1, <1>7
  <2>4. Executeds' = Executeds
    BY <2>3, ExecutedsSame
  <2> QED BY <1>3, <2>1, <2>2, <2>4 DEF KV!vars, Executeds, Executed
<1>9. CASE e.op # "get" /\ ~Repeated(chosen', n + 1)
  <2> DEFINE c == e.clerk
  <2>1. ~Done(c, e.id)
    BY <1>2, <1>5, <1>9 DEF Done
  <2>2. c \in busy /\ requestId[c] = e.id
    <3>1. e.id \in 1..requestId[c] /\ requestId[c] \in Nat
      BY <1>3, <1>4, <1>6 DEF Typed, ClerksTyped
    <3>2. ~(e.id < requestId[c] \/ c \notin busy)
      BY <2>1, <3>1, <1>4, <1>6, <1>9 DEF ToldInv, WritesDone
    <3> QED BY <3>1, <3>2
  <2>3. store' = Written(store, e)
    BY <1>1, <1>2, <1>9
  <2>4. store' = KV!Written(store, Script[c][requestId[c]], c, requestId[c])
    BY <2>2, <2>3, <1>6 DEF Written, KV!Written
  <2>5. ~Executed(c)
    BY <2>2, <1>2, <1>5, <1>9 DEF Executed, Name
  <2>6. Name(c) = <<e.clerk, e.id>> /\ \A d \in Clerk : d # c => Name(d) # <<e.clerk, e.id>>
    BY <2>2 DEF Name
  <2>7. \A d \in Clerk : Executed(d)' <=> d = c \/ Executed(d)
    BY <2>6, <1>7, <1>9
  <2>8. Executeds' = [Executeds EXCEPT ![c] = TRUE]
    <3>1. Executed(c)' = TRUE
      BY <2>7, <1>4
    <3>2. \A d \in Clerk : d # c => (Executed(d)' <=> Executed(d))
      BY <2>7
    <3> QED BY <3>1, <3>2, <1>4, ExecutedsUpdate
  <2>9. Opens[c] /\ ~Executeds[c] /\ UNCHANGED Opens
    BY <2>2, <2>5, <1>3, <1>4, OpensIs, ExecutedsIs DEF Opens
  <2>10. Script[c][requestId[c]] # "get"
    BY <2>2, <1>6, <1>9
  <2>11. seen' = [d \in Clerk |-> IF Opens[d] THEN seen[d] \cup {store'} ELSE seen[d]]
    BY <1>3, OpensIs
  <2>12. KV!Execute(c)
    BY <2>4, <2>8, <2>9, <2>10, <2>11, <1>3 DEF KV!Execute, KV!Op, Opens, Executeds, Executed
  <2> QED BY <2>12, <1>4
<1> QED BY <1>8, <1>9

\* An answer that is not "wrong leader" is a return of the store.
LEMMA StoreReturn ==
    ASSUME Typed, LogInv, CallInv, ToldInv, NEW c \in Clerk, ReturnRecved(c)
    PROVE  KV!Return(c) \/ UNCHANGED KV!vars
<1>1. /\ call[c].pc # "idle" /\ call[c].recved
      /\ Reply(c, call[c].wrong, call[c].value) /\ UNCHANGED chosen
  BY DEF ReturnRecved, raftVars
<1>2. CallSound(c) /\ CallTold(c) /\ c \in busy /\ call[c].wrong \in BOOLEAN
  BY <1>1 DEF CallInv, ToldInv, CallSound, Typed, CallsTyped, Handler
<1>3. CASE call[c].wrong
  BY <1>1, <1>3, StoreStutters DEF Reply
<1>4. CASE ~call[c].wrong
  <2>1. Right(c)
    BY <1>1, <1>2, <1>4 DEF CallTold, Told
  <2>2. /\ busy' = busy \ {c} /\ answer' = [answer EXCEPT ![c] = call[c].value]
        /\ seen' = [seen EXCEPT ![c] = {}] /\ UNCHANGED <<requestId, store, chosen>>
    BY <1>1, <1>4 DEF Reply
  <2>3. Opens' = [Opens EXCEPT ![c] = FALSE] /\ Opens[c]
    BY <1>2, <2>2, OpensIs, OpensUpdate
  <2>4. Executeds' = Executeds
    BY <2>2 DEF Executeds, Executed, Name
  <2>5. CASE CurrentOp(c) = "get"
    <3>1. call[c].value \in seen[c]
      BY <2>1, <2>5 DEF Right
    <3> QED BY <1>2, <2>2, <2>3, <2>4, <2>5, <3>1 DEF KV!Return, KV!Op, CurrentOp, Opens, Executeds, Executed
  <2>6. CASE CurrentOp(c) # "get"
    <3>1. call[c].value = NoValue /\ call[c].index <= Len(chosen)
          /\ chosen[call[c].index].term = call[c].term
      BY <2>1, <2>6 DEF Right
    <3>2. PICK i \in 1..Len(chosen) : chosen[i] = [clerk |-> c, id |-> requestId[c], op |-> CurrentOp(c),
                                                   term |-> call[c].term]
      BY <1>1, <1>2, <3>1, OwnEntry
    <3>3. chosen[i].clerk = c /\ chosen[i].id = requestId[c] /\ chosen[i].op # "get"
      BY <3>2, <2>6
    <3>4. Executed(c)
      BY <3>3 DEF Executed, Name, Typed, RaftTyped
    <3>5. KV!Op(c) # "get"
      BY <2>6 DEF KV!Op, CurrentOp
    <3>6. Executeds[c]
      BY <3>4, ExecutedsIs
    <3> QED BY <2>2, <2>3, <2>4, <3>1, <3>5, <3>6
            DEF KV!Return, KV!NoAnswer, NoValue, Opens, Executeds, Executed
  <2> QED BY <2>5, <2>6
<1> QED BY <1>2, <1>3, <1>4

\* Every step is one of the store's or changes nothing of it.
LEMMA StoreNext ==
    ASSUME Typed, Typed', LogInv, LogInv', CallInv, SeenInv, ToldInv, [Next]_vars
    PROVE  [KV!Next]_(KV!vars)
<1>1. ASSUME NEW c \in Clerk, Request(c) PROVE KV!Next
  BY <1>1, StoreCall DEF KV!Next
<1>2. ASSUME Commit PROVE [KV!Next]_(KV!vars)
  BY <1>2, StoreCommit DEF KV!Next
<1>3. ASSUME NEW c \in Clerk, ReturnRecved(c) PROVE [KV!Next]_(KV!vars)
  BY <1>3, StoreReturn DEF KV!Next
<1>4. ASSUME NEW c \in Clerk, ReturnTimeout(c) PROVE UNCHANGED KV!vars
  BY <1>4, StoreStutters DEF ReturnTimeout, Reply, raftVars
<1>5. ASSUME NEW c \in Clerk, Retry(c) \/ Register(c) \/ MakeFifo(c) \/ OpenFifo(c) PROVE UNCHANGED KV!vars
  BY <1>5, StoreStutters DEF Retry, Start, Register, MakeFifo, OpenFifo, raftVars, clerkVars, historyVars
<1>6. ASSUME NEW s \in Server, Elect(s) \/ Apply(s) \/ Notify(s) PROVE UNCHANGED KV!vars
  BY <1>6, StoreStutters DEF Elect, Apply, Notify, raftVars, clerkVars, historyVars
<1>7. ASSUME NEW t \in Term, StepDown(t) PROVE UNCHANGED KV!vars
  BY <1>7, StoreStutters DEF StepDown, clerkVars, historyVars
<1>8. ASSUME NEW n \in unlinkers, Unlink(n) PROVE UNCHANGED KV!vars
  BY <1>8, StoreStutters DEF Unlink, raftVars, clerkVars, historyVars
<1>9. ASSUME UNCHANGED vars PROVE UNCHANGED KV!vars
  BY <1>9, StoreStutters DEF vars, raftVars, clerkVars, historyVars
<1> QED
  BY <1>1, <1>2, <1>3, <1>4, <1>5, <1>6, <1>7, <1>8, <1>9
  DEF Next, RaftStep, HandlerStep, ServerStep

\* To its clerks the service is one store: each put and append is executed exactly
\* once between its call and its return, each get returns a value the store had
\* in between, through retries at other servers, changes of leader, answers that
\* come after the time-out and FIFOs that two calls share by name.  A time-out does
\* not fall between the apply loop's unlock and its open (LateNotify), and a retry
\* makes its FIFO after the reader of the earlier one has unlinked it (QuickRetry).
THEOREM KvOneStore ==
    ASSUME LateNotify = FALSE, QuickRetry = FALSE
    PROVE  Spec => OneStore
<1>1. Spec => [](Typed /\ LogInv /\ CallInv /\ SeenInv /\ ToldInv)
  BY KvTyped, KvLogs, KvCalls, KvSeen, KvTold, PTL
<1>2. Init => KV!Init
  BY StoreInit
<1>3. Typed /\ Typed' /\ LogInv /\ LogInv' /\ CallInv /\ SeenInv /\ ToldInv /\ [Next]_vars
      => [KV!Next]_(KV!vars)
  BY StoreNext
<1> QED BY <1>1, <1>2, <1>3, PTL DEF Spec, OneStore, KV!Spec
=============================================================================
