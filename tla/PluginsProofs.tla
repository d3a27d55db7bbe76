---------------------------- MODULE PluginsProofs ----------------------------
(***************************************************************************)
(* Proofs about Plugins, for any number of goroutines, plugins, addresses  *)
(* and connections, whatever the plugins answer.                           *)
(*                                                                         *)
(* First the records of the goroutines and the pool: an open connection is *)
(* the one its address has there, which makes it the only one and lets     *)
(* Close find it.  Then the answers: each was heard or is the failure that *)
(* stands for silence.                                                     *)
(***************************************************************************)
EXTENDS Plugins, TLAPS, FiniteSetTheorems, SequenceTheorems

-----------------------------------------------------------------------------
\* Types

Answers == UNION {[S -> Answer] : S \in SUBSET Nat}

State ==
    [stage : Stage, todo : Seq(Plugin), conn : Conn \cup {NoConn}, entries : Seq(Entry),
     failed : BOOLEAN, call : Calls \cup {NoCall}, pending : SUBSET Nat, answers : Answers,
     verdict : Answer]

\* The least of a set of numbers, by the order of the initial segments up to them.
LEMMA MinType ==
    ASSUME NEW S \in SUBSET Nat, S # {}
    PROVE  /\ Min(S) \in S
           /\ \A y \in S : Min(S) <= y
<1> DEFINE segments == {0..k : k \in S}
<1>1. segments \subseteq FiniteSubsetsOf(Nat) /\ segments # {}
  <2>1. \A k \in S : 0..k \in SUBSET Nat /\ IsFiniteSet(0..k)
    BY FS_Interval
  <2> QED
    BY <2>1 DEF FiniteSubsetsOf
<1>2. PICK x \in segments : \A y \in segments : ~ (<<y, x>> \in StrictSubsetOrdering(Nat))
  BY <1>1, FS_StrictSubsetOrderingWellFounded, WFMin
<1>3. PICK m \in S : x = 0..m
  OBVIOUS
<1>4. ASSUME NEW y \in S, y < m
      PROVE  FALSE
  <2>1. 0..y \subseteq 0..m /\ m \in 0..m /\ m \notin 0..y
    BY <1>4
  <2>2. <<0..y, 0..m>> \in StrictSubsetOrdering(Nat)
    BY <2>1 DEF StrictSubsetOrdering
  <2> QED
    BY <1>2, <1>3, <2>2
<1>5. \A y \in S : m <= y
  BY <1>4
<1> QED
  BY <1>5 DEF Min

LEMMA AnswersType ==
    /\ Pass \in Answer /\ Warn \in Answer /\ Fail \in Answer
    /\ <<>> \in Answers /\ DOMAIN <<>> = {}
    /\ \A answers \in Answers : DOMAIN answers \in SUBSET Nat
<1>1. Pass \in Answer /\ Warn \in Answer /\ Fail \in Answer
  BY DEF Pass, Warn, Fail, Answer
<1>2. <<>> \in [{} -> Answer]
  OBVIOUS
<1> QED
  BY <1>1, <1>2 DEF Answers

LEMMA WithType ==
    ASSUME NEW answers \in Answers, NEW i \in Nat, NEW answer \in Answer
    PROVE  With(answers, i, answer) \in Answers
<1>1. PICK S \in SUBSET Nat : answers \in [S -> Answer]
  BY DEF Answers
<1>2. With(answers, i, answer) \in [S \cup {i} -> Answer]
  BY <1>1 DEF With
<1> QED
  BY <1>2 DEF Answers

LEMMA AggregateType ==
    ASSUME NEW answers \in Answers
    PROVE  /\ Aggregate(answers) \in Answer
           /\ \A i \in DOMAIN answers : answers[i].block =>
                 \E j \in DOMAIN answers : answers[j].block /\ Aggregate(answers) = answers[j]
<1> DEFINE blocking == {i \in DOMAIN answers : answers[i].block}
<1>1. PICK S \in SUBSET Nat : answers \in [S -> Answer]
  BY DEF Answers
<1>2. CASE blocking # {}
  <2>1. Min(blocking) \in blocking
    BY <1>1, <1>2, MinType
  <2> QED
    BY <1>1, <1>2, <2>1 DEF Aggregate
<1>3. CASE blocking = {}
  BY <1>3, AnswersType DEF Aggregate
<1> QED
  BY <1>2, <1>3

\* The connection is that of a gRPC plugin, and an enabled plugin is loaded.
Suits(plugin, conn) == plugin.enabled /\ (plugin.type = "grpc" <=> conn # NoConn)

\* What is loaded, asked and answered at each stage.
Consistent(r) ==
    /\ r.stage \in {"lookup", "create", "info"} => r.todo # <<>>
    /\ r.stage \in {"lookup", "create"} => Head(r.todo).enabled /\ Head(r.todo).type = "grpc"
    /\ r.stage = "info" => Suits(Head(r.todo), r.conn)
    /\ \A i \in DOMAIN r.entries : Suits(r.entries[i].plugin, r.entries[i].conn)
    /\ r.stage = "calling" => r.pending # {}
    /\ r.stage \notin {"validating", "calling", "done"} => DOMAIN r.answers = {} /\ r.pending = {}
    /\ r.stage \in {"validating", "calling", "done"} /\ ~r.failed =>
          DOMAIN r.answers \cup r.pending = GetValidators(r.entries, r.call)
    /\ r.pending \subseteq DOMAIN r.entries
    /\ DOMAIN r.answers \cap r.pending = {}
    /\ r.stage = "done" => r.pending = {} /\ r.verdict = Aggregate(r.answers)

Good == {r \in State : Consistent(r)}

LEMMA FreshGood ==
    ASSUME NEW plan \in Seq(Plugin)
    PROVE  Fresh(plan) \in Good
<1>1. Fresh(plan) \in State
  BY AnswersType DEF Fresh, State, Stage
<1> QED
  BY <1>1, AnswersType DEF Good, Consistent, Fresh

LEMMA SkippedGood ==
    ASSUME NEW r \in Good, r.stage \in {"loading", "lookup", "create", "info"}, r.todo # <<>>
    PROVE  Skipped(r) \in Good /\ NotLoaded(r) \in Good
<1>1. r \in State /\ Tail(r.todo) \in Seq(Plugin)
  BY HeadTailProperties DEF Good, State
<1>2. Skipped(r) \in State /\ NotLoaded(r) \in State
  BY <1>1 DEF Skipped, NotLoaded, State, Stage
<1> QED
  BY <1>2 DEF Good, Consistent, Skipped, NotLoaded, State

LEMMA LoadedGood ==
    ASSUME NEW r \in Good, r.stage \in {"loading", "lookup", "create", "info"}, r.todo # <<>>,
           NEW conn \in Conn \cup {NoConn}, Suits(Head(r.todo), conn)
    PROVE  Loaded(r, conn) \in Good
<1> DEFINE entry == [plugin |-> Head(r.todo), conn |-> conn]
<1>1. r \in State /\ Tail(r.todo) \in Seq(Plugin) /\ entry \in Entry
  BY HeadTailProperties DEF Good, State, Entry
<1>2. Append(r.entries, entry) \in Seq(Entry)
  BY <1>1 DEF State
<1>3. CASE ~PredicateCompiles(Head(r.todo).predicate)
  BY <1>3, SkippedGood DEF Loaded
<1>4. CASE PredicateCompiles(Head(r.todo).predicate)
  <2>1. Loaded(r, conn) = [r EXCEPT !.todo = Tail(r.todo), !.stage = "loading",
                                    !.entries = Append(r.entries, entry)]
    BY <1>4 DEF Loaded
  <2>2. Loaded(r, conn) \in State
    BY <1>1, <1>2, <2>1 DEF State, Stage
  <2>3. /\ Loaded(r, conn).stage = "loading"
        /\ Loaded(r, conn).entries = Append(r.entries, entry)
        /\ Loaded(r, conn).pending = r.pending
        /\ Loaded(r, conn).answers = r.answers
    BY <1>1, <2>1 DEF State
  <2>4. r.entries \in Seq(Entry) /\ Consistent(r)
    BY DEF Good, State
  <2>5. ASSUME NEW i \in DOMAIN Append(r.entries, entry)
        PROVE  Suits(Append(r.entries, entry)[i].plugin, Append(r.entries, entry)[i].conn)
    BY <1>1, <2>4, <2>5 DEF Consistent
  <2>6. r.pending = {} /\ DOMAIN r.answers = {}
    BY <2>4 DEF Consistent
  <2> QED
    BY <2>2, <2>3, <2>5, <2>6 DEF Good, Consistent
<1> QED
  BY <1>3, <1>4

LEMMA AtGood ==
    ASSUME NEW r \in Good, NEW conn \in Conn \cup {NoConn},
           NEW stage \in {"lookup", "create", "info", "ready"},
           r.stage \in {"loading", "lookup", "create", "info"},
           stage # "ready" => r.todo # <<>> /\ Head(r.todo).enabled,
           stage \in {"lookup", "create"} => Head(r.todo).type = "grpc",
           stage = "info" => Suits(Head(r.todo), conn)
    PROVE  At(r, stage, conn) \in Good
<1>1. At(r, stage, conn) \in State
  BY DEF At, State, Stage, Good
<1> QED
  BY <1>1 DEF Good, Consistent, At, State

LEMMA AskedGood ==
    ASSUME NEW r \in Good, r.stage = "ready", NEW call \in Calls
    PROVE  LET concerned == IF r.failed THEN {} ELSE GetValidators(r.entries, call)
           IN  [r EXCEPT !.stage = "validating", !.call = call, !.pending = concerned] \in Good
<1> DEFINE concerned == IF r.failed THEN {} ELSE GetValidators(r.entries, call)
           asked     == [r EXCEPT !.stage = "validating", !.call = call, !.pending = concerned]
<1>1. concerned \subseteq DOMAIN r.entries /\ DOMAIN r.entries \subseteq Nat
  BY DEF GetValidators, Good, State
<1>2. asked \in State
  BY <1>1 DEF Good, State, Stage
<1> QED
  BY <1>1, <1>2 DEF Good, Consistent, State

LEMMA TurnType ==
    ASSUME NEW r \in Good, r.pending # {}
    PROVE  /\ Min(r.pending) \in r.pending /\ Min(r.pending) \in Nat
           /\ r.entries[Min(r.pending)] \in Entry
<1>1. r.pending \in SUBSET Nat /\ r.entries \in Seq(Entry) /\ r.pending \subseteq DOMAIN r.entries
  BY DEF Good, State, Consistent
<1>2. Min(r.pending) \in r.pending
  BY <1>1, MinType
<1> QED
  BY <1>1, <1>2

LEMMA SentGood ==
    ASSUME NEW r \in Good, r.stage = "validating", r.pending # {}
    PROVE  At(r, "calling", r.entries[Min(r.pending)].conn) \in Good
<1>1. r.entries[Min(r.pending)].conn \in Conn \cup {NoConn}
  BY TurnType DEF Entry
<1>2. At(r, "calling", r.entries[Min(r.pending)].conn) \in State
  BY <1>1 DEF At, State, Stage, Good
<1> QED
  BY <1>2 DEF Good, Consistent, At, State

LEMMA ToldGood ==
    ASSUME NEW r \in Good, r.stage = "calling", NEW answer \in Answer
    PROVE  Told(r, answer) \in Good
<1> DEFINE i == Min(r.pending)
<1>1. i \in r.pending /\ i \in Nat
  BY TurnType DEF Good, Consistent
<1>2. With(r.answers, i, answer) \in Answers
  BY <1>1, WithType DEF Good, State
<1>3. Told(r, answer) \in State
  BY <1>2 DEF Told, State, Stage, Good
<1>4. DOMAIN With(r.answers, i, answer) = DOMAIN r.answers \cup {i}
  BY DEF With
<1>5. /\ Told(r, answer).pending = r.pending \ {i}
      /\ Told(r, answer).answers = With(r.answers, i, answer)
      /\ Told(r, answer).stage = "validating"
      /\ Told(r, answer).entries = r.entries
      /\ Told(r, answer).call = r.call
      /\ Told(r, answer).failed = r.failed
  BY DEF Told, Good, State
<1> QED
  BY <1>1, <1>3, <1>4, <1>5 DEF Good, Consistent

LEMMA ConcludedGood ==
    ASSUME NEW r \in Good, r.stage = "validating", r.pending = {}
    PROVE  [r EXCEPT !.stage = "done", !.verdict = Aggregate(r.answers)] \in Good
<1>1. Aggregate(r.answers) \in Answer
  BY AggregateType DEF Good, State
<1>2. [r EXCEPT !.stage = "done", !.verdict = Aggregate(r.answers)] \in State
  BY <1>1 DEF State, Stage, Good
<1> QED
  BY <1>2 DEF Good, Consistent, State

-----------------------------------------------------------------------------
\* The pool

\* An open connection is the one its address has in the pool.
Pooled ==
    /\ pool \in [Address -> Conn \cup {NoConn}]
    /\ status \in [Conn -> {"unused", "open", "closed"}]
    /\ peer \in [Conn -> Address]
    /\ closer \in {"idle", "closing", "closed"}
    /\ \A c \in Conn : status[c] = "open" => pool[peer[c]] = c
    /\ NothingLeftOpen

Records == users \in [User -> Good]

Inv == Records /\ Pooled

LEMMA InitInv == Init => Inv
<1> SUFFICES ASSUME Init
             PROVE  Inv
  OBVIOUS
<1>1. PICK plan \in Plans : users = [u \in User |-> Fresh(plan[u])]
  BY DEF Init
<1>2. \A u \in User : plan[u] \in Seq(Plugin)
  BY PlanAssumption
<1>3. Records
  BY <1>1, <1>2, FreshGood DEF Records
<1>4. Pooled
  BY PluginAssumption DEF Init, Pooled, NothingLeftOpen, Opened
<1> QED
  BY <1>3, <1>4 DEF Inv

\* A goroutine's step that leaves the loader alone keeps the invariant with its record good.
LEMMA SettleInv ==
    ASSUME Inv, NEW u \in User, NEW r \in Good, Settle(u, r)
    PROVE  Inv'
<1>1. Records'
  BY DEF Inv, Records, Settle, Becomes
<1>2. Pooled'
  BY DEF Inv, Pooled, Settle, loader, NothingLeftOpen, Opened
<1> QED
  BY <1>1, <1>2 DEF Inv

LEMMA ConnectInv ==
    ASSUME Inv, NEW u \in User, users[u].stage = "create", ~closed,
           pool[Current(u).address] = NoConn, NEW c \in Conn, Connect(u, c)
    PROVE  Inv'
<1> DEFINE address == Current(u).address
<1>1. users[u] \in Good /\ users[u].todo # <<>>
  BY DEF Inv, Records, Good, Consistent
<1>2. Current(u) \in Plugin
  BY <1>1, HeadTailProperties DEF Current, Good, State
<1>3. address \in Address
  BY <1>2, PluginAssumption
<1>4. At(users[u], "info", c) \in Good
  <2>1. Head(users[u].todo).enabled /\ Suits(Head(users[u].todo), c)
    BY <1>1, ConnAssumption DEF Good, Consistent, Suits
  <2> QED
    BY <1>1, <2>1, AtGood
<1>5. Records'
  BY <1>4 DEF Inv, Records, Connect, Becomes
<1>6. ASSUME NEW d \in Conn, status'[d] = "open"
      PROVE  pool'[peer'[d]] = d
  <2>1. CASE d = c
    BY <1>3, <2>1 DEF Connect, Inv, Pooled
  <2>2. CASE d # c
    <3>1. status[d] = "open" /\ peer'[d] = peer[d]
      BY <1>6, <2>2 DEF Connect, Inv, Pooled
    <3>2. pool[peer[d]] = d /\ peer[d] # address
      BY <3>1, ConnAssumption DEF Inv, Pooled
    <3> QED
      BY <1>3, <3>1, <3>2 DEF Connect, Inv, Pooled
  <2> QED
    BY <2>1, <2>2
<1>7. Pooled'
  BY <1>3, <1>6 DEF Inv, Pooled, Connect, NothingLeftOpen, closed
<1> QED
  BY <1>5, <1>7 DEF Inv

LEMMA LoadInv ==
    ASSUME Inv, NEW u \in User, Load(u)
    PROVE  Inv'
<1> DEFINE r == users[u]
<1>1. r \in Good /\ r \in State /\ Consistent(r)
  BY DEF Inv, Records, Good
<1>2. CASE SkipDisabled(u)
  BY <1>1, <1>2, SkippedGood, SettleInv DEF SkipDisabled, Loading
<1>3. CASE LoadFile(u)
  <2>1. r.stage = "loading" /\ r.todo # <<>> /\ Head(r.todo).enabled /\ Head(r.todo).type # "grpc"
    BY <1>3 DEF LoadFile, Loading, Current
  <2>2. Suits(Head(r.todo), NoConn)
    BY <2>1 DEF Suits
  <2>3. NotLoaded(r) \in Good /\ At(r, "info", NoConn) \in Good /\ Loaded(r, NoConn) \in Good
    BY <1>1, <2>1, <2>2, SkippedGood, AtGood, LoadedGood
  <2> QED
    BY <1>3, <2>3, SettleInv DEF LoadFile
<1>4. CASE LoadGRPC(u)
  <2>1. r.stage = "loading" /\ r.todo # <<>> /\ Head(r.todo).enabled /\ Head(r.todo).type = "grpc"
    BY <1>4 DEF LoadGRPC, Loading, Current
  <2>2. NotLoaded(r) \in Good /\ At(r, "lookup", NoConn) \in Good
    BY <1>1, <2>1, SkippedGood, AtGood
  <2> QED
    BY <1>4, <2>2, SettleInv DEF LoadGRPC
<1>5. ASSUME r.stage \in {"lookup", "create"}
      PROVE  /\ r.todo # <<>> /\ Head(r.todo).enabled /\ Head(r.todo).type = "grpc"
             /\ pool[Current(u).address] \in Conn \cup {NoConn}
             /\ NotLoaded(r) \in Good /\ At(r, "create", NoConn) \in Good
             /\ \A conn \in Conn : At(r, "info", conn) \in Good
  <2>1. r.todo # <<>> /\ Head(r.todo).enabled /\ Head(r.todo).type = "grpc"
    BY <1>1, <1>5 DEF Consistent
  <2>2. \A conn \in Conn : Suits(Head(r.todo), conn)
    BY <2>1, ConnAssumption DEF Suits
  <2>3. Head(r.todo) \in Plugin
    BY <1>1, <2>1, HeadTailProperties DEF State
  <2>4. pool[Current(u).address] \in Conn \cup {NoConn}
    BY <2>3, PluginAssumption DEF Current, Inv, Pooled
  <2> QED
    BY <1>1, <1>5, <2>1, <2>2, <2>4, SkippedGood, AtGood
<1>6. CASE Lookup(u)
  BY <1>5, <1>6, SettleInv DEF Lookup
<1>7. CASE Create(u)
  <2>1. CASE closed
    BY <1>5, <1>7, <2>1, SettleInv DEF Create
  <2>2. CASE ~closed /\ pool[Current(u).address] # NoConn
    BY <1>5, <1>7, <2>2, SettleInv DEF Create
  <2>3. CASE ~closed /\ pool[Current(u).address] = NoConn
    BY <1>7, <2>3, ConnectInv DEF Create
  <2> QED
    BY <2>1, <2>2, <2>3
<1>8. CASE InfoReturns(u)
  <2>1. r.todo # <<>> /\ Suits(Head(r.todo), r.conn) /\ r.conn \in Conn \cup {NoConn}
    BY <1>1, <1>8 DEF InfoReturns, Consistent, State
  <2> QED
    BY <1>1, <1>8, <2>1, LoadedGood, SettleInv DEF InfoReturns
<1>9. CASE InfoFails(u)
  BY <1>1, <1>9, SkippedGood, SettleInv DEF InfoFails, Consistent
<1>10. CASE Register(u)
  BY <1>1, <1>10, AtGood, SettleInv DEF Register
<1> QED
  BY <1>2, <1>3, <1>4, <1>6, <1>7, <1>8, <1>9, <1>10 DEF Load

\* An answer, whoever gives it.
LEMMA ToldInv ==
    ASSUME Inv, NEW u \in User, users[u].stage = "calling", NEW answer \in Answer,
           Becomes(u, Told(users[u], answer)), UNCHANGED loader
    PROVE  Inv'
<1>1. Told(users[u], answer) \in Good
  BY ToldGood DEF Inv, Records
<1>2. Records'
  BY <1>1 DEF Inv, Records, Becomes
<1>3. Pooled'
  BY DEF Inv, Pooled, loader, NothingLeftOpen, Opened
<1> QED
  BY <1>2, <1>3 DEF Inv

LEMMA ValidateInv ==
    ASSUME Inv, NEW u \in User, Validate(u)
    PROVE  Inv'
<1> DEFINE r == users[u]
<1>1. r \in Good
  BY DEF Inv, Records
<1>2. CASE Send(u)
  BY <1>1, <1>2, SentGood, SettleInv DEF Send, Turn
<1>3. ASSUME NEW answer \in Replies, Reply(u, answer)
      PROVE  Inv'
  BY <1>3, ReplyAssumption, ToldInv DEF Reply
<1>4. CASE CallFails(u)
  BY <1>4, AnswersType, ToldInv DEF CallFails, Settle, ErrorAnswer
<1>5. CASE TimesOut(u)
  BY <1>5, AnswersType, ToldInv DEF TimesOut, Settle, ErrorAnswer
<1>6. CASE Conclude(u)
  BY <1>1, <1>6, ConcludedGood, SettleInv DEF Conclude
<1> QED
  BY <1>2, <1>3, <1>4, <1>5, <1>6 DEF Validate

LEMMA CloseInv ==
    ASSUME Inv, Close \/ Closed \/ \E a \in Address : CloseOne(a)
    PROVE  Inv'
<1>1. CASE Close
  BY <1>1 DEF Close, Inv, Records, Pooled, NothingLeftOpen, Opened
<1>2. CASE Closed
  <2>1. ASSUME NEW c \in Conn, status[c] = "open"
        PROVE  FALSE
    BY <1>2, <2>1, ConnAssumption DEF Closed, Inv, Pooled
  <2>2. Pooled'
    BY <1>2, <2>1 DEF Closed, Inv, Pooled, NothingLeftOpen, Opened
  <2> QED
    BY <1>2, <2>2 DEF Closed, Inv, Records
<1>3. ASSUME NEW a \in Address, CloseOne(a)
      PROVE  Inv'
  <2>1. \A c \in Conn : status'[c] = "open" => status[c] = "open"
    BY <1>3 DEF CloseOne, Inv, Pooled
  <2>2. status' \in [Conn -> {"unused", "open", "closed"}]
    BY <1>3 DEF CloseOne, Inv, Pooled
  <2>3. Pooled'
    BY <1>3, <2>1, <2>2 DEF CloseOne, Inv, Pooled, NothingLeftOpen
  <2> QED
    BY <1>3, <2>3 DEF CloseOne, Inv, Records
<1> QED
  BY <1>1, <1>2, <1>3

LEMMA StepInv ==
    ASSUME Inv, [Next]_vars
    PROVE  Inv'
<1>1. CASE UNCHANGED vars
  BY <1>1 DEF vars, Inv, Records, Pooled, NothingLeftOpen, Opened
<1>2. ASSUME NEW u \in User, NEW call \in Calls, Ask(u, call)
      PROVE  Inv'
  <2>1. users[u] \in Good /\ users[u].stage = "ready"
    BY <1>2 DEF Inv, Records, Ask
  <2> QED
    BY <1>2, <2>1, AskedGood, SettleInv DEF Ask
<1> QED
  BY <1>1, <1>2, LoadInv, ValidateInv, CloseInv DEF Next

LEMMA Invariance == Spec => []Inv
<1>1. Init => Inv
  BY InitInv
<1>2. Inv /\ [Next]_vars => Inv'
  BY StepInv
<1> QED
  BY <1>1, <1>2, PTL DEF Spec

(* TypeOK, for any number of goroutines and plugins: in particular what has been *)
(* loaded is enabled, with a connection exactly when it is a gRPC plugin.        *)
THEOREM TypeCorrect == Spec => []TypeOK
<1>1. ASSUME Inv, NEW u \in User
      PROVE  LET r == users[u] IN
             /\ r.stage \in Stage
             /\ r.conn \in Conn \cup {NoConn}
             /\ r.stage \in {"lookup", "create", "info"} => r.todo # <<>>
             /\ \A i \in DOMAIN r.entries :
                   LET e == r.entries[i] IN
                   /\ e \in Entry /\ e.plugin.enabled
                   /\ e.plugin.type = "grpc" <=> e.conn # NoConn
  <2>1. users[u] \in State /\ Consistent(users[u])
    BY <1>1 DEF Inv, Records, Good
  <2> QED
    BY <2>1 DEF State, Consistent, Suits
<1>2. Inv => TypeOK
  BY <1>1 DEF TypeOK, Inv, Pooled
<1> QED
  BY <1>2, Invariance, PTL

(* getOrCreateConnection: however many goroutines load plugins of the same       *)
(* address at once, there are never two open connections to it.                  *)
THEOREM AtMostOneConnection == Spec => []OneConnection
<1>1. Inv => OneConnection
  BY DEF Inv, Pooled, OneConnection, Opened
<1> QED
  BY <1>1, Invariance, PTL

(* Close: once it has returned no connection is open and none is opened again,   *)
(* whatever goroutines were in the middle of.                                    *)
THEOREM ClosedForGood == Spec => []NothingLeftOpen
<1>1. Inv => NothingLeftOpen
  BY DEF Inv, Pooled
<1> QED
  BY <1>1, Invariance, PTL

-----------------------------------------------------------------------------
\* The answers

\* What was heard is what is recorded, and anything else that is recorded is a failure.
Recorded(answers, told) ==
    /\ \A h \in told : h.entry \in DOMAIN answers /\ h.answer = answers[h.entry]
    /\ \A i \in DOMAIN answers : answers[i] = Fail \/ \E h \in told : h.entry = i /\ h.answer = answers[i]

Heard ==
    /\ heard \in [User -> SUBSET [entry : Nat, answer : Answer]]
    /\ \A u \in User : Recorded(users[u].answers, heard[u])

LEMMA InitHeard == Init => Heard
<1> SUFFICES ASSUME Init
             PROVE  Heard
  OBVIOUS
<1>1. PICK plan \in Plans : users = [u \in User |-> Fresh(plan[u])]
  BY DEF Init
<1>2. \A u \in User : users[u].answers = <<>> /\ heard[u] = {}
  BY <1>1 DEF Init, Fresh
<1> QED
  BY <1>2, AnswersType DEF Init, Heard, Recorded

LEMMA SettleHeard ==
    ASSUME Inv, Heard, NEW u \in User, NEW r \in State, Settle(u, r), r.answers = users[u].answers
    PROVE  Heard'
<1>1. \A v \in User : users'[v].answers = users[v].answers
  BY DEF Settle, Becomes, Inv, Records
<1> QED
  BY <1>1 DEF Heard, Settle

LEMMA ToldRecorded ==
    ASSUME NEW r \in Good, r.stage = "calling", NEW answer \in Answer,
           NEW told \in SUBSET [entry : Nat, answer : Answer], Recorded(r.answers, told)
    PROVE  /\ Recorded(Told(r, answer).answers, told \cup {[entry |-> Min(r.pending), answer |-> answer]})
           /\ answer = Fail => Recorded(Told(r, answer).answers, told)
<1> DEFINE i == Min(r.pending)
           now == With(r.answers, i, answer)
<1>1. i \in r.pending /\ i \notin DOMAIN r.answers
  BY TurnType DEF Good, Consistent
<1>2. Told(r, answer).answers = now
  BY DEF Told, Good, State
<1>3. /\ DOMAIN now = DOMAIN r.answers \cup {i} /\ now[i] = answer
      /\ \A j \in DOMAIN r.answers : now[j] = r.answers[j]
  BY <1>1 DEF With
<1>4. \A h \in told : h.entry \in DOMAIN now /\ h.answer = now[h.entry]
  BY <1>3 DEF Recorded
<1>5. \A j \in DOMAIN r.answers :
         now[j] = Fail \/ \E h \in told : h.entry = j /\ h.answer = now[j]
  BY <1>3 DEF Recorded
<1>6. Recorded(now, told \cup {[entry |-> i, answer |-> answer]})
  <2> DEFINE more == told \cup {[entry |-> i, answer |-> answer]}
             last == [entry |-> i, answer |-> answer]
  <2>1. last \in more /\ last.entry = i /\ last.answer = answer
    OBVIOUS
  <2>2. \A h \in more : h.entry \in DOMAIN now /\ h.answer = now[h.entry]
    BY <1>3, <1>4
  <2>3. \E h \in more : h.entry = i /\ h.answer = now[i]
    BY <1>3, <2>1
  <2>4. \A j \in DOMAIN now : now[j] = Fail \/ \E h \in more : h.entry = j /\ h.answer = now[j]
    BY <1>3, <1>5, <2>3
  <2> QED
    BY <2>2, <2>4 DEF Recorded
<1>7. answer = Fail => Recorded(now, told)
  BY <1>3, <1>4, <1>5 DEF Recorded
<1> QED
  BY <1>2, <1>6, <1>7

LEMMA ToldHeard ==
    ASSUME Inv, Heard, NEW u \in User, users[u].stage = "calling", NEW answer \in Answer,
           Becomes(u, Told(users[u], answer)),
           \/ heard' = [heard EXCEPT ![u] = @ \cup {[entry |-> Turn(u), answer |-> answer]}]
           \/ heard' = heard /\ answer = Fail
    PROVE  Heard'
<1>1. users[u] \in Good /\ Turn(u) \in Nat
  BY TurnType DEF Inv, Records, Good, Consistent, Turn
<1>2. Recorded(users'[u].answers, heard'[u])
  <2>1. users'[u] = Told(users[u], answer)
    BY DEF Becomes, Inv, Records
  <2> DEFINE last == [entry |-> Min(users[u].pending), answer |-> answer]
  <2>2. heard[u] \in SUBSET [entry : Nat, answer : Answer] /\ Recorded(users[u].answers, heard[u])
    BY DEF Heard
  <2>3. /\ Recorded(Told(users[u], answer).answers, heard[u] \cup {last})
        /\ answer = Fail => Recorded(Told(users[u], answer).answers, heard[u])
    BY <1>1, <2>2, ToldRecorded
  <2>4. \/ heard'[u] = heard[u] \cup {last}
        \/ heard'[u] = heard[u] /\ answer = Fail
    BY DEF Heard, Turn
  <2> QED
    BY <2>1, <2>3, <2>4
<1>3. \A v \in User \ {u} : users'[v] = users[v] /\ heard'[v] = heard[v]
  BY DEF Becomes, Inv, Records, Heard
<1>4. heard' \in [User -> SUBSET [entry : Nat, answer : Answer]]
  BY <1>1 DEF Heard
<1> QED
  BY <1>2, <1>3, <1>4 DEF Heard

\* Loading asks nobody.
LEMMA LoadHeard ==
    ASSUME Inv, Heard, NEW u \in User, Load(u)
    PROVE  Heard'
<1>1. heard' = heard
  BY DEF Load, SkipDisabled, LoadFile, LoadGRPC, Lookup, Create, Connect, InfoReturns, InfoFails,
         Register, Settle
<1>2. PICK r : Becomes(u, r) /\ r.answers = users[u].answers
  <2>1. users[u] \in State
    BY DEF Inv, Records, Good
  <2>2. /\ Skipped(users[u]).answers = users[u].answers
        /\ NotLoaded(users[u]).answers = users[u].answers
        /\ \A stage, conn : At(users[u], stage, conn).answers = users[u].answers
        /\ \A conn : Loaded(users[u], conn).answers = users[u].answers
    BY <2>1 DEF Skipped, NotLoaded, At, Loaded, State
  <2> QED
    BY <2>2 DEF Load, SkipDisabled, LoadFile, LoadGRPC, Lookup, Create, Connect, InfoReturns,
                InfoFails, Register, Settle
<1>3. \A v \in User : users'[v].answers = users[v].answers
  BY <1>2 DEF Becomes, Inv, Records
<1> QED
  BY <1>1, <1>3 DEF Heard

LEMMA ValidateHeard ==
    ASSUME Inv, Heard, NEW u \in User, Validate(u)
    PROVE  Heard'
<1> DEFINE r == users[u]
<1>1. r \in State /\ r \in Good
  BY DEF Inv, Records, Good
<1>2. CASE Send(u)
  <2> DEFINE sent == At(r, "calling", r.entries[Min(r.pending)].conn)
  <2>1. sent \in State /\ sent.answers = r.answers
    BY <1>1, <1>2, SentGood DEF Send, At, Good, State
  <2> QED
    BY <1>2, <2>1, SettleHeard DEF Send, Turn
<1>3. ASSUME NEW answer \in Replies, Reply(u, answer)
      PROVE  Heard'
  BY <1>3, ReplyAssumption, ToldHeard DEF Reply
<1>4. CASE CallFails(u)
  BY <1>4, AnswersType, ToldHeard DEF CallFails, Settle, ErrorAnswer
<1>5. CASE TimesOut(u)
  BY <1>5, AnswersType, ToldHeard DEF TimesOut, Settle, ErrorAnswer
<1>6. CASE Conclude(u)
  <2> DEFINE concluded == [r EXCEPT !.stage = "done", !.verdict = Aggregate(r.answers)]
  <2>1. concluded \in State /\ concluded.answers = r.answers
    BY <1>1, <1>6, ConcludedGood DEF Conclude, Good, State
  <2> QED
    BY <1>6, <2>1, SettleHeard DEF Conclude
<1> QED
  BY <1>2, <1>3, <1>4, <1>5, <1>6 DEF Validate

LEMMA StepHeard ==
    ASSUME Inv, Heard, [Next]_vars
    PROVE  Heard'
<1>1. CASE UNCHANGED vars
  BY <1>1 DEF vars, Heard
<1>2. ASSUME NEW u \in User, NEW call \in Calls, Ask(u, call)
      PROVE  Heard'
  <2> DEFINE r == users[u]
             concerned == IF r.failed THEN {} ELSE GetValidators(r.entries, call)
             asked == [r EXCEPT !.stage = "validating", !.call = call, !.pending = concerned]
  <2>1. r \in Good /\ r \in State /\ r.stage = "ready"
    BY <1>2 DEF Inv, Records, Ask, Good
  <2>2. asked \in State /\ asked.answers = r.answers
    BY <2>1, AskedGood DEF Good, State
  <2> QED
    BY <1>2, <2>2, SettleHeard DEF Ask
<1>3. ASSUME Close \/ Closed \/ \E a \in Address : CloseOne(a)
      PROVE  Heard'
  BY <1>3 DEF Close, Closed, CloseOne, Heard
<1> QED
  BY <1>1, <1>2, <1>3, LoadHeard, ValidateHeard DEF Next

\* A verdict that does not refuse, and no contradiction, leaves only answers that do not block.
LEMMA Consent ==
    ASSUME NEW r \in Good, r.stage = "done", ~r.failed, ~Refusing(r.verdict),
           NEW told \in SUBSET [entry : Nat, answer : Answer], Recorded(r.answers, told),
           \A h \in told : ~(h.answer.passed /\ h.answer.block),
           NEW i \in GetValidators(r.entries, r.call)
    PROVE  /\ \E h \in told : h.entry = i
           /\ \A h \in told : h.entry = i => ~Refusing(h.answer)
<1>1. r.answers \in Answers /\ r.verdict = Aggregate(r.answers) /\ i \in DOMAIN r.answers
  BY DEF Good, State, Consistent
<1>2. ASSUME NEW j \in DOMAIN r.answers, r.answers[j].block
      PROVE  FALSE
  <2>1. PICK k \in DOMAIN r.answers : r.answers[k].block /\ r.verdict = r.answers[k]
    BY <1>1, <1>2, AggregateType
  <2>2. r.answers[k].passed
    BY <2>1 DEF Refusing
  <2>3. r.answers[k] # Fail
    BY <2>2 DEF Fail
  <2> QED
    BY <2>1, <2>2, <2>3 DEF Recorded
<1>3. r.answers[i] # Fail
  BY <1>1, <1>2 DEF Fail
<1> QED
  BY <1>1, <1>2, <1>3 DEF Recorded, Refusing

(* SilenceIsNoConsent, for any number of plugins and whatever they answer: the   *)
(* adapter's error and the aggregation in PluginRegistryValidator never let a    *)
(* call through that a plugin it concerns did not answer, or objected to.        *)
THEOREM NoSilentConsent == Spec => []SilenceIsNoConsent
<1>1. Inv /\ Heard => SilenceIsNoConsent
  <2> SUFFICES ASSUME Inv, Heard, NEW u \in User,
                      LetThrough(u), ~Contradicted(u), ~users[u].failed,
                      NEW i \in GetValidators(users[u].entries, users[u].call)
               PROVE  Said(u, i) # {} /\ \A answer \in Said(u, i) : ~Refusing(answer)
    BY DEF SilenceIsNoConsent, Consented
  <2>1. /\ users[u] \in Good /\ heard[u] \in SUBSET [entry : Nat, answer : Answer]
        /\ Recorded(users[u].answers, heard[u])
    BY DEF Inv, Records, Heard
  <2>2. /\ \E h \in heard[u] : h.entry = i
        /\ \A h \in heard[u] : h.entry = i => ~Refusing(h.answer)
    BY <2>1, Consent DEF LetThrough, Contradicted
  <2> QED
    BY <2>2 DEF Said
<1>2. Init => Heard
  BY InitHeard
<1>3. Inv /\ Heard /\ [Next]_vars => Heard'
  BY StepHeard
<1> QED
  BY <1>1, <1>2, <1>3, Invariance, PTL DEF Spec
=============================================================================
