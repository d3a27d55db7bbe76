------------------------------- MODULE Plugins -------------------------------
(***************************************************************************)
(* Plugins: goroutines that load their configured plugins through one gRPC *)
(* loader, ask the ones a call concerns, and make one verdict of the       *)
(* answers, while the loader may be closed.  The loader's critical         *)
(* sections under its lock are the steps; the servers and programs behind  *)
(* the plugins answer, fail, or leave it to the timeout.                   *)
(*                                                                         *)
(* A hook process loads its plugins in one goroutine.  The loader is       *)
(* written for several, and the instances have both.                       *)
(***************************************************************************)
EXTENDS PluginLoaders

CONSTANTS
    Plugin,     \* configurations of plugins
    Address,    \* addresses, "" for none
    Conn,       \* connections
    NoConn,
    User,       \* goroutines
    Plans,      \* per goroutine, the plugins it loads, in order
    Calls,      \* what it may then be asked about
    Replies     \* what the programs behind the plugins may answer

ASSUME PluginAssumption == "" \in Address /\ \A p \in Plugin : p.address \in Address
ASSUME ConnAssumption == NoConn \notin Conn
ASSUME PlanAssumption == Plans \subseteq [User -> Seq(Plugin)]
ASSUME ReplyAssumption == Replies \subseteq Answer

VARIABLES
    pool,       \* the loader's connection per address
    status,     \* of each connection: unused, open or closed
    peer,       \* its address
    closer,     \* idle, closing (which holds the lock) or closed
    users,      \* how far each goroutine is
    heard       \* what plugins told each goroutine

vars == <<pool, status, peer, closer, users, heard>>
loader == <<pool, status, peer, closer>>

closed == closer # "idle"
Unlocked == closer # "closing"

Stage == {"loading", "lookup", "create", "info", "ready", "validating", "calling", "done"}

NoCall == [event |-> "", tool |-> "", path |-> "", command |-> ""]
Fresh(plan) ==
    [stage |-> "loading", todo |-> plan, conn |-> NoConn, entries |-> <<>>, failed |-> FALSE,
     call |-> NoCall, pending |-> {}, answers |-> <<>>, verdict |-> Pass]

Init ==
    /\ pool = [a \in Address |-> NoConn]
    /\ status = [c \in Conn |-> "unused"]
    /\ peer = [c \in Conn |-> ""]
    /\ closer = "idle"
    /\ \E plan \in Plans : users = [u \in User |-> Fresh(plan[u])]
    /\ heard = [u \in User |-> {}]

-----------------------------------------------------------------------------
\* Loading.  LoadPlugins goes on with the next plugin after one that does not load.

\* A goroutine's record goes from r to one of these.
Skipped(r)         == [r EXCEPT !.todo = Tail(@), !.stage = "loading"]
NotLoaded(r)       == [r EXCEPT !.todo = Tail(@), !.stage = "loading", !.failed = TRUE]
At(r, stage, conn) == [r EXCEPT !.stage = stage, !.conn = conn]

\* The predicate is compiled once the plugin is loaded.
Loaded(r, conn) ==
    IF PredicateCompiles(Head(r.todo).predicate)
    THEN [r EXCEPT !.todo = Tail(@), !.stage = "loading",
                   !.entries = Append(@, [plugin |-> Head(r.todo), conn |-> conn])]
    ELSE NotLoaded(r)

Current(u) == Head(users[u].todo)

Becomes(u, r) == users' = [users EXCEPT ![u] = r]
Settle(u, r)  == Becomes(u, r) /\ UNCHANGED <<loader, heard>>

Loading(u) == users[u].stage = "loading" /\ users[u].todo # <<>>

SkipDisabled(u) ==
    /\ Loading(u) /\ ~Current(u).enabled
    /\ Settle(u, Skipped(users[u]))

\* exec asks the program for its version and its description before it is loaded.
LoadFile(u) ==
    /\ Loading(u) /\ Current(u).enabled /\ Current(u).type # "grpc"
    /\ Settle(u, CASE ~Loadable(Current(u)) -> NotLoaded(users[u])
                   [] Loadable(Current(u)) /\ Current(u).type = "exec" -> At(users[u], "info", NoConn)
                   [] OTHER -> Loaded(users[u], NoConn))

LoadGRPC(u) ==
    /\ Loading(u) /\ Current(u).enabled /\ Current(u).type = "grpc" /\ Unlocked
    /\ Settle(u, IF closed \/ ~Loadable(Current(u)) THEN NotLoaded(users[u])
                 ELSE At(users[u], "lookup", NoConn))

\* An address without a connection is taken for one that has it.
LookupBlind(u) ==
    /\ users[u].stage = "lookup" /\ Unlocked
    /\ Settle(u, At(users[u], "info", pool[Current(u).address]))

\* getOrCreateConnection: the fast path, under the read lock.
Lookup(u) ==
    /\ users[u].stage = "lookup" /\ Unlocked
    /\ LET conn == pool[Current(u).address]
       IN  Settle(u, At(users[u], IF conn # NoConn THEN "info" ELSE "create", conn))

Connect(u, c) ==
    /\ status[c] = "unused"
    /\ status' = [status EXCEPT ![c] = "open"]
    /\ peer' = [peer EXCEPT ![c] = Current(u).address]
    /\ pool' = [pool EXCEPT ![Current(u).address] = c]
    /\ Becomes(u, At(users[u], "info", c))
    /\ UNCHANGED <<closer, heard>>

\* Without looking again at what another goroutine may have put there.
CreateUnchecked(u) ==
    /\ users[u].stage = "create" /\ Unlocked
    /\ IF closed THEN Settle(u, NotLoaded(users[u])) ELSE \E c \in Conn : Connect(u, c)

\* Without looking again whether the loader was closed.
CreateClosed(u) ==
    /\ users[u].stage = "create" /\ Unlocked
    /\ LET conn == pool[Current(u).address]
       IN  IF conn # NoConn THEN Settle(u, At(users[u], "info", conn)) ELSE \E c \in Conn : Connect(u, c)

\* The slow path, under the write lock.
Create(u) ==
    /\ users[u].stage = "create" /\ Unlocked
    /\ LET conn == pool[Current(u).address]
       IN  CASE closed         -> Settle(u, NotLoaded(users[u]))
             [] conn # NoConn  -> Settle(u, At(users[u], "info", conn))
             [] OTHER          -> \E c \in Conn : Connect(u, c)

Works(conn) == conn # NoConn => status[conn] = "open"

InfoReturns(u) ==
    /\ users[u].stage = "info" /\ Works(users[u].conn)
    /\ Settle(u, Loaded(users[u], users[u].conn))

\* An error or the timeout; a connection that was made stays in the pool.
InfoFails(u) ==
    /\ users[u].stage = "info"
    /\ Settle(u, NotLoaded(users[u]))

Register(u) ==
    /\ users[u].stage = "loading" /\ users[u].todo = <<>>
    /\ Settle(u, At(users[u], "ready", NoConn))

-----------------------------------------------------------------------------
\* PluginRegistryValidator: all plugins that match are asked, one after the other.
\* CreateValidators makes none when one plugin did not load.

Ask(u, call) ==
    /\ users[u].stage = "ready" /\ call.event = "PreToolUse"
    /\ LET concerned == IF users[u].failed THEN {} ELSE GetValidators(users[u].entries, call)
       IN  Settle(u, [users[u] EXCEPT !.stage = "validating", !.call = call, !.pending = concerned])

Turn(u)  == Min(users[u].pending)
Asked(u) == users[u].entries[Turn(u)].plugin

Send(u) ==
    /\ users[u].stage = "validating" /\ users[u].pending # {}
    /\ Settle(u, At(users[u], "calling", users[u].entries[Turn(u)].conn))

With(answers, i, answer) ==
    [j \in DOMAIN answers \cup {i} |-> IF j = i THEN answer ELSE answers[j]]

Told(r, answer) ==
    [r EXCEPT !.stage = "validating", !.pending = @ \ {Min(r.pending)},
              !.answers = With(@, Min(r.pending), answer)]

Reply(u, answer) ==
    /\ users[u].stage = "calling" /\ Works(users[u].conn)
    /\ Becomes(u, Told(users[u], answer))
    /\ heard' = [heard EXCEPT ![u] = @ \cup {[entry |-> Turn(u), answer |-> answer]}]
    /\ UNCHANGED loader

\* The adapter makes a blocking failure of an error.
ErrorWarns == Warn
ErrorAnswer == Fail

\* A lost connection, an exit code, an answer that is none, a panic.
CallFails(u) ==
    /\ users[u].stage = "calling"
    /\ Settle(u, Told(users[u], ErrorAnswer))

\* No call of a server or a program has a timeout.
NoTimeout(u) == FALSE

\* A Go plugin is called in this process and cannot be timed out.
HasTimeout(u) == Asked(u).type # "go"

TimesOut(u) ==
    /\ users[u].stage = "calling" /\ HasTimeout(u)
    /\ Settle(u, Told(users[u], ErrorAnswer))

Conclude(u) ==
    /\ users[u].stage = "validating" /\ users[u].pending = {}
    /\ Settle(u, [users[u] EXCEPT !.stage = "done", !.verdict = Aggregate(users[u].answers)])

-----------------------------------------------------------------------------
\* Close: the connections one after the other, all under the lock.

Close ==
    /\ closer = "idle" /\ closer' = "closing"
    /\ UNCHANGED <<pool, status, peer, users, heard>>

CloseOne(a) ==
    /\ closer = "closing" /\ pool[a] # NoConn /\ status[pool[a]] = "open"
    /\ status' = [status EXCEPT ![pool[a]] = "closed"]
    /\ UNCHANGED <<pool, peer, closer, users, heard>>

Closed ==
    /\ closer = "closing"
    /\ \A a \in Address : pool[a] # NoConn => status[pool[a]] = "closed"
    /\ pool' = [a \in Address |-> NoConn]
    /\ closer' = "closed"
    /\ UNCHANGED <<status, peer, users, heard>>

-----------------------------------------------------------------------------

Load(u) ==
    \/ SkipDisabled(u) \/ LoadFile(u) \/ LoadGRPC(u) \/ Lookup(u) \/ Create(u)
    \/ InfoReturns(u) \/ InfoFails(u) \/ Register(u)

Validate(u) ==
    \/ Send(u) \/ (\E answer \in Replies : Reply(u, answer))
    \/ CallFails(u) \/ TimesOut(u) \/ Conclude(u)

Next ==
    \/ \E u \in User :
          \/ Load(u) \/ Validate(u)
          \/ \E call \in Calls : Ask(u, call)
    \/ Close \/ Closed
    \/ \E a \in Address : CloseOne(a)

Spec == Init /\ [][Next]_vars

\* What a goroutine does by itself.  A server or program owes it nothing, but a
\* timeout comes; a Go plugin is taken to come back.
Proceeds(u) ==
    \/ SkipDisabled(u) \/ LoadFile(u) \/ LoadGRPC(u) \/ Lookup(u) \/ Create(u)
    \/ InfoFails(u) \/ Register(u) \/ Send(u) \/ TimesOut(u) \/ Conclude(u)
    \/ /\ users[u].stage = "calling" /\ Asked(u).type = "go"
       /\ CallFails(u) \/ \E answer \in Replies : Reply(u, answer)

Fairness ==
    /\ \A u \in User : WF_vars(Proceeds(u))
    /\ WF_vars(Closed) /\ \A a \in Address : WF_vars(CloseOne(a))

FairSpec == Spec /\ Fairness

-----------------------------------------------------------------------------
\* Properties.

Opened == {c \in Conn : status[c] = "open"}

Entry == [plugin : Plugin, conn : Conn \cup {NoConn}]

(* Every variable has its type; what a goroutine has loaded is enabled, and it   *)
(* has a connection exactly when it is a gRPC plugin.                            *)
TypeOK ==
    /\ pool \in [Address -> Conn \cup {NoConn}]
    /\ status \in [Conn -> {"unused", "open", "closed"}]
    /\ peer \in [Conn -> Address]
    /\ closer \in {"idle", "closing", "closed"}
    /\ \A u \in User :
          LET r == users[u] IN
          /\ r.stage \in Stage
          /\ r.conn \in Conn \cup {NoConn}
          /\ r.stage \in {"lookup", "create", "info"} => r.todo # <<>>
          /\ \A i \in DOMAIN r.entries :
                LET e == r.entries[i] IN
                /\ e \in Entry /\ e.plugin.enabled
                /\ e.plugin.type = "grpc" <=> e.conn # NoConn

(* Goroutines that load plugins of the same address at once share a connection:  *)
(* there are never two open ones to it.                                          *)
OneConnection ==
    \A c, d \in Opened : peer[c] = peer[d] => c = d

(* Once Close has returned no connection is open, and none is ever opened: not   *)
(* by a goroutine that had looked at the loader before it was closed either.     *)
NothingLeftOpen == closer = "closed" => Opened = {}

\* What a goroutine's plugin said to it, nothing when it did not answer.
Said(u, i) == {h.answer : h \in {x \in heard[u] : x.entry = i}}

\* Each loaded plugin that the call concerns was reached and did not object.
Consented(u) ==
    \A i \in GetValidators(users[u].entries, users[u].call) :
        Said(u, i) # {} /\ \A answer \in Said(u, i) : ~Refusing(answer)

LetThrough(u) == users[u].stage = "done" /\ ~Refusing(users[u].verdict)

\* An answer that passes and blocks hides the ones after it.
Contradicted(u) == \E h \in heard[u] : h.answer.passed /\ h.answer.block

(* A goroutine whose plugins have all loaded lets a call through only when each  *)
(* plugin that it concerns consented: no failure, timeout or closed connection   *)
(* counts as consent, and no answer covers up another one's objection.           *)
SilenceIsNoConsent ==
    \A u \in User :
        LetThrough(u) /\ ~Contradicted(u) /\ ~users[u].failed => Consented(u)

(* The same when a plugin did not load, as LoadPlugins has it: "Collect error    *)
(* but continue loading other plugins".                                          *)
OthersStandGuard ==
    \A u \in User : LetThrough(u) /\ ~Contradicted(u) => Consented(u)

(* Whatever the servers and programs do, a goroutine comes to an end of loading, *)
(* and to a verdict once it is asked, though the loader be closed meanwhile.     *)
EveryCallEnds ==
    \A u \in User :
        /\ users[u].stage \in {"loading", "lookup", "create", "info"} ~> users[u].stage = "ready"
        /\ users[u].stage \in {"validating", "calling"} ~> users[u].stage = "done"
=============================================================================
