-------------------------- MODULE ExceptionsProofs --------------------------
(***************************************************************************)
(* Proofs about exceptions, for any policies, limits and commands: the     *)
(* windows of the rate limit state stay nested in every process and file,  *)
(* the types, and, when hooks do not overlap, the limits in both           *)
(* directions: what is granted is within them, what is refused is not.     *)
(***************************************************************************)
EXTENDS Exceptions, FiniteSetTheorems, SequenceTheorems, WellFoundedInduction, TLAPS

(* Integer division is monotonic.                                           *)
LEMMA DivisionMonotonic ==
    ASSUME NEW a \in Nat, NEW b \in Nat, NEW n \in Nat \ {0}, a =< b
    PROVE  a \div n =< b \div n
  <1>1. /\ a \div n \in Nat /\ b \div n \in Nat
        /\ a = n * (a \div n) + (a % n) /\ a % n \in 0..(n - 1)
        /\ b = n * (b \div n) + (b % n) /\ b % n \in 0..(n - 1)
    BY SMT
  <1> DEFINE x == a \div n
             y == b \div n
  <1>2. SUFFICES ASSUME x > y PROVE FALSE
    BY <1>1
  <1>3. /\ x \in Nat /\ y \in Nat /\ a % n \in 0..(n - 1) /\ b % n \in 0..(n - 1)
        /\ a = n * x + (a % n) /\ b = n * y + (b % n)
    BY <1>1
  <1> HIDE DEF x, y
  <1>4. n * x >= n * (y + 1)
    BY <1>2, <1>3, SMT
  <1>5. n * (y + 1) = n * y + n
    BY <1>3, SMT
  <1> QED BY <1>3, <1>4, <1>5, SMT

(* Instants are natural numbers and so are the numbers of their days.       *)
LEMMA DaysMonotonic ==
    /\ \A t \in Nat : DayOf(t) \in Nat /\ HourOf(t) = t
    /\ \A s, t \in Nat : s =< t => DayOf(s) =< DayOf(t)
  <1>1. \A t \in Nat : DayOf(t) \in Nat /\ HourOf(t) = t
    BY RateAssumption, SMT DEF DayOf, HourOf
  <1>2. \A s, t \in Nat : s =< t => DayOf(s) =< DayOf(t)
    BY RateAssumption, DivisionMonotonic DEF DayOf
  <1> QED BY <1>1, <1>2

Good(st) == st \in RateState /\ Nested(st)

LEMMA NoneTyped == None \in Counts /\ None.all = 0 /\ \A c \in Code : None.of[c] = 0
  BY DEF None, Counts

(* A new limiter's windows are nested.                                      *)
LEMMA FreshGood == ASSUME NEW t \in Nat PROVE Good(FreshState(t))
  <1>1. FreshState(t) \in RateState
    BY DaysMonotonic, NoneTyped DEF FreshState, RateState
  <1>2. Nested(FreshState(t))
    BY DaysMonotonic, NoneTyped DEF FreshState, Nested
  <1> QED BY <1>1, <1>2 DEF Good

(* Bringing the windows up to date at any instant keeps them nested: when   *)
(* the day is over the hour is too.                                         *)
LEMMA ResetGood ==
    ASSUME NEW st, Good(st), NEW t \in Nat
    PROVE  Good(ResetIfExpired(st, t))
  <1> DEFINE new == ResetIfExpired(st, t)
  <1>0. /\ st.hour \in Nat /\ st.day \in Nat /\ st.hourly \in Counts /\ st.daily \in Counts
        /\ DayOf(st.hour) = st.day
    BY DEF Good, RateState, Nested
  <1>1. /\ new.hour = IF t > st.hour THEN t ELSE st.hour
        /\ new.hourly = IF t > st.hour THEN None ELSE st.hourly
        /\ new.day = IF DayOf(t) > st.day THEN DayOf(t) ELSE st.day
        /\ new.daily = IF DayOf(t) > st.day THEN None ELSE st.daily
    BY DaysMonotonic DEF ResetIfExpired
  <1>2. new \in RateState
    BY <1>0, DaysMonotonic, NoneTyped DEF ResetIfExpired, RateState
  <1>3. DayOf(t) > st.day => t > st.hour
    BY <1>0, DaysMonotonic
  <1>4. t > st.hour => DayOf(t) >= st.day
    BY <1>0, DaysMonotonic
  <1>5. DayOf(new.hour) = new.day
    BY <1>0, <1>1, <1>3, <1>4, DaysMonotonic
  <1>6. /\ new.hourly.all =< new.daily.all
        /\ \A c \in Code : new.hourly.of[c] =< new.daily.of[c]
    <2>1. CASE t > st.hour
      <3>1. new.hourly = None
        BY <1>1, <2>1
      <3>2. new.daily \in Counts
        BY <1>2 DEF RateState
      <3> QED BY <3>1, <3>2, NoneTyped DEF Counts
    <2>2. CASE ~(t > st.hour)
      <3>1. new.hourly = st.hourly /\ new.daily = st.daily
        BY <1>1, <1>3, <2>2
      <3> QED BY <3>1 DEF Good, Nested
    <2> QED BY <2>1, <2>2
  <1> QED BY <1>2, <1>5, <1>6 DEF Good, Nested

(* Counting a use of any code keeps the windows nested.                     *)
LEMMA RecordGood ==
    ASSUME NEW st, Good(st), NEW c, NEW t \in Nat
    PROVE  Good(Record(st, c, t))
  <1> DEFINE fresh == ResetIfExpired(st, t)
             new == Record(st, c, t)
  <1>1. Good(fresh)
    BY ResetGood
  <1> HIDE DEF fresh
  <1>2. /\ fresh \in RateState /\ fresh.hourly \in Counts /\ fresh.daily \in Counts
    BY <1>1 DEF Good, RateState
  <1>3. \A counts \in Counts :
           /\ Bumped(counts, c) \in Counts
           /\ Bumped(counts, c).all = counts.all + 1
           /\ \A d \in Code : Bumped(counts, c).of[d]
                                = IF d = c THEN counts.of[d] + 1 ELSE counts.of[d]
    <2> SUFFICES ASSUME NEW counts \in Counts
                 PROVE  /\ Bumped(counts, c) \in Counts
                        /\ Bumped(counts, c).all = counts.all + 1
                        /\ \A d \in Code : Bumped(counts, c).of[d]
                                = IF d = c THEN counts.of[d] + 1 ELSE counts.of[d]
      OBVIOUS
    <2> DEFINE of == [counts.of EXCEPT ![c] = @ + 1]
    <2>1. counts.all \in Nat /\ counts.of \in [Code -> Nat]
      BY DEF Counts
    <2>2. /\ of \in [Code -> Nat]
          /\ \A d \in Code : of[d] = IF d = c THEN counts.of[d] + 1 ELSE counts.of[d]
      <3>1. of = [d \in Code |-> IF d = c THEN counts.of[d] + 1 ELSE counts.of[d]]
        BY <2>1
      <3> HIDE DEF of
      <3>2. \A d \in Code : counts.of[d] \in Nat /\ counts.of[d] + 1 \in Nat
        BY <2>1
      <3> QED BY <3>1, <3>2
    <2>3. Bumped(counts, c) = [all |-> counts.all + 1, of |-> of]
      BY DEF Bumped
    <2> HIDE DEF of
    <2> QED BY <2>1, <2>2, <2>3 DEF Counts
  <1>4. new = [fresh EXCEPT !.hourly = Bumped(fresh.hourly, c), !.daily = Bumped(fresh.daily, c)]
    BY DEF Record, fresh
  <1>5. /\ new \in RateState /\ new.hour = fresh.hour /\ new.day = fresh.day
        /\ new.hourly = Bumped(fresh.hourly, c) /\ new.daily = Bumped(fresh.daily, c)
    BY <1>2, <1>3, <1>4 DEF RateState
  <1>6. DayOf(new.hour) = new.day
    BY <1>1, <1>5 DEF Good, Nested
  <1>7. new.hourly.all =< new.daily.all
    BY <1>1, <1>2, <1>3, <1>5 DEF Good, Nested, Counts
  <1>8. ASSUME NEW d \in Code PROVE new.hourly.of[d] =< new.daily.of[d]
    <2>1. /\ fresh.hourly.of[d] \in Nat /\ fresh.daily.of[d] \in Nat
          /\ fresh.hourly.of[d] =< fresh.daily.of[d]
      BY <1>1, <1>2 DEF Good, Nested, Counts
    <2> QED BY <2>1, <1>2, <1>3, <1>5
  <1> QED BY <1>5, <1>6, <1>7, <1>8 DEF Good, Nested

(* What a file holds is good, torn or not there.                            *)
OnDisk(f) == f \in {Torn, Missing} \/ Good(f)

(* The inductive invariant: the clock and the limiters are typed, and every *)
(* state a process or a file holds has nested windows.                      *)
IInv ==
    /\ now \in Nat
    /\ mem \in [Proc -> RateState]
    /\ \A p \in Proc : Good(mem[p])
    /\ OnDisk(state) /\ OnDisk(tmp)

LEMMA InitGood == Init => IInv
  BY FreshGood DEF Init, IInv, OnDisk, Good

(* A step that leaves the files alone and gives one limiter a good state.   *)
LEMMA LimiterStep ==
    ASSUME IInv, NEW p \in Proc, NEW st, Good(st),
           mem' = [mem EXCEPT ![p] = st], UNCHANGED <<now, state, tmp>>
    PROVE  IInv'
  <1>1. mem' \in [Proc -> RateState]
    BY DEF IInv, Good
  <1>2. \A q \in Proc : mem'[q] = IF q = p THEN st ELSE mem[q]
    BY DEF IInv
  <1>3. \A q \in Proc : Good(mem'[q])
    BY <1>2 DEF IInv
  <1> QED BY <1>1, <1>3 DEF IInv, OnDisk, Good, Nested

(* A step that leaves the limiters alone and moves good states into files.  *)
LEMMA FileStep ==
    ASSUME IInv, UNCHANGED <<now, mem>>,
           OnDisk(state'), OnDisk(tmp')
    PROVE  IInv'
  BY DEF IInv, OnDisk, Good, Nested

LEMMA StepGood == IInv /\ [Next]_vars => IInv'
  <1> SUFFICES ASSUME IInv, [Next]_vars PROVE IInv'
    OBVIOUS
  <1> USE DEF files
  <1>0. OnDisk(state) /\ OnDisk(tmp) /\ now \in Nat
    BY DEF IInv
  <1>1. CASE Tick \/ SetBack
    <2>1. now' \in Nat /\ UNCHANGED <<state, tmp, mem>>
      BY <1>0, <1>1 DEF Tick, SetBack
    <2> QED BY <2>1 DEF IInv, OnDisk, Good, Nested
  <1>2. ASSUME NEW p \in Proc, Step(p) PROVE IInv'
    <2>1. CASE LoadState(p)
      <3> DEFINE st == IF state \in {Missing, Torn} THEN FreshState(now)
                       ELSE ResetIfExpired(state, now)
      <3>2. Good(st)
        BY <1>0, FreshGood, ResetGood DEF OnDisk
      <3> HIDE DEF st
      <3>3. mem' = [mem EXCEPT ![p] = st] /\ UNCHANGED <<now, state, tmp>>
        BY <2>1 DEF LoadState, st
      <3> QED BY <3>2, <3>3, LimiterStep
    <2>2. CASE CheckLimits(p)
      <3> DEFINE st == ResetIfExpired(mem[p], now)
      <3>1. Good(st)
        BY <1>0, ResetGood DEF IInv
      <3> HIDE DEF st
      <3>2. mem' = [mem EXCEPT ![p] = st] /\ UNCHANGED <<now, state, tmp>>
        BY <2>2 DEF CheckLimits, st
      <3> QED BY <3>1, <3>2, LimiterStep
    <2>3. CASE RecordUse(p)
      <3> DEFINE st == Record(mem[p], entry[p].code, now)
      <3>1. Good(st)
        BY <1>0, RecordGood DEF IInv
      <3> HIDE DEF st
      <3>2. mem' = [mem EXCEPT ![p] = st] /\ UNCHANGED <<now, state, tmp>>
        BY <2>3 DEF RecordUse, st, IInv
      <3> QED BY <3>1, <3>2, LimiterStep
    <2>4. CASE Exit(p) \/ Crash(p)
      <3>1. Good(FreshState(0))
        BY FreshGood
      <3>2. mem' = [mem EXCEPT ![p] = FreshState(0)] /\ UNCHANGED <<now, state, tmp>>
        BY <2>4 DEF Exit, Crash, Forget
      <3> QED BY <3>1, <3>2, LimiterStep
    <2>5. CASE OpenState(p)
      <3>1. tmp' = Torn /\ UNCHANGED <<now, mem, state>>
        BY <2>5 DEF OpenState
      <3> QED BY <1>0, <3>1, FileStep DEF OnDisk
    <2>6. CASE WriteState(p)
      <3>1. Good(mem[p])
        BY DEF IInv
      <3>2. /\ state' \in {state, mem[p], Torn} /\ tmp' \in {tmp, mem[p], Torn}
            /\ UNCHANGED <<now, mem>>
        BY <2>6 DEF WriteState
      <3> QED BY <1>0, <3>1, <3>2, FileStep DEF OnDisk
    <2>7. CASE RenameState(p)
      <3>1. /\ state' \in {state, tmp} /\ tmp' \in {tmp, Missing}
            /\ UNCHANGED <<now, mem>>
        BY <2>7 DEF RenameState
      <3> QED BY <1>0, <3>1, FileStep DEF OnDisk
    <2>8. CASE \/ Invoke(p) \/ Cleanup(p) \/ Stand(p) \/ DenyByPolicy(p) \/ StatLog(p)
               \/ RotateLog(p) \/ TrimBackups(p) \/ OpenLog(p) \/ AppendEntry(p)
               \/ FilterLog(p) \/ SwapLog(p)
      <3>1. UNCHANGED <<now, mem, state, tmp>>
        BY <2>8 DEF Invoke, Cleanup, Stand, DenyByPolicy, StatLog, RotateLog, TrimBackups,
           OpenLog, AppendEntry, Logged, FilterLog, SwapLog
      <3> QED BY <1>0, <3>1, FileStep
    <2> QED BY <1>2, <2>1, <2>2, <2>3, <2>4, <2>5, <2>6, <2>7, <2>8 DEF Step
  <1>3. CASE UNCHANGED vars
    BY <1>3 DEF vars, IInv, OnDisk, Good, Nested
  <1> QED BY <1>1, <1>2, <1>3 DEF Next

(* In every state a process or a file holds, whoever overlaps, crashes or   *)
(* sets the clock back, the hour is one of the day and counts no more uses  *)
(* than the day does (RateLimiter.resetIfExpiredLocked and Record).         *)
THEOREM WindowsNested == Spec => []HourWithinDay
  <1>1. IInv => HourWithinDay
    BY DEF IInv, HourWithinDay, States, OnDisk, Good
  <1> QED BY <1>1, InitGood, StepGood, PTL DEF Spec

-----------------------------------------------------------------------------
\* Types

(* The directory is the log and a function from the backups' seconds, and   *)
(* the rest are functions of the processes.                                 *)
Shape ==
    /\ dir = [log |-> dir.log, backups |-> dir.backups]
    /\ dir.backups = [s \in DOMAIN dir.backups |-> dir.backups[s]]
    /\ DOMAIN cmd = Proc /\ DOMAIN fd = Proc /\ DOMAIN entry = Proc /\ DOMAIN used = Proc

(* An open file of the log is there, and the one an entry is appended to is *)
(* of the log or gone.                                                      *)
Placed(p) ==
    /\ fd[p] = LogFile => dir.log \in Seq(Entry)
    /\ \A s \in 0..second : fd[p] = Backup(s) => s \in DOMAIN dir.backups
    /\ pc[p] = "append" => fd[p] \notin {NoFile, TmpFile, StateFile}

Logging == {"record", "stat", "rotate", "trim", "openlog", "append"}

(* What is being logged is about an error that is still to be done.         *)
Pending(p) == pc[p] \in Logging => todo[p] # <<>>

TypeInv ==
    /\ TypeOK /\ IInv /\ Shape
    /\ \A p \in Proc : Placed(p) /\ Pending(p)

-----------------------------------------------------------------------------
\* Limits, when hooks do not overlap

Alone == \A p, q \in Proc : ~Idle(p) /\ ~Idle(q) => p = q

(* The uses that a limiter's state accounts for in its two windows.         *)
Accounts(st, uses) ==
    /\ \A u \in uses : u.at =< st.hour
    /\ st.hourly.all = Cardinality(InHour(uses, st.hour))
    /\ st.daily.all = Cardinality(InDay(uses, st.day))
    /\ \A c \in Code : /\ st.hourly.of[c] = Cardinality(OfCode(InHour(uses, st.hour), c))
                       /\ st.daily.of[c] = Cardinality(OfCode(InDay(uses, st.day), c))

(* No window of any time has more uses than the limits allow.               *)
Limited(uses) ==
    RateEnabled =>
        \A t \in Nat :
            /\ ~Exceeds(InHour(uses, t), MaxPerHour)
            /\ ~Exceeds(InDay(uses, t), MaxPerDay)
            /\ \A c \in Code : /\ ~Exceeds(OfCode(InHour(uses, t), c), PolicyOf(c).perHour)
                               /\ ~Exceeds(OfCode(InDay(uses, t), c), PolicyOf(c).perDay)

Counting == {"check", "record", "stat", "rotate", "trim", "openlog", "append", "write", "rename"}

(* A hook at work: what its limiter accounts for are the uses of the state  *)
(* it loaded and its own, which are within the limits; each is of an error  *)
(* it is past, and a use it is about to record is within them too.          *)
Working(p) ==
    LET uses == counted \cup used[p]
    IN  /\ run[p] = runs
        /\ pc[p] \in Counting => Accounts(mem[p], uses) /\ mem[p].hour =< now
        /\ Limited(uses)
        /\ \A u \in used[p] : u.run = runs
        /\ \A u \in counted : u.run < runs \/ pc[p] = "exit"
        /\ pc[p] \in {"check", "record"} => \A u \in used[p] : u.left > Len(todo[p])
        /\ pc[p] \in {"stat", "rotate", "trim", "openlog", "append"} =>
              \A u \in used[p] : u.left >= Len(todo[p])
        /\ pc[p] = "record" => Within(mem[p], entry[p].code)
        /\ pc[p] \in {"load", "prune", "filter", "swap"} => used[p] = {}
        /\ pc[p] = "write" => tmp = Torn /\ fd[p] = TmpFile
        /\ pc[p] = "rename" => tmp = mem[p]
        /\ pc[p] = "exit" => used[p] \subseteq counted

(* The published state accounts for every use that was saved, and the host  *)
(* was told of no other.                                                    *)
Saved ==
    /\ state # Torn
    /\ state = Missing => counted = {}
    /\ state # Missing => Accounts(state, counted) /\ state.hour =< now
    /\ IsFiniteSet(counted)
    /\ \A u \in counted : u.at =< now /\ u.run =< runs
    /\ Limited(counted)
    /\ granted \subseteq counted

LimitInv ==
    ~overlaps =>
        /\ Alone /\ Saved
        /\ \A p \in Proc : IF Idle(p) THEN used[p] = {}
                           ELSE Working(p) /\ IsFiniteSet(used[p])

-----------------------------------------------------------------------------
\* The types are kept

(* A set of naturals has a least element.                                   *)
LEMMA LeastExists ==
  ASSUME NEW T \in SUBSET Nat, T # {}
  PROVE  \E x \in T : \A y \in T : x =< y
  <1> DEFINE R == {ss \in Nat \X Nat : ss[1] < ss[2]}
  <1>1. IsWellFoundedOn(R, Nat)
    BY NatLessThanWellFounded DEF OpToRel
  <1>2. PICK x \in T : \A y \in T : ~ (<<y, x>> \in R)
    <2> HIDE DEF R
    <2> QED BY <1>1, WFMin
  <1>3. \A y \in T : x =< y
    <2> SUFFICES ASSUME NEW y \in T, y < x PROVE FALSE
      OBVIOUS
    <2>1. <<y, x>> \in R
      OBVIOUS
    <2> QED BY <1>2, <2>1
  <1> QED BY <1>3

(* What the scanner returns is the beginning of the log, all of it when no  *)
(* line is too long.                                                        *)
LEMMA ScannedPart ==
  ASSUME NEW entries \in Seq(Entry)
  PROVE  /\ Scanned(entries) \in Seq(Entry)
         /\ (\A i \in DOMAIN entries : ~entries[i].long) => Scanned(entries) = entries
  <1> DEFINE long == {i \in DOMAIN entries : entries[i].long}
  <1>1. CASE long = {}
    BY <1>1 DEF Scanned
  <1>2. CASE long # {}
    <2>1. long \in SUBSET Nat
      OBVIOUS
    <2>2. PICK x \in long : \A y \in long : x =< y
      BY <1>2, <2>1, LeastExists
    <2>3. Min(long) \in long
      BY <2>2 DEF Min
    <2>4. Scanned(entries) = SubSeq(entries, 1, Min(long) - 1)
      BY <1>2 DEF Scanned
    <2>5. Min(long) \in 1..Len(entries)
      BY <2>3
    <2> HIDE DEF long
    <2>6. SubSeq(entries, 1, Min(long) - 1) \in Seq(Entry)
      BY <2>5
    <2> QED BY <1>2, <2>3, <2>4, <2>6 DEF long
  <1> QED BY <1>1, <1>2

(* Appending adds an element.                                               *)
LEMMA AppendToSet ==
  ASSUME NEW S, NEW s \in Seq(S), NEW e \in S
  PROVE  Append(s, e) \in Seq(S) /\ ToSet(Append(s, e)) = ToSet(s) \cup {e}
  <1> DEFINE w == Append(s, e)
  <1>1. /\ w \in Seq(S) /\ Len(w) = Len(s) + 1 /\ Len(s) \in Nat
        /\ \A i \in 1..Len(s) : w[i] = s[i]
        /\ w[Len(s) + 1] = e
    BY AppendProperties
  <1>2. DOMAIN w = 1..(Len(s) + 1) /\ DOMAIN s = 1..Len(s)
    BY <1>1
  <1> HIDE DEF w
  <1>3. ASSUME NEW i \in DOMAIN w PROVE w[i] \in ToSet(s) \cup {e}
    <2>1. CASE i = Len(s) + 1
      BY <1>1, <2>1
    <2>2. CASE i # Len(s) + 1
      <3>1. i \in 1..Len(s)
        BY <1>1, <1>2, <2>2
      <3> QED BY <1>1, <1>2, <3>1 DEF ToSet
    <2> QED BY <2>1, <2>2
  <1>4. ASSUME NEW i \in DOMAIN s PROVE s[i] \in ToSet(w)
    BY <1>1, <1>2 DEF ToSet
  <1>5. e \in ToSet(w)
    BY <1>1, <1>2 DEF ToSet
  <1>6. ToSet(w) = ToSet(s) \cup {e}
    BY <1>3, <1>4, <1>5 DEF ToSet
  <1> QED BY <1>1, <1>6 DEF w

(* The least element of a set of indices, and the index before it.          *)
LEMMA LeastIndex ==
  ASSUME NEW n \in Nat, NEW B \in SUBSET (0..n), B # {}
  PROVE  \E k \in B : /\ k \in 0..n
                      /\ k # 0 => k - 1 \in 0..n /\ k \in 1..n /\ k - 1 \notin B
  <1>1. B \in SUBSET Nat
    OBVIOUS
  <1>2. PICK k \in B : \A j \in B : k =< j
    <2> HIDE <1>1
    <2> QED BY <1>1, LeastExists
  <1>3. k \in 0..n
    OBVIOUS
  <1>4. ASSUME k # 0 PROVE k - 1 \in 0..n /\ k \in 1..n /\ k - 1 \notin B
    <2>1. k - 1 \in 0..n /\ k \in 1..n
      BY <1>3, <1>4
    <2>2. ~ (k =< k - 1)
      BY <1>3
    <2> QED BY <1>2, <2>1, <2>2
  <1> QED BY <1>3, <1>4

Stays(e, t) == e.bad \/ Young(e, t)
Ended(e)    == [e EXCEPT !.open = FALSE]

(* A cleanup retains exactly the young and the malformed lines it reads,    *)
(* each with its end.                                                       *)
LEMMA FilteredYoung ==
  ASSUME NEW entries \in Seq(Entry), NEW t \in Nat
  PROVE  /\ Filtered(entries, t) \in Seq(Entry)
         /\ ToSet(Filtered(entries, t)) =
               {Ended(e) : e \in {x \in ToSet(Scanned(entries)) : Stays(x, t)}}
  <1> DEFINE read == Scanned(entries)
             n == Len(read)
             At(v, i) == IF i = 0 THEN <<>>
                         ELSE IF Stays(read[i], t) THEN Append(v[i - 1], Ended(read[i]))
                         ELSE v[i - 1]
             Rec(v, k) == v = [i \in 0..k |-> At(v, i)]
             Upto(k) == {read[i] : i \in 1..k}
             Fine(v, k) == /\ v[k] \in Seq(Entry)
                           /\ ToSet(v[k]) = {Ended(e) : e \in {x \in Upto(k) : Stays(x, t)}}
  <1>1. read \in Seq(Entry) /\ n \in Nat
    BY ScannedPart
  <1> HIDE DEF read, n
  <1>2. \A k \in 0..n : \E v : Rec(v, k)
    <2> DEFINE Bad == {k \in 0..n : ~ \E v : Rec(v, k)}
    <2>0. Bad \in SUBSET (0..n)
      OBVIOUS
    <2> HIDE DEF Bad
    <2>1. SUFFICES ASSUME Bad # {} PROVE FALSE
      BY DEF Bad
    <2>2. PICK k \in Bad : /\ k \in 0..n
                           /\ k # 0 => k - 1 \in 0..n /\ k \in 1..n /\ k - 1 \notin Bad
      BY <1>1, <2>0, <2>1, LeastIndex
    <2>3. ~ \E v : Rec(v, k)
      BY <2>2 DEF Bad
    <2>4. CASE k = 0
      <3>1. Rec([i \in 0..0 |-> <<>>], 0)
        OBVIOUS
      <3> HIDE DEF Rec
      <3> QED BY <2>3, <2>4, <3>1
    <2>5. CASE k # 0
      <3>1. k - 1 \in 0..n /\ k \in 1..n /\ k - 1 \notin Bad
        BY <2>2, <2>5
      <3>2. PICK v : Rec(v, k - 1)
        <4> HIDE DEF Rec
        <4> QED BY <3>1 DEF Bad
      <3> DEFINE w == [i \in 0..k |-> IF i < k THEN v[i] ELSE At(v, k)]
      <3>3. k \in Nat \ {0}
        BY <3>1
      <3>4. \A i \in 0..(k - 1) : v[i] = At(v, i)
        BY <3>2
      <3>5. \A i \in 0..(k - 1) : w[i] = v[i]
        BY <3>3
      <3>6. \A i \in 0..k : w[i] = At(w, i)
        <4> SUFFICES ASSUME NEW i \in 0..k PROVE w[i] = At(w, i)
          OBVIOUS
        <4>1. w[i] = At(v, i)
          BY <3>3, <3>4
        <4>2. i # 0 => i - 1 \in 0..(k - 1)
          BY <3>3
        <4>3. i # 0 => w[i - 1] = v[i - 1]
          BY <3>5, <4>2
        <4> HIDE DEF w
        <4> QED BY <4>1, <4>3
      <3>7. w = [i \in 0..k |-> w[i]]
        OBVIOUS
      <3> HIDE DEF w
      <3>8. Rec(w, k)
        <4>1. [i \in 0..k |-> w[i]] = [i \in 0..k |-> At(w, i)]
          BY <3>6
        <4> QED BY <3>7, <4>1
      <3> HIDE DEF Rec
      <3> QED BY <2>3, <3>8
    <2> QED BY <2>4, <2>5
  <1>3. PICK v : Rec(v, n) /\ Filtered(entries, t) = v[n]
    <2> DEFINE chosen == CHOOSE v : Rec(v, n)
    <2>1. Rec(chosen, n)
      <3>1. n \in 0..n
        BY <1>1
      <3> HIDE DEF Rec
      <3> QED BY <1>2, <3>1
    <2>2. Filtered(entries, t) = chosen[n]
      BY DEF Filtered, Stays, Ended, read, n
    <2> HIDE DEF chosen
    <2> QED BY <2>1, <2>2
  <1>4. \A i \in 0..n : v[i] = At(v, i)
    BY <1>3
  <1>5. \A k \in 0..n : Fine(v, k)
    <2> DEFINE Bad == {k \in 0..n : ~Fine(v, k)}
    <2>0. Bad \in SUBSET (0..n)
      OBVIOUS
    <2> HIDE DEF Bad
    <2>1. SUFFICES ASSUME Bad # {} PROVE FALSE
      BY DEF Bad
    <2>2. PICK k \in Bad : /\ k \in 0..n
                           /\ k # 0 => k - 1 \in 0..n /\ k \in 1..n /\ k - 1 \notin Bad
      BY <1>1, <2>0, <2>1, LeastIndex
    <2>3. ~Fine(v, k)
      BY <2>2 DEF Bad
    <2>4. CASE k = 0
      <3>1. v[0] = <<>>
        BY <1>1, <1>4
      <3>2. <<>> \in Seq(Entry) /\ ToSet(<<>>) = {} /\ Upto(0) = {}
        BY DEF ToSet
      <3>3. {Ended(e) : e \in {x \in Upto(0) : Stays(x, t)}} = {}
        BY <3>2
      <3> QED BY <2>3, <2>4, <3>1, <3>2, <3>3
    <2>5. CASE k # 0
      <3>1. k - 1 \in 0..n /\ k \in 1..n /\ k - 1 \notin Bad
        BY <2>2, <2>5
      <3>2. Fine(v, k - 1)
        BY <3>1 DEF Bad
      <3>3. read[k] \in Entry
        BY <1>1, <3>1 DEF n
      <3>4. Upto(k) = Upto(k - 1) \cup {read[k]}
        BY <1>1, <3>1
      <3>5. v[k] = At(v, k)
        BY <1>4, <2>2
      <3> HIDE DEF Upto
      <3>6. CASE Stays(read[k], t)
        <4>1. v[k] = Append(v[k - 1], Ended(read[k]))
          BY <2>5, <3>5, <3>6
        <4>2. Ended(read[k]) \in Entry
          BY <3>3 DEF Ended, Entry
        <4>3. v[k] \in Seq(Entry) /\ ToSet(v[k]) = ToSet(v[k - 1]) \cup {Ended(read[k])}
          BY <3>2, <4>1, <4>2, AppendToSet
        <4>4. {Ended(e) : e \in {x \in Upto(k) : Stays(x, t)}}
                = {Ended(e) : e \in {x \in Upto(k - 1) : Stays(x, t)}} \cup {Ended(read[k])}
          BY <3>4, <3>6
        <4> QED BY <2>3, <3>2, <4>3, <4>4
      <3>7. CASE ~Stays(read[k], t)
        <4>1. v[k] = v[k - 1]
          BY <2>5, <3>5, <3>7
        <4>2. {x \in Upto(k) : Stays(x, t)} = {x \in Upto(k - 1) : Stays(x, t)}
          BY <3>4, <3>7
        <4> QED BY <2>3, <3>2, <4>1, <4>2
      <3> QED BY <3>6, <3>7
    <2> QED BY <2>4, <2>5
  <1>6. ToSet(read) = Upto(n)
    BY <1>1 DEF ToSet, n
  <1>7. Fine(v, n)
    <2>1. n \in 0..n
      BY <1>1
    <2> HIDE DEF Fine
    <2> QED BY <1>5, <2>1
  <1> HIDE DEF Upto
  <1> QED BY <1>3, <1>6, <1>7 DEF read

(* What a write that fails leaves is a line, about the same error.          *)
LEMMA CutTyped ==
  ASSUME NEW line \in Entry, NEW cut \in Cut(line)
  PROVE  cut \in Entry /\ cut.run = line.run /\ cut.left = line.left
  BY DEF Cut, Entry

(* What becomes of a line behind one without its end.                       *)
Glued(lines, line) == [line EXCEPT !.bad = TRUE, !.long = @ \/ Last(lines).long]

LEMMA AddedTyped ==
  ASSUME NEW lines \in Seq(Entry), NEW line \in Entry
  PROVE  /\ Added(lines, line) \in Seq(Entry)
         /\ CutOff(lines) => /\ lines # <<>> /\ Front(lines) \in Seq(Entry)
                             /\ Last(lines) \in Entry /\ Glued(lines, line) \in Entry
  <1>1. ASSUME CutOff(lines)
        PROVE  /\ lines # <<>> /\ Front(lines) \in Seq(Entry)
               /\ Last(lines) \in Entry /\ Glued(lines, line) \in Entry
    <2>1. lines # <<>>
      BY <1>1 DEF CutOff
    <2>2. Len(lines) \in Nat \ {0}
      BY <2>1
    <2>3. Last(lines) \in Entry
      BY <2>2 DEF Last
    <2>4. Front(lines) \in Seq(Entry)
      BY <2>2 DEF Front
    <2>5. Glued(lines, line) \in Entry
      BY <2>3 DEF Glued, Entry
    <2> QED BY <2>1, <2>3, <2>4, <2>5
  <1> QED BY <1>1 DEF Added, Glued

(* The files a process may have open have different names.                  *)
LEMMA FileNames ==
  /\ NoFile # Gone /\ NoFile # TmpFile /\ NoFile # StateFile /\ NoFile # LogFile
  /\ Gone # TmpFile /\ Gone # StateFile /\ Gone # LogFile
  /\ TmpFile # StateFile /\ TmpFile # LogFile /\ StateFile # LogFile
  /\ \A s : /\ Backup(s) \notin {NoFile, Gone, TmpFile, StateFile, LogFile}
            /\ Backup(s)[2] = s
  /\ \A s, t : Backup(s) = Backup(t) => s = t
  <1>1. ASSUME NEW s PROVE /\ Backup(s)[2] = s /\ Len(Backup(s)) = 2
                           /\ Backup(s) \notin {NoFile, Gone, TmpFile, StateFile, LogFile}
    <2>1. /\ Len(NoFile) = 1 /\ Len(Gone) = 1 /\ Len(TmpFile) = 1 /\ Len(StateFile) = 1
          /\ Len(LogFile) = 1
      BY DEF NoFile, Gone, TmpFile, StateFile, LogFile
    <2>2. Backup(s)[2] = s /\ Len(Backup(s)) = 2
      BY DEF Backup
    <2> QED BY <2>1, <2>2
  <1>2. ASSUME NEW s, NEW t, Backup(s) = Backup(t) PROVE s = t
    BY <1>1, <1>2
  <1>3. /\ NoFile[1] = "none" /\ Gone[1] = "gone" /\ TmpFile[1] = "tmp"
        /\ StateFile[1] = "state" /\ LogFile[1] = "log"
    BY DEF NoFile, Gone, TmpFile, StateFile, LogFile
  <1> QED BY <1>1, <1>2, <1>3

(* A verdict on an error is about the code of the error and of the token.   *)
LEMMA NamedCode ==
  ASSUME TypeInv, NEW p \in Proc, todo[p] # <<>>, Verdict(p) \in {"denied", "allowed"}
  PROVE  /\ FoundToken(cmd[p]).code \in Code
         /\ FoundToken(cmd[p]).code = Head(todo[p]).code
  <1>1. todo[p] \in Seq(Errors) /\ Head(todo[p]) \in Errors
    BY DEF TypeInv, TypeOK
  <1>2. Head(todo[p]).code \in Code \cup {NoCode}
    BY <1>1, InputAssumption DEF ErrorType
  <1> QED BY <1>2 DEF Verdict, Evaluate, Asks
-----------------------------------------------------------------------------
\* The parts of the types, with the steps that disturb them

Plain ==
    /\ overlaps \in BOOLEAN /\ second \in Nat /\ runs \in Nat /\ run \in [Proc -> Nat]
    /\ counted \subseteq Use /\ granted \subseteq Use /\ missed \subseteq Use

Log ==
    /\ dir = [log |-> dir.log, backups |-> dir.backups]
    /\ dir.backups = [s \in DOMAIN dir.backups |-> dir.backups[s]]
    /\ dir.log = Missing \/ dir.log \in Seq(Entry)
    /\ \A s \in DOMAIN dir.backups : s \in 0..second /\ dir.backups[s] \in Seq(Entry)

Places == {"idle", "load", "check", "record", "stat", "rotate", "trim", "openlog",
           "append", "open", "write", "rename", "exit", "prune", "filter", "swap"}

Control ==
    /\ pc \in [Proc -> Places]
    /\ todo \in [Proc -> Seq(Errors)]
    /\ DOMAIN cmd = Proc
    /\ \A q \in Proc : todo[q] # <<>> => cmd[q] \in Commands

Named(q) ==
    fd[q] \in {NoFile, Gone, TmpFile, StateFile, LogFile} \cup {Backup(s) : s \in 0..second}

Descriptors == DOMAIN fd = Proc /\ \A q \in Proc : Named(q) /\ Placed(q)

Carried(q) == pc[q] \in Logging => entry[q] \in Entry

Entries == DOMAIN entry = Proc /\ \A q \in Proc : Carried(q) /\ Pending(q)

Copies == copy \in [Proc -> Seq(Entry)]

Uses == DOMAIN used = Proc /\ \A q \in Proc : used[q] \subseteq Use

LEMMA Parts ==
  TypeInv <=> IInv /\ Plain /\ Log /\ Control /\ Descriptors /\ Entries /\ Copies /\ Uses
  <1>1. TypeInv => IInv /\ Plain /\ Log /\ Control /\ Descriptors /\ Entries /\ Copies /\ Uses
    BY DEF TypeInv, TypeOK, Shape, Plain, Log, Control, Places, Descriptors, Named,
       Entries, Carried, Logging, Copies, Uses
  <1>2. ASSUME IInv, Plain, Log, Control, Descriptors, Entries, Copies, Uses PROVE TypeInv
    <2>1. {state, tmp} \subseteq RateState \cup {Torn, Missing}
      BY <1>2 DEF IInv, OnDisk, Good
    <2>2. \A q \in Proc : Named(q) /\ Placed(q) /\ Carried(q) /\ Pending(q)
      BY <1>2 DEF Descriptors, Entries
    <2>3. TypeOK
      BY <1>2, <2>1, <2>2 DEF IInv, Plain, Log, Control, Places, Named, Carried, Logging,
         Copies, Uses, TypeOK
    <2>4. Shape
      BY <1>2 DEF Log, Control, Descriptors, Entries, Uses, Shape
    <2> QED BY <1>2, <2>2, <2>3, <2>4 DEF TypeInv
  <1> QED BY <1>1, <1>2

LEMMA PartsPrimed ==
  (IInv /\ Plain /\ Log /\ Control /\ Descriptors /\ Entries /\ Copies /\ Uses => TypeInv)'
  BY Parts, PTL

LEMMA UsesKept == ASSUME TypeInv, NEW p \in Proc, Step(p) PROVE Uses'
  <1>1. Uses /\ Control /\ Entries /\ Plain /\ IInv
    BY Parts
  <1>2. CASE RecordUse(p)
    <2> DEFINE new == [run |-> run[p], left |-> Len(todo[p]), code |-> entry[p].code,
                       at |-> now, asked |-> entry[p].at]
    <2>1. new \in Use
      <3>1. entry[p].code \in Code /\ entry[p].at \in Nat
        BY <1>1, <1>2 DEF RecordUse, Entries, Carried, Logging, Entry
      <3>2. run[p] \in Nat /\ Len(todo[p]) \in Nat /\ now \in Nat
        BY <1>1 DEF Plain, Control, IInv
      <3> QED BY <3>1, <3>2 DEF Use
    <2>2. used' = [used EXCEPT ![p] = used[p] \cup {u \in {new} : ~overlaps}]
      BY <1>1, <1>2 DEF RecordUse, Uses
    <2> HIDE DEF new
    <2> QED BY <1>1, <2>1, <2>2 DEF Uses
  <1>3. CASE Exit(p) \/ Crash(p)
    BY <1>1, <1>3 DEF Exit, Crash, Forget, Uses
  <1>4. CASE UNCHANGED used
    BY <1>1, <1>4 DEF Uses
  <1>5. RecordUse(p) \/ Exit(p) \/ Crash(p) \/ UNCHANGED used
    BY DEF Step, files, ghost, Invoke, Cleanup, LoadState, Stand, DenyByPolicy, CheckLimits,
       StatLog, RotateLog, TrimBackups, OpenLog, AppendEntry, Logged, OpenState, WriteState,
       RenameState, FilterLog, SwapLog, Starts
  <1> QED BY <1>2, <1>3, <1>4, <1>5

LEMMA PlainKept == ASSUME TypeInv, NEW p \in Proc, Step(p) PROVE Plain'
  <1>1. Plain /\ \A q \in Proc : used[q] \subseteq Use
    BY Parts DEF Uses
  <1>2. /\ overlaps' = overlaps
        /\ second' \in {second, second + 1}
        /\ runs' \in {runs, runs + 1}
        /\ \/ run' = run \/ run' = [run EXCEPT ![p] = runs + 1] \/ run' = [run EXCEPT ![p] = 0]
        /\ counted' \in {counted, counted \cup used[p]}
        /\ granted' \in {granted, granted \cup used[p]}
    BY DEF Step, files, ghost, Invoke, Cleanup, LoadState, Stand, DenyByPolicy, CheckLimits,
       RecordUse, StatLog, RotateLog, TrimBackups, OpenLog, AppendEntry, Logged, OpenState,
       WriteState, RenameState, FilterLog, SwapLog, Exit, Crash, Starts, Forget
  <1>3. missed' \subseteq missed \cup granted \cup used[p]
    <2>1. CASE RotateLog(p)
      BY <2>1 DEF RotateLog, About
    <2>2. CASE OpenLog(p) \/ AppendEntry(p)
      BY <2>2 DEF OpenLog, AppendEntry, Own
    <2>3. CASE missed' = missed
      BY <2>3
    <2>4. RotateLog(p) \/ OpenLog(p) \/ AppendEntry(p) \/ missed' = missed
      BY DEF Step, ghost, Invoke, Cleanup, LoadState, Stand, DenyByPolicy, CheckLimits,
         RecordUse, StatLog, TrimBackups, OpenState, WriteState, RenameState, FilterLog,
         SwapLog, Exit, Crash, Forget
    <2> QED BY <2>1, <2>2, <2>3, <2>4
  <1> QED BY <1>1, <1>2, <1>3 DEF Plain

LEMMA PlacesKept ==
  ASSUME pc \in [Proc -> Places], NEW p \in Proc, Step(p) PROVE pc' \in [Proc -> Places]
  <1> DEFINE to(x) == pc' = [pc EXCEPT ![p] = x]
  <1>1. CASE UNCHANGED pc
    BY <1>1
  <1>2. CASE to("idle") \/ to("load") \/ to("check") \/ to("record") \/ to("stat")
             \/ to("rotate") \/ to("trim") \/ to("openlog")
    BY <1>2 DEF Places
  <1>3. CASE to("append") \/ to("write") \/ to("rename") \/ to("exit") \/ to("prune")
             \/ to("filter") \/ to("swap")
    BY <1>3 DEF Places
  <1>4. \/ UNCHANGED pc
        \/ to("idle") \/ to("load") \/ to("check") \/ to("record") \/ to("stat")
        \/ to("rotate") \/ to("trim") \/ to("openlog")
        \/ to("append") \/ to("write") \/ to("rename") \/ to("exit") \/ to("prune")
        \/ to("filter") \/ to("swap")
    BY DEF Step, files, ghost, Invoke, Cleanup, LoadState, Stand, DenyByPolicy, CheckLimits,
       RecordUse, StatLog, RotateLog, TrimBackups, OpenLog, AppendEntry, Logged, OpenState,
       WriteState, RenameState, FilterLog, SwapLog, Exit, Crash, Starts, Forget
  <1> QED BY <1>1, <1>2, <1>3, <1>4

LEMMA ControlKept == ASSUME TypeInv, NEW p \in Proc, Step(p) PROVE Control'
  <1>1. Control /\ Plain
    BY Parts
  <1>0. pc' \in [Proc -> Places]
    BY <1>1, PlacesKept DEF Control
  <1>2. CASE Invoke(p)
    <2>1. PICK call \in Calls[overlaps][runs + 1] :
             cmd' = [cmd EXCEPT ![p] = call.cmd] /\ todo' = [todo EXCEPT ![p] = call.errs]
      BY <1>2 DEF Invoke
    <2>2. call \in [cmd: Commands, errs: Seq(Errors)]
      <3>1. Calls[overlaps] \in Seq(SUBSET [cmd: Commands, errs: Seq(Errors)])
        BY <1>1, InputAssumption DEF Plain
      <3>2. runs + 1 \in 1..Len(Calls[overlaps])
        BY <1>1, <1>2, <3>1 DEF Invoke, Starts, Plain
      <3>3. Calls[overlaps][runs + 1] \in SUBSET [cmd: Commands, errs: Seq(Errors)]
        BY <3>1, <3>2
      <3> QED BY <3>3
    <2>3. call.cmd \in Commands /\ call.errs \in Seq(Errors)
      BY <2>2
    <2> QED BY <1>0, <1>1, <2>1, <2>3 DEF Control
  <1>3. CASE Stand(p) \/ AppendEntry(p) \/ (OpenLog(p) /\ Logged(p))
    <2>1. todo[p] # <<>>
      BY <1>3, Parts DEF Stand, AppendEntry, OpenLog, Entries, Pending, Logging
    <2>2. Tail(todo[p]) \in Seq(Errors)
      BY <1>1, <2>1 DEF Control
    <2>3. todo' = [todo EXCEPT ![p] = Tail(todo[p])] /\ cmd' = cmd
      BY <1>1, <1>3 DEF Stand, AppendEntry, OpenLog, Logged, Control
    <2>4. todo' \in [Proc -> Seq(Errors)]
      BY <1>1, <2>2, <2>3 DEF Control
    <2>5. \A q \in Proc : todo'[q] # <<>> => cmd[q] \in Commands
      BY <1>1, <2>1, <2>3 DEF Control
    <2> QED BY <1>0, <1>1, <2>3, <2>4, <2>5 DEF Control
  <1>4. CASE Exit(p) \/ Crash(p)
    <2>1. todo' = [todo EXCEPT ![p] = <<>>] /\ cmd' = [cmd EXCEPT ![p] = Missing]
      BY <1>4 DEF Exit, Crash, Forget
    <2>2. todo' \in [Proc -> Seq(Errors)]
      BY <1>1, <2>1 DEF Control
    <2>3. \A q \in Proc : todo'[q] # <<>> => cmd'[q] \in Commands
      BY <1>1, <2>1 DEF Control
    <2>4. DOMAIN cmd' = Proc
      BY <1>1, <2>1 DEF Control
    <2> QED BY <1>0, <2>2, <2>3, <2>4 DEF Control
  <1>5. CASE UNCHANGED <<todo, cmd>>
    BY <1>0, <1>1, <1>5 DEF Control
  <1>6. \/ Invoke(p) \/ Stand(p) \/ AppendEntry(p) \/ (OpenLog(p) /\ Logged(p))
        \/ Exit(p) \/ Crash(p) \/ UNCHANGED <<todo, cmd>>
    BY DEF Step, files, ghost, Cleanup, LoadState, DenyByPolicy, CheckLimits, RecordUse,
       StatLog, RotateLog, TrimBackups, OpenLog, OpenState, WriteState, RenameState,
       FilterLog, SwapLog, Starts
  <1> QED BY <1>2, <1>3, <1>4, <1>5, <1>6

(* What becomes of the directory when an entry is appended: nothing, or one *)
(* of its files, which the process has open, gets a line about the error.   *)
LEMMA AppendEffect ==
  ASSUME TypeInv, NEW p \in Proc, AppendEntry(p)
  PROVE  \/ dir' = dir /\ missed' = missed \cup Own(p)
         \/ \E line \in {entry[p]} \cup Cut(entry[p]) :
               /\ line \in Entry /\ Opened(p) \in Seq(Entry)
               /\ Added(Opened(p), line) \in Seq(Entry)
               /\ missed' = IF line = entry[p] /\ Readable(Opened(p), line) THEN missed
                            ELSE missed \cup Own(p)
               /\ \/ /\ fd[p] = LogFile /\ Opened(p) = dir.log /\ dir'.backups = dir.backups
                     /\ dir' = [dir EXCEPT !.log = Added(Opened(p), line)]
                  \/ \E s \in DOMAIN dir.backups :
                        /\ fd[p] = Backup(s) /\ dir'.log = dir.log
                        /\ dir' = [dir EXCEPT !.backups =
                                     [dir.backups EXCEPT ![s] = Added(Opened(p), line)]]
  <1>0. SUFFICES ASSUME ~(dir' = dir /\ missed' = missed \cup Own(p))
                 PROVE  \E line \in {entry[p]} \cup Cut(entry[p]) :
                           /\ line \in Entry /\ Opened(p) \in Seq(Entry)
                           /\ Added(Opened(p), line) \in Seq(Entry)
                           /\ missed' = IF line = entry[p] /\ Readable(Opened(p), line)
                                        THEN missed ELSE missed \cup Own(p)
                           /\ \/ /\ fd[p] = LogFile /\ Opened(p) = dir.log
                                 /\ dir'.backups = dir.backups
                                 /\ dir' = [dir EXCEPT !.log = Added(Opened(p), line)]
                              \/ \E s \in DOMAIN dir.backups :
                                    /\ fd[p] = Backup(s) /\ dir'.log = dir.log
                                    /\ dir' = [dir EXCEPT !.backups =
                                         [dir.backups EXCEPT ![s] = Added(Opened(p), line)]]
    OBVIOUS
  <1>1. Log /\ Plain /\ Descriptors /\ Entries
    BY Parts
  <1>2. PICK line \in {entry[p]} \cup Cut(entry[p]) :
           /\ fd[p] # Gone
           /\ dir' = IF fd[p] = LogFile THEN [dir EXCEPT !.log = Added(Opened(p), line)]
                     ELSE [dir EXCEPT !.backups[fd[p][2]] = Added(Opened(p), line)]
           /\ missed' = IF line = entry[p] /\ Readable(Opened(p), line) THEN missed
                        ELSE missed \cup Own(p)
    BY <1>0 DEF AppendEntry
  <1>3. entry[p] \in Entry /\ line \in Entry /\ fd[p] \notin {NoFile, TmpFile, StateFile}
    <2>1. entry[p] \in Entry /\ fd[p] \notin {NoFile, TmpFile, StateFile}
      BY <1>1 DEF AppendEntry, Entries, Carried, Logging, Descriptors, Placed
    <2> QED BY <1>2, <2>1, CutTyped
  <1>4. CASE fd[p] = LogFile
    <2>1. Opened(p) = dir.log /\ Opened(p) \in Seq(Entry)
      BY <1>1, <1>4 DEF Opened, Descriptors, Placed
    <2>2. Added(Opened(p), line) \in Seq(Entry)
      BY <1>3, <2>1, AddedTyped
    <2>3. dir' = [dir EXCEPT !.log = Added(Opened(p), line)] /\ dir'.backups = dir.backups
      BY <1>1, <1>2, <1>4 DEF Log
    <2> QED BY <1>2, <1>3, <1>4, <2>1, <2>2, <2>3
  <1>5. CASE fd[p] # LogFile
    <2>1. PICK s \in 0..second : fd[p] = Backup(s) /\ s \in DOMAIN dir.backups
      BY <1>1, <1>2, <1>3, <1>5 DEF Descriptors, Named, Placed
    <2>2. fd[p][2] = s
      BY <2>1, FileNames
    <2>3. Opened(p) = dir.backups[s] /\ Opened(p) \in Seq(Entry)
      BY <1>1, <1>5, <2>1, <2>2 DEF Opened, Log
    <2>4. Added(Opened(p), line) \in Seq(Entry)
      BY <1>3, <2>3, AddedTyped
    <2> DEFINE new == Added(Opened(p), line)
    <2>5. dir' = [dir EXCEPT !.backups[s] = new]
      BY <1>2, <1>5, <2>2
    <2> HIDE DEF new
    <2>6. dir' = [dir EXCEPT !.backups = [dir.backups EXCEPT ![s] = new]] /\ dir'.log = dir.log
      BY <1>1, <2>5 DEF Log
    <2> QED BY <1>2, <1>3, <2>1, <2>3, <2>4, <2>6 DEF new
  <1> QED BY <1>4, <1>5

LEMMA LogKept == ASSUME TypeInv, NEW p \in Proc, Step(p) PROVE Log'
  <1>1. Log /\ Plain /\ Descriptors /\ Copies
    BY Parts
  <1>2. CASE RotateLog(p) /\ ~UNCHANGED <<dir, second>>
    <2>1. /\ second' \in Nat /\ second =< second' /\ dir' = Rotated(dir, second')
          /\ dir.log \in Seq(Entry)
      BY <1>1, <1>2 DEF RotateLog, Plain, Log, Exists
    <2> QED BY <1>1, <2>1 DEF Rotated, Log, Plain
  <1>3. CASE TrimBackups(p)
    <2>1. PICK removed : dir' = Trimmed(dir, removed) /\ second' = second
      BY <1>3 DEF TrimBackups
    <2>2. DOMAIN dir.backups \ removed \subseteq DOMAIN dir.backups
      OBVIOUS
    <2> QED BY <1>1, <2>1, <2>2 DEF Trimmed, Log
  <1>4. CASE OpenLog(p) /\ dir' # dir
    <2>1. dir' = [dir EXCEPT !.log = IF dir.log = Missing THEN <<>> ELSE dir.log]
          /\ second' = second
      BY <1>1, <1>4 DEF OpenLog, Log
    <2>2. <<>> \in Seq(Entry)
      OBVIOUS
    <2> QED BY <1>1, <2>1, <2>2 DEF Log
  <1>5. CASE AppendEntry(p) /\ dir' # dir
    <2>1. second' = second
      BY <1>5 DEF AppendEntry
    <2>2. PICK lines \in Seq(Entry) :
             \/ dir' = [dir EXCEPT !.log = lines]
             \/ \E s \in DOMAIN dir.backups :
                   dir' = [dir EXCEPT !.backups = [dir.backups EXCEPT ![s] = lines]]
      BY <1>5, AppendEffect
    <2> QED BY <1>1, <2>1, <2>2 DEF Log
  <1>6. CASE SwapLog(p) /\ dir' # dir
    <2>1. dir' = [dir EXCEPT !.log = copy[p]] /\ copy[p] \in Seq(Entry) /\ second' = second
      BY <1>1, <1>6 DEF SwapLog, Copies
    <2> QED BY <1>1, <2>1 DEF Log
  <1>7. CASE UNCHANGED <<dir, second>>
    BY <1>1, <1>7 DEF Log
  <1>8. \/ RotateLog(p)
        \/ TrimBackups(p) \/ OpenLog(p) \/ AppendEntry(p) \/ SwapLog(p)
        \/ UNCHANGED <<dir, second>>
    BY DEF Step, files, ghost, Invoke, Cleanup, LoadState, Stand, DenyByPolicy, CheckLimits,
       RecordUse, StatLog, OpenState, WriteState, RenameState, FilterLog, Exit, Crash,
       Starts, Forget
  <1>9. OpenLog(p) \/ AppendEntry(p) \/ SwapLog(p) => second' = second
    BY DEF OpenLog, AppendEntry, SwapLog
  <1> QED BY <1>2, <1>3, <1>4, <1>5, <1>6, <1>7, <1>8, <1>9

LEMMA CopiesKept == ASSUME TypeInv, NEW p \in Proc, Step(p) PROVE Copies'
  <1>1. Copies /\ Log /\ IInv
    BY Parts
  <1>2. CASE FilterLog(p)
    <2> DEFINE entries == IF Exists(dir) THEN dir.log ELSE <<>>
    <2>1. entries \in Seq(Entry)
      BY <1>1 DEF Exists, Log
    <2>2. Filtered(entries, now) \in Seq(Entry)
      BY <1>1, <2>1, FilteredYoung DEF IInv
    <2>3. copy' \in {copy, [copy EXCEPT ![p] = Filtered(entries, now)]}
      BY <1>2 DEF FilterLog
    <2> HIDE DEF entries
    <2> QED BY <1>1, <2>2, <2>3 DEF Copies
  <1>3. CASE copy' = [copy EXCEPT ![p] = <<>>]
    BY <1>1, <1>3 DEF Copies
  <1>4. CASE UNCHANGED copy
    BY <1>1, <1>4 DEF Copies
  <1>5. FilterLog(p) \/ copy' = [copy EXCEPT ![p] = <<>>] \/ UNCHANGED copy
    BY DEF Step, Invoke, Cleanup, LoadState, Stand, DenyByPolicy, CheckLimits, RecordUse,
       StatLog, RotateLog, TrimBackups, OpenLog, AppendEntry, OpenState, WriteState,
       RenameState, SwapLog, Exit, Crash, Forget
  <1> QED BY <1>2, <1>3, <1>4, <1>5

LEMMA EntriesKept == ASSUME TypeInv, NEW p \in Proc, Step(p) PROVE Entries'
  <1>1. Entries /\ Control /\ Plain /\ Log /\ IInv
    BY Parts
  <1>2. CASE DenyByPolicy(p) \/ CheckLimits(p)
    <2>1. todo[p] # <<>> /\ Verdict(p) \in {"denied", "allowed"}
      BY <1>2 DEF DenyByPolicy, CheckLimits
    <2>2. PICK allowed \in BOOLEAN : entry' = [entry EXCEPT ![p] = NewEntry(p, allowed)]
      <3>1. Within(ResetIfExpired(mem[p], now), FoundToken(cmd[p]).code) \in BOOLEAN
        BY DEF Within
      <3> QED BY <1>2, <3>1 DEF DenyByPolicy, CheckLimits
    <2>3. NewEntry(p, allowed) \in Entry
      <3>1. FoundToken(cmd[p]).code \in Code
        BY <2>1, NamedCode
      <3>2. run[p] \in Nat /\ Len(todo[p]) \in Nat /\ now \in Nat
        BY <1>1 DEF Plain, Control, IInv
      <3> QED BY <3>1, <3>2 DEF NewEntry, Entry
    <2>4. /\ todo' = todo
          /\ pc' \in {[pc EXCEPT ![p] = "stat"], [pc EXCEPT ![p] = "record"]}
      BY <1>2 DEF DenyByPolicy, CheckLimits
    <2> QED BY <1>1, <2>1, <2>2, <2>3, <2>4 DEF Entries, Carried, Pending, Logging, Control
  <1>3. CASE AppendEntry(p) \/ (OpenLog(p) /\ Logged(p)) \/ Exit(p) \/ Crash(p)
    <2>1. /\ pc' \in {[pc EXCEPT ![p] = "check"], [pc EXCEPT ![p] = "idle"]}
          /\ entry' = [entry EXCEPT ![p] = NoEntry]
          /\ \A q \in Proc \ {p} : todo'[q] = todo[q]
      BY <1>1, <1>3 DEF AppendEntry, Logged, Exit, Crash, Forget, Control
    <2> QED BY <1>1, <2>1 DEF Entries, Carried, Pending, Logging, Control
  <1>4. CASE \/ RecordUse(p) \/ StatLog(p) \/ RotateLog(p) \/ TrimBackups(p)
             \/ (OpenLog(p) /\ ~Logged(p))
    <2>1. UNCHANGED <<entry, todo>>
      BY <1>4 DEF RecordUse, StatLog, RotateLog, TrimBackups, OpenLog
    <2>2. /\ pc' \in [Proc -> Places]
          /\ \A q \in Proc \ {p} : pc'[q] = pc[q]
          /\ pc'[p] \in Logging => pc[p] \in Logging
      BY <1>1, <1>4, PlacesKept DEF RecordUse, StatLog, RotateLog, TrimBackups, OpenLog,
         Control, Logging, Step
    <2> QED BY <1>1, <2>1, <2>2 DEF Entries, Carried, Pending
  <1>5. CASE \/ Invoke(p) \/ Cleanup(p) \/ LoadState(p) \/ Stand(p) \/ OpenState(p)
             \/ WriteState(p) \/ RenameState(p) \/ FilterLog(p) \/ SwapLog(p)
    <2>1. /\ entry' = entry
          /\ \A q \in Proc \ {p} : todo'[q] = todo[q]
          /\ \/ pc' = pc /\ pc[p] = "check"
             \/ pc' \in {[pc EXCEPT ![p] = "check"], [pc EXCEPT ![p] = "load"],
                         [pc EXCEPT ![p] = "prune"], [pc EXCEPT ![p] = "write"],
                         [pc EXCEPT ![p] = "rename"], [pc EXCEPT ![p] = "exit"],
                         [pc EXCEPT ![p] = "swap"]}
      BY <1>1, <1>5 DEF Invoke, Cleanup, LoadState, Stand, OpenState, WriteState, RenameState,
         FilterLog, SwapLog, Control, ghost
    <2> QED BY <1>1, <2>1 DEF Entries, Carried, Pending, Logging, Control
  <1> QED BY <1>2, <1>3, <1>4, <1>5 DEF Step

LEMMA DescriptorsKept == ASSUME TypeInv, NEW p \in Proc, Step(p) PROVE Descriptors'
  <1>1. Descriptors /\ Control /\ Plain /\ Log
    BY Parts
  <1> DEFINE Names == {NoFile, Gone, TmpFile, StateFile, LogFile}
  <1>2. CASE RotateLog(p) /\ ~UNCHANGED <<fd, dir, second>>
    <2>1. /\ second' \in Nat /\ second =< second' /\ dir' = Rotated(dir, second')
          /\ fd' = Renamed(LogFile, Backup(second'))
          /\ pc' = [pc EXCEPT ![p] = "trim"]
      BY <1>1, <1>2 DEF RotateLog, Plain
    <2>2. DOMAIN dir'.backups = DOMAIN dir.backups \cup {second'}
      BY <2>1 DEF Rotated
    <2>3. ASSUME NEW q \in Proc PROVE (Named(q) /\ Placed(q))'
      <3>1. Named(q) /\ Placed(q)
        BY <1>1 DEF Descriptors
      <3>2. fd'[q] = IF fd[q] = LogFile THEN Backup(second')
                     ELSE IF fd[q] = Backup(second') THEN Gone ELSE fd[q]
        BY <2>1, FileNames DEF Renamed
      <3>3. CASE fd[q] = LogFile
        BY <2>1, <2>2, <3>2, <3>3, <1>1, FileNames DEF Named, Placed, Control
      <3>4. CASE fd[q] # LogFile /\ fd[q] = Backup(second')
        BY <2>1, <2>2, <3>2, <3>4, <1>1, FileNames DEF Named, Placed, Control
      <3>5. CASE fd[q] # LogFile /\ fd[q] # Backup(second')
        <4>1. fd'[q] = fd[q]
          BY <3>2, <3>5
        <4>2. 0..second \subseteq 0..second'
          BY <1>1, <2>1 DEF Plain
        <4>3. Named(q)'
          BY <3>1, <4>1, <4>2 DEF Named
        <4>4. \A s \in 0..second' : fd[q] = Backup(s) => s \in 0..second
          BY <3>1, FileNames DEF Named
        <4> QED BY <1>1, <2>1, <2>2, <3>1, <3>5, <4>1, <4>3, <4>4 DEF Placed, Control
      <3> QED BY <3>3, <3>4, <3>5
    <2>4. DOMAIN fd' = Proc
      BY <2>1 DEF Renamed
    <2> QED BY <2>3, <2>4 DEF Descriptors
  <1>3. CASE TrimBackups(p)
    <2>1. PICK removed :
             /\ dir' = Trimmed(dir, removed) /\ second' = second
             /\ fd' = Removed({Backup(s) : s \in removed})
             /\ pc' \in {[pc EXCEPT ![p] = "openlog"], [pc EXCEPT ![p] = "filter"],
                         [pc EXCEPT ![p] = "exit"]}
      BY <1>3 DEF TrimBackups
    <2>2. dir'.log = dir.log /\ DOMAIN dir'.backups = DOMAIN dir.backups \ removed
      BY <1>1, <2>1 DEF Trimmed, Log
    <2>3. \A q \in Proc : /\ fd'[q] \in {fd[q], Gone}
                          /\ \A s \in removed : fd'[q] # Backup(s)
      BY <2>1, FileNames DEF Removed
    <2>4. \A q \in Proc : (Named(q) /\ Placed(q))'
      BY <1>1, <2>1, <2>2, <2>3, FileNames DEF Descriptors, Named, Placed, Control
    <2>5. DOMAIN fd' = Proc
      BY <2>1 DEF Removed
    <2> QED BY <2>4, <2>5 DEF Descriptors
  <1>4. CASE SwapLog(p) /\ ~UNCHANGED <<fd, dir, second>>
    <2>1. /\ dir' = [dir EXCEPT !.log = copy[p]] /\ second' = second
          /\ fd' = Removed({LogFile}) /\ pc' = [pc EXCEPT ![p] = "exit"]
      BY <1>4 DEF SwapLog
    <2>2. dir'.backups = dir.backups
      BY <1>1, <2>1 DEF Log
    <2>3. \A q \in Proc : fd'[q] \in {fd[q], Gone} /\ fd'[q] # LogFile
      BY <2>1, FileNames DEF Removed
    <2>4. \A q \in Proc : (Named(q) /\ Placed(q))'
      BY <1>1, <2>1, <2>2, <2>3, FileNames DEF Descriptors, Named, Placed, Control
    <2>5. DOMAIN fd' = Proc
      BY <2>1 DEF Removed
    <2> QED BY <2>4, <2>5 DEF Descriptors
  <1>5. CASE RenameState(p) /\ tmp # Missing
    <2>1. /\ fd' = Renamed(TmpFile, StateFile) /\ UNCHANGED <<dir, second>>
          /\ pc' = [pc EXCEPT ![p] = "exit"]
      BY <1>5 DEF RenameState
    <2>2. \A q \in Proc : /\ fd'[q] \in {fd[q], Gone, StateFile}
                          /\ pc[q] = "append" => fd'[q] = fd[q]
      BY <1>1, <2>1, FileNames DEF Renamed, Descriptors, Placed
    <2>3. \A q \in Proc : (Named(q) /\ Placed(q))'
      BY <1>1, <2>1, <2>2, FileNames DEF Descriptors, Named, Placed, Control
    <2>4. DOMAIN fd' = Proc
      BY <2>1 DEF Renamed
    <2> QED BY <2>3, <2>4 DEF Descriptors
  <1>6. CASE OpenLog(p) /\ ~Logged(p)
    <2>1. /\ dir' = [dir EXCEPT !.log = IF dir.log = Missing THEN <<>> ELSE dir.log]
          /\ fd' = [fd EXCEPT ![p] = LogFile] /\ pc' = [pc EXCEPT ![p] = "append"]
          /\ second' = second
      BY <1>1, <1>6 DEF OpenLog, Log
    <2>2. dir'.log \in Seq(Entry) /\ dir'.backups = dir.backups
      BY <1>1, <2>1 DEF Log
    <2> QED BY <1>1, <2>1, <2>2, FileNames DEF Descriptors, Named, Placed, Control
  <1>7. CASE AppendEntry(p)
    <2>1. /\ fd' = [fd EXCEPT ![p] = NoFile] /\ pc' = [pc EXCEPT ![p] = "check"]
          /\ second' = second /\ entry[p] \in Entry
      BY <1>7, Parts DEF AppendEntry, Logged, Entries, Carried, Logging
    <2>2. /\ DOMAIN dir'.backups = DOMAIN dir.backups
          /\ dir.log \in Seq(Entry) => dir'.log \in Seq(Entry)
      <3>1. CASE dir' # dir
        BY <1>1, <1>7, <3>1, AppendEffect DEF Log
      <3> QED BY <3>1
    <2> QED BY <1>1, <2>1, <2>2, FileNames DEF Descriptors, Named, Placed, Control
  <1>8. CASE OpenState(p) \/ WriteState(p) \/ Exit(p) \/ Crash(p)
    <2>1. /\ fd' \in {[fd EXCEPT ![p] = NoFile], [fd EXCEPT ![p] = TmpFile]}
          /\ pc' \in {[pc EXCEPT ![p] = "write"], [pc EXCEPT ![p] = "rename"],
                      [pc EXCEPT ![p] = "idle"]}
          /\ UNCHANGED <<dir, second>>
      BY <1>8 DEF OpenState, WriteState, Exit, Crash, Forget
    <2> QED BY <1>1, <2>1, FileNames DEF Descriptors, Named, Placed, Control
  <1>9. CASE UNCHANGED <<fd, dir, second>> /\ (OpenLog(p) => Logged(p))
    <2>1. \A q \in Proc : pc'[q] = "append" => pc[q] = "append"
      <3> DEFINE to(x) == pc' = [pc EXCEPT ![p] = x]
      <3>1. \/ UNCHANGED pc
            \/ to("idle") \/ to("load") \/ to("check") \/ to("record") \/ to("stat")
            \/ to("rotate") \/ to("trim") \/ to("openlog")
            \/ to("write") \/ to("rename") \/ to("exit") \/ to("prune")
            \/ to("filter") \/ to("swap")
        BY <1>9 DEF Step, files, ghost, Invoke, Cleanup, LoadState, Stand, DenyByPolicy,
           CheckLimits, RecordUse, StatLog, RotateLog, TrimBackups, AppendEntry, Logged,
           OpenState, WriteState, RenameState, FilterLog, SwapLog, Exit, Crash, Starts, Forget
      <3> QED BY <1>1, <3>1 DEF Control
    <2> QED BY <1>1, <1>9, <2>1 DEF Descriptors, Named, Placed
  <1>10. \/ RotateLog(p) \/ SwapLog(p)
         \/ RenameState(p) /\ tmp # Missing
         \/ TrimBackups(p) \/ OpenLog(p) \/ AppendEntry(p)
         \/ OpenState(p) \/ WriteState(p) \/ Exit(p) \/ Crash(p)
         \/ UNCHANGED <<fd, dir, second>>
    BY DEF Step, files, ghost, Invoke, Cleanup, LoadState, Stand, DenyByPolicy, CheckLimits,
       RecordUse, StatLog, RenameState, FilterLog, Starts
  <1>11. OpenLog(p) /\ Logged(p) => UNCHANGED <<fd, dir, second>>
    BY <1>1 DEF OpenLog, Logged, Control
  <1> QED BY <1>2, <1>3, <1>4, <1>5, <1>6, <1>7, <1>8, <1>9, <1>10, <1>11

LEMMA TypeStep == TypeInv /\ [Next]_vars => TypeInv'
  <1> SUFFICES ASSUME TypeInv, [Next]_vars PROVE TypeInv'
    OBVIOUS
  <1>1. IInv'
    BY StepGood DEF TypeInv
  <1>2. IInv /\ Plain /\ Log /\ Control /\ Descriptors /\ Entries /\ Copies /\ Uses
    BY Parts
  <1>3. CASE Tick \/ SetBack \/ UNCHANGED vars
    <2>1. UNCHANGED <<overlaps, second, dir, fd, pc, todo, cmd, entry, copy, used, run, runs,
                      counted, granted, missed>>
      BY <1>3 DEF Tick, SetBack, files, ghost, vars
    <2>2. Plain' /\ Log' /\ Control' /\ Copies' /\ Uses'
      BY <1>2, <2>1 DEF Plain, Log, Control, Copies, Uses
    <2>3. Descriptors' /\ Entries'
      BY <1>2, <2>1 DEF Descriptors, Entries, Named, Placed, Carried, Pending
    <2> QED BY <1>1, <2>2, <2>3, PartsPrimed
  <1>4. ASSUME NEW p \in Proc, Step(p) PROVE TypeInv'
    BY <1>1, <1>4, PartsPrimed, PlainKept, LogKept, ControlKept, DescriptorsKept, EntriesKept,
       CopiesKept, UsesKept
  <1> QED BY <1>3, <1>4 DEF Next

LEMMA TypeInit == Init => TypeInv
  <1> SUFFICES ASSUME Init PROVE TypeInv
    OBVIOUS
  <1>1. IInv
    BY InitGood
  <1>2. Plain /\ Control /\ Copies /\ Uses
    BY DEF Init, Plain, Control, Places, Copies, Uses
  <1>3. Log
    BY DEF Init, Log, NoLog
  <1>4. Descriptors
    BY FileNames DEF Init, Descriptors, Named, Placed
  <1>5. Entries
    BY DEF Init, Entries, Carried, Pending, Logging
  <1> QED BY <1>1, <1>2, <1>3, <1>4, <1>5, Parts

(* What a process carries, every entry of the log and its backups and every *)
(* use that is counted is of its type, also when processes overlap and the  *)
(* log is renamed and replaced under a descriptor (TypeOK).                 *)
THEOREM TypeCorrect == Spec => []TypeOK
  <1>1. TypeInv => TypeOK
    BY DEF TypeInv
  <1> QED BY <1>1, TypeInit, TypeStep, PTL DEF Spec

-----------------------------------------------------------------------------
\* Counting uses

(* What a limiter's state accounts for, it accounts for after a reset at    *)
(* any later time, which makes its windows those of that time.              *)
LEMMA AccountsReset ==
  ASSUME NEW st, Good(st), NEW uses \in SUBSET Use, Accounts(st, uses),
         NEW t \in Nat, st.hour =< t
  PROVE  /\ Accounts(ResetIfExpired(st, t), uses)
         /\ ResetIfExpired(st, t).hour = t /\ ResetIfExpired(st, t).day = DayOf(t)
  <1> DEFINE new == ResetIfExpired(st, t)
  <1>0. /\ st.hour \in Nat /\ st.day \in Nat /\ DayOf(st.hour) = st.day
        /\ \A u \in uses : u.at \in Nat /\ u.at =< st.hour
    BY DEF Good, RateState, Nested, Accounts, Use
  <1>1. /\ new.hour = IF t > st.hour THEN t ELSE st.hour
        /\ new.hourly = IF t > st.hour THEN None ELSE st.hourly
        /\ new.day = IF DayOf(t) > st.day THEN DayOf(t) ELSE st.day
        /\ new.daily = IF DayOf(t) > st.day THEN None ELSE st.daily
    BY DaysMonotonic DEF ResetIfExpired
  <1> HIDE DEF new
  <1>2. new.hour = t /\ new.day = DayOf(t)
    BY <1>0, <1>1, DaysMonotonic
  <1>3. Cardinality({}) = 0 /\ \A c : OfCode({}, c) = {}
    BY FS_EmptySet DEF OfCode
  <1>4. /\ new.hourly.all = Cardinality(InHour(uses, t))
        /\ \A c \in Code : new.hourly.of[c] = Cardinality(OfCode(InHour(uses, t), c))
    <2>1. CASE t > st.hour
      <3>1. InHour(uses, t) = {}
        BY <1>0, <2>1, DaysMonotonic DEF InHour
      <3> QED BY <1>1, <1>3, <2>1, <3>1, NoneTyped
    <2>2. CASE ~(t > st.hour)
      <3>1. t = st.hour /\ new.hourly = st.hourly
        BY <1>0, <1>1, <2>2
      <3> QED BY <3>1 DEF Accounts
    <2> QED BY <2>1, <2>2
  <1>5. /\ new.daily.all = Cardinality(InDay(uses, DayOf(t)))
        /\ \A c \in Code : new.daily.of[c] = Cardinality(OfCode(InDay(uses, DayOf(t)), c))
    <2>1. CASE DayOf(t) > st.day
      <3>1. \A u \in uses : DayOf(u.at) =< st.day /\ DayOf(u.at) \in Nat
        BY <1>0, DaysMonotonic
      <3>2. InDay(uses, DayOf(t)) = {}
        BY <1>0, <2>1, <3>1, DaysMonotonic DEF InDay
      <3> QED BY <1>1, <1>3, <2>1, <3>2, NoneTyped
    <2>2. CASE ~(DayOf(t) > st.day)
      <3>1. DayOf(t) = st.day /\ new.daily = st.daily
        BY <1>1, <1>2, <2>2
      <3> QED BY <3>1 DEF Accounts
    <2> QED BY <2>1, <2>2
  <1>6. \A u \in uses : u.at =< t
    BY <1>0
  <1> QED BY <1>2, <1>4, <1>5, <1>6 DEF Accounts, new

(* One more use is one more in its windows, and in those of its code.       *)
Grown(more, uses, u) ==
    /\ \A h : Cardinality(InHour(more, h)) =
                 IF HourOf(u.at) = h THEN Cardinality(InHour(uses, h)) + 1
                 ELSE Cardinality(InHour(uses, h))
    /\ \A d : Cardinality(InDay(more, d)) =
                 IF DayOf(u.at) = d THEN Cardinality(InDay(uses, d)) + 1
                 ELSE Cardinality(InDay(uses, d))
    /\ \A h, c : Cardinality(OfCode(InHour(more, h), c)) =
                 IF HourOf(u.at) = h /\ u.code = c
                 THEN Cardinality(OfCode(InHour(uses, h), c)) + 1
                 ELSE Cardinality(OfCode(InHour(uses, h), c))
    /\ \A d, c : Cardinality(OfCode(InDay(more, d), c)) =
                 IF DayOf(u.at) = d /\ u.code = c
                 THEN Cardinality(OfCode(InDay(uses, d), c)) + 1
                 ELSE Cardinality(OfCode(InDay(uses, d), c))

LEMMA OneMore ==
  ASSUME NEW uses, IsFiniteSet(uses), NEW u, u \notin uses
  PROVE  Grown(uses \cup {u}, uses, u)
  <1>1. ASSUME NEW S \in SUBSET uses
        PROVE  Cardinality(S \cup {u}) = Cardinality(S) + 1
    <2>1. IsFiniteSet(S) /\ u \notin S
      BY FS_Subset
    <2> QED BY <2>1, FS_AddElement
  <1>2. ASSUME NEW h
        PROVE  /\ InHour(uses, h) \in SUBSET uses
               /\ InHour(uses \cup {u}, h) =
                     IF HourOf(u.at) = h THEN InHour(uses, h) \cup {u} ELSE InHour(uses, h)
    BY DEF InHour
  <1>3. ASSUME NEW d
        PROVE  /\ InDay(uses, d) \in SUBSET uses
               /\ InDay(uses \cup {u}, d) =
                     IF DayOf(u.at) = d THEN InDay(uses, d) \cup {u} ELSE InDay(uses, d)
    BY DEF InDay
  <1>4. ASSUME NEW S \in SUBSET uses, NEW c
        PROVE  /\ OfCode(S, c) \in SUBSET uses
               /\ OfCode(S \cup {u}, c) =
                     IF u.code = c THEN OfCode(S, c) \cup {u} ELSE OfCode(S, c)
    BY DEF OfCode
  <1>5. ASSUME NEW h
        PROVE  Cardinality(InHour(uses \cup {u}, h)) =
                      IF HourOf(u.at) = h THEN Cardinality(InHour(uses, h)) + 1
                      ELSE Cardinality(InHour(uses, h))
    BY <1>1, <1>2
  <1>6. ASSUME NEW d
        PROVE  Cardinality(InDay(uses \cup {u}, d)) =
                      IF DayOf(u.at) = d THEN Cardinality(InDay(uses, d)) + 1
                      ELSE Cardinality(InDay(uses, d))
    BY <1>1, <1>3
  <1>7. ASSUME NEW h, NEW c
        PROVE  Cardinality(OfCode(InHour(uses \cup {u}, h), c)) =
                      IF HourOf(u.at) = h /\ u.code = c
                      THEN Cardinality(OfCode(InHour(uses, h), c)) + 1
                      ELSE Cardinality(OfCode(InHour(uses, h), c))
    <2>1. CASE HourOf(u.at) = h
      <3>1. InHour(uses \cup {u}, h) = InHour(uses, h) \cup {u}
        BY <1>2, <2>1
      <3>2. InHour(uses, h) \in SUBSET uses
        BY <1>2
      <3> QED BY <1>1, <1>4, <2>1, <3>1, <3>2
    <2>2. CASE HourOf(u.at) # h
      BY <1>2, <2>2
    <2> QED BY <2>1, <2>2
  <1>8. ASSUME NEW d, NEW c
        PROVE  Cardinality(OfCode(InDay(uses \cup {u}, d), c)) =
                      IF DayOf(u.at) = d /\ u.code = c
                      THEN Cardinality(OfCode(InDay(uses, d), c)) + 1
                      ELSE Cardinality(OfCode(InDay(uses, d), c))
    <2>1. CASE DayOf(u.at) = d
      <3>1. InDay(uses \cup {u}, d) = InDay(uses, d) \cup {u}
        BY <1>3, <2>1
      <3>2. InDay(uses, d) \in SUBSET uses
        BY <1>3
      <3> QED BY <1>1, <1>4, <2>1, <3>1, <3>2
    <2>2. CASE DayOf(u.at) # d
      BY <1>3, <2>2
    <2> QED BY <2>1, <2>2
  <1> QED BY <1>5, <1>6, <1>7, <1>8 DEF Grown

(* Windows of finitely many uses have natural numbers of them.              *)
LEMMA WindowsFinite ==
  ASSUME NEW uses, IsFiniteSet(uses)
  PROVE  \A h, c : /\ IsFiniteSet(InHour(uses, h)) /\ IsFiniteSet(InDay(uses, h))
                   /\ Cardinality(InHour(uses, h)) \in Nat
                   /\ Cardinality(InDay(uses, h)) \in Nat
                   /\ Cardinality(OfCode(InHour(uses, h), c)) \in Nat
                   /\ Cardinality(OfCode(InDay(uses, h), c)) \in Nat
                   /\ IsFiniteSet(OfCode(InHour(uses, h), c))
                   /\ IsFiniteSet(OfCode(InDay(uses, h), c))
  <1>1. ASSUME NEW S \in SUBSET uses PROVE IsFiniteSet(S) /\ Cardinality(S) \in Nat
    BY FS_Subset, FS_CardinalityType
  <1>2. \A h, c : /\ InHour(uses, h) \in SUBSET uses /\ InDay(uses, h) \in SUBSET uses
                  /\ OfCode(InHour(uses, h), c) \in SUBSET uses
                  /\ OfCode(InDay(uses, h), c) \in SUBSET uses
    BY DEF InHour, InDay, OfCode
  <1> QED BY <1>1, <1>2

(* A recorded use is accounted for.                                         *)
LEMMA AccountsRecord ==
  ASSUME NEW st, Good(st), NEW uses \in SUBSET Use, IsFiniteSet(uses), Accounts(st, uses),
         NEW u \in Use, u \notin uses, st.hour =< u.at
  PROVE  /\ Accounts(Record(st, u.code, u.at), uses \cup {u})
         /\ Record(st, u.code, u.at).hour = u.at
  <1> DEFINE fresh == ResetIfExpired(st, u.at)
             new == Record(st, u.code, u.at)
             more == uses \cup {u}
  <1>0. u.at \in Nat /\ u.code \in Code
    BY DEF Use
  <1>1. Accounts(fresh, uses) /\ fresh.hour = u.at /\ fresh.day = DayOf(u.at) /\ Good(fresh)
    BY <1>0, AccountsReset, ResetGood
  <1>2. /\ new.hour = u.at /\ new.day = DayOf(u.at)
        /\ new.hourly = Bumped(fresh.hourly, u.code) /\ new.daily = Bumped(fresh.daily, u.code)
    <2>1. fresh \in RateState
      BY <1>1 DEF Good
    <2>2. new = [fresh EXCEPT !.hourly = Bumped(fresh.hourly, u.code),
                              !.daily = Bumped(fresh.daily, u.code)]
      BY DEF Record
    <2> HIDE DEF fresh, new
    <2> QED BY <1>1, <2>1, <2>2 DEF RateState
  <1> HIDE DEF fresh, new
  <1>3. \A counts \in Counts : /\ Bumped(counts, u.code).all = counts.all + 1
                               /\ \A c \in Code : Bumped(counts, u.code).of[c] =
                                     IF c = u.code THEN counts.of[c] + 1 ELSE counts.of[c]
    BY DEF Bumped, Counts
  <1>4. fresh.hourly \in Counts /\ fresh.daily \in Counts
    BY <1>1 DEF Good, RateState
  <1>5. HourOf(u.at) = u.at
    BY DEF HourOf
  <1>9. Grown(more, uses, u)
    BY OneMore
  <1> HIDE DEF more
  <1>6. /\ new.hourly.all = Cardinality(InHour(more, u.at))
        /\ new.daily.all = Cardinality(InDay(more, DayOf(u.at)))
    BY <1>1, <1>2, <1>3, <1>4, <1>5, <1>9 DEF Accounts, Grown
  <1>7. ASSUME NEW c \in Code
        PROVE  /\ new.hourly.of[c] = Cardinality(OfCode(InHour(more, u.at), c))
               /\ new.daily.of[c] = Cardinality(OfCode(InDay(more, DayOf(u.at)), c))
    BY <1>1, <1>2, <1>3, <1>4, <1>5, <1>9 DEF Accounts, Grown
  <1>8. \A v \in more : v.at =< u.at
    BY <1>0, <1>1 DEF Accounts, more
  <1> QED BY <1>2, <1>6, <1>7, <1>8 DEF Accounts, new, more

(* A use the limiter found room for leaves every window within the limits,  *)
(* also when it is recorded in a later window than it was checked in.       *)
LEMMA LimitedRecord ==
  ASSUME NEW st, Good(st), NEW uses \in SUBSET Use, IsFiniteSet(uses), Accounts(st, uses),
         NEW u \in Use, u \notin uses, st.hour =< u.at,
         Within(st, u.code), Limited(uses)
  PROVE  Limited(uses \cup {u})
  <1> DEFINE fresh == ResetIfExpired(st, u.at)
             more == uses \cup {u}
             c == u.code
  <1>0. u.at \in Nat /\ c \in Code /\ HourOf(u.at) = u.at
    BY DEF Use, HourOf
  <1>1. Accounts(fresh, uses) /\ fresh.hour = u.at /\ fresh.day = DayOf(u.at)
    BY <1>0, AccountsReset
  <1> SUFFICES ASSUME RateEnabled PROVE Limited(more)
    BY DEF Limited
  <1>2. MaxPerHour \in Nat /\ MaxPerDay \in Nat
    BY RateAssumption
  <1>3. \A d \in Code : PolicyOf(d).perHour \in Nat /\ PolicyOf(d).perDay \in Nat
    BY PolicyAssumption DEF PolicyOf, PolicyType, DefaultPolicy
  <1>4. /\ Below(fresh.hourly.all, MaxPerHour) /\ Below(fresh.daily.all, MaxPerDay)
        /\ Below(fresh.hourly.of[c], PolicyOf(c).perHour)
        /\ Below(fresh.daily.of[c], PolicyOf(c).perDay)
    <2>1. fresh.hourly \in {st.hourly, None} /\ fresh.daily \in {st.daily, None}
      BY DEF ResetIfExpired
    <2>2. \A limit \in Nat : Below(0, limit)
      BY DEF Below
    <2> HIDE DEF fresh
    <2> QED BY <1>0, <1>2, <1>3, <2>1, <2>2, NoneTyped DEF Within
  <1>5. /\ Below(Cardinality(InHour(uses, u.at)), MaxPerHour)
        /\ Below(Cardinality(InDay(uses, DayOf(u.at))), MaxPerDay)
        /\ Below(Cardinality(OfCode(InHour(uses, u.at), c)), PolicyOf(c).perHour)
        /\ Below(Cardinality(OfCode(InDay(uses, DayOf(u.at)), c)), PolicyOf(c).perDay)
    BY <1>0, <1>1, <1>4 DEF Accounts
  <1>9. Grown(more, uses, u)
    BY OneMore
  <1> HIDE DEF fresh, c, more
  <1>6. ASSUME NEW t \in Nat
        PROVE  ~Exceeds(InHour(more, t), MaxPerHour) /\ ~Exceeds(InDay(more, t), MaxPerDay)
    <2>1. ~Exceeds(InHour(uses, t), MaxPerHour) /\ ~Exceeds(InDay(uses, t), MaxPerDay)
      BY DEF Limited
    <2>2. Cardinality(InHour(uses, t)) \in Nat /\ Cardinality(InDay(uses, t)) \in Nat
      BY WindowsFinite
    <2>3. ~Exceeds(InHour(more, t), MaxPerHour)
      <3>1. Cardinality(InHour(more, t)) = IF u.at = t THEN Cardinality(InHour(uses, t)) + 1
                                           ELSE Cardinality(InHour(uses, t))
        BY <1>0, <1>9 DEF Grown
      <3> QED BY <1>2, <1>5, <2>1, <2>2, <3>1 DEF Exceeds, Below
    <2>4. ~Exceeds(InDay(more, t), MaxPerDay)
      <3>1. Cardinality(InDay(more, t)) = IF DayOf(u.at) = t THEN Cardinality(InDay(uses, t)) + 1
                                          ELSE Cardinality(InDay(uses, t))
        BY <1>9 DEF Grown
      <3> QED BY <1>2, <1>5, <2>1, <2>2, <3>1 DEF Exceeds, Below
    <2> QED BY <2>3, <2>4
  <1>7. ASSUME NEW t \in Nat, NEW d \in Code
        PROVE  /\ ~Exceeds(OfCode(InHour(more, t), d), PolicyOf(d).perHour)
               /\ ~Exceeds(OfCode(InDay(more, t), d), PolicyOf(d).perDay)
    <2>1. /\ ~Exceeds(OfCode(InHour(uses, t), d), PolicyOf(d).perHour)
          /\ ~Exceeds(OfCode(InDay(uses, t), d), PolicyOf(d).perDay)
      BY DEF Limited
    <2>2. /\ Cardinality(OfCode(InHour(uses, t), d)) \in Nat
          /\ Cardinality(OfCode(InDay(uses, t), d)) \in Nat
      BY WindowsFinite
    <2>3. ~Exceeds(OfCode(InHour(more, t), d), PolicyOf(d).perHour)
      <3>1. Cardinality(OfCode(InHour(more, t), d)) =
               IF u.at = t /\ c = d THEN Cardinality(OfCode(InHour(uses, t), d)) + 1
               ELSE Cardinality(OfCode(InHour(uses, t), d))
        BY <1>0, <1>9 DEF c, Grown
      <3> QED BY <1>3, <1>5, <2>1, <2>2, <3>1 DEF Exceeds, Below
    <2>4. ~Exceeds(OfCode(InDay(more, t), d), PolicyOf(d).perDay)
      <3>1. Cardinality(OfCode(InDay(more, t), d)) =
               IF DayOf(u.at) = t /\ c = d THEN Cardinality(OfCode(InDay(uses, t), d)) + 1
               ELSE Cardinality(OfCode(InDay(uses, t), d))
        BY <1>9 DEF c, Grown
      <3> QED BY <1>3, <1>5, <2>1, <2>2, <3>1 DEF Exceeds, Below
    <2> QED BY <2>3, <2>4
  <1>8. Limited(more)
    BY <1>6, <1>7 DEF Limited
  <1> QED BY <1>8 DEF more

-----------------------------------------------------------------------------
\* The limits are kept, step by step

(* A hook at work, and its uses, or a process slot that has none.           *)
Fine(p) == IF Idle(p) THEN used[p] = {} ELSE Working(p) /\ IsFiniteSet(used[p])

(* While one process is at work the other slots stay as they are.           *)
LEMMA OthersIdle ==
  ASSUME TypeInv, LimitInv, ~overlaps, NEW p \in Proc, Step(p)
  PROVE  \A q \in Proc \ {p} : Idle(q) /\ pc'[q] = pc[q] /\ used'[q] = used[q]
  <1>1. Control /\ Uses
    BY Parts
  <1>2. Alone /\ \A q \in Proc : Fine(q)
    BY DEF LimitInv, Fine
  <1>3. \A q \in Proc \ {p} : Idle(q)
    <2>1. CASE Invoke(p) \/ Cleanup(p)
      BY <2>1 DEF Invoke, Cleanup, Starts
    <2>2. CASE ~Idle(p)
      BY <1>2, <2>2 DEF Alone
    <2>3. ~Idle(p) \/ Invoke(p) \/ Cleanup(p)
      BY DEF Step, files, ghost, LoadState, Stand, DenyByPolicy, CheckLimits, RecordUse,
         StatLog, RotateLog, TrimBackups, OpenLog, AppendEntry, Logged, OpenState, WriteState,
         RenameState, FilterLog, SwapLog, Exit, Crash, Forget, Idle
    <2> QED BY <2>1, <2>2, <2>3
  <1>4. \A q \in Proc \ {p} : pc'[q] = pc[q] /\ used'[q] = used[q]
    <2> DEFINE to(x) == pc' = [pc EXCEPT ![p] = x]
    <2>1. \/ UNCHANGED pc
          \/ to("idle") \/ to("load") \/ to("check") \/ to("record") \/ to("stat")
          \/ to("rotate") \/ to("trim") \/ to("openlog")
          \/ to("append") \/ to("write") \/ to("rename") \/ to("exit") \/ to("prune")
          \/ to("filter") \/ to("swap")
      BY DEF Step, files, ghost, Invoke, Cleanup, LoadState, Stand, DenyByPolicy, CheckLimits,
         RecordUse, StatLog, RotateLog, TrimBackups, OpenLog, AppendEntry, Logged, OpenState,
         WriteState, RenameState, FilterLog, SwapLog, Exit, Crash, Starts, Forget
    <2>2. \A q \in Proc \ {p} : pc'[q] = pc[q]
      BY <1>1, <2>1 DEF Control
    <2>3. \A q \in Proc \ {p} : used'[q] = used[q]
      <3>1. CASE RecordUse(p) \/ Exit(p) \/ Crash(p)
        BY <1>1, <3>1 DEF RecordUse, Exit, Crash, Forget, Uses
      <3>2. CASE UNCHANGED used
        BY <3>2
      <3>3. RecordUse(p) \/ Exit(p) \/ Crash(p) \/ UNCHANGED used
        BY DEF Step, files, ghost, Invoke, Cleanup, LoadState, Stand, DenyByPolicy,
           CheckLimits, StatLog, RotateLog, TrimBackups, OpenLog, AppendEntry, Logged,
           OpenState, WriteState, RenameState, FilterLog, SwapLog, Starts
      <3> QED BY <3>1, <3>2, <3>3
    <2> QED BY <2>2, <2>3
  <1> QED BY <1>3, <1>4

LEMMA OneAtWork ==
  ASSUME TypeInv, LimitInv, ~overlaps, NEW p \in Proc, Step(p), Saved', Fine(p)'
  PROVE  LimitInv'
  <1>1. \A q \in Proc : Fine(q)
    BY DEF LimitInv, Fine
  <1>2. \A q \in Proc \ {p} : Idle(q)' /\ Fine(q)'
    BY <1>1, OthersIdle DEF Idle, Fine
  <1>3. Alone'
    BY <1>2 DEF Alone
  <1> QED BY <1>2, <1>3 DEF LimitInv, Fine

(* A step that leaves what is published alone.                              *)
LEMMA SavedStays ==
  ASSUME Saved, now \in Nat, TypeInv, now' = now, runs' \in {runs, runs + 1},
         UNCHANGED <<state, counted, granted>>
  PROVE  Saved'
  <1>1. \A u \in counted : u.run =< runs'
    <2>1. Plain /\ \A u \in counted : u.run \in Nat
      BY Parts DEF Plain, Use
    <2> QED BY <2>1 DEF Saved, Plain
  <1> QED BY <1>1 DEF Saved

(* What is at work and saved, together.                                     *)
LEMMA AtWork ==
  ASSUME TypeInv, LimitInv, ~overlaps, NEW p \in Proc, ~Idle(p)
  PROVE  /\ Working(p) /\ Saved /\ now \in Nat /\ Good(mem[p])
         /\ counted \cup used[p] \in SUBSET Use /\ IsFiniteSet(counted \cup used[p])
         /\ counted \in SUBSET Use /\ IsFiniteSet(counted) /\ IsFiniteSet(used[p])
         /\ todo[p] \in Seq(Errors) /\ Len(todo[p]) \in Nat
         /\ \A u \in counted \cup used[p] : u.left \in Nat /\ u.run \in Nat
  <1>1. Working(p) /\ Saved /\ IsFiniteSet(used[p]) /\ IsFiniteSet(counted)
    BY DEF LimitInv, Saved
  <1>2. IInv /\ Uses /\ Plain /\ Control
    BY Parts
  <1>3. counted \cup used[p] \in SUBSET Use
    BY <1>2 DEF Uses, Plain
  <1>4. IsFiniteSet(counted \cup used[p])
    BY <1>1, FS_Union
  <1>5. todo[p] \in Seq(Errors) /\ Len(todo[p]) \in Nat
    BY <1>2 DEF Control
  <1> QED BY <1>1, <1>2, <1>3, <1>4, <1>5 DEF IInv, Use

LEMMA StartLimits ==
  ASSUME TypeInv, LimitInv, ~overlaps, NEW p \in Proc, Invoke(p) \/ Cleanup(p)
  PROVE  Saved' /\ Fine(p)'
  <1>1. /\ runs' = runs + 1 /\ run'[p] = runs + 1 /\ pc'[p] \in {"load", "prune"}
        /\ UNCHANGED <<now, state, counted, granted, used>> /\ Idle(p)
    <2>1. Plain /\ Control
      BY Parts
    <2> QED BY <2>1 DEF Invoke, Cleanup, Starts, files, ghost, Plain, Control
  <1>2. Saved /\ used[p] = {} /\ runs \in Nat /\ now \in Nat /\ \A u \in counted : u.run \in Nat
    BY <1>1, Parts DEF LimitInv, Plain, IInv, Use
  <1>3. Saved'
    BY <1>1, <1>2, SavedStays
  <1>4. \A u \in counted' : u.run < runs'
    BY <1>1, <1>2 DEF Saved
  <1>5. Limited(counted' \cup used'[p])
    <2>1. counted' \cup used'[p] = counted
      BY <1>1, <1>2
    <2> QED BY <1>2, <2>1 DEF Saved
  <1>6. used'[p] = {}
    BY <1>1, <1>2
  <1>7. Working(p)'
    BY <1>1, <1>4, <1>5, <1>6 DEF Working, Counting
  <1> QED BY <1>3, <1>6, <1>7, FS_EmptySet DEF Fine

LEMMA LoadLimits ==
  ASSUME TypeInv, LimitInv, ~overlaps, NEW p \in Proc, LoadState(p)
  PROVE  Saved' /\ Fine(p)'
  <1>1. ~Idle(p)
    BY DEF LoadState, Idle
  <1>2. /\ Working(p) /\ Saved /\ now \in Nat /\ counted \in SUBSET Use /\ used[p] = {}
        /\ IsFiniteSet(counted)
    BY <1>1, AtWork DEF LoadState, Working
  <1>3. /\ pc[p] = "load" /\ pc'[p] = "check"
        /\ UNCHANGED <<now, state, counted, granted, used, run, runs, todo>>
        /\ mem'[p] = IF state \in {Missing, Torn} THEN FreshState(now)
                     ELSE ResetIfExpired(state, now)
    <2>1. Control /\ IInv
      BY Parts
    <2> QED BY <2>1 DEF LoadState, files, ghost, Control, IInv
  <1>4. Saved'
    BY <1>2, <1>3, SavedStays
  <1>5. Accounts(mem'[p], counted) /\ mem'[p].hour = now
    <2>1. CASE state = Missing
      <3>1. counted = {}
        BY <1>2, <2>1 DEF Saved
      <3>2. mem'[p] = FreshState(now)
        BY <1>3, <2>1
      <3>3. /\ \A h : InHour({}, h) = {} /\ InDay({}, h) = {}
            /\ \A c : OfCode({}, c) = {}
        BY DEF InHour, InDay, OfCode
      <3>4. /\ FreshState(now).hour = now /\ FreshState(now).hourly = None
            /\ FreshState(now).daily = None
        BY <1>2, DaysMonotonic DEF FreshState
      <3> QED BY <3>1, <3>2, <3>3, <3>4, FS_EmptySet, NoneTyped DEF Accounts
    <2>2. CASE state # Missing
      <3>1. Accounts(state, counted) /\ state.hour =< now /\ state # Torn
        BY <1>2, <2>2 DEF Saved
      <3>2. Good(state)
        <4>1. OnDisk(state)
          BY Parts DEF IInv
        <4> QED BY <2>2, <3>1, <4>1 DEF OnDisk
      <3>3. mem'[p] = ResetIfExpired(state, now)
        BY <1>3, <2>2, <3>1
      <3> QED BY <1>2, <3>1, <3>2, <3>3, AccountsReset
    <2> QED BY <2>1, <2>2
  <1>6. /\ Accounts(mem'[p], counted' \cup used'[p]) /\ mem'[p].hour =< now
        /\ Limited(counted' \cup used'[p])
    <2>1. counted' \cup used'[p] = counted
      BY <1>2, <1>3
    <2>2. mem'[p].hour =< now
      BY <1>2, <1>5
    <2> QED BY <1>2, <1>5, <2>1, <2>2 DEF Saved
  <1>7. run[p] = runs /\ \A u \in counted : u.run < runs
    BY <1>2, <1>3 DEF Working
  <1>8. Working(p)'
    BY <1>2, <1>3, <1>6, <1>7 DEF Working, Counting
  <1>9. ~Idle(p)'
    BY <1>3 DEF Idle
  <1> QED BY <1>2, <1>3, <1>4, <1>8, <1>9, FS_EmptySet DEF Fine

LEMMA CheckLimitsKept ==
  ASSUME TypeInv, LimitInv, ~overlaps, NEW p \in Proc, CheckLimits(p)
  PROVE  /\ Saved' /\ Fine(p)'
         /\ Accounts(mem'[p], counted \cup used[p])
         /\ mem'[p].hour = now /\ mem'[p].day = DayOf(now)
         /\ entry'[p].code = FoundToken(cmd[p]).code /\ entry'[p].code \in Code
         /\ entry'[p].allowed <=> Within(mem'[p], entry'[p].code)
  <1>1. ~Idle(p)
    BY DEF CheckLimits, Idle
  <1>2. /\ Working(p) /\ Saved /\ now \in Nat /\ Good(mem[p])
        /\ counted \cup used[p] \in SUBSET Use /\ IsFiniteSet(used[p])
        /\ todo[p] \in Seq(Errors) /\ Len(todo[p]) \in Nat
        /\ \A u \in counted \cup used[p] : u.left \in Nat
    BY <1>1, AtWork
  <1> DEFINE fresh == ResetIfExpired(mem[p], now)
             token == FoundToken(cmd[p])
             allowed == Within(fresh, token.code)
  <1>3. /\ pc'[p] = IF allowed THEN "record" ELSE "stat"
        /\ UNCHANGED <<now, state, counted, granted, used, run, runs, todo>>
        /\ mem'[p] = fresh /\ entry'[p] = NewEntry(p, allowed) /\ pc[p] = "check"
    <2>1. Control /\ IInv /\ Entries
      BY Parts
    <2> HIDE DEF fresh, token
    <2> QED BY <2>1 DEF CheckLimits, files, ghost, Control, IInv, Entries, fresh, token
  <1>4. Accounts(mem[p], counted \cup used[p]) /\ mem[p].hour =< now
    BY <1>2, <1>3 DEF Working, Counting
  <1>5. Accounts(fresh, counted \cup used[p]) /\ fresh.hour = now /\ fresh.day = DayOf(now)
    BY <1>2, <1>4, AccountsReset
  <1>6. token.code \in Code
    BY NamedCode DEF CheckLimits
  <1>7. entry'[p].code = token.code /\ entry'[p].allowed = allowed
    BY <1>3 DEF NewEntry
  <1>8. Saved'
    BY <1>2, <1>3, SavedStays
  <1> HIDE DEF fresh, token, allowed
  <1>9. \A u \in used[p] : u.left > Len(todo[p]) /\ u.left >= Len(todo[p])
    BY <1>2, <1>3 DEF Working
  <1>10. allowed => Within(mem'[p], entry'[p].code)
    BY <1>3, <1>7 DEF allowed
  <1>11. pc'[p] \in {"record", "stat"} /\ (pc'[p] = "record" => allowed)
    BY <1>3
  <1>12. Working(p)'
    BY <1>2, <1>3, <1>5, <1>9, <1>10, <1>11 DEF Working, Counting
  <1>13. ~Idle(p)'
    BY <1>11 DEF Idle
  <1>14. entry'[p].allowed <=> Within(mem'[p], entry'[p].code)
    BY <1>3, <1>7 DEF allowed
  <1> QED BY <1>2, <1>3, <1>5, <1>6, <1>7, <1>8, <1>12, <1>13, <1>14 DEF Fine, token

LEMMA RecordLimits ==
  ASSUME TypeInv, LimitInv, ~overlaps, NEW p \in Proc, RecordUse(p)
  PROVE  Saved' /\ Fine(p)'
  <1>1. ~Idle(p)
    BY DEF RecordUse, Idle
  <1>2. /\ Working(p) /\ Saved /\ now \in Nat /\ Good(mem[p])
        /\ counted \cup used[p] \in SUBSET Use /\ IsFiniteSet(counted \cup used[p])
        /\ IsFiniteSet(used[p])
        /\ todo[p] \in Seq(Errors) /\ Len(todo[p]) \in Nat
        /\ \A u \in counted \cup used[p] : u.left \in Nat /\ u.run \in Nat
    BY <1>1, AtWork
  <1> DEFINE new == [run |-> run[p], left |-> Len(todo[p]), code |-> entry[p].code,
                     at |-> now, asked |-> entry[p].at]
             uses == counted \cup used[p]
  <1>3. /\ pc'[p] = "stat" /\ pc[p] = "record"
        /\ UNCHANGED <<now, state, counted, granted, run, runs, todo, entry>>
        /\ mem'[p] = Record(mem[p], entry[p].code, now)
        /\ used'[p] = used[p] \cup {new}
    <2>1. Control /\ IInv /\ Uses
      BY Parts
    <2>2. {u \in {new} : ~overlaps} = {new}
      OBVIOUS
    <2> HIDE DEF new
    <2>3. used'[p] = used[p] \cup {u \in {new} : ~overlaps}
      BY <2>1 DEF RecordUse, Uses, new
    <2>4. /\ pc'[p] = "stat" /\ pc[p] = "record"
          /\ UNCHANGED <<now, state, counted, granted, run, runs, todo, entry>>
          /\ mem'[p] = Record(mem[p], entry[p].code, now)
      BY <2>1 DEF RecordUse, files, ghost, Control, IInv
    <2> QED BY <2>2, <2>3, <2>4
  <1>4. new \in Use /\ new.at = now /\ new.code = entry[p].code /\ new.run = runs
        /\ new.left = Len(todo[p])
    <2>1. entry[p].code \in Code /\ entry[p].at \in Nat
      BY <1>3, Parts DEF Entries, Carried, Logging, Entry
    <2>2. run[p] \in Nat
      BY Parts DEF Plain
    <2> QED BY <1>2, <2>1, <2>2 DEF Use, Working
  <1> HIDE DEF new
  <1>5. /\ Accounts(mem[p], uses) /\ mem[p].hour =< now /\ Limited(uses)
        /\ Within(mem[p], entry[p].code)
        /\ \A u \in used[p] : u.left > Len(todo[p]) /\ u.run = runs
        /\ \A u \in counted : u.run < runs
        /\ run[p] = runs
    BY <1>2, <1>3 DEF Working, Counting
  <1>6. new \notin uses
    BY <1>2, <1>4, <1>5
  <1>7. /\ Accounts(mem'[p], uses \cup {new}) /\ mem'[p].hour = now
    <2>1. mem[p].hour =< new.at /\ uses \in SUBSET Use /\ IsFiniteSet(uses)
      BY <1>2, <1>4, <1>5
    <2>2. mem'[p] = Record(mem[p], new.code, new.at)
      BY <1>3, <1>4
    <2>3. new \in Use /\ Good(mem[p]) /\ Accounts(mem[p], uses) /\ new \notin uses
      BY <1>2, <1>4, <1>5, <1>6
    <2>4. new.at = now
      BY <1>4
    <2> HIDE DEF uses
    <2>5. /\ Accounts(Record(mem[p], new.code, new.at), uses \cup {new})
          /\ Record(mem[p], new.code, new.at).hour = new.at
      BY <2>1, <2>3, AccountsRecord
    <2> QED BY <2>2, <2>4, <2>5
  <1>8. Limited(uses \cup {new})
    BY <1>2, <1>4, <1>5, <1>6, LimitedRecord
  <1>9. counted' \cup used'[p] = uses \cup {new}
    BY <1>3
  <1>10. IsFiniteSet(used'[p])
    <2>1. IsFiniteSet(used[p] \cup {new})
      BY <1>2, FS_AddElement
    <2> QED BY <1>3, <2>1
  <1>11. \A u \in used'[p] : u.run = runs /\ u.left >= Len(todo[p])
    BY <1>2, <1>3, <1>4, <1>5
  <1>12. Saved'
    BY <1>2, <1>3, SavedStays
  <1> HIDE DEF uses
  <1>13. /\ Accounts(mem'[p], counted' \cup used'[p]) /\ mem'[p].hour =< now
         /\ Limited(counted' \cup used'[p])
    <2>1. mem'[p].hour =< now
      BY <1>2, <1>7
    <2>2. /\ Accounts(mem'[p], counted' \cup used'[p])
          /\ Limited(counted' \cup used'[p])
      BY <1>7, <1>8, <1>9, Zenon
    <2> QED BY <2>1, <2>2
  <1>14. Working(p)'
    BY <1>3, <1>5, <1>11, <1>13 DEF Working, Counting
  <1> QED BY <1>3, <1>10, <1>12, <1>14 DEF Fine, Idle

(* The next error, and the steps of the audit log.                          *)
LEMMA LogLimits ==
  ASSUME TypeInv, LimitInv, ~overlaps, NEW p \in Proc,
         \/ Stand(p) \/ DenyByPolicy(p) \/ StatLog(p) \/ RotateLog(p) \/ TrimBackups(p)
         \/ OpenLog(p) \/ AppendEntry(p) \/ FilterLog(p) \/ SwapLog(p)
  PROVE  Saved' /\ Fine(p)'
  <1>0. Control
    BY Parts
  <1>1. ~Idle(p)
    BY DEF Stand, DenyByPolicy, StatLog, RotateLog, TrimBackups, OpenLog, AppendEntry, Logged,
       FilterLog, SwapLog, Idle
  <1>2. /\ Working(p) /\ Saved /\ now \in Nat /\ IsFiniteSet(used[p])
        /\ todo[p] \in Seq(Errors) /\ Len(todo[p]) \in Nat
        /\ \A u \in counted \cup used[p] : u.left \in Nat
    BY <1>1, AtWork
  <1>3. UNCHANGED <<now, state, tmp, counted, granted, used, run, runs, mem>>
    BY DEF Stand, DenyByPolicy, StatLog, RotateLog, TrimBackups, OpenLog, AppendEntry, Logged,
       FilterLog, SwapLog, files, ghost
  <1>4. Saved'
    BY <1>2, <1>3, SavedStays
  <1>5. \/ pc'[p] = "check" /\ pc[p] = "check" /\ Len(todo'[p]) < Len(todo[p])
        \/ pc'[p] = "stat" /\ pc[p] = "check" /\ todo' = todo
        \/ /\ pc'[p] \in {"rotate", "trim", "openlog", "append"}
           /\ pc[p] \in {"stat", "rotate", "trim", "openlog"}
           /\ todo' = todo
        \/ /\ pc'[p] = "check" /\ pc[p] \in {"openlog", "append"}
           /\ Len(todo'[p]) < Len(todo[p])
        \/ /\ pc'[p] \in {"filter", "swap", "exit"} /\ pc[p] \in {"prune", "filter", "swap"}
           /\ todo' = todo
    <2>1. todo[p] # <<>> => Len(Tail(todo[p])) < Len(todo[p])
      BY <1>2
    <2>2. CASE Stand(p) \/ AppendEntry(p) \/ (OpenLog(p) /\ Logged(p))
      <3>1. todo[p] # <<>>
        BY <2>2, Parts DEF Stand, AppendEntry, OpenLog, Entries, Pending, Logging
      <3>2. todo'[p] = Tail(todo[p])
        BY <1>0, <2>2 DEF Stand, AppendEntry, Logged, Control
      <3> QED BY <1>0, <2>1, <2>2, <3>1, <3>2 DEF Stand, AppendEntry, OpenLog, Logged, Control
    <2>3. CASE \/ DenyByPolicy(p) \/ StatLog(p) \/ RotateLog(p) \/ TrimBackups(p)
               \/ (OpenLog(p) /\ ~Logged(p)) \/ FilterLog(p) \/ SwapLog(p)
      BY <1>0, <2>3 DEF DenyByPolicy, StatLog, RotateLog, TrimBackups, OpenLog, FilterLog,
         SwapLog, Control
    <2> QED BY <2>2, <2>3
  <1>6. Len(todo'[p]) \in Nat
    BY Parts, ControlKept, PlacesKept DEF Control, Step
  <1>7. Working(p)'
    BY <1>2, <1>3, <1>5, <1>6 DEF Working, Counting
  <1> QED BY <1>2, <1>3, <1>4, <1>5, <1>7 DEF Fine, Idle

LEMMA SaveLimits ==
  ASSUME TypeInv, LimitInv, ~overlaps, NEW p \in Proc,
         OpenState(p) \/ WriteState(p) \/ RenameState(p)
  PROVE  Saved' /\ Fine(p)'
  <1>0. Control /\ Descriptors
    BY Parts
  <1>1. ~Idle(p)
    BY DEF OpenState, WriteState, RenameState, Idle
  <1>2. /\ Working(p) /\ Saved /\ now \in Nat /\ Good(mem[p]) /\ IsFiniteSet(used[p])
        /\ IsFiniteSet(counted \cup used[p])
        /\ \A u \in counted \cup used[p] : u.run \in Nat
    BY <1>1, AtWork
  <1>3. CASE OpenState(p)
    <2>1. /\ pc[p] = "check" /\ pc'[p] = "write" /\ tmp' = Torn /\ fd'[p] = TmpFile
          /\ UNCHANGED <<now, state, counted, granted, used, run, runs, todo, mem, entry>>
      BY <1>0, <1>3 DEF OpenState, Control, Descriptors, ghost
    <2>2. Saved'
      BY <1>2, <2>1, SavedStays
    <2>3. Working(p)'
      BY <1>2, <2>1 DEF Working, Counting
    <2> QED BY <1>2, <2>1, <2>2, <2>3 DEF Fine, Idle
  <1>4. CASE WriteState(p)
    <2>1. tmp = Torn /\ fd[p] = TmpFile
      BY <1>2, <1>4 DEF Working, WriteState
    <2>2. /\ pc[p] = "write" /\ pc'[p] = "rename" /\ tmp' = mem[p]
          /\ UNCHANGED <<now, state, counted, granted, used, run, runs, todo, mem, entry>>
      BY <1>0, <1>4, <2>1, FileNames DEF WriteState, Control, ghost
    <2>3. Saved'
      BY <1>2, <2>2, SavedStays
    <2>4. Working(p)'
      BY <1>2, <2>2 DEF Working, Counting
    <2> QED BY <1>2, <2>2, <2>3, <2>4 DEF Fine, Idle
  <1>5. CASE RenameState(p)
    <2>1. tmp = mem[p] /\ pc[p] = "rename"
      BY <1>2, <1>5 DEF Working, RenameState
    <2>2. mem[p] \notin {Torn, Missing}
      BY <1>2, InputAssumption DEF Good
    <2>3. /\ pc'[p] = "exit" /\ state' = mem[p] /\ counted' = counted \cup used[p]
          /\ UNCHANGED <<now, granted, used, run, runs, todo, mem, entry>>
      BY <1>0, <1>5, <2>1, <2>2 DEF RenameState, Control
    <2>4. /\ Accounts(mem[p], counted \cup used[p]) /\ mem[p].hour =< now
          /\ Limited(counted \cup used[p]) /\ run[p] = runs
          /\ \A u \in used[p] : u.run = runs
      BY <1>2, <2>1 DEF Working, Counting
    <2>5. \A u \in counted \cup used[p] : u.at =< now /\ u.run =< runs
      <3>1. \A u \in counted : u.at =< now /\ u.run =< runs
        BY <1>2 DEF Saved
      <3>2. \A u \in used[p] : u.at =< mem[p].hour /\ u.at \in Nat
        BY <2>4, AtWork, <1>1 DEF Accounts, Use
      <3>3. mem[p].hour \in Nat
        BY <1>2 DEF Good, RateState
      <3>4. runs \in Nat
        BY Parts DEF Plain
      <3> QED BY <1>2, <2>4, <3>1, <3>2, <3>3, <3>4
    <2>6. Saved'
      BY <1>2, <2>2, <2>3, <2>4, <2>5 DEF Saved
    <2>7. counted' \cup used'[p] = counted \cup used[p]
      BY <2>3
    <2>8. Working(p)'
      BY <2>3, <2>4, <2>7 DEF Working, Counting
    <2> QED BY <1>2, <2>3, <2>6, <2>8 DEF Fine, Idle
  <1> QED BY <1>3, <1>4, <1>5

LEMMA EndLimits ==
  ASSUME TypeInv, LimitInv, ~overlaps, NEW p \in Proc, Exit(p) \/ Crash(p)
  PROVE  Saved' /\ Fine(p)'
  <1>0. Control /\ Uses
    BY Parts
  <1>1. ~Idle(p)
    BY DEF Exit, Crash, Idle
  <1>2. Working(p) /\ Saved
    BY <1>1, AtWork
  <1>3. /\ pc'[p] = "idle" /\ used'[p] = {} /\ UNCHANGED <<now, state, runs, counted>>
        /\ \/ granted' = granted
           \/ granted' = granted \cup used[p] /\ pc[p] = "exit"
    BY <1>0 DEF Exit, Crash, Forget, Control, Uses
  <1>4. granted' \subseteq counted
    BY <1>2, <1>3 DEF Working, Saved
  <1>5. Saved'
    BY <1>2, <1>3, <1>4 DEF Saved
  <1> QED BY <1>3, <1>5 DEF Fine, Idle

LEMMA LimitStep == TypeInv /\ LimitInv /\ [Next]_vars => LimitInv'
  <1> SUFFICES ASSUME TypeInv, LimitInv, [Next]_vars PROVE LimitInv'
    OBVIOUS
  <1>0. overlaps' = overlaps
    BY DEF Next, vars, Tick, SetBack, Step, files, ghost, Invoke, Cleanup, LoadState, Stand,
       DenyByPolicy, CheckLimits, RecordUse, StatLog, RotateLog, TrimBackups, OpenLog,
       AppendEntry, Logged, OpenState, WriteState, RenameState, FilterLog, SwapLog, Exit,
       Crash, Starts, Forget
  <1> SUFFICES ASSUME ~overlaps PROVE LimitInv'
    BY <1>0 DEF LimitInv
  <1>1. Alone /\ Saved /\ \A p \in Proc : Fine(p)
    BY DEF LimitInv, Fine
  <1>2. CASE Tick \/ UNCHANGED vars
    <2>1. /\ now' \in {now, now + 1}
          /\ UNCHANGED <<state, tmp, fd, pc, todo, mem, entry, used, run, runs, counted, granted>>
      BY <1>2 DEF Tick, vars, files, ghost
    <2>2. now \in Nat /\ (counted \in SUBSET Use) /\ \A p \in Proc : Good(mem[p])
      BY Parts DEF IInv, Plain
    <2>3. Saved'
      <3>1. \A u \in counted : u.at =< now'
        BY <1>1, <2>1, <2>2 DEF Saved, Use
      <3>2. state # Missing => state.hour =< now'
        <4>1. OnDisk(state)
          BY Parts DEF IInv
        <4>2. state # Missing => state.hour \in Nat
          BY <1>1, <4>1 DEF Saved, OnDisk, Good, RateState
        <4> QED BY <1>1, <2>1, <2>2, <4>2 DEF Saved
      <3> QED BY <1>1, <2>1, <3>1, <3>2 DEF Saved
    <2>4. ASSUME NEW p \in Proc PROVE Fine(p)'
      <3>1. Fine(p) /\ mem[p].hour \in Nat
        BY <1>1, <2>2 DEF Good, RateState
      <3>2. CASE Idle(p)
        BY <2>1, <3>1, <3>2 DEF Fine, Idle
      <3>3. CASE ~Idle(p)
        <4>1. Working(p) /\ IsFiniteSet(used[p])
          BY <3>1, <3>3 DEF Fine
        <4>2. mem[p].hour =< now => mem[p].hour =< now'
          BY <2>1, <2>2, <3>1
        <4>3. Working(p)'
          BY <2>1, <4>1, <4>2 DEF Working, Counting
        <4> QED BY <2>1, <4>1, <4>3, <3>3 DEF Fine, Idle
      <3> QED BY <3>2, <3>3
    <2>5. Alone'
      BY <1>1, <2>1 DEF Alone, Idle
    <2> QED BY <2>3, <2>4, <2>5 DEF LimitInv, Fine
  <1>3. CASE SetBack
    BY <1>3 DEF SetBack
  <1>4. ASSUME NEW p \in Proc, Step(p) PROVE LimitInv'
    <2>1. Saved' /\ Fine(p)'
      BY <1>4, StartLimits, LoadLimits, CheckLimitsKept, RecordLimits, LogLimits, SaveLimits,
         EndLimits DEF Step
    <2> QED BY <1>4, <2>1, OneAtWork
  <1> QED BY <1>2, <1>3, <1>4 DEF Next

LEMMA LimitInit == Init => LimitInv
  <1> SUFFICES ASSUME Init PROVE LimitInv
    OBVIOUS
  <1>1. \A h : InHour({}, h) = {} /\ InDay({}, h) = {} /\ OfCode({}, h) = {}
    BY DEF InHour, InDay, OfCode
  <1>2. Cardinality({}) = 0 /\ IsFiniteSet({})
    BY FS_EmptySet
  <1>3. Limited({})
    <2>1. \A limit \in Nat : ~Exceeds({}, limit)
      BY <1>2 DEF Exceeds
    <2>2. MaxPerHour \in Nat /\ MaxPerDay \in Nat
      BY RateAssumption
    <2>3. \A c \in Code : PolicyOf(c).perHour \in Nat /\ PolicyOf(c).perDay \in Nat
      BY PolicyAssumption DEF PolicyOf, PolicyType, DefaultPolicy
    <2> QED BY <1>1, <2>1, <2>2, <2>3 DEF Limited
  <1>5. Saved
    BY <1>2, <1>3, InputAssumption DEF Init, Saved
  <1> QED BY <1>5 DEF Init, LimitInv, Alone, Idle

(* In no hour and on no day are more exceptions granted than the global     *)
(* limits and those of the code's policy allow, whatever crashes and        *)
(* however the clock runs between a check and the record, when hooks do not *)
(* overlap (RateLimiter.Check, Record, Load and Save).                      *)
THEOREM LimitsAlwaysKept == Spec => []LimitsKept
  <1>1. TypeInv /\ LimitInv => LimitsKept
    <2> SUFFICES ASSUME TypeInv, LimitInv, ~overlaps, RateEnabled, NEW u \in granted
                 PROVE  LET hour == InHour(granted, HourOf(u.at))
                            day  == InDay(granted, DayOf(u.at))
                        IN  /\ ~Exceeds(hour, MaxPerHour)
                            /\ ~Exceeds(day, MaxPerDay)
                            /\ ~Exceeds(OfCode(hour, u.code), PolicyOf(u.code).perHour)
                            /\ ~Exceeds(OfCode(day, u.code), PolicyOf(u.code).perDay)
      BY DEF LimitsKept
    <2>1. /\ granted \subseteq counted /\ IsFiniteSet(counted) /\ Limited(counted)
      BY DEF LimitInv, Saved
    <2>2. u.at \in Nat /\ u.code \in Code /\ HourOf(u.at) \in Nat /\ DayOf(u.at) \in Nat
      <3>1. u.at \in Nat /\ u.code \in Code
        BY <2>1, Parts DEF Plain, Use
      <3> QED BY <3>1, DaysMonotonic
    <2>3. ASSUME NEW S, IsFiniteSet(S), NEW T \in SUBSET S, NEW limit \in Nat,
                 ~Exceeds(S, limit)
          PROVE  ~Exceeds(T, limit)
      <3>1. /\ Cardinality(T) =< Cardinality(S) /\ Cardinality(T) \in Nat
            /\ Cardinality(S) \in Nat
        BY <2>3, FS_Subset, FS_CardinalityType
      <3> QED BY <2>3, <3>1 DEF Exceeds
    <2>4. /\ MaxPerHour \in Nat /\ MaxPerDay \in Nat
          /\ PolicyOf(u.code).perHour \in Nat /\ PolicyOf(u.code).perDay \in Nat
      BY <2>2, RateAssumption, PolicyAssumption DEF PolicyOf, PolicyType, DefaultPolicy
    <2> DEFINE h == HourOf(u.at)
               d == DayOf(u.at)
               c == u.code
    <2> HIDE DEF h, d, c
    <2>5. /\ InHour(granted, h) \in SUBSET InHour(counted, h)
          /\ InDay(granted, d) \in SUBSET InDay(counted, d)
          /\ OfCode(InHour(granted, h), c) \in SUBSET OfCode(InHour(counted, h), c)
          /\ OfCode(InDay(granted, d), c) \in SUBSET OfCode(InDay(counted, d), c)
      BY <2>1 DEF InHour, InDay, OfCode
    <2>6. /\ IsFiniteSet(InHour(counted, h)) /\ IsFiniteSet(InDay(counted, d))
          /\ IsFiniteSet(OfCode(InHour(counted, h), c))
          /\ IsFiniteSet(OfCode(InDay(counted, d), c))
      BY <2>1, WindowsFinite
    <2>7. /\ ~Exceeds(InHour(counted, h), MaxPerHour)
          /\ ~Exceeds(InDay(counted, d), MaxPerDay)
          /\ ~Exceeds(OfCode(InHour(counted, h), c), PolicyOf(c).perHour)
          /\ ~Exceeds(OfCode(InDay(counted, d), c), PolicyOf(c).perDay)
      BY <2>1, <2>2 DEF Limited, h, d, c
    <2>8. ~Exceeds(InHour(granted, h), MaxPerHour) /\ ~Exceeds(InDay(granted, d), MaxPerDay)
      BY <2>3, <2>4, <2>5, <2>6, <2>7
    <2>9. /\ ~Exceeds(OfCode(InHour(granted, h), c), PolicyOf(c).perHour)
          /\ ~Exceeds(OfCode(InDay(granted, d), c), PolicyOf(c).perDay)
      BY <2>3, <2>4, <2>5, <2>6, <2>7 DEF c
    <2> QED BY <2>8, <2>9 DEF h, d, c
  <1> QED BY <1>1, TypeInit, TypeStep, LimitInit, LimitStep, PTL DEF Spec

(* A limit refuses an exception only for uses of the current hour or day    *)
(* that are on record (RateLimiter.Check after its reset), when hooks do    *)
(* not overlap.                                                             *)
THEOREM RefusalsAlwaysSpent == Spec => RefusesOnlyWhenSpent
  <1>1. ASSUME TypeInv, LimitInv, NEW p \in Proc, ~overlaps, CheckLimits(p),
               ~entry'[p].allowed
        PROVE  LET c == entry'[p].code
                   hour == InHour(counted \cup used[p], HourOf(now))
                   day  == InDay(counted \cup used[p], DayOf(now))
               IN  \/ Reaches(hour, MaxPerHour)
                   \/ Reaches(day, MaxPerDay)
                   \/ Reaches(OfCode(hour, c), PolicyOf(c).perHour)
                   \/ Reaches(OfCode(day, c), PolicyOf(c).perDay)
    <2> DEFINE uses == counted \cup used[p]
               c == entry'[p].code
               st == mem'[p]
    <2>1. /\ Accounts(st, uses) /\ st.hour = now /\ st.day = DayOf(now)
          /\ c \in Code /\ ~Within(st, c)
      BY <1>1, CheckLimitsKept
    <2>2. IsFiniteSet(uses) /\ HourOf(now) = now
      <3>1. ~Idle(p)
        BY <1>1 DEF CheckLimits, Idle
      <3> QED BY <1>1, <3>1, AtWork DEF HourOf
    <2> HIDE DEF uses, c, st
    <2>3. /\ Cardinality(InHour(uses, now)) \in Nat /\ Cardinality(InDay(uses, DayOf(now))) \in Nat
          /\ Cardinality(OfCode(InHour(uses, now), c)) \in Nat
          /\ Cardinality(OfCode(InDay(uses, DayOf(now)), c)) \in Nat
      BY <2>2, WindowsFinite
    <2>4. /\ MaxPerHour \in Nat /\ MaxPerDay \in Nat
          /\ PolicyOf(c).perHour \in Nat /\ PolicyOf(c).perDay \in Nat
      BY <2>1, RateAssumption, PolicyAssumption DEF PolicyOf, PolicyType, DefaultPolicy
    <2>5. /\ st.hourly.all = Cardinality(InHour(uses, now))
          /\ st.daily.all = Cardinality(InDay(uses, DayOf(now)))
          /\ st.hourly.of[c] = Cardinality(OfCode(InHour(uses, now), c))
          /\ st.daily.of[c] = Cardinality(OfCode(InDay(uses, DayOf(now)), c))
      BY <2>1 DEF Accounts
    <2>6. \/ ~Below(st.hourly.all, MaxPerHour) \/ ~Below(st.daily.all, MaxPerDay)
          \/ ~Below(st.hourly.of[c], PolicyOf(c).perHour)
          \/ ~Below(st.daily.of[c], PolicyOf(c).perDay)
      BY <2>1 DEF Within
    <2>7. \/ Reaches(InHour(uses, now), MaxPerHour)
          \/ Reaches(InDay(uses, DayOf(now)), MaxPerDay)
          \/ Reaches(OfCode(InHour(uses, now), c), PolicyOf(c).perHour)
          \/ Reaches(OfCode(InDay(uses, DayOf(now)), c), PolicyOf(c).perDay)
      BY <2>3, <2>4, <2>5, <2>6 DEF Below, Reaches
    <2> QED BY <2>2, <2>7 DEF uses, c
  <1>2. TypeInv /\ LimitInv =>
          [\A p \in Proc :
              ~overlaps /\ CheckLimits(p) /\ ~entry'[p].allowed =>
                  LET c == entry'[p].code
                      hour == InHour(counted \cup used[p], HourOf(now))
                      day  == InDay(counted \cup used[p], DayOf(now))
                  IN  \/ Reaches(hour, MaxPerHour)
                      \/ Reaches(day, MaxPerDay)
                      \/ Reaches(OfCode(hour, c), PolicyOf(c).perHour)
                      \/ Reaches(OfCode(day, c), PolicyOf(c).perDay)]_vars
    BY <1>1
  <1> QED BY <1>2, TypeInit, TypeStep, LimitInit, LimitStep, PTL DEF Spec, RefusesOnlyWhenSpent
=============================================================================
