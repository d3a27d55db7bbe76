------------------------ MODULE ExceptionsAuditProofs ------------------------
(***************************************************************************)
(* Proofs about the audit log of exceptions, for any sizes, ages, numbers  *)
(* of backups and faults: when hooks do not overlap, no rotation, trimming *)
(* or cleanup, no failure and no crash in any of them loses the record of  *)
(* an exception that the host was told of, but for the uses in missed.     *)
(***************************************************************************)
EXTENDS ExceptionsProofs

Logs == IF Exists(dir) THEN ToSet(dir.log) ELSE {}
Backed(s) == ToSet(dir.backups[s])
Written == Logs \cup UNION {Backed(s) : s \in DOMAIN dir.backups}

(* What is in the log was written after what is in the backups, and what is *)
(* in a backup after what is in the older ones.                             *)
Ordered ==
    /\ \A e \in Logs : \A s \in DOMAIN dir.backups : \A b \in Backed(s) : Later(e, b)
    /\ \A s, t \in DOMAIN dir.backups :
          s < t => \A b \in Backed(s), e \in Backed(t) : Later(e, b)
    /\ \A e \in Written : e.run =< runs

(* A use is on record: an entry that is whole can be read.                  *)
Recorded(u, e) == e.run = u.run /\ e.left = u.left /\ e.allowed /\ e.at = u.asked
OnRecord(u) == \E e \in Kept(dir) : ~e.open /\ Recorded(u, e)

OfAge(u) == u.asked =< now - MaxAge

(* A use is pushed out: everything in the log and in the latest backups, of *)
(* which there are as many as are retained, is later.                       *)
Latest(c) == {s \in DOMAIN dir.backups : s >= c}
PushedFrom(u, c) ==
    /\ Cardinality(Latest(c)) >= MaxBackups
    /\ \A s \in Latest(c) : \A e \in Backed(s) : Later(e, u)
    /\ \A e \in Logs : Later(e, u)
Pushed(u) == \E c \in Nat : PushedFrom(u, c)

Audited(u) == u \in missed \/ OnRecord(u) \/ OfAge(u) \/ Pushed(u)

(* A process at work: it has written about the errors it is past, the entry *)
(* it is logging is about the next, its uses are on record but for the one  *)
(* that this entry is about, and what a cleanup is about to leave out of    *)
(* the log is of age.                                                       *)
Drafting(p) ==
    /\ \A e \in Written : e.run < run[p] \/ (e.run = run[p] /\ e.left > Len(todo[p]))
    /\ pc[p] \in Logging => /\ entry[p].run = run[p] /\ entry[p].left = Len(todo[p])
                            /\ ~entry[p].bad /\ ~entry[p].open
    /\ pc[p] = "record" => entry[p].allowed
    /\ pc[p] = "append" => fd[p] = LogFile

Recording(p) ==
    \A u \in used[p] :
        IF pc[p] \in Logging /\ u.left = Len(todo[p])
        THEN entry[p].allowed /\ entry[p].at = u.asked
        ELSE Audited(u)

LogLines == IF Exists(dir) THEN dir.log ELSE <<>>

SameError(e, l) == e.run = l.run /\ e.left = l.left

Cleaning(p) ==
    pc[p] = "swap" =>
        /\ \A e \in ToSet(copy[p]) : \E l \in Logs : SameError(e, l)
        /\ \A e \in Legible(LogLines) :
              ~e.open => e \in Legible(copy[p]) \/ e.at =< now - MaxAge

AuditInv ==
    ~overlaps =>
        /\ Ordered
        /\ \A u \in granted : Audited(u)
        /\ \A p \in Proc : ~Idle(p) => Drafting(p) /\ Recording(p) /\ Cleaning(p)

-----------------------------------------------------------------------------
\* Lines

(* The scanner returns the lines before the first that is too long.         *)
LEMMA ScannedIs ==
  ASSUME NEW lines \in Seq(Entry)
  PROVE  \A x : x \in ToSet(Scanned(lines)) <=>
                   \E i \in DOMAIN lines : x = lines[i] /\ \A j \in 1..i : ~lines[j].long
  <1> DEFINE long == {i \in DOMAIN lines : lines[i].long}
             n == Len(lines)
  <1>0. n \in Nat /\ DOMAIN lines = 1..n
    OBVIOUS
  <1>1. CASE long = {}
    <2>1. Scanned(lines) = lines
      BY <1>1 DEF Scanned
    <2>2. \A i \in 1..n : \A j \in 1..i : ~lines[j].long
      BY <1>0, <1>1
    <2> QED BY <1>0, <2>1, <2>2 DEF ToSet
  <1>2. CASE long # {}
    <2>1. long \in SUBSET Nat
      OBVIOUS
    <2>2. PICK b \in long : \A y \in long : b =< y
      BY <1>2, <2>1, LeastExists
    <2> DEFINE m == Min(long)
    <2>3. m \in long /\ \A y \in long : m =< y
      BY <2>2 DEF Min
    <2>4. m \in 1..n
      BY <2>3
    <2>5. Scanned(lines) = SubSeq(lines, 1, m - 1)
      BY <1>2 DEF Scanned
    <2> HIDE DEF m
    <2>6. \A i \in 1..n : (\A j \in 1..i : ~lines[j].long) <=> i =< m - 1
      <3>1. ASSUME NEW i \in 1..n, \A j \in 1..i : ~lines[j].long PROVE i =< m - 1
        BY <2>3, <2>4, <3>1
      <3>2. ASSUME NEW i \in 1..n, i =< m - 1, NEW j \in 1..i PROVE ~lines[j].long
        <4>1. j \in 1..n /\ j < m
          BY <2>4, <3>2
        <4> QED BY <1>0, <2>3, <2>4, <4>1
      <3> QED BY <3>1, <3>2
    <2> HIDE DEF long
    <2>7. /\ DOMAIN SubSeq(lines, 1, m - 1) = 1..(m - 1)
          /\ \A i \in 1..(m - 1) : SubSeq(lines, 1, m - 1)[i] = lines[i]
      BY <2>4
    <2>8. \A x : x \in ToSet(Scanned(lines)) <=> \E i \in 1..(m - 1) : x = lines[i]
      BY <2>5, <2>7 DEF ToSet
    <2>9. \A i : i \in 1..(m - 1) <=> i \in 1..n /\ i =< m - 1
      BY <1>0, <2>4
    <2> QED BY <1>0, <2>6, <2>8, <2>9
  <1> QED BY <1>1, <1>2

LEMMA LegibleIs ==
  ASSUME NEW lines \in Seq(Entry)
  PROVE  /\ \A x : x \in Legible(lines) <=>
                      ~x.bad /\ \E i \in DOMAIN lines :
                                   x = lines[i] /\ \A j \in 1..i : ~lines[j].long
         /\ Legible(lines) \in SUBSET ToSet(lines) /\ ToSet(lines) \in SUBSET Entry
  <1>1. \A x : x \in Legible(lines) <=>
                  ~x.bad /\ \E i \in DOMAIN lines :
                               x = lines[i] /\ \A j \in 1..i : ~lines[j].long
    BY ScannedIs DEF Legible
  <1>2. \A x : x \in ToSet(lines) <=> \E i \in DOMAIN lines : x = lines[i]
    BY DEF ToSet
  <1> QED BY <1>1, <1>2

(* A line that is added takes nothing from what could be read, but for a    *)
(* cut one, and can be read when it is whole and nothing is in its way.     *)
LEMMA AddedLegible ==
  ASSUME NEW lines \in Seq(Entry), NEW line \in Entry
  PROVE  /\ \A x \in Legible(lines) : ~x.open => x \in Legible(Added(lines, line))
         /\ Readable(lines, line) /\ ~line.bad => line \in Legible(Added(lines, line))
         /\ \A x \in ToSet(Added(lines, line)) : x \in ToSet(lines) \/ SameError(x, line)
  <1> DEFINE new == Added(lines, line)
             n == Len(lines)
  <1>0. /\ new \in Seq(Entry) /\ n \in Nat /\ DOMAIN lines = 1..n
        /\ \A i \in 1..n : lines[i] \in Entry
    BY AddedTyped
  <1>1. CASE CutOff(lines)
    <2>1. lines # <<>> /\ Last(lines) = lines[n] /\ lines[n].open /\ n >= 1
      <3>1. lines # <<>> /\ Last(lines).open
        BY <1>1 DEF CutOff
      <3>2. n >= 1
        BY <3>1
      <3> QED BY <3>1, <3>2 DEF Last
    <2>2. new = Append(Front(lines), Glued(lines, line))
      BY <1>1 DEF Added, Glued
    <2>3. Front(lines) = SubSeq(lines, 1, n - 1)
      BY DEF Front
    <2>4. Glued(lines, line) \in Entry
      BY <1>1, AddedTyped
    <2> DEFINE front == SubSeq(lines, 1, n - 1)
               g == Glued(lines, line)
    <2>5. /\ front \in Seq(Entry) /\ Len(front) = n - 1
          /\ \A i \in 1..(n - 1) : front[i] = lines[i]
      BY <1>0, <2>1
    <2>6. /\ DOMAIN Append(front, g) = 1..n /\ Append(front, g)[n] = g
          /\ \A i \in 1..(n - 1) : Append(front, g)[i] = front[i]
      <3>1. g \in Entry /\ Len(front) + 1 = n
        BY <1>0, <2>1, <2>4, <2>5
      <3> DEFINE w == Append(front, g)
      <3> HIDE DEF front, g, n
      <3>2. /\ w \in Seq(Entry) /\ Len(w) = Len(front) + 1 /\ w[Len(front) + 1] = g
            /\ \A i \in 1..Len(front) : w[i] = front[i]
        BY <2>5, <3>1, AppendProperties
      <3> HIDE DEF w
      <3>3. DOMAIN w = 1..n
        BY <3>1, <3>2
      <3> QED BY <2>5, <3>1, <3>2, <3>3 DEF w
    <2> HIDE DEF n
    <2>7. /\ DOMAIN new = 1..n /\ new[n] = g
          /\ \A i \in 1..(n - 1) : new[i] = lines[i]
      <3> HIDE DEF front, g, new
      <3> QED BY <2>2, <2>3, <2>5, <2>6 DEF g, front
    <2>8. SameError(g, line)
      BY DEF Glued, SameError, Entry
    <2> HIDE DEF g, front, new
    <2>9. ASSUME NEW x \in Legible(lines), ~x.open PROVE x \in Legible(new)
      <3>1. PICK i \in 1..n : ~x.bad /\ x = lines[i] /\ \A j \in 1..i : ~lines[j].long
        BY <1>0, LegibleIs
      <3>2. i # n
        BY <2>1, <2>9, <3>1
      <3>3. i \in 1..(n - 1) /\ \A j \in 1..i : j \in 1..(n - 1)
        BY <1>0, <3>2
      <3>4. x = new[i] /\ i \in DOMAIN new /\ \A j \in 1..i : ~new[j].long
        BY <2>7, <3>1, <3>3
      <3> QED BY <1>0, <3>1, <3>4, LegibleIs
    <2>10. ~Readable(lines, line)
      BY <1>1 DEF Readable
    <2>11. ASSUME NEW x \in ToSet(new) PROVE x \in ToSet(lines) \/ SameError(x, line)
      <3>1. PICK i \in 1..n : x = new[i]
        BY <2>7 DEF ToSet
      <3>2. CASE i = n
        BY <2>7, <2>8, <3>1, <3>2
      <3>3. CASE i # n
        <4>1. i \in 1..(n - 1)
          BY <1>0, <3>3
        <4> QED BY <1>0, <2>7, <3>1, <4>1 DEF ToSet
      <3> QED BY <3>2, <3>3
    <2> QED BY <2>9, <2>10, <2>11 DEF new
  <1>2. CASE ~CutOff(lines)
    <2>1. new = Append(lines, line)
      BY <1>2 DEF Added
    <2>2. /\ DOMAIN new = 1..(n + 1) /\ new[n + 1] = line
          /\ \A i \in 1..n : new[i] = lines[i]
      <3>1. /\ Len(new) = n + 1 /\ new[n + 1] = line
            /\ \A i \in 1..n : new[i] = lines[i]
        BY <2>1, AppendProperties
      <3> HIDE DEF new
      <3> QED BY <1>0, <3>1
    <2> HIDE DEF new
    <2>3. ASSUME NEW x \in Legible(lines) PROVE x \in Legible(new)
      <3>1. PICK i \in 1..n : ~x.bad /\ x = lines[i] /\ \A j \in 1..i : ~lines[j].long
        BY <1>0, LegibleIs
      <3>2. i \in DOMAIN new /\ \A j \in 1..i : j \in 1..n
        BY <1>0, <2>2
      <3>3. x = new[i] /\ \A j \in 1..i : ~new[j].long
        BY <2>2, <3>1, <3>2
      <3> QED BY <1>0, <3>1, <3>2, <3>3, LegibleIs
    <2>4. ASSUME Readable(lines, line), ~line.bad PROVE line \in Legible(new)
      <3>1. /\ ~line.long /\ \A i \in 1..n : ~lines[i].long
        BY <1>0, <2>4 DEF Readable, ToSet
      <3>2. \A j \in 1..(n + 1) : ~new[j].long
        <4>1. \A j \in 1..(n + 1) : j \in 1..n \/ j = n + 1
          BY <1>0
        <4> QED BY <2>2, <3>1, <4>1
      <3>3. n + 1 \in DOMAIN new
        BY <1>0, <2>2
      <3> QED BY <1>0, <2>2, <2>4, <3>2, <3>3, LegibleIs
    <2>5. \A x \in ToSet(new) : x \in ToSet(lines) \/ SameError(x, line)
      <3>1. ToSet(Append(lines, line)) = ToSet(lines) \cup {line}
        BY AppendToSet
      <3>2. SameError(line, line)
        BY DEF SameError
      <3> QED BY <2>1, <3>1, <3>2
    <2> QED BY <2>3, <2>4, <2>5 DEF new
  <1> QED BY <1>1, <1>2

(* A cleanup makes up no line, and loses none that is whole, can be read    *)
(* and is not of age.                                                       *)
LEMMA FilteredLegible ==
  ASSUME NEW lines \in Seq(Entry), NEW t \in Nat
  PROVE  /\ \A x \in Legible(lines) : ~x.open /\ Young(x, t) => x \in Legible(Filtered(lines, t))
         /\ \A x \in ToSet(Filtered(lines, t)) : \E y \in ToSet(lines) : SameError(x, y)
  <1> DEFINE new == Filtered(lines, t)
  <1>1. /\ new \in Seq(Entry)
        /\ ToSet(new) = {Ended(e) : e \in {x \in ToSet(Scanned(lines)) : Stays(x, t)}}
    BY FilteredYoung
  <1>2. \A x \in ToSet(Scanned(lines)) : x \in ToSet(lines) /\ x \in Entry /\ ~x.long
    <2>1. \A i \in DOMAIN lines : lines[i] \in Entry /\ lines[i] \in ToSet(lines) /\ i \in 1..i
      BY DEF ToSet
    <2> QED BY <2>1, ScannedIs
  <1> HIDE DEF new
  <1>3. \A x \in ToSet(new) : \E y \in ToSet(lines) : SameError(x, y) /\ ~x.long
    <2>1. SUFFICES ASSUME NEW e \in ToSet(Scanned(lines))
                   PROVE  SameError(Ended(e), e) /\ ~Ended(e).long
      BY <1>1, <1>2
    <2> QED BY <1>2 DEF Ended, SameError, Entry
  <1>4. ASSUME NEW x \in Legible(lines), ~x.open, Young(x, t) PROVE x \in Legible(new)
    <2>1. x \in ToSet(Scanned(lines)) /\ ~x.bad /\ Stays(x, t)
      BY <1>4 DEF Legible, Stays
    <2>2. Ended(x) = x
      <3>1. x \in Entry /\ x.open = FALSE
        BY <1>2, <1>4, <2>1 DEF Entry
      <3> QED BY <3>1 DEF Ended, Entry
    <2>3. x \in ToSet(new)
      BY <1>1, <2>1, <2>2
    <2>4. PICK i \in DOMAIN new : x = new[i]
      BY <2>3 DEF ToSet
    <2>5. \A j \in 1..i : j \in DOMAIN new
      BY <1>1
    <2>6. \A j \in 1..i : ~new[j].long
      BY <1>3, <2>5 DEF ToSet
    <2> QED BY <1>1, <2>1, <2>4, <2>6, LegibleIs
  <1> QED BY <1>3, <1>4 DEF new

-----------------------------------------------------------------------------
\* The directory

LEMMA WrittenTyped ==
  ASSUME TypeInv
  PROVE  /\ Written \in SUBSET Entry /\ Logs \in SUBSET Entry
         /\ \A s \in DOMAIN dir.backups : Backed(s) \in SUBSET Entry
         /\ \A s \in DOMAIN dir.backups : s \in 0..second /\ dir.backups[s] \in Seq(Entry)
         /\ Exists(dir) => dir.log \in Seq(Entry)
         /\ LogLines \in Seq(Entry) /\ Logs = ToSet(LogLines)
         /\ IsFiniteSet(DOMAIN dir.backups) /\ second \in Nat
  <1>1. Log /\ Plain
    BY Parts
  <1>2. \A q \in Seq(Entry) : ToSet(q) \in SUBSET Entry
    BY DEF ToSet
  <1>3. Exists(dir) => dir.log \in Seq(Entry)
    BY <1>1 DEF Log, Exists
  <1>4. Logs \in SUBSET Entry
    BY <1>2, <1>3 DEF Logs
  <1>5. \A s \in DOMAIN dir.backups : Backed(s) \in SUBSET Entry
    BY <1>1, <1>2 DEF Log, Backed
  <1>6. Written \in SUBSET Entry
    BY <1>4, <1>5 DEF Written
  <1>7. DOMAIN dir.backups \in SUBSET (0..second) /\ second \in Nat
    BY <1>1 DEF Log, Plain
  <1>8. IsFiniteSet(DOMAIN dir.backups)
    <2>1. IsFiniteSet(0..second)
      BY <1>7, FS_Interval
    <2> QED BY <1>7, <2>1, FS_Subset
  <1>9. LogLines \in Seq(Entry) /\ Logs = ToSet(LogLines)
    <2>1. ToSet(<<>>) = {} /\ <<>> \in Seq(Entry)
      BY DEF ToSet
    <2> QED BY <1>3, <2>1 DEF LogLines, Logs
  <1> QED BY <1>1, <1>3, <1>4, <1>5, <1>6, <1>7, <1>8, <1>9 DEF Log

(* What is written is known from the log and the backups, and so is what    *)
(* can be read.                                                             *)
LEMMA WrittenIs ==
  \A e : e \in Written <=> e \in Logs \/ \E s \in DOMAIN dir.backups : e \in Backed(s)
  BY DEF Written

LEMMA WrittenIsPrimed ==
  \A e : e \in Written' <=> e \in Logs' \/ \E s \in DOMAIN dir'.backups : e \in Backed(s)'
  BY DEF Written

LEMMA EmptyLegible == \A x : x \notin Legible(<<>>)
  <1>1. <<>> \in Seq(Entry) /\ DOMAIN <<>> = {}
    OBVIOUS
  <1> QED BY <1>1, LegibleIs

LEMMA KeptIs ==
  \A e : e \in Kept(dir) <=>
            \/ e \in Legible(LogLines)
            \/ \E s \in DOMAIN dir.backups : e \in Legible(dir.backups[s])
  BY EmptyLegible DEF Kept, LogLines

LEMMA KeptIsPrimed ==
  \A e : e \in Kept(dir)' <=>
            \/ e \in Legible(LogLines)'
            \/ \E s \in DOMAIN dir'.backups : e \in Legible(dir'.backups[s])
  BY EmptyLegible DEF Kept, LogLines

(* A finite set of naturals has a greatest element.                         *)
LEMMA GreatestBelow ==
  ASSUME NEW m \in Nat, NEW S \in SUBSET (0..m), S # {}
  PROVE  \E x \in S : \A y \in S : y =< x
  <1> DEFINE T == {m - y : y \in S}
  <1>1. T \in SUBSET Nat
    OBVIOUS
  <1>2. T # {}
    <2>1. PICK y \in S : TRUE
      OBVIOUS
    <2>2. m - y \in T
      OBVIOUS
    <2> QED BY <2>2
  <1>3. \A y \in S : m - y \in T /\ y \in 0..m
    OBVIOUS
  <1>4. \A d \in T : \E y \in S : d = m - y
    OBVIOUS
  <1> HIDE DEF T
  <1>5. PICK d \in T : \A e \in T : d =< e
    BY <1>1, <1>2, LeastExists
  <1>6. PICK x \in S : d = m - x
    BY <1>4
  <1>7. \A y \in S : y =< x
    BY <1>3, <1>5, <1>6
  <1> QED BY <1>7

(* Whichever backups are trimmed, as many as are retained stay that are     *)
(* later than any of them, and as many of the latest as there were.         *)
LEMMA TrimmedOldest ==
  ASSUME TypeInv, NEW removed \in SUBSET Excess(dir)
  PROVE  LET D == DOMAIN dir.backups
             Left(c) == {s \in D \ removed : s >= c}
         IN  /\ removed \in SUBSET D
             /\ \A c \in Nat : Cardinality(Latest(c)) >= MaxBackups =>
                                  Cardinality(Left(c)) >= MaxBackups
             /\ \A x \in removed : Cardinality(Left(x + 1)) >= MaxBackups
  <1> DEFINE D == DOMAIN dir.backups
             Left(c) == {s \in D \ removed : s >= c}
             After(s) == {t \in D : t > s}
  <1>1. D \in SUBSET (0..second) /\ second \in Nat /\ IsFiniteSet(D)
    BY WrittenTyped
  <1>2. removed \in SUBSET D /\ \A x \in removed : Cardinality(After(x)) >= MaxBackups
    BY DEF Excess
  <1>3. \A c : Latest(c) = {s \in D : s >= c}
    BY DEF Latest
  <1> HIDE DEF D
  <1>4. ASSUME NEW S \in SUBSET D PROVE IsFiniteSet(S) /\ Cardinality(S) \in Nat
    BY <1>1, FS_Subset, FS_CardinalityType
  <1>5. ASSUME NEW c \in Nat, Cardinality(Latest(c)) >= MaxBackups
        PROVE  Cardinality(Left(c)) >= MaxBackups
    <2> DEFINE R == {x \in removed : x >= c}
    <2>1. CASE R = {}
      <3>1. Left(c) = Latest(c)
        BY <1>3, <2>1
      <3> QED BY <1>5, <3>1
    <2>2. CASE R # {}
      <3>1. R \in SUBSET (0..second)
        BY <1>1, <1>2
      <3>2. PICK x \in R : \A y \in R : y =< x
        BY <1>1, <2>2, <3>1, GreatestBelow
      <3>3. x \in removed /\ x >= c /\ x \in Nat
        BY <1>1, <1>2, <3>2
      <3>4. After(x) \in SUBSET Left(c)
        <4>1. ASSUME NEW t \in After(x) PROVE t \in D /\ t \notin removed /\ t >= c
          <5>1. t \in D /\ t > x /\ t \in Nat
            BY <1>1
          <5>2. t >= c
            BY <3>3, <5>1
          <5>3. t \notin removed
            BY <3>2, <3>3, <5>1, <5>2
          <5> QED BY <5>1, <5>2, <5>3
        <4> QED BY <4>1
      <3>5. Left(c) \in SUBSET D /\ After(x) \in SUBSET D
        OBVIOUS
      <3>6. IsFiniteSet(Left(c)) /\ Cardinality(Left(c)) \in Nat
            /\ Cardinality(After(x)) \in Nat
        BY <1>4, <3>5
      <3>7. Cardinality(After(x)) =< Cardinality(Left(c))
        BY <3>4, <3>6, FS_Subset
      <3>8. Cardinality(After(x)) >= MaxBackups
        BY <1>2, <3>3
      <3> HIDE DEF After, Left
      <3> QED BY <3>6, <3>7, <3>8, AuditAssumption
    <2> QED BY <2>1, <2>2
  <1>6. ASSUME NEW x \in removed PROVE Cardinality(Left(x + 1)) >= MaxBackups
    <2>1. x \in Nat /\ \A t \in D : t \in Nat
      BY <1>1, <1>2
    <2>2. Latest(x + 1) = After(x)
      BY <1>3, <2>1
    <2>3. x + 1 \in Nat /\ Cardinality(Latest(x + 1)) >= MaxBackups
      BY <1>2, <2>1, <2>2
    <2> QED BY <1>5, <2>3
  <1> QED BY <1>2, <1>5, <1>6 DEF D

LEMMA LaterTransitive ==
  ASSUME NEW a \in Entry, NEW b \in Entry, NEW u \in Use, Later(a, b),
         b.run = u.run /\ b.left = u.left
  PROVE  Later(a, u)
  BY DEF Later

-----------------------------------------------------------------------------
\* The steps

(* What is at the desk of a process: nothing when it is idle.               *)
Desk(p) == ~Idle(p) => Drafting(p) /\ Recording(p) /\ Cleaning(p)

(* While one process is at work the others have nothing at their desks.     *)
LEMMA AuditFrame ==
  ASSUME TypeInv, LimitInv, ~overlaps, NEW p \in Proc, Step(p),
         Ordered', \A u \in granted' : Audited(u)', Desk(p)'
  PROVE  AuditInv'
  <1>1. \A q \in Proc \ {p} : Idle(q)'
    BY OthersIdle DEF Idle
  <1>2. \A q \in Proc : Desk(q)'
    BY <1>1 DEF Desk
  <1> QED BY <1>2 DEF AuditInv, Desk

(* What is known before a step of a process.                                *)
LEMMA Before ==
  ASSUME TypeInv, LimitInv, AuditInv, ~overlaps, NEW p \in Proc
  PROVE  /\ Ordered /\ Desk(p)
         /\ \A u \in granted : Audited(u) /\ u \in Use
         /\ \A u \in used[p] : u \in Use /\ u.left \in Nat /\ u.run \in Nat
         /\ now \in Nat /\ runs \in Nat /\ Len(todo[p]) \in Nat /\ todo[p] \in Seq(Errors)
         /\ DOMAIN entry = Proc /\ DOMAIN used = Proc /\ DOMAIN fd = Proc /\ DOMAIN copy = Proc
         /\ pc \in [Proc -> Places] /\ todo \in [Proc -> Seq(Errors)] /\ run \in [Proc -> Nat]
         /\ pc[p] \in Logging => entry[p] \in Entry /\ todo[p] # <<>>
         /\ ~Idle(p) => run[p] = runs /\ \A u \in used[p] : u.run = runs
         /\ Idle(p) => used[p] = {}
         /\ ~Idle(p) /\ pc[p] # "exit" => \A u \in granted : u.run < runs
         /\ pc[p] \in {"prune", "filter", "swap"} => used[p] = {}
  <1>1. IInv /\ Plain /\ Control /\ Descriptors /\ Entries /\ Copies /\ Uses
    BY Parts
  <1>2. Ordered /\ Desk(p) /\ \A u \in granted : Audited(u)
    BY DEF AuditInv, Desk
  <1>3. /\ ~Idle(p) => Working(p)
        /\ Idle(p) => used[p] = {}
        /\ granted \subseteq counted
    BY DEF LimitInv, Saved
  <1>4. /\ \A u \in granted : u \in Use
        /\ \A u \in used[p] : u \in Use /\ u.left \in Nat /\ u.run \in Nat
    BY <1>1 DEF Plain, Uses, Use
  <1>5. Len(todo[p]) \in Nat
    BY <1>1 DEF Control
  <1>6. pc[p] \in Logging => entry[p] \in Entry /\ todo[p] # <<>>
    BY <1>1 DEF Entries, Carried, Pending
  <1>7. /\ ~Idle(p) => run[p] = runs /\ \A u \in used[p] : u.run = runs
        /\ ~Idle(p) /\ pc[p] # "exit" => \A u \in granted : u.run < runs
        /\ pc[p] \in {"prune", "filter", "swap"} => used[p] = {}
    BY <1>3 DEF Working, Idle
  <1> QED BY <1>1, <1>2, <1>3, <1>4, <1>5, <1>6, <1>7 DEF IInv, Plain, Control, Descriptors,
             Entries, Copies, Uses

(* What is written stays when the directory does, and no use is known to    *)
(* be missed and then not.                                                  *)
LEMMA SameWritten ==
  ASSUME dir' = dir
  PROVE  /\ Written' = Written /\ Logs' = Logs /\ LogLines' = LogLines
         /\ \A s : Backed(s)' = Backed(s)
         /\ now' = now /\ missed \subseteq missed' => \A u : Audited(u) => Audited(u)'
  <1>1. /\ Written' = Written /\ Logs' = Logs /\ LogLines' = LogLines
        /\ \A s : Backed(s)' = Backed(s)
    BY DEF Written, Logs, LogLines, Exists, Backed
  <1>2. \A u : (OnRecord(u)' <=> OnRecord(u)) /\ (Pushed(u)' <=> Pushed(u))
    BY <1>1 DEF OnRecord, Pushed, PushedFrom, Latest
  <1> QED BY <1>1, <1>2 DEF Audited, OfAge

LEMMA SameOrder ==
  ASSUME TypeInv, Ordered, dir' = dir, runs' \in {runs, runs + 1}
  PROVE  Ordered'
  <1>1. \A e \in Written : e.run =< runs => e.run =< runs'
    <2>1. \A e \in Written : e.run \in Nat
      BY WrittenTyped DEF Entry
    <2>2. runs \in Nat
      BY Parts DEF Plain
    <2> QED BY <2>1, <2>2
  <1> QED BY <1>1, SameWritten DEF Ordered

(* Steps that neither write nor begin to log or stop.                       *)
LEMMA QuietAudit ==
  ASSUME TypeInv, LimitInv, AuditInv, ~overlaps, NEW p \in Proc, Step(p), ~Idle(p),
         UNCHANGED <<dir, now, runs, todo, entry, run, used, granted>>,
         missed \subseteq missed',
         pc'[p] \in Logging <=> pc[p] \in Logging,
         pc'[p] \notin {"record", "append", "swap"}
  PROVE  AuditInv'
  <1>1. /\ Ordered /\ Drafting(p) /\ Recording(p)
        /\ \A u \in granted : Audited(u)
    BY Before DEF Desk
  <1>2. Ordered'
    BY <1>1, SameOrder
  <1>3. Drafting(p)'
    BY <1>1, SameWritten DEF Drafting
  <1>4. Recording(p)'
    BY <1>1, SameWritten DEF Recording
  <1>5. Cleaning(p)'
    BY DEF Cleaning
  <1>6. \A u \in granted' : Audited(u)'
    BY <1>1, SameWritten
  <1> QED BY <1>2, <1>3, <1>4, <1>5, <1>6, AuditFrame DEF Desk

LEMMA StartAudit ==
  ASSUME TypeInv, LimitInv, AuditInv, ~overlaps, NEW p \in Proc, Invoke(p) \/ Cleanup(p)
  PROVE  AuditInv'
  <1>1. Step(p)
    BY DEF Step
  <1>2. /\ UNCHANGED <<dir, now, granted, missed, entry, used>> /\ runs' = runs + 1
        /\ run'[p] = runs + 1 /\ pc'[p] \in {"load", "prune"} /\ used[p] = {}
    BY Before DEF Invoke, Cleanup, Starts, files, ghost
  <1>3. Ordered /\ runs \in Nat /\ \A u \in granted : Audited(u)
    BY Before
  <1>4. Ordered'
    BY <1>2, <1>3, SameOrder
  <1>5. \A u \in granted' : Audited(u)'
    BY <1>2, <1>3, SameWritten
  <1>6. \A e \in Written' : e.run < run'[p]
    <2>1. \A e \in Written : e.run =< runs /\ e.run \in Nat
      BY <1>3, WrittenTyped DEF Ordered, Entry
    <2> QED BY <1>2, <1>3, <2>1, SameWritten
  <1>7. Drafting(p)'
    BY <1>2, <1>6 DEF Drafting, Logging
  <1>8. Recording(p)' /\ Cleaning(p)'
    BY <1>2 DEF Recording, Cleaning
  <1> QED BY <1>1, <1>4, <1>5, <1>7, <1>8, AuditFrame DEF Desk

(* The next error: what was about the others still is.                      *)
LEMMA StandAudit ==
  ASSUME TypeInv, LimitInv, AuditInv, ~overlaps, NEW p \in Proc, Stand(p)
  PROVE  AuditInv'
  <1>1. Step(p)
    BY DEF Step
  <1>2. /\ UNCHANGED <<dir, now, granted, missed, entry, used, run, runs, pc>>
        /\ pc[p] = "check" /\ todo[p] # <<>> /\ todo'[p] = Tail(todo[p])
    BY Before DEF Stand, files, ghost
  <1>3. /\ Ordered /\ Drafting(p) /\ Recording(p) /\ \A u \in granted : Audited(u)
    BY <1>2, Before DEF Desk, Idle
  <1>4. Len(todo'[p]) = Len(todo[p]) - 1 /\ Len(todo[p]) \in Nat
    BY <1>2, Before
  <1>5. Ordered'
    BY <1>2, <1>3, SameOrder
  <1>6. \A e \in Written : e.left \in Nat
    BY WrittenTyped DEF Entry
  <1>7. Drafting(p)'
    BY <1>2, <1>3, <1>4, <1>6, SameWritten DEF Drafting, Logging
  <1>8. Recording(p)'
    BY <1>2, <1>3, SameWritten DEF Recording, Logging
  <1>9. Cleaning(p)' /\ \A u \in granted' : Audited(u)'
    BY <1>2, <1>3, SameWritten DEF Cleaning
  <1> QED BY <1>1, <1>5, <1>7, <1>8, <1>9, AuditFrame DEF Desk

(* A decision: the entry to be logged is about the error at hand, of which  *)
(* no use is recorded yet.                                                  *)
LEMMA DecideAudit ==
  ASSUME TypeInv, LimitInv, AuditInv, ~overlaps, NEW p \in Proc,
         DenyByPolicy(p) \/ CheckLimits(p)
  PROVE  AuditInv'
  <1>1. Step(p)
    BY DEF Step
  <1>2. /\ UNCHANGED <<dir, now, granted, missed, todo, used, run, runs>> /\ pc[p] = "check"
        /\ \E allowed : /\ entry'[p] = NewEntry(p, allowed)
                        /\ pc'[p] \in {"record", "stat"} /\ (pc'[p] = "record" => allowed)
    <2>1. CASE DenyByPolicy(p)
      BY <2>1, Before DEF DenyByPolicy, files, ghost
    <2>2. CASE CheckLimits(p)
      <3> DEFINE allowed == Within(ResetIfExpired(mem[p], now), FoundToken(cmd[p]).code)
      <3>1. /\ UNCHANGED <<dir, now, granted, missed, todo, used, run, runs>>
            /\ pc[p] = "check"
            /\ entry' = [entry EXCEPT ![p] = NewEntry(p, allowed)]
            /\ pc' = [pc EXCEPT ![p] = IF allowed THEN "record" ELSE "stat"]
        BY <2>2 DEF CheckLimits, files, ghost
      <3> HIDE DEF allowed
      <3>2. entry'[p] = NewEntry(p, allowed) /\ pc'[p] = IF allowed THEN "record" ELSE "stat"
        BY <3>1, Before
      <3> QED BY <3>1, <3>2
    <2> QED BY <2>1, <2>2
  <1>3. PICK allowed : /\ entry'[p] = NewEntry(p, allowed)
                       /\ pc'[p] \in {"record", "stat"} /\ (pc'[p] = "record" => allowed)
    BY <1>2
  <1>4. /\ entry'[p].run = run[p] /\ entry'[p].left = Len(todo[p])
        /\ ~entry'[p].bad /\ ~entry'[p].open /\ entry'[p].allowed = allowed
    BY <1>3 DEF NewEntry
  <1>5. /\ Ordered /\ Drafting(p) /\ Recording(p) /\ \A u \in granted : Audited(u)
    BY <1>2, Before DEF Desk, Idle
  <1>6. Ordered'
    BY <1>2, <1>5, SameOrder
  <1>7. Drafting(p)'
    BY <1>2, <1>3, <1>4, <1>5, SameWritten DEF Drafting
  <1>8. \A u \in used[p] : u.left > Len(todo[p]) /\ u.left \in Nat /\ Len(todo[p]) \in Nat
    BY <1>2, Before DEF LimitInv, Idle, Working
  <1>9. Recording(p)'
    BY <1>2, <1>5, <1>8, SameWritten DEF Recording, Logging
  <1>10. Cleaning(p)' /\ \A u \in granted' : Audited(u)'
    BY <1>2, <1>3, <1>5, SameWritten DEF Cleaning
  <1> QED BY <1>1, <1>6, <1>7, <1>9, <1>10, AuditFrame DEF Desk

(* A use is recorded while the entry about it waits to be logged.           *)
LEMMA RecordAudit ==
  ASSUME TypeInv, LimitInv, AuditInv, ~overlaps, NEW p \in Proc, RecordUse(p)
  PROVE  AuditInv'
  <1> DEFINE new == [run |-> run[p], left |-> Len(todo[p]), code |-> entry[p].code,
                     at |-> now, asked |-> entry[p].at]
  <1>1. Step(p)
    BY DEF Step
  <1>2. /\ UNCHANGED <<dir, now, granted, missed, todo, entry, run, runs>>
        /\ pc[p] = "record" /\ pc'[p] = "stat" /\ used'[p] = used[p] \cup {new}
    <2>1. {u \in {new} : ~overlaps} = {new}
      OBVIOUS
    <2> HIDE DEF new
    <2>2. used'[p] = used[p] \cup {u \in {new} : ~overlaps}
      BY Before DEF RecordUse, new
    <2> QED BY <2>1, <2>2, Before DEF RecordUse, files, ghost
  <1>3. new.left = Len(todo[p]) /\ new.asked = entry[p].at
    OBVIOUS
  <1> HIDE DEF new
  <1>4. /\ Ordered /\ Drafting(p) /\ Recording(p) /\ \A u \in granted : Audited(u)
    BY <1>2, Before DEF Desk, Idle
  <1>5. Ordered'
    BY <1>2, <1>4, SameOrder
  <1>6. Drafting(p)'
    BY <1>2, <1>4, SameWritten DEF Drafting, Logging
  <1>7. \A u \in used[p] : u.left > Len(todo[p]) /\ u.left \in Nat /\ Len(todo[p]) \in Nat
    BY <1>2, Before DEF LimitInv, Idle, Working
  <1>8. \A u \in used[p] : Audited(u)
    BY <1>4, <1>7 DEF Recording
  <1>9. entry[p].allowed
    BY <1>2, <1>4 DEF Drafting
  <1>10. Recording(p)'
    BY <1>2, <1>3, <1>7, <1>8, <1>9, SameWritten DEF Recording, Logging
  <1>11. Cleaning(p)' /\ \A u \in granted' : Audited(u)'
    BY <1>2, <1>4, SameWritten DEF Cleaning
  <1> QED BY <1>1, <1>5, <1>6, <1>10, <1>11, AuditFrame DEF Desk

LEMMA ControlAudit ==
  ASSUME TypeInv, LimitInv, AuditInv, ~overlaps, NEW p \in Proc,
         LoadState(p) \/ StatLog(p) \/ OpenState(p) \/ WriteState(p) \/ RenameState(p)
  PROVE  AuditInv'
  <1>1. Step(p)
    BY DEF Step
  <1>2. /\ UNCHANGED <<dir, now, runs, todo, entry, run, used, granted, missed>>
        /\ \/ pc[p] = "load" /\ pc'[p] = "check"
           \/ pc[p] = "stat" /\ pc'[p] \in {"rotate", "openlog"}
           \/ pc[p] = "check" /\ pc'[p] = "write"
           \/ pc[p] = "write" /\ pc'[p] = "rename"
           \/ pc[p] = "rename" /\ pc'[p] = "exit"
    <2>1. pc \in [Proc -> Places]
      BY Before
    <2>2. CASE LoadState(p)
      BY <2>1, <2>2 DEF LoadState, files, ghost
    <2>3. CASE StatLog(p)
      BY <2>1, <2>3 DEF StatLog, files, ghost
    <2>4. CASE OpenState(p)
      BY <2>1, <2>4 DEF OpenState, ghost
    <2>5. CASE WriteState(p)
      BY <2>1, <2>5 DEF WriteState, ghost
    <2>6. CASE RenameState(p)
      BY <2>1, <2>6 DEF RenameState
    <2> QED BY <2>2, <2>3, <2>4, <2>5, <2>6
  <1>3. /\ ~Idle(p) /\ pc'[p] \notin {"record", "append", "swap"}
        /\ pc'[p] \in Logging <=> pc[p] \in Logging
    BY <1>2 DEF Idle, Logging
  <1>4. missed \subseteq missed'
    BY <1>2
  <1> QED BY <1>1, <1>2, <1>3, <1>4, QuietAudit

(* A rotation moves what is in the log to a backup newer than all others,   *)
(* or in the place of the newest, whose uses are missed.                    *)
LEMMA RotateAudit ==
  ASSUME TypeInv, LimitInv, AuditInv, ~overlaps, NEW p \in Proc, RotateLog(p)
  PROVE  AuditInv'
  <1>1. Step(p)
    BY DEF Step
  <1>2. /\ UNCHANGED <<now, granted, todo, entry, used, run, runs>>
        /\ pc[p] = "rotate" /\ pc'[p] \in {"openlog", "trim"}
    BY Before DEF RotateLog
  <1>3. CASE dir' = dir /\ missed' = missed
    BY <1>1, <1>2, <1>3, QuietAudit DEF Logging, Idle
  <1>4. CASE /\ Exists(dir) /\ dir' = Rotated(dir, second')
             /\ second' \in {second + 1} \cup ({second} \cap DOMAIN dir.backups)
             /\ missed' = missed \cup
                    (IF second' \in DOMAIN dir.backups
                     THEN About(granted \cup used[p], dir.backups[second']) ELSE {})
    <2> DEFINE D == DOMAIN dir.backups
    <2>0. PICK s1 : s1 = second'
      OBVIOUS
    <2>1. /\ D \in SUBSET (0..second) /\ second \in Nat /\ IsFiniteSet(D)
          /\ s1 \in Nat /\ \A s \in D : s =< s1 /\ s \in Nat
      <3>1. D \in SUBSET (0..second) /\ second \in Nat /\ IsFiniteSet(D)
        BY WrittenTyped
      <3>2. s1 = second + 1 \/ s1 = second
        BY <1>4, <2>0
      <3> QED BY <3>1, <3>2
    <2>2. /\ dir'.log = Missing /\ DOMAIN dir'.backups = D \cup {s1}
          /\ dir'.backups[s1] = dir.log
          /\ \A s \in D \ {s1} : dir'.backups[s] = dir.backups[s]
      BY <1>4, <2>0, <2>1 DEF Rotated
    <2>3. /\ Logs' = {} /\ Backed(s1)' = Logs
          /\ \A s \in D \ {s1} : Backed(s)' = Backed(s)
      <3>1. Logs' = {}
        BY <2>2 DEF Logs, Exists
      <3>2. Backed(s1)' = ToSet(dir.log) /\ Logs = ToSet(dir.log)
        BY <1>4, <2>2 DEF Logs, Exists, Backed
      <3>3. \A s \in D \ {s1} : Backed(s)' = Backed(s)
        BY <2>2 DEF Backed
      <3> QED BY <3>1, <3>2, <3>3
    <2>4. Written' \in SUBSET Written
      <3>1. \A e : e \in Written <=> e \in Logs \/ \E s \in D : e \in Backed(s)
        BY WrittenIs
      <3>2. \A e : e \in Written' <=> e \in Logs' \/ \E s \in D \cup {s1} : e \in Backed(s)'
        BY <2>2, WrittenIsPrimed
      <3> HIDE DEF D
      <3>3. \A e : e \in Written' => e \in Written
        BY <2>3, <3>1, <3>2
      <3> QED BY <3>3
    <2>5. /\ Ordered /\ Drafting(p) /\ Recording(p) /\ \A u \in granted : Audited(u)
      BY <1>2, Before DEF Desk, Idle
    <2>6. Ordered'
      <3>1. \A e \in Logs' : \A s \in DOMAIN dir'.backups : \A b \in Backed(s)' : Later(e, b)
        BY <2>3
      <3>2. ASSUME NEW s \in DOMAIN dir'.backups, NEW t \in DOMAIN dir'.backups, s < t,
                   NEW b \in Backed(s)', NEW e \in Backed(t)'
            PROVE  Later(e, b)
        <4>1. s # s1 /\ s \in D
          <5>1. t =< s1 /\ t \in Nat
            BY <2>1, <2>2
          <5>2. s # s1
            BY <2>1, <2>2, <3>2, <5>1
          <5> QED BY <2>2, <5>2
        <4>2. CASE t = s1
          <5>1. b \in Backed(s) /\ e \in Logs
            BY <2>3, <3>2, <4>1, <4>2
          <5> QED BY <2>5, <4>1, <5>1 DEF Ordered
        <4>3. CASE t # s1
          <5>1. t \in D
            BY <2>2, <4>3
          <5>2. b \in Backed(s) /\ e \in Backed(t)
            BY <2>3, <3>2, <4>1, <4>3, <5>1
          <5> QED BY <2>5, <3>2, <4>1, <5>1, <5>2 DEF Ordered
        <4> QED BY <4>2, <4>3
      <3>3. \A e \in Written' : e.run =< runs'
        BY <1>2, <2>4, <2>5 DEF Ordered
      <3> QED BY <3>1, <3>2, <3>3 DEF Ordered
    <2>7. ASSUME NEW u \in granted \cup used[p], Audited(u) PROVE Audited(u)'
      <3>1. CASE u \in missed \/ OfAge(u)
        BY <1>2, <1>4, <3>1 DEF Audited, OfAge
      <3>2. CASE OnRecord(u)
        <4>1. PICK e \in Kept(dir) : ~e.open /\ Recorded(u, e)
          BY <3>2 DEF OnRecord
        <4>2. CASE e \in Legible(LogLines)
          <5>1. LogLines = dir.log
            BY <1>4 DEF LogLines
          <5>2. e \in Legible(dir'.backups[s1]) /\ s1 \in DOMAIN dir'.backups
            BY <2>2, <4>2, <5>1
          <5>3. e \in Kept(dir)'
            BY <5>2, KeptIsPrimed
          <5> QED BY <4>1, <5>3 DEF OnRecord, Recorded, Audited
        <4>3. CASE \E s \in D \ {s1} : e \in Legible(dir.backups[s])
          <5>1. PICK s \in D \ {s1} : e \in Legible(dir.backups[s])
            BY <4>3
          <5>2. e \in Legible(dir'.backups[s]) /\ s \in DOMAIN dir'.backups
            BY <2>2, <5>1
          <5>3. e \in Kept(dir)'
            BY <5>2, KeptIsPrimed
          <5> QED BY <4>1, <5>3 DEF OnRecord, Recorded, Audited
        <4>4. CASE s1 \in D /\ e \in Legible(dir.backups[s1])
          <5>1. e \in ToSet(dir.backups[s1])
            BY <4>4, WrittenTyped, LegibleIs
          <5>2. u \in About(granted \cup used[p], dir.backups[s1])
            BY <4>1, <5>1 DEF About, Recorded
          <5>3. u \in missed'
            BY <1>4, <2>0, <4>4, <5>2
          <5> QED BY <5>3 DEF Audited
        <4> QED BY <4>1, <4>2, <4>3, <4>4, KeptIs
      <3>3. CASE Pushed(u)
        <4>1. PICK c \in Nat : PushedFrom(u, c)
          BY <3>3 DEF Pushed
        <4>2. Latest(c)' = {s \in D \cup {s1} : s >= c}
          BY <2>2 DEF Latest
        <4>3. Latest(c) = {s \in D : s >= c}
          BY DEF Latest
        <4>4. Cardinality(Latest(c)') >= MaxBackups
          <5>1. IsFiniteSet(D \cup {s1})
            BY <2>1, FS_AddElement
          <5>2. IsFiniteSet(Latest(c)') /\ Latest(c) \in SUBSET Latest(c)'
            <6> HIDE DEF D
            <6>1. Latest(c)' \in SUBSET (D \cup {s1}) /\ Latest(c) \in SUBSET Latest(c)'
              BY <4>2, <4>3
            <6> QED BY <5>1, <6>1, FS_Subset
          <5>3. /\ Cardinality(Latest(c)) \in Nat /\ Cardinality(Latest(c)') \in Nat
                /\ Cardinality(Latest(c)) =< Cardinality(Latest(c)')
            BY <5>2, FS_Subset, FS_CardinalityType
          <5>4. Cardinality(Latest(c)) >= MaxBackups
            BY <4>1 DEF PushedFrom
          <5> QED BY <5>3, <5>4, AuditAssumption
        <4>5. ASSUME NEW s \in Latest(c)', NEW e \in Backed(s)' PROVE Later(e, u)
          <5>1. CASE s = s1
            BY <2>3, <4>1, <4>5, <5>1 DEF PushedFrom
          <5>2. CASE s # s1
            <6>1. s \in D \ {s1} /\ s \in Latest(c)
              BY <4>2, <4>3, <5>2
            <6>2. e \in Backed(s)
              BY <2>3, <4>5, <6>1
            <6> QED BY <4>1, <6>1, <6>2 DEF PushedFrom
          <5> QED BY <5>1, <5>2
        <4>6. PushedFrom(u, c)'
          BY <2>3, <4>4, <4>5 DEF PushedFrom
        <4> QED BY <4>6 DEF Audited, Pushed
      <3> QED BY <2>7, <3>1, <3>2, <3>3 DEF Audited
    <2> HIDE DEF D
    <2>8. pc'[p] \in Logging /\ pc[p] \in Logging /\ pc'[p] \notin {"record", "append", "swap"}
      BY <1>2 DEF Logging
    <2>9. Drafting(p)'
      BY <1>2, <2>4, <2>5, <2>8 DEF Drafting
    <2>10. Recording(p)'
      BY <1>2, <2>5, <2>7, <2>8 DEF Recording
    <2>11. Cleaning(p)' /\ \A u \in granted' : Audited(u)'
      BY <1>2, <2>5, <2>7, <2>8 DEF Cleaning
    <2> QED BY <1>1, <2>6, <2>9, <2>10, <2>11, AuditFrame DEF Desk
  <1>5. \/ dir' = dir /\ missed' = missed
        \/ /\ Exists(dir) /\ dir' = Rotated(dir, second')
           /\ second' \in {second + 1} \cup ({second} \cap DOMAIN dir.backups)
           /\ missed' = missed \cup
                  (IF second' \in DOMAIN dir.backups
                   THEN About(granted \cup used[p], dir.backups[second']) ELSE {})
    BY DEF RotateLog
  <1> QED BY <1>3, <1>4, <1>5

(* Trimming loses the oldest entries, when as many backups as are to be     *)
(* retained are newer.                                                      *)
LEMMA TrimAudit ==
  ASSUME TypeInv, LimitInv, AuditInv, ~overlaps, NEW p \in Proc, TrimBackups(p)
  PROVE  AuditInv'
  <1> DEFINE D == DOMAIN dir.backups
  <1>1. Step(p)
    BY DEF Step
  <1>2. /\ UNCHANGED <<now, granted, missed, todo, entry, used, run, runs>>
        /\ \/ pc[p] = "trim" /\ pc'[p] = "openlog"
           \/ pc[p] = "prune" /\ pc'[p] \in {"filter", "exit"}
    <2>1. /\ pc[p] \in {"trim", "prune"}
          /\ \/ pc' = [pc EXCEPT ![p] = IF @ = "trim" THEN "openlog" ELSE "filter"]
             \/ pc[p] = "prune" /\ pc' = [pc EXCEPT ![p] = "exit"]
      BY DEF TrimBackups
    <2> QED BY <2>1, Before DEF TrimBackups, ghost
  <1>3. PICK removed \in SUBSET Excess(dir) : dir' = Trimmed(dir, removed)
    BY DEF TrimBackups
  <1> DEFINE X == removed
  <1>4. /\ dir'.log = dir.log /\ DOMAIN dir'.backups = D \ X
        /\ \A s \in D \ X : dir'.backups[s] = dir.backups[s]
    <2>1. dir = [log |-> dir.log, backups |-> dir.backups]
      BY Parts DEF Log
    <2>2. dir' = [log |-> dir.log, backups |-> [s \in D \ X |-> dir.backups[s]]]
      BY <1>3, <2>1 DEF Trimmed
    <2> HIDE DEF D, X
    <2> QED BY <2>2
  <1>5. /\ Logs' = Logs /\ LogLines' = LogLines /\ \A s \in D \ X : Backed(s)' = Backed(s)
    BY <1>4 DEF Logs, LogLines, Exists, Backed
  <1>6. /\ X \in SUBSET D
        /\ \A c \in Nat : Cardinality(Latest(c)) >= MaxBackups =>
                             Cardinality({s \in D \ X : s >= c}) >= MaxBackups
        /\ \A x \in X : Cardinality({s \in D \ X : s >= x + 1}) >= MaxBackups
    BY TrimmedOldest
  <1>7. D \in SUBSET Nat
    BY WrittenTyped
  <1>8. /\ Ordered /\ Drafting(p) /\ Recording(p) /\ \A u \in granted : Audited(u)
    BY <1>2, Before DEF Desk, Idle
  <1>9. \A c : Latest(c)' = {s \in D \ X : s >= c} /\ Latest(c)' \in SUBSET Latest(c)
    BY <1>4 DEF Latest
  <1> HIDE DEF D, X
  <1>10. Written' \subseteq Written
    BY <1>4, <1>5, WrittenIs, WrittenIsPrimed DEF D
  <1>11. Ordered'
    BY <1>2, <1>4, <1>5, <1>8, <1>10 DEF Ordered, D
  <1>12. ASSUME NEW u \in Use, Audited(u) PROVE Audited(u)'
    <2>1. CASE u \in missed \/ OfAge(u)
      BY <1>2, <2>1 DEF Audited, OfAge
    <2>2. CASE OnRecord(u)
      <3>1. PICK e \in Kept(dir) : ~e.open /\ Recorded(u, e)
        BY <2>2 DEF OnRecord
      <3>2. CASE e \in Kept(dir)'
        BY <3>1, <3>2 DEF OnRecord, Recorded, Audited
      <3>3. CASE e \notin Kept(dir)'
        <4>1. PICK x \in X : e \in Legible(dir.backups[x])
          <5>1. \/ e \in Legible(LogLines)
                \/ \E s \in D : e \in Legible(dir.backups[s])
            BY <3>1, KeptIs DEF D
          <5>2. e \notin Legible(LogLines)
            BY <1>5, <3>3, KeptIsPrimed
          <5>3. \A s \in D \ X : e \notin Legible(dir.backups[s])
            BY <1>4, <3>3, KeptIsPrimed
          <5> QED BY <5>1, <5>2, <5>3
        <4>2. x \in D /\ x \in Nat /\ e \in Backed(x) /\ e \in Entry
          <5>1. x \in D /\ x \in Nat
            BY <1>6, <1>7
          <5>2. dir.backups[x] \in Seq(Entry)
            BY <5>1, WrittenTyped DEF D
          <5> QED BY <4>1, <5>1, <5>2, LegibleIs DEF Backed
        <4>3. e.run = u.run /\ e.left = u.left
          BY <3>1 DEF Recorded
        <4>4. \A l \in Logs : Later(l, u)
          <5> SUFFICES ASSUME NEW l \in Logs PROVE Later(l, u)
            OBVIOUS
          <5>1. Later(l, e)
            BY <1>8, <4>2 DEF Ordered, D
          <5>2. l \in Entry
            BY WrittenTyped
          <5> QED BY <4>2, <4>3, <5>1, <5>2, LaterTransitive
        <4>5. ASSUME NEW s \in D, s >= x + 1, NEW b \in Backed(s) PROVE Later(b, u)
          <5>1. x < s
            BY <1>7, <4>2, <4>5
          <5>2. Later(b, e)
            BY <1>8, <4>2, <4>5, <5>1 DEF Ordered, D
          <5>3. b \in Entry
            BY <4>5, WrittenTyped DEF D
          <5> QED BY <4>2, <4>3, <5>2, <5>3, LaterTransitive
        <4>6. PushedFrom(u, x + 1)'
          <5>1. Cardinality(Latest(x + 1)') >= MaxBackups
            BY <1>6, <1>9
          <5>2. ASSUME NEW s \in Latest(x + 1)', NEW b \in Backed(s)' PROVE Later(b, u)
            <6>1. s \in D \ X /\ s >= x + 1
              BY <1>9, <5>2
            <6>2. b \in Backed(s)
              BY <1>5, <5>2, <6>1
            <6> QED BY <4>5, <6>1, <6>2
          <5> QED BY <1>5, <4>4, <5>1, <5>2 DEF PushedFrom
        <4>7. x + 1 \in Nat
          BY <4>2
        <4> QED BY <4>6, <4>7 DEF Audited, Pushed
      <3> QED BY <3>2, <3>3
    <2>3. CASE Pushed(u)
      <3>1. PICK c \in Nat : PushedFrom(u, c)
        BY <2>3 DEF Pushed
      <3>2. Cardinality(Latest(c)') >= MaxBackups
        BY <1>6, <1>9, <3>1 DEF PushedFrom
      <3>3. ASSUME NEW s \in Latest(c)', NEW b \in Backed(s)' PROVE Later(b, u)
        <4>1. s \in D \ X /\ s \in Latest(c)
          BY <1>9, <3>3
        <4>2. b \in Backed(s)
          BY <1>5, <3>3, <4>1
        <4> QED BY <3>1, <4>1, <4>2 DEF PushedFrom
      <3>4. PushedFrom(u, c)'
        BY <1>5, <3>1, <3>2, <3>3 DEF PushedFrom
      <3> QED BY <3>4 DEF Audited, Pushed
    <2> QED BY <1>12, <2>1, <2>2, <2>3 DEF Audited
  <1>13. /\ pc'[p] \in Logging <=> pc[p] \in Logging
         /\ pc'[p] \notin {"record", "append", "swap"}
    BY <1>2 DEF Logging
  <1>14. Drafting(p)'
    BY <1>2, <1>8, <1>10, <1>13 DEF Drafting
  <1>15. Recording(p)'
    BY <1>2, <1>8, <1>12, <1>13, Before DEF Recording
  <1>16. Cleaning(p)' /\ \A u \in granted' : Audited(u)'
    BY <1>2, <1>8, <1>12, <1>13, Before DEF Cleaning
  <1> QED BY <1>1, <1>11, <1>14, <1>15, <1>16, AuditFrame DEF Desk

(* A log that is opened may be new, and is then empty.                      *)
LEMMA OpenAudit ==
  ASSUME TypeInv, LimitInv, AuditInv, ~overlaps, NEW p \in Proc, pc[p] = "openlog",
         OpenLog(p), fd'[p] = LogFile, pc'[p] = "append",
         UNCHANGED <<todo, entry, missed>>,
         dir' = [dir EXCEPT !.log = IF @ = Missing THEN <<>> ELSE @]
  PROVE  AuditInv'
  <1>1. Step(p)
    BY DEF Step
  <1>2. UNCHANGED <<now, granted, missed, todo, entry, used, run, runs>>
    BY DEF OpenLog
  <1>3. /\ dir'.log = IF dir.log = Missing THEN <<>> ELSE dir.log
        /\ dir'.backups = dir.backups
    <2>1. dir = [log |-> dir.log, backups |-> dir.backups]
      BY Parts DEF Log
    <2> QED BY <2>1
  <1>4. /\ LogLines' = LogLines /\ \A s : Backed(s)' = Backed(s)
    BY <1>3 DEF LogLines, Exists, Backed
  <1>5. Logs' = Logs
    <2>1. ToSet(<<>>) = {}
      BY DEF ToSet
    <2>2. CASE dir.log = Missing
      <3>1. Logs = {} /\ dir'.log = <<>>
        BY <1>3, <2>2 DEF Logs, Exists
      <3>2. Logs' = {}
        BY <2>1, <3>1 DEF Logs
      <3> QED BY <3>1, <3>2
    <2>3. CASE dir.log # Missing
      BY <1>3, <2>3 DEF Logs, Exists
    <2> QED BY <2>2, <2>3
  <1>6. Written' = Written
    BY <1>3, <1>4, <1>5 DEF Written
  <1>7. \A e : e \in Kept(dir)' <=> e \in Kept(dir)
    BY <1>3, <1>4, KeptIs, KeptIsPrimed
  <1>8. /\ Ordered /\ Drafting(p) /\ Recording(p) /\ \A u \in granted : Audited(u)
    BY Before DEF Desk, Idle
  <1>9. Ordered'
    BY <1>2, <1>3, <1>4, <1>5, <1>6, <1>8 DEF Ordered
  <1>10. \A u : Audited(u) => Audited(u)'
    <2>1. \A u : OnRecord(u)' <=> OnRecord(u)
      BY <1>7 DEF OnRecord, Recorded
    <2>2. \A u : Pushed(u)' <=> Pushed(u)
      BY <1>3, <1>4, <1>5 DEF Pushed, PushedFrom, Latest
    <2> QED BY <1>2, <2>1, <2>2 DEF Audited, OfAge
  <1>11. Drafting(p)'
    BY <1>2, <1>6, <1>8 DEF Drafting, Logging
  <1>12. Recording(p)'
    BY <1>2, <1>8, <1>10 DEF Recording, Logging
  <1>13. Cleaning(p)' /\ \A u \in granted' : Audited(u)'
    BY <1>2, <1>8, <1>10 DEF Cleaning
  <1> QED BY <1>1, <1>9, <1>11, <1>12, <1>13, AuditFrame DEF Desk

(* An entry that is not written: the use it is about is missed.             *)
LEMMA LostAudit ==
  ASSUME TypeInv, LimitInv, AuditInv, ~overlaps, NEW p \in Proc, Step(p),
         pc[p] \in Logging, Logged(p), dir' = dir, missed' = missed \cup Own(p),
         UNCHANGED <<now, granted, used, run, runs>>
  PROVE  AuditInv'
  <1>1. /\ Ordered /\ Drafting(p) /\ Recording(p) /\ (\A u \in granted : Audited(u))
        /\ pc'[p] = "check" /\ todo'[p] = Tail(todo[p]) /\ todo[p] # <<>>
        /\ Len(todo[p]) \in Nat /\ todo[p] \in Seq(Errors)
    BY Before DEF Logged, Desk, Idle, Logging
  <1>2. Len(todo'[p]) = Len(todo[p]) - 1
    BY <1>1
  <1>3. missed \subseteq missed'
    OBVIOUS
  <1>4. \A u : Audited(u) => Audited(u)'
    BY <1>3, SameWritten
  <1>5. Ordered'
    BY <1>1, SameOrder
  <1>6. \A e \in Written : e.left \in Nat
    BY WrittenTyped DEF Entry
  <1>7. Drafting(p)'
    BY <1>1, <1>2, <1>6, SameWritten DEF Drafting, Logging
  <1>8. ASSUME NEW u \in used[p] PROVE Audited(u)'
    <2>1. CASE u.left = Len(todo[p])
      BY <2>1 DEF Own, Audited
    <2>2. CASE u.left # Len(todo[p])
      BY <1>1, <1>4, <2>2 DEF Recording
    <2> QED BY <2>1, <2>2
  <1>9. Recording(p)'
    BY <1>1, <1>8 DEF Recording, Logging
  <1>10. Cleaning(p)' /\ \A u \in granted' : Audited(u)'
    BY <1>1, <1>4 DEF Cleaning
  <1> QED BY <1>5, <1>7, <1>9, <1>10, AuditFrame DEF Desk

(* What is appended is later than everything written, and it takes no line  *)
(* that is whole from what can be read; of the uses that are not on record  *)
(* yet it is the entry, or they are missed.                                 *)
LEMMA AppendAudit ==
  ASSUME TypeInv, LimitInv, AuditInv, ~overlaps, NEW p \in Proc, AppendEntry(p),
         ~(dir' = dir /\ missed' = missed \cup Own(p))
  PROVE  AuditInv'
  <1> DEFINE e == entry[p]
  <1>1. Step(p)
    BY DEF Step
  <1>2. /\ Ordered /\ Drafting(p) /\ Recording(p) /\ \A u \in granted : Audited(u) /\ u \in Use
        /\ \A u \in used[p] : u.left \in Nat /\ u.run = runs
        /\ e \in Entry /\ todo[p] # <<>> /\ Len(todo[p]) \in Nat /\ todo[p] \in Seq(Errors)
        /\ run[p] = runs /\ runs \in Nat /\ \A u \in granted : u.run < runs
    BY Before DEF AppendEntry, Desk, Idle, Logging
  <1>3. /\ UNCHANGED <<now, granted, used, run, runs>>
        /\ pc[p] = "append" /\ pc'[p] = "check" /\ todo'[p] = Tail(todo[p])
    BY Before DEF AppendEntry, Logged
  <1>4. /\ fd[p] = LogFile /\ e.run = run[p] /\ e.left = Len(todo[p])
        /\ ~e.bad /\ ~e.open
    BY <1>2, <1>3 DEF Drafting, Logging
  <1>5. PICK line \in {e} \cup Cut(e) :
           /\ line \in Entry /\ dir.log \in Seq(Entry) /\ Added(dir.log, line) \in Seq(Entry)
           /\ missed' = IF line = e /\ Readable(dir.log, line) THEN missed
                        ELSE missed \cup Own(p)
           /\ dir' = [dir EXCEPT !.log = Added(dir.log, line)] /\ dir'.backups = dir.backups
    <2>1. \A s : fd[p] # Backup(s)
      BY <1>4, FileNames
    <2> HIDE DEF e
    <2>2. PICK line \in {entry[p]} \cup Cut(entry[p]) :
             /\ line \in Entry /\ Opened(p) \in Seq(Entry)
             /\ Added(Opened(p), line) \in Seq(Entry)
             /\ missed' = IF line = entry[p] /\ Readable(Opened(p), line) THEN missed
                          ELSE missed \cup Own(p)
             /\ Opened(p) = dir.log /\ dir'.backups = dir.backups
             /\ dir' = [dir EXCEPT !.log = Added(Opened(p), line)]
      BY <2>1, AppendEffect
    <2> QED BY <2>2 DEF e
  <1> DEFINE new == Added(dir.log, line)
  <1>6. dir'.log = new
    <2>1. dir = [log |-> dir.log, backups |-> dir.backups]
      BY Parts DEF Log
    <2> HIDE DEF new
    <2> QED BY <1>5, <2>1 DEF new
  <1>7. /\ \A x \in Legible(dir.log) : ~x.open => x \in Legible(new)
        /\ Readable(dir.log, line) /\ ~line.bad => line \in Legible(new)
        /\ \A x \in ToSet(new) : x \in ToSet(dir.log) \/ SameError(x, line)
    BY <1>5, AddedLegible
  <1>8. line.run = runs /\ line.left = Len(todo[p])
    BY <1>2, <1>4, <1>5, CutTyped
  <1> HIDE DEF e, new
  <1>9. Exists(dir) /\ Exists(dir)'
    BY <1>5, <1>6, LogAssumption DEF Exists, new
  <1>10. /\ Logs = ToSet(dir.log) /\ Logs' = ToSet(new)
         /\ LogLines = dir.log /\ LogLines' = new
         /\ \A s : Backed(s)' = Backed(s)
    BY <1>5, <1>6, <1>9 DEF Logs, LogLines, Backed
  <1>11. ASSUME NEW x, x.run = runs, x.left = Len(todo[p])
         PROVE  /\ \A b \in Written : Later(x, b)
                /\ \A u \in granted : Later(x, u)
                /\ \A u \in used[p] : u.left > Len(todo[p]) => Later(x, u)
    BY <1>2, <1>11 DEF Drafting, Later
  <1>12. \A x \in Logs' : x \in Logs \/ (x.run = runs /\ x.left = Len(todo[p]))
    BY <1>7, <1>8, <1>10 DEF SameError
  <1>13. \A x \in Written' : x \in Written \/ (x.run = runs /\ x.left = Len(todo[p]))
    BY <1>5, <1>10, <1>12, WrittenIs, WrittenIsPrimed
  <1>14. Ordered'
    <2>1. \A a \in Logs' : \A s \in DOMAIN dir'.backups : \A b \in Backed(s)' : Later(a, b)
      BY <1>2, <1>5, <1>10, <1>11, <1>12, WrittenIs DEF Ordered
    <2>2. \A s, t \in DOMAIN dir'.backups :
             s < t => \A b \in Backed(s)', a \in Backed(t)' : Later(a, b)
      BY <1>2, <1>5, <1>10 DEF Ordered
    <2>3. \A a \in Written' : a.run =< runs'
      BY <1>2, <1>3, <1>13 DEF Ordered
    <2> QED BY <2>1, <2>2, <2>3 DEF Ordered
  <1>15. ASSUME NEW u, Audited(u), \A x : x.run = runs /\ x.left = Len(todo[p]) => Later(x, u)
         PROVE  Audited(u)'
    <2>1. CASE u \in missed \/ OfAge(u)
      BY <1>3, <1>5, <2>1 DEF Audited, OfAge
    <2>2. CASE OnRecord(u)
      <3>1. PICK x \in Kept(dir) : ~x.open /\ Recorded(u, x)
        BY <2>2 DEF OnRecord
      <3>2. x \in Kept(dir)'
        BY <1>5, <1>7, <1>10, <3>1, KeptIs, KeptIsPrimed
      <3> QED BY <3>1, <3>2 DEF Audited, OnRecord, Recorded
    <2>3. CASE Pushed(u)
      <3>1. PICK c \in Nat : PushedFrom(u, c)
        BY <2>3 DEF Pushed
      <3>2. \A x \in Logs' : Later(x, u)
        BY <1>12, <1>15, <3>1 DEF PushedFrom
      <3>3. Latest(c)' = Latest(c)
        BY <1>5 DEF Latest
      <3>4. PushedFrom(u, c)'
        BY <1>10, <3>1, <3>2, <3>3 DEF PushedFrom
      <3> QED BY <3>4 DEF Audited, Pushed
    <2> QED BY <1>15, <2>1, <2>2, <2>3 DEF Audited
  <1>16. ASSUME NEW u \in granted' PROVE Audited(u)'
    BY <1>2, <1>3, <1>11, <1>15
  <1>17. \A u \in used[p] : u.left >= Len(todo[p])
    BY <1>3 DEF LimitInv, Idle, Working
  <1>18. ASSUME NEW u \in used[p] PROVE Audited(u)'
    <2>1. CASE u.left = Len(todo[p])
      <3>1. u \in Own(p)
        BY <2>1 DEF Own
      <3>2. CASE line = e /\ Readable(dir.log, line)
        <4>1. e.allowed /\ e.at = u.asked
          BY <1>2, <1>3, <2>1 DEF Recording, Logging, e
        <4>2. line \in Legible(LogLines)'
          BY <1>4, <1>7, <1>10, <3>2
        <4>3. line \in Kept(dir)'
          BY <4>2, KeptIsPrimed
        <4>4. ~line.open /\ Recorded(u, line)
          BY <1>2, <1>4, <2>1, <3>2, <4>1 DEF Recorded
        <4> QED BY <4>3, <4>4 DEF Audited, OnRecord, Recorded
      <3>3. CASE ~(line = e /\ Readable(dir.log, line))
        BY <1>5, <3>1, <3>3 DEF Audited
      <3> QED BY <3>2, <3>3
    <2>2. CASE u.left # Len(todo[p])
      <3>1. Audited(u)
        BY <1>2, <2>2 DEF Recording
      <3>2. u.left > Len(todo[p])
        BY <1>2, <1>17, <2>2
      <3> QED BY <1>11, <1>15, <3>1, <3>2
    <2> QED BY <2>1, <2>2
  <1>19. Drafting(p)'
    <2>1. Len(todo'[p]) = Len(todo[p]) - 1
      BY <1>2, <1>3
    <2>2. \A b \in Written : b.left \in Nat
      BY WrittenTyped DEF Entry
    <2>3. \A b \in Written' : b.run < run'[p] \/ (b.run = run'[p] /\ b.left > Len(todo'[p]))
      BY <1>2, <1>3, <1>13, <2>1, <2>2 DEF Drafting
    <2> QED BY <1>3, <2>3 DEF Drafting, Logging
  <1>20. Recording(p)'
    BY <1>3, <1>18 DEF Recording, Logging
  <1>21. Cleaning(p)'
    BY <1>3 DEF Cleaning
  <1> QED BY <1>1, <1>14, <1>16, <1>19, <1>20, <1>21, AuditFrame DEF Desk

(* What a cleanup is about to leave out of what can be read is of age.      *)
LEMMA FilterAudit ==
  ASSUME TypeInv, LimitInv, AuditInv, ~overlaps, NEW p \in Proc, FilterLog(p)
  PROVE  AuditInv'
  <1>1. Step(p)
    BY DEF Step
  <1>2. /\ UNCHANGED <<dir, now, granted, missed, todo, entry, used, run, runs>>
        /\ pc[p] = "filter"
        /\ \/ pc'[p] = "swap" /\ copy'[p] = Filtered(LogLines, now)
           \/ pc'[p] = "exit"
    <2>1. \/ /\ pc' = [pc EXCEPT ![p] = "swap"]
             /\ copy' = [copy EXCEPT ![p] = Filtered(LogLines, now)]
          \/ pc' = [pc EXCEPT ![p] = "exit"]
      BY DEF FilterLog, LogLines
    <2> QED BY <2>1, Before DEF FilterLog, files, ghost
  <1>3. /\ Ordered /\ Drafting(p) /\ (\A u \in granted : Audited(u)) /\ now \in Nat
        /\ used[p] = {}
    BY <1>2, Before DEF Desk, Idle
  <1>4. LogLines \in Seq(Entry) /\ Logs = ToSet(LogLines) /\ Logs \in SUBSET Entry
    BY WrittenTyped
  <1>5. /\ \A x \in Legible(LogLines) : ~x.open /\ Young(x, now) =>
                                           x \in Legible(Filtered(LogLines, now))
        /\ \A x \in ToSet(Filtered(LogLines, now)) : \E y \in Logs : SameError(x, y)
    BY <1>3, <1>4, FilteredLegible
  <1>6. \A x \in Legible(LogLines) : Young(x, now) \/ x.at =< now - MaxAge
    <2>1. \A x \in Legible(LogLines) : x.at \in Nat
      BY <1>4, LegibleIs DEF Entry
    <2> QED BY <1>3, <2>1, AuditAssumption DEF Young
  <1>7. Ordered'
    BY <1>2, <1>3, SameOrder
  <1>8. Drafting(p)'
    BY <1>2, <1>3, SameWritten DEF Drafting, Logging
  <1>9. Recording(p)'
    BY <1>2, <1>3 DEF Recording
  <1>10. Cleaning(p)'
    <2>1. Logs' = Logs /\ LogLines' = LogLines
      BY <1>2, SameWritten
    <2> QED BY <1>2, <1>5, <1>6, <2>1 DEF Cleaning
  <1>11. \A u \in granted' : Audited(u)'
    BY <1>2, <1>3, SameWritten
  <1> QED BY <1>1, <1>7, <1>8, <1>9, <1>10, <1>11, AuditFrame DEF Desk

(* The log is replaced by what is left of it.                               *)
LEMMA SwapAudit ==
  ASSUME TypeInv, LimitInv, AuditInv, ~overlaps, NEW p \in Proc, SwapLog(p)
  PROVE  AuditInv'
  <1>1. Step(p)
    BY DEF Step
  <1>2. /\ UNCHANGED <<now, granted, missed, todo, entry, used, run, runs>>
        /\ pc[p] = "swap" /\ pc'[p] = "exit"
        /\ dir' = [dir EXCEPT !.log = copy[p]] \/ dir' = dir
    BY Before DEF SwapLog, ghost
  <1>3. CASE dir' = dir
    <2>1. ~Idle(p) /\ pc'[p] \notin {"record", "append", "swap"}
          /\ (pc'[p] \in Logging <=> pc[p] \in Logging) /\ missed \subseteq missed'
      BY <1>2 DEF Idle, Logging
    <2> QED BY <1>1, <1>2, <1>3, <2>1, QuietAudit
  <1>4. CASE dir' = [dir EXCEPT !.log = copy[p]]
    <2>1. /\ Ordered /\ Drafting(p) /\ Cleaning(p) /\ (\A u \in granted : Audited(u) /\ u \in Use)
          /\ used[p] = {}
      BY <1>2, Before DEF Desk, Idle
    <2>2. dir'.log = copy[p] /\ dir'.backups = dir.backups
      <3>1. dir = [log |-> dir.log, backups |-> dir.backups]
        BY Parts DEF Log
      <3> QED BY <1>4, <3>1
    <2>3. copy[p] \in Seq(Entry)
      BY Parts DEF Copies
    <2>4. Exists(dir)'
      BY <2>2, <2>3, LogAssumption DEF Exists
    <2>5. /\ Logs' = ToSet(copy[p]) /\ LogLines' = copy[p]
          /\ \A s : Backed(s)' = Backed(s)
      BY <2>2, <2>4 DEF Logs, LogLines, Backed
    <2>6. /\ \A e \in Logs' : \E l \in Logs : SameError(e, l)
          /\ \A e \in Legible(LogLines) :
                ~e.open => e \in Legible(LogLines)' \/ e.at =< now - MaxAge
      <3>1. /\ \A e \in ToSet(copy[p]) : \E l \in Logs : SameError(e, l)
            /\ \A e \in Legible(LogLines) :
                  ~e.open => e \in Legible(copy[p]) \/ e.at =< now - MaxAge
        BY <1>2, <2>1 DEF Cleaning
      <3>2. Legible(LogLines)' = Legible(copy[p])
        BY <2>5
      <3> QED BY <2>5, <3>1, <3>2
    <2>7. \A e \in Written' : \E l \in Written : SameError(e, l)
      <3>1. \A e : SameError(e, e)
        BY DEF SameError
      <3> QED BY <2>2, <2>5, <2>6, <3>1, WrittenIs, WrittenIsPrimed
    <2>8. Ordered'
      <3>1. ASSUME NEW e \in Logs', NEW s \in DOMAIN dir'.backups, NEW b \in Backed(s)'
            PROVE  Later(e, b)
        <4>1. PICK l \in Logs : SameError(e, l)
          BY <2>6
        <4>2. Later(l, b)
          BY <2>1, <2>2, <2>5, <3>1 DEF Ordered
        <4> QED BY <4>1, <4>2 DEF SameError, Later
      <3>2. \A s, t \in DOMAIN dir'.backups :
               s < t => \A b \in Backed(s)', a \in Backed(t)' : Later(a, b)
        BY <2>1, <2>2, <2>5 DEF Ordered
      <3>3. \A a \in Written' : a.run =< runs'
        BY <1>2, <2>1, <2>7 DEF Ordered, SameError
      <3> QED BY <3>1, <3>2, <3>3 DEF Ordered
    <2>9. ASSUME NEW u \in Use, Audited(u) PROVE Audited(u)'
      <3>1. CASE u \in missed \/ OfAge(u)
        BY <1>2, <3>1 DEF Audited, OfAge
      <3>2. CASE OnRecord(u)
        <4>1. PICK e \in Kept(dir) : ~e.open /\ Recorded(u, e)
          BY <3>2 DEF OnRecord
        <4>2. CASE e \in Kept(dir)'
          BY <4>1, <4>2 DEF OnRecord, Recorded, Audited
        <4>3. CASE e \notin Kept(dir)'
          <5>1. e \in Legible(LogLines) /\ e \notin Legible(LogLines)'
            BY <2>2, <4>1, <4>3, KeptIs, KeptIsPrimed
          <5>2. e.at =< now - MaxAge
            BY <2>6, <4>1, <5>1
          <5>3. OfAge(u)
            BY <4>1, <5>2 DEF Recorded, OfAge
          <5> QED BY <1>2, <5>3 DEF Audited, OfAge
        <4> QED BY <4>2, <4>3
      <3>3. CASE Pushed(u)
        <4>1. PICK c \in Nat : PushedFrom(u, c)
          BY <3>3 DEF Pushed
        <4>2. ASSUME NEW e \in Logs' PROVE Later(e, u)
          <5>1. PICK l \in Logs : SameError(e, l)
            BY <2>6
          <5> QED BY <4>1, <5>1 DEF PushedFrom, SameError, Later
        <4>3. Latest(c)' = Latest(c)
          BY <2>2 DEF Latest
        <4>4. PushedFrom(u, c)'
          BY <2>5, <4>1, <4>2, <4>3 DEF PushedFrom
        <4> QED BY <4>4 DEF Audited, Pushed
      <3> QED BY <2>9, <3>1, <3>2, <3>3 DEF Audited
    <2>10. Drafting(p)'
      BY <1>2, <2>1, <2>7 DEF Drafting, Logging, SameError
    <2>11. Recording(p)' /\ Cleaning(p)'
      BY <1>2, <2>1 DEF Recording, Cleaning
    <2>12. \A u \in granted' : Audited(u)'
      BY <1>2, <2>1, <2>9
    <2> QED BY <1>1, <2>8, <2>10, <2>11, <2>12, AuditFrame DEF Desk
  <1> QED BY <1>2, <1>3, <1>4

(* The host is told of the uses of a hook that ends, all of which it has    *)
(* logged.                                                                  *)
LEMMA EndAudit ==
  ASSUME TypeInv, LimitInv, AuditInv, ~overlaps, NEW p \in Proc, Exit(p) \/ Crash(p)
  PROVE  AuditInv'
  <1>1. Step(p)
    BY DEF Step
  <1>2. /\ UNCHANGED <<dir, now, missed, runs>> /\ pc'[p] = "idle"
        /\ granted' = granted \/ (pc[p] = "exit" /\ granted' = granted \cup used[p])
    BY Before DEF Exit, Crash, Forget
  <1>3. /\ Ordered /\ \A u \in granted : Audited(u)
        /\ pc[p] = "exit" => \A u \in used[p] : Audited(u)
    BY Before DEF Desk, Idle, Recording, Logging
  <1>4. Ordered'
    BY <1>2, <1>3, SameOrder
  <1>5. \A u \in granted' : Audited(u)'
    BY <1>2, <1>3, SameWritten
  <1>6. Desk(p)'
    BY <1>2 DEF Desk, Idle
  <1> QED BY <1>1, <1>4, <1>5, <1>6, AuditFrame

(* Time puts nothing on record and takes nothing off.                       *)
LEMMA TickAudit ==
  ASSUME TypeInv, LimitInv, AuditInv, ~overlaps, Tick
  PROVE  AuditInv'
  <1>1. /\ now' = now + 1
        /\ UNCHANGED <<dir, fd, pc, todo, entry, copy, used, run, runs, granted, missed>>
    BY DEF Tick, files, ghost
  <1>2. /\ Ordered /\ (\A u \in granted : Audited(u))
        /\ \A p \in Proc : ~Idle(p) => Drafting(p) /\ Recording(p) /\ Cleaning(p)
    BY DEF AuditInv
  <1>3. now \in Nat /\ granted \subseteq Use /\ \A p \in Proc : used[p] \subseteq Use
    BY Parts DEF IInv, Plain, Uses
  <1>4. Written' = Written /\ Logs' = Logs /\ LogLines' = LogLines /\ Ordered'
        /\ \A s : Backed(s)' = Backed(s)
    BY <1>1, <1>2, SameWritten, SameOrder
  <1>5. \A n \in Nat : n =< now - MaxAge => n =< now' - MaxAge
    BY <1>1, <1>3, AuditAssumption
  <1>6. ASSUME NEW u \in Use, Audited(u) PROVE Audited(u)'
    <2>1. (OnRecord(u)' <=> OnRecord(u)) /\ (Pushed(u)' <=> Pushed(u))
      BY <1>1, <1>4 DEF OnRecord, Pushed, PushedFrom, Latest
    <2>2. OfAge(u) => OfAge(u)'
      BY <1>5 DEF OfAge, Use
    <2> QED BY <1>1, <1>6, <2>1, <2>2 DEF Audited
  <1>7. \A u \in granted' : Audited(u)'
    BY <1>1, <1>2, <1>3, <1>6
  <1>8. ASSUME NEW p \in Proc, ~Idle(p)' PROVE (Drafting(p) /\ Recording(p) /\ Cleaning(p))'
    <2>1. Drafting(p) /\ Recording(p) /\ Cleaning(p)
      BY <1>1, <1>2, <1>8 DEF Idle
    <2>2. Drafting(p)'
      BY <1>1, <1>4, <2>1 DEF Drafting
    <2>3. Recording(p)'
      BY <1>1, <1>3, <1>6, <2>1 DEF Recording
    <2>4. \A e \in Legible(LogLines) : e.at \in Nat
      <3>1. LogLines \in Seq(Entry)
        BY WrittenTyped
      <3> QED BY <3>1, LegibleIs DEF Entry
    <2>5. Cleaning(p)'
      <3>1. SUFFICES ASSUME pc[p] = "swap"
                     PROVE  /\ \A e \in ToSet(copy[p]) : \E l \in Logs : SameError(e, l)
                            /\ \A e \in Legible(LogLines) :
                                  ~e.open => e \in Legible(copy[p]) \/ e.at =< now' - MaxAge
        BY <1>1, <1>4 DEF Cleaning
      <3> QED BY <1>5, <2>1, <2>4, <3>1 DEF Cleaning
    <2> QED BY <2>2, <2>3, <2>5
  <1> QED BY <1>4, <1>7, <1>8 DEF AuditInv

LEMMA AuditStep == TypeInv /\ LimitInv /\ AuditInv /\ [Next]_vars => AuditInv'
  <1> SUFFICES ASSUME TypeInv, LimitInv, AuditInv, [Next]_vars PROVE AuditInv'
    OBVIOUS
  <1>0. overlaps' = overlaps
    <2>1. ASSUME NEW p \in Proc, Step(p) PROVE overlaps' = overlaps
      <3>1. CASE Invoke(p) \/ Cleanup(p) \/ LoadState(p) \/ Stand(p) \/ DenyByPolicy(p)
        BY <3>1 DEF Invoke, Cleanup, LoadState, Stand, DenyByPolicy, Starts, Forget, files, ghost
      <3>2. CASE CheckLimits(p) \/ RecordUse(p) \/ StatLog(p) \/ RotateLog(p)
        BY <3>2 DEF CheckLimits, RecordUse, StatLog, RotateLog, files, ghost
      <3>3. CASE TrimBackups(p) \/ OpenLog(p) \/ AppendEntry(p) \/ OpenState(p)
        BY <3>3 DEF TrimBackups, OpenLog, AppendEntry, OpenState, files, ghost
      <3>4. CASE WriteState(p) \/ RenameState(p) \/ FilterLog(p) \/ SwapLog(p)
        BY <3>4 DEF WriteState, RenameState, FilterLog, SwapLog, files, ghost
      <3>5. CASE Exit(p) \/ Crash(p)
        BY <3>5 DEF Exit, Crash, Starts, Forget, files, ghost
      <3> QED BY <2>1, <3>1, <3>2, <3>3, <3>4, <3>5 DEF Step
    <2>2. Tick \/ SetBack \/ UNCHANGED vars => overlaps' = overlaps
      BY DEF Tick, SetBack, vars, files, ghost
    <2> QED BY <2>1, <2>2 DEF Next
  <1> SUFFICES ASSUME ~overlaps PROVE AuditInv'
    BY <1>0 DEF AuditInv
  <1>1. CASE Tick
    BY <1>1, TickAudit
  <1>2. CASE SetBack
    BY <1>2 DEF SetBack
  <1>3. ASSUME NEW p \in Proc, Step(p) PROVE AuditInv'
    <2>1. CASE OpenLog(p)
      <3>1. \/ /\ dir' = [dir EXCEPT !.log = IF @ = Missing THEN <<>> ELSE @]
               /\ fd' = [fd EXCEPT ![p] = LogFile] /\ pc' = [pc EXCEPT ![p] = "append"]
               /\ UNCHANGED <<todo, entry, missed>>
            \/ Logged(p) /\ missed' = missed \cup Own(p) /\ dir' = dir
        BY <2>1 DEF OpenLog
      <3>2. pc[p] = "openlog" /\ UNCHANGED <<now, granted, used, run, runs>>
        BY <2>1 DEF OpenLog
      <3>3. CASE /\ dir' = [dir EXCEPT !.log = IF @ = Missing THEN <<>> ELSE @]
                 /\ fd' = [fd EXCEPT ![p] = LogFile] /\ pc' = [pc EXCEPT ![p] = "append"]
                 /\ UNCHANGED <<todo, entry, missed>>
        <4>1. fd'[p] = LogFile /\ pc'[p] = "append"
          BY <3>3, Before
        <4> QED BY <2>1, <3>2, <3>3, <4>1, OpenAudit
      <3>4. CASE Logged(p) /\ missed' = missed \cup Own(p) /\ dir' = dir
        <4>1. pc[p] \in Logging
          BY <3>2 DEF Logging
        <4> QED BY <1>3, <3>2, <3>4, <4>1, LostAudit
      <3> QED BY <3>1, <3>3, <3>4
    <2>2. CASE AppendEntry(p)
      <3>1. CASE dir' = dir /\ missed' = missed \cup Own(p)
        <4>1. pc[p] \in Logging /\ Logged(p) /\ UNCHANGED <<now, granted, used, run, runs>>
          BY <2>2 DEF AppendEntry, Logging
        <4> QED BY <1>3, <3>1, <4>1, LostAudit
      <3>2. CASE ~(dir' = dir /\ missed' = missed \cup Own(p))
        BY <2>2, <3>2, AppendAudit
      <3> QED BY <3>1, <3>2
    <2> QED BY <1>3, <2>1, <2>2, StartAudit, ControlAudit, StandAudit, DecideAudit, RecordAudit,
               RotateAudit, TrimAudit, FilterAudit, SwapAudit, EndAudit DEF Step
  <1>4. CASE UNCHANGED vars
    <2>1. UNCHANGED <<dir, fd, now, pc, todo, entry, copy, used, run, runs, granted, missed>>
      BY <1>4 DEF vars
    <2>2. /\ Written' = Written /\ Logs' = Logs /\ LogLines' = LogLines
          /\ \A u : Audited(u) => Audited(u)'
      BY <2>1, SameWritten
    <2>3. Ordered => Ordered'
      BY <2>1, SameOrder
    <2>4. \A p \in Proc : /\ Drafting(p) => Drafting(p)'
                          /\ Recording(p) => Recording(p)'
                          /\ Cleaning(p) => Cleaning(p)'
                          /\ Idle(p)' <=> Idle(p)
      BY <2>1, <2>2 DEF Drafting, Recording, Cleaning, Idle
    <2> QED BY <2>1, <2>2, <2>3, <2>4 DEF AuditInv
  <1> QED BY <1>1, <1>2, <1>3, <1>4 DEF Next

LEMMA AuditInit == Init => AuditInv
  <1> SUFFICES ASSUME Init PROVE AuditInv
    OBVIOUS
  <1>1. dir.log = Missing /\ DOMAIN dir.backups = {} /\ granted = {} /\ \A p \in Proc : Idle(p)
    BY DEF Init, NoLog, Idle
  <1>2. Logs = {} /\ Written = {}
    BY <1>1 DEF Logs, Written, Exists
  <1>3. Ordered
    BY <1>1, <1>2 DEF Ordered
  <1> QED BY <1>1, <1>3 DEF AuditInv

(* Rotation, trimming, cleaning, failures and crashes in any of them lose   *)
(* no record of an exception the host was told of, whatever its reason      *)
(* (AuditLogger in audit.go): but for the uses in missed, which hold what   *)
(* failed or was cut when it was written, what came behind a cut line or    *)
(* one too long for the scanner, or is one, and what was in a backup that a *)
(* rotation of the same second replaced.                                    *)
THEOREM GrantsAlwaysAudited == Spec => []GrantsAudited
  <1>1. TypeInv /\ LimitInv /\ AuditInv => GrantsAudited
    <2> SUFFICES ASSUME TypeInv, LimitInv, AuditInv, ~overlaps, NEW u \in granted \ missed
                 PROVE  \/ \E e \in Kept(dir) : e.run = u.run /\ e.left = u.left /\ e.allowed
                        \/ u.asked =< now - MaxAge
                        \/ Cardinality({s \in DOMAIN dir.backups :
                              \A e \in ToSet(dir.backups[s]) : Later(e, u)}) >= MaxBackups
      BY DEF GrantsAudited
    <2> DEFINE later == {s \in DOMAIN dir.backups : \A e \in Backed(s) : Later(e, u)}
    <2>1. OnRecord(u) \/ OfAge(u) \/ Pushed(u)
      BY DEF AuditInv, Audited
    <2>2. CASE OnRecord(u)
      BY <2>2 DEF OnRecord, Recorded
    <2>3. CASE OfAge(u)
      BY <2>3 DEF OfAge
    <2>4. CASE Pushed(u)
      <3>1. PICK c \in Nat : PushedFrom(u, c)
        BY <2>4 DEF Pushed
      <3>2. Latest(c) \in SUBSET later /\ later \in SUBSET (DOMAIN dir.backups)
        BY <3>1 DEF PushedFrom, Latest
      <3> HIDE DEF later
      <3>3. IsFiniteSet(later)
        BY <3>2, WrittenTyped, FS_Subset
      <3>4. /\ Cardinality(Latest(c)) \in Nat /\ Cardinality(later) \in Nat
            /\ Cardinality(Latest(c)) =< Cardinality(later)
        BY <3>2, <3>3, FS_Subset, FS_CardinalityType
      <3>5. Cardinality(later) >= MaxBackups
        BY <3>1, <3>4, AuditAssumption DEF PushedFrom
      <3> QED BY <3>5 DEF later, Backed
    <2> QED BY <2>1, <2>2, <2>3, <2>4
  <1>2. Init => TypeInv /\ LimitInv /\ AuditInv
    BY TypeInit, LimitInit, AuditInit
  <1>3. TypeInv /\ LimitInv /\ AuditInv /\ [Next]_vars => (TypeInv /\ LimitInv /\ AuditInv)'
    BY TypeStep, LimitStep, AuditStep
  <1> QED BY <1>1, <1>2, <1>3, PTL DEF Spec
=============================================================================
