----------------------------- MODULE RateLimit -----------------------------
(***************************************************************************)
(* The rate limiter of exceptions (internal/exceptions/ratelimit.go):      *)
(* counts of the uses in the current hour and the current day, for all     *)
(* codes together and for each.                                            *)
(*                                                                         *)
(* Instants are hours, the finest step its windows tell apart.  A window   *)
(* is named by its number: Truncate maps an instant to the start of it,    *)
(* and all windows of a length start at multiples of it.                   *)
(***************************************************************************)
EXTENDS ExceptionPolicy

CONSTANTS
    RateEnabled,   \* [exceptions.rate_limit] enabled
    MaxPerHour,    \* global limits; 0 for unlimited
    MaxPerDay,
    HoursPerDay    \* 24

ASSUME RateAssumption ==
    /\ RateEnabled \in BOOLEAN
    /\ MaxPerHour \in Nat
    /\ MaxPerDay \in Nat
    /\ HoursPerDay \in Nat \ {0}

HourOf(t) == t
DayOf(t) == t \div HoursPerDay

Counts == [all: Nat, of: [Code -> Nat]]
None == [all |-> 0, of |-> [c \in Code |-> 0]]

RateState == [hour: Nat, day: Nat, hourly: Counts, daily: Counts]

\* NewRateLimiter at an instant
FreshState(t) == [hour |-> HourOf(t), day |-> DayOf(t), hourly |-> None, daily |-> None]

\* Mutant of ResetIfExpired: the day is not looked at when the hour is.
ResetHourOnly(st, t) ==
    IF HourOf(t) > st.hour THEN [st EXCEPT !.hourly = None, !.hour = HourOf(t)] ELSE st

\* Mutant of ResetIfExpired: the hour is taken for over one hour late.
ResetHourLate(st, t) ==
    LET newHour == HourOf(t) > st.hour + 1
        newDay  == DayOf(t) > st.day
    IN  [hour   |-> IF newHour THEN HourOf(t) ELSE st.hour,
         hourly |-> IF newHour THEN None ELSE st.hourly,
         day    |-> IF newDay THEN DayOf(t) ELSE st.day,
         daily  |-> IF newDay THEN None ELSE st.daily]

(* resetIfExpiredLocked: a window that began later than the stored one      *)
(* starts at zero; a stored window in the future stays.                     *)
ResetIfExpired(st, t) ==
    LET newHour == HourOf(t) > st.hour
        newDay  == DayOf(t) > st.day
    IN  [hour   |-> IF newHour THEN HourOf(t) ELSE st.hour,
         hourly |-> IF newHour THEN None ELSE st.hourly,
         day    |-> IF newDay THEN DayOf(t) ELSE st.day,
         daily  |-> IF newDay THEN None ELSE st.daily]

\* Mutant of Below: the last use is counted as one too many is.
BelowOrAt(count, limit) == limit = 0 \/ count <= limit

Below(count, limit) == limit = 0 \/ count < limit

(* RateLimiter.Check after its reset: the global limits and those of the    *)
(* code's policy, if it has one.                                            *)
Within(st, c) ==
    \/ ~RateEnabled
    \/ /\ Below(st.hourly.all, MaxPerHour)
       /\ Below(st.daily.all, MaxPerDay)
       /\ Below(st.hourly.of[c], PolicyOf(c).perHour)
       /\ Below(st.daily.of[c], PolicyOf(c).perDay)

Bumped(counts, c) == [all |-> counts.all + 1, of |-> [counts.of EXCEPT ![c] = @ + 1]]

\* RateLimiter.Record, which resets again first.
Record(st, c, t) ==
    LET fresh == ResetIfExpired(st, t)
    IN  [fresh EXCEPT !.hourly = Bumped(@, c), !.daily = Bumped(@, c)]
=============================================================================
