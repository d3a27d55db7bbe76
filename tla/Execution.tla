----------------------------- MODULE Execution -----------------------------
(***************************************************************************)
(* What the dispatcher needs from an Executor (internal/dispatcher         *)
(* executor.go, the interface): every validator is asked, and the reply    *)
(* names exactly the validators that did not pass; once the context is     *)
(* cancelled, validators may be left out, but none is accused wrongly.     *)
(***************************************************************************)
EXTENDS Integers

CONSTANTS
    Validator,  \* the registered validators
    NoReply     \* Execute has not returned

VARIABLES
    asked,      \* the validators Execute is called with
    verdict,    \* what a validator said: "unknown", "pass" or "fail"
    cancelled,  \* the context is done
    reply       \* the validators reported to the dispatcher, or NoReply

evars == <<asked, verdict, cancelled, reply>>

Failing == {v \in Validator : verdict[v] = "fail"}

Init ==
    /\ asked \in SUBSET Validator
    /\ verdict = [v \in Validator |-> "unknown"]
    /\ cancelled \in BOOLEAN
    /\ reply = NoReply

Cancel ==
    /\ ~cancelled /\ cancelled' = TRUE
    /\ UNCHANGED <<asked, verdict, reply>>

Judge(v) ==
    /\ reply = NoReply
    /\ v \in asked /\ verdict[v] = "unknown"
    /\ \E d \in {"pass", "fail"} : verdict' = [verdict EXCEPT ![v] = d]
    /\ UNCHANGED <<asked, cancelled, reply>>

Reply ==
    /\ reply = NoReply
    /\ reply' # NoReply /\ reply' \subseteq Failing
    /\ ~cancelled => /\ reply' = Failing
                     /\ \A v \in asked : verdict[v] # "unknown"
    /\ UNCHANGED <<asked, verdict, cancelled>>

Next == Cancel \/ Reply \/ \E v \in Validator : Judge(v)

Spec == Init /\ [][Next]_evars
=============================================================================
