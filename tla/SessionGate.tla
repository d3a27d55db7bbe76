----------------------------- MODULE SessionGate -----------------------------
(***************************************************************************)
(* What session tracking promises (docs/SESSION_GUIDE.md), as a gate per   *)
(* session: a blocked command closes the gate of its session, and a closed *)
(* gate opens only to a request of that session that carries a key for its *)
(* codes, or by growing older than MaxSessionAge.                          *)
(*                                                                         *)
(* Files, processes and the order of their steps are left out: a request   *)
(* is pending from the moment the host starts the hook to the moment the   *)
(* hook is over, and while it is pending it may take effect.               *)
(***************************************************************************)
EXTENDS UnpoisonToken

CONSTANTS
    Proc,           \* slots for pending requests
    Session,        \* session identifiers
    Request,        \* records with a session and a command
    NoRequest,      \* the content of a slot that is free
    Open,           \* the state of a gate that lets everything through
    MaxSessionAge   \* age after which a closed gate stops nothing; 0 for "never"

VARIABLES
    now,      \* the clock
    request,  \* the pending request of every slot
    gate      \* the gate of every session

gvars == <<now, request, gate>>

Closed == [codes: SUBSET Code, since: Nat]

Bars(s) ==
    /\ gate[s] # Open
    /\ MaxSessionAge > 0 => now - gate[s].since <= MaxSessionAge

(* A poison without codes, left by a block without a reference, opens to    *)
(* any command of a Bash tool.                                              *)
Opens(command, codes) ==
    IF codes = {} THEN command.text ELSE IsKey(command, codes)

Init ==
    /\ now = 0
    /\ request = [p \in Proc |-> NoRequest]
    /\ gate = [s \in Session |-> Open]

Tick ==
    /\ now' = now + 1
    /\ UNCHANGED <<request, gate>>

Ask(p) ==
    /\ request[p] = NoRequest
    /\ \E r \in Request : request' = [request EXCEPT ![p] = r]
    /\ UNCHANGED <<now, gate>>

\* A gate nobody asked for either stays as it is or is forgotten once it lapsed.
Untouched(s) == gate'[s] = gate[s] \/ (~Bars(s) /\ gate'[s] = Open)

(* The request passes the gate of its session, which its command then opens *)
(* or closes anew.                                                          *)
PassedBy(p, s) ==
    /\ s = request[p].session
    /\ Bars(s) => Opens(request[p].command, gate[s].codes)
    /\ gate'[s] \in Closed \cup {Open}
    /\ gate'[s] # Open => gate'[s].since <= now

Settle(p) ==
    /\ request[p] # NoRequest
    /\ gate' = [s \in Session |-> gate'[s]]
    /\ \A s \in Session : Untouched(s) \/ PassedBy(p, s)
    /\ UNCHANGED <<now, request>>

Finish(p) ==
    /\ request[p] # NoRequest
    /\ request' = [request EXCEPT ![p] = NoRequest]
    /\ UNCHANGED <<now, gate>>

Next == Tick \/ \E p \in Proc : Ask(p) \/ Settle(p) \/ Finish(p)

Spec == Init /\ [][Next]_gvars
=============================================================================
