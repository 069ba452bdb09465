--------------------------- MODULE SessionProtocol ---------------------------
(***************************************************************************)
(* The session protocol of Secure Connect between the agent of one         *)
(* enrolled device (session_manager.rs) and the control plane (service.py, *)
(* risk_adapter.py, router.py, worker.py), over HTTP requests that may be  *)
(* lost before or after they are handled, or be handled after the agent    *)
(* has given them up.                                                      *)
(*                                                                         *)
(* The agent is one task and has one request open at a time; a handler of  *)
(* the control plane is one transaction.  What the agent does between two  *)
(* awaits is one step.  Time is abstracted: a timer that may have run out  *)
(* is a choice.  Which gateway and address a session has is one number,    *)
(* changed by a migration.                                                 *)
(***************************************************************************)
EXTENDS AccessStates, FiniteSets, Sequences

CONSTANTS
    MaxSessions,  \* bound: sessions the device gets; then no gateway has room
    MaxEvents,    \* bound: operator actions, risk signals, timers, migrations, restarts
    MaxFails,     \* heartbeats in a row that fail before the policy TTL has passed
    MaxLate       \* bound: given-up requests still on their way

ASSUME ProtocolAssumption ==
    MaxSessions \in Nat /\ MaxEvents \in Nat /\ MaxFails \in Nat /\ MaxLate \in Nat

VARIABLES
    device,     \* state of the device's row
    sessions,   \* the device's rows of sc_sessions, in order of their start
    agent,      \* the session manager
    request,    \* the open request of the agent, as a set of at most one
    response,   \* and the answer to it
    late,       \* requests the agent has given up that may still arrive
    events      \* number of bounded events so far

vars == <<device, sessions, agent, request, response, late, events>>
wire == <<request, response, late>>

Actions == {"none", "refresh_profile", "rekey", "restrict", "quarantine", "terminate"}

\* Keys are numbered as far as they are still told apart: a number nobody
\* holds any more is used again.
Keys == 1 .. (MaxSessions + MaxLate + 3)

None == "none"

NoProfile == [version |-> 0, routes |-> None, gateway |-> 0, term |-> 0]

Live(s) == s.state \in LiveStates

\* effective_allowed_cidrs and compile_profile, when there are routes.
CompileProfile(s) ==
    [version |-> s.version, gateway |-> s.gateway, term |-> s.term,
     routes |-> IF s.state = "restricted" THEN "safe" ELSE "allowed"]

NewSession(key) ==
    [state |-> "healthy", key |-> key, nonce |-> 0, version |-> 1, gateway |-> 1,
     term |-> 1, action |-> None, desired |-> None, expired |-> FALSE]

Down == [at |-> "boot", session |-> 0, state |-> None, nonce |-> 0,
         profile |-> NoProfile, key |-> 0, next |-> 0, fails |-> 0]

Init ==
    /\ device = "active" /\ sessions = <<>> /\ agent = Down
    /\ request = {} /\ response = {} /\ late = {}
    /\ events = 0

Current == sessions[agent.session]

\* The tunnel is up from the answer to the start until the session ends.
Tunnel == agent.at \in {"beat", "beating", "rekeying"}

Event == events < MaxEvents /\ events' = events + 1

-----------------------------------------------------------------------------
(* risk_adapter.py *)

QueueCommand(s, action, desired) == [s EXCEPT !.action = action, !.desired = desired]

\* apply_transition, once check_transition has let it pass.
ApplyTransition(s, target) ==
    IF s.state = target
    THEN s
    ELSE QueueCommand([s EXCEPT !.state = target], CommandFor(target), target)

-----------------------------------------------------------------------------
(* The handlers of the agent's requests.  Each yields the set of its possible
   outcomes: the session's new row, the answer, and what it counts as an event. *)

Answer(action, desired, profile, nonce) ==
    [ok |-> TRUE, session |-> 0, action |-> action, desired |-> desired,
     profile |-> profile, nonce |-> nonce]

Quiet == Answer(None, None, NoProfile, 0)

Refusal == [Quiet EXCEPT !.ok = FALSE]

Outcome(row, answer, cost) == [row |-> row, answer |-> answer, cost |-> cost]

\* Mutant: a command keeps the nonce of the one before it.
SameNonce(s) == s.nonce

NextNonce(s) == s.nonce + 1

\* _deliver_command: a fresh nonce, and the pending slot is cleared.
Deliver(s, action, desired, profile, cost) ==
    Outcome([QueueCommand(s, None, None) EXCEPT
                !.nonce = NextNonce(s)],
            Answer(action, desired, profile, NextNonce(s)), cost)

\* Mutant: a session without access is answered like one without news.
NothingForClosed(s) == Outcome(s, Quiet, 0)

\* A session without access hears so with every heartbeat.
Reassert(s) == Deliver(s, CommandFor(s.state), s.state, NoProfile, 0)

DeliverPending(s) ==
    Deliver(s, s.action, s.desired,
            IF s.action \in {"restrict", "refresh_profile"} THEN CompileProfile(s) ELSE NoProfile, 0)

CoolDown(s) == Deliver([s EXCEPT !.state = "healthy"], None, "healthy", NoProfile, 0)

RefreshProfile(s, cost) == Deliver(s, "refresh_profile", None, CompileProfile(s), cost)

\* _renew_if_due, when it is.
Renew(s) == [s EXCEPT !.version = @ + 1, !.term = @ + 1, !.expired = FALSE]

\* Mutant: only a renewal refreshes the profile.
NeverStale(s, version) == FALSE

\* The agent reports another profile version than the session's.
Stale(s, version) == version # s.version

OneIf(condition, x) == IF condition THEN {x} ELSE {}

\* PROFILE_HAS_NO_ROUTES of compile_profile, and its rollback.  A session is
\* restricted only when its profile has safe CIDRs, but an operator may replace
\* the profile later: whether they are still there is a choice.
NoRoutes(row) == OneIf(row.state = "restricted", Outcome(row, Refusal, 0))

\* handle_heartbeat.  Whether a cooldown has elapsed, a renewal or a rekey is
\* due is a choice; a session that expired is due for renewal.
HeartbeatOutcomes(row, version) ==
    LET s == IF device # "active" /\ Live(row) THEN ApplyTransition(row, "quarantined") ELSE row
        more == events < MaxEvents
    IN  IF ~Live(s) THEN {Reassert(s)}
        ELSE IF s.action # None \/ s.desired # None
        THEN {DeliverPending(s)}
             \cup (IF s.action \in {"restrict", "refresh_profile"} THEN NoRoutes(row) ELSE {})
        ELSE OneIf(s.state = "elevated", CoolDown(s))
             \cup OneIf(s.expired, RefreshProfile(Renew(s), 0))
             \cup OneIf(~s.expired /\ more, RefreshProfile(Renew(s), 1))
             \cup OneIf(~s.expired /\ Stale(s, version), RefreshProfile(s, 0))
             \cup OneIf(~s.expired /\ ~Stale(s, version) /\ more, Deliver(s, "rekey", None, NoProfile, 1))
             \cup OneIf(~s.expired /\ ~Stale(s, version), Outcome(s, Quiet, 0))
             \cup NoRoutes(row)

\* handle_rekey: the new key is on record before the answer goes out.
RekeyOutcomes(row, key, nonce) ==
    LET s == [row EXCEPT !.key = key, !.version = @ + 1,
                         !.nonce = (IF nonce > @ THEN nonce ELSE @) + 1]
    IN  IF Live(row)
        THEN {Outcome(s, Answer(None, None, CompileProfile(s), s.nonce), 0)} \cup NoRoutes(row)
        ELSE {Outcome(row, Refusal, 0)}

\* start_session: refused unless the device is active and a gateway has room;
\* closes the session the device still has.
Superseded ==
    [i \in DOMAIN sessions |->
        IF Live(sessions[i])
        THEN [QueueCommand(sessions[i], None, None) EXCEPT !.state = "terminated"]
        ELSE sessions[i]]

StartAnswer(s) == [Answer(None, None, CompileProfile(s), s.nonce) EXCEPT !.session = Len(sessions) + 1]

StartOutcome(key) ==
    IF device = "active" /\ Len(sessions) < MaxSessions
    THEN [rows |-> Append(Superseded, NewSession(key)), answer |-> StartAnswer(NewSession(key)), cost |-> 0]
    ELSE [rows |-> sessions, answer |-> Refusal, cost |-> 0]

OnRow(i, o) == [rows |-> [sessions EXCEPT ![i] = o.row], answer |-> o.answer, cost |-> o.cost]

Outcomes(r) ==
    CASE r.kind = "start" -> {StartOutcome(r.key)}
      [] r.kind = "heartbeat" ->
            {OnRow(r.session, o) : o \in HeartbeatOutcomes(sessions[r.session], r.version)}
      [] r.kind = "rekey" ->
            {OnRow(r.session, o) : o \in RekeyOutcomes(sessions[r.session], r.key, r.nonce)}

\* The open request is handled.
Serve ==
    \E r \in request : \E o \in Outcomes(r) :
        /\ sessions' = o.rows /\ response' = {o.answer} /\ events' = events + o.cost
        /\ request' = {}
        /\ UNCHANGED <<device, agent, late>>

\* A request the agent has given up is handled, and the answer goes nowhere.
ServeLate(r) ==
    \E o \in Outcomes(r) :
        /\ sessions' = o.rows /\ events' = events + o.cost
        /\ late' = late \ {r}
        /\ UNCHANGED <<device, agent, request, response>>

-----------------------------------------------------------------------------
(* What else changes a session: operators, risk signals, migrations, time. *)

SetRow(i, row) ==
    /\ Event
    /\ sessions' = [sessions EXCEPT ![i] = row]
    /\ UNCHANGED <<agent, wire>>

\* The relaxations set_session_state lets an operator make.
OperatorMay(i, target) ==
    /\ IsRelaxation(sessions[i].state, target) =>
          sessions[i].state = "elevated" /\ target = "healthy"
    /\ TransitionAllowed(sessions[i].state, target, TRUE, FALSE)

\* set_session_state, terminate_session and, for targets that do not relax,
\* apply_risk_signal.
SetSessionState(i, target) ==
    /\ OperatorMay(i, target) /\ sessions[i].state # target
    /\ SetRow(i, ApplyTransition(sessions[i], target))
    /\ UNCHANGED device

QuarantineDevice ==
    /\ Event
    /\ device' = "quarantined"
    /\ sessions' = [i \in DOMAIN sessions |->
                       IF Live(sessions[i]) THEN ApplyTransition(sessions[i], "quarantined")
                       ELSE sessions[i]]
    /\ UNCHANGED <<agent, wire>>

\* The device enrols again.
Enroll ==
    /\ device # "active"
    /\ Event
    /\ device' = "active"
    /\ UNCHANGED <<sessions, agent, wire>>

\* _push_profile_refresh and assign_profile.
PushProfileRefresh(i) ==
    /\ Live(sessions[i])
    /\ SetRow(i, QueueCommand([sessions[i] EXCEPT !.version = @ + 1], "refresh_profile", None))
    /\ UNCHANGED device

MigrateSession(i) ==
    /\ Live(sessions[i])
    /\ SetRow(i, QueueCommand([sessions[i] EXCEPT !.version = @ + 1, !.gateway = @ + 1],
                              "refresh_profile", None))
    /\ UNCHANGED device

\* The session's profile expires.
Expires(i) ==
    /\ Live(sessions[i]) /\ ~sessions[i].expired
    /\ SetRow(i, [sessions[i] EXCEPT !.expired = TRUE])
    /\ UNCHANGED device

\* reap_expired_sessions.  The grace is longer than a request stays open.
Reap(i) ==
    /\ Live(sessions[i]) /\ sessions[i].expired
    /\ ~(agent.session = i /\ agent.at \in {"beating", "rekeying"})
    /\ sessions' = [sessions EXCEPT ![i] = ApplyTransition(@, "terminated")]
    /\ UNCHANGED <<device, agent, wire, events>>

-----------------------------------------------------------------------------
(* The agent. *)

Server == <<device, sessions, events>>

Send(r) == request' = {r} /\ UNCHANGED <<response, late>>

Receive == response' = {} /\ UNCHANGED <<request, late>>

FreshKey ==
    LET held == {agent.key, agent.next} \cup {r.key : r \in request \cup late}
                   \cup {sessions[i].key : i \in DOMAIN sessions}
    IN  CHOOSE k \in Keys \ held : \A l \in Keys \ held : k <= l

Request(kind, key) ==
    [kind |-> kind, session |-> agent.session, version |-> agent.profile.version,
     nonce |-> agent.nonce, key |-> key]

\* bootstrap_and_run asks for a session with a fresh key.
StartSession ==
    /\ agent.at = "boot"
    /\ agent' = [agent EXCEPT !.at = "starting", !.next = FreshKey]
    /\ Send(Request("start", FreshKey))
    /\ UNCHANGED Server

\* The answer: the tunnel comes up, unless a command of its setup fails.
Started(a) ==
    /\ agent.at = "starting"
    /\ agent' \in {Down} \cup
          OneIf(a.ok, [Down EXCEPT !.at = "beat", !.session = a.session, !.state = "healthy",
                                   !.nonce = a.nonce, !.profile = a.profile, !.key = agent.next])
    /\ Receive
    /\ UNCHANGED Server

\* The agent has checked that its profile has not expired.
MayBeat == agent.at = "beat" /\ ~Current.expired

Beat ==
    /\ MayBeat
    /\ agent' = [agent EXCEPT !.at = "beating"]
    /\ Send(Request("heartbeat", 0))
    /\ UNCHANGED Server

\* The profile has expired: the session's, or an earlier one when the agent
\* missed a renewal.
ProfileExpired ==
    /\ agent.at = "beat"
    /\ Current.expired \/ agent.profile.term < Current.term
    /\ agent' = Down
    /\ UNCHANGED <<Server, wire>>

\* A heartbeat failed: keep the tunnel, until the policy TTL has passed.
BeatFails ==
    {Down} \cup OneIf(agent.fails < MaxFails, [agent EXCEPT !.at = "beat", !.fails = @ + 1])

\* The rules of the heartbeat loop for a command, with apply_state_transition.
Acceptable(a) ==
    /\ IF a.nonce = 0 THEN a.action = None /\ a.desired = None ELSE a.nonce > agent.nonce
    /\ a.desired # None =>
          ~IsRelaxation(agent.state, a.desired) \/ (agent.state = "elevated" /\ a.desired = "healthy")
    /\ a.action = "refresh_profile" => a.profile # NoProfile

EffectiveAction(a) == IF a.action = None /\ a.desired # None THEN CommandFor(a.desired) ELSE a.action

\* The agent after the state, nonce and profile of an answer.
Obeying(a) ==
    [agent EXCEPT !.at = "beat", !.fails = 0,
        !.state = IF a.desired # None THEN a.desired
                  ELSE IF a.action = "restrict" THEN "restricted" ELSE @,
        !.nonce = IF a.nonce # 0 THEN a.nonce ELSE @,
        !.profile = IF a.profile # NoProfile THEN a.profile ELSE @]

Stopped(a) == [Down EXCEPT !.at = "stopped", !.session = agent.session]

\* The answer to a heartbeat, and the local commands it takes may fail.
Beaten(a) ==
    /\ agent.at = "beating"
    /\ \/ ~a.ok /\ agent' \in BeatFails /\ Receive
       \/ /\ a.ok /\ agent' = Down /\ Receive
          /\ ~Acceptable(a) \/ a.profile # NoProfile
                \/ EffectiveAction(a) \in {"rekey", "quarantine", "terminate"}
       \/ /\ a.ok /\ Acceptable(a)
          /\ CASE EffectiveAction(a) = "terminate" -> agent' = Stopped(a) /\ Receive
               [] EffectiveAction(a) = "quarantine" -> agent' = Down /\ Receive
               [] EffectiveAction(a) = "rekey" ->
                     /\ agent' = [Obeying(a) EXCEPT !.at = "rekeying", !.next = FreshKey]
                     /\ request' = {[Request("rekey", FreshKey) EXCEPT !.nonce = a.nonce]}
                     /\ response' = {} /\ UNCHANGED late
               [] OTHER -> agent' = Obeying(a) /\ Receive
    /\ UNCHANGED Server

\* Mutant: a rekey that failed counts as a failed heartbeat.
RekeyFailsOn == BeatFails

\* A rekey that failed ends the session: which key holds is not known.
RekeyFails == {Down}

\* The agent flips to the new key once the control plane has it.
Rekeyed(a) ==
    /\ agent.at = "rekeying"
    /\ \/ agent' \in RekeyFails
       \/ /\ a.ok /\ a.nonce > agent.nonce
          /\ agent' = [agent EXCEPT !.at = "beat", !.key = agent.next, !.next = 0,
                                    !.profile = a.profile, !.nonce = a.nonce]
    /\ Receive
    /\ UNCHANGED Server

\* The open request fails or times out; it may still be on its way.
GiveUp ==
    /\ agent.at \in {"starting", "beating", "rekeying"}
    /\ agent' \in CASE agent.at = "beating" -> BeatFails
                    [] agent.at = "rekeying" -> RekeyFails
                    [] OTHER -> {Down}
    /\ request' = {} /\ response' = {}
    /\ \/ UNCHANGED late
       \/ Cardinality(late) < MaxLate /\ late' = late \cup request
    /\ UNCHANGED Server

\* The agent process restarts; the device id is in its state file.
Restart ==
    /\ Event
    /\ agent' = Down
    /\ request' = {} /\ response' = {}
    /\ \/ UNCHANGED late
       \/ Cardinality(late) < MaxLate /\ late' = late \cup request
    /\ UNCHANGED <<device, sessions>>

-----------------------------------------------------------------------------

AgentStep ==
    \/ StartSession \/ Beat \/ ProfileExpired \/ GiveUp
    \/ \E a \in response : Started(a) \/ Beaten(a) \/ Rekeyed(a)

ServerStep ==
    \/ Serve
    \/ \E r \in late : ServeLate(r)
    \/ QuarantineDevice \/ Enroll
    \/ \E i \in DOMAIN sessions :
          \/ \E target \in SessionStates : SetSessionState(i, target)
          \/ PushProfileRefresh(i) \/ MigrateSession(i) \/ Expires(i) \/ Reap(i)

Next == AgentStep \/ ServerStep \/ Restart

Spec == Init /\ [][Next]_vars

\* The agent's task runs, and a request it waits for is answered or times out.
FairSpec == Spec /\ WF_vars(AgentStep)

-----------------------------------------------------------------------------
(* Properties. *)

\* Rows, messages and the agent's record are of their types; the agent fails
\* no more heartbeats in a row than the policy TTL allows.
TypeOK ==
    /\ device \in {"active", "quarantined"}
    /\ \A i \in DOMAIN sessions :
          /\ sessions[i].state \in SessionStates
          /\ sessions[i].key \in Keys /\ sessions[i].action \in Actions
    /\ agent.at \in {"boot", "starting", "beat", "beating", "rekeying", "stopped"}
    /\ agent.session \in 0 .. Len(sessions) /\ agent.fails \in 0 .. MaxFails
    /\ Cardinality(request) + Cardinality(response) <= 1
    /\ Cardinality(late) <= MaxLate

\* "anything emitted here has to satisfy those rules or the tunnel drops"
\* (service.py): whatever was lost, late or overwritten before, no answer that
\* reaches the agent breaks its rules for nonces, relaxations and profiles.
CommandsAccepted ==
    \A a \in response :
        /\ agent.at = "beating" /\ a.ok => Acceptable(a)
        /\ agent.at = "rekeying" /\ a.ok => a.nonce > agent.nonce

\* Outside a rekey, the key of a running tunnel is the key the control plane
\* has for the session: lost and late rekeys never part them (handle_rekey).
KeysAgree ==
    agent.at \in {"beat", "beating"} /\ Live(Current) => agent.key = Current.key

\* An agent never goes on with a session that was closed: with any answer it
\* hears of it, and without answers the policy TTL ends the tunnel.
RevocationTakesEffect == []<>(Tunnel => Live(Current))

\* A migration, renewal or profile change reaches the agent, also when the
\* answer with the refresh was lost and its command cleared: the profile
\* version tells (handle_heartbeat), or the tunnel ends.
ProfileReaches ==
    []<>(Tunnel /\ Live(Current) =>
            /\ agent.profile.version = Current.version
            /\ agent.profile.gateway = Current.gateway)

=============================================================================
