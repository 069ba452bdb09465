------------------------ MODULE SessionProtocolProofs ------------------------
(***************************************************************************)
(* The session protocol for any number of sessions, events, failures and   *)
(* requests on their way: no answer that reaches the agent breaks its      *)
(* rules, and the keys of the two sides agree.                             *)
(***************************************************************************)
EXTENDS SessionProtocol, SequenceTheorems, TLAPS

\* What a state may become, for a session and for the agent: nothing less
\* restricted, but elevated may be healthy again.
MayBecome(x, y) == ~IsRelaxation(x, y) \/ (x = "elevated" /\ y = "healthy")

RowFields ==
    {"state", "key", "nonce", "version", "gateway", "term", "action", "desired", "expired"}

\* A row of sc_sessions: a state that waits to be announced is the row's, and a
\* restriction is never announced without the state.
RowOK(s) ==
    /\ DOMAIN s = RowFields
    /\ s.state \in SessionStates /\ s.nonce \in Nat
    /\ s.desired \in {None, s.state}
    /\ s.action = "restrict" => s.desired = "restricted"

\* What any handler may do to a row, the key apart.
RowStep(s, t) == RowOK(t) /\ s.nonce <= t.nonce /\ MayBecome(s.state, t.state)

\* What a heartbeat's answer owes to the row it was made from and leaves behind.
AnswerFits(s, t, a) ==
    /\ a.ok /\ a.nonce \in Nat /\ a.nonce <= t.nonce
    /\ \/ a.nonce = 0 /\ a.action = None /\ a.desired = None
       \/ a.nonce > s.nonce
    /\ a.desired # None => /\ a.desired \in SessionStates
                           /\ MayBecome(s.state, a.desired) /\ MayBecome(a.desired, t.state)
    /\ a.action = "restrict" => a.desired = "restricted"
    /\ a.action = "refresh_profile" => a.profile # NoProfile

-----------------------------------------------------------------------------
(* Rows and answers. *)

\* Steps that are allowed one by one are allowed together.
LEMMA MayBecomeTransitive ==
    /\ \A x \in SessionStates : MayBecome(x, x) /\ MayBecome("healthy", x)
    /\ \A x, y, z \in SessionStates : MayBecome(x, y) /\ MayBecome(y, z) => MayBecome(x, z)
  BY DEF MayBecome, IsRelaxation, RestrictionRank, SessionStates

\* Every row is a step from itself.
LEMMA RowStepReflexive == ASSUME NEW s, RowOK(s) PROVE RowStep(s, s)
  BY MayBecomeTransitive DEF RowStep, RowOK

\* Row steps compose.
LEMMA RowStepTransitive ==
    ASSUME NEW s, NEW t, NEW u, RowOK(s), RowStep(s, t), RowStep(t, u)
    PROVE  RowStep(s, u)
  BY MayBecomeTransitive DEF RowStep, RowOK

\* apply_transition announces the state it sets.
LEMMA TransitionSteps ==
    ASSUME NEW s, NEW target \in SessionStates, RowOK(s), MayBecome(s.state, target)
    PROVE  /\ RowStep(s, ApplyTransition(s, target))
           /\ ApplyTransition(s, target).key = s.key
  <1>1. CASE s.state = target
    BY <1>1, RowStepReflexive DEF ApplyTransition
  <1>2. CASE s.state # target
    <2> DEFINE t == ApplyTransition(s, target)
    <2>1. /\ DOMAIN t = RowFields /\ t.state = target /\ t.nonce = s.nonce
          /\ t.desired = target /\ t.action = CommandFor(target) /\ t.key = s.key
      BY <1>2 DEF ApplyTransition, QueueCommand, RowOK, RowFields
    <2>2. CommandFor(target) = "restrict" => target = "restricted"
      BY DEF CommandFor, SessionStates
    <2> QED
      BY <2>1, <2>2 DEF RowStep, RowOK
  <1> QED
    BY <1>1, <1>2

\* _deliver_command: a fresh nonce, and the pending slot is cleared.
LEMMA DeliverSteps ==
    ASSUME NEW s, NEW action, NEW desired, NEW profile, NEW cost, RowOK(s)
    PROVE  LET o == Deliver(s, action, desired, profile, cost)
           IN  /\ RowStep(s, o.row) /\ o.row.key = s.key /\ o.row.state = s.state
               /\ o.row.nonce = s.nonce + 1
               /\ o.answer.ok /\ o.answer.nonce = s.nonce + 1
               /\ o.answer.action = action /\ o.answer.desired = desired
               /\ o.answer.profile = profile
  <1> DEFINE o == Deliver(s, action, desired, profile, cost)
             t == o.row
  <1>1. /\ DOMAIN t = RowFields /\ t.state = s.state /\ t.nonce = s.nonce + 1
        /\ t.desired = None /\ t.action = None /\ t.key = s.key
    BY Zenon DEF Deliver, Outcome, QueueCommand, NextNonce, RowOK, RowFields
  <1>2. RowStep(s, t)
    BY <1>1, MayBecomeTransitive DEF RowStep, RowOK, None
  <1> QED
    BY <1>1, <1>2 DEF Deliver, Outcome, Answer, NextNonce

\* A compiled profile is one.
LEMMA ProfileIsOne == ASSUME NEW s PROVE CompileProfile(s) # NoProfile
  <1>1. CompileProfile(s).routes # NoProfile.routes
    BY DEF CompileProfile, NoProfile, None
  <1> QED
    BY <1>1

\* A delivery whose desired state, if any, is what the row's state became.
LEMMA DeliverFits ==
    ASSUME NEW s, NEW t, NEW action, NEW desired, NEW profile, NEW cost,
           RowOK(s), RowStep(s, t), t.key = s.key,
           desired \in {None, t.state},
           action = "restrict" => desired = "restricted",
           action = "refresh_profile" => profile # NoProfile
    PROVE  LET o == Deliver(t, action, desired, profile, cost)
           IN  RowStep(s, o.row) /\ o.row.key = s.key /\ AnswerFits(s, o.row, o.answer)
  <1> DEFINE o == Deliver(t, action, desired, profile, cost)
  <1>1. RowOK(t) /\ s.nonce \in Nat /\ t.nonce \in Nat /\ s.nonce <= t.nonce
        /\ t.state \in SessionStates /\ MayBecome(s.state, t.state)
    BY DEF RowStep, RowOK
  <1>2. /\ RowStep(t, o.row) /\ o.row.key = t.key /\ o.row.state = t.state
        /\ o.row.nonce = t.nonce + 1
        /\ o.answer.ok /\ o.answer.nonce = t.nonce + 1
        /\ o.answer.action = action /\ o.answer.desired = desired
        /\ o.answer.profile = profile
    BY <1>1, DeliverSteps
  <1>3. RowStep(s, o.row)
    BY <1>2, RowStepTransitive
  <1>4. AnswerFits(s, o.row, o.answer)
    BY <1>1, <1>2, MayBecomeTransitive DEF AnswerFits
  <1> QED
    BY <1>2, <1>3, <1>4

\* A refusal for want of routes leaves the row alone.
LEMMA NoRoutesRefuses ==
    ASSUME NEW row, NEW o \in NoRoutes(row)
    PROVE  o.row = row /\ ~o.answer.ok
  <1>1. o = Outcome(row, Refusal, 0)
    BY DEF NoRoutes, OneIf
  <1> QED
    BY <1>1 DEF Outcome, Refusal, Quiet, Answer

\* handle_heartbeat, whatever it finds due.
LEMMA HeartbeatSteps ==
    ASSUME NEW row, NEW version, RowOK(row), NEW o \in HeartbeatOutcomes(row, version)
    PROVE  /\ RowStep(row, o.row) /\ o.row.key = row.key
           /\ o.answer.ok => AnswerFits(row, o.row, o.answer)
  <1> DEFINE s == IF device # "active" /\ Live(row) THEN ApplyTransition(row, "quarantined") ELSE row
             Good(p) == RowStep(row, p.row) /\ p.row.key = row.key /\ AnswerFits(row, p.row, p.answer)
  <1>1. RowStep(row, s) /\ s.key = row.key /\ RowOK(s)
    <2>1. Live(row) => MayBecome(row.state, "quarantined")
      BY DEF Live, LiveStates, MayBecome, IsRelaxation, RestrictionRank
    <2> QED
      BY <2>1, TransitionSteps, RowStepReflexive DEF RowStep, SessionStates
  <1>0. CASE o \in NoRoutes(row)
    BY <1>0, NoRoutesRefuses, RowStepReflexive
  <1>2. CASE ~Live(s)
    <2>1. o = Reassert(s)
      BY <1>2 DEF HeartbeatOutcomes
    <2>2. CommandFor(s.state) = "restrict" => s.state = "restricted"
      BY <1>1 DEF CommandFor, RowOK, SessionStates
    <2>3. CommandFor(s.state) # "refresh_profile"
      BY <1>1 DEF CommandFor, RowOK, SessionStates
    <2> QED
      BY <1>1, <2>1, <2>2, <2>3, DeliverFits DEF Reassert
  <1>3. CASE Live(s) /\ (s.action # None \/ s.desired # None) /\ o \notin NoRoutes(row)
    <2>1. o = DeliverPending(s)
      BY <1>3 DEF HeartbeatOutcomes
    <2>2. s.desired \in {None, s.state} /\ (s.action = "restrict" => s.desired = "restricted")
      BY <1>1 DEF RowOK
    <2> DEFINE p == IF s.action \in {"restrict", "refresh_profile"} THEN CompileProfile(s) ELSE NoProfile
    <2>3. s.action = "refresh_profile" => p # NoProfile
      BY ProfileIsOne
    <2>4. o = Deliver(s, s.action, s.desired, p, 0)
      BY <2>1 DEF DeliverPending
    <2> QED
      BY <1>1, <2>2, <2>3, <2>4, DeliverFits
  <1>4. CASE Live(s) /\ s.action = None /\ s.desired = None /\ o \notin NoRoutes(row)
    <2>1. o \in OneIf(s.state = "elevated", CoolDown(s))
             \cup OneIf(s.expired, RefreshProfile(Renew(s), 0))
             \cup OneIf(~s.expired /\ events < MaxEvents, RefreshProfile(Renew(s), 1))
             \cup OneIf(~s.expired /\ Stale(s, version), RefreshProfile(s, 0))
             \cup OneIf(~s.expired /\ ~Stale(s, version) /\ events < MaxEvents,
                        Deliver(s, "rekey", None, NoProfile, 1))
             \cup OneIf(~s.expired /\ ~Stale(s, version), Outcome(s, Quiet, 0))
      BY <1>4 DEF HeartbeatOutcomes
    <2>2. \/ s.state = "elevated" /\ o = CoolDown(s)
          \/ o = RefreshProfile(Renew(s), 0) \/ o = RefreshProfile(Renew(s), 1)
          \/ o = RefreshProfile(s, 0)
          \/ o = Deliver(s, "rekey", None, NoProfile, 1) \/ o = Outcome(s, Quiet, 0)
      BY <2>1 DEF OneIf
    <2>3. CASE s.state = "elevated" /\ o = CoolDown(s)
      <3> DEFINE t == [s EXCEPT !.state = "healthy"]
      <3>1. /\ DOMAIN t = RowFields /\ t.state = "healthy" /\ t.nonce = s.nonce
            /\ t.desired = s.desired /\ t.action = s.action /\ t.key = s.key
        BY <1>1 DEF RowOK, RowFields
      <3>2. RowStep(s, t)
        BY <1>1, <1>4, <2>3, <3>1 DEF RowStep, RowOK, MayBecome, SessionStates, None
      <3>3. RowStep(row, t) /\ t.key = row.key
        BY <1>1, <3>1, <3>2, RowStepTransitive
      <3>4. o = Deliver(t, None, t.state, NoProfile, 0)
        BY <2>3, <3>1 DEF CoolDown
      <3>5. None # "restrict" /\ None # "refresh_profile"
        BY DEF None
      <3>6. t.state \in {None, t.state}
        OBVIOUS
      <3> HIDE DEF t, s
      <3> QED
        BY <3>3, <3>4, <3>5, <3>6, DeliverFits
    <2>4. ASSUME NEW cost PROVE Good(RefreshProfile(Renew(s), cost))
      <3> DEFINE t == Renew(s)
      <3>1. /\ DOMAIN t = RowFields /\ t.state = s.state /\ t.nonce = s.nonce
            /\ t.desired = s.desired /\ t.action = s.action /\ t.key = s.key
        BY <1>1 DEF Renew, RowOK, RowFields
      <3>2. RowStep(s, t)
        BY <1>1, <3>1, MayBecomeTransitive DEF RowStep, RowOK
      <3>3. RowStep(row, t) /\ t.key = row.key
        BY <1>1, <3>1, <3>2, RowStepTransitive
      <3> QED
        BY <3>3, DeliverFits, ProfileIsOne DEF RefreshProfile, None
    <2>5. Good(RefreshProfile(s, 0)) /\ Good(Deliver(s, "rekey", None, NoProfile, 1))
      BY <1>1, DeliverFits, ProfileIsOne DEF RefreshProfile, None
    <2>6. Good(Outcome(s, Quiet, 0))
      BY <1>1 DEF Outcome, Quiet, Answer, AnswerFits, RowOK, None
    <2> QED
      BY <2>2, <2>3, <2>4, <2>5, <2>6
  <1> QED
    BY <1>0, <1>2, <1>3, <1>4

\* handle_rekey: the row has the new key before the answer goes out.
LEMMA RekeySteps ==
    ASSUME NEW row, NEW key, NEW nonce \in Nat, RowOK(row), NEW o \in RekeyOutcomes(row, key, nonce)
    PROVE  /\ RowStep(row, o.row) /\ o.row.key \in {row.key, key}
           /\ o.answer.ok => /\ o.answer.nonce \in Nat /\ o.answer.nonce > row.nonce
                             /\ o.answer.nonce <= o.row.nonce /\ o.row.key = key
  <1> DEFINE t == [row EXCEPT !.key = key, !.version = @ + 1,
                              !.nonce = (IF nonce > @ THEN nonce ELSE @) + 1]
  <1>1. /\ DOMAIN t = RowFields /\ t.state = row.state /\ t.desired = row.desired
        /\ t.action = row.action /\ t.key = key
        /\ t.nonce = (IF nonce > row.nonce THEN nonce ELSE row.nonce) + 1
    BY DEF RowOK, RowFields
  <1>2. t.nonce \in Nat /\ t.nonce > row.nonce
    BY <1>1 DEF RowOK
  <1>3. RowStep(row, t)
    BY <1>1, <1>2, MayBecomeTransitive DEF RowStep, RowOK
  <1>4. CASE Live(row) /\ o \notin NoRoutes(row)
    <2>1. o = Outcome(t, Answer(None, None, CompileProfile(t), t.nonce), 0)
      BY <1>4 DEF RekeyOutcomes
    <2>2. o.row = t /\ o.answer.nonce = t.nonce
      BY <2>1 DEF Outcome, Answer
    <2> QED
      BY <1>1, <1>2, <1>3, <2>2
  <1>5. CASE ~Live(row)
    <2>1. o = Outcome(row, Refusal, 0)
      BY <1>5 DEF RekeyOutcomes
    <2>2. o.row = row /\ ~o.answer.ok
      BY <2>1 DEF Outcome, Refusal, Quiet, Answer
    <2> QED
      BY <2>2, RowStepReflexive
  <1>6. CASE o \in NoRoutes(row)
    BY <1>6, NoRoutesRefuses, RowStepReflexive
  <1> QED
    BY <1>4, <1>5, <1>6

-----------------------------------------------------------------------------
(* The inductive invariant. *)

AgentFields == {"at", "session", "state", "nonce", "profile", "key", "next", "fails"}

Waiting == agent.at \in {"starting", "beating", "rekeying"}

\* sc_sessions is a sequence of rows.
RowsOK ==
    /\ sessions \in Seq({sessions[i] : i \in DOMAIN sessions})
    /\ \A i \in DOMAIN sessions : RowOK(sessions[i])

\* With a tunnel the agent is in a session of the control plane, and has seen
\* neither nonces nor states that the session has not had.
InSession ==
    /\ DOMAIN agent = AgentFields /\ agent.nonce \in Nat
    /\ agent.at \in {"boot", "starting", "beat", "beating", "rekeying", "stopped"}
    /\ Tunnel =>
          /\ agent.session \in DOMAIN sessions /\ agent.state \in SessionStates
          /\ agent.nonce <= Current.nonce /\ MayBecome(agent.state, Current.state)
          /\ agent.at # "rekeying" => agent.key = Current.key

\* An open request is of the kind the agent waits for.
RequestOK ==
    \A r \in request :
        /\ Waiting /\ response = {} /\ r.nonce \in Nat
        /\ agent.at = "starting" => r.kind = "start" /\ r.key = agent.next
        /\ agent.at = "beating" => r.kind = "heartbeat" /\ r.session = agent.session
        /\ agent.at = "rekeying" =>
              r.kind = "rekey" /\ r.session = agent.session /\ r.key = agent.next

\* An answer is one the agent can take, and leaves the two sides in step.
ResponseOK ==
    \A a \in response :
        /\ Waiting /\ request = {}
        /\ agent.at = "starting" /\ a.ok =>
              /\ a.session \in DOMAIN sessions /\ a.nonce \in Nat
              /\ a.nonce <= sessions[a.session].nonce /\ sessions[a.session].key = agent.next
        /\ agent.at = "beating" /\ a.ok =>
              /\ Acceptable(a) /\ a.nonce \in Nat /\ a.nonce <= Current.nonce
              /\ a.desired # None => a.desired \in SessionStates /\ MayBecome(a.desired, Current.state)
              /\ a.action = "restrict" => a.desired = "restricted"
        /\ agent.at = "rekeying" /\ a.ok =>
              /\ a.nonce \in Nat /\ a.nonce > agent.nonce /\ a.nonce <= Current.nonce
              /\ Current.key = agent.next

\* A rekey the agent has given up is for a session it has left.
LateOK ==
    \A r \in late :
        /\ r.kind \in {"start", "heartbeat", "rekey"} /\ r.nonce \in Nat
        /\ r.kind # "start" => r.session \in DOMAIN sessions
        /\ r.kind = "rekey" =>
              /\ Tunnel => r.session # agent.session
              /\ agent.at = "starting" => \A a \in response : a.ok => r.session # a.session

IInv == RowsOK /\ InSession /\ RequestOK /\ ResponseOK /\ LateOK

-----------------------------------------------------------------------------
(* The control plane's side. *)

Rows(q) == {q[i] : i \in DOMAIN q}

\* A function on 1 .. n is a sequence of its values.
LEMMA SequenceOfRows ==
    ASSUME NEW n \in Nat, NEW q, q = [i \in 1 .. n |-> q[i]]
    PROVE  q \in Seq(Rows(q)) /\ DOMAIN q = 1 .. n /\ Len(q) = n
  <1>1. DOMAIN q = 1 .. n
    OBVIOUS
  <1>2. q \in [1 .. n -> Rows(q)]
    BY <1>1 DEF Rows
  <1>3. q \in Seq(Rows(q))
    BY <1>2, SeqDef
  <1> QED
    BY <1>1, <1>3, LenProperties

\* The rows as a function on 1 .. n.
LEMMA RowsAreSequence ==
    ASSUME RowsOK
    PROVE  /\ Len(sessions) \in Nat /\ DOMAIN sessions = 1 .. Len(sessions)
           /\ sessions = [i \in 1 .. Len(sessions) |-> sessions[i]]
           /\ sessions \in Seq(Rows(sessions))
  <1>1. sessions \in Seq(Rows(sessions))
    BY DEF RowsOK, Rows
  <1>2. /\ Len(sessions) \in Nat /\ DOMAIN sessions = 1 .. Len(sessions)
        /\ sessions \in [1 .. Len(sessions) -> Rows(sessions)]
    BY <1>1, LenProperties
  <1> QED
    BY <1>1, <1>2

\* One row is replaced.
LEMMA ReplaceRow ==
    ASSUME RowsOK, NEW i \in DOMAIN sessions, NEW row
    PROVE  LET q == [sessions EXCEPT ![i] = row]
           IN  /\ q \in Seq(Rows(q)) /\ DOMAIN q = DOMAIN sessions /\ q[i] = row
               /\ \A j \in DOMAIN sessions : j # i => q[j] = sessions[j]
  <1> DEFINE q == [sessions EXCEPT ![i] = row]
  <1>1. /\ Len(sessions) \in Nat /\ DOMAIN sessions = 1 .. Len(sessions)
        /\ sessions = [j \in 1 .. Len(sessions) |-> sessions[j]]
    BY RowsAreSequence
  <1>2. q = [j \in 1 .. Len(sessions) |-> q[j]]
    BY <1>1, Zenon
  <1>3. q \in Seq(Rows(q))
    BY <1>1, <1>2, SequenceOfRows, Zenon
  <1> QED
    BY <1>1, <1>3

\* Rows change as handlers change them, and the agent's keeps its key unless it
\* rekeys: the agent stays in step with its session.
LEMMA RowsChange ==
    ASSUME IInv, UNCHANGED agent, sessions' \in Seq(Rows(sessions')),
           DOMAIN sessions \subseteq DOMAIN sessions',
           \A i \in DOMAIN sessions' : RowOK(sessions'[i]),
           \A i \in DOMAIN sessions : RowStep(sessions[i], sessions'[i]),
           agent.at \in {"beat", "beating"} => sessions'[agent.session].key = Current.key
    PROVE  RowsOK' /\ InSession'
  <1>1. RowsOK'
    BY DEF RowsOK, Rows
  <1>2. ASSUME Tunnel
        PROVE  /\ Current' = sessions'[agent.session] /\ Current = sessions[agent.session]
               /\ agent.session \in DOMAIN sessions
               /\ RowStep(Current, Current') /\ RowOK(Current) /\ RowOK(Current')
    BY <1>2 DEF IInv, RowsOK, InSession, Current
  <1>3. ASSUME Tunnel
        PROVE  agent.nonce <= Current'.nonce /\ MayBecome(agent.state, Current'.state)
    <2>1. agent.nonce \in Nat /\ agent.state \in SessionStates
          /\ agent.nonce <= Current.nonce /\ MayBecome(agent.state, Current.state)
      BY <1>3 DEF IInv, InSession
    <2>2. Current.nonce \in Nat /\ Current'.nonce \in Nat /\ Current.nonce <= Current'.nonce
          /\ Current.state \in SessionStates /\ Current'.state \in SessionStates
          /\ MayBecome(Current.state, Current'.state)
      BY <1>2, <1>3 DEF RowStep, RowOK
    <2> QED
      BY <2>1, <2>2, MayBecomeTransitive
  <1>4. InSession'
    <2>1. /\ DOMAIN agent' = AgentFields /\ agent'.nonce \in Nat
          /\ agent'.at \in {"boot", "starting", "beat", "beating", "rekeying", "stopped"}
      BY DEF IInv, InSession
    <2>2. ASSUME Tunnel
          PROVE  /\ agent'.session \in DOMAIN sessions' /\ agent'.state \in SessionStates
                 /\ agent'.nonce <= Current'.nonce /\ MayBecome(agent'.state, Current'.state)
                 /\ agent'.at # "rekeying" => agent'.key = Current'.key
      <3>1. agent.at # "rekeying" => agent.key = Current.key /\ sessions'[agent.session].key = Current.key
        BY <2>2 DEF IInv, InSession, Tunnel
      <3> QED
        BY <1>2, <1>3, <2>2, <3>1 DEF IInv, InSession
    <2>3. Tunnel' <=> Tunnel
      BY DEF Tunnel
    <2> QED
      BY <2>1, <2>2, <2>3 DEF InSession
  <1> QED
    BY <1>1, <1>4

\* A session whose key the agent has, or is about to have.
Watched(i) ==
    \/ Tunnel /\ i = agent.session
    \/ agent.at = "starting" /\ \E a \in response : a.ok /\ i = a.session

\* The same while the wire is left alone, or loses a late request.
LEMMA RowsChangeKeepsIInv ==
    ASSUME IInv, UNCHANGED <<agent, request, response>>, late' \subseteq late,
           sessions' \in Seq(Rows(sessions')),
           DOMAIN sessions \subseteq DOMAIN sessions',
           \A i \in DOMAIN sessions' : RowOK(sessions'[i]),
           \A i \in DOMAIN sessions : RowStep(sessions[i], sessions'[i]),
           \A i \in DOMAIN sessions : Watched(i) => sessions'[i].key = sessions[i].key
    PROVE  IInv'
  <1>1. RowsOK' /\ InSession'
    <2>1. agent.at \in {"beat", "beating"} => sessions'[agent.session].key = Current.key
      BY DEF IInv, InSession, Tunnel, Watched, Current
    <2> QED
      BY <2>1, RowsChange
  <1>2. (Tunnel' <=> Tunnel) /\ (Waiting' <=> Waiting)
    BY DEF Tunnel, Waiting
  <1>3. RequestOK'
    BY <1>2 DEF IInv, RequestOK
  <1>4. LateOK'
    BY <1>2 DEF IInv, LateOK
  <1>5. ResponseOK'
    <2> SUFFICES ASSUME NEW a \in response
                 PROVE  /\ Waiting' /\ request' = {}
                        /\ agent.at = "starting" /\ a.ok =>
                              /\ a.session \in DOMAIN sessions' /\ a.nonce \in Nat
                              /\ a.nonce <= sessions'[a.session].nonce
                              /\ sessions'[a.session].key = agent.next
                        /\ agent.at = "beating" /\ a.ok =>
                              /\ Acceptable(a)' /\ a.nonce \in Nat /\ a.nonce <= Current'.nonce
                              /\ a.desired # None =>
                                    a.desired \in SessionStates /\ MayBecome(a.desired, Current'.state)
                              /\ a.action = "restrict" => a.desired = "restricted"
                        /\ agent.at = "rekeying" /\ a.ok =>
                              /\ a.nonce \in Nat /\ a.nonce > agent.nonce /\ a.nonce <= Current'.nonce
                              /\ Current'.key = agent.next
      BY DEF ResponseOK
    <2>1. Waiting' /\ request' = {}
      BY <1>2 DEF IInv, ResponseOK
    <2>2. ASSUME agent.at = "starting", a.ok
          PROVE  /\ a.session \in DOMAIN sessions' /\ a.nonce \in Nat
                 /\ a.nonce <= sessions'[a.session].nonce
                 /\ sessions'[a.session].key = agent.next
      <3>1. /\ a.session \in DOMAIN sessions /\ a.nonce \in Nat
            /\ a.nonce <= sessions[a.session].nonce /\ sessions[a.session].key = agent.next
        BY <2>2 DEF IInv, ResponseOK
      <3>2. Watched(a.session)
        BY <2>2 DEF Watched
      <3>3. /\ sessions[a.session].nonce \in Nat /\ sessions'[a.session].nonce \in Nat
            /\ sessions[a.session].nonce <= sessions'[a.session].nonce
        BY <3>1 DEF IInv, RowsOK, RowStep, RowOK
      <3> QED
        BY <3>1, <3>2, <3>3
    <2>3. ASSUME Tunnel
          PROVE  /\ Current.nonce \in Nat /\ Current'.nonce \in Nat /\ Current.nonce <= Current'.nonce
                 /\ Current.state \in SessionStates /\ Current'.state \in SessionStates
                 /\ MayBecome(Current.state, Current'.state) /\ Current'.key = Current.key
      <3>1. agent.session \in DOMAIN sessions /\ Watched(agent.session)
        BY <2>3 DEF IInv, InSession, Watched
      <3> QED
        BY <3>1 DEF IInv, RowsOK, RowStep, RowOK, Current
    <2>4. ASSUME agent.at = "beating", a.ok
          PROVE  /\ Acceptable(a)' /\ a.nonce \in Nat /\ a.nonce <= Current'.nonce
                 /\ a.desired # None =>
                       a.desired \in SessionStates /\ MayBecome(a.desired, Current'.state)
                 /\ a.action = "restrict" => a.desired = "restricted"
      <3>1. /\ Acceptable(a) /\ a.nonce \in Nat /\ a.nonce <= Current.nonce
            /\ a.desired # None => a.desired \in SessionStates /\ MayBecome(a.desired, Current.state)
            /\ a.action = "restrict" => a.desired = "restricted"
        BY <2>4 DEF IInv, ResponseOK
      <3>2. Acceptable(a)'
        BY <3>1 DEF Acceptable
      <3>3. Tunnel
        BY <2>4 DEF Tunnel
      <3> QED
        BY <2>3, <3>1, <3>2, <3>3, MayBecomeTransitive
    <2>5. ASSUME agent.at = "rekeying", a.ok
          PROVE  /\ a.nonce \in Nat /\ a.nonce > agent.nonce /\ a.nonce <= Current'.nonce
                 /\ Current'.key = agent.next
      BY <2>3, <2>5 DEF IInv, ResponseOK, Tunnel
    <2> QED
      BY <2>1, <2>2, <2>4, <2>5
  <1> QED
    BY <1>1, <1>3, <1>4, <1>5 DEF IInv

\* One row changes as a handler changes it.
LEMMA RowChangeKeepsIInv ==
    ASSUME IInv, UNCHANGED <<agent, request, response>>, late' \subseteq late,
           NEW i \in DOMAIN sessions, NEW row,
           sessions' = [sessions EXCEPT ![i] = row],
           RowStep(sessions[i], row), Watched(i) => row.key = sessions[i].key
    PROVE  IInv'
  <1>1. /\ sessions' \in Seq(Rows(sessions')) /\ DOMAIN sessions' = DOMAIN sessions
        /\ sessions'[i] = row /\ \A j \in DOMAIN sessions : j # i => sessions'[j] = sessions[j]
    BY ReplaceRow, Zenon DEF IInv
  <1>2. \A j \in DOMAIN sessions : RowStep(sessions[j], sessions'[j])
    BY <1>1, RowStepReflexive DEF IInv, RowsOK
  <1>3. \A j \in DOMAIN sessions' : RowOK(sessions'[j])
    BY <1>1, <1>2 DEF RowStep
  <1>4. \A j \in DOMAIN sessions : Watched(j) => sessions'[j].key = sessions[j].key
    BY <1>1
  <1> QED
    BY <1>1, <1>2, <1>3, <1>4, RowsChangeKeepsIInv

\* Operators, risk signals, profile changes, migrations and time.
LEMMA OperationsKeepIInv ==
    ASSUME IInv, NEW i \in DOMAIN sessions,
           \/ \E target \in SessionStates : SetSessionState(i, target)
           \/ PushProfileRefresh(i) \/ MigrateSession(i) \/ Expires(i) \/ Reap(i)
    PROVE  IInv'
  <1> DEFINE s == sessions[i]
  <1>1. RowOK(s)
    BY DEF IInv, RowsOK
  <1>2. ASSUME NEW row, sessions' = [sessions EXCEPT ![i] = row],
               UNCHANGED <<agent, request, response, late>>,
               RowStep(s, row), row.key = s.key
        PROVE  IInv'
    BY <1>2, RowChangeKeepsIInv, Zenon
  <1>3. ASSUME NEW target \in SessionStates, SetSessionState(i, target) PROVE IInv'
    <2>1. MayBecome(s.state, target)
      BY <1>3 DEF SetSessionState, OperatorMay, MayBecome
    <2>2. sessions' = [sessions EXCEPT ![i] = ApplyTransition(s, target)]
          /\ UNCHANGED <<agent, request, response, late>>
      BY <1>3 DEF SetSessionState, SetRow, wire
    <2> QED
      BY <1>1, <1>2, <2>1, <2>2, TransitionSteps, Zenon
  <1>4. ASSUME PushProfileRefresh(i) \/ MigrateSession(i) PROVE IInv'
    <2> DEFINE t == QueueCommand([s EXCEPT !.version = @ + 1], "refresh_profile", None)
               u == QueueCommand([s EXCEPT !.version = @ + 1, !.gateway = @ + 1], "refresh_profile", None)
    <2>1. /\ DOMAIN t = RowFields /\ t.state = s.state /\ t.nonce = s.nonce /\ t.key = s.key
          /\ t.action = "refresh_profile" /\ t.desired = None
      BY <1>1 DEF QueueCommand, RowOK, RowFields
    <2>2. /\ DOMAIN u = RowFields /\ u.state = s.state /\ u.nonce = s.nonce /\ u.key = s.key
          /\ u.action = "refresh_profile" /\ u.desired = None
      BY <1>1 DEF QueueCommand, RowOK, RowFields
    <2>3. RowStep(s, t) /\ RowStep(s, u)
      BY <1>1, <2>1, <2>2, MayBecomeTransitive DEF RowStep, RowOK
    <2>4. /\ sessions' = [sessions EXCEPT ![i] = t] \/ sessions' = [sessions EXCEPT ![i] = u]
          /\ UNCHANGED <<agent, request, response, late>>
      BY <1>4 DEF PushProfileRefresh, MigrateSession, SetRow, wire
    <2> QED
      BY <1>2, <2>1, <2>2, <2>3, <2>4
  <1>5. ASSUME Expires(i) PROVE IInv'
    <2> DEFINE t == [s EXCEPT !.expired = TRUE]
    <2>1. /\ DOMAIN t = RowFields /\ t.state = s.state /\ t.nonce = s.nonce /\ t.key = s.key
          /\ t.action = s.action /\ t.desired = s.desired
      BY <1>1 DEF RowOK, RowFields
    <2>2. RowStep(s, t)
      BY <1>1, <2>1, MayBecomeTransitive DEF RowStep, RowOK
    <2>3. sessions' = [sessions EXCEPT ![i] = t] /\ UNCHANGED <<agent, request, response, late>>
      BY <1>5 DEF Expires, SetRow, wire
    <2> QED
      BY <1>2, <2>1, <2>2, <2>3, Zenon
  <1>6. ASSUME Reap(i) PROVE IInv'
    <2>1. MayBecome(s.state, "terminated") /\ "terminated" \in SessionStates
      BY <1>1 DEF RowOK, MayBecome, IsRelaxation, RestrictionRank, SessionStates
    <2>2. sessions' = [sessions EXCEPT ![i] = ApplyTransition(s, "terminated")]
          /\ UNCHANGED <<agent, request, response, late>>
      BY <1>6 DEF Reap, wire
    <2> QED
      BY <1>1, <1>2, <2>1, <2>2, TransitionSteps, Zenon
  <1> QED
    BY <1>3, <1>4, <1>5, <1>6

\* A quarantined device quarantines its sessions; enrolling leaves them alone.
LEMMA DeviceKeepsIInv ==
    ASSUME IInv, QuarantineDevice \/ Enroll
    PROVE  IInv'
  <1>1. /\ Len(sessions) \in Nat /\ DOMAIN sessions = 1 .. Len(sessions)
        /\ sessions = [i \in 1 .. Len(sessions) |-> sessions[i]]
        /\ sessions \in Seq(Rows(sessions))
    BY RowsAreSequence DEF IInv
  <1>2. \A i \in DOMAIN sessions : RowOK(sessions[i]) /\ RowStep(sessions[i], sessions[i])
    BY RowStepReflexive DEF IInv, RowsOK
  <1>3. CASE QuarantineDevice
    <2>1. /\ sessions' = [i \in DOMAIN sessions |->
                             IF Live(sessions[i]) THEN ApplyTransition(sessions[i], "quarantined")
                             ELSE sessions[i]]
          /\ UNCHANGED <<agent, request, response, late>>
      BY <1>3 DEF QuarantineDevice, wire
    <2>2. DOMAIN sessions' = DOMAIN sessions /\ sessions' = [i \in 1 .. Len(sessions) |-> sessions'[i]]
      BY <1>1, <2>1
    <2>3. sessions' \in Seq(Rows(sessions'))
      BY <1>1, <2>2, SequenceOfRows
    <2>4. ASSUME NEW i \in DOMAIN sessions
          PROVE  RowStep(sessions[i], sessions'[i]) /\ sessions'[i].key = sessions[i].key
      <3>1. Live(sessions[i]) => MayBecome(sessions[i].state, "quarantined")
        BY DEF Live, LiveStates, MayBecome, IsRelaxation, RestrictionRank
      <3>2. "quarantined" \in SessionStates
        BY DEF SessionStates
      <3> QED
        BY <1>2, <2>1, <3>1, <3>2, TransitionSteps
    <2>5. \A i \in DOMAIN sessions' : RowOK(sessions'[i])
      BY <2>2, <2>4 DEF RowStep
    <2> QED
      BY <2>1, <2>2, <2>3, <2>4, <2>5, RowsChangeKeepsIInv
  <1>4. CASE Enroll
    <2>1. UNCHANGED <<sessions, agent, request, response, late>>
      BY <1>4 DEF Enroll, wire
    <2> QED
      BY <1>1, <1>2, <2>1, RowsChangeKeepsIInv
  <1> QED
    BY <1>3, <1>4

-----------------------------------------------------------------------------
(* Requests, handled in time or late. *)

\* start_session closes the device's session and adds a row.
LEMMA StartSteps ==
    ASSUME RowsOK, NEW key
    PROVE  LET o == StartOutcome(key)
           IN  /\ o.rows \in Seq(Rows(o.rows)) /\ DOMAIN sessions \subseteq DOMAIN o.rows
               /\ \A i \in DOMAIN o.rows : RowOK(o.rows[i])
               /\ \A i \in DOMAIN sessions :
                     RowStep(sessions[i], o.rows[i]) /\ o.rows[i].key = sessions[i].key
               /\ o.answer.ok =>
                     /\ o.answer.session \in DOMAIN o.rows \ DOMAIN sessions
                     /\ o.answer.nonce \in Nat /\ o.answer.nonce <= o.rows[o.answer.session].nonce
                     /\ o.rows[o.answer.session].key = key
  <1> DEFINE n == Len(sessions)
             s == NewSession(key)
  <1>1. /\ n \in Nat /\ DOMAIN sessions = 1 .. n
        /\ sessions = [i \in 1 .. n |-> sessions[i]] /\ sessions \in Seq(Rows(sessions))
    BY RowsAreSequence
  <1>2. \A i \in DOMAIN sessions : RowOK(sessions[i]) /\ RowStep(sessions[i], sessions[i])
    BY RowStepReflexive DEF RowsOK
  <1>3. CASE device = "active" /\ n < MaxSessions
    <2> DEFINE q == Append(Superseded, s)
    <2>1. StartOutcome(key) = [rows |-> q, answer |-> StartAnswer(s), cost |-> 0]
      BY <1>3 DEF StartOutcome
    <2>2. DOMAIN Superseded = 1 .. n /\ Superseded = [i \in 1 .. n |-> Superseded[i]]
      BY <1>1 DEF Superseded
    <2>3. Superseded \in Seq(Rows(Superseded)) /\ Len(Superseded) = n
      BY <1>1, <2>2, SequenceOfRows
    <2>4. /\ DOMAIN q = 1 .. (n + 1) /\ q[n + 1] = s
          /\ \A i \in 1 .. n : q[i] = Superseded[i]
          /\ q = [i \in 1 .. (n + 1) |-> q[i]]
      <3> DEFINE R == Rows(Superseded) \cup {s}
      <3> HIDE DEF s, R
      <3>1. Superseded \in [1 .. n -> R]
        BY <2>2 DEF R, Rows
      <3>2. Superseded \in Seq(R) /\ s \in R
        BY <1>1, <3>1, SeqDef DEF R
      <3>3. /\ q \in Seq(R) /\ Len(q) = n + 1 /\ q[n + 1] = s
            /\ \A i \in 1 .. n : q[i] = Superseded[i]
        BY <2>3, <3>2, AppendProperties
      <3>4. q \in [1 .. (n + 1) -> R]
        BY <3>3, LenProperties, Zenon
      <3> QED
        BY <3>3, <3>4, Zenon
    <2>5. q \in Seq(Rows(q))
      BY <1>1, <2>4, SequenceOfRows
    <2>6. RowOK(s) /\ s.key = key /\ s.nonce \in Nat
      BY DEF NewSession, RowOK, RowFields, SessionStates, None
    <2>7. ASSUME NEW i \in DOMAIN sessions
          PROVE  RowStep(sessions[i], Superseded[i]) /\ Superseded[i].key = sessions[i].key
      <3> DEFINE t == [QueueCommand(sessions[i], None, None) EXCEPT !.state = "terminated"]
      <3>1. /\ DOMAIN t = RowFields /\ t.state = "terminated" /\ t.nonce = sessions[i].nonce
            /\ t.key = sessions[i].key /\ t.action = None /\ t.desired = None
        BY <1>2 DEF QueueCommand, RowOK, RowFields
      <3>2. MayBecome(sessions[i].state, "terminated")
        BY <1>2 DEF RowOK, MayBecome, IsRelaxation, RestrictionRank, SessionStates
      <3>3. RowStep(sessions[i], t)
        BY <1>2, <3>1, <3>2 DEF RowStep, RowOK, None, SessionStates
      <3>4. Superseded[i] \in {t, sessions[i]}
        BY DEF Superseded
      <3> QED
        BY <1>2, <3>1, <3>3, <3>4, Zenon
    <2>8. \A i \in DOMAIN q : RowOK(q[i])
      BY <1>1, <2>4, <2>6, <2>7 DEF RowStep
    <2>9. StartAnswer(s).session = n + 1 /\ StartAnswer(s).nonce = s.nonce
      BY DEF StartAnswer, Answer
    <2>10. StartOutcome(key).rows = q /\ StartOutcome(key).answer = StartAnswer(s)
      BY <2>1
    <2> HIDE DEF q, s, n
    <2>11. n + 1 \in DOMAIN q \ DOMAIN sessions /\ DOMAIN sessions \subseteq DOMAIN q
      BY <1>1, <2>4
    <2>12. s.nonce <= q[n + 1].nonce
      BY <2>4, <2>6
    <2> QED
      BY <1>1, <2>4, <2>5, <2>6, <2>7, <2>8, <2>9, <2>10, <2>11, <2>12, ZenonT(40)
  <1>4. CASE ~(device = "active" /\ n < MaxSessions)
    <2>1. StartOutcome(key) = [rows |-> sessions, answer |-> Refusal, cost |-> 0]
      BY <1>4 DEF StartOutcome
    <2>2. ~Refusal.ok
      BY DEF Refusal, Quiet, Answer
    <2> QED
      BY <1>1, <1>2, <2>1, <2>2
  <1> QED
    BY <1>3, <1>4

\* A late request changes no row's key but that of a session the agent has left.
LEMMA ServeLateKeepsIInv ==
    ASSUME IInv, NEW r \in late, ServeLate(r)
    PROVE  IInv'
  <1>1. PICK o \in Outcomes(r) : /\ sessions' = o.rows /\ late' = late \ {r}
                                 /\ UNCHANGED <<agent, request, response>>
    BY DEF ServeLate
  <1>2. r.kind \in {"start", "heartbeat", "rekey"} /\ r.nonce \in Nat
    BY DEF IInv, LateOK
  <1>3. CASE r.kind = "start"
    <2>1. o = StartOutcome(r.key)
      BY <1>3 DEF Outcomes
    <2> QED
      BY <1>1, <2>1, StartSteps, RowsChangeKeepsIInv DEF IInv
  <1>4. ASSUME r.kind # "start", NEW p, o = OnRow(r.session, p),
               RowStep(sessions[r.session], p.row),
               Watched(r.session) => p.row.key = sessions[r.session].key
        PROVE  IInv'
    <2>1. r.session \in DOMAIN sessions
      BY <1>4 DEF IInv, LateOK
    <2>2. sessions' = [sessions EXCEPT ![r.session] = p.row]
      BY <1>1, <1>4 DEF OnRow
    <2> QED
      BY <1>1, <1>4, <2>1, <2>2, RowChangeKeepsIInv
  <1>5. r.kind # "start" => r.session \in DOMAIN sessions /\ RowOK(sessions[r.session])
    BY DEF IInv, LateOK, RowsOK
  <1>6. CASE r.kind = "heartbeat"
    <2>1. PICK p \in HeartbeatOutcomes(sessions[r.session], r.version) : o = OnRow(r.session, p)
      BY <1>6 DEF Outcomes
    <2>2. RowStep(sessions[r.session], p.row) /\ p.row.key = sessions[r.session].key
      BY <1>5, <1>6, HeartbeatSteps
    <2> QED
      BY <1>4, <1>6, <2>1, <2>2
  <1>7. CASE r.kind = "rekey"
    <2>1. PICK p \in RekeyOutcomes(sessions[r.session], r.key, r.nonce) : o = OnRow(r.session, p)
      BY <1>7 DEF Outcomes
    <2>2. RowStep(sessions[r.session], p.row)
      BY <1>2, <1>5, <1>7, RekeySteps
    <2>3. ~Watched(r.session)
      BY <1>7 DEF IInv, LateOK, Watched
    <2> QED
      BY <1>4, <1>7, <2>1, <2>2, <2>3
  <1> QED
    BY <1>2, <1>3, <1>6, <1>7

\* A request handled in time: its answer is one the agent can take.
LEMMA ServeKeepsIInv ==
    ASSUME IInv, Serve
    PROVE  IInv'
  <1>1. PICK r \in request : \E o \in Outcomes(r) :
            /\ sessions' = o.rows /\ response' = {o.answer} /\ request' = {}
            /\ UNCHANGED <<agent, late>>
    BY DEF Serve
  <1>2. PICK o \in Outcomes(r) :
            /\ sessions' = o.rows /\ response' = {o.answer} /\ request' = {}
            /\ UNCHANGED <<agent, late>>
    BY <1>1
  <1> DEFINE a == o.answer
  <1>3. /\ Waiting /\ r.nonce \in Nat
        /\ agent.at = "starting" => r.kind = "start" /\ r.key = agent.next
        /\ agent.at = "beating" => r.kind = "heartbeat" /\ r.session = agent.session
        /\ agent.at = "rekeying" =>
              r.kind = "rekey" /\ r.session = agent.session /\ r.key = agent.next
    BY DEF IInv, RequestOK
  <1>4. (Tunnel' <=> Tunnel) /\ Waiting'
    BY <1>2, <1>3 DEF Tunnel, Waiting
  <1>5. RequestOK'
    BY <1>2 DEF RequestOK
  <1>6. CASE agent.at = "starting"
    <2>1. o = StartOutcome(r.key)
      BY <1>3, <1>6 DEF Outcomes
    <2> HIDE DEF a
    <2>2. /\ sessions' \in Seq(Rows(sessions')) /\ DOMAIN sessions \subseteq DOMAIN sessions'
          /\ \A i \in DOMAIN sessions' : RowOK(sessions'[i])
          /\ \A i \in DOMAIN sessions : RowStep(sessions[i], sessions'[i])
          /\ a.ok => /\ a.session \in DOMAIN sessions' \ DOMAIN sessions
                     /\ a.nonce \in Nat /\ a.nonce <= sessions'[a.session].nonce
                     /\ sessions'[a.session].key = r.key
      BY <1>2, <2>1, StartSteps DEF IInv, a
    <2>3. RowsOK' /\ InSession'
      BY <1>2, <1>6, <2>2, RowsChange
    <2>4. ResponseOK'
      BY <1>2, <1>3, <1>4, <1>6, <2>2 DEF ResponseOK, a
    <2>5. LateOK'
      BY <1>2, <1>4, <1>6, <2>2 DEF IInv, LateOK, Tunnel, a
    <2> QED
      BY <1>5, <2>3, <2>4, <2>5 DEF IInv
  <1>7. ASSUME Tunnel, NEW p, o = OnRow(agent.session, p), RowStep(Current, p.row),
               agent.at = "beating" => p.row.key = Current.key
        PROVE  RowsOK' /\ InSession' /\ LateOK' /\ Current' = p.row /\ a = p.answer
    <2>1. agent.session \in DOMAIN sessions /\ agent.at # "beat"
      BY <1>3, <1>7 DEF IInv, InSession, Waiting
    <2>2. sessions' = [sessions EXCEPT ![agent.session] = p.row] /\ a = p.answer
      BY <1>2, <1>7 DEF OnRow
    <2>3. /\ sessions' \in Seq(Rows(sessions')) /\ DOMAIN sessions' = DOMAIN sessions
          /\ sessions'[agent.session] = p.row
          /\ \A j \in DOMAIN sessions : j # agent.session => sessions'[j] = sessions[j]
      BY <2>1, <2>2, ReplaceRow, Zenon DEF IInv
    <2>4. \A i \in DOMAIN sessions : RowStep(sessions[i], sessions'[i])
      BY <1>7, <2>3, RowStepReflexive DEF IInv, RowsOK, Current
    <2>5. RowsOK' /\ InSession'
      BY <1>2, <1>7, <2>1, <2>3, <2>4, RowsChange DEF RowStep
    <2>6. LateOK'
      BY <1>2, <1>4, <1>7, <2>3 DEF IInv, LateOK, Tunnel
    <2> QED
      BY <1>2, <2>2, <2>3, <2>5, <2>6 DEF Current
  <1>8. Tunnel => RowOK(Current) /\ Current = sessions[agent.session]
    BY DEF IInv, InSession, RowsOK, Current
  <1>9. CASE agent.at = "beating"
    <2>1. PICK p \in HeartbeatOutcomes(Current, r.version) : o = OnRow(agent.session, p)
      BY <1>3, <1>9 DEF Outcomes, Current
    <2>2. Tunnel
      BY <1>9 DEF Tunnel
    <2>3. /\ RowStep(Current, p.row) /\ p.row.key = Current.key
          /\ p.answer.ok => AnswerFits(Current, p.row, p.answer)
      BY <1>8, <2>2, HeartbeatSteps
    <2>4. RowsOK' /\ InSession' /\ LateOK' /\ Current' = p.row /\ a = p.answer
      BY <1>7, <2>1, <2>2, <2>3
    <2> HIDE DEF a
    <2>5. /\ agent.nonce \in Nat /\ agent.nonce <= Current.nonce /\ Current.nonce \in Nat
          /\ agent.state \in SessionStates /\ Current.state \in SessionStates
          /\ MayBecome(agent.state, Current.state)
      BY <1>8, <2>2 DEF IInv, InSession, RowOK
    <2>6. ASSUME a.ok PROVE Acceptable(a)
      <3>1. IF a.nonce = 0 THEN a.action = None /\ a.desired = None ELSE a.nonce > agent.nonce
        BY <2>3, <2>4, <2>5, <2>6 DEF AnswerFits
      <3>2. a.desired # None => MayBecome(agent.state, a.desired)
        BY <2>3, <2>4, <2>5, <2>6, MayBecomeTransitive DEF AnswerFits
      <3>3. a.action = "refresh_profile" => a.profile # NoProfile
        BY <2>3, <2>4, <2>6 DEF AnswerFits
      <3> QED
        BY <3>1, <3>2, <3>3 DEF Acceptable, MayBecome
    <2>7. a.ok => Acceptable(a)'
      BY <1>2, <2>6 DEF Acceptable, a
    <2>8. ResponseOK'
      BY <1>2, <1>4, <1>9, <2>3, <2>4, <2>7 DEF ResponseOK, AnswerFits, a
    <2> QED
      BY <1>5, <2>4, <2>8 DEF IInv
  <1>10. CASE agent.at = "rekeying"
    <2>1. PICK p \in RekeyOutcomes(Current, agent.next, r.nonce) : o = OnRow(agent.session, p)
      BY <1>3, <1>10 DEF Outcomes, Current
    <2>2. Tunnel
      BY <1>10 DEF Tunnel
    <2>3. /\ RowStep(Current, p.row)
          /\ p.answer.ok => /\ p.answer.nonce \in Nat /\ p.answer.nonce > Current.nonce
                            /\ p.answer.nonce <= p.row.nonce /\ p.row.key = agent.next
      BY <1>3, <1>8, <2>2, RekeySteps
    <2>4. RowsOK' /\ InSession' /\ LateOK' /\ Current' = p.row /\ a = p.answer
      BY <1>7, <1>10, <2>1, <2>2, <2>3
    <2> HIDE DEF a
    <2>5. a.ok => a.nonce > agent.nonce
      BY <1>8, <2>2, <2>3, <2>4 DEF IInv, InSession, RowOK
    <2>6. ResponseOK'
      BY <1>2, <1>4, <1>10, <2>3, <2>4, <2>5 DEF ResponseOK, a
    <2> QED
      BY <1>5, <2>4, <2>6 DEF IInv
  <1> QED
    BY <1>3, <1>6, <1>9, <1>10 DEF Waiting

-----------------------------------------------------------------------------
(* The agent's side. *)

\* In the first state nothing is there.
LEMMA InitIInv == ASSUME Init PROVE IInv
  <1>1. sessions = <<>> /\ agent = Down /\ request = {} /\ response = {} /\ late = {}
    BY DEF Init
  <1>2. sessions \in Seq({sessions[i] : i \in DOMAIN sessions}) /\ DOMAIN sessions = {}
    BY <1>1
  <1>3. InSession
    BY <1>1 DEF InSession, Down, AgentFields, Tunnel
  <1> QED
    BY <1>1, <1>2, <1>3 DEF IInv, RowsOK, RequestOK, ResponseOK, LateOK

\* A request that may still arrive is one the control plane can handle.
LEMMA MayBeLate ==
    ASSUME IInv, NEW r \in late \cup request
    PROVE  /\ r.kind \in {"start", "heartbeat", "rekey"} /\ r.nonce \in Nat
           /\ r.kind # "start" => r.session \in DOMAIN sessions
  <1>1. CASE r \in late
    BY <1>1 DEF IInv, LateOK
  <1>2. CASE r \in request
    BY <1>2 DEF IInv, RequestOK, InSession, Waiting, Tunnel
  <1> QED
    BY <1>1, <1>2

\* The agent no longer waits for an answer.
LEMMA NoLongerWaiting ==
    ASSUME IInv, UNCHANGED sessions, request' = {}, response' = {}, late' \subseteq late \cup request,
           InSession', agent'.at # "starting",
           \A r \in late' : r.kind = "rekey" /\ Tunnel' => r.session # agent'.session
    PROVE  IInv'
  <1>1. RowsOK'
    BY DEF IInv, RowsOK
  <1>2. RequestOK' /\ ResponseOK'
    BY DEF RequestOK, ResponseOK
  <1>3. LateOK'
    BY MayBeLate DEF LateOK
  <1> QED
    BY <1>1, <1>2, <1>3 DEF IInv

\* The tunnel is down, and with it all that ties the agent to a session.
LEMMA DownKeepsIInv ==
    ASSUME IInv, UNCHANGED sessions, request' = {}, response' = {}, late' \subseteq late \cup request,
           agent' = Down \/ \E a : agent' = Stopped(a)
    PROVE  IInv'
  <1>1. DOMAIN agent' = AgentFields /\ agent'.nonce = 0 /\ agent'.at \in {"boot", "stopped"}
    <2>1. CASE agent' = Down
      BY <2>1 DEF Down, AgentFields
    <2>2. ASSUME NEW a, agent' = Stopped(a)
          PROVE  DOMAIN agent' = AgentFields /\ agent'.nonce = 0 /\ agent'.at = "stopped"
      BY <2>2 DEF Down, Stopped, AgentFields
    <2> QED
      BY <2>1, <2>2
  <1>2. ~Tunnel'
    BY <1>1 DEF Tunnel
  <1>3. InSession'
    BY <1>1, <1>2 DEF InSession
  <1> QED
    BY <1>1, <1>2, <1>3, NoLongerWaiting

\* Without an open request nothing is on its way to the agent.
LEMMA NotWaiting ==
    ASSUME IInv, ~Waiting
    PROVE  request = {} /\ response = {}
  BY DEF IInv, RequestOK, ResponseOK

\* A heartbeat failed: the agent keeps what it has.
LEMMA FailedBeatKeepsIInv ==
    ASSUME IInv, agent.at = "beating", agent' \in BeatFails, UNCHANGED sessions,
           request' = {}, response' = {}, late' \subseteq late \cup request
    PROVE  IInv'
  <1>1. CASE agent' = Down
    BY <1>1, DownKeepsIInv
  <1>2. CASE agent' = [agent EXCEPT !.at = "beat", !.fails = @ + 1]
    <2>1. /\ DOMAIN agent' = AgentFields /\ agent'.at = "beat" /\ agent'.session = agent.session
          /\ agent'.state = agent.state /\ agent'.nonce = agent.nonce /\ agent'.key = agent.key
      BY <1>2 DEF IInv, InSession, AgentFields
    <2>2. Tunnel /\ Current' = Current
      BY <2>1 DEF Tunnel, Current
    <2>3. InSession'
      BY <2>1, <2>2 DEF IInv, InSession
    <2>4. \A r \in late' : r.kind = "rekey" => r.session # agent'.session
      BY <2>1, <2>2 DEF IInv, LateOK, RequestOK
    <2> QED
      BY <2>1, <2>3, <2>4, NoLongerWaiting
  <1> QED
    BY <1>1, <1>2 DEF BeatFails, OneIf

\* The agent sends a request.
LEMMA SendKeepsIInv ==
    ASSUME IInv, StartSession \/ Beat
    PROVE  IInv'
  <1>1. UNCHANGED <<sessions, late>> /\ response' = response
    BY DEF StartSession, Beat, Send, Server
  <1>2. request = {} /\ response = {}
    <2>1. ~Waiting
      BY DEF StartSession, Beat, MayBeat, Waiting
    <2> QED
      BY <2>1, NotWaiting
  <1>3. RowsOK' /\ ResponseOK'
    BY <1>1, <1>2 DEF IInv, RowsOK, ResponseOK
  <1>4. CASE StartSession
    <2> DEFINE k == FreshKey
    <2>1. agent' = [agent EXCEPT !.at = "starting", !.next = k] /\ request' = {Request("start", k)}
      BY <1>4 DEF StartSession, Send
    <2> HIDE DEF k
    <2>2. DOMAIN agent' = AgentFields /\ agent'.at = "starting" /\ agent'.next = k
          /\ agent'.nonce = agent.nonce /\ agent.nonce \in Nat
      BY <2>1 DEF IInv, InSession, AgentFields
    <2>3. ~Tunnel' /\ Waiting'
      BY <2>2 DEF Tunnel, Waiting
    <2>4. InSession'
      BY <2>2, <2>3 DEF InSession
    <2>5. RequestOK'
      BY <1>1, <1>2, <2>1, <2>2, <2>3 DEF RequestOK, Request
    <2>6. LateOK'
      BY <1>1, <1>2, <2>3 DEF IInv, LateOK
    <2> QED
      BY <1>3, <2>4, <2>5, <2>6 DEF IInv
  <1>5. CASE Beat
    <2>1. agent' = [agent EXCEPT !.at = "beating"] /\ request' = {Request("heartbeat", 0)}
          /\ agent.at = "beat"
      BY <1>5 DEF Beat, MayBeat, Send
    <2>2. /\ DOMAIN agent' = AgentFields /\ agent'.at = "beating" /\ agent'.session = agent.session
          /\ agent'.state = agent.state /\ agent'.nonce = agent.nonce /\ agent'.key = agent.key
          /\ agent.nonce \in Nat
      BY <2>1 DEF IInv, InSession, AgentFields
    <2>3. Tunnel /\ Tunnel' /\ Waiting' /\ Current' = Current
      BY <1>1, <2>1, <2>2 DEF Tunnel, Waiting, Current
    <2>4. InSession'
      BY <1>1, <2>1, <2>2, <2>3 DEF IInv, InSession
    <2>5. RequestOK'
      BY <1>1, <1>2, <2>1, <2>2, <2>3 DEF RequestOK, Request
    <2>6. LateOK'
      BY <1>1, <1>2, <2>2, <2>3 DEF IInv, LateOK
    <2> QED
      BY <1>3, <2>4, <2>5, <2>6 DEF IInv
  <1> QED
    BY <1>4, <1>5

\* The answer to a start, whatever the agent makes of it.
LEMMA StartedKeepsIInv ==
    ASSUME IInv, NEW a \in response, Started(a)
    PROVE  IInv'
  <1>1. /\ agent.at = "starting" /\ response' = {} /\ UNCHANGED <<sessions, request, late>>
        /\ request = {}
    BY DEF Started, Receive, Server, IInv, ResponseOK
  <1>2. CASE agent' = Down
    BY <1>1, <1>2, DownKeepsIInv
  <1>3. CASE a.ok /\ agent' = [Down EXCEPT !.at = "beat", !.session = a.session, !.state = "healthy",
                                           !.nonce = a.nonce, !.profile = a.profile, !.key = agent.next]
    <2>1. /\ DOMAIN agent' = AgentFields /\ agent'.at = "beat" /\ agent'.session = a.session
          /\ agent'.state = "healthy" /\ agent'.nonce = a.nonce /\ agent'.key = agent.next
      BY <1>3 DEF Down, AgentFields
    <2>2. /\ a.session \in DOMAIN sessions /\ a.nonce \in Nat
          /\ a.nonce <= sessions[a.session].nonce /\ sessions[a.session].key = agent.next
      BY <1>1, <1>3 DEF IInv, ResponseOK
    <2>3. Current' = sessions[a.session] /\ MayBecome("healthy", Current'.state)
      BY <1>1, <2>1, <2>2, MayBecomeTransitive DEF Current, IInv, RowsOK, RowOK
    <2>4. InSession'
      BY <1>1, <2>1, <2>2, <2>3 DEF InSession, SessionStates
    <2>5. \A r \in late' : r.kind = "rekey" => r.session # agent'.session
      BY <1>1, <1>3, <2>1 DEF IInv, LateOK
    <2> QED
      BY <1>1, <2>1, <2>4, <2>5, NoLongerWaiting
  <1> QED
    BY <1>2, <1>3 DEF Started, OneIf

\* What the agent obeys keeps it in step with its session.
LEMMA ObeyingInStep ==
    ASSUME IInv, NEW a \in response, agent.at = "beating", a.ok
    PROVE  /\ DOMAIN Obeying(a) = AgentFields /\ Obeying(a).at = "beat"
           /\ Obeying(a).session = agent.session /\ Obeying(a).key = agent.key
           /\ Obeying(a).nonce \in Nat /\ Obeying(a).nonce <= Current.nonce
           /\ Obeying(a).state \in SessionStates /\ MayBecome(Obeying(a).state, Current.state)
  <1>1. /\ a.nonce \in Nat /\ a.nonce <= Current.nonce
        /\ a.desired # None => a.desired \in SessionStates /\ MayBecome(a.desired, Current.state)
        /\ a.action = "restrict" => a.desired = "restricted"
    BY DEF IInv, ResponseOK
  <1>2. /\ DOMAIN agent = AgentFields /\ agent.nonce \in Nat /\ agent.nonce <= Current.nonce
        /\ agent.state \in SessionStates /\ MayBecome(agent.state, Current.state)
    BY DEF IInv, InSession, Tunnel
  <1>3. /\ DOMAIN Obeying(a) = AgentFields /\ Obeying(a).at = "beat"
        /\ Obeying(a).session = agent.session /\ Obeying(a).key = agent.key
        /\ Obeying(a).nonce \in {a.nonce, agent.nonce}
    BY <1>2 DEF Obeying, AgentFields
  <1>4. Obeying(a).state = IF a.desired # None THEN a.desired
                           ELSE IF a.action = "restrict" THEN "restricted" ELSE agent.state
    BY <1>2 DEF Obeying, AgentFields
  <1>5. a.desired = None => a.action # "restrict"
    BY <1>1 DEF None
  <1> QED
    BY <1>1, <1>2, <1>3, <1>4, <1>5

\* The answer to a heartbeat, whatever the agent makes of it.
LEMMA BeatenKeepsIInv ==
    ASSUME IInv, NEW a \in response, Beaten(a)
    PROVE  IInv'
  <1>1. /\ agent.at = "beating" /\ response' = {} /\ UNCHANGED <<sessions, late>>
        /\ request = {} /\ Tunnel
    BY DEF Beaten, Receive, Server, IInv, ResponseOK, Tunnel
  <1>2. CASE agent' \in BeatFails /\ Receive
    BY <1>1, <1>2, FailedBeatKeepsIInv DEF Receive
  <1>3. CASE (agent' = Down \/ agent' = Stopped(a)) /\ Receive
    BY <1>1, <1>3, DownKeepsIInv DEF Receive
  <1>4. CASE a.ok /\ agent' = Obeying(a) /\ Receive
    <2>1. agent'.at = "beat" /\ agent'.session = agent.session
      BY <1>1, <1>4, ObeyingInStep
    <2>2. Current' = Current
      BY <1>1, <2>1 DEF Current
    <2>3. InSession'
      BY <1>1, <1>4, <2>2, ObeyingInStep DEF IInv, InSession
    <2>4. \A r \in late' : r.kind = "rekey" => r.session # agent'.session
      BY <1>1, <2>1 DEF IInv, LateOK
    <2> QED
      BY <1>1, <1>4, <2>1, <2>3, <2>4, NoLongerWaiting DEF Receive
  <1>5. ASSUME a.ok, NEW k, agent' = [Obeying(a) EXCEPT !.at = "rekeying", !.next = k],
               request' = {[Request("rekey", k) EXCEPT !.nonce = a.nonce]}
        PROVE  IInv'
    <2>1. /\ DOMAIN agent' = AgentFields /\ agent'.at = "rekeying" /\ agent'.next = k
          /\ agent'.session = agent.session /\ agent'.state = Obeying(a).state
          /\ agent'.nonce = Obeying(a).nonce
      BY <1>1, <1>5, ObeyingInStep DEF AgentFields
    <2>2. Current' = Current /\ Tunnel' /\ Waiting'
      BY <1>1, <2>1 DEF Current, Tunnel, Waiting
    <2>3. InSession'
      BY <1>1, <1>5, <2>1, <2>2, ObeyingInStep DEF IInv, InSession
    <2>4. a.nonce \in Nat
      BY <1>1, <1>5 DEF IInv, ResponseOK
    <2>5. RequestOK' /\ ResponseOK'
      BY <1>1, <1>5, <2>1, <2>2, <2>4 DEF RequestOK, ResponseOK, Request
    <2>6. LateOK'
      BY <1>1, <2>1, <2>2 DEF IInv, LateOK
    <2>7. RowsOK'
      BY <1>1 DEF IInv, RowsOK
    <2> QED
      BY <2>3, <2>5, <2>6, <2>7 DEF IInv
  <1> QED
    BY <1>2, <1>3, <1>4, <1>5, Zenon DEF Beaten

\* The answer to a rekey: the agent takes the key the control plane has, or
\* gives the session up.
LEMMA RekeyedKeepsIInv ==
    ASSUME IInv, NEW a \in response, Rekeyed(a)
    PROVE  IInv'
  <1>1. /\ agent.at = "rekeying" /\ response' = {} /\ UNCHANGED <<sessions, request, late>>
        /\ request = {} /\ Tunnel
    BY DEF Rekeyed, Receive, Server, IInv, ResponseOK, Tunnel
  <1>2. CASE agent' = Down
    BY <1>1, <1>2, DownKeepsIInv
  <1>3. CASE a.ok /\ agent' = [agent EXCEPT !.at = "beat", !.key = agent.next, !.next = 0,
                                            !.profile = a.profile, !.nonce = a.nonce]
    <2>1. /\ DOMAIN agent' = AgentFields /\ agent'.at = "beat" /\ agent'.session = agent.session
          /\ agent'.state = agent.state /\ agent'.nonce = a.nonce /\ agent'.key = agent.next
      BY <1>3 DEF IInv, InSession, AgentFields
    <2>2. a.nonce \in Nat /\ a.nonce <= Current.nonce /\ Current.key = agent.next
      BY <1>1, <1>3 DEF IInv, ResponseOK
    <2>3. Current' = Current
      BY <1>1, <2>1 DEF Current
    <2>4. InSession'
      BY <1>1, <2>1, <2>2, <2>3 DEF IInv, InSession
    <2>5. \A r \in late' : r.kind = "rekey" => r.session # agent'.session
      BY <1>1, <2>1 DEF IInv, LateOK
    <2> QED
      BY <1>1, <2>1, <2>4, <2>5, NoLongerWaiting
  <1> QED
    BY <1>2, <1>3 DEF Rekeyed, RekeyFails

\* The agent gives a request up, finds its profile expired, or restarts.
LEMMA LeavingKeepsIInv ==
    ASSUME IInv, GiveUp \/ ProfileExpired \/ Restart
    PROVE  IInv'
  <1>1. CASE GiveUp
    <2>1. UNCHANGED sessions /\ request' = {} /\ response' = {} /\ late' \subseteq late \cup request
      BY <1>1 DEF GiveUp, Server
    <2>2. (agent.at = "beating" /\ agent' \in BeatFails) \/ agent' = Down
      BY <1>1 DEF GiveUp, RekeyFails
    <2> QED
      BY <2>1, <2>2, FailedBeatKeepsIInv, DownKeepsIInv
  <1>2. CASE ProfileExpired
    <2>1. ~Waiting
      BY <1>2 DEF ProfileExpired, Waiting
    <2>2. agent' = Down /\ UNCHANGED <<sessions, request, response, late>>
      BY <1>2 DEF ProfileExpired, Server, wire
    <2> QED
      BY <2>1, <2>2, NotWaiting, DownKeepsIInv
  <1>3. CASE Restart
    <2>1. /\ agent' = Down /\ UNCHANGED sessions /\ request' = {} /\ response' = {}
          /\ late' \subseteq late \cup request
      BY <1>3 DEF Restart
    <2> QED
      BY <2>1, DownKeepsIInv
  <1> QED
    BY <1>1, <1>2, <1>3

\* Every step keeps the inductive invariant.
LEMMA NextIInv == ASSUME IInv, [Next]_vars PROVE IInv'
  <1>1. CASE AgentStep
    BY <1>1, SendKeepsIInv, LeavingKeepsIInv, StartedKeepsIInv, BeatenKeepsIInv, RekeyedKeepsIInv
    DEF AgentStep
  <1>2. CASE ServerStep
    BY <1>2, ServeKeepsIInv, ServeLateKeepsIInv, DeviceKeepsIInv, OperationsKeepIInv DEF ServerStep
  <1>3. CASE Restart
    BY <1>3, LeavingKeepsIInv
  <1>4. CASE UNCHANGED vars
    <2>1. UNCHANGED <<sessions, agent, request, response, late>>
      BY <1>4 DEF vars
    <2> QED
      BY <2>1 DEF IInv, RowsOK, InSession, RequestOK, ResponseOK, LateOK, Tunnel, Waiting, Current, Acceptable
  <1> QED
    BY <1>1, <1>2, <1>3, <1>4 DEF Next

\* No answer that reaches the agent breaks its rules for nonces, relaxations
\* and profiles, whatever was lost, late or overwritten before: of "anything
\* emitted here has to satisfy those rules or the tunnel drops" (service.py)
\* the second case never comes.
THEOREM AnswersAreAcceptable == Spec => []CommandsAccepted
  <1>1. Init => IInv
    BY InitIInv
  <1>2. IInv /\ [Next]_vars => IInv'
    BY NextIInv
  <1>3. IInv => CommandsAccepted
    BY DEF IInv, ResponseOK, CommandsAccepted
  <1> QED
    BY <1>1, <1>2, <1>3, PTL DEF Spec

\* Lost, late and abandoned rekeys never part the two sides: outside a rekey
\* the agent's key is the one handle_rekey or start_session put on record.
THEOREM SidesAgreeOnKey == Spec => []KeysAgree
  <1>1. Init => IInv
    BY InitIInv
  <1>2. IInv /\ [Next]_vars => IInv'
    BY NextIInv
  <1>3. IInv => KeysAgree
    BY DEF IInv, InSession, Tunnel, KeysAgree
  <1> QED
    BY <1>1, <1>2, <1>3, PTL DEF Spec
=============================================================================
