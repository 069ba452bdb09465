------------------------------ MODULE OilRules ------------------------------
(***************************************************************************)
(* Rules from source to verdict: projects compiled by oilc into artifacts, *)
(* and the agent that loads an artifact, evaluates events with it, reloads *)
(* a replaced one, rolls back on request, checkpoints what its callables   *)
(* remember and is restarted (ActiveRuleEngine, agent/agent/src/main.rs,   *)
(* and RuntimeIrRuleEngine, agent/agent/src/runtime_ir.rs).                *)
(*                                                                         *)
(* An artifact is known by the number of the project it was compiled from, *)
(* which also stands for the fingerprint of its bytes.                     *)
(***************************************************************************)
EXTENDS OilCompiler, OilMeaning
LOCAL INSTANCE Integers
LOCAL INSTANCE Sequences
LOCAL INSTANCE FiniteSets
LOCAL INSTANCE SequencesExt
LOCAL INSTANCE Functions

CONSTANTS Projects,     \* the projects deployed, a sequence of unit sequences
          Older,        \* those compiled before artifacts described fields and calls
          Events,       \* the kernel events, without their time
          MaxEvents,
          Budgets       \* how many events (at most MaxEvents), deployments, crashes,
                        \* rollback signals and faults a behaviour may have

Artifacts == DOMAIN Projects
Fields == runtime_fields_from_schema(Schema)
Contracts == runtime_callables_from_prelude(Signatures)

(* The rules of the units without an error as their authors wrote them,    *)
(* each with the definitions it sees.                                      *)
Source(project, results) ==
  LET parsed == SelectSeq(project, LAMBDA u : u.parses)
      names(defs) == {x.name : x \in Range(defs)}
      Defs(program) ==
        [sets |-> [n \in names(program.sets) |-> LastNamed(program.sets, n).values],
         preds |-> [n \in names(program.predicates) |-> LastNamed(program.predicates, n)]]
      Written(u) ==
        [n \in DOMAIN u.rules |->
           [rule |-> u.rules[n], id |-> <<"rule", n - 1, u.rules[n].name>>,
            defs |-> Defs(LoweringProgram(u, build_project_definitions(parsed)))]]
  IN FlattenSeq([i \in DOMAIN project |->
                   IF results[i].errors = {} THEN Written(project[i]) ELSE <<>>])

(* What oilc makes of a project, and the engine the agent makes of that. *)
Shipped(project, results, engine) ==
  [engine |-> engine, loads |-> Accepts(engine), source |-> Source(project, results),
   compiled |-> {i \in DOMAIN project : results[i].errors = {}}]
Artifact(project, results, described) ==
  Shipped(project, results,
          EngineOf(write_runtime_ir_artifact(results),
                   IF described THEN Fields ELSE {}, IF described THEN Contracts ELSE <<>>))
Build(project, described) == Artifact(project, compile_many(project, DefaultConfig), described)

VARIABLES
  built,       \* the artifacts, one for each project; they never change
  path,        \* the artifact on disk
  rollback,    \* the rollback signal file is there
  mode,        \* "down", "starting" (loaded, not yet fingerprinted) or "up"
  current,     \* the engine in force: the artifact and the callables' memory
  fingerprint, observed_fingerprint,
  previous,    \* the engine displaced last, its fingerprint, or None
  reading,     \* the fingerprint a reload read before it opens the file, or 0
  saved,       \* the callable-state file
  incoming, at, \* the event under evaluation and the rule that is next, or 0
  last,        \* the last rule evaluated, the memory before it and the outcome
  swapped,     \* the file was replaced between the last load and the fingerprint
               \* that load is known by
  returned,    \* the artifact rolled back from, if that is how the engine in
               \* force came back, or 0
  budget       \* events, deployments, crashes, signals and faults left

vars == <<built, path, rollback, mode, current, fingerprint, observed_fingerprint, previous,
          reading, saved, incoming, at, last, swapped, returned, budget>>
agent == <<mode, current, fingerprint, observed_fingerprint, previous, reading>>

Loads == {a \in Artifacts : built[a].loads}
NoRule == [art |-> 0]
Idle == at = 0 /\ UNCHANGED <<incoming, at>>
Spend(what) == budget[what] > 0 /\ budget' = [budget EXCEPT ![what] = @ - 1]

(* What a load may make of the callable-state file: all entries, each kind *)
(* in an order of its own.                                                 *)
Restored ==
  LET kinds == <<"rare", "unusual", "rate">>
      keys(k) == {x \in DOMAIN saved.counts \cup DOMAIN saved.rates : x[1] = k}
      orders == {FlattenSeq(<<a, b, c>>) : a \in SetToSeqs(keys("rare")),
                 b \in SetToSeqs(keys("unusual")), c \in SetToSeqs(keys("rate"))}
  IN {[counts |-> saved.counts, rates |-> saved.rates, order |-> o, dirty |-> 0]
      : o \in orders}

Init ==
  /\ built = [a \in Artifacts |-> Build(Projects[a], a \notin Older)]
  /\ path \in Loads
  /\ rollback = FALSE /\ mode = "down" /\ reading = 0
  /\ current = [art |-> 0, st |-> EmptyState]
  /\ fingerprint = 0 /\ observed_fingerprint = 0 /\ previous = None
  /\ saved = [counts |-> <<>>, rates |-> <<>>]
  /\ incoming = <<>> /\ at = 0 /\ last = NoRule /\ swapped = FALSE /\ returned = 0
  /\ budget \in Budgets

(* An artifact the agent cannot load keeps it from starting, and so does a *)
(* callable-state file it cannot read, parse or take for this host's.      *)
from_env ==
  /\ mode = "down" /\ path \in Loads
  /\ \/ /\ \E st \in Restored : current' = [art |-> path, st |-> st]
        /\ mode' = "starting"
        /\ UNCHANGED budget
     \/ Spend("faults") /\ UNCHANGED <<current, mode>>
  /\ Idle /\ last' = NoRule
  /\ UNCHANGED <<built, path, rollback, saved, fingerprint, observed_fingerprint, previous,
                 reading, swapped, returned>>

(* The fingerprint is taken after the load; without one the agent goes on. *)
from_env_fingerprint ==
  /\ mode = "starting"
  /\ mode' = "up"
  /\ \/ fingerprint' = path /\ swapped' = (path # current.art) /\ UNCHANGED budget
     \/ fingerprint' = 0 /\ swapped' = FALSE /\ Spend("faults")
  /\ observed_fingerprint' = fingerprint'
  /\ Idle /\ last' = NoRule
  /\ UNCHANGED <<built, path, rollback, current, previous, reading, saved, returned>>

(* The engine in force, as it is kept for a rollback. *)
Displaced ==
  IF fingerprint = 0 THEN None ELSE <<"Some", [engine |-> current, fingerprint |-> fingerprint]>>

RollbackPinsDisk ==
  /\ mode = "up" /\ reading = 0 /\ rollback
  /\ IF previous = None
     THEN UNCHANGED <<current, fingerprint, previous, returned>>
     ELSE /\ current' = previous[2].engine
          /\ fingerprint' = previous[2].fingerprint
          /\ previous' = Displaced
          /\ returned' = current.art
  /\ rollback' = FALSE /\ UNCHANGED budget
  /\ observed_fingerprint' = path
  /\ Idle /\ last' = NoRule
  /\ UNCHANGED <<built, path, mode, reading, saved, swapped>>

(* A rollback exchanges the engine with the displaced one, memory and all. *)
(* Removing the signal may fail.                                           *)
maybe_reload_rollback ==
  /\ mode = "up" /\ reading = 0 /\ rollback
  /\ IF previous = None
     THEN UNCHANGED <<current, fingerprint, previous, returned>>
     ELSE /\ current' = previous[2].engine
          /\ fingerprint' = previous[2].fingerprint
          /\ previous' = Displaced
          /\ returned' = current.art
  /\ \/ rollback' = FALSE /\ UNCHANGED budget
     \/ UNCHANGED rollback /\ Spend("faults")
  /\ Idle /\ last' = NoRule
  /\ UNCHANGED <<built, path, mode, observed_fingerprint, reading, saved, swapped>>

maybe_reload_check ==
  /\ mode = "up" /\ reading = 0 /\ ~rollback
  /\ path # observed_fingerprint
  /\ reading' = path
  /\ Idle /\ last' = NoRule
  /\ UNCHANGED <<built, path, rollback, mode, current, fingerprint, observed_fingerprint,
                 previous, saved, swapped, returned, budget>>

(* The file is opened again; it need not be the one fingerprinted.  The    *)
(* engine in force stays when the artifact or the callable-state file is   *)
(* refused.                                                                *)
maybe_reload_load ==
  /\ reading # 0
  /\ reading' = 0
  /\ \/ /\ path \in Loads
        /\ \E st \in Restored : current' = [art |-> path, st |-> st]
        /\ previous' = Displaced
        /\ fingerprint' = reading /\ observed_fingerprint' = reading
        /\ swapped' = (path # reading) /\ returned' = 0
        /\ UNCHANGED budget
     \/ /\ IF path \in Loads THEN Spend("faults") ELSE UNCHANGED budget
        /\ UNCHANGED <<current, previous, fingerprint, observed_fingerprint, swapped, returned>>
  /\ Idle /\ last' = NoRule
  /\ UNCHANGED <<built, path, rollback, mode, saved>>

(* An event arrives: the first rule is next. *)
evaluate(ev) ==
  /\ mode = "up" /\ reading = 0 /\ at = 0 /\ built[current.art].engine.rules # <<>>
  /\ Spend("events")
  /\ at' = 1 /\ incoming' = Put(ev, "ts", MaxEvents - budget.events) /\ last' = NoRule
  /\ UNCHANGED <<built, path, rollback, agent, saved, swapped, returned>>

ForgetsUnsaved(st) ==
  IF st.dirty < checkpoint_every
  THEN current' = [current EXCEPT !.st = st] /\ UNCHANGED <<saved, budget>>
  ELSE /\ current' = [current EXCEPT !.st = [st EXCEPT !.dirty = 0]]
       /\ \/ saved' = [counts |-> st.counts, rates |-> st.rates] /\ UNCHANGED budget
          \/ Spend("faults") /\ UNCHANGED saved

(* A checkpoint is written when enough has changed.  It may fail; what is  *)
(* not saved stays counted.                                                *)
maybe_checkpoint(st) ==
  IF st.dirty < checkpoint_every
  THEN current' = [current EXCEPT !.st = st] /\ UNCHANGED <<saved, budget>>
  ELSE \/ /\ saved' = [counts |-> st.counts, rates |-> st.rates]
          /\ current' = [current EXCEPT !.st = [st EXCEPT !.dirty = 0]]
          /\ UNCHANGED budget
       \/ /\ Spend("faults")
          /\ current' = [current EXCEPT !.st = st]
          /\ UNCHANGED saved

(* The rules in turn, the checkpoint after the last. *)
Evaluated(r, rules) ==
  /\ last' = [art |-> current.art, rule |-> at, ev |-> incoming, st |-> current.st, outcome |-> r]
  /\ IF at < Len(rules)
     THEN /\ at' = at + 1 /\ UNCHANGED <<incoming, saved, budget>>
          /\ current' = [current EXCEPT !.st = r.st]
     ELSE at' = 0 /\ incoming' = <<>> /\ maybe_checkpoint(r.st)

EvaluateNext(engine) ==
  Evaluated(evaluate_rule(engine.rules[at], engine, incoming, current.st), engine.rules)

evaluate_matches ==
  /\ at # 0
  /\ EvaluateNext(built[current.art].engine)
  /\ UNCHANGED <<built, path, rollback, mode, fingerprint, observed_fingerprint, previous,
                 reading, swapped, returned>>

(* The operator. *)
Deploy(a) ==
  /\ a # path /\ Spend("deploys")
  /\ path' = a
  /\ Idle /\ last' = NoRule
  /\ UNCHANGED <<built, rollback, agent, saved, swapped, returned>>

RequestRollback ==
  /\ ~rollback /\ Spend("signals")
  /\ rollback' = TRUE
  /\ Idle /\ last' = NoRule
  /\ UNCHANGED <<built, path, agent, saved, swapped, returned>>

Crash ==
  /\ mode # "down" /\ Spend("crashes")
  /\ mode' = "down" /\ reading' = 0
  /\ current' = [art |-> 0, st |-> EmptyState] /\ previous' = None
  /\ fingerprint' = 0 /\ observed_fingerprint' = 0 /\ returned' = 0 /\ swapped' = FALSE
  /\ Idle /\ last' = NoRule
  /\ UNCHANGED <<built, path, rollback, saved>>

Reload == maybe_reload_rollback \/ maybe_reload_check \/ maybe_reload_load

Next == \/ from_env \/ from_env_fingerprint \/ Reload
        \/ evaluate_matches
        \/ \E ev \in Events : evaluate(ev)
        \/ \E a \in Artifacts : Deploy(a)
        \/ RequestRollback \/ Crash

(* The process supervisor restarts the agent, every iteration of the       *)
(* agent's loop calls maybe_reload, and the rules of an artifact are       *)
(* finitely many, so the evaluation of an event ends.                      *)
Fairness == /\ WF_vars(from_env) /\ WF_vars(from_env_fingerprint)
            /\ WF_vars(maybe_reload_rollback) /\ WF_vars(maybe_reload_check)
            /\ WF_vars(maybe_reload_load) /\ []<>(at = 0)

Spec == Init /\ [][Next]_vars /\ Fairness

----------------------------------------------------------------------------
(* Properties. *)

SourceMeaning(source) == RuleMeaning(source.rule, source.id, source.defs, last.ev, last.st)

(* The agent's verdicts on an event, and what its callables remember of    *)
(* it, are those the rules' source calls for: nothing is lost or changed   *)
(* by expansion, lowering, canonical field names and interpretation.  The  *)
(* rules it speaks of are those whose arms match their `from` sources one  *)
(* for one: lower_rule_sources pairs them by position and nothing else.    *)
MeansWhatItSays ==
  last.art # 0 =>
    LET source == built[last.art].source[last.rule]
    IN Parallel(source.rule) => last.outcome = SourceMeaning(source)

(* The rules in force are those of the units that compiled without an      *)
(* error, one for one, and nothing in them is left to a name only the      *)
(* compiler knows: no unsupported node, no set, no predicate, and no alias *)
(* the source binds in an arm with a `from` source beside it (the alias of *)
(* an arm beyond the last source, or of `by process as p`, does survive).  *)
ShipsWhatCompiled ==
  current.art # 0 =>
    LET project == Projects[current.art]
        ok == {project[i].id : i \in built[current.art].compiled}
        units == SelectSeq(project, LAMBDA u : u.id \in ok)
        rules == built[current.art].engine.rules
        sets == {s.name : s \in Range(Prelude.sets)
                              \cup UNION {Range(u.sets) : u \in Range(units)}}
        preds == Range(Prelude.predicates) \cup UNION {Range(u.predicates) : u \in Range(units)}
    IN /\ [i \in DOMAIN rules |-> rules[i].name]
            = FlattenSeq([i \in DOMAIN units |->
                            [n \in DOMAIN units[i].rules |-> units[i].rules[n].name]])
       /\ \A i \in DOMAIN rules : \A e \in RuleExprs(rules[i]) : \A n \in Nodes(e) :
            /\ n # Unsupported
            /\ n[1] = "Field" =>
                 IF Len(n[2]) = 1 THEN n[2][1] \notin sets
                 ELSE n[2][1] \notin PairedAliases(built[current.art].source[i].rule)
                                     \ DOMAIN Schema.roots
            /\ n[1] = "Call" => \A p \in preds :
                                  p.name = n[2] => Len(p.params) # Len(n[3])

(* The order list names every key a callable remembers exactly once and    *)
(* nothing else, in the engine in force and in the displaced one, so the   *)
(* bound on tracked keys is met by forgetting the oldest.                  *)
TrackedKeysExact ==
  \A st \in {current.st} \cup (IF previous = None THEN {} ELSE {previous[2].engine.st}) :
    /\ Range(st.order) = DOMAIN st.counts \cup DOMAIN st.rates
    /\ Len(st.order) = state_len(st)
    /\ state_len(st) <= max_entries

(* An engine that counts nothing unsaved finds its memory again after a    *)
(* restart, unless it was displaced in between and the engine that took    *)
(* its place has saved its own.                                            *)
QuietMeansSaved ==
  current.art # 0 /\ returned = 0 /\ current.st.dirty = 0 =>
    current.st.counts = saved.counts /\ current.st.rates = saved.rates

(* An artifact the agent can load is in force in the end, whatever comes   *)
(* between its arrival and its load (crashes, rollbacks of others, failed  *)
(* reads), unless it is replaced, was rolled back itself, or bears the     *)
(* very fingerprint the last load was given by mistake: maybe_reload and   *)
(* from_env fingerprint the file and open it in two steps, so a file       *)
(* replaced in between is loaded as the other, and the other, back in      *)
(* place, passes for loaded.                                               *)
DeployTakesEffect ==
  \A a \in Artifacts :
    (path = a /\ a \in Loads)
      ~> \/ current.art = a \/ path # a \/ returned = a
         \/ swapped /\ observed_fingerprint = a

============================================================================
