----------------------------- MODULE OilMeaning -----------------------------
(***************************************************************************)
(* What an OIL rule means, read off its source: no lowering, no expansion, *)
(* no field aliases.  Names are looked up where they are used, a predicate *)
(* is called with its arguments as they stand, an alias is the event its   *)
(* arm binds.  The agent's answer to the compiled rule is compared with    *)
(* this one.                                                               *)
(***************************************************************************)
EXTENDS RuleEngine, OilChecks
LOCAL INSTANCE Integers
LOCAL INSTANCE Sequences
LOCAL INSTANCE FiniteSets
LOCAL INSTANCE SequencesExt
LOCAL INSTANCE Functions

(* Whether a string is what a glob describes. *)
RECURSIVE Glob(_, _)
Glob(s, p) ==
  CASE p = <<>> -> s = <<>>
    [] p # <<>> /\ p[1] = "*" -> \E n \in 0..Len(s) : Glob(SubSeq(s, n + 1, Len(s)), Tail(p))
    [] OTHER -> s # <<>> /\ p[1] \in {"?", s[1]} /\ Glob(Tail(s), Tail(p))

(* The alternatives of `(a|b)`, or the pattern itself. *)
RECURSIVE SplitBar(_)
SplitBar(p) ==
  LET bars == {i \in DOMAIN p : p[i] = "|"}
      i == CHOOSE i \in bars : \A j \in bars : i <= j
  IN IF bars = {} THEN {p}
     ELSE {SubSeq(p, 1, i - 1)} \cup SplitBar(SubSeq(p, i + 1, Len(p)))
Alternatives(p) ==
  IF Len(p) > 2 /\ p[1] = "(" /\ p[Len(p)] = ")" THEN SplitBar(SubSeq(p, 2, Len(p) - 1))
  ELSE {p}

(* The event patterns of a rule, and the root an alias stands for: that of *)
(* the pattern binding it.                                                 *)
Patterns(rule) == IF rule.body.kind = "Graph" THEN <<rule.body.source>> ELSE rule.body.arms
ArmRoots(rule) ==
  LET arms == Patterns(rule)
  IN [a \in {x.alias : x \in Range(arms)} \ {""} |->
        LET x == CHOOSE x \in Range(arms) : x.alias = a
        IN canonical_runtime_root(x.domain, x.event)]

(* The aliases of a rule that a source stands beside: those of its sources *)
(* and, by position, of its arms.                                          *)
PairedAliases(rule) ==
  LET arms == Patterns(rule)
      beside == {i \in DOMAIN arms :
                   \/ rule.sources = <<>>
                   \/ i \in DOMAIN rule.sources /\ rule.sources[i].alias = ""}
  IN ({s.alias : s \in Range(rule.sources)} \cup {arms[i].alias : i \in beside}) \ {""}

(* Every name its arms bring has a source beside it, of the same entity.   *)
Parallel(rule) ==
  /\ ScopeOf(rule, Len(BodyArms(rule))) \subseteq PairedAliases(rule)
  /\ \A i \in DOMAIN Patterns(rule) \cap DOMAIN rule.sources :
       map_event_to_entity(Patterns(rule)[i].domain, Patterns(rule)[i].event)
         = map_source_to_entity(rule.sources[i].domain, rule.sources[i].event)

(* An expression as a value ("value") or as a condition ("truth"). *)
RECURSIVE Reading(_, _, _)
Meaning(e, d) == Reading("value", e, d)
Truth(e, d) == Reading("truth", e, d)

Then(acc, r) == <<Append(acc[1], r[1]), r[2]>>
Values(es, d) ==
  FoldLeft(LAMBDA acc, e : Then(acc, Meaning(e, With(d, acc[2]))), <<<<>>, d.st>>, es)

Project(v, fields) ==
  FoldLeft(LAMBDA w, f : When(w[1] = "obj" /\ f \in DOMAIN w[2], w[2][f]), v, fields)
Projection(r, fields) == <<Project(r[1], fields), r[2]>>
AsListOf(r) == <<ListOf(r[1]), r[2]>>
AsBoolOf(r) == <<Bool(r[1]), r[2]>>

(* A parameter is its argument, read in the caller's scope. *)
PathOfArg(arg) == IF arg[1] = "Path" THEN arg[2] ELSE <<arg[2]>>
OfParameter(p, path, d) ==
  IF p.arg[1] \in {"Path", "Ident"}
  THEN Meaning(<<"Path", PathOfArg(p.arg) \o Tail(path)>>, [d EXCEPT !.params = p.params])
  ELSE Projection(Meaning(p.arg, [d EXCEPT !.params = p.params]), Tail(path))

MeaningOfPath(path, d) ==
  CASE path[1] \in DOMAIN d.params -> OfParameter(d.params[path[1]], path, d)
    [] Len(path) = 1 /\ path[1] \in DOMAIN d.sets ->
         AsListOf(Values(d.sets[path[1]], [d EXCEPT !.params = <<>>]))
    [] path \in DOMAIN d.env -> <<d.env[path], d.st>>
    [] Len(path) > 1 /\ path[1] \in DOMAIN d.roots ->
         <<ReadField(d.fields, <<d.roots[path[1]]>> \o Tail(path)), d.st>>
    [] OTHER -> <<When(Len(path) > 1, ReadField(d.fields, path)), d.st>>

(* A call of the agent's own, on values. *)
KeyOf(v) == IF v = Null THEN <<>> ELSE normalize_call_key(to_string(v))
RateOver(n, key, d, st) ==
  ObserveRate(st, <<"rate", d.rule, key, n[1] \div n[2]>>, d.ev.ts, n[1] \div n[2])

Remembering(name, r, keys, d) ==
  CASE name # "rate" /\ <<>> \in Range(keys) -> <<Bool(FALSE), r[2]>>
    [] name = "rare" -> ObserveCount(r[2], <<"rare", d.rule, keys[1][1]>>)
    [] name = "unusual_for" -> ObserveCount(r[2], <<"unusual", d.rule, keys[2][1], keys[1][1]>>)
    [] name = "rate" -> IF keys[1] = <<>> THEN <<Num(0), r[2]>>
                        ELSE RateOver(to_number(r[1][2]), keys[1][1], d, r[2])

OfValue(name, v) ==
  CASE name = "count" -> CASE v[1] = "list" -> Num(Len(v[2])) [] v = Null -> Num(0) [] OTHER -> Num(1)
    [] name = "len" -> When(v[1] \in {"str", "list"}, Num(Len(v[2])))
    [] name \in {"max", "min", "sum", "avg"} ->
         IF v[1] = "list" /\ <<>> \notin Range(NumericItems(v)) /\ NumericItems(v) # <<>>
         THEN Aggregate(name, NumericItems(v)[1]) ELSE Null
    [] name = "distinct" -> When(v[1] = "list", eval_call_distinct(v))
    [] name \in {"host", "user"} -> LookUp(name, eval_lookup_key(v))
    [] name = "baseline.image" -> LookUp("images", eval_lookup_key(v))
    [] OTHER -> Null

Called(name, r, d) ==
  IF name \in {"rare", "unusual_for", "rate"}
  THEN Remembering(name, r, [i \in DOMAIN r[1] |-> KeyOf(r[1][i])], d)
  ELSE <<OfValue(name, r[1][1]), r[2]>>
Invoke(name, args, d) == Called(name, Values(args, d), d)

(* A predicate, its parameters bound to the arguments as they stand. *)
CallPredicate(p, args, d) ==
  AsBoolOf(Truth(p.body, [d EXCEPT !.params =
    [n \in Range(p.params) |-> [arg |-> args[CHOOSE i \in DOMAIN p.params : p.params[i] = n],
                                params |-> d.params]]]))

Among(v, w) == IF w[1] = "list" THEN \E i \in DOMAIN w[2] : values_equal(v, w[2][i])
               ELSE values_equal(v, w)

(* What a condition on the values of its operands says. *)
Says(e, v) ==
  CASE e[1] = "Cmp" -> Compare(e[2], v[1], v[2])
    [] e[1] \in {"In", "NotIn"} ->
         (e[1] = "In") = (IF Len(v) = 1 THEN intel_store_contains(e[3][2], v[1]) ELSE Among(v[1], v[2]))
    [] e[1] \in StringOps -> StringTest(e[1], v[1], v[2])
    [] e[1] = "Under" -> \E p \in IF v[2][1] = "list" THEN Range(v[2][2]) ELSE {v[2]} :
                           StringTest("StartsWith", v[1], p)
    [] e[1] = "Matches" -> \E p \in Alternatives(e[3]) : Glob(to_string(v[1]), p)
    [] e[1] = "Between" -> Compare("Ge", v[1], v[2]) /\ Compare("Le", v[1], v[3])
Said(e, r) == <<Says(e, r[1]), r[2]>>

OperandsOf(e) ==
  CASE e[1] = "Cmp" -> <<e[3], e[4]>>
    [] e[1] = "Matches" \/ (e[1] \in {"In", "NotIn"} /\ e[3][1] = "Path"
                              /\ is_external_set_ref(e[3][2])) -> <<e[2]>>
    [] e[1] = "Between" -> <<e[2], e[3], e[4]>>
    [] OTHER -> <<e[2], e[3]>>

Unless(l, open, e, d) == IF l[1] = open THEN Truth(e, With(d, l[2])) ELSE l
Contrary(l) == <<~l[1], l[2]>>
IsTrue(v) == <<value_as_bool(v[1]), v[2]>>
NonZero(v) == <<v[1][1] = "num" /\ v[1][2] # 0, v[2]>>

ReadTruth(e, d) ==
  CASE e[1] \in {"And", "Or"} -> Unless(Truth(e[2], d), e[1] = "And", e[3], d)
    [] e[1] = "Not" -> Contrary(Truth(e[2], d))
    [] e[1] \in {"Cmp", "In", "NotIn", "Under", "Matches", "Between"} \cup StringOps ->
         Said(e, Values(OperandsOf(e), d))
    [] e[1] \in {"Bool", "Call", "Ident", "Path", "Member", "Rare", "UnusualFor", "Count"} ->
         IsTrue(Meaning(e, d))
    [] e[1] = "BinOp" -> NonZero(Meaning(e, d))
    [] OTHER -> <<FALSE, d.st>>

ArithOf(op, x, y) == IF x = <<>> \/ y = <<>> THEN Null ELSE Arith(op, x, y)
Negation(r) == <<ArithOf("Sub", <<0, 1>>, to_number(r[1])), r[2]>>
Arithmetic(op, r) == <<ArithOf(op, to_number(r[1][1]), to_number(r[1][2])), r[2]>>
Literal(e) == CASE e[1] = "Str" -> Str(e[2]) [] e[1] = "Int" -> Num(e[2]) [] e[1] = "Bool" -> Bool(e[2])
                [] e[1] = "Duration" -> duration_to_ns(e[2], e[3]) [] e[1] = "Null" -> Null

ReadValue(e, d) ==
  CASE e[1] \in {"Str", "Int", "Bool", "Duration", "Null"} -> <<Literal(e), d.st>>
    [] e[1] = "Ident" -> MeaningOfPath(<<e[2]>>, d)
    [] e[1] = "Path" -> MeaningOfPath(e[2], d)
    [] e[1] = "List" -> AsListOf(Values(e[2], d))
    [] e[1] = "Member" -> Projection(Meaning(e[2], d), <<e[3]>>)
    [] e[1] = "UnaryMinus" -> Negation(Meaning(e[2], d))
    [] e[1] = "BinOp" -> Arithmetic(e[2], Values(<<e[3], e[4]>>, d))
    [] e[1] = "Call" -> IF e[2] \in DOMAIN d.preds THEN CallPredicate(d.preds[e[2]], e[3], d)
                        ELSE Invoke(e[2], e[3], d)
    [] e[1] = "UnusualFor" -> Invoke("unusual_for", <<e[2], <<"Str", e[3]>>>>, d)
    [] e[1] \in DOMAIN NamedCalls -> Invoke(NamedCalls[e[1]], <<e[2]>>, d)
    [] OTHER -> AsBoolOf(Truth(e, d))

Reading(as, e, d) == IF as = "truth" THEN ReadTruth(e, d) ELSE ReadValue(e, d)

----------------------------------------------------------------------------
(* A rule on one event: its condition, then its derivations, then its      *)
(* requirements, then its responses.                                       *)

IfAny(cond, d) == IF cond = None THEN <<TRUE, d.st>> ELSE Truth(cond, d)

AllSay(es, d) ==
  FoldLeft(LAMBDA acc, e : IF acc[1] THEN Truth(e, With(d, acc[2])) ELSE acc, <<TRUE, d.st>>, es)

ScoreOf(rule, d) ==
  FoldLeft(LAMBDA x, m : Scored(x, IfAny(m.condition, x), m.delta),
           BaseScore(FoldLeft(LAMBDA x, b : Bound(x, b.name, Meaning(b.value, x)), d, rule.lets),
                     rule.score), rule.score.modifiers)

Lowered(b) == [actions |-> [i \in DOMAIN b.actions |-> lower_action(b.actions[i])]]
ResponseOf(rule, d) ==
  BlockingOf(FoldLeft(LAMBDA acc, b : IF acc[1] # <<>> THEN acc
                                      ELSE ActionsIf(Lowered(b), IfAny(b.condition, With(d, acc[2]))),
                      <<<<>>, d.st>>, rule.respond))

ThenRespond(q, d, rule) ==
  IF ~q[1] THEN Unmatched(q) ELSE MatchedWith(ResponseOf(rule, With(d, q[2])))
ThenRequire(d, rule) == ThenRespond(AllSay(rule.require, d), d, rule)
ThenScore(p, d, rule) ==
  IF ~p[1] THEN Unmatched(p) ELSE ThenRequire(ScoreOf(rule, With(d, p[2])), rule)
MeaningIn(d, rule) == ThenScore(IfAny(rule.where, d), d, rule)

RuleMeaning(rule, id, defs, ev, st) ==
  MeaningIn([ev |-> ev, fields |-> Extracted(ev), rule |-> id, st |-> st, env |-> <<>>,
             params |-> <<>>, roots |-> ArmRoots(rule), sets |-> defs.sets, preds |-> defs.preds],
            rule)
============================================================================
