---------------------------- MODULE OilLowering ----------------------------
(***************************************************************************)
(* The back half of the OIL rule compiler: abstract syntax to MIR          *)
(* (oilc/src/mid/mod.rs) and MIR to the runtime IR the agent loads         *)
(* (oilc/src/runtime_ir.rs).                                               *)
(*                                                                         *)
(* A tree is a tuple whose first element is its variant.  Literals carry   *)
(* their value, a path is the sequence of its segments, a string value is  *)
(* a sequence of chunks (so that prefix, suffix and containment keep their *)
(* meaning) and an absent option is "".                                    *)
(***************************************************************************)
LOCAL INSTANCE Integers
LOCAL INSTANCE Sequences
LOCAL INSTANCE FiniteSets
LOCAL INSTANCE FiniteSetsExt
LOCAL INSTANCE SequencesExt
LOCAL INSTANCE Functions

CONSTANT MAX_PREDICATE_EXPANSION_DEPTH

Unsupported == <<"Unsupported">>
None == <<"None">>

Cmps == {"Eq", "Ne", "Lt", "Gt", "Le", "Ge"}
Ariths == {"Add", "Sub", "Mul", "Div"}
StringOps == {"StartsWith", "EndsWith", "Contains"}
BinaryNodes == {"And", "Or"} \cup Cmps \cup Ariths \cup StringOps

(* The walk every pass over MIR or runtime IR makes: apply F to the        *)
(* immediate subtrees and rebuild the node.                                *)
MapChildren(F(_), e) ==
  LET Each(s) == [i \in DOMAIN s |-> F(s[i])]
  IN CASE e[1] \in BinaryNodes -> <<e[1], F(e[2]), F(e[3])>>
       [] e[1] = "Not" -> <<"Not", F(e[2])>>
       [] e[1] = "List" -> <<"List", Each(e[2])>>
       [] e[1] = "In" -> <<"In", F(e[2]), Each(e[3])>>
       [] e[1] = "Call" -> <<"Call", e[2], Each(e[3])>>
       [] e[1] \in {"Project", "Matches"} -> <<e[1], F(e[2]), e[3]>>
       [] OTHER -> e

(* The immediate subtrees of a node. *)
Children(e) ==
  CASE e[1] \in BinaryNodes -> {e[2], e[3]}
    [] e[1] \in {"Not", "Project", "Matches"} -> {e[2]}
    [] e[1] = "List" -> Range(e[2])
    [] e[1] = "In" -> {e[2]} \cup Range(e[3])
    [] e[1] = "Call" -> Range(e[3])
    [] OTHER -> {}

(* Every node of a tree. *)
RECURSIVE Nodes(_)
Nodes(e) == {e} \cup UNION {Nodes(c) : c \in Children(e)}

----------------------------------------------------------------------------
(* Expressions: syntax to MIR. *)

NamedCalls == [Rare |-> "rare", Count |-> "count", Max |-> "max",
               Min |-> "min", Sum |-> "sum", Avg |-> "avg",
               Distinct |-> "distinct"]

RECURSIVE lower_expr(_)
lower_expr(e) ==
  LET k == e[1]
      Each(s) == [i \in DOMAIN s |-> lower_expr(s[i])]
      Items(r) == LET l == lower_expr(r)
                  IN IF l[1] = "List" THEN l[2] ELSE <<l>>
  IN CASE k = "Ident" -> <<"Field", <<e[2]>>>>
       [] k = "Path" -> <<"Field", e[2]>>
       [] k = "Call" -> <<"Call", e[2], Each(e[3])>>
       [] k = "List" -> <<"List", Each(e[2])>>
       [] k = "Member" ->
            LET base == lower_expr(e[2])
            IN CASE base[1] = "Field" -> <<"Field", Append(base[2], e[3])>>
                 [] base[1] \in {"Call", "Project"} -> <<"Project", base, e[3]>>
                 [] OTHER -> Unsupported
       [] k \in {"And", "Or"} \cup StringOps ->
            <<k, lower_expr(e[2]), lower_expr(e[3])>>
       [] k \in {"BinOp", "Cmp"} -> <<e[2], lower_expr(e[3]), lower_expr(e[4])>>
       [] k = "Not" -> <<"Not", lower_expr(e[2])>>
       [] k = "UnaryMinus" -> <<"Sub", <<"Int", 0>>, lower_expr(e[2])>>
       [] k = "In" -> <<"In", lower_expr(e[2]), Items(e[3])>>
       [] k = "NotIn" -> <<"Not", <<"In", lower_expr(e[2]), Items(e[3])>>>>
       [] k = "Matches" -> <<"Matches", lower_expr(e[2]), e[3]>>
       [] k = "Under" -> <<"StartsWith", lower_expr(e[2]), lower_expr(e[3])>>
       [] k = "Between" ->
            LET v == lower_expr(e[2])
            IN <<"And", <<"Ge", v, lower_expr(e[3])>>,
                        <<"Le", v, lower_expr(e[4])>>>>
       [] k = "UnusualFor" ->
            <<"Call", "unusual_for", <<lower_expr(e[2]), <<"Str", e[3]>>>>>>
       [] k \in DOMAIN NamedCalls ->
            <<"Call", NamedCalls[k], <<lower_expr(e[2])>>>>
       [] OTHER -> e

----------------------------------------------------------------------------
(* Rules: syntax to MIR. *)

classify_rule(rule) ==
  LET b == rule.body
  IN CASE b.kind = "Match" /\ Len(b.arms) <= 1 -> "HotPath"
       [] b.kind \in {"Match", "Correlate"} -> "Temporal"
       [] OTHER -> b.kind

(* Consecutive arms are joined, by the right arm's variable or predicate.  *)
(* Steps of a match without an alias join nothing.                         *)
lower_body(body, within) ==
  LET a == body.arms
      on(arm) == CASE arm.join[1] = "OnPredicate" -> lower_expr(arm.join[2])
                   [] arm.join[1] = "ByVariable" -> <<"Field", <<arm.join[2]>>>>
                   [] OTHER -> None
      paired(i) == body.kind = "Match" => "" \notin {a[i-1].alias, a[i].alias}
  IN CASE body.kind \in {"Match", "Correlate"} ->
            [joins |-> [n \in 1..(IF Len(a) < 2 THEN 0 ELSE Len(a) - 1) |->
                          [left |-> a[n].alias, right |-> a[n+1].alias,
                           on |-> on(a[n+1]), kept |-> paired(n+1)]],
             window |-> within]
       [] body.kind = "Around" -> [joins |-> <<>>, window |-> body.window]
       [] OTHER -> [joins |-> <<>>, window |-> within]

lower_source(s) == [domain |-> s.domain, event |-> s.event, alias |-> s.alias]

SubscriptionsOnly(rule) ==
  LET declared == IF rule.sources = <<>> THEN rule.body.arms ELSE rule.sources
  IN [i \in DOMAIN declared |-> lower_source(declared[i])]

(* `from` declares the subscriptions and the body binds the aliases; they  *)
(* are paired by position.                                                 *)
lower_rule_sources(rule) ==
  LET arms == IF rule.body.kind = "Graph" THEN <<rule.body.source>>
              ELSE rule.body.arms
      bound == [i \in DOMAIN arms |-> lower_source(arms[i])]
      from == [i \in DOMAIN rule.sources |-> lower_source(rule.sources[i])]
  IN IF from = <<>> THEN bound
     ELSE [i \in DOMAIN from |->
             IF from[i].alias = "" /\ i \in DOMAIN bound
             THEN [from[i] EXCEPT !.alias = bound[i].alias]
             ELSE from[i]]

(* The expressions of a rule, by the clause they come from.  Every pass    *)
(* over a rule visits exactly these.                                       *)
MapRule(F(_), r) ==
  LET Opt(x) == IF x = None THEN None ELSE F(x)
      Each(s) == [i \in DOMAIN s |-> F(s[i])]
  IN [r EXCEPT
       !.predicates = Each(@),
       !.joins = [i \in DOMAIN @ |-> [@[i] EXCEPT !.on = Opt(@)]],
       !.require = Each(@),
       !.lets = [i \in DOMAIN @ |-> [@[i] EXCEPT !.value = F(@)]],
       !.score = [@ EXCEPT !.modifiers =
                    [i \in DOMAIN @ |-> [@[i] EXCEPT !.condition = Opt(@)]]],
       !.emit = [i \in DOMAIN @ |-> [@[i] EXCEPT !.args = Each(@)]],
       !.respond = [i \in DOMAIN @ |-> [@[i] EXCEPT !.condition = Opt(@)]]]

RuleExprs(r) ==
  Range(r.predicates) \cup Range(r.require)
    \cup {b.value : b \in Range(r.lets)}
    \cup UNION {Range(m.args) : m \in Range(r.emit)}
    \cup (({j.on : j \in Range(r.joins)} \cup
           {m.condition : m \in Range(r.score.modifiers)} \cup
           {b.condition : b \in Range(r.respond)}) \ {None})

lower_rule(rule, idx) ==
  LET body == lower_body(rule.body, rule.within)
      Opt(x) == IF x = None THEN None ELSE lower_expr(x)
  IN [id |-> <<"rule", idx, rule.name>>, name |-> rule.name,
      class |-> classify_rule(rule), sources |-> lower_rule_sources(rule),
      predicates |-> IF rule.where = None THEN <<>>
                     ELSE <<lower_expr(rule.where)>>,
      joins |-> SelectSeq(body.joins, LAMBDA j : j.kept),
      window |-> body.window,
      require |-> [i \in DOMAIN rule.require |-> lower_expr(rule.require[i])],
      lets |-> [i \in DOMAIN rule.lets |->
                  [rule.lets[i] EXCEPT !.value = lower_expr(@)]],
      score |-> [base |-> rule.score.base,
                 modifiers |-> [i \in DOMAIN rule.score.modifiers |->
                   [rule.score.modifiers[i] EXCEPT !.condition = Opt(@)]]],
      verify |-> rule.verify,
      emit |-> [i \in DOMAIN rule.emit |-> [rule.emit[i] EXCEPT
                  !.args = [j \in DOMAIN @ |-> lower_expr(@[j])]]],
      respond |-> [i \in DOMAIN rule.respond |->
                     [rule.respond[i] EXCEPT !.condition = Opt(@)]]]

----------------------------------------------------------------------------
(* Named sets and predicates are expanded into the expressions using them. *)

project_argument(argument, tail) ==
  IF argument[1] = "Field" THEN <<"Field", argument[2] \o tail>>
  ELSE FoldLeft(LAMBDA base, f : <<"Project", base, f>>, argument, tail)

RECURSIVE substitute_predicate_params(_, _)
substitute_predicate_params(e, subs) ==
  IF e[1] = "Field"
  THEN CASE e[2][1] \notin DOMAIN subs -> e
         [] Len(e[2]) = 1 -> subs[e[2][1]]
         [] OTHER -> project_argument(subs[e[2][1]], Tail(e[2]))
  ELSE MapChildren(LAMBDA c : substitute_predicate_params(c, subs), e)

(* What a definition list makes visible: the last definition of a name.    *)
LastNamed(defs, name) ==
  defs[CHOOSE i \in DOMAIN defs :
         /\ defs[i].name = name
         /\ \A j \in DOMAIN defs : defs[j].name = name => j <= i]

RECURSIVE expand_expr_symbols(_, _, _, _)
expand_expr_symbols(e, sets, predicates, depth) ==
  LET X(c) == expand_expr_symbols(c, sets, predicates, depth)
  IN CASE depth >= MAX_PREDICATE_EXPANSION_DEPTH -> Unsupported
       [] e[1] = "Field" ->
            IF Len(e[2]) = 1 /\ e[2][1] \in DOMAIN sets
            THEN <<"List", sets[e[2][1]]>> ELSE e
       [] e[1] = "Call" ->
            LET args == [i \in DOMAIN e[3] |-> X(e[3][i])]
                p == predicates[e[2]]
                subs == [n \in Range(p.params) |->
                           args[CHOOSE i \in DOMAIN p.params :
                                  /\ p.params[i] = n
                                  /\ \A j \in DOMAIN p.params :
                                       p.params[j] = n => j <= i]]
            IN IF e[2] \in DOMAIN predicates /\ Len(p.params) = Len(args)
               THEN expand_expr_symbols(
                      substitute_predicate_params(p.body, subs),
                      sets, predicates, depth + 1)
               ELSE <<"Call", e[2], args>>
       [] e[1] = "In" ->
            <<"In", X(e[2]),
              FoldLeft(LAMBDA acc, item :
                         LET x == X(item)
                         IN acc \o (IF x[1] = "List" THEN x[2] ELSE <<x>>),
                       <<>>, e[3])>>
       [] e[1] = "StartsWith" ->
            LET l == X(e[2])
                r == X(e[3])
            IN CASE r[1] # "List" -> <<"StartsWith", l, r>>
                 [] r[2] = <<>> -> <<"Bool", FALSE>>
                 [] OTHER -> FoldLeft(LAMBDA acc, prefix :
                                        <<"Or", acc, <<"StartsWith", l, prefix>>>>,
                                      <<"StartsWith", l, r[2][1]>>, Tail(r[2]))
       [] OTHER -> MapChildren(X, e)

expand_rule_symbols(rule, sets, predicates) ==
  MapRule(LAMBDA e : expand_expr_symbols(e, sets, predicates, 0), rule)

lower_program(program) ==
  LET names(defs) == {d.name : d \in Range(defs)}
      sets == [n \in names(program.sets) |->
                 LET s == LastNamed(program.sets, n)
                 IN [i \in DOMAIN s.values |-> lower_expr(s.values[i])]]
      predicates == [n \in names(program.predicates) |->
                       LET p == LastNamed(program.predicates, n)
                       IN [params |-> p.params, body |-> lower_expr(p.body)]]
  IN [i \in DOMAIN program.rules |->
        expand_rule_symbols(lower_rule(program.rules[i], i - 1),
                            sets, predicates)]

----------------------------------------------------------------------------
(* Validation of the MIR.  A diagnostic is <<kind, severity>>. *)

validate_expr_unsupported(e) ==
  IF Unsupported \in Nodes(e) THEN {<<"UnsupportedExpression", "Error">>} ELSE {}

validate_rule(r, earlier) ==
  LET Diag(cond, kind, severity) == IF cond THEN {<<kind, severity>>} ELSE {}
  IN Diag(r.id \in earlier, "RuleIdDuplicate", "Error")
       \cup Diag(r.name = "", "RuleNameEmpty", "Error")
       \cup Diag(\E s \in Range(r.sources) : "" \in {s.domain, s.event},
                 "SourceMalformed", "Error")
       \cup Diag(\E j \in Range(r.joins) :
                   j.left = j.right \/ "" \in {j.left, j.right},
                 "JoinMalformed", "Error")
       \cup Diag(r.respond = <<>> \/ \E b \in Range(r.respond) : b.actions = <<>>,
                 "RespondMalformed", "Error")
       \cup Diag(\E m \in Range(r.emit) : m.fact = "",
                 "EmitMalformed", "Error")
       \cup Diag(<<>> \in Range(r.verify), "VerifyMalformed", "Error")
       \cup Diag(r.score.base \notin 0..100, "ScoreOutOfRange", "Warning")
       \cup UNION {validate_expr_unsupported(e) : e \in RuleExprs(r)}

validate_program(mir) ==
  UNION {validate_rule(mir[i], {mir[j].id : j \in 1..(i - 1)}) : i \in DOMAIN mir}

----------------------------------------------------------------------------
(* MIR to runtime IR. *)

RootIsDomain(domain, event) == domain

canonical_runtime_root(domain, event) ==
  IF domain = "endpoint" /\ event \in {"process", "file"} THEN event ELSE domain

RECURSIVE canonicalize_runtime_expr_fields(_, _)
canonicalize_runtime_expr_fields(e, aliases) ==
  IF e[1] = "Field"
  THEN IF Len(e[2]) > 1 /\ e[2][1] \in DOMAIN aliases
       THEN <<"Field", <<aliases[e[2][1]]>> \o Tail(e[2])>> ELSE e
  ELSE MapChildren(LAMBDA c : canonicalize_runtime_expr_fields(c, aliases), e)

(* The root each alias stands for; a repeated alias takes its last source. *)
AliasRoots(sources) ==
  LET bound == {i \in DOMAIN sources : sources[i].alias # ""}
  IN [a \in {sources[i].alias : i \in bound} |->
        LET s == sources[CHOOSE i \in bound :
                           /\ sources[i].alias = a
                           /\ \A j \in bound : sources[j].alias = a => j <= i]
        IN canonical_runtime_root(s.domain, s.event)]

canonicalize_runtime_rule(mir_rule, lowered) ==
  LET aliases == AliasRoots(mir_rule.sources)
  IN MapRule(LAMBDA e : canonicalize_runtime_expr_fields(e, aliases), lowered)

RECURSIVE lower_mir_expr(_)
lower_mir_expr(e) == MapChildren(lower_mir_expr, e)

ActionName == [Alert |-> "alert", Isolate |-> "isolate", Revoke |-> "revoke",
               Snapshot |-> "snapshot", OpenCase |-> "open_case",
               Challenge |-> "challenge", RequireAuth |-> "require_auth",
               Quarantine |-> "quarantine", BlockEgress |-> "block_egress",
               BlockQuery |-> "block_query", Notify |-> "notify",
               Throttle |-> "throttle"]
lower_action(action) == ActionName[action.kind]

lower_runtime_program(mir) ==
  [i \in DOMAIN mir |->
     LET r == MapRule(lower_mir_expr, mir[i])
     IN canonicalize_runtime_rule(mir[i],
          [r EXCEPT !.respond = [b \in DOMAIN @ |-> [@[b] EXCEPT
             !.actions = [a \in DOMAIN @ |-> lower_action(@[a])]]]])]

----------------------------------------------------------------------------
(* The field metadata and callable contracts shipped with every artifact.  *)
(* A schema is [roots |-> name -> entity, entities |-> name -> (field ->   *)
(* type)]; a type is <<"Prim", p>>, <<"Entity", n>>, <<"Set", t>> or       *)
(* <<"Nullable", t>>.                                                      *)

MAX_ENTITY_VISITS_PER_PATH == 2
TIME_ROOT == "time"

RECURSIVE runtime_field_type_from_schema_type(_)
runtime_field_type_from_schema_type(ty) ==
  CASE ty[1] = "Prim" ->
         CASE ty[2] \in {"Int", "Float", "Duration"} -> "Number"
           [] ty[2] \in {"Str", "Path"} -> "String"
           [] ty[2] = "IpAddr" -> "Ip"
           [] OTHER -> ty[2]
    [] ty[1] = "Nullable" -> runtime_field_type_from_schema_type(ty[2])
    [] ty[1] = "Set" -> IF runtime_field_type_from_schema_type(ty[2]) = "none"
                        THEN "none" ELSE "List"
    [] OTHER -> "none"

RECURSIVE schema_entity_type_name(_)
schema_entity_type_name(ty) ==
  CASE ty[1] = "Entity" -> ty[2]
    [] ty[1] = "Nullable" -> schema_entity_type_name(ty[2])
    [] OTHER -> ""

RECURSIVE collect_runtime_fields_for_entity(_, _, _, _, _)
collect_runtime_fields_for_entity(schema, entity, prefix, is_time, visits) ==
  IF entity \notin DOMAIN schema.entities
     \/ Cardinality({i \in DOMAIN visits : visits[i] = entity})
          >= MAX_ENTITY_VISITS_PER_PATH
  THEN {}
  ELSE UNION {LET ty == schema.entities[entity][f]
                  path == Append(prefix, f)
                  vt == runtime_field_type_from_schema_type(ty)
              IN IF vt # "none"
                 THEN {[canonical |-> path, value_type |-> vt,
                        is_time_context |-> is_time]}
                 ELSE collect_runtime_fields_for_entity(
                        schema, schema_entity_type_name(ty), path, is_time,
                        Append(visits, entity))
              : f \in DOMAIN schema.entities[entity]}

SyntheticFields ==
  {<<"event", f>> : f \in {"ts_ns", "event_type", "vertex_id", "dst_vertex_id",
                           "comm_id", "risk_score"}}

canonical_suffix_aliases(path) == {SubSeq(path, i, Len(path)) : i \in 2..Len(path)}

(* Aliases older rules rely on, kept whatever their suffixes say. *)
runtime_field_compatibility_aliases(path) ==
  LET Row(c, as) == IF path = c THEN as ELSE {}
  IN Row(<<"time", "weekday">>,
         {<<"weekday">>, <<"day_of_week">>, <<"time", "day_of_week">>})
     \cup Row(<<"time", "hour">>, {<<"hour">>})
     \cup Row(<<"time", "minute">>, {<<"minute">>})
     \cup Row(<<"time", "is_business_hour">>,
              {<<"is_business_hour">>, <<"business_hours">>, <<"time", "business_hours">>})
     \cup Row(<<"event", "ts_ns">>, {<<"ts_ns">>})
     \cup Row(<<"event", "event_type">>, {<<"event_type">>, <<"event", "type">>})
     \cup Row(<<"event", "vertex_id">>, {<<"vertex_id">>, <<"event", "src_vertex_id">>})
     \cup Row(<<"event", "dst_vertex_id">>, {<<"dst_vertex_id">>})
     \cup Row(<<"event", "comm_id">>, {<<"comm_id">>, <<"process", "comm_id">>})
     \cup Row(<<"event", "risk_score">>, {<<"risk_score">>, <<"score">>})
     \cup Row(<<"process", "pid">>, {<<"pid">>, <<"process_id">>, <<"process", "id">>})
     \cup Row(<<"process", "uid">>, {<<"uid">>, <<"user", "uid">>})
     \cup Row(<<"process", "name">>, {<<"name">>, <<"comm">>, <<"process", "comm">>})
     \cup Row(<<"network", "direction">>, {<<"direction">>})
     \cup Row(<<"network", "dest", "domain">>, {<<"domain">>, <<"dest", "domain">>})
     \cup Row(<<"network", "dest", "ip">>, {<<"dst_ip">>, <<"ip">>, <<"dest", "ip">>})
     \cup Row(<<"network", "dest", "port">>, {<<"dst_port">>, <<"port">>, <<"dest", "port">>})

(* A suffix is an alias only when no second field ends with it. *)
runtime_fields_from_schema(schema) ==
  LET declared == UNION {collect_runtime_fields_for_entity(
                           schema, schema.roots[r], <<r>>, r = TIME_ROOT, <<>>)
                         : r \in DOMAIN schema.roots}
      all == declared \cup
             {[canonical |-> s, value_type |-> "Number", is_time_context |-> FALSE]
              : s \in SyntheticFields \ {f.canonical : f \in declared}}
      owners(a) == {f \in all : a \in canonical_suffix_aliases(f.canonical)}
  IN {[canonical |-> f.canonical, value_type |-> f.value_type,
       is_time_context |-> f.is_time_context,
       aliases |-> ({a \in canonical_suffix_aliases(f.canonical) :
                       Cardinality(owners(a)) = 1}
                      \cup runtime_field_compatibility_aliases(f.canonical))
                   \ {f.canonical}] : f \in all}

(* Every overload of every standard callable is a contract. *)
runtime_callables_from_prelude(signatures) ==
  LET Overloads(n) == [i \in DOMAIN signatures[n] |->
                         [name |-> n, params |-> signatures[n][i].params,
                          returns |-> signatures[n][i].returns]]
  IN FoldSet(LAMBDA n, acc : acc \o Overloads(n), <<>>, DOMAIN signatures)
============================================================================
