----------------------------- MODULE OilChecks -----------------------------
(***************************************************************************)
(* The semantic passes of the OIL rule compiler: name resolution           *)
(* (oilc/src/resolver/mod.rs) and type checking                            *)
(* (oilc/src/typecheck/mod.rs).  Neither changes the program; each yields  *)
(* the set of its diagnostics, wording left out.                           *)
(*                                                                         *)
(* Types are tuples: <<"Str">>, <<"Entity", n>>, <<"Set", t>>, ...         *)
(***************************************************************************)
LOCAL INSTANCE Integers
LOCAL INSTANCE Sequences
LOCAL INSTANCE FiniteSets
LOCAL INSTANCE SequencesExt
LOCAL INSTANCE FiniteSetsExt
LOCAL INSTANCE Functions

CONSTANTS Schema,      \* the standard schema: roots and entities
          Signatures,  \* the standard callables: name -> overloads
          Prelude      \* the standard sets and predicates

Absent == <<"None">>

(* A later pair of a sequence of <<key, value>> pairs replaces an earlier. *)
LastWins(pairs) ==
  [k \in {p[1] : p \in Range(pairs)} |->
     pairs[Max({i \in DOMAIN pairs : pairs[i][1] = k})][2]]

(* The immediate subexpressions of a syntax node. *)
Subexprs(e) ==
  CASE e[1] \in {"BinOp", "Cmp"} -> {e[3], e[4]}
    [] e[1] = "Between" -> {e[2], e[3], e[4]}
    [] e[1] \in {"And", "Or", "In", "NotIn", "StartsWith", "EndsWith",
                 "Contains", "Under"} -> {e[2], e[3]}
    [] e[1] \in {"Member", "UnaryMinus", "Not", "Rare", "Count", "Max", "Min",
                 "Sum", "Avg", "Distinct", "Matches", "UnusualFor"} -> {e[2]}
    [] e[1] = "Call" -> Range(e[3])
    [] e[1] = "List" -> Range(e[2])
    [] OTHER -> {}

----------------------------------------------------------------------------
(* What entity a source, an event pattern or a graph pattern binds.        *)

map_source_to_entity(domain, event) ==
  LET t == [endpoint |-> [process |-> "Process", file |-> "FileEvent"],
            network |-> [flow |-> "NetworkFlow"],
            container |-> [runtime |-> "ContainerContext"],
            k8s |-> [workload |-> "WorkloadInfo"],
            identity |-> [session |-> "Session"],
            dns |-> [query |-> "DnsQuery"],
            secure_connect |-> [session |-> "SecureConnectSession",
                                connect |-> "SecureConnectSession",
                                profile |-> "SecureConnectProfile",
                                gateway |-> "SecureConnectGateway",
                                peer |-> "SecureConnectPeer"],
            db |-> [query |-> "SqlEvent"],
            ssl |-> [event |-> "SslEvent"]]
  IN IF domain \in DOMAIN t /\ event \in DOMAIN t[domain]
     THEN {t[domain][event]} ELSE {}

map_event_to_entity(domain, kind) ==
  LET sc == [profile |-> "SecureConnectProfile", peer |-> "SecureConnectPeer",
             gateway |-> "SecureConnectGateway"]
      t == [process |-> "Process", file |-> "FileEvent", network |-> "NetworkFlow",
            container |-> "ContainerContext", workload |-> "WorkloadInfo",
            session |-> "Session", dns |-> "DnsQuery", db |-> "SqlEvent",
            ssl |-> "SslEvent"]
  IN CASE domain = "secure_connect" ->
            {IF kind \in DOMAIN sc THEN sc[kind] ELSE "SecureConnectSession"}
       [] domain \in DOMAIN t -> {t[domain]}
       [] OTHER -> {}

map_graph_entity_to_entity(entity_type) ==
  IF entity_type \in DOMAIN Schema.entities THEN {entity_type}
  ELSE map_event_to_entity(entity_type, entity_type)

(* The aliases a rule binds to an entity, in the order they are bound.     *)
BoundEntities(rule) ==
  LET Bind(alias, entities) ==
        IF alias = "" \/ entities = {} THEN <<>>
        ELSE <<<<alias, CHOOSE n \in entities : TRUE>>>>
      OfSources(ss) ==
        FoldLeft(LAMBDA acc, s :
                   acc \o Bind(s.alias, map_source_to_entity(s.domain, s.event)),
                 <<>>, ss)
      OfArms(arms) ==
        FoldLeft(LAMBDA acc, a :
                   acc \o Bind(a.alias, map_event_to_entity(a.domain, a.event)),
                 <<>>, arms)
      OfPatterns(ps) ==
        FoldLeft(LAMBDA acc, p :
                   acc \o Bind(p.alias, map_graph_entity_to_entity(p.entity_type)),
                 <<>>, ps)
  IN OfSources(rule.sources)
       \o IF rule.body.kind = "Graph"
          THEN OfSources(<<rule.body.source>>) \o OfPatterns(rule.body.patterns)
          ELSE OfArms(rule.body.arms)

----------------------------------------------------------------------------
(* Name resolution. *)

(* The names visible in a unit: its own, the standard ones, the project's. *)
collect_symbols(unit, globals) ==
  LET names(defs) == {d.name : d \in Range(defs)}
      emitted == UNION {{m.fact : m \in Range(r.emit)} : r \in Range(unit.rules)}
  IN [sets |-> names(unit.sets) \cup names(Prelude.sets) \cup globals.sets,
      predicates |-> names(unit.predicates) \cup names(Prelude.predicates)
                       \cup globals.predicates,
      facts |-> names(unit.facts) \cup emitted \cup globals.facts,
      external |-> UNION {{p[1], p[Len(p)]} : p \in Range(unit.imports) \ {<<>>}}]

Duplicates(unit) ==
  LET twice(defs) == \E i, j \in DOMAIN defs : i < j /\ defs[i].name = defs[j].name
  IN IF twice(unit.sets) \/ twice(unit.predicates) \/ twice(unit.facts)
     THEN {<<"DuplicateDeclaration">>} ELSE {}

classify_call(symbols, name) ==
  CASE name \in symbols.facts -> "FactRef"
    [] name \in symbols.predicates -> "PredicateCall"
    [] OTHER -> "Unknown"

is_builtin_call(name) == name \in {"count", "max", "min", "sum", "avg", "distinct"}

resolve_name_like(name, scope, symbols) ==
  IF name \in scope \cup symbols.sets \cup symbols.external
                    \cup DOMAIN Schema.roots \cup {"score"}
  THEN {} ELSE {<<"UnknownIdentifier", name>>}

RECURSIVE validate_entity_path(_, _)
validate_entity_path(entity, tail) ==
  IF tail = <<>> THEN {}
  ELSE IF entity \notin DOMAIN Schema.entities THEN {<<"UnknownEntity", entity>>}
  ELSE IF tail[1] \notin DOMAIN Schema.entities[entity]
       THEN {<<"UnknownField", tail[1]>>}
  ELSE LET ty == Schema.entities[entity][tail[1]]
           inner == IF ty[1] = "Nullable" THEN ty[2] ELSE ty
       IN IF inner[1] = "Entity" THEN validate_entity_path(inner[2], Tail(tail))
          ELSE IF Len(tail) > 1 THEN {<<"ChainThroughScalar", tail[1]>>} ELSE {}

resolve_path_expr(parts, scope, entities, symbols) ==
  LET root == parts[1]
  IN CASE root \in DOMAIN entities ->
            validate_entity_path(entities[root], Tail(parts))
       [] root \in DOMAIN Schema.roots ->
            validate_entity_path(Schema.roots[root], Tail(parts))
       [] OTHER -> resolve_name_like(root, scope, symbols)

RECURSIVE resolve_expr(_, _, _, _)
resolve_expr(e, scope, entities, symbols) ==
  (CASE e[1] = "Ident" -> resolve_name_like(e[2], scope, symbols)
     [] e[1] = "Path" -> resolve_path_expr(e[2], scope, entities, symbols)
     [] e[1] = "Call" ->
          IF /\ classify_call(symbols, e[2]) = "Unknown"
             /\ ~is_builtin_call(e[2])
             /\ e[2] \notin DOMAIN Schema.roots \cup DOMAIN Signatures
          THEN {<<"UnknownCallable", e[2]>>} ELSE {}
     [] OTHER -> {})
  \cup UNION {resolve_expr(c, scope, entities, symbols) : c \in Subexprs(e)}

(* Only the actions that name a value have their target resolved; a        *)
(* snapshot target is looked up as one name, dots and all.                 *)
resolve_action(action, scope, entities, symbols) ==
  CASE action.kind = "Snapshot" ->
         IF Len(action.target) > 1 THEN {<<"UnknownIdentifier", action.target[1]>>}
         ELSE resolve_name_like(action.target[1], scope, symbols)
    [] action.kind \in {"RequireAuth", "Quarantine", "BlockEgress", "BlockQuery",
                        "Throttle"} ->
         IF Len(action.target) > 1
         THEN resolve_path_expr(action.target, scope, entities, symbols)
         ELSE resolve_name_like(action.target[1], scope, symbols)
    [] OTHER -> {}

BodyArms(rule) == IF rule.body.kind = "Graph"
                  THEN <<rule.body.source>> \o rule.body.patterns
                  ELSE rule.body.arms

(* The names a rule's sources and its first n arms bring into scope.       *)
ScopeOf(rule, n) ==
  LET arms == SubSeq(BodyArms(rule), 1, n)
      joined(a) == IF "join" \in DOMAIN a /\ a.join[1] = "ByVariable"
                   THEN {a.join[2]} ELSE {}
  IN (({s.alias : s \in Range(rule.sources)} \cup {a.alias : a \in Range(arms)})
        \ {""}) \cup UNION {joined(a) : a \in Range(arms)}

(* The entities known when the join predicate of arm n is checked.         *)
EntitiesAt(rule, n) ==
  LastWins(BoundEntities([rule EXCEPT !.body.arms = SubSeq(@, 1, n)]))

JoinPredicates(rule) ==
  {n \in DOMAIN rule.body.arms : /\ rule.body.kind = "Correlate"
                                 /\ rule.body.arms[n].join[1] = "OnPredicate"}

Conditions(branches) == {b.condition : b \in Range(branches)} \ {Absent}

(* `let` names come into scope one after the other; score conditions,      *)
(* emitted arguments and responses see all of them.                        *)
resolve_rule(rule, symbols) ==
  LET bound == ScopeOf(rule, Len(BodyArms(rule))) \cup {"score"}
      lets(n) == {rule.lets[i].name : i \in 1..n}
      all == bound \cup lets(Len(rule.lets))
      In(scope, es) == {<<e, scope>> : e \in es}
      Resolved(entities) ==
        UNION ({resolve_expr(x[1], x[2], entities, symbols) : x \in
                 In(bound, ({rule.where} \ {Absent}) \cup Range(rule.require)
                             \cup {<<"Path", v>> : v \in Range(rule.verify)})
                 \cup UNION {In(bound \cup lets(i - 1), {rule.lets[i].value}) : i \in DOMAIN rule.lets}
                 \cup In(all, Conditions(rule.score.modifiers) \cup Conditions(rule.respond)
                                \cup UNION {Range(m.args) : m \in Range(rule.emit)})}
               \cup UNION {{resolve_action(a, all, entities, symbols)
                            : a \in Range(b.actions)} : b \in Range(rule.respond)})
  IN Resolved(LastWins(BoundEntities(rule)))
       \cup UNION {resolve_expr(rule.body.arms[n].join[2], ScopeOf(rule, n),
                                EntitiesAt(rule, n), symbols) : n \in JoinPredicates(rule)}
       \cup {<<"UndeclaredFact", m.fact>> : m \in {x \in Range(rule.emit) : x.fact \notin symbols.facts}}

resolve_program_with_globals(unit, globals) ==
  LET symbols == collect_symbols(unit, globals)
  IN Duplicates(unit) \cup UNION {resolve_rule(r, symbols) : r \in Range(unit.rules)}

----------------------------------------------------------------------------
(* Type checking: the type of an expression and the diagnostics found.     *)

Unknown == <<"Unknown">>
Mismatch == <<"OperatorTypeMismatch", "Warning">>
BadCall == <<"CallableContract", "Error">>
NotBool == <<"BooleanContextMismatch", "Error">>
BadField == <<"FieldAccessInvalid", "Error">>
Unclassified == <<"Unknown", "Warning">>

RECURSIVE Unwrapped(_)
Unwrapped(t) == IF t[1] = "Nullable" THEN Unwrapped(t[2]) ELSE t

is_numeric(t) == t[1] \in {"Int", "Float", "Duration"}
is_string_like(t) == Unwrapped(t)[1] \in {"Str", "Path"}
is_path_like(t) == Unwrapped(t)[1] \in {"Str", "Path"}
is_root_lookup_key_ty(t) == Unwrapped(t)[1] \in {"Str", "Path", "IpAddr", "Int"}

RECURSIVE field_to_ty(_)
field_to_ty(f) == CASE f[1] = "Prim" -> <<f[2]>>
                    [] f[1] \in {"Set", "Nullable"} -> <<f[1], field_to_ty(f[2])>>
                    [] OTHER -> f

RECURSIVE type_compatible(_, _)
type_compatible(a, b) ==
  \/ a = b
  \/ a[1] = "Nullable" /\ type_compatible(a[2], b)
  \/ a[1] # "Nullable" /\ b[1] = "Nullable" /\ type_compatible(a, b[2])
  \/ is_numeric(a) /\ is_numeric(b)
  \/ {a[1], b[1]} = {"Path", "Str"}

RECURSIVE callable_type_ref_to_ty(_)
callable_type_ref_to_ty(c) ==
  CASE c[1] = "Any" -> Unknown
    [] c[1] \in {"Set", "Nullable"} -> <<c[1], callable_type_ref_to_ty(c[2])>>
    [] OTHER -> c

RECURSIVE callable_param_accepts(_, _)
callable_param_accepts(expected, t) ==
  CASE expected[1] = "Any" -> TRUE
    [] expected[1] = "Set" ->
         CASE t[1] \in {"Set", "List"} -> callable_param_accepts(expected[2], t[2])
           [] t[1] = "Nullable" -> callable_param_accepts(expected, t[2])
           [] OTHER -> FALSE
    [] expected[1] = "Nullable" ->
         t[1] = "Null" \/ callable_param_accepts(
                            expected[2], IF t[1] = "Nullable" THEN t[2] ELSE t)
    [] OTHER -> type_compatible(t, callable_type_ref_to_ty(expected))

RECURSIVE callable_type_specificity(_)
callable_type_specificity(c) ==
  CASE c[1] = "Any" -> 0
    [] c[1] \in {"Set", "Nullable"} -> 1 + callable_type_specificity(c[2])
    [] OTHER -> 4

SignatureSpecificity(sig) ==
  FoldLeft(LAMBDA n, p : n + callable_type_specificity(p.ty), 0, sig.params)

(* The overloads with as many parameters that accept the arguments.        *)
Accepting(overloads, tys) ==
  {i \in DOMAIN overloads :
     /\ Len(overloads[i].params) = Len(tys)
     /\ \A j \in DOMAIN tys :
          tys[j] = Unknown \/ callable_param_accepts(overloads[i].params[j].ty, tys[j])}

MostSpecific(overloads, fits) ==
  {i \in fits : \A j \in fits :
     SignatureSpecificity(overloads[j]) <= SignatureSpecificity(overloads[i])}

(* The first of the most specific overloads that accept the arguments, or  *)
(* else the first with as many parameters, or else the first.              *)
select_callable_signature(overloads, tys) ==
  LET arity == {i \in DOMAIN overloads : Len(overloads[i].params) = Len(tys)}
      First(best) == overloads[CASE best # {} -> Min(best) [] arity # {} -> Min(arity)
                                 [] OTHER -> 1]
  IN First(MostSpecific(overloads, Accepting(overloads, tys)))

RECURSIVE unknown_entity_in_callable_type_ref(_)
unknown_entity_in_callable_type_ref(c) ==
  CASE c[1] = "Entity" -> c[2] \notin DOMAIN Schema.entities
    [] c[1] \in {"Set", "Nullable"} -> unknown_entity_in_callable_type_ref(c[2])
    [] OTHER -> FALSE

If(cond, diagnostic) == IF cond THEN {diagnostic} ELSE {}
expect_bool(t) == If(t # <<"Bool">> /\ t # Unknown, NotBool)
expect_string_like(t) == If(~is_string_like(t) /\ t # Unknown, Mismatch)
expect_path_like(t) == If(~is_path_like(t) /\ t # Unknown, Mismatch)
expect_numeric(t, diagnostic) == If(~is_numeric(t) /\ t # Unknown, diagnostic)

check_cmp_types(l, r) ==
  If({l, r} \cap {Unknown, <<"Null">>} = {} /\ ~type_compatible(l, r), Mismatch)

check_membership_types(l, r) ==
  If(/\ Unknown \notin {l, r}
     /\ r[1] \in {"Set", "List"} => ~type_compatible(l, r[2]), Mismatch)

lookup_entity_field(entity, field) ==
  IF /\ entity \in DOMAIN Schema.entities
     /\ field \in DOMAIN Schema.entities[entity]
  THEN field_to_ty(Schema.entities[entity][field]) ELSE Unknown

(* A field of a nullable entity is nullable.  Only a member access carries *)
(* a position, so only it can be reported.                                 *)
RECURSIVE infer_member_field(_, _)
infer_member_field(base, field) ==
  CASE base[1] = "Entity" -> lookup_entity_field(base[2], field)
    [] base[1] = "Nullable" ->
         LET t == infer_member_field(base[2], field)
         IN IF t = Unknown THEN Unknown ELSE <<"Nullable", t>>
    [] OTHER -> Unknown

infer_path(parts, entities, values) ==
  LET root == parts[1]
      start == CASE root \in DOMAIN entities -> <<"Entity", entities[root]>>
                 [] root \in DOMAIN Schema.roots -> <<"Entity", Schema.roots[root]>>
                 [] root \in DOMAIN values -> values[root]
                 [] OTHER -> Unknown
  IN FoldLeft(infer_member_field, start, Tail(parts))

infer_root_call(name, tys) ==
  <<<<"Entity", Schema.roots[name]>>,
    If(\/ Len(tys) # 1
       \/ ~is_root_lookup_key_ty(tys[1]) /\ tys[1] # Unknown, BadCall)>>

CheckAgainst(sig, tys) ==
  LET common == 1..Min({Len(tys), Len(sig.params)})
      unknown == sig.returns # Absent
                   /\ unknown_entity_in_callable_type_ref(sig.returns)
  IN <<IF sig.returns = Absent \/ unknown THEN Unknown
       ELSE callable_type_ref_to_ty(sig.returns),
       If(\/ Len(tys) # Len(sig.params)
          \/ unknown
          \/ \E i \in common :
               \/ unknown_entity_in_callable_type_ref(sig.params[i].ty)
               \/ tys[i] # Unknown
                    /\ ~callable_param_accepts(sig.params[i].ty, tys[i]), BadCall)>>

infer_callable(name, tys) ==
  CheckAgainst(select_callable_signature(Signatures[name], tys), tys)

infer_call(name, tys, found) ==
  LET Also(r) == <<r[1], found \cup r[2]>>
  IN Also(CASE name = "count" -> <<<<"Int">>, {}>>
            [] name \in DOMAIN Schema.roots -> infer_root_call(name, tys)
            [] name \in DOMAIN Signatures -> infer_callable(name, tys)
            [] OTHER -> <<Unknown, {}>>)

RECURSIVE infer_expr(_, _, _)
infer_expr(e, entities, values) ==
  LET k == e[1]
      I(x) == infer_expr(x, entities, values)
      Bool2(a, b, found) == <<<<"Bool">>, a[2] \cup b[2] \cup found>>
  IN CASE k \in {"Str", "Int", "Float", "Bool", "Duration", "Null"} -> <<<<k>>, {}>>
       [] k = "Ident" ->
            <<IF e[2] \in DOMAIN values THEN values[e[2]] ELSE Unknown, {}>>
       [] k = "Path" -> <<infer_path(e[2], entities, values), {}>>
       [] k = "Member" ->
            LET b == I(e[2])
            IN <<infer_member_field(b[1], e[3]),
                 b[2] \cup If(Unwrapped(b[1])[1] \notin {"Entity", "Unknown"}, BadField)>>
       [] k = "UnaryMinus" ->
            LET t == I(e[2])
            IN <<IF t[1] = <<"Float">> THEN <<"Float">> ELSE <<"Int">>,
                 t[2] \cup expect_numeric(t[1], Mismatch)>>
       [] k = "Not" -> LET t == I(e[2]) IN Bool2(t, t, expect_bool(t[1]))
       [] k \in {"And", "Or"} ->
            LET l == I(e[2])  r == I(e[3])
            IN Bool2(l, r, expect_bool(l[1]) \cup expect_bool(r[1]))
       [] k = "Cmp" -> LET l == I(e[3])  r == I(e[4])
                       IN Bool2(l, r, check_cmp_types(l[1], r[1]))
       [] k \in {"In", "NotIn"} -> LET l == I(e[2])  r == I(e[3])
                                   IN Bool2(l, r, check_membership_types(l[1], r[1]))
       [] k \in {"StartsWith", "EndsWith"} ->
            LET l == I(e[2])  r == I(e[3])
            IN Bool2(l, r, expect_string_like(l[1]) \cup expect_string_like(r[1]))
       [] k = "Contains" ->
            LET l == I(e[2])  r == I(e[3])
            IN Bool2(l, r,
                 IF l[1][1] \in {"Set", "List"}
                 THEN If(~type_compatible(l[1][2], r[1]) /\ r[1] # Unknown, Mismatch)
                 ELSE expect_string_like(l[1]) \cup expect_string_like(r[1]))
       [] k = "Matches" -> LET l == I(e[2]) IN Bool2(l, l, expect_string_like(l[1]))
       [] k = "Under" ->
            LET l == I(e[2])  r == I(e[3])
            IN Bool2(l, r, expect_path_like(l[1]) \cup
                 If(~is_path_like(r[1]) /\ r[1][1] \notin {"Set", "List", "Unknown"},
                    Mismatch))
       [] k = "Between" ->
            LET found == UNION {I(e[i])[2] \cup expect_numeric(I(e[i])[1], Unclassified)
                                : i \in 2..4}
            IN <<<<"Bool">>, found>>
       [] k \in {"UnusualFor", "Rare"} -> <<<<"Bool">>, I(e[2])[2]>>
       [] k = "Count" -> <<<<"Int">>, I(e[2])[2]>>
       [] k \in {"Max", "Min", "Sum", "Avg"} ->
            LET t == I(e[2])
            IN <<IF k = "Avg" THEN <<"Float">> ELSE t[1],
                 t[2] \cup expect_numeric(t[1], Mismatch)>>
       [] k = "Distinct" -> <<Unknown, I(e[2])[2]>>
       [] k = "Call" ->
            infer_call(e[2], [i \in DOMAIN e[3] |-> I(e[3][i])[1]],
                       UNION {I(e[3][i])[2] : i \in DOMAIN e[3]})
       [] k = "List" ->
            LET ts == [i \in DOMAIN e[2] |-> I(e[2][i])]
            IN <<<<"List", IF ts = <<>> THEN Unknown ELSE ts[1][1]>>,
                 UNION {ts[i][2] : i \in DOMAIN ts} \cup
                 If(\E i \in DOMAIN ts : /\ Unknown \notin {ts[1][1], ts[i][1]}
                                         /\ ~type_compatible(ts[1][1], ts[i][1]),
                    Mismatch)>>
       [] k = "BinOp" ->
            LET l == I(e[3])  r == I(e[4])
            IN <<IF <<"Float">> \in {l[1], r[1]} THEN <<"Float">> ELSE <<"Int">>,
                 l[2] \cup r[2] \cup expect_numeric(l[1], Mismatch)
                   \cup expect_numeric(r[1], Mismatch)>>

TypeOf(entities) == [a \in DOMAIN entities |-> <<"Entity", entities[a]>>]

Bind(values, name, t) ==
  [n \in DOMAIN values \cup {name} |-> IF n = name THEN t ELSE values[n]]

CheckCondition(e, entities, values) ==
  LET Checked(t) == t[2] \cup expect_bool(t[1]) IN Checked(infer_expr(e, entities, values))

(* `let` values are typed in order: <<the types of all names, diagnostics>>. *)
CheckLets(lets, entities) ==
  LET Let(acc, b) ==
        LET Typed(t) == <<Bind(acc[1], b.name, t[1]), acc[2] \cup t[2]>>
        IN Typed(infer_expr(b.value, entities, acc[1]))
  IN FoldLeft(Let, <<TypeOf(entities), {}>>, lets)

(* `score` is a number in responses only.  A condition is checked with the *)
(* names in scope where it stands.                                         *)
CheckClauses(rule, entities, lets) ==
  LET Clause(es, ents, values) == {<<e, ents, values>> : e \in es}
  IN lets[2] \cup UNION {CheckCondition(c[1], c[2], c[3]) : c \in
       Clause(({rule.where} \ {Absent}) \cup Range(rule.require), entities, TypeOf(entities))
       \cup UNION {Clause({rule.body.arms[n].join[2]}, EntitiesAt(rule, n),
                          TypeOf(EntitiesAt(rule, n))) : n \in JoinPredicates(rule)}
       \cup Clause(Conditions(rule.score.modifiers), entities, lets[1])
       \cup Clause(Conditions(rule.respond), entities, Bind(lets[1], "score", <<"Int">>))}

check_rule(rule) ==
  LET Checked(entities) == CheckClauses(rule, entities, CheckLets(rule.lets, entities))
  IN Checked(LastWins(BoundEntities(rule)))

typecheck_program(unit) == UNION {check_rule(r) : r \in Range(unit.rules)}
============================================================================
