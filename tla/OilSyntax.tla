---------------------------- MODULE OilSyntax ----------------------------
(***************************************************************************)
(* The functions of the OIL parser: what it reads from a position of the   *)
(* token stream.  A token is its text; "nl" and "eof" are the line end and *)
(* the end marker, "int", "float", "str" and "dur" the literals.  Every    *)
(* node of the tree is an operator with a sequence of children.            *)
(***************************************************************************)
EXTENDS Integers, Sequences

CONSTANT Ident    \* the identifiers of the sources ("as", "open", ... too)

VARIABLE source   \* [toks, parts, want]: the tokens; the spans of its parts and
                  \* which are broken; the program its author meant

toks == source.toks

-----------------------------------------------------------------------------
(* Nodes and results *)

Node(op, kids) == [op |-> op, kids |-> kids]
Leaf(op) == Node(op, <<>>)

\* What a parse_ function returns: Some(got), or None when got is None; with
\* the cursor and the errors it left.
None == Leaf("None")
Result(p, got, errs) == [pos |-> p, got |-> got, errs |-> errs]
Fails(r) == r.got = None

\* Sequencing with `?`: the node of r takes what F reads next as its last child.
Joined(r, s) ==
    IF Fails(r) THEN r
    ELSE Result(s.pos,
                IF Fails(s) THEN None ELSE Node(r.got.op, Append(r.got.kids, s.got)),
                r.errs \o s.errs)

Then(r, F(_)) == Joined(r, F(r.pos))

-----------------------------------------------------------------------------
(* The cursor *)

name_atom == Ident \cup {"use"}

rule_clause_start ==
    {"from", "source", "match", "correlate", "graph", "around", "where", "within",
     "let", "score", "require", "verify", "emit", "respond"}

top_level_start == {"use", "import", "set", "rule", "predicate", "fact"}

\* The first token from p on that is in S, or the end.
SkipTo(p, S) ==
    CHOOSE q \in p..Len(toks) :
        /\ toks[q] \in S \cup {"eof"}
        /\ \A r \in p..(q - 1) : toks[r] \notin S

consume_newlines(p) ==
    CHOOSE q \in p..Len(toks) :
        toks[q] # "nl" /\ \A r \in p..(q - 1) : toks[r] = "nl"

synchronize_in_list(p) == SkipTo(p, {",", "]"})
synchronize_rule_line(p) == SkipTo(p, {"nl", "}"})
synchronize_expr(p) == SkipTo(p, {",", "nl", ")", "]", "}"})

\* A faulty recovery: it gives up the rest of the file.
ToTheEnd(p) == Len(toks)

\* Past a line end that a declaration follows.
synchronize_top_level(p) ==
    LET Starts(q) == toks[q] = "eof"
                     \/ (q > p /\ toks[q - 1] = "nl" /\ toks[q] \in top_level_start)
    IN  CHOOSE q \in p..Len(toks) : Starts(q) /\ \A r \in p..(q - 1) : ~Starts(r)

at_line_start(p) == p = 1 \/ toks[p - 1] \in {"nl", "{"}

\* expect, one class of tokens after the other: up to the first that differs.
expect(p, classes) ==
    LET Matches(n) == \A i \in 1..n : toks[p + i - 1] \in classes[i]
        n == CHOOSE n \in 0..Len(classes) :
                 Matches(n) /\ (n = Len(classes) \/ ~Matches(n + 1))
    IN  Result(p + n,
               IF n = Len(classes)
               THEN Node("toks", [i \in 1..n |-> Leaf(toks[p + i - 1])]) ELSE None,
               IF n = Len(classes) THEN <<>> ELSE <<p + n>>)

\* expect after r, whose node stays.
Expecting(r, class) ==
    IF Fails(r) THEN r
    ELSE IF toks[r.pos] \in class THEN [r EXCEPT !.pos = @ + 1]
    ELSE Result(r.pos, None, Append(r.errs, r.pos))

\* The rest of a line that is not in stops is skipped, with an error.
WholeLine(r, stops) ==
    IF Fails(r) \/ toks[r.pos] \in stops THEN r
    ELSE Result(synchronize_rule_line(r.pos), r.got, Append(r.errs, r.pos))

\* a, a.b, a.b.c: names and the dots between them.
parse_dotted_name(p) ==
    LET Reads(n) == /\ p + 2 * n - 2 <= Len(toks)
                    /\ \A i \in 1..n : toks[p + 2 * i - 2] \in Ident
                                       /\ (i > 1 => toks[p + 2 * i - 3] = ".")
        n == CHOOSE n \in 0..Len(toks) : (n = 0 \/ Reads(n)) /\ ~Reads(n + 1)
        end == p + 2 * n - 1
    IN  IF n = 0 THEN Result(p, None, <<p>>)
        ELSE IF toks[end] = "." THEN Result(end + 1, None, <<end + 1>>)
        ELSE Result(end, Node("name", [i \in 1..n |-> Leaf(toks[p + 2 * i - 2])]), <<>>)

\* The identifier after `as` (or `for`, `by`), as one leaf.
OneIdent(p) ==
    IF toks[p] \in Ident THEN Result(p + 1, Leaf(toks[p]), <<>>) ELSE Result(p, None, <<p>>)

no_alias == Leaf("no alias")

OptionalAlias(p) ==
    IF toks[p] = "as" THEN OneIdent(p + 1) ELSE Result(p, no_alias, <<>>)

\* Arms must be named; an arm that is not is kept, with an error.
RequiredAlias(p) ==
    IF toks[p] = "as" THEN OneIdent(p + 1) ELSE Result(p, Leaf("missing"), <<p>>)

-----------------------------------------------------------------------------
(* Expressions *)

Arithmetic == {"+", "-", "*", "/"}

Comparisons ==
    {"==", "!=", "<", ">", "<=", ">=", "in", "not in", "contains", "starts_with",
     "ends_with", "matches", "under"}

\* A faulty table: `and` and `or` bind alike.
AndLikeOr ==
    [op \in {"or", "and"} \cup Arithmetic \cup Comparisons |->
        CASE op \in {"or", "and"} -> 1
          [] op \in Comparisons -> 5
          [] op \in {"+", "-"} -> 7
          [] op \in {"*", "/"} -> 9]

\* How strongly an operator holds what is left of it; one more on its right.
infix_bp ==
    [op \in {"or", "and"} \cup Arithmetic \cup Comparisons |->
        CASE op = "or" -> 1
          [] op = "and" -> 3
          [] op \in Comparisons -> 5
          [] op \in {"+", "-"} -> 7
          [] op \in {"*", "/"} -> 9]

prefix_bp == 11

peek_infix_op(p) ==
    IF toks[p] = "not" /\ toks[p + 1] = "in" THEN "not in" ELSE toks[p]

consume_infix_op(p, op) == IF op = "not in" THEN p + 2 ELSE p + 1

\* The pattern of `matches`: names and strings are the pattern itself, a list is
\* the alternation of its escaped items, anything else its debug rendering.
RECURSIVE expr_to_pattern_string(_)
expr_to_pattern_string(e) ==
    CASE e.op \in {"str", "name", "member"} -> e
      [] e.op = "list" ->
            Node("alternatives",
                 [i \in DOMAIN e.kids |->
                    Node("escaped", <<expr_to_pattern_string(e.kids[i])>>)])
      [] OTHER -> Node("debug", <<e>>)

Combine(op, lhs, rhs) ==
    Node(op, <<lhs, IF op = "matches" THEN expr_to_pattern_string(rhs) ELSE rhs>>)

\* A turn of the operator loop stops before the token at q: no operator, an
\* arithmetic one on a new line, or one that binds less than the caller's.
StopsBefore(q, newline, min_bp) ==
    LET op == peek_infix_op(q)
    IN  \/ op \notin DOMAIN infix_bp
        \/ newline /\ op \in Arithmetic
        \/ infix_bp[op] < min_bp

\* .field.field after a call
RECURSIVE Members(_, _)
Members(r, field) ==
    IF Fails(r) \/ toks[r.pos] # "." THEN r
    ELSE IF Fails(field) THEN Result(field.pos, None, r.errs \o field.errs)
    ELSE Members(Result(field.pos, Node("member", <<r.got, field.got>>), r.errs),
                 OneIdent(field.pos + 1))

WithMembers(r) == Members(r, OneIdent(r.pos + 1))

Literals == {"int", "float", "str", "dur", "true", "false", "null"}

\* The parts of an expression from p on:
\*   "bp"      an expression whose operators bind at least as x
\*   "infix"   the operators after the left operand x.lhs, from x.min on
\*   "rhs"     what follows once the right operand x.rhs of x.op is read
\*   "args"    a comma list up to x.close, after the items of x.got
\*   "item"    what follows once its next item x.item is read
\*   "call"    the arguments of the name x, if it has any
\*   "prefix"  an operand
RECURSIVE Parse(_, _, _)
Parse(what, p, x) ==
    CASE what = "bp" ->
            Parse("infix", p, [lhs |-> Parse("prefix", consume_newlines(p), 0), min |-> x])
      [] what = "infix" ->
            LET q == consume_newlines(x.lhs.pos)
                op == peek_infix_op(q)
            IN  IF Fails(x.lhs) THEN x.lhs
                ELSE IF StopsBefore(q, q # x.lhs.pos, x.min) THEN [x.lhs EXCEPT !.pos = q]
                ELSE Parse("rhs", q, [lhs |-> x.lhs, min |-> x.min, op |-> op,
                                      rhs |-> Parse("bp", consume_infix_op(q, op), infix_bp[op] + 1)])
      [] what = "rhs" ->
            LET errs == x.lhs.errs \o x.rhs.errs
            IN  IF Fails(x.rhs) THEN Result(x.rhs.pos, x.lhs.got, Append(errs, x.rhs.pos))
                ELSE Parse("infix", p,
                        [lhs |-> Result(x.rhs.pos, Combine(x.op, x.lhs.got, x.rhs.got), errs),
                         min |-> x.min])
      [] what = "args" ->
            LET q == consume_newlines(p)
            IN  IF toks[q] = x.close THEN [x.got EXCEPT !.pos = q + 1]
                ELSE IF toks[p] = "eof" THEN Result(p, None, Append(x.got.errs, p))
                ELSE Parse("item", q, [close |-> x.close, got |-> x.got, item |-> Parse("bp", q, 0)])
      [] what = "item" ->
            LET got == Joined(x.got, x.item)
                q == got.pos
            IN  IF Fails(got) THEN got
                ELSE IF toks[q] = "," THEN Parse("args", q + 1, [close |-> x.close, got |-> got])
                ELSE IF toks[q] = x.close THEN [got EXCEPT !.pos = q + 1]
                ELSE Parse("args", synchronize_expr(q),
                           [close |-> x.close, got |-> [got EXCEPT !.errs = Append(@, q)]])
      [] what = "call" ->
            IF Fails(x) \/ toks[x.pos] # "(" THEN x
            ELSE WithMembers(Parse("args", x.pos + 1,
                    [close |-> ")", got |-> Result(p, Node("call", <<x.got>>), <<>>)]))
      [] what = "prefix" /\ toks[p] \in Literals -> Result(p + 1, Leaf(toks[p]), <<>>)
      [] what = "prefix" /\ toks[p] = "score" ->
            Result(p + 1, Node("name", <<Leaf("score")>>), <<>>)
      [] what = "prefix" /\ toks[p] \in {"not", "-"} ->
            Joined(Result(p + 1, Leaf(IF toks[p] = "-" THEN "neg" ELSE "not"), <<>>),
                   Parse("bp", p + 1, prefix_bp))
      [] what = "prefix" /\ toks[p] = "(" -> Expecting(Parse("bp", p + 1, 0), {")"})
      [] what = "prefix" /\ toks[p] = "[" ->
            Parse("args", p + 1, [close |-> "]", got |-> Result(p, Leaf("list"), <<>>)])
      [] what = "prefix" /\ toks[p] \in Ident -> Parse("call", p, parse_dotted_name(p))
      [] OTHER -> Result(p, None, <<p>>)

parse_expr(p) == Parse("bp", p, 0)

-----------------------------------------------------------------------------
(* The pieces of clauses *)

Arguments(p, op) ==
    Parse("args", p, [close |-> ")", got |-> Result(p, op, <<>>)])

\* Parameter names up to `)`, which the caller expects.
RECURSIVE parse_param_list(_, _)
parse_param_list(p, got) ==
    LET n == p + 1
        q == consume_newlines(n)
        kids == Append(got.got.kids, Leaf(toks[p]))
        more == Result(q, Node(got.got.op, kids), got.errs)
    IN  IF toks[p] \in {")", "eof"} THEN [got EXCEPT !.pos = p]
        ELSE IF toks[p] \notin name_atom THEN Result(p, None, Append(got.errs, p))
        ELSE IF toks[n] = "," THEN parse_param_list(consume_newlines(n + 1), more)
        ELSE IF toks[q] = ")" THEN more
        ELSE parse_param_list(synchronize_expr(q), [more EXCEPT !.errs = Append(got.errs, q)])

Params(r) == IF Fails(r) THEN r ELSE parse_param_list(consume_newlines(r.pos), r)

\* name(params), in a predicate or a fact
Signature(p, op) ==
    Expecting(Params(Expecting(Then(Result(p, Leaf(op), <<>>), parse_dotted_name), {"("})), {")"})

\* `expires 1h`, or nothing; a missing duration is an error but no failure.
Expires(p) ==
    IF toks[p] # "expires" THEN Result(p, Leaf("never"), <<>>)
    ELSE IF toks[p + 1] = "dur" THEN Result(p + 2, Leaf("dur"), <<>>)
    ELSE Result(p + 1, Leaf("never"), <<p + 1>>)

parse_event_pattern(p) ==
    LET e == expect(p, <<name_atom, {"."}, name_atom>>)
    IN  IF Fails(e) THEN e
        ELSE Result(e.pos, Node("event", <<e.got.kids[1], e.got.kids[3]>>), <<>>)

parse_source_spec(p) == Then(parse_event_pattern(p), OptionalAlias)

\* The source s was read after those of got.
RECURSIVE parse_from_clause(_, _)
parse_from_clause(got, s) ==
    IF Fails(s) /\ got.got.kids = <<>> THEN s
    ELSE IF Fails(s)
         THEN Result(synchronize_rule_line(s.pos), got.got, Append(got.errs \o s.errs, s.pos))
    ELSE IF toks[s.pos] # "," THEN Joined(got, s)
    ELSE parse_from_clause(Joined(got, s), parse_source_spec(s.pos + 1))

\* `by v`, or `by v as w`: the variable the steps or arms share.
ByVariable(p) ==
    LET v == OneIdent(p + 1)
    IN  IF toks[p] # "by" THEN Result(p, Leaf("no by"), <<>>)
        ELSE IF Fails(v) \/ toks[v.pos] # "as" THEN v
        ELSE OneIdent(v.pos + 1)

parse_match_step(p) == Then(Then(parse_event_pattern(p), OptionalAlias), ByVariable)

\* `on expr` (no expression: an error, and no join), `by v`, or nothing
OnPredicate(e) ==
    IF Fails(e) THEN Result(e.pos, Leaf("no by"), Append(e.errs, e.pos))
    ELSE Result(e.pos, Node("on", <<e.got>>), e.errs)

CorrelateJoin(p) == IF toks[p] = "on" THEN OnPredicate(parse_expr(p + 1)) ELSE ByVariable(p)

\* Arms are one line each.
parse_correlate_arm(p) ==
    WholeLine(Then(Then(parse_event_pattern(consume_newlines(p)), RequiredAlias), CorrelateJoin),
              {"eof", "nl", "}", "with"} \cup rule_clause_start)

\* `-> edge`, or nothing
EdgeType(p) ==
    IF toks[p] # "->" THEN Result(p, Leaf("any edge"), <<>>)
    ELSE IF toks[p + 1] \in name_atom THEN Result(p + 2, Leaf(toks[p + 1]), <<>>)
    ELSE Result(p + 1, None, <<p + 1>>)

parse_graph_pattern(p) ==
    LET e == expect(p, <<name_atom>>)
    IN  IF Fails(e) THEN e
        ELSE Then(Then(Result(e.pos, Node("pattern", e.got.kids), <<>>), RequiredAlias), EdgeType)

\* fact name(args) expires 1h; a missing list is an error but no failure.  (A list
\* that is never closed ends with the source, and the rule is lost with it.)
EmitArguments(n) ==
    IF Fails(n) THEN n
    ELSE IF toks[n.pos] = "(" THEN Arguments(n.pos + 1, n.got)
    ELSE Result(n.pos, n.got, <<n.pos>>)

parse_emit_stmt(p) ==
    Then(EmitArguments(Joined(Result(p, Leaf("emit"), <<>>),
                              parse_dotted_name(IF toks[p] = "fact" THEN p + 1 ELSE p))),
         Expires)

-----------------------------------------------------------------------------
(* Actions of a respond clause *)

severities == {"critical", "high", "medium", "low", "informational"}

parse_alert_action(p) ==
    IF toks[p] \notin severities THEN Result(p, None, <<p>>)
    ELSE IF toks[p + 1] = "str"
         THEN Result(p + 2, Node("alert", <<Leaf(toks[p]), Leaf("str")>>), <<>>)
         ELSE Result(p + 1, Node("alert", <<Leaf(toks[p])>>), <<>>)

\* A kind out of kinds, and the word that was written; another word is an error,
\* reported at the token after it, and stands for the default.
KindOfTarget(p, op, kinds, default) ==
    LET t == OneIdent(p)
    IN  IF Fails(t) THEN t
        ELSE IF toks[p] \in kinds THEN Result(p + 1, Node(op, <<t.got, t.got>>), <<>>)
        ELSE Result(p + 1, Node(op, <<Leaf(default), t.got>>), <<p + 1>>)

parse_isolate_action(p) == KindOfTarget(p, "isolate", {"host", "network", "process"}, "host")

parse_revoke_action(p) ==
    KindOfTarget(p, "revoke", {"session", "token", "credential"}, "credential")

parse_challenge_action(p) == KindOfTarget(p, "challenge", {"mfa"}, "mfa")

\* A target is a name or a call, kept as its text.
CallTarget(a) ==
    IF Fails(a) THEN a
    ELSE [a EXCEPT !.got.kids = [i \in DOMAIN @ |-> expr_to_pattern_string(@[i])]]

NameOrCall(n) ==
    IF Fails(n) \/ toks[n.pos] # "(" THEN n
    ELSE CallTarget(Arguments(n.pos + 1, Node("call", <<n.got>>)))

parse_snapshot_target(p) == NameOrCall(parse_dotted_name(p))

\* The target t was read after those of got.
RECURSIVE parse_snapshot_action(_, _)
parse_snapshot_action(got, t) ==
    IF toks[consume_newlines(got.pos)] = "}" THEN [got EXCEPT !.pos = consume_newlines(@)]
    ELSE IF Fails(t) THEN Result(synchronize_rule_line(t.pos), got.got, got.errs \o t.errs)
    ELSE IF toks[t.pos] # "," THEN Joined(got, t)
    ELSE parse_snapshot_action([Joined(got, t) EXCEPT !.pos = t.pos + 1],
                               parse_snapshot_target(consume_newlines(t.pos + 1)))

\* `open_case "title"` or `open case "title"`
is_open_case_pair(p) == toks[p] = "open" /\ toks[p + 1] = "case"

Message(p, op) ==
    IF toks[p] = "str" THEN Result(p + 1, Leaf(op), <<>>) ELSE Result(p, None, <<p>>)

parse_open_case_action(p) == Message(IF toks[p] = "open" THEN p + 2 ELSE p + 1, "open_case")
parse_notify_action(p) == Message(p, "notify")

parse_target_action(p, op) == Then(Result(p, Leaf(op), <<>>), parse_dotted_name)

\* Without a target the action stands, with the error the target gave.
TargetOrMissing(r) ==
    IF Fails(r) THEN [r EXCEPT !.got = Node("require_mfa", <<Leaf("missing")>>)] ELSE r

parse_require_mfa_action(p) ==
    IF toks[p] = "for" THEN parse_target_action(p + 1, "require_mfa")
    ELSE TargetOrMissing(parse_target_action(p, "require_mfa"))

\* The kind is only looked at once the target is read.
BlockKind(t) ==
    IF Fails(t) \/ t.got.op \in {"egress", "query"} THEN t ELSE Result(t.pos, None, <<t.pos>>)

parse_block_action(p) ==
    IF toks[p] \in Ident THEN BlockKind(parse_target_action(p + 1, toks[p]))
    ELSE Result(p, None, <<p>>)

parse_action_stmt(p) ==
    CASE toks[p] = "alert" -> parse_alert_action(p + 1)
      [] toks[p] = "isolate" -> parse_isolate_action(p + 1)
      [] toks[p] = "revoke" -> parse_revoke_action(p + 1)
      [] toks[p] = "snapshot" -> 
            parse_snapshot_action(Result(p + 1, Leaf("snapshot"), <<>>),
                                  parse_snapshot_target(consume_newlines(p + 1)))
      [] toks[p] = "open_case" \/ is_open_case_pair(p) -> parse_open_case_action(p)
      [] toks[p] = "challenge" -> parse_challenge_action(p + 1)
      [] toks[p] = "require_mfa" -> parse_require_mfa_action(p + 1)
      [] toks[p] \in {"quarantine", "throttle"} -> parse_target_action(p + 1, toks[p])
      [] toks[p] = "block" -> parse_block_action(p + 1)
      [] toks[p] = "notify" -> parse_notify_action(p + 1)
      [] OTHER -> Result(p, None, <<>>)

=============================================================================
