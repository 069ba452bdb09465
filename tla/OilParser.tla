---------------------------- MODULE OilParser ----------------------------
(***************************************************************************)
(* The loops of the OIL parser, over declarations, over the clauses of a   *)
(* rule and inside them.  One step is one declaration, one clause or one   *)
(* turn of a loop in a clause.                                             *)
(***************************************************************************)
EXTENDS OilSyntax

CONSTANTS
    Sources,           \* the sources to parse, with what a reader takes them for
    MAX_PARSE_ERRORS   \* at most so many errors are kept

VARIABLES
    pos,       \* index of the token under the cursor
    errors,    \* where errors were reported, in order
    program,   \* the declarations read so far
    pc,        \* the loop the parser is in
    rule,      \* the rule being read
    block,     \* the clause being read: its items, and the open respond arm
    turns      \* how many turns the loops have taken (for the properties)

vars == <<source, pos, errors, program, pc, rule, block, turns>>

-----------------------------------------------------------------------------
(* The parser's loops *)

empty_rule(name) ==
    [name |-> name, sources |-> None, body |-> Leaf("match"), where |-> None,
     within |-> None, require |-> None, lets |-> <<>>, score |-> None, verify |-> None,
     emit |-> <<>>, respond |-> <<>>]

empty_block == [head |-> None, got |-> <<>>, cond |-> None, acts |-> <<>>, last |-> FALSE]

empty_program ==
    [imports |-> <<>>, sets |-> <<>>, rules |-> <<>>, predicates |-> <<>>, facts |-> <<>>]

Init ==
    /\ source \in Sources
    /\ pos = 1
    /\ errors = <<>>
    /\ program = empty_program
    /\ pc = "top"
    /\ rule = empty_rule("none")
    /\ block = empty_block
    /\ turns = 0

push_errors(all) == IF Len(all) > MAX_PARSE_ERRORS THEN SubSeq(all, 1, MAX_PARSE_ERRORS) ELSE all

Go(loop, p, errs) ==
    /\ pc' = loop
    /\ pos' = p
    /\ errors' = push_errors(errors \o errs)
    /\ turns' = turns + 1
    /\ UNCHANGED source

\* Most loops skip line ends before they look at a token.
here == consume_newlines(pos)
peek == toks[here]

\* A declaration read in one go: kept, or skipped to the next one.
Declare(kind, r) ==
    /\ program' = IF Fails(r) THEN program ELSE [program EXCEPT ![kind] = Append(@, r.got)]
    /\ Go("top", IF Fails(r) THEN synchronize_top_level(r.pos) ELSE r.pos, r.errs)
    /\ UNCHANGED <<rule, block>>

ImportDecl ==
    pc = "top" /\ peek \in {"use", "import"} /\ Declare("imports", parse_dotted_name(here + 1))

PredicateDecl ==
    /\ pc = "top" /\ peek = "predicate"
    /\ Declare("predicates", Then(Expecting(Signature(here + 1, "predicate"), {"="}), parse_expr))

FactDecl ==
    pc = "top" /\ peek = "fact" /\ Declare("facts", Then(Signature(here + 1, "fact"), Expires))

SetDecl ==
    /\ pc = "top" /\ peek = "set"
    /\ LET h == expect(here + 1, <<Ident, {"="}, {"["}>>)
       IN  IF Fails(h) THEN Declare("sets", h)
           ELSE /\ block' = [empty_block EXCEPT !.head = h.got.kids[1]]
                /\ Go("set", h.pos, <<>>)
                /\ UNCHANGED <<program, rule>>

\* A turn of the loop over set values.  A value that is none, and a value without
\* a comma after it, skip to the next comma or bracket.
SetValue ==
    /\ pc = "set" /\ toks[pos] # "eof" /\ peek # "]"
    /\ LET value == peek \in Literals \cup Ident
           p == IF value THEN here + 1 ELSE synchronize_in_list(here)
           q == consume_newlines(p)
           errs == IF value THEN <<>> ELSE <<here>>
       IN  /\ block' = IF value THEN [block EXCEPT !.got = Append(@, Leaf(peek))] ELSE block
           /\ IF toks[p] = "," THEN Go("set", consume_newlines(p + 1), errs)
              ELSE IF toks[q] = "]" THEN Go("set", q, errs)
              ELSE Go("set", synchronize_in_list(q), Append(errs, q))
    /\ UNCHANGED <<program, rule>>

SetEnd ==
    /\ pc = "set" /\ (toks[pos] = "eof" \/ peek = "]")
    /\ Declare("sets", IF peek = "]" THEN Result(here + 1, Node(block.head.op, block.got), <<>>)
                       ELSE Result(here, None, <<here>>))

UnexpectedTopLevel ==
    /\ pc = "top" /\ peek \notin top_level_start \cup {"eof"}
    /\ Declare("rules", Result(here, None, <<here>>))

RuleHead ==
    /\ pc = "top" /\ peek = "rule"
    /\ LET named == toks[here + 1] \in Ident \cup {"str"}
           p == IF named THEN here + 2 ELSE here + 1
           errs == IF named THEN <<>> ELSE <<p>>
       IN  IF toks[p] # "{" THEN Declare("rules", Result(p, None, Append(errs, p)))
           ELSE /\ rule' = empty_rule(IF named THEN toks[here + 1] ELSE "<error-rule-name>")
                /\ Go("rule", p + 1, errs)
                /\ UNCHANGED <<program, block>>

RuleEnd ==
    /\ pc = "rule" /\ peek \in {"}", "eof"}
    /\ Declare("rules", IF peek = "}" THEN Result(here + 1, rule, <<>>)
                        ELSE Result(here, None, <<here>>))

EndOfTokens ==
    /\ pc = "top" /\ peek = "eof"
    /\ Go("done", here, <<>>)
    /\ UNCHANGED <<program, rule, block>>

-----------------------------------------------------------------------------
(* The clauses of a rule *)

At(clause) == pc = "rule" /\ peek \in clause

\* A clause is read: the rule has what it says, the loop over clauses goes on.
Clause(read, p, errs) ==
    /\ rule' = read
    /\ Go("rule", p, errs)
    /\ UNCHANGED <<program, block>>

\* A clause with a loop of its own starts it with these items.
Open(loop, items, p, errs) ==
    /\ block' = [empty_block EXCEPT !.got = items]
    /\ Go(loop, p, errs)
    /\ UNCHANGED <<program, rule>>

\* A turn of such a loop adds what it could read.
Turn(loop, r, p, errs) ==
    /\ block' = IF Fails(r) THEN block ELSE [block EXCEPT !.got = Append(@, r.got)]
    /\ Go(loop, p, errs)
    /\ UNCHANGED <<program, rule>>

Sourced(r) ==
    IF Fails(r) THEN Clause(rule, synchronize_rule_line(r.pos), r.errs)
    ELSE Clause([rule EXCEPT !.sources = r.got], r.pos, r.errs)

FromClause ==
    /\ At({"from", "source"})
    /\ Sourced(parse_from_clause(Result(here + 1, Leaf("from"), <<>>), parse_source_spec(here + 1)))

WithinClause ==
    /\ At({"within"})
    /\ IF toks[here + 1] = "dur" THEN Clause([rule EXCEPT !.within = Leaf("dur")], here + 2, <<>>)
       ELSE Clause([rule EXCEPT !.within = None], here + 1, <<here + 1>>)

\* Lines that do not continue the condition are skipped up to the next clause.
DanglingLines(p) ==
    LET Ends(q) == toks[q] \in {"eof", "}"}
                   \/ (q > p /\ toks[q - 1] = "nl" /\ toks[q] \in rule_clause_start)
    IN  CHOOSE q \in p..Len(toks) : Ends(q) /\ \A r \in p..(q - 1) : ~Ends(r)

Where(e) ==
    LET dangling == at_line_start(e.pos)
                    /\ toks[e.pos] \notin {"eof", "}"} \cup rule_clause_start
    IN  IF Fails(e) \/ ~dangling THEN Clause([rule EXCEPT !.where = e.got], e.pos, e.errs)
        ELSE Clause([rule EXCEPT !.where = e.got], DanglingLines(e.pos), Append(e.errs, e.pos))

WhereClause == At({"where"}) /\ Where(parse_expr(here + 1))

\* The clauses that make the body: without its first item the line is skipped.
OpenBody(loop, r) ==
    IF Fails(r) THEN Clause(rule, synchronize_rule_line(r.pos), r.errs)
    ELSE Open(loop, <<r.got>>, r.pos, r.errs)

CloseBody(p, errs) == Clause([rule EXCEPT !.body = Node(pc, block.got)], p, errs)

MatchBlock ==
    At({"match"}) /\ OpenBody("match", parse_match_step(consume_newlines(here + 1)))

\* A step that cannot be read ends the block with the steps before it.
NextStep(s) ==
    IF Fails(s) THEN CloseBody(synchronize_rule_line(s.pos), s.errs)
    ELSE Turn("match", s, s.pos, s.errs)

MatchStep ==
    /\ pc = "match"
    /\ IF peek = "then" THEN NextStep(parse_match_step(consume_newlines(here + 1)))
       ELSE CloseBody(here, <<>>)

CorrelateBlock == At({"correlate"}) /\ OpenBody("correlate", parse_correlate_arm(here + 1))

\* What could not be read is skipped to the end of its line.
Past(r) == IF Fails(r) THEN synchronize_rule_line(r.pos) ELSE r.pos

NextArm(a) == Turn("correlate", a, Past(a), a.errs)

CorrelateArm ==
    /\ pc = "correlate"
    /\ IF peek = "with" THEN NextArm(parse_correlate_arm(here + 1)) ELSE CloseBody(here, <<>>)

\* A block in braces ends at its brace, or with an error at the end of the source.
AtBrace == toks[pos] = "eof" \/ peek = "}"

CloseBraces ==
    IF peek = "}" THEN CloseBody(here + 1, <<>>) ELSE CloseBody(here, <<here>>)

AfterComma(p) == consume_newlines(IF toks[p] = "," THEN p + 1 ELSE p)

SkipComma(p) == Turn(pc, Result(p, None, <<>>), consume_newlines(p + 1), <<>>)

\* graph source {
OpenGraph(s) == OpenBody("graph", Expecting([s EXCEPT !.pos = IF Fails(s) THEN @ ELSE consume_newlines(@)], {"{"}))

GraphBlock == At({"graph"}) /\ OpenGraph(parse_source_spec(consume_newlines(here + 1)))

NextPattern(g) == Turn("graph", g, AfterComma(Past(g)), g.errs)

GraphPattern ==
    /\ pc = "graph"
    /\ IF AtBrace THEN CloseBraces
       ELSE IF peek = "," THEN SkipComma(here)
       ELSE NextPattern(parse_graph_pattern(here))

\* around entity [within] 10m {
Window(e) ==
    LET w == consume_newlines(e.pos)
        d == IF toks[w] = "within" THEN w + 1 ELSE w
    IN  IF Fails(e) THEN e
        ELSE IF toks[d] = "dur" THEN Result(consume_newlines(d + 1), e.got, <<>>)
        ELSE Result(d, None, <<d>>)

AroundBlock ==
    /\ At({"around"})
    /\ OpenBody("around",
                Expecting(Window(parse_dotted_name(consume_newlines(here + 1))), {"{"}))

\* An arm whose alias cannot be read gives up the whole block.
NextGather(v, a) ==
    IF Fails(v) THEN Turn("around", v, consume_newlines(Past(v)), v.errs)
    ELSE IF Fails(a) THEN Clause(rule, synchronize_rule_line(a.pos), a.errs)
    ELSE Turn("around", a, AfterComma(a.pos), a.errs)

GatherArm ==
    /\ pc = "around"
    /\ IF AtBrace THEN CloseBraces
       ELSE IF peek = "," THEN SkipComma(here)
       ELSE NextGather(parse_event_pattern(here),
                       WholeLine(Then(parse_event_pattern(here), RequiredAlias),
                                 {"eof", "nl", ",", "}"}))

LetClause == At({"let"}) /\ Open("let", <<>>, here + 1, <<>>)

\* name = expr, one to a line.  The tail of a line is skipped without an error.
BindTo(name, e) ==
    LET tail == toks[e.pos] \notin {"nl", "}"} /\ ~at_line_start(e.pos)
    IN  IF Fails(e) THEN Turn("let", e, synchronize_rule_line(e.pos), Append(e.errs, e.pos))
        ELSE Turn("let", Result(e.pos, Node("let", <<name, e.got>>), <<>>),
                  IF tail THEN synchronize_rule_line(e.pos) ELSE e.pos, e.errs)

LetName(h) ==
    IF Fails(h) THEN Turn("let", h, synchronize_rule_line(h.pos), h.errs)
    ELSE BindTo(h.got.kids[1], parse_expr(h.pos))

LetBinding ==
    /\ pc = "let"
    /\ IF peek \in {"eof", "}"} \cup rule_clause_start
       THEN Clause([rule EXCEPT !.lets = @ \o block.got], here, <<>>)
       ELSE LetName(expect(here, <<Ident, {"="}>>))

ScoreClause ==
    /\ At({"score"})
    /\ LET p == consume_newlines(here + 1)
       IN  IF toks[p] = "int" THEN Open("score", <<>>, p + 1, <<>>)
           ELSE Clause([rule EXCEPT !.score = None], p, <<p>>)

\* + 10, or + 10 if expr; a condition that cannot be read leaves none.
Modifier(sign, c) == Turn("score", Result(c.pos, Node(sign, <<c.got>>), <<>>), c.pos, c.errs)

ScoreModifier ==
    /\ pc = "score"
    /\ IF peek \notin {"+", "-"}
       THEN Clause([rule EXCEPT !.score = Node("score", block.got)], here, <<>>)
       ELSE IF toks[here + 1] # "int"
            THEN Turn("score", Result(here, None, <<>>),
                      synchronize_rule_line(here + 1), <<here + 1>>)
       ELSE IF toks[here + 2] = "if" THEN Modifier(peek, parse_expr(here + 3))
       ELSE Modifier(peek, Result(here + 2, None, <<>>))

\* The loops below look at the token under the cursor: line ends are behind it.
EndsClause(starts) ==
    \/ toks[pos] \in {"eof", "}"}
    \/ at_line_start(pos) /\ toks[pos] \in starts

RequireClause == At({"require"}) /\ Open("require", <<>>, consume_newlines(here + 1), <<>>)

\* A clause that must have an entry, and has none, is left out with an error.
EntriesOf == IF block.got = <<>> THEN None ELSE Node(pc, block.got)
NoEntries == IF block.got = <<>> THEN <<pos>> ELSE <<>>

\* Expressions, `and` or a new line between them; a line may start with `score`.
NextRequirement(e) ==
    Turn("require", e, consume_newlines(IF toks[Past(e)] = "and" THEN Past(e) + 1 ELSE Past(e)), e.errs)

Requirement ==
    /\ pc = "require"
    /\ IF EndsClause(rule_clause_start \ {"score"})
       THEN Clause([rule EXCEPT !.require = EntriesOf], pos, NoEntries)
       ELSE IF toks[pos] = "and" THEN SkipComma(pos)
       ELSE NextRequirement(parse_expr(pos))

VerifyClause == At({"verify"}) /\ Open("verify", <<>>, consume_newlines(here + 1), <<>>)

NextEntry(n) == Turn(pc, n, AfterComma(Past(n)), n.errs)

VerifyEntry ==
    /\ pc = "verify"
    /\ IF EndsClause(rule_clause_start \ {"require"})
       THEN Clause([rule EXCEPT !.verify = EntriesOf], pos, NoEntries)
       ELSE IF toks[pos] = "," THEN SkipComma(pos)
       ELSE IF toks[pos] = "require" THEN NextEntry(parse_dotted_name(pos + 1))
       ELSE Turn("verify", Result(pos, None, <<>>),
                 consume_newlines(synchronize_rule_line(pos)), <<pos>>)

EmitClause == At({"emit"}) /\ Open("emit", <<>>, consume_newlines(here + 1), <<>>)

EmitStmt ==
    /\ pc = "emit"
    /\ IF EndsClause(rule_clause_start)
       THEN Clause([rule EXCEPT !.emit = @ \o block.got], pos, <<>>)
       ELSE IF toks[pos] = "," THEN SkipComma(pos)
       ELSE IF toks[pos] \in Ident \cup {"fact"} THEN NextEntry(parse_emit_stmt(pos))
       ELSE Turn("emit", Result(pos, None, <<>>),
                 consume_newlines(synchronize_rule_line(pos)), <<pos>>)

-----------------------------------------------------------------------------
(* respond: one inline list of actions, or an if / else if / else chain *)

Arm(cond, acts) == Node("arm", <<cond>> \o acts)

\* The arm on condition c opens its block, or is kept without actions when it has
\* no brace.
OpenArm(arms, c, last) ==
    /\ block' = IF toks[c.pos] = "{"
                THEN [empty_block EXCEPT !.got = arms, !.cond = c.got, !.last = last]
                ELSE [empty_block EXCEPT !.got = Append(arms, Arm(c.got, <<>>)), !.last = last]
    /\ IF toks[c.pos] = "{" THEN Go("actions", c.pos + 1, c.errs)
       ELSE Go("else", synchronize_rule_line(c.pos), Append(c.errs, c.pos))
    /\ UNCHANGED <<program, rule>>

RespondClause ==
    /\ At({"respond"})
    /\ LET p == consume_newlines(here + 1)
       IN  IF toks[p] = "if" THEN OpenArm(<<>>, parse_expr(p + 1), FALSE)
           ELSE Open("inline", <<>>, p, <<>>)

\* else if expr {, else {, or the end of the chain
RespondElse ==
    /\ pc = "else"
    /\ LET p == consume_newlines(here + 1)
       IN  IF block.last THEN Clause([rule EXCEPT !.respond = block.got], pos, <<>>)
           ELSE IF peek # "else" THEN Clause([rule EXCEPT !.respond = block.got], here, <<>>)
           ELSE IF toks[p] = "if" THEN OpenArm(block.got, parse_expr(p + 1), FALSE)
           ELSE OpenArm(block.got, Result(p, None, <<>>), TRUE)

\* A turn of either loop over actions.
ReadAction(a) ==
    /\ block' = IF Fails(a) THEN block ELSE [block EXCEPT !.acts = Append(@, a.got)]
    /\ Go(pc, Past(a), IF Fails(a) THEN Append(a.errs, a.pos) ELSE a.errs)
    /\ UNCHANGED <<program, rule>>

BlockAction ==
    /\ pc = "actions"
    /\ IF ~AtBrace THEN ReadAction(parse_action_stmt(here))
       ELSE /\ block' = [block EXCEPT !.got = Append(@, Arm(block.cond, block.acts)), !.acts = <<>>]
            /\ Go("else", IF peek = "}" THEN here + 1 ELSE here,
                  IF peek = "}" THEN <<>> ELSE <<here>>)
            /\ UNCHANGED <<program, rule>>

InlineAction ==
    /\ pc = "inline"
    /\ IF AtBrace \/ (at_line_start(here) /\ peek \in rule_clause_start)
       THEN Clause([rule EXCEPT !.respond = IF block.acts = <<>> THEN <<>>
                                            ELSE <<Arm(None, block.acts)>>], here, <<>>)
       ELSE ReadAction(parse_action_stmt(here))

UnknownClause ==
    /\ pc = "rule" /\ peek \notin rule_clause_start \cup {"}", "eof"}
    /\ Clause(rule, synchronize_rule_line(here), <<here>>)

-----------------------------------------------------------------------------
ParseDeclaration ==
    \/ ImportDecl \/ SetDecl \/ SetValue \/ SetEnd \/ PredicateDecl \/ FactDecl
    \/ RuleHead \/ RuleEnd \/ UnexpectedTopLevel \/ EndOfTokens

ParseClause ==
    \/ FromClause \/ MatchBlock \/ MatchStep \/ CorrelateBlock \/ CorrelateArm
    \/ GraphBlock \/ GraphPattern \/ AroundBlock \/ GatherArm \/ WhereClause \/ WithinClause
    \/ LetClause \/ LetBinding \/ ScoreClause \/ ScoreModifier \/ RequireClause \/ Requirement
    \/ VerifyClause \/ VerifyEntry \/ EmitClause \/ EmitStmt \/ RespondClause \/ RespondElse
    \/ BlockAction \/ InlineAction \/ UnknownClause

Next == ParseDeclaration \/ ParseClause

Spec == Init /\ [][Next]_vars

-----------------------------------------------------------------------------
(* Properties *)

\* Every part of the source is well formed.
WellFormed == \A i \in DOMAIN source.parts : ~source.parts[i].broken

\* A source without a broken part is accepted, and read as it was written: an
\* expression groups by the strength of its operators wherever the language
\* lets its lines break, a clause ends where the next one starts whatever stands before it, and
\* no declaration, clause or item is lost or read into its neighbour.
ReadsAsWritten ==
    pc = "done" /\ WellFormed => errors = <<>> /\ program = source.want

\* Whatever is broken, the parser comes to an end, with at most two turns to a
\* token, and its errors are about what is broken: each broken part has an error
\* inside it, and a well-formed part has none, except at the first token, where a
\* broken part before it is found to have ended.  Recovery never stands still,
\* never hides a mistake behind another and never cascades.  A part that stops
\* short (`where a ==`) has its error no later than at the token after it, unless
\* that is `score`, which can be its operand; of the part behind it, whose first
\* line its recovery may give up, nothing is said.
DiagnosesBrokenParts ==
    /\ turns <= 2 * Len(toks)
    /\ pc = "done" =>
         \A i \in {i \in DOMAIN source.parts : i > 1 => ~source.parts[i - 1].short} :
             LET part == source.parts[i]
                 Reported(from, to) == \E k \in DOMAIN errors : errors[k] \in from..to
             IN  CASE part.short -> Reported(part.from, part.to + 1) \/ toks[part.to + 1] = "score"
                   [] part.broken /\ ~part.short -> Reported(part.from, part.to)
                   [] OTHER -> ~Reported(part.from + 1, part.to)

\* "Keep score-clause modifier prefixes from being absorbed as arithmetic
\* continuation of the prior line": each + or - line of a score clause is a
\* modifier of its own, in the score that was written.
ModifiersStayApart ==
    pc = "done" => \A i \in DOMAIN program.rules : program.rules[i].score = source.want.rules[i].score

=============================================================================
