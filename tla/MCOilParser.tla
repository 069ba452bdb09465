--------------------------- MODULE MCOilParser ---------------------------
(***************************************************************************)
(* The sources of the OIL parser's runs: printed expression trees, rules   *)
(* made of clauses in every order, files made of declarations in every     *)
(* order, each whole or broken.                                            *)
(***************************************************************************)
EXTENDS OilParser, FiniteSets, SequencesExt

MCIdent == {"a", "b", "f", "r", "as", "x", "open", "case", "host", "egress", "mfa", "for", "junk",
            "session"}

A == Node("name", <<Leaf("a")>>)
AB == Node("name", <<Leaf("a"), Leaf("b")>>)

-----------------------------------------------------------------------------
(* Expressions, and how they are written *)

Ops == {"or", "and", "not in", "+", "*"}
Over(L, R) == {Node(op, <<l, r>>) : op \in Ops, l \in L, r \in R}
Under(S) == {Node(op, <<e>>) : op \in {"not", "neg"}, e \in S}

T0 == {A}
T1 == T0 \cup Over(T0, T0) \cup Under(T0)
T2 == T0 \cup Over(T1, T1) \cup Under(T1)
T3 == Over(Over(Over(T0, T0), T0), T0) \cup Over(T0, Over(T0, Over(T0, T0)))

Compound == {AB, Leaf("int"), Leaf("null")}
            \cup {Node("call", <<AB, e, A>>) : e \in T1}
            \cup {Node("list", <<e, Leaf("str")>>) : e \in T1}
            \cup {Node("member", <<Node("call", <<A>>), Leaf("b")>>)}

Trees == T2 \cup T3 \cup Over(T0, Compound) \cup Over(Compound, T0) \cup Under(Compound)
         \cup {Node("matches", <<A, Node("alternatives", <<Node("escaped", <<Leaf("str")>>)>>)>>)}

\* The reader's order of operators: or, and, comparisons, sums, products, the rest.
Strength(e) ==
    CASE e.op = "or" -> 1
      [] e.op = "and" -> 2
      [] e.op \in Comparisons -> 3
      [] e.op \in {"+", "-"} -> 4
      [] e.op \in {"*", "/"} -> 5
      [] OTHER -> 99

\* Parentheses where the grouping needs them, and line breaks where they are free:
\* never, before every operator but arithmetic ones, or after every operator.
RECURSIVE Printed(_, _)
Printed(e, br) ==
    LET Wrap(k, least) == IF Strength(k) < least THEN <<"(">> \o Printed(k, br) \o <<")">>
                          ELSE Printed(k, br)
        Listed(ks) == FlattenSeq([i \in DOMAIN ks |->
                          (IF i = 1 THEN <<>> ELSE <<",">>) \o Printed(ks[i], br)])
        op == IF e.op = "not in" THEN <<"not", "in">> ELSE <<e.op>>
        before == IF br = "before" /\ e.op \notin Arithmetic THEN <<"nl">> ELSE <<>>
        after == IF br = "after" THEN <<"nl">> ELSE <<>>
    IN  CASE e.op = "name" -> FlattenSeq([i \in DOMAIN e.kids |->
                                  (IF i = 1 THEN <<>> ELSE <<".">>) \o <<e.kids[i].op>>])
          [] e.op = "call" -> Printed(e.kids[1], br) \o <<"(">> \o Listed(Tail(e.kids)) \o <<")">>
          [] e.op = "list" -> <<"[">> \o Listed(e.kids) \o <<"]">>
          [] e.op = "member" -> Printed(e.kids[1], br) \o <<".", e.kids[2].op>>
          [] e.op = "not" -> <<"not">> \o Wrap(e.kids[1], 99)
          [] e.op = "neg" -> <<"-">> \o Wrap(e.kids[1], 99)
          [] e.op = "matches" -> Printed(e.kids[1], br) \o <<"matches", "[", "str", "]">>
          [] Strength(e) < 99 ->
                Wrap(e.kids[1], Strength(e)) \o before \o op \o after
                    \o Wrap(e.kids[2], Strength(e) + 1)
          [] OTHER -> <<e.op>>

-----------------------------------------------------------------------------
(* Sources made of parts *)

\* parts: <<[text, broken], ...>>, each on lines of its own.
Assembled(before, parts, after, want) ==
    LET Upto(n) == before \o FlattenSeq([i \in 1..n |-> Append(parts[i].text, "nl")])
    IN  [toks |-> Upto(Len(parts)) \o after \o <<"eof">>,
         parts |-> [i \in DOMAIN parts |->
                       [from |-> Len(Upto(i - 1)) + 1, to |-> Len(Upto(i)),
                        broken |-> parts[i].broken, short |-> parts[i].short]],
         want |-> want]

InRule(parts, r) ==
    Assembled(<<"rule", "r", "{", "nl">>, parts, <<"}">>, [empty_program EXCEPT !.rules = <<r>>])

ExpressionSources ==
    {InRule(<<[text |-> <<"where">> \o Printed(e, br), broken |-> FALSE, short |-> FALSE],
              [text |-> <<"within", "dur">>, broken |-> FALSE, short |-> FALSE]>>,
            [empty_rule("r") EXCEPT !.where = e, !.within = Leaf("dur")]) :
        e \in Trees, br \in {"never", "before", "after"}}

\* A clause as written, and what it makes of a rule that is read up to it.
Ok(text, field, value) ==
    [text |-> text, broken |-> FALSE, short |-> FALSE, field |-> field, value |-> value]
Broken(text) == [text |-> text, broken |-> TRUE, short |-> FALSE]
Short(text) == [text |-> text, broken |-> TRUE, short |-> TRUE]

E0 == Node("event", <<Leaf("a"), Leaf("b")>>)
Event(kids) == Node("event", E0.kids \o kids)
no_by == Leaf("no by")
Emit(kids) == Node("emit", kids)

Clauses == {
    Ok(<<"from", "a", ".", "b", "as", "x", ",", "a", ".", "use">>, "sources",
       Node("from", <<Event(<<Leaf("x")>>),
                      Node("event", <<Leaf("a"), Leaf("use"), no_alias>>)>>)),
    Ok(<<"match", "a", ".", "b", "as", "x", "nl", "then", "a", ".", "b", "by", "x", "as", "a">>, "body",
       Node("match", <<Event(<<Leaf("x"), no_by>>), Event(<<no_alias, Leaf("a")>>)>>)),
    Ok(<<"correlate", "a", ".", "b", "as", "a", "nl", "with", "a", ".", "b", "as", "b", "on",
         "a", "==", "a">>, "body",
       Node("correlate", <<Event(<<Leaf("a"), no_by>>),
                           Event(<<Leaf("b"), Node("on", <<Node("==", <<A, A>>)>>)>>)>>)),
    Ok(<<"graph", "a", ".", "b", "{", "nl", "a", "as", "x", "->", "b", ",", ",", "nl", "b", "as", "a", "nl", "}">>,
       "body", Node("graph", <<Event(<<no_alias>>), Node("pattern", <<Leaf("a"), Leaf("x"), Leaf("b")>>),
                               Node("pattern", <<Leaf("b"), Leaf("a"), Leaf("any edge")>>)>>)),
    Ok(<<"around", "a", "within", "dur", "{", ",", "nl", "a", ".", "b", "as", "x", "nl", "}">>, "body",
       Node("around", <<A, Event(<<Leaf("x")>>)>>)),
    Ok(<<"where", "a", "nl", "and", "a">>, "where", Node("and", <<A, A>>)),
    Ok(<<"let", "x", "=", "a", "nl", "b", "=", "-", "a">>, "lets",
       <<Node("let", <<Leaf("x"), A>>), Node("let", <<Leaf("b"), Node("neg", <<A>>)>>)>>),
    Ok(<<"score", "int", "nl", "+", "int", "if", "a", "nl", "-", "int">>, "score",
       Node("score", <<Node("+", <<A>>), Node("-", <<None>>)>>)),
    Ok(<<"require", "and", "a", "==", "a", "and", "a", "nl", "a">>, "require",
       Node("require", <<Node("and", <<Node("==", <<A, A>>), A>>), A>>)),
    Ok(<<"verify", "require", "a", ".", "b", ",", ",", "require", "a">>, "verify",
       Node("verify", <<AB, A>>)),
    Ok(<<"emit", "fact", "f", "(", "a", ")", "expires", "dur", "nl", ",", "f", "(", ")">>, "emit",
       <<Emit(<<Node("name", <<Leaf("f")>>), A, Leaf("dur")>>),
         Emit(<<Node("name", <<Leaf("f")>>), Leaf("never")>>)>>),
    Ok(<<"respond", "nl", "alert", "high", "nl", "isolate", "host", "nl", "snapshot", "a", ",", "f", "(", "a", ")",
         "nl", "open", "case", "str">>, "respond",
       <<Arm(None, <<Node("alert", <<Leaf("high")>>), Node("isolate", <<Leaf("host"), Leaf("host")>>),
                     Node("snapshot", <<A, Node("call", <<Node("name", <<Leaf("f")>>), A>>)>>),
                     Leaf("open_case")>>)>>),
    Ok(<<"respond", "if", "score", ">=", "int", "{", "nl", "block", "egress", "a", "nl", "notify", "str", "nl",
         "challenge", "mfa", "}", "nl", "else", "if", "a", "{", "quarantine", "a", "nl", "revoke", "session", "}",
         "else", "{", "nl", "require_mfa", "for", "a", "nl", "alert", "low", "str", "nl", "throttle", "a", "nl", "}">>,
       "respond",
       <<Arm(Node(">=", <<Node("name", <<Leaf("score")>>), Leaf("int")>>),
             <<Node("egress", <<A>>), Leaf("notify"), Node("challenge", <<Leaf("mfa"), Leaf("mfa")>>)>>),
         Arm(A, <<Node("quarantine", <<A>>), Node("revoke", <<Leaf("session"), Leaf("session")>>)>>),
         Arm(None, <<Node("require_mfa", <<A>>), Node("alert", <<Leaf("low"), Leaf("str")>>),
                     Node("throttle", <<A>>)>>)>>) }

BrokenClauses == {
    Broken(<<"from", "a", "b">>),
    Broken(<<"from", "a", ".", "b", ",", "int">>),
    Broken(<<"match", "a", "==", "b">>),
    Broken(<<"match", "a", ".", "b", "then", "+">>),
    Broken(<<"correlate", "a", ".", "b", "as", "x", "junk", "nl", "with", "a", "a", "nl", "with", "a", ".", "b", "as", "b">>),
    Broken(<<"graph", "a", ".", "b", "int", "{">>),
    Broken(<<"graph", "a", ".", "b", "{", "nl", "a", "->", "(", "nl", "}">>),
    Broken(<<"around", "a", "int", "x">>),
    Broken(<<"around", "a", "dur", "{", "nl", "a", "b", "nl", "a", ".", "b", "x", "nl", "}">>),
    Broken(<<"where", "a", "==", ")", "a">>),
    Broken(<<"where", "a", "nl", "b", "a">>),
    Broken(<<"within", "a">>),
    Broken(<<"let", "x", "a", "nl", "b", "=", "+", "a">>),
    Broken(<<"score", "a">>),
    Broken(<<"score", "int", "nl", "+", "a">>),
    Broken(<<"require", "=", "a">>),
    Broken(<<"verify", "a">>),
    Broken(<<"emit", "f", "(", "a", "a", ")">>),
    Broken(<<"emit", "int", "nl", "f", "(", "=", ")">>),
    Broken(<<"respond", "alert", "a", "nl", "block", "a", "a", "nl", "notify", "a">>),
    Broken(<<"respond", "if", "a", "alert", "high">>),
    Broken(<<"respond", "if", "a", "{", "nl", "isolate", "a", "str", "nl", "junk", "nl", "}">>),
    Broken(<<"within", "dur", "junk", "a">>) }

\* Clauses that stop where a name, an operand or a pattern is wanted.
ShortClauses == {
    Short(<<"where", "a", "==">>),
    Short(<<"let", "x", "=">>),
    Short(<<"require", "a", "and">>),
    Short(<<"from", "a", ".", "b", ",">>),
    Short(<<"match", "a", ".", "b", "nl", "then">>),
    Short(<<"correlate", "a", ".", "b", "as", "a", "nl", "with", "a", ".", "b", "as", "b", "on", "a", "==">>),
    Short(<<"score", "int", "nl", "+", "int", "if">>),
    Short(<<"emit", "f", "(", "a", ",">>),
    Short(<<"respond", "if", "a", "and">>),
    Short(<<"respond", "nl", "isolate">>),
    Short(<<"within">>) }

\* What the clauses of a rule add up to: the last of a kind, all bindings and facts.
Added(r, c) ==
    IF c.field \in {"lets", "emit"} THEN [r EXCEPT ![c.field] = @ \o c.value]
    ELSE [r EXCEPT ![c.field] = c.value]

RuleOf(clauses) ==
    IF \E i \in DOMAIN clauses : clauses[i].broken THEN empty_rule("r")
    ELSE FoldLeft(Added, empty_rule("r"), clauses)

\* `require` takes a `score` line, and `verify` a `require` line, as its own.
Taken(c, d) ==
    \/ c.text[1] = "require" /\ d.text[1] = "score"
    \/ c.text[1] = "verify" /\ d.text[1] = "require"

AnyClause == Clauses \cup BrokenClauses \cup ShortClauses

ClauseSources ==
    {InRule(t, RuleOf(t)) :
        t \in {t \in (Clauses \X AnyClause \X Clauses) \cup (AnyClause \X AnyClause) :
                  \A i \in 1..(Len(t) - 1) : ~Taken(t[i], t[i + 1])}}

\* A rule cut off at any token, and an arm without the alias it announces: the
\* block is given up at its line, and its brace closes the rule.
Cut(s, n) ==
    [toks |-> Append(SubSeq(s.toks, 1, n), "eof"),
     parts |-> <<[from |-> 1, to |-> n + 1, broken |-> TRUE, short |-> FALSE]>>, want |-> empty_program]

LostArm == Broken(<<"around", "a", "dur", "{", "nl", "a", ".", "b", "as", "int", "nl", "}">>)

CutSources ==
    {InRule(<<LostArm>>, empty_rule("r"))}
    \cup UNION {{Cut(s, n) : n \in 1..(Len(s.toks) - 2)} :
                  s \in {InRule(<<c>>, empty_rule("r")) : c \in Clauses}}

-----------------------------------------------------------------------------
(* Files *)

SomeRule == [empty_rule("r") EXCEPT !.where = A, !.emit = <<Emit(<<Node("name", <<Leaf("f")>>), Leaf("never")>>)>>]

Declarations == {
    Ok(<<"use", "a", ".", "b">>, "imports", AB),
    Ok(<<"set", "x", "=", "[", "nl", "str", ",", "nl", "a", "nl", "]">>, "sets",
       Node("x", <<Leaf("str"), Leaf("a")>>)),
    Ok(<<"predicate", "f", "(", "a", ",", "b", ")", "=", "a", "nl", "or", "a">>, "predicates",
       Node("predicate", <<Node("name", <<Leaf("f")>>), Leaf("a"), Leaf("b"), Node("or", <<A, A>>)>>)),
    Ok(<<"fact", "a", ".", "b", "(", "x", ")", "expires", "dur">>, "facts",
       Node("fact", <<AB, Leaf("x"), Leaf("dur")>>)),
    Ok(<<"rule", "r", "{", "where", "a", "nl", "emit", "fact", "f", "(", ")", "nl", "}">>, "rules", SomeRule),
    Broken(<<"use", "a", ".", "int">>),
    Broken(<<"set", "x", "[", "a", "]">>),
    Broken(<<"set", "x", "=", "[", "(", ",", "a", "b", "]">>),
    Broken(<<"predicate", "f", "(", "a", "b", ")", "a">>),
    Broken(<<"predicate", "f", "(", ")", "=", ")">>),
    Broken(<<"fact", "f", "(", "int", ")">>),
    Broken(<<"fact", "f", "(", "a", ")", "expires", "a">>),
    Broken(<<"rule", "{", "nl", "where", "a", "nl", "}">>),
    Broken(<<"rule", "r", "where", "a", "nl", "}">>),
    Broken(<<"rule", "r", "{", "nl", "where", "+", "nl", "junk", "nl", "}">>),
    Broken(<<"use", "a", "nl", "junk", "rule">>) }

ProgramOf(decls) ==
    IF \E i \in DOMAIN decls : decls[i].broken THEN empty_program
    ELSE FoldLeft(LAMBDA p, d : [p EXCEPT ![d.field] = Append(@, d.value)], empty_program, decls)

FileSources ==
    {Assembled(<<>>, ds, <<>>, ProgramOf(ds)) : ds \in Declarations \X Declarations \X {d \in Declarations : ~d.broken}}

MCSources == ExpressionSources \cup ClauseSources \cup CutSources \cup FileSources

-----------------------------------------------------------------------------
\* Score clauses whose modifiers are one line each, with compared conditions.
ScoreSources ==
    {InRule(<<[text |-> <<"score", "int", "nl", "+", "int", "if">> \o Printed(c, "never")
                        \o <<"nl", "-", "int">>, broken |-> FALSE, short |-> FALSE]>>,
            [empty_rule("r") EXCEPT !.score = Node("score", <<Node("+", <<c>>), Node("-", <<None>>)>>)]) :
        c \in {A, Node("==", <<A, A>>)}}

=============================================================================
