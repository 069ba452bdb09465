---------------------------- MODULE OilCompiler ----------------------------
(***************************************************************************)
(* oilc as a whole: a project of source units in, one runtime artifact out *)
(* (oilc/src/lib.rs and oilc/src/main.rs).                                 *)
(*                                                                         *)
(* A unit is [id, parses, imports, sets, predicates, facts, rules]; ids    *)
(* are the numbers of the sorted file list.  `parses` is FALSE for a unit  *)
(* the lexer or the parser rejects.                                        *)
(***************************************************************************)
EXTENDS OilLowering, OilChecks
LOCAL INSTANCE Integers
LOCAL INSTANCE Sequences
LOCAL INSTANCE FiniteSets
LOCAL INSTANCE SequencesExt
LOCAL INSTANCE Functions

DefaultConfig == [run_resolver |-> TRUE, run_typecheck |-> TRUE, run_mir |-> TRUE,
                  run_codegen |-> TRUE, fail_on_resolve_warning |-> FALSE,
                  fail_on_type_warning |-> FALSE, fail_on_mir_warning |-> FALSE]

(* The names a project's units make visible to one another. *)
build_global_symbols(units) ==
  LET names(defs) == {d.name : d \in Range(defs)}
      all(F(_)) == UNION {F(u) : u \in Range(units)}
      Sets(u) == names(u.sets)
      Predicates(u) == names(u.predicates)
      Facts(u) == names(u.facts)
                    \cup UNION {{m.fact : m \in Range(r.emit)} : r \in Range(u.rules)}
  IN [sets |-> all(Sets), predicates |-> all(Predicates), facts |-> all(Facts)]

build_project_definitions(units) ==
  [sets |-> FoldLeft(LAMBDA acc, u : acc \o u.sets, <<>>, units),
   predicates |-> FoldLeft(LAMBDA acc, u : acc \o u.predicates, <<>>, units)]

(* Standard definitions first, then the project's, then the unit's own:    *)
(* the last definition of a name is the one that counts.                   *)
LoweringProgram(unit, project) ==
  [sets |-> Prelude.sets \o project.sets \o unit.sets,
   predicates |-> Prelude.predicates \o project.predicates \o unit.predicates,
   rules |-> unit.rules]

(* The phases report; an error, or a warning where the configuration says  *)
(* so, fails the unit.  Without an error in its MIR it has runtime code.   *)
Finalized(unit, resolved, typed, mir, checked, config) ==
  LET failing(found, strict) == {d[1] : d \in {x \in found : x[2] = "Error" \/ strict}}
  IN [id |-> unit.id, parsed |-> TRUE,
      runtime_ir |-> IF mir = None \/ \E d \in checked : d[2] = "Error" THEN None
                     ELSE <<"Program", lower_runtime_program(mir[2])>>,
      errors |-> {<<"resolve", d[1]>> : d \in
                    {x \in resolved : config.fail_on_resolve_warning}}
           \cup {<<"typecheck", d>> : d \in failing(typed, config.fail_on_type_warning)}
           \cup {<<"mir", d>> : d \in failing(checked, config.fail_on_mir_warning)},
      typed |-> typed]

finalize_unit(unit, globals, project, config) ==
  LET Lowered(mir) ==
        Finalized(unit,
                  IF config.run_resolver THEN resolve_program_with_globals(unit, globals) ELSE {},
                  IF config.run_typecheck THEN typecheck_program(unit) ELSE {},
                  mir, IF mir = None THEN {} ELSE validate_program(mir[2]), config)
  IN Lowered(IF config.run_mir \/ config.run_codegen
             THEN <<"Mir", lower_program(LoweringProgram(unit, project))>> ELSE None)

(* A unit that does not parse fails alone; the others are compiled without *)
(* its definitions.                                                        *)
compile_many(units, config) ==
  LET parsed == SelectSeq(units, LAMBDA u : u.parses)
      globals == build_global_symbols(parsed)
      project == build_project_definitions(parsed)
  IN [i \in DOMAIN units |->
        IF units[i].parses THEN finalize_unit(units[i], globals, project, config)
        ELSE [id |-> units[i].id, parsed |-> FALSE, runtime_ir |-> None,
              errors |-> {<<"parse", "error">>}, typed |-> {}]]

(* The artifact holds the units that compiled, whatever became of the      *)
(* others.                                                                 *)
write_runtime_ir_artifact(results) ==
  LET ok == SelectSeq(results, LAMBDA r : r.errors = {} /\ r.runtime_ir # None)
  IN [i \in DOMAIN ok |-> [id |-> ok[i].id, rules |-> ok[i].runtime_ir[2]]]

============================================================================
