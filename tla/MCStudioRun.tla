---------------------------- MODULE MCStudioRun ----------------------------
(* TLC instance of StudioRun: eight ways for a run to end, and the calls   *)
(* that fail one at a time, all together, or by exception.                 *)
EXTENDS StudioRun

CONSTANTS lineA, lineB

(* The steps of the orchestrator's log that the panels tell apart, in the  *)
(* order of their first record, each with the status of its last.          *)
Log(entries) ==
    {[id |-> i, name |-> entries[i][1], status |-> entries[i][2]] :
       i \in DOMAIN entries}

(* A parity run: the steps of the build after the runner's own words on    *)
(* build, execution and comparison.                                        *)
ParityLog(build, execution, comparison) ==
    Log(<<<<"generate-java", "ok">>, <<"source-reference-execution", "ok">>,
          <<"java-build", build>>, <<"compile-test-java", "ok">>,
          <<"java-execution", execution>>, <<"parity-comparison", comparison>>,
          <<"parity-evidence-capture", "ok">>, <<"write-evidence", "ok">>>>)

RepairLog ==
    Log(<<<<"generate-java", "ok">>, <<"transformation-agent", "ok">>,
          <<"compile-test-java", "ok">>, <<"verification-repair-agent", "ok">>,
          <<"model-policy-skipped", "skipped">>, <<"write-evidence", "ok">>>>)

Success ==
    [stored   |-> [trust |-> "parity_passed", parity |-> TRUE,
                   trustCase |-> 1, profile |-> 1, policy |-> 1,
                   normalized |-> 1, repair |-> 0],
     gen      |-> [missing |-> {}, runStatus |-> "completed",
                   placeholder |-> FALSE, ref |-> 1, source |-> 1,
                   unsupported |-> {}],
     files    |-> [status |-> "complete", missing |-> {}, files |-> {"Main"},
                   ref |-> 1],
     bt       |-> [missing |-> {}, runStatus |-> "completed", status |-> "ok",
                   classification |-> "match", build |-> "ok",
                   execution |-> "ok", matched |-> TRUE, diffRef |-> Null,
                   expected |-> <<lineA>>, actual |-> <<lineA>>, legacyRef |-> Null,
                   resultRef |-> 1, ref |-> 1],
     ev       |-> [missing |-> {}, validation |-> "valid",
                   validationMissing |-> {}, manifest |-> Null,
                   exports |-> <<>>, ref |-> 1, carriedOver |-> FALSE,
                   drift |-> 0],
     artifacts |-> [artifacts |-> {1}],
     progress |-> [missing |-> {}, runStatus |-> "completed",
                   steps |-> ParityLog("ok", "ok", "ok")],
     workflow |-> [final |-> "success", failure |-> Null, agent |-> Null,
                   repairs |-> 0, trust |-> "parity_passed"]]

(* The same run from another source, which another Java came of.  The      *)
(* runner answered with its verdict alone: without words on the execution  *)
(* and the comparison the orchestrator records both steps as failed.       *)
OtherSource ==
    [Success EXCEPT !.gen.source = 2, !.gen.ref = 2, !.files.ref = 2,
                    !.bt.ref = 2, !.ev.ref = 2, !.bt.actual = <<lineB>>,
                    !.bt.expected = <<lineB>>,
                    !.bt.build = Null, !.bt.execution = Null,
                    !.progress.steps = ParityLog("ok", "failed", "failed")]

(* A run without a reference to compare with, whose first candidate did    *)
(* not pass and was repaired.                                              *)
Repaired ==
    [Success EXCEPT !.stored.trust = Null, !.stored.parity = FALSE,
                    !.stored.normalized = Null, !.stored.repair = 1,
                    !.bt.matched = Null, !.bt.resultRef = Null,
                    !.progress.steps = RepairLog,
                    !.workflow.repairs = 1, !.workflow.trust = Null]

Divergent ==
    [Success EXCEPT !.stored.trust = "parity_failed",
                    !.bt.status = "output-divergence",
                    !.bt.classification = "divergence-unknown",
                    !.bt.actual = <<lineB>>, !.bt.matched = FALSE,
                    !.progress.runStatus = "failed",
                    !.progress.steps = ParityLog("ok", "ok", "failed"),
                    !.workflow.final = "failed",
                    !.workflow.failure = "oracle_mismatch",
                    !.workflow.trust = "parity_failed"]

(* The oracle was not there: no status the BFF knows. *)
NoOracle ==
    [Success EXCEPT !.bt.status = "oracle-unavailable",
                    !.bt.classification = "oracle-unavailable",
                    !.workflow.final = "blocked"]

Placeholder == [Success EXCEPT !.gen.placeholder = TRUE]

(* The evidence is about another artefact than the one on show. *)
Mixed == [Success EXCEPT !.ev.ref = 2]

(* The index of the generated project lacks a file. *)
MissingFile ==
    [Success EXCEPT !.files.status = "incomplete",
                    !.files.missing = {"generated-project"}]

Ends(status, art) == [status |-> status, art |-> art]

OutcomesSmall ==
    <<{Ends("completed", Success), Ends("failed", Divergent)},
      {Ends("completed", OtherSource), Ends("completed", Repaired),
       Ends("completed", Placeholder),
       Ends("completed", MissingFile), Ends("completed", Mixed),
       Ends("completed", NoOracle)}>>

AllCalls == {"gen", "files", "bt", "ev", "progress", "workflow", "artifacts"}
Outage(failing, throws) == [calls |-> failing, throws |-> throws]

OutagesSmall ==
    {Outage({}, FALSE), Outage(AllCalls, FALSE),
     Outage({"gen", "files", "artifacts", "workflow"}, TRUE)}

OutputsSmall == UNION {[1 .. n -> {lineA, lineB}] : n \in 0 .. 3}
=============================================================================
