----------------------------- MODULE RunMatrix ------------------------------
(***************************************************************************)
(* A whole run: Runner.Run's five checks in order, the concurrent check's  *)
(* trials, the report's summary and the process's exit code                *)
(* (internal/engine/scenarios.go and trials.go, internal/report/           *)
(* assemble.go, internal/cli/cli.go).                                      *)
(*                                                                         *)
(* A same-key check is what SameKeyCheck makes of it, seen from outside:   *)
(* a verdict, and whether its first collected status was a rejection.      *)
(* The two-request checks are evaluated on their outcomes.  Ctrl-C may     *)
(* come between any two steps.                                             *)
(***************************************************************************)
EXTENDS Evidence, Sequences

CONSTANT MaxTrials     \* the largest --trials of the model

ASSUME MaxTrialsAssumption == MaxTrials \in Nat \ {0}

Checks == {"seq2", "seqn", "concurrent", "payload", "distinct"}
CheckVerdicts == Verdicts \cup {"skip"}

VARIABLES
    stress,      \* --repeat is above 2
    hasBody,     \* the request has a body
    trials,      \* --trials
    phase,       \* the check that runs next, then "assemble", "exited"
    trial,       \* verdicts of the finished trials, in order
    results,     \* the emitted check results, "none" before
    ctxDone,     \* the run's context is cancelled
    exit,        \* the exit code, -1 while running
    touched,     \* history: checks that called the client
    proven       \* history: some same-key evaluation was a FAIL

vars == <<stress, hasBody, trials, phase, trial, results, ctxDone, exit,
          touched, proven>>

TypeOK ==
    /\ stress \in BOOLEAN /\ hasBody \in BOOLEAN
    /\ trials \in 1..MaxTrials
    /\ phase \in Checks \cup {"assemble", "exited"}
    /\ trial \in Seq(Verdicts) /\ Len(trial) <= trials
    /\ results \in [Checks -> CheckVerdicts \cup {"none"}]
    /\ ctxDone \in BOOLEAN
    /\ exit \in {-1, 0, 1, 2, 3}
    /\ touched \subseteq Checks
    /\ proven \in BOOLEAN

Init ==
    /\ stress \in BOOLEAN /\ hasBody \in BOOLEAN
    /\ trials \in 1..MaxTrials
    /\ phase = "seq2"
    /\ trial = <<>>
    /\ results = [c \in Checks |-> "none"]
    /\ ctxDone = FALSE
    /\ exit = -1
    /\ touched = {}
    /\ proven = FALSE

-----------------------------------------------------------------------------
(* A same-key check is one step that reports what CheckReport allows:      *)
(* anything, unless the run was cancelled before it, since then nothing    *)
(* answers.                                                                *)

Emit(c, v) == results' = [results EXCEPT ![c] = v]
Note(report) == proven' = (proven \/ report.verdict = "fail")
Touch(c) == touched' = touched \cup {c}

CheckSeq2_KeepsGoing ==
    /\ phase = "seq2"
    /\ \E report \in SameKeyReports(~ctxDone) :
          /\ IF report.rejected
             THEN results' = [c \in Checks |->
                                 IF c = "seq2" THEN "error" ELSE "skip"]
             ELSE Emit("seq2", report.verdict)
          /\ phase' = "seqn"
          /\ Note(report)
    /\ Touch("seq2")
    /\ UNCHANGED <<stress, hasBody, trials, trial, ctxDone, exit>>
\* Check 1.  A rejected baseline overrides the verdict and ends the run.
CheckSeq2 ==
    /\ phase = "seq2"
    /\ \E report \in SameKeyReports(~ctxDone) :
          /\ IF report.rejected
             THEN /\ results' = [c \in Checks |->
                                    IF c = "seq2" THEN "error" ELSE "skip"]
                  /\ phase' = "assemble"
             ELSE /\ Emit("seq2", report.verdict)
                  /\ phase' = "seqn"
          /\ Note(report)
    /\ Touch("seq2")
    /\ UNCHANGED <<stress, hasBody, trials, trial, ctxDone, exit>>

\* Check 2, or its SKIP when --repeat adds nothing to check 1.
CheckSeqN ==
    /\ phase = "seqn"
    /\ \/ /\ stress
          /\ \E report \in SameKeyReports(~ctxDone) :
                Emit("seqn", report.verdict) /\ Note(report)
          /\ Touch("seqn")
       \/ ~stress /\ Emit("seqn", "skip") /\ UNCHANGED <<touched, proven>>
    /\ phase' = "concurrent"
    /\ UNCHANGED <<stress, hasBody, trials, trial, ctxDone, exit>>

\* Check 3: one trial per step.
TrialsLeft_OneTooMany == Len(trial) <= trials
TrialsLeft == Len(trial) < trials
RunTrial ==
    /\ phase = "concurrent"
    /\ TrialsLeft
    /\ \E report \in SameKeyReports(~ctxDone) :
          trial' = Append(trial, report.verdict) /\ Note(report)
    /\ Touch("concurrent")
    /\ UNCHANGED <<stress, hasBody, trials, phase, results, ctxDone, exit>>

\* Concurrent saw ctx.Done at its gate: Run returns the error and the
\* command fails, results and all.
AbortTrial ==
    /\ phase = "concurrent"
    /\ TrialsLeft
    /\ ctxDone
    /\ phase' = "exited"
    /\ exit' = 2
    /\ UNCHANGED <<stress, hasBody, trials, trial, results, ctxDone, touched,
                   proven>>

Trials == {trial[t] : t \in DOMAIN trial}
Aggregate_Last == trial[Len(trial)]
Aggregate == CHOOSE v \in Trials : \A u \in Trials : Rank(u) <= Rank(v)

AggregateTrials ==
    /\ phase = "concurrent"
    /\ ~TrialsLeft
    /\ Emit("concurrent", Aggregate)
    /\ phase' = "payload"
    /\ UNCHANGED <<stress, hasBody, trials, trial, ctxDone, exit, touched, proven>>

\* Check 4.
CheckPayload ==
    /\ phase = "payload"
    /\ \/ /\ hasBody
          /\ \E ocA, ocB \in DoOutcomes(ctxDone) :
                Emit("payload", PayloadVerdict(ocA, ocB))
          /\ Touch("payload")
       \/ ~hasBody /\ Emit("payload", "skip") /\ UNCHANGED touched
    /\ phase' = "distinct"
    /\ UNCHANGED <<stress, hasBody, trials, trial, ctxDone, exit, proven>>

CheckDistinct_SkippedOnCancel ==
    /\ phase = "distinct"
    /\ \E ocA, ocB \in DoOutcomes(ctxDone) :
          Emit("distinct", IF ctxDone THEN "skip" ELSE ControlVerdict(ocA, ocB))
    /\ Touch("distinct")
    /\ phase' = "assemble"
    /\ UNCHANGED <<stress, hasBody, trials, trial, ctxDone, exit, proven>>
\* Check 5, the control.
CheckDistinct ==
    /\ phase = "distinct"
    /\ \E ocA, ocB \in DoOutcomes(ctxDone) :
          Emit("distinct", ControlVerdict(ocA, ocB))
    /\ Touch("distinct")
    /\ phase' = "assemble"
    /\ UNCHANGED <<stress, hasBody, trials, trial, ctxDone, exit, proven>>

-----------------------------------------------------------------------------
(* Assemble and the exit code.                                             *)

Has(v) == \E c \in Checks : results[c] = v

ExitCode == IF Has("fail") THEN 1
            ELSE IF Has("error") THEN 2
            ELSE IF Has("inconclusive") THEN 3 ELSE 0

\* The JSON report may fail to be written; then the command fails, whatever
\* the checks found.
Assemble ==
    /\ phase = "assemble"
    /\ exit' \in {ExitCode, 2}
    /\ phase' = "exited"
    /\ UNCHANGED <<stress, hasBody, trials, trial, results, ctxDone, touched,
                   proven>>

Cancel ==
    /\ ~ctxDone
    /\ phase # "exited"
    /\ ctxDone' = TRUE
    /\ UNCHANGED <<stress, hasBody, trials, phase, trial, results, exit,
                   touched, proven>>

Run ==
    \/ CheckSeq2 \/ CheckSeqN \/ RunTrial \/ AbortTrial \/ AggregateTrials
    \/ CheckPayload \/ CheckDistinct \/ Assemble

Exited == phase = "exited" /\ UNCHANGED vars

Next == Run \/ Cancel \/ Exited

Spec == Init /\ [][Next]_vars

-----------------------------------------------------------------------------
(* Properties.                                                             *)

\* Exit code 0 says every check that applied passed: the skipped ones are
\* those the configuration makes pointless, and each trial of the burst passed
\* ("Uncertainty never aggregates into a PASS").
PassIsComplete ==
    exit = 0 =>
        /\ \A c \in Checks :
              \/ results[c] = "pass"
              \/ c = "seqn" /\ ~stress
              \/ c = "payload" /\ ~hasBody
        /\ Len(trial) = trials /\ Trials = {"pass"}

\* A run that is cancelled before its control check is over never exits 0,
\* although single checks of it may have passed on fewer requests than asked:
\* the control check cannot get its two answers any more.
InterruptedRunNeverPasses ==
    [](ctxDone /\ phase \in Checks => [](exit # 0))

\* After a rejected baseline no other check sends anything, and the run is an
\* execution failure ("instead of hammering a broken setup").
RejectionStopsTheRun ==
    (\E c \in Checks \ {"seqn", "payload"} : results[c] = "skip") =>
        /\ touched = {"seq2"}
        /\ exit \in {-1, 2}

\* "a proven violation outranks an execution error" (Assemble): a FAIL that an
\* evaluation proved decides the exit code.
ProvenViolationDecides == exit # -1 /\ proven => exit = 1

=============================================================================
