-------------------------- MODULE RunMatrixProofs ---------------------------
(***************************************************************************)
(* The safety of a run, for every number of trials, every policy and every *)
(* set of answers.                                                         *)
(*                                                                         *)
(* The invariant follows the order of the checks: whoever has been passed  *)
(* has left a verdict, or a SKIP the configuration allows; or else the     *)
(* baseline was rejected and nothing but check 1 was touched.              *)
(***************************************************************************)
EXTENDS RunMatrix, TLAPS

-----------------------------------------------------------------------------
(* Verdicts.                                                               *)

\* The two-request checks give one of the four verdicts.
LEMMA TwoRequestVerdicts ==
    ASSUME NEW ocA, NEW ocB
    PROVE  PayloadVerdict(ocA, ocB) \in Verdicts /\ ControlVerdict(ocA, ocB) \in Verdicts
  BY DEF PayloadVerdict, ControlVerdict, Verdicts

\* So does a same-key check.
LEMMA SameKeyReportVerdicts ==
    ASSUME NEW c, NEW report \in SameKeyReports(c)
    PROVE  report.verdict \in Verdicts
  <1>1. CASE report = [verdict |-> "error", rejected |-> FALSE]
    BY <1>1 DEF Verdicts
  <1>2. CASE report \in [verdict : Verdicts \ {"error"}, rejected : BOOLEAN]
    BY <1>2
  <1> QED
    BY <1>1, <1>2 DEF SameKeyReports

\* Nothing answers a control request whose context is done.
LEMMA CancelledControl ==
    ASSUME NEW ocA \in DoOutcomes(TRUE), NEW ocB \in DoOutcomes(TRUE)
    PROVE  ControlVerdict(ocA, ocB) = "error"
  BY DEF DoOutcomes, NoResponse, ControlVerdict

\* Trials has a most decisive verdict, and Aggregate is it.
LEMMA AggregateIsMaximal ==
    ASSUME Trials \subseteq Verdicts, Trials # {}
    PROVE  Aggregate \in Trials /\ \A u \in Trials : Rank(u) <= Rank(Aggregate)
  <1>1. \E v \in Trials : \A u \in Trials : Rank(u) <= Rank(v)
    <2>1. CASE "fail" \in Trials
      BY <2>1 DEF Rank, Verdicts
    <2>2. CASE "fail" \notin Trials /\ "error" \in Trials
      BY <2>2 DEF Rank, Verdicts
    <2>3. CASE Trials \cap {"fail", "error"} = {} /\ "inconclusive" \in Trials
      BY <2>3 DEF Rank, Verdicts
    <2>4. CASE Trials \cap {"fail", "error", "inconclusive"} = {}
      BY <2>4 DEF Rank, Verdicts
    <2> QED
      BY <2>1, <2>2, <2>3, <2>4
  <1> QED
    BY <1>1 DEF Aggregate

\* The trials aggregate to PASS only if each of them is one.
LEMMA AggregatePass ==
    ASSUME Trials \subseteq Verdicts, Trials # {}, Aggregate = "pass"
    PROVE  Trials = {"pass"}
  <1>1. \A u \in Trials : Rank(u) <= 0
    BY AggregateIsMaximal DEF Rank
  <1>2. \A u \in Trials : u = "pass"
    BY <1>1 DEF Rank, Verdicts
  <1> QED
    BY <1>2

-----------------------------------------------------------------------------
(* The inductive invariant.                                                *)

Rejected ==
    /\ results = [c \in Checks |-> IF c = "seq2" THEN "error" ELSE "skip"]
    /\ touched = {"seq2"}
    /\ phase \in {"assemble", "exited"}

\* What each check leaves behind.
LeftSeqN ==
    \/ results["seqn"] \in Verdicts
    \/ ~stress /\ results["seqn"] = "skip"
LeftConcurrent ==
    /\ Len(trial) = trials
    /\ results["concurrent"] = Aggregate /\ Aggregate \in Verdicts
    /\ Aggregate = "pass" => Trials = {"pass"}
LeftPayload ==
    \/ results["payload"] \in Verdicts
    \/ ~hasBody /\ results["payload"] = "skip"

Passed ==
    /\ phase = "seq2" => touched = {} /\ results = [c \in Checks |-> "none"]
    /\ phase \in {"seqn", "concurrent", "payload", "distinct", "assemble"} =>
          results["seq2"] \in Verdicts
    /\ phase \in {"concurrent", "payload", "distinct", "assemble"} => LeftSeqN
    /\ phase \in {"payload", "distinct", "assemble"} => LeftConcurrent
    /\ phase \in {"distinct", "assemble"} => LeftPayload
    /\ phase = "assemble" => results["distinct"] \in Verdicts
    /\ \A c \in Checks \ {"seqn", "payload"} : results[c] # "skip"

Exit == exit # -1 <=> phase = "exited"

Inv ==
    /\ TypeOK
    /\ Exit
    /\ Rejected \/ Passed
    /\ Rejected => exit \in {-1, 2}
    /\ PassIsComplete

LEMMA InitInv == Init => Inv
  <1> SUFFICES ASSUME Init PROVE Inv
    OBVIOUS
  <1>1. trial \in Seq(Verdicts) /\ Len(trial) = 0
    BY DEF Init
  <1>2. TypeOK
    <2>1. stress \in BOOLEAN /\ hasBody \in BOOLEAN /\ ctxDone \in BOOLEAN
          /\ proven \in BOOLEAN
      BY Zenon DEF Init
    <2>2. trials \in 1..MaxTrials /\ trial \in Seq(Verdicts) /\ Len(trial) <= trials
      BY <1>1, MaxTrialsAssumption DEF Init
    <2>3. phase \in Checks /\ results \in [Checks -> CheckVerdicts \cup {"none"}]
          /\ exit \in {-1, 0, 1, 2, 3} /\ touched \subseteq Checks
      BY DEF Init, Checks
    <2> QED
      BY <2>1, <2>2, <2>3 DEF TypeOK
  <1>3. Passed
    BY DEF Init, Passed, Checks
  <1> QED
    BY <1>2, <1>3 DEF Init, Inv, Exit, PassIsComplete

\* A check that is not check 1 leaves the rejected case behind: it emits one
\* verdict and moves on.
LEMMA NextInv == Inv /\ [Next]_vars => Inv'
  <1> SUFFICES ASSUME Inv, [Next]_vars PROVE Inv'
    OBVIOUS
  <1> USE DEF Inv, TypeOK, Exit, Checks, CheckVerdicts
  <1>a. \A report \in SameKeyReports(~ctxDone) : report.verdict \in Verdicts
    BY SameKeyReportVerdicts
  <1>1. ASSUME CheckSeq2 PROVE Inv'
    <2>1. PICK report \in SameKeyReports(~ctxDone) :
             /\ IF report.rejected
                THEN /\ results' = [c \in Checks |->
                                       IF c = "seq2" THEN "error" ELSE "skip"]
                     /\ phase' = "assemble"
                ELSE /\ Emit("seq2", report.verdict)
                     /\ phase' = "seqn"
             /\ Note(report)
      BY <1>1 DEF CheckSeq2
    <2>2. report.verdict \in Verdicts
      BY <2>1, <1>a
    <2>3. proven' \in BOOLEAN
      BY <2>1, Zenon DEF Note
    <2>4. touched' = {"seq2"} /\ exit' = -1 /\ trial' = trial /\ trials' = trials
          /\ Passed /\ phase = "seq2"
      BY <1>1 DEF CheckSeq2, Touch, Passed, Rejected
    <2>5. CASE report.rejected
      <3>1. Rejected' /\ results' \in [Checks -> CheckVerdicts \cup {"none"}]
        BY <2>1, <2>4, <2>5 DEF Rejected, Verdicts
      <3> QED
        BY <1>1, <2>1, <2>3, <2>4, <2>5, <3>1 DEF CheckSeq2, PassIsComplete, Rejected
    <2>6. CASE ~report.rejected
      <3>1. results' = [results EXCEPT !["seq2"] = report.verdict] /\ phase' = "seqn"
        BY <2>1, <2>6 DEF Emit
      <3>2. Passed'
        BY <2>2, <2>4, <3>1 DEF Passed, Verdicts
      <3>3. results' \in [Checks -> CheckVerdicts \cup {"none"}] /\ ~Rejected'
        BY <2>2, <3>1 DEF Rejected
      <3> QED
        BY <1>1, <2>3, <2>4, <3>1, <3>2, <3>3 DEF CheckSeq2, PassIsComplete
    <2> QED
      BY <2>5, <2>6
  <1>2. ASSUME CheckSeqN PROVE Inv'
    <2>1. PICK v \in CheckVerdicts :
             /\ results' = [results EXCEPT !["seqn"] = v]
             /\ v \in Verdicts \/ (~stress /\ v = "skip")
      <3>1. CASE stress
        <4>1. PICK report \in SameKeyReports(~ctxDone) : Emit("seqn", report.verdict)
          BY <1>2, <3>1 DEF CheckSeqN
        <4>2. report.verdict \in Verdicts
          BY <1>a
        <4>3. results' = [results EXCEPT !["seqn"] = report.verdict]
          BY <4>1 DEF Emit
        <4>4. report.verdict \in CheckVerdicts
          BY <4>2
        <4> QED
          <5>1. WITNESS report.verdict \in CheckVerdicts
          <5> QED
            BY <4>2, <4>3
      <3>2. CASE ~stress
        BY <1>2, <3>2 DEF CheckSeqN, Emit
      <3> QED
        BY <3>1, <3>2
    <2>a. touched' \subseteq Checks
      BY <1>2 DEF CheckSeqN, Touch
    <2>b. proven' \in BOOLEAN
      BY <1>2, Zenon DEF CheckSeqN, Note
    <2>2. phase = "seqn" /\ Passed /\ ~Rejected
      BY <1>2 DEF CheckSeqN, Rejected
    <2>3. phase' = "concurrent" /\ exit' = exit /\ exit = -1 /\ stress' = stress
          /\ hasBody' = hasBody /\ trial' = trial /\ trials' = trials /\ ctxDone' = ctxDone
      BY <1>2, <2>2 DEF CheckSeqN
    <2>4. Passed'
      BY <2>1, <2>2, <2>3 DEF Passed, LeftSeqN
    <2> QED
      BY <2>1, <2>a, <2>b, <2>2, <2>3, <2>4 DEF Rejected, PassIsComplete
  <1>3. ASSUME RunTrial PROVE Inv'
    <2>1. PICK report \in SameKeyReports(~ctxDone) :
             trial' = Append(trial, report.verdict) /\ Note(report)
      BY <1>3 DEF RunTrial
    <2>2. report.verdict \in Verdicts /\ proven' \in BOOLEAN
      <3>1. report.verdict \in Verdicts
        BY <2>1, <1>a
      <3>2. proven' \in BOOLEAN
        BY <2>1, Zenon DEF Note
      <3> QED
        BY <3>1, <3>2
    <2>3. trial' \in Seq(Verdicts) /\ Len(trial') = Len(trial) + 1
      BY <2>1, <2>2
    <2>4. phase = "concurrent" /\ phase' = phase /\ exit' = exit /\ results' = results
          /\ stress' = stress /\ hasBody' = hasBody /\ trials' = trials
          /\ ctxDone' = ctxDone /\ touched' \subseteq Checks /\ Len(trial) < trials
      BY <1>3 DEF RunTrial, Touch, TrialsLeft
    <2>5. Passed'
      BY <2>4 DEF Passed, LeftSeqN, Rejected
    <2> QED
      BY <2>2, <2>3, <2>4, <2>5 DEF Rejected, PassIsComplete
  <1>4. ASSUME AbortTrial PROVE Inv'
    <2>1. Passed /\ ~Rejected
      BY <1>4 DEF AbortTrial, Rejected
    <2>2. Passed'
      BY <1>4, <2>1 DEF AbortTrial, Passed
    <2> QED
      BY <1>4, <2>1, <2>2 DEF AbortTrial, Rejected, PassIsComplete
  <1>5. ASSUME AggregateTrials PROVE Inv'
    <2>1. phase = "concurrent" /\ Passed /\ ~Rejected /\ Len(trial) = trials
      BY <1>5 DEF AggregateTrials, Rejected, TrialsLeft
    <2>2. Trials \subseteq Verdicts /\ Trials # {}
      <3>1. DOMAIN trial = 1..trials /\ 1 \in 1..trials
        BY <2>1
      <3>2. \A t \in DOMAIN trial : trial[t] \in Verdicts
        OBVIOUS
      <3> QED
        BY <3>1, <3>2 DEF Trials
    <2>3. Aggregate \in Verdicts /\ (Aggregate = "pass" => Trials = {"pass"})
      BY <2>2, AggregateIsMaximal, AggregatePass
    <2>4. results' = [results EXCEPT !["concurrent"] = Aggregate] /\ phase' = "payload"
          /\ trial' = trial /\ trials' = trials /\ exit' = exit /\ exit = -1
          /\ stress' = stress /\ hasBody' = hasBody /\ ctxDone' = ctxDone
          /\ touched' = touched /\ proven' = proven
      BY <1>5, <2>1 DEF AggregateTrials, Emit
    <2>5. Aggregate' = Aggregate /\ Trials' = Trials
      BY <2>4 DEF Aggregate, Trials
    <2>6. LeftConcurrent'
      BY <2>1, <2>3, <2>4, <2>5 DEF LeftConcurrent
    <2>7. Passed'
      BY <2>1, <2>3, <2>4, <2>6 DEF Passed, LeftSeqN, Verdicts
    <2> QED
      BY <2>1, <2>3, <2>4, <2>7 DEF Rejected, PassIsComplete
  <1>6. ASSUME CheckPayload PROVE Inv'
    <2>1. PICK v \in CheckVerdicts :
             /\ results' = [results EXCEPT !["payload"] = v]
             /\ v \in Verdicts \/ (~hasBody /\ v = "skip")
      <3>1. CASE hasBody
        <4>1. PICK ocA, ocB \in DoOutcomes(ctxDone) :
                 results' = [results EXCEPT !["payload"] = PayloadVerdict(ocA, ocB)]
          BY <1>6, <3>1 DEF CheckPayload, Emit
        <4>2. PayloadVerdict(ocA, ocB) \in Verdicts
          BY TwoRequestVerdicts
        <4>3. PayloadVerdict(ocA, ocB) \in CheckVerdicts
          BY <4>2
        <4> QED
          <5>1. WITNESS PayloadVerdict(ocA, ocB) \in CheckVerdicts
          <5> QED
            BY <4>1, <4>2
      <3>2. CASE ~hasBody
        BY <1>6, <3>2 DEF CheckPayload, Emit
      <3> QED
        BY <3>1, <3>2
    <2>a. touched' \subseteq Checks
      BY <1>6 DEF CheckPayload, Touch
    <2>2. phase = "payload" /\ Passed /\ ~Rejected
      BY <1>6 DEF CheckPayload, Rejected
    <2>3. phase' = "distinct" /\ exit' = exit /\ exit = -1 /\ stress' = stress
          /\ hasBody' = hasBody /\ trial' = trial /\ trials' = trials
          /\ ctxDone' = ctxDone /\ proven' = proven
      BY <1>6, <2>2 DEF CheckPayload
    <2>4. Aggregate' = Aggregate /\ Trials' = Trials
      BY <2>3 DEF Aggregate, Trials
    <2>5. Passed'
      BY <2>1, <2>2, <2>3, <2>4 DEF Passed, LeftSeqN, LeftConcurrent, LeftPayload
    <2> QED
      BY <2>1, <2>a, <2>2, <2>3, <2>5 DEF Rejected, PassIsComplete
  <1>7. ASSUME CheckDistinct PROVE Inv'
    <2>1. PICK v \in Verdicts : results' = [results EXCEPT !["distinct"] = v]
      BY <1>7, TwoRequestVerdicts DEF CheckDistinct, Emit
    <2>2. phase = "distinct" /\ Passed /\ ~Rejected
      BY <1>7 DEF CheckDistinct, Rejected
    <2>3. phase' = "assemble" /\ exit' = exit /\ exit = -1 /\ stress' = stress
          /\ hasBody' = hasBody /\ trial' = trial /\ trials' = trials
          /\ ctxDone' = ctxDone /\ proven' = proven /\ touched' \subseteq Checks
      BY <1>7, <2>2 DEF CheckDistinct, Touch
    <2>4. Aggregate' = Aggregate /\ Trials' = Trials
      BY <2>3 DEF Aggregate, Trials
    <2>5. Passed'
      BY <2>1, <2>2, <2>3, <2>4
         DEF Passed, LeftSeqN, LeftConcurrent, LeftPayload, Verdicts
    <2> QED
      BY <2>1, <2>2, <2>3, <2>5 DEF Rejected, PassIsComplete
  <1>8. ASSUME Assemble PROVE Inv'
    <2>1. phase' = "exited" /\ exit' \in {0, 1, 2, 3} /\ results' = results
          /\ trial' = trial /\ trials' = trials /\ stress' = stress
          /\ hasBody' = hasBody /\ touched' = touched /\ ctxDone' = ctxDone
          /\ proven' = proven /\ phase = "assemble"
      BY <1>8 DEF Assemble, ExitCode
    <2>2. CASE Rejected
      <3>1. Has("error") /\ ~Has("fail")
        BY <2>2 DEF Has, Rejected
      <3>2. exit' = 2 /\ Rejected'
        BY <1>8, <2>1, <2>2, <3>1 DEF Assemble, ExitCode, Rejected
      <3> QED
        BY <2>1, <3>2 DEF PassIsComplete
    <2>3. CASE ~Rejected
      <3>1. Passed /\ Passed' /\ ~Rejected'
        BY <2>1, <2>3 DEF Passed, Rejected
      <3>2. ASSUME exit' = 0
            PROVE  \A c \in Checks : results[c] \notin {"fail", "error", "inconclusive"}
        BY <1>8, <3>2 DEF Assemble, ExitCode, Has
      <3>3. Trials' = Trials
        BY <2>1 DEF Trials
      <3>4. PassIsComplete'
        BY <2>1, <3>1, <3>2, <3>3
           DEF PassIsComplete, Passed, LeftSeqN, LeftConcurrent, LeftPayload, Verdicts
      <3> QED
        BY <2>1, <3>1, <3>4
    <2> QED
      BY <2>2, <2>3
  <1>9. ASSUME Cancel PROVE Inv'
    <2>1. Aggregate' = Aggregate /\ Trials' = Trials
      BY <1>9 DEF Cancel, Aggregate, Trials
    <2> QED
      BY <1>9, <2>1 DEF Cancel, Passed, Rejected, LeftSeqN, LeftConcurrent,
                        LeftPayload, PassIsComplete
  <1>10. ASSUME UNCHANGED vars PROVE Inv'
    <2>1. Aggregate' = Aggregate /\ Trials' = Trials
      BY <1>10 DEF vars, Aggregate, Trials
    <2> QED
      BY <1>10, <2>1 DEF vars, Passed, Rejected, LeftSeqN, LeftConcurrent,
                         LeftPayload, PassIsComplete
  <1> QED
    BY <1>1, <1>2, <1>3, <1>4, <1>5, <1>6, <1>7, <1>8, <1>9, <1>10
       DEF Next, Run, Exited

LEMMA Invariance == Spec => []Inv
  BY InitInv, NextInv, PTL DEF Spec

-----------------------------------------------------------------------------
(* The theorems.                                                           *)

\* Every state of a run is well typed.
THEOREM TypeCorrect == Spec => []TypeOK
  BY Invariance, PTL DEF Inv

\* Exit code 0 is given for complete evidence only, whatever the endpoint
\* answers and however many trials there are (Assemble and aggregateTrials).
THEOREM ExitZeroIsComplete == Spec => []PassIsComplete
  BY Invariance, PTL DEF Inv

\* After a rejected baseline nothing else is sent, and the run is a failure.
THEOREM RejectionStops == Spec => []RejectionStopsTheRun
  <1>1. Inv => RejectionStopsTheRun
    BY DEF Inv, TypeOK, Passed, Rejected, RejectionStopsTheRun, Checks
  <1> QED
    BY <1>1, Invariance, PTL

-----------------------------------------------------------------------------
(* The interrupted run.                                                    *)

\* A run cancelled during its checks: one of them is still to come, or has
\* erred, or the run was given up.
Doomed ==
    /\ ctxDone /\ exit # 0
    /\ phase \in Checks \/ Has("error") \/ phase = "exited"

LEMMA DoomedStep == Inv /\ Doomed /\ [Next]_vars => Doomed'
  <1> SUFFICES ASSUME Inv, Doomed, [Next]_vars PROVE Doomed'
    OBVIOUS
  <1> USE DEF Checks
  <1>1. results \in [Checks -> CheckVerdicts \cup {"none"}] /\ Exit /\ ctxDone
    BY DEF Inv, TypeOK, Doomed
  <1>2. ASSUME CheckSeq2 PROVE Doomed'
    BY <1>1, <1>2 DEF CheckSeq2, Doomed, Has, Exit
  <1>3. ASSUME \/ CheckSeqN \/ RunTrial \/ AggregateTrials \/ CheckPayload
        PROVE  Doomed'
    BY <1>1, <1>3 DEF CheckSeqN, RunTrial, AggregateTrials, CheckPayload, Doomed, Exit
  <1>4. ASSUME AbortTrial PROVE Doomed'
    BY <1>1, <1>4 DEF AbortTrial, Doomed
  <1>5. ASSUME CheckDistinct PROVE Doomed'
    <2>1. PICK ocA, ocB \in DoOutcomes(TRUE) :
             results' = [results EXCEPT !["distinct"] = ControlVerdict(ocA, ocB)]
      BY <1>1, <1>5 DEF CheckDistinct, Emit
    <2>2. results'["distinct"] = "error"
      BY <1>1, <2>1, CancelledControl
    <2> QED
      BY <1>1, <1>5, <2>2 DEF CheckDistinct, Doomed, Has, Exit
  <1>6. ASSUME Assemble PROVE Doomed'
    <2>1. Has("error") /\ phase = "assemble"
      BY <1>6 DEF Assemble, Doomed
    <2> QED
      BY <1>1, <1>6, <2>1 DEF Assemble, ExitCode, Doomed
  <1>7. ASSUME \/ Cancel \/ UNCHANGED vars PROVE Doomed'
    BY <1>1, <1>7 DEF Cancel, vars, Doomed, Has
  <1> QED
    BY <1>2, <1>3, <1>4, <1>5, <1>6, <1>7 DEF Next, Run, Exited

\* Once the context is done while checks remain, the exit code is never 0: the
\* control check, the last one, gets no answer any more (Run, doRequest).
THEOREM InterruptedNeverPasses == Spec => InterruptedRunNeverPasses
  <1>1. Inv /\ ctxDone /\ phase \in Checks => Doomed
    BY DEF Inv, Exit, Doomed, Checks
  <1>2. Doomed => exit # 0
    BY DEF Doomed
  <1> QED
    BY <1>1, <1>2, Invariance, DoomedStep, PTL DEF Spec, InterruptedRunNeverPasses

=============================================================================
