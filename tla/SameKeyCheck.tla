---------------------------- MODULE SameKeyCheck ----------------------------
(***************************************************************************)
(* One same-key check of the engine, from its first request to its verdict *)
(* (internal/engine: Sequential, the part of Concurrent after the barrier, *)
(* collect, finalizeSameKey, settleAndReplay and evaluateSameKey).         *)
(*                                                                         *)
(*   send | gate -> burst   N requests with one idempotency key            *)
(*   collect                outcomes are folded in slot order              *)
(*   finalize               is a REPLAY worth running?                     *)
(*   replay -> classify     one replay attempt, then retry or merge        *)
(*   evaluate -> done       the verdict                                    *)
(*   aborted                the burst was cancelled at its gate            *)
(*                                                                         *)
(* The workers of a burst answer in any order, the context may be          *)
(* cancelled between any two steps, and the replay deadline may pass at    *)
(* any moment of the REPLAY phase.  The barrier itself is BarrierBurst.    *)
(***************************************************************************)
EXTENDS Evidence, FiniteSets

CONSTANTS
    N,              \* requests of the check (2, --repeat or --concurrency)
    MaxAttempts     \* replayMaxAttempts

ASSUME NAssumption == N \in Nat \ {0}
ASSUME MaxAttemptsAssumption == MaxAttempts \in Nat \ {0}

VARIABLES
    concurrent,   \* which check this is: a burst (which always replays) or not
    pc,           \* where the check is
    outs,         \* the outcome slots, in worker or request order
    next,         \* the slot collect folds next
    res,          \* the CheckResult
    pending,      \* the replay answer being classified
    attempts,     \* ReplayInfo.Attempts
    replay,       \* how the replay ended
    ctxDone,      \* the run's context is cancelled
    late,         \* the replay deadline has passed
    verdict,      \* CheckResult.Status, "none" before it is set
    answers       \* history: every readable answer the client received

vars == <<concurrent, pc, outs, next, res, pending, attempts, replay,
          ctxDone, late, verdict, answers>>

Slots == 1..N
Unsent == [kind |-> "unsent"]

\* What the history keeps of an answer.
Receive(oc) ==
    answers' = answers \cup (IF oc.kind = "response" THEN {FingerprintOf(oc)}
                                                     ELSE {})

TypeOK ==
    /\ concurrent \in BOOLEAN
    /\ pc \in {"gate", "send", "burst", "collect", "finalize", "replay",
               "classify", "evaluate", "done", "aborted"}
    /\ outs \in [Slots -> Outcomes \cup {Unsent}]
    /\ next \in 1..(N + 1)
    /\ res \in Results
    /\ pending \in Outcomes \cup {Unsent}
    /\ attempts \in 0..MaxAttempts
    /\ replay \in Replays
    /\ ctxDone \in BOOLEAN
    /\ late \in BOOLEAN
    /\ verdict \in Verdicts \cup {"none"}
    /\ answers \subseteq Fingerprints

Init ==
    /\ concurrent \in BOOLEAN
    /\ pc = IF concurrent THEN "gate" ELSE "send"
    /\ outs = [i \in Slots |-> Unsent]
    /\ next = 1
    /\ res = EmptyResult
    /\ pending = Unsent
    /\ attempts = 0
    /\ replay = "none"
    /\ ctxDone = FALSE
    /\ late = FALSE
    /\ verdict = "none"
    /\ answers = {}

-----------------------------------------------------------------------------
(* Sequential: request k+1 starts after request k was answered, and only   *)
(* while the context is live.                                              *)

SendNext(i) ==
    /\ pc = "send"
    /\ ~ctxDone
    /\ outs[i] = Unsent
    /\ \A j \in 1..(i - 1) : outs[j] # Unsent
    /\ \E oc \in Outcomes :
          /\ outs' = [outs EXCEPT ![i] = oc]
          /\ Receive(oc)
    /\ UNCHANGED <<concurrent, pc, next, res, pending, attempts, replay,
                   ctxDone, late, verdict>>

StopSending ==
    /\ pc = "send"
    /\ ctxDone \/ \A i \in Slots : outs[i] # Unsent
    /\ pc' = "collect"
    /\ UNCHANGED <<concurrent, outs, next, res, pending, attempts, replay,
                   ctxDone, late, verdict, answers>>

(* Concurrent: the gate opens once, or the check aborts with ctx.Err().    *)

OpenGate ==
    /\ pc = "gate"
    /\ pc' = "burst"
    /\ UNCHANGED <<concurrent, outs, next, res, pending, attempts, replay,
                   ctxDone, late, verdict, answers>>

AbortAtGate ==
    /\ pc = "gate"
    /\ ctxDone
    /\ pc' = "aborted"
    /\ UNCHANGED <<concurrent, outs, next, res, pending, attempts, replay,
                   ctxDone, late, verdict, answers>>

\* A released worker fills its slot: with the answer, or with ctx.Err() when
\* it found the context done first.  An answer that races with the
\* cancellation is one that arrived before it.
WorkerAnswers(i) ==
    /\ pc = "burst"
    /\ outs[i] = Unsent
    /\ \E oc \in DoOutcomes(ctxDone) :
          /\ outs' = [outs EXCEPT ![i] = oc]
          /\ Receive(oc)
    /\ UNCHANGED <<concurrent, pc, next, res, pending, attempts, replay,
                   ctxDone, late, verdict>>

\* wg.Wait returns.
BurstComplete ==
    /\ pc = "burst"
    /\ \A i \in Slots : outs[i] # Unsent
    /\ pc' = "collect"
    /\ UNCHANGED <<concurrent, outs, next, res, pending, attempts, replay,
                   ctxDone, late, verdict, answers>>

-----------------------------------------------------------------------------
(* collect: one iteration per outcome.  A cancelled Sequential leaves a    *)
(* shorter slice.                                                          *)

MoreToCollect_LastSlotSkipped == next < N /\ outs[next] # Unsent

MoreToCollect == next <= N /\ outs[next] # Unsent

CollectNext ==
    /\ pc = "collect"
    /\ MoreToCollect
    /\ res' = Absorb(res, outs[next])
    /\ next' = next + 1
    /\ UNCHANGED <<concurrent, pc, outs, pending, attempts, replay, ctxDone,
                   late, verdict, answers>>

CollectDone ==
    /\ pc = "collect"
    /\ ~MoreToCollect
    /\ pc' = "finalize"
    /\ UNCHANGED <<concurrent, outs, next, res, pending, attempts, replay,
                   ctxDone, late, verdict, answers>>

-----------------------------------------------------------------------------
(* finalizeSameKey and settleAndReplay.  SETTLE only lets time pass.       *)

DecideReplay ==
    /\ pc = "finalize"
    /\ pc' = IF NeedsReplay(res, concurrent) THEN "replay" ELSE "evaluate"
    /\ UNCHANGED <<concurrent, outs, next, res, pending, attempts, replay,
                   ctxDone, late, verdict, answers>>

ReplayAttempt_NotCounted ==
    /\ pc = "replay"
    /\ \E oc \in DoOutcomes(ctxDone) :
          /\ pending' = oc
          /\ Receive(oc)
    /\ pc' = "classify"
    /\ UNCHANGED <<concurrent, outs, next, res, attempts, replay, ctxDone,
                   late, verdict>>

ReplayAttempt ==
    /\ pc = "replay"
    /\ attempts' = attempts + 1
    /\ \E oc \in DoOutcomes(ctxDone) :
          /\ pending' = oc
          /\ Receive(oc)
    /\ pc' = "classify"
    /\ UNCHANGED <<concurrent, outs, next, res, replay, ctxDone, late, verdict>>

BudgetSpent_NoAttemptLimit == late \/ ctxDone
BudgetSpent == attempts >= MaxAttempts \/ late \/ ctxDone
FinalAttempt == Conclusive(pending) \/ BudgetSpent

\* Another attempt after replayInterval; this answer is dropped.
RetryReplay ==
    /\ pc = "classify"
    /\ ~FinalAttempt
    /\ pc' = "replay"
    /\ pending' = Unsent
    /\ UNCHANGED <<concurrent, outs, next, res, attempts, replay, ctxDone,
                   late, verdict, answers>>

MergeReplay ==
    /\ pc = "classify"
    /\ FinalAttempt
    /\ res' = Merge(res, pending)
    /\ replay' = ClassifyReplay(pending)
    /\ pc' = "evaluate"
    /\ UNCHANGED <<concurrent, outs, next, pending, attempts, ctxDone, late,
                   verdict, answers>>

Evaluate ==
    /\ pc = "evaluate"
    /\ verdict' = EvaluateSameKey(res, replay)
    /\ pc' = "done"
    /\ UNCHANGED <<concurrent, outs, next, res, pending, attempts, replay,
                   ctxDone, late, answers>>

-----------------------------------------------------------------------------
(* The environment.                                                        *)

Finished == pc \in {"done", "aborted"}

\* Ctrl-C.
Cancel ==
    /\ ~ctxDone
    /\ ~Finished
    /\ ctxDone' = TRUE
    /\ UNCHANGED <<concurrent, pc, outs, next, res, pending, attempts, replay,
                   late, verdict, answers>>

DeadlinePasses ==
    /\ pc \in {"replay", "classify"}
    /\ ~late
    /\ late' = TRUE
    /\ UNCHANGED <<concurrent, pc, outs, next, res, pending, attempts, replay,
                   ctxDone, verdict, answers>>

Engine ==
    \/ \E i \in Slots : SendNext(i) \/ WorkerAnswers(i)
    \/ StopSending \/ OpenGate \/ AbortAtGate \/ BurstComplete
    \/ CollectNext \/ CollectDone \/ DecideReplay
    \/ ReplayAttempt \/ RetryReplay \/ MergeReplay \/ Evaluate

\* The check has returned.
Returned == Finished /\ UNCHANGED vars

Next == Engine \/ Cancel \/ DeadlinePasses \/ Returned

\* The client's timeout ends every request, so the engine keeps taking steps.
\* Nothing makes the user cancel, and no deadline is needed to stop.
Spec == Init /\ [][Next]_vars /\ WF_vars(Engine)

-----------------------------------------------------------------------------
(* Properties.                                                             *)

SuccessAnswers == {f \in answers : Success(f[1])}
AnswersDiverge == \E f, g \in SuccessAnswers : f[2] # g[2]
Readable(oc) == oc.kind = "response" /\ (Success(oc.status) \/ IsTransient(oc.status))

\* A FAIL is a proven violation: two requests with the one key were answered
\* with 2xx responses whose bodies differ (evaluateSameKey, rule 2).
FailIsProven == verdict = "fail" => AnswersDiverge

\* No divergence the client saw is lost on the way to the verdict, whichever
\* slot it sat in, whatever else went wrong and however the replay was
\* retried (rule 2 stands before the partial-evidence rules).
DivergenceIsReported ==
    verdict # "none" /\ AnswersDiverge => verdict = "fail"

\* A PASS rests on complete evidence: no outcome of the check was lost,
\* unreadable or outside the policy, the 2xx answers agree, and where doubt
\* was possible (a burst, or a tolerated transient) the last replay answer is
\* itself a 2xx (rules 3 to 5: "Uncertainty is never turned into a pass").
PassIsEarned ==
    verdict = "pass" =>
        /\ \A i \in Slots : outs[i] # Unsent => Readable(outs[i])
        /\ SuccessAnswers # {} /\ ~AnswersDiverge
        /\ \/ concurrent
           \/ \E i \in Slots : outs[i] # Unsent /\ ~Success(outs[i].status)
           => pending.kind = "response" /\ Success(pending.status)

\* How many of the merged outcomes, the collected slots and the final replay
\* answer, are among these.
Tally(kinds) ==
    Cardinality({i \in 1..(next - 1) : outs[i] \in kinds})
    + (IF replay # "none" /\ pending \in kinds THEN 1 ELSE 0)

Answered == {i \in 1..(next - 1) : outs[i].kind # "error"}

\* Every outcome is counted once, in its own counter, and the baseline is the
\* first slot that carries a status: what the report prints adds up, through
\* collect's loop and the merge of the replay.
EvidenceAddsUp ==
    /\ res.requests = Tally(Outcomes)
    /\ res.transport = Tally({NoResponse})
    /\ res.oversize = Tally(OversizeBodies)
    /\ res.observed = Tally(OversizeBodies \cup Responses)
    /\ \A f \in Fingerprints :
          res.groups[f] = Tally({oc \in Responses : FingerprintOf(oc) = f})
    /\ \/ Answered = {} /\ res.baseline = 0
       \/ \E i \in Answered : /\ \A j \in Answered : i <= j
                              /\ res.baseline = outs[i].status

\* A burst that is cancelled before its replay was answered never passes:
\* the replay fails fast and leaves a transport failure in the evidence
\* (settleAndReplay, "the verdict stays honest").
CancelledBurstNeverPasses ==
    [](concurrent /\ ctxDone
         /\ pc \in {"gate", "burst", "collect", "finalize", "replay"}
       => [](verdict # "pass"))

\* Every check returns, however the endpoint answers: the replay loop has a
\* bound of its own.
Terminates == <>Finished

\* A check is an ERROR exactly when nothing answered it: no slot and not the
\* replay's last attempt (rule 1).  A run that is cancelled before a check
\* starts therefore gets no verdict from it.
ErrorMeansUnanswered ==
    verdict # "none" =>
        (verdict = "error" <=>
            \A oc \in {outs[i] : i \in Slots} \cup {pending} :
                oc.kind \in {"error", "unsent"})

\* The run sees of a check what CheckReport says: it is an ERROR unless it was
\* answered, its baseline counts only then, nothing answers after a Ctrl-C,
\* and a burst is given up only before its first answer.  RunMatrix rests on
\* this, which holds for every interleaving of answers, retries and Ctrl-C.
Reported ==
    [verdict |-> IF pc = "aborted" THEN "aborted" ELSE verdict,
     rejected |-> verdict # "none" /\ BadBaseline(res)]
WasHeard ==
    \/ answers # {}
    \/ \E oc \in {outs[i] : i \in Slots} \cup {pending} : oc.kind = "oversize"
Report == INSTANCE CheckReport WITH
            cancelled <- ctxDone, heard <- WasHeard, report <- Reported
ImplementsCheckReport == Report!Spec

\* A rejected baseline skips the replay because "the extra request cannot
\* change a verdict that is already inconclusive" (finalizeSameKey).
BlockedReplayIsMoot ==
    pc = "finalize" /\ concurrent /\ BaselineRejected(res) =>
        \A oc \in Outcomes :
            EvaluateSameKey(Merge(res, oc), ClassifyReplay(oc))
              = EvaluateSameKey(res, "none")

=============================================================================
