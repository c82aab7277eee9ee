------------------------------ MODULE Evidence ------------------------------
(***************************************************************************)
(* What one request can come back with, how the engine accumulates those   *)
(* outcomes into a CheckResult, and how a CheckResult becomes a verdict    *)
(* (internal/engine/result.go, phases.go and scenarios.go, with            *)
(* internal/httpx/client.go's Outcome and internal/config/policy.go).      *)
(*                                                                         *)
(* A status is its HTTP number, because the code classifies by range.  A   *)
(* body is a model value: two responses carry the same one exactly when    *)
(* their normalized bodies are equal.  The fingerprint of a response is    *)
(* the pair <<status, body>>: whatever else the code's fingerprint holds   *)
(* (filtered headers) separates evidence groups the way the status does    *)
(* and never enters a same-key verdict.                                    *)
(*                                                                         *)
(* A definition named X_Y is X with the fault Y seeded: no specification   *)
(* uses it; it shows which property notices that fault.                    *)
(***************************************************************************)
EXTENDS Integers

CONSTANTS
    Bodies,         \* the normalized response bodies
    Fingerprints,   \* the <<status, body>> answers the endpoint may give
    Transient       \* the statuses the active policy tolerates

ASSUME FingerprintsAssumption == Fingerprints \subseteq (100..599) \X Bodies
ASSUME TransientAssumption == Transient \subseteq 100..599

Statuses == {f[1] : f \in Fingerprints}

-----------------------------------------------------------------------------
(* One request: Client.Do.                                                 *)

Responses ==
    {[kind |-> "response", status |-> f[1], body |-> f[2]] : f \in Fingerprints}
OversizeBodies == [kind : {"oversize"}, status : Statuses]
NoResponse == [kind |-> "error"]
Outcomes == Responses \cup OversizeBodies \cup {NoResponse}

DoOutcomes_ContextNotPassed(cancelled) == Outcomes

\* What Do may return: a request whose context is already cancelled fails
\* before anything reaches the wire.
DoOutcomes(cancelled) == IF cancelled THEN {NoResponse} ELSE Outcomes

Success(status) == status \in 200..299
IsTransient(status) == status \in Transient

FingerprintOf(oc) == <<oc.status, oc.body>>

-----------------------------------------------------------------------------
(* The accumulated result.  A group is a fingerprint with a positive       *)
(* count; the baseline is 0 until a response was collected.                *)

Results ==
    [requests : Nat, observed : Nat, transport : Nat, oversize : Nat,
     baseline : Statuses \cup {0}, groups : [Fingerprints -> Nat]]

EmptyResult ==
    [requests |-> 0, observed |-> 0, transport |-> 0, oversize |-> 0,
     baseline |-> 0, groups |-> [f \in Fingerprints |-> 0]]

CountIn(groups, f) == [groups EXCEPT ![f] = @ + 1]

Merge_OversizeNotObserved(res, oc) ==
    [requests  |-> res.requests + 1,
     observed  |-> res.observed + (IF oc.kind = "response" THEN 1 ELSE 0),
     transport |-> res.transport + (IF oc.kind = "error" THEN 1 ELSE 0),
     oversize  |-> res.oversize + (IF oc.kind = "oversize" THEN 1 ELSE 0),
     baseline  |-> res.baseline,
     groups    |-> IF oc.kind = "response"
                   THEN CountIn(res.groups, FingerprintOf(oc)) ELSE res.groups]

\* mergeOutcome: one more outcome, without touching the baseline.
Merge(res, oc) ==
    [requests  |-> res.requests + 1,
     observed  |-> res.observed + (IF oc.kind = "error" THEN 0 ELSE 1),
     transport |-> res.transport + (IF oc.kind = "error" THEN 1 ELSE 0),
     oversize  |-> res.oversize + (IF oc.kind = "oversize" THEN 1 ELSE 0),
     baseline  |-> res.baseline,
     groups    |-> IF oc.kind = "response"
                   THEN CountIn(res.groups, FingerprintOf(oc)) ELSE res.groups]

\* The body of collect's loop: the first outcome that carries a status,
\* readable or not, sets the baseline.
Absorb(res, oc) ==
    [Merge(res, oc) EXCEPT
        !.baseline = IF @ = 0 /\ oc.kind # "error" THEN oc.status ELSE @]

Seen(res) == {f \in Fingerprints : res.groups[f] > 0}
SuccessBodies(res) == {f[2] : f \in {g \in Seen(res) : Success(g[1])}}
TransientSeen(res) ==
    \E f \in Seen(res) : ~Success(f[1]) /\ IsTransient(f[1])
UnknownSeen(res) ==
    \E f \in Seen(res) : ~Success(f[1]) /\ ~IsTransient(f[1])

-----------------------------------------------------------------------------
(* The REPLAY phase: when it runs and when an attempt is its last.         *)

\* ReplayInfo: what the final replay answer was, "none" when none ran.
Replays == {"none", "confirmed", "oversize", "failed", "exhausted", "other"}

ClassifyReplay(oc) ==
    CASE oc.kind = "oversize" -> "oversize"
      [] oc.kind = "error"    -> "failed"
      [] oc.kind = "response" /\ Success(oc.status) -> "confirmed"
      [] oc.kind = "response" /\ ~Success(oc.status) ->
            IF IsTransient(oc.status) THEN "exhausted" ELSE "other"

BaselineRejected(res) ==
    /\ res.observed > 0
    /\ res.baseline >= 400
    /\ ~IsTransient(res.baseline)

NeedsReplay_OnTransientsOnly(res, alwaysReplay) ==
    ~BaselineRejected(res) /\ TransientSeen(res)

NeedsReplay(res, alwaysReplay) ==
    ~BaselineRejected(res) /\ (alwaysReplay \/ TransientSeen(res))

\* An answer that is final whatever budget is left: transport failures and
\* transient statuses are the ones worth another attempt.
Conclusive(oc) ==
    \/ oc.kind = "oversize"
    \/ oc.kind = "response" /\ ~IsTransient(oc.status)

-----------------------------------------------------------------------------
(* evaluateSameKey: the rules in the code's order, the first that applies  *)
(* decides.                                                                *)

Verdicts == {"pass", "fail", "inconclusive", "error"}

Diverged_ByFingerprint(res) ==
    \E f, g \in Seen(res) : f # g /\ Success(f[1]) /\ Success(g[1])

Diverged_AnyStatus(res) == \E f, g \in Seen(res) : f[2] # g[2]

Diverged(res) == \E a, b \in SuccessBodies(res) : a # b

EvaluateSameKey_LossTolerated(res, replay) ==
    IF res.observed = 0 THEN "error"
    ELSE IF Diverged(res) THEN "fail"
    ELSE IF \/ res.oversize > 0
            \/ UnknownSeen(res)
            \/ SuccessBodies(res) = {}
            \/ TransientSeen(res) /\ replay # "confirmed"
         THEN "inconclusive"
    ELSE "pass"

EvaluateSameKey_PartialEvidenceFirst(res, replay) ==
    IF res.observed = 0 THEN "error"
    ELSE IF \/ res.oversize > 0
            \/ res.transport > 0
            \/ UnknownSeen(res)
            \/ SuccessBodies(res) = {}
            \/ TransientSeen(res) /\ replay # "confirmed"
         THEN "inconclusive"
    ELSE IF Diverged(res) THEN "fail"
    ELSE "pass"

EvaluateSameKey(res, replay) ==
    IF res.observed = 0 THEN "error"
    ELSE IF Diverged(res) THEN "fail"
    ELSE IF \/ res.oversize > 0
            \/ res.transport > 0
            \/ UnknownSeen(res)
            \/ SuccessBodies(res) = {}
            \/ TransientSeen(res) /\ replay # "confirmed"
         THEN "inconclusive"
    ELSE "pass"

\* A baseline that is refused, whether the policy tolerates it or not.
BadBaseline(res) == res.observed > 0 /\ res.baseline >= 400

\* What a check may report, once it was heard or not: its verdict, and whether
\* its baseline was bad.  An answered check may have begun with a rejection
\* whatever its verdict, a tolerated 409, 429 or 503 included.
SameKeyReports(heard) ==
    {[verdict |-> "error", rejected |-> FALSE]} \cup
    (IF heard THEN [verdict : Verdicts \ {"error"}, rejected : BOOLEAN] ELSE {})

-----------------------------------------------------------------------------
(* The two-request checks: runPayloadConflict and runDistinctKeys.         *)

\* 4xx answers that refuse the modified payload; the others are conditions
\* of the transport.
IsRejection(status) == status \in 400..499 \ {408, 425, 429}

PayloadVerdict(ocA, ocB) ==
    IF ocA.kind # "response" \/ ocB.kind # "response" THEN "inconclusive"
    ELSE IF ~Success(ocA.status) THEN "inconclusive"
    ELSE IF IsRejection(ocB.status) THEN "pass"
    ELSE IF ~Success(ocB.status) THEN "inconclusive"
    ELSE IF ocA.body = ocB.body THEN "pass" ELSE "fail"

ControlVerdict(ocA, ocB) ==
    IF "oversize" \in {ocA.kind, ocB.kind} THEN "inconclusive"
    ELSE IF "error" \in {ocA.kind, ocB.kind} THEN "error"
    ELSE IF ocA.status >= 400 \/ ocB.status >= 400 THEN "error"
    ELSE IF FingerprintOf(ocA) # FingerprintOf(ocB) THEN "pass"
    ELSE "inconclusive"

-----------------------------------------------------------------------------
(* How decisive a verdict is: aggregateTrials and Assemble agree on it.    *)

Rank(v) == CASE v = "fail" -> 3 [] v = "error" -> 2 [] v = "inconclusive" -> 1
             [] OTHER -> 0

=============================================================================
