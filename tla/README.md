# A verification project for IdemCheck

IdemCheck is a black-box tester of `Idempotency-Key` endpoints: it sends the same
request with the same key one after another and in a barrier-synchronized burst,
groups the answers by their normalized content, and reports PASS, FAIL,
INCONCLUSIVE or ERROR, with an exit code a CI job can act on. This directory holds
TLA+ models of it, the TLC runs that check them, and proofs that TLAPS checks. The
paths below are relative to the repository (`src/`).

The question everything here serves is the one the tool's users ask of it: **when it
says PASS or FAIL, is that what the requests and answers show?**

## 1. The system

| Part | State | Operations | Meets |
| --- | --- | --- | --- |
| Runner (`internal/engine/scenarios.go`) | results emitted so far, trial results | `Run`, `runConcurrentTrials`, `runPayloadConflict`, `runDistinctKeys` | calls the checks in order; cancelled by the signal context of the CLI |
| Same-key check (`sequential.go`, `concurrency.go`, `result.go`, `phases.go`, `scenarios.go`) | outcome slots, `CheckResult`, `ReplayInfo` | `Sequential`, `Concurrent`, `collect`, `finalizeSameKey`, `settleAndReplay`, `mergeOutcome`, `evaluateSameKey` | calls `Client.Do`; reads the policy |
| Burst barrier (`concurrency.go`) | `ready` and `start` channels, `release`, slots and offsets, WaitGroup | one goroutine per worker, the gate holder, `buildTimings` | shared memory, channels, context |
| Trials (`trials.go`) | per-trial results | `aggregateTrials` | |
| HTTP client (`internal/httpx/client.go`) | pooled connections, timeout, body limit | `BuildRequest`, `Do`, `readBounded`, `decodeBody` | `net/http`, the endpoint |
| Fault proxy (`internal/httpx/faultproxy.go`) | `dropped`, `forward` (atomics) | `handle` (one goroutine per request), `takeDrop`, `dropConnection`, `Close` | stands between client and endpoint |
| Fingerprint (`internal/fingerprint`) | none | `Normalize`, `Compute`, `DiffPaths` | pure; called by `collect` and `mergeOutcome` |
| Policy, keys (`internal/config/policy.go`, `key.go`) | none | `ResolvePolicy`, `IsTransient`, `ScenarioKey` | pure |
| Options (`internal/config/config.go`) | options | `Validate`, `SafetyGuard`, `SplitHeader` | before the run |
| Report (`internal/report`) | summary, exit code | `Assemble`, `ReproCommand`, `Terminal`, `JSON` | after the run |
| Redaction (`internal/redact`) | extra header names | string rewriting | on every output path |
| CLI (`internal/cli`) | exit code | `Execute`, `runTest` | signal context, proxy, runner, report |
| Example endpoints (`examples/`) | orders, keys, locks | `handleCreate` | concurrent handlers |

What is hard in it:

* **Concurrency.** The workers of a burst, the gate holder and Ctrl-C; the handlers
  of the proxy; the handlers of the example endpoints.
* **Failure.** Every request may fail, time out, be unreadable or answer any status,
  alone or among others; the context may be cancelled between any two steps; the
  upstream of the proxy may fail before, during or after its work.
* **Ordering.** Answers arrive in any order but are folded in slot order; rules are
  tried in order; verdicts of trials and checks are folded by precedence.
* **Timeouts and retries.** The replay loop has three budgets; clients leave while
  their requests are worked on; `net/http` sends requests again by itself.

What makes each part correct:

* *Same-key check*: FAIL is proven, a divergence that was seen is reported, PASS rests
  on complete evidence, the counters add up, the check returns.
* *Barrier*: nobody fires before everybody is ready; a burst that is called off fires
  nothing; nobody is left behind or waits forever; timings are measured from the release.
* *Run*: exit code 0 only for complete evidence, also when the run is interrupted;
  a proven violation decides; a rejected baseline stops the run.
* *Proxy*: exactly one answer is lost, to work that was done, and the others are
  relayed as they are.
* *Client and fingerprint*: a body is compared whole or not at all; equal content has
  equal canonical form and conversely; the fields shown are the ones that differ.
* *Example endpoints*: the safe one is an atomic idempotent endpoint, the unsafe one is
  not, and the tool tells them apart.
* *The whole*: a FAIL means that the endpoint really made two orders for one key.

`PROJECT.json` lists, under `hazards`, where in the code these things could go wrong,
with the properties that watch them.

## 2. The modules

```
Evidence ──────────┬── SameKeyCheck ──┬── MCSameKeyCheck      (TLC)
 (operators)       │                  └── SameKeyCheckProofs  (TLAPS)
                   ├── RunMatrix ─────┬── MCRunMatrix         (TLC)
                   │                  └── RunMatrixProofs     (TLAPS)
                   └── CheckReport <= SameKeyCheck (which refines it)
                        (abstract: a check as RunMatrix takes it)
Rendezvous <= BarrierBurst ────────────── BarrierBurstProofs  (TLAPS)
 (abstract)     (refines it)
FaultProxy ────────────────────────────── FaultProxyProofs    (TLAPS)
IdempotentEndpoint <= SafeOrderApi ────── SafeOrderApiProofs  (TLAPS)
 (abstract)           (refines it)
SystemRun = SameKeyCheck + UnsafeOrderApi + IdempotentEndpoint (for the safe one)
 └─────────────────────────────────────── SystemRunProofs     (TLAPS)
NumberForm ── NormalForm ─┬─ BodyComparison ── MCBodyComparison (TLC)
BodyRead ─────────────────┘
NumberForm, BodyRead ──────────────────── BodyProofs          (TLAPS)
 (operators)
BodyComparison, BodyProofs ────────────── BodyComparisonProofs (TLAPS)
```

A definition named `X_Y` is the definition `X` with a fault `Y` seeded, such as a
programmer could make in that code. No specification uses it; putting it in the place
of `X` shows that the property listed with it in `PROJECT.json` notices the fault.

### Evidence

The vocabulary of the engine, without state. A status is its number; a body is a model
value, equal for two answers exactly when their canonical bodies are equal; an outcome
(`httpx.Outcome`) is a readable response, an oversize body with its status, or an error.
A body that breaks off while it is read is an error too: its `Outcome` has `Err` set,
and `collect` looks at `Err` only. `Merge` is `mergeOutcome`, `Absorb` the loop body of
`collect`, `NeedsReplay`, `Conclusive` and `ClassifyReplay` the conditions of
`phases.go`, and `EvaluateSameKey` the rule list of `evaluateSameKey`, in its order.
`PayloadVerdict` and `ControlVerdict` are the other two evaluators. `SameKeyReports` is
what a same-key check may report to the run, once it was answered or not. Details, timings
and field evidence are left out: no verdict reads them.

The fingerprint of a response is `<<status, body>>`. The code's fingerprint also covers
the headers that are not filtered; they split evidence groups exactly as a second
status would and never reach the same-key verdict, so `MCSameKeyCheck` has two success
statuses with one body to stand for both. (The control check does compare
fingerprints, so a differing header could pass it; two statuses stand for that too.)

### SameKeyCheck

One check from its first request to its verdict; `pc` names the place in the code.

| Action | Code |
| --- | --- |
| `SendNext`, `StopSending` | the loop of `Sequential` and its `ctx.Err()` break |
| `OpenGate`, `AbortAtGate`, `WorkerAnswers`, `BurstComplete` | `Concurrent` seen from after its barrier |
| `CollectNext`, `CollectDone` | `collect`, one slot per step |
| `DecideReplay` | the condition of `finalizeSameKey` |
| `ReplayAttempt`, `RetryReplay`, `MergeReplay` | the loop of `settleAndReplay`: one `Do`, then another round or the merge |
| `Evaluate` | `evaluateSameKey` |
| `Cancel`, `DeadlinePasses` | Ctrl-C at any moment; the replay deadline at any moment of the replay |

`concurrent` says which check it is: for a burst `alwaysReplay` holds. `answers` is a
history of what the client really received; the properties compare the verdict with it.
SETTLE and the retry interval only let time pass and are not steps.

`CheckReport` is the same check as a run takes it: an ERROR unless something answered
it, nothing answers after a Ctrl-C, and what was not answered yet may be given up. It
is the contract between `SameKeyCheck`, which implements it (`ImplementsCheckReport`
maps `heard` to the answers received, `report` to the verdict and the bad baseline), and
`RunMatrix`, whose steps take their reports from the same `SameKeyReports`.

### Rendezvous and BarrierBurst

`Rendezvous` says what a barrier is for: fire only when all have arrived, and never
after being called off. `BarrierBurst` has every goroutine, channel and shared variable
of `Concurrent`: `ready` counts buffered tokens, `start` is open or closed, `release`
is written once and read by the workers without a lock (an early read would be a data
race, kept as the offset `"garbage"`). A `select` with two ready cases takes either.
`ImplementsRendezvous` maps `arrived` to the workers past their signal, `fired` to
those whose request reached the wire, `calledOff` to the give-up path.

### RunMatrix

`Runner.Run`, the trials, `Assemble` and the exit code. A same-key check is one step
that reports what `CheckReport` allows: a verdict, and whether its baseline was >= 400,
or ERROR when the run was cancelled before it. The burst that is given up at its gate is
`AbortTrial`. The payload and control checks are evaluated on all outcomes.
`touched` and `proven` are histories: the checks that called the client, and whether an
evaluation ever was a FAIL. `Assemble` exits with `ExitCode`, or with 2 when the JSON
report cannot be written.

### FaultProxy

One handler per request: `forwarding` (inside `client.Do`), `completed` (after the
counter, before the compare-and-swap), `dropping` or `relaying`. The upstream may work
and answer, work and fail, or fail. Two pieces are external, modelled from how the code
uses them: the endpoint, and `net/http`'s transport, which pools connections and sends a
request again by itself when a *reused* connection closes before the first byte of the
answer and the request carries `Idempotency-Key` or `X-Idempotency-Key` (its documented
rule; `--key-header` may name another header, hence `replayable`). A client may leave at
any moment, and its handler goes on.

### IdempotentEndpoint and SafeOrderApi

`IdempotentEndpoint` says what an endpoint promises that honours `Idempotency-Key`: it
accepts one request per key, replays its order to every later request that asks the
same, and refuses the others, each in one step. An order is named by the request that
created it.

`SafeOrderApi` is `handleCreate` of `examples/safe-order-api`, one step per critical
section or access to shared memory. `LockFor` is the critical section of `keyMu`; a
mutex is named after the handler that made it. Handlers of different keys share
`s.orders` and `s.next` without a lock, so these accesses are undefined when they meet:
a map access that meets a write (`Racing`) may end the process (`Throw`), miss the entry
(`FindNothing`) or lose it (`EndSave`); `s.next++` is `LoadNext` and `StoreNext`, and
`ReadId` reads the field again or not. `raced` and `tangled` are histories of the two
races: a map access has met a write; the handlers that counted (between `LoadNext` and
`ReadId`) while another one counted. `OrderIdsAreDistinct` excuses two orders with one id
only if the handler of one of them is in `tangled`. It need not have met the other order's
handler: a store that is late sets the counter back to an id that a third handler has
already taken, and the next handler, alone, takes it again. `ImplementsIdempotentEndpoint` maps `accepted` to the requests in `orders`, and
allows a step that is none of the abstract endpoint's only after a race in the map.

### UnsafeOrderApi and SystemRun

`UnsafeOrderApi` is the other endpoint's handler: `CheckKey`, `Insert` and `SaveKey` are
its three critical sections, `WriteOrder` is `writeOrder`. It has one key and one
payload, which is what a same-key check sends; order ids count from 0.

`SystemRun` puts `SameKeyCheck` in front of an endpoint: the unsafe one, or the safe one
as the `IdempotentEndpoint` that it implements (one key cannot race with another). The
engine's steps are those of `SameKeyCheck`; only the outcome of a request is no longer
free:

| Action | Code |
| --- | --- |
| `Transmit` | `Client.Do` puts the request on the wire; a handler starts |
| `Receive` | the handler's answer becomes the `Outcome` |
| `Fail` | the request is lost, times out, or ends with the context; its handler goes on |
| `Throttle` | a gateway answers 503 in place of the endpoint (external) |
| `Resend` | `net/http` sends the keyed request again on its own (external) |
| `Serve` | a step of a handler |
| `RunAgain` | the tool is started once more with the same `--key`, as with the printed reproduction command: a single trial uses the key as it is |

`faults`, `resent`, `cancelled` and `before` are histories. `Created` is the set of
orders the endpoint has made for the key, which the tool never sees: the properties
compare the verdict with it. Steps of the engine that touch nothing of the endpoint
(`Local`) are not interleaved with the handlers' steps, with which they commute.

### NumberForm, NormalForm, BodyRead and BodyComparison

These hold the pure algorithms. `NumberForm` is `CanonicalNumber`, on literals as lists
of digits, with the exponent as it is written: its mark, sign and digits count for the
length cap (`Length`), and `Decimal` is their value. `NormalForm` has the rest of `internal/fingerprint`, on JSON trees:
`CompilePattern` and `ApplyIgnore`, `Prepare`, `DiffWalk` and `ValueAt`. `BodyRead` is
what the client keeps of a body (`readBounded`, `decodeBody`, `decompress`); `GzipClaims` and
`DeflateClaims` are the spellings of `Content-Encoding` it unpacks.
`BodyComparison` runs them in the code's order on two responses: `Receive`, `Compile`,
`Parse`, `Ignore` once per path, `PrepareBodies`, `Compare` (`analyzeEvidence` for two
groups).

A tree is one of `Nodes`: null, a number, an object or an array, nested `MaxDepth` deep
at most (`encoding/json` refuses a document that nests deeper than its own limit). The
walks over trees are recursive functions on this set. Strings and Booleans are
left out: they are compared as they are, like a number that has its form already.
`StepsOf` and `Child` say how to go down a tree, by the keys that are there or by the
elements; an index counts from 1.

DiffPaths writes a path as text and ValueAt splits it again. What a key reads back as is
a constant, `Written`: a key with a dot as several steps, the key without a name as none.
Each key is taken alone, which is right for dots; a bracket in a key may pair with one in
another key, and such keys are left out.

The reference is `Says`: what a body says is a set of facts, each a place and what
stands there, without the places that are ignored. The number a literal stands for is
its set of digits that are not 0, each with its power of ten, and its sign (`Value`). A
place is ignored when a path names it (`Reads`, `Matches`); nothing of the walks that
delete and rewrite is used.

## 3. The runs

| Run | Instance | Distinct states | Shows |
| --- | --- | --- | --- |
| `same_key` | 3 requests, 3 replay attempts, 5 answers, default policy | 518,323 | all properties of the same-key check |
| `barrier` | 4 workers | 5,724 | refinement, no leaked goroutine, measured timings, termination |
| `run_matrix` | 1 to 3 trials, stress or not, body or not | 143,880 | exit code and interruption |
| `fault_proxy` | 3 requests, both modes, both kinds of key header | 98,728 | one controlled loss, injected and never undone |
| `safe_orders` | 3 requests, 2 keys, 2 payloads, malformed requests | 357,240 | refinement of the idempotent endpoint, serialized keys, distinct order ids, every request answered |
| `system_run` | 2 requests, 2 replay attempts, up to 3 disturbed requests (2 of a burst), two runs with one key, both endpoints | 2,327,216 | what a verdict says about the orders the endpoint made |
| `fingerprint` | 6 families of pairs of bodies, 18 lists of ignore paths, 144 number spellings | 453,137 | one form per content, exact fields and evidence, whole bodies |
| `blocked_replay` | as `same_key` | violated | finding 1 |
| `precedence` | as `run_matrix` | violated | finding 2 |
| `rerun` | 2 requests, two runs with one key, no faults | violated | finding 3 |
| `forgery` | 2 requests | violated | finding 4 |
| `unguarded_maps` | 2 requests, 2 keys | violated | finding 5 |

Why the bounds are enough. The verdict of a same-key check depends on which groups are
non-empty, on four counters being zero or not, on the first status and on the replay.
Three slots hold two answers that differ and a third of any kind in any order, so every
rule can decide against every earlier one; a third replay attempt exists that is
neither the first nor the last. The five answers are the fewest in which each rule has
its case: two bodies, one body under two statuses, a tolerated status, an unknown one.
The theorems hold for any number of each. Four workers are one more than the two that
can race at the gate and the one that is late. Three trials let a decisive trial be
first, in the middle and last. Three requests let two handlers race for the drop while
a third reuses a connection. Three requests on two keys let a duplicate wait for its
mutex while the other key races with it.

In `system_run` two requests race at the endpoint, and with two replay attempts and two
faults one handler can be left behind by a lost answer, another doubled by a resend, and
the replay meet both; the second run begins when the handlers of the first are done. A
sequential check may have a third fault (`MaxFaults`), so that both its requests are
refused on the way and a replay attempt times out besides; a burst may not
(`MaxBurstFaults`), which keeps the run small. Each property's interesting case occurs:
FAIL against the unsafe endpoint, PASS with two orders after a resend and after a
dropped replay attempt, and in `rerun` the second run of a key that failed.

In `fingerprint` the caps are small (6 characters, exponent 1, bodies of 2 bytes), so
that inputs lie on both sides of each. The trees have members, elements, nested arrays,
volatile, dotted and nameless keys, null, and 1 spelled in two ways; the 144 literals have sign,
leading and trailing zeros, a fraction, and exponents spelled with `e` or `E`, with either
sign and with two digits, on both sides of each cap; the paths name keys, elements,
wildcards, two paths that meet, and malformed ones; the packings are every pair of a
claimed and a real encoding, gzip claimed by both its names. What the algorithms do to a node depends on the node and
the next segment only, so depth four shows each case; the theorems hold for every depth.

`BudgetSpent` bounds the attempts with the code's own `replayMaxAttempts`; `SystemRun`
adds `MaxFaults` and `MaxBurstFaults`; no other counter needs a bound. Deadlock is checked in every run: a finished system stutters.

**Fairness.** `SameKeyCheck`: weak fairness of the engine's steps together; every
request ends, because the client always has a timeout (`NewClient`, `Validate` refuses
`--timeout` <= 0), so a step is always possible and is taken. Neither a cancellation nor
the deadline is fair: termination does not need them. `BarrierBurst`: weak fairness per
goroutine, which is what the Go scheduler gives, and for the request in it the timeout.
`FaultProxy`: weak fairness of what a handler does by itself; the upstream owes nothing
and no client has to give up. `SafeOrderApi`: weak fairness per handler; a mutex that
stays free is taken at last (its handlers are finitely many, and Go's mutex starves
nobody). The others have safety properties only.

### Findings

1. *A skipped replay is not moot* (`BlockedReplayIsMoot`). When the first slot of a
   burst holds a rejection, no replay runs because it "cannot change a verdict that is
   already inconclusive". It can: with a 2xx body in another slot, a replay with a
   different body would be a proven divergence. Whether it runs depends on the slot order.
2. *A proven FAIL can leave with exit code 2* (`ProvenViolationDecides`): the baseline
   override of check 1, and a Ctrl-C at the gate of a later burst.
3. *A reported failure is not reproduced by its key* (`RerunReproducesFailure`). A single
   trial's burst is sent with the base key itself (`scenarios.go:253`). The endpoint
   remembers the key, so that the same command, run again on a quiet network, is answered
   with the stored order and passes; `RerunPasses` proves this for every number of
   requests. The reference calls it a "Deterministic re-run of a reported failure"
   (`REFERENCE.md:98`), the report's command "reproduces the run with the exact
   deterministic key" (`assemble.go:133-134`), and `BaseKey` is "never sent as-is"
   (`scenarios.go:31`).
4. *A truncated answer can pass the proxy as complete* (`ProxyForgesNoAnswer`).
5. *The maps of the safe endpoint are not guarded* (`MapsAreGuarded`): handlers of two
   keys are in `s.orders` at once, which `keyMu` is documented to prevent.

What the properties leave out because the code does otherwise. Each exception is needed:
without it the run fails.

* A body with a stray `]` or `}` behind its document equals the body without it, though
  "not a single JSON document" is compared by its bytes (`normalize.go:47-50`).
* Of `$.m[0][1]` only the first index counts (`normalize.go:102-109`), so all of `m[0]`
  is ignored; and `$.m[0][1].ts` looks for `ts` in `m[0]`, an array, so that nothing is.
* A number with an exponent beyond 10000 is compared by its spelling, though the rewrite
  is called "exact for every JSON literal up to maxNumericLiteral characters"
  (`normalize.go:241-242`).
* `null` against a missing key is a FAIL that names no field, though "A missing key
  counts as a difference" (`json_diff.go:13`).
* A key that holds a dot is named as a differing field, but its values cannot be read
  back (`json_diff.go:123-155`).
* On a first run with a key the verdict counts the orders (`VerdictCountsOrders`); on a
  second it need not (finding 3).
* A PASS can hide an order that a resend of `net/http` made (`PassHidesOnlyRepeats`). The
  tool cannot see it.
* The loss that the proxy injects may go unnoticed by the client, though "The client observes
  a transport failure" (`faultproxy.go:151-152`): on a reused connection `net/http` sends
  the keyed request again. `LostAnswerStaysLost` says that an answer reaches the client
  only if the upstream worked again.
* A policy that lists a 2xx status as transient makes the replay loop drop 2xx answers;
  `DivergenceIsReported` and `PassIsEarned` do not hold under one (`NoTransientSuccess`).
* When every request was refused on its way, a PASS can also hide the order of a replay
  attempt that timed out: another attempt follows, is answered with a second order, and
  the outcome of the first is dropped (`phases.go:113-128`), so that no rule sees that
  an answer is missing. `PassHidesOnlyRepeats` allows this when `attempts > 1`. The proof
  found it: with fewer faults no run shows it.

Smaller observations, without a run: `CheckResult.Requests` counts the last replay
attempt only (`phases.go:137`); `Groups` is documented with "fingerprint as tie-break"
(`result.go:47`) but ties keep first-seen order, and that order is slot order rather
than "the order the responses actually arrived" (`result.go:121`); a sequential check that is cancelled may PASS on fewer requests
than asked for (`sequential.go:17`), while the whole run still cannot
(`InterruptedRunNeverPasses`); an index of an ignore path may overflow
(`normalize.go:141`); `Forwarded` misses requests the
upstream processed but did not answer (`faultproxy.go:110`).

## 4. The proofs

`tlapm` checks each proof module from nothing, without an assumption other than the
named ones on the constants.

**SameKeyCheckProofs** — for every number of requests, retry budget, policy and set of
answers. `FailIsProven`, `DivergenceIsReported` and `PassIsEarned` are not inductive:
they speak of the verdict, which appears in the last step, and of the history. The
invariant says what holds on the way there:

* `TypeInv`: `TypeOK`, and what each value of `pc` implies about `next`, `pending`,
  `replay` and `verdict`;
* `Sound`: what is counted was received;
* `Ordered`: slots are filled and collected in a way that leaves none behind;
* `Counted`: what a collected slot or the merged replay held shows in its counter;
* `Decided`: the verdict is `EvaluateSameKey` of the evidence as it stands, and a burst
  that was not evaluated unconfirmed has its replay;
* `Complete`: a 2xx answer that was received is counted, or waits in a slot or in
  `pending`.

`Complete` needs `NoTransientSuccess`: no 2xx status is transient. The code does not
refuse such a policy, and under one the replay loop drops 2xx answers, so
`DivergenceReported` and `PassEarned` state the assumption; `FailProven` does not need it.
The step lemmas go action by action; the lemmas `MergeEffect` and `AbsorbEffect` say once
what the evidence operators do. Two more theorems rest on this invariant.
`CancelledNeverPasses` adds a stable condition, `Unconfirmed`: a cancelled burst can only
get a failed replay or none, and `BurstPassConfirmed` says that a burst that passes has a
confirmed one. `ErrorUnanswered` adds `Observed`: the counter is positive exactly when a
collected slot or the merged replay was heard. `CheckReports` is the refinement of
`CheckReport`: `Quiet` says that nothing is heard before the gate opens, `ObservedIsHeard`
that a verdict other than ERROR was heard, and `ReportStep` that every step is one of the
report's or invisible to the run; a retry drops no answer that was heard, since what it
drops is a failure or, already in the history, a transient. `EvidenceCounted` says that the counters
are cardinalities of sets of outcomes; `Tally(kinds)` counts the collected slots of some
kinds and the merged replay, `KindsOf` and `MergeCounts` say which counter an outcome
goes to, and `TallyCollect` and `TallyMerge` that the set grows by just that one.

**BarrierBurstProofs** — for every finite set of workers: `TypeCorrect` with the
token count (`ready + received` is the number of workers past their signal), and
`BurstIsRendezvous`, the refinement. The invariant ties `start = "closed"` to the reason
it was closed: all received, or given up on a done context, after which nothing sent
reaches the wire. `Slots` adds what a worker leaves behind: `NobodyLeft` and
`AllMeasured` follow, the latter because `start` is closed after `release` was written.

**FaultProxyProofs** — for every finite set of requests: the drop is claimed at most
once and for work that was done, nobody is answered before it, and the lost answer
stays lost. The invariant ties each handler's place to what its request has behind it,
and to the one request that may be sent again.

**RunMatrixProofs** — for every number of trials, policy and set of answers.
`PassIsComplete` speaks of the exit code, which is set in the last step; the invariant
follows the order of the checks: a check that was passed has left a verdict, or a SKIP
the configuration allows (`Passed`), or else the baseline was rejected and nothing but
check 1 was touched (`Rejected`). `AggregateIsMaximal` and `AggregatePass` carry the
trials: an aggregate that is PASS comes from trials that all are. For the interrupted
run `Doomed` is the stable condition: a check is still to come, or one has erred, or the
run was given up, and `CancelledControl` shows that the last check cannot escape it.

**SafeOrderApiProofs** — for all sets of requests, keys and payloads. The invariant says
that the mutex of a key, once made, is the one every handler of the key works with, and
that a handler inside holds it (`Serialized`); what a handler may answer follows from its
place (`Refinement`, where the step that stores an order is `Accept` and the step that
finds one is `Replay` or `RefuseReuse`, and a step next to a racing write is excused);
and of a handler that counted alone (`Alone`, for every handler outside `tangled`) the
counter never falls back behind its id: every count under way when it has its id gives a
greater one, so two handlers that counted alone never share an id, whatever the handlers
that raced before, between and after them did (`IdsDistinct`).

**SystemRunProofs** — for every number of requests, replay attempts and faults, every
policy, and both endpoints. Every step the system makes of the check is a step of
`SameKeyCheck` or starts it again (`EngineIsCheck`, `CheckStep`), so the invariant of
SameKeyCheckProofs holds of both runs, and its lemmas are cited through an instance
(`CheckHolds`). The check alone knows nothing of orders; the rest of the invariant,
`SysInv`, follows them across the network:

* `Wired`: what is in flight is awaited by a request of its own; `Budget`: every
  transmission belongs to a request, a replay attempt or a fault, which bounds them
  (`SentBound`);
* `Endpoints`: an order id that is saved, or in a handler's hand, has its order, and an
  answer names it; `Genuine`: a 2xx answer the check got names an order that exists.
  From these two follow `NoOrderVanishes`, and, with `FailProven`'s invariant,
  `FailMeansTwoOrders`: two answers that differ are two orders;
* `Traced`: every order of the first run against the unsafe endpoint, unless `net/http`
  resent a request, is one a slot got, or on its way to one, or somebody's slot failed, or
  it is the replay's, in a check none of whose slots was answered with an order; `Few`
  counts the last kind: as many as there were replay attempts. So a second order under a
  PASS was resent, or dropped (`PassHidesOnlyRepeats`);
* `OneByOne`, `Undisturbed`, `Second`: on a quiet network a sequential check has one
  handler at work, every slot is answered, and the second run finds the saved order.
  They give `SequentialLooksIdempotent`, `VerdictCountsOrders` for the first run, and
  `RerunPasses` for the second: finding 3 for every number of requests.

`Traced` and `Few` are where the proof changed the model: the property first said that
only a resend can hide an order, which is not so with three faults (see the exceptions
above). The assumptions are on the constants alone: at least one request and one replay
attempt, transient statuses between 100 and 599, numbers of faults.

**BodyProofs** — for every JSON number and all caps: the canonical form is a JSON number
of the same value (`FormKeepsNumber`), equal forms are equal numbers
(`EqualFormsEqualNumbers`), and equal numbers within the caps have one form
(`EqualNumbersEqualForms`). The value of a literal is its sign and its digit at each
power of ten (`SameNumber`), so that no sum over digits is needed; only the exponent is
read as a number, by a recursive function that is shown to exist (`DecimalIsNat`). The
cap on the length counts the literal as written, its exponent included. Between the two
spellings stand digits that neither begin nor end with 0 and the place of their point:
the algorithm extracts them (`KeptDigits`, over the three forms of a literal), writes
them (`PlainDigits`, over the three places of the point), and a number has only one such
notation (`OneNotation`). `KeptIsWhole` is the byte limit: what is kept is the whole
body, or the body is longer than the limit.

**BodyComparisonProofs** — for all documents of every depth, all lists of ignore paths,
all packings, caps and limits: the six properties of `BodyComparison`. None of them is
inductive, because they compare the end of the pipeline with the documents it began with.
The invariant `Inv` says what stands in between:

* `Received`, `Compiled`, `Parsed`: each phase was passed for the reason the code gives,
  and a body is a tree exactly when its bytes are a document;
* `SameTreated`: equal bytes are treated alike, whatever they are;
* `Stripped`, the heart of it: after each ignore path the content of the tree is what
  the paths so far leave of the document (`Left`), and after `Prepare` its canonical
  forms (`Seen`, `FormsOf`). `Left` speaks of the document and the set of paths alone:
  that a path sees a tree which earlier paths have changed makes no difference, and
  proving the step is proving just that (`LeftOn`);
* `Compared`: what `Compare` computed.

What each walk does is a lemma about one tree: `StruckContent` (one ignore path),
`PreparedContent` (volatile keys, numbers), `WalkFinds` (`DiffWalk` finds the places
nearest to the root where the forms differ), `WalkValues` (the values there differ), and
`SameContent` (a tree is determined by what it says). The prover has no induction over
data with an operator as its parameter; these lemmas get by with sets. A recursive
function is first shown to be one that satisfies its equation (`PrepareDef` and its
like: the function exists up to each depth, by the least depth for which it would not),
and `NodeInduction` says that a set that has every node whose children it has, has all.

The two ends meet in `FactsAre` (the facts of a document are `Seen` with numbers for
literals) and `OneFormOneFact` (two labels have one form exactly when they are one fact,
up to the caps; from `BodyProofs` by `ValueIsNumber`). `NoSpuriousDifference` and
`NoHiddenDifference` are then an equality of sets, read in the two directions, with
`SameContent` to come back from content to trees; `FieldsAreWhereBodiesDiffer` is
`WalkFinds` with facts for forms (`OneFormOneSolid`); `EvidenceShowsDifference` is
`WalkValues`, after `ReadPlain` and `ContentKeyed` have shown that the path reads back as
the place it was written for. The assumptions are that depth and caps are numbers, that
the limit is not 0, and that no key reads back as the key without a name. The proof
changed the model in one place: `NoSpuriousDifference` did not hold for a path with two
indexes in a row and more behind them (see the exceptions above), which no input of the
run had shown before; it has such a path now.

Only model-checked: liveness (`Terminates`, `Returns`, `FaultIsInjected`,
`EveryRequestIsAnswered`), which the prover cannot do under fairness. Every invariant and
every other action property of the passing runs is also proved.

## 5. Not modelled

Rendering and texts of the report, labels, the reproduction command's text; redaction;
the options, the config file and the safety guard, which validate before a run and
change none of its state (their ranges are those the models start from); profile
resolution; the derivation of keys (that different checks and trials have different keys
is assumed, that a single trial has the base key is in `SystemRun`); the summed counters of
`aggregateTrials`; filtering of headers, in the proxy and in the fingerprint; time, except
for the deadlines. The payload and control checks are not composed with an endpoint.

## 6. Plan

Order by what the behaviour is worth to the tool's promise.

1. *Done*: `Evidence`, `SameKeyCheck`, `BarrierBurst` with `Rendezvous`, `RunMatrix`,
   `FaultProxy`; `SafeOrderApi` with `IdempotentEndpoint`, `UnsafeOrderApi`, `SystemRun`;
   `NormalForm` with `BodyComparison`; and the proofs above.
2. `Grouping`: order and ties of groups over any number of slots, the counters of
   `aggregateTrials`, labels.
3. The whole matrix in front of an endpoint: keys per scenario, the payload and control
   checks against `IdempotentEndpoint`.
4. The fault proxy between `SameKeyCheck` and `UnsafeOrderApi`.
5. Proofs for what items 2 to 4 add; paths with brackets in their keys, character by
   character.
