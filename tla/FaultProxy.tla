----------------------------- MODULE FaultProxy -----------------------------
(***************************************************************************)
(* The fault-injecting reverse proxy between the client and the target     *)
(* (internal/httpx/faultproxy.go), with one handler goroutine per request, *)
(* and the two neighbours it is built on: the upstream server, and the     *)
(* net/http transport of the client under test.                            *)
(*                                                                         *)
(*   handler   none -> forwarding -> worked -> completed                   *)
(*                       -> dropping | relaying -> none                    *)
(*             forwarding | worked -> badgateway -> none                   *)
(*                                                                         *)
(* "worked" is the upstream's doing: the request was processed, and its    *)
(* answer has not reached the proxy.  The transport keeps the connections  *)
(* of answered requests; it sends a request again, by itself, when a       *)
(* reused connection breaks before the first byte of the answer and the    *)
(* request carries an Idempotency-Key (the documented rule of net/http).   *)
(* A definition named X_Y is X with the fault Y seeded; no specification   *)
(* uses it.                                                                *)
(***************************************************************************)
EXTENDS Integers, FiniteSets

CONSTANT Requests

ASSUME RequestsAssumption == IsFiniteSet(Requests) /\ Requests # {}

VARIABLES
    dropOnComplete, \* the proxy was started in lost-response mode
    replayable,     \* the key header is one net/http resends for
    handler,        \* each request's handler
    dropped,        \* the counter the drop is claimed with
    forward,        \* the counter of relayed requests
    closed,         \* the proxy was closed
    client,         \* what each request came to, for the client under test
    reused,         \* each request's connection has served another before
    idle,           \* pooled connections
    worked,         \* history: how often the upstream processed each request
    lost            \* history: requests whose answer was discarded

vars == <<dropOnComplete, replayable, handler, dropped, forward, closed,
          client, reused, idle, worked, lost>>
env == <<dropOnComplete, replayable>>

HandlerStates == {"none", "forwarding", "worked", "completed", "dropping",
                  "relaying", "badgateway"}
\* "cut": part of an answer that the client cannot tell from a whole one.
ClientStates == {"new", "sending", "waiting", "answered", "cut", "502", "error"}

TypeOK ==
    /\ dropOnComplete \in BOOLEAN /\ replayable \in BOOLEAN
    /\ handler \in [Requests -> HandlerStates]
    /\ dropped \in 0..1
    /\ forward \in Nat
    /\ closed \in BOOLEAN
    /\ client \in [Requests -> ClientStates]
    /\ reused \in [Requests -> BOOLEAN]
    /\ idle \in Nat
    /\ worked \in [Requests -> 0..2]
    /\ lost \subseteq Requests

Init ==
    /\ dropOnComplete \in BOOLEAN /\ replayable \in BOOLEAN
    /\ handler = [r \in Requests |-> "none"]
    /\ dropped = 0
    /\ forward = 0
    /\ closed = FALSE
    /\ client = [r \in Requests |-> "new"]
    /\ reused = [r \in Requests |-> FALSE]
    /\ idle = 0
    /\ worked = [r \in Requests |-> 0]
    /\ lost = {}

Goto(r, state) == handler' = [handler EXCEPT ![r] = state]

-----------------------------------------------------------------------------
(* The client under test and its transport.                                *)

Start(r) ==
    /\ client[r] = "new"
    /\ ~closed
    /\ client' = [client EXCEPT ![r] = "sending"]
    /\ UNCHANGED <<env, handler, dropped, forward, closed, reused, idle,
                   worked, lost>>

\* A pooled connection is taken when there is one.  The proxy's server runs a
\* handler for what arrives on it.
Connect(r) ==
    /\ client[r] = "sending"
    /\ client' = [client EXCEPT ![r] = "waiting"]
    /\ reused' = [reused EXCEPT ![r] = idle > 0]
    /\ idle' = IF idle > 0 THEN idle - 1 ELSE 0
    /\ Goto(r, "forwarding")
    /\ UNCHANGED <<env, dropped, forward, closed, worked, lost>>

\* The client's timeout, or Ctrl-C.  A handler that is running goes on.
GiveUp(r) ==
    /\ client[r] \in {"sending", "waiting"}
    /\ client' = [client EXCEPT ![r] = "error"]
    /\ UNCHANGED <<env, handler, dropped, forward, closed, reused, idle,
                   worked, lost>>

\* An answer for a client that still waits.
Deliver(r, answer) ==
    IF client[r] = "waiting"
    THEN /\ client' = [client EXCEPT ![r] = answer]
         /\ idle' = IF answer = "error" THEN idle ELSE idle + 1
    ELSE UNCHANGED <<client, idle>>

-----------------------------------------------------------------------------
(* The upstream.                                                           *)

UpstreamWorks(r) ==
    /\ handler[r] = "forwarding"
    /\ worked' = [worked EXCEPT ![r] = @ + 1]
    /\ Goto(r, "worked")
    /\ UNCHANGED <<env, dropped, forward, closed, client, reused, idle, lost>>

-----------------------------------------------------------------------------
(* handle.                                                                 *)

\* p.client.Do returned a response.
DoReturns(r) ==
    /\ handler[r] = "worked"
    /\ forward' = forward + 1
    /\ Goto(r, "completed")
    /\ UNCHANGED <<env, dropped, closed, client, reused, idle, worked, lost>>

\* p.client.Do returned an error: the upstream is unreachable, its answer was
\* lost, or the client left and took the request's context with it.
DoFails(r) ==
    /\ handler[r] \in {"forwarding", "worked"}
    /\ Goto(r, "badgateway")
    /\ UNCHANGED <<env, dropped, forward, closed, client, reused, idle, worked,
                   lost>>

BadGateway(r) ==
    /\ handler[r] = "badgateway"
    /\ Deliver(r, "502")
    /\ Goto(r, "none")
    /\ UNCHANGED <<env, dropped, forward, closed, reused, worked, lost>>

TakeDrop_LoadThenStore(r) ==
    /\ \/ handler[r] = "completed" /\ dropOnComplete /\ dropped = 0
          /\ Goto(r, "claiming") /\ UNCHANGED <<dropped, lost>>
       \/ handler[r] = "claiming" /\ dropped' = dropped + 1
          /\ lost' = lost \cup {r} /\ Goto(r, "dropping")
       \/ handler[r] = "completed" /\ ~(dropOnComplete /\ dropped = 0)
          /\ Goto(r, "relaying") /\ UNCHANGED <<dropped, lost>>
    /\ UNCHANGED <<env, forward, closed, client, reused, idle, worked>>
TakeDrop_BeforeForwarding(r) ==
    /\ handler[r] \in {"forwarding", "completed"}
    /\ IF dropOnComplete /\ dropped = 0
       THEN dropped' = 1 /\ lost' = lost \cup {r} /\ Goto(r, "dropping")
       ELSE /\ handler[r] = "completed"
            /\ Goto(r, "relaying")
            /\ UNCHANGED <<dropped, lost>>
    /\ UNCHANGED <<env, forward, closed, client, reused, idle, worked>>
TakeDrop_OnlyForAWaitingClient(r) ==
    /\ handler[r] = "completed"
    /\ IF dropOnComplete /\ dropped = 0 /\ client[r] = "waiting" /\ ~reused[r]
       THEN dropped' = 1 /\ lost' = lost \cup {r} /\ Goto(r, "dropping")
       ELSE Goto(r, "relaying") /\ UNCHANGED <<dropped, lost>>
    /\ UNCHANGED <<env, forward, closed, client, reused, idle, worked>>
TakeDrop_NeverReset(r) ==
    /\ handler[r] = "completed"
    /\ IF dropOnComplete
       THEN dropped' = dropped + 1 /\ lost' = lost \cup {r} /\ Goto(r, "dropping")
       ELSE Goto(r, "relaying") /\ UNCHANGED <<dropped, lost>>
    /\ UNCHANGED <<env, forward, closed, client, reused, idle, worked>>
\* takeDrop: the compare-and-swap claims the one drop.
TakeDrop(r) ==
    /\ handler[r] = "completed"
    /\ IF dropOnComplete /\ dropped = 0
       THEN dropped' = 1 /\ lost' = lost \cup {r} /\ Goto(r, "dropping")
       ELSE Goto(r, "relaying") /\ UNCHANGED <<dropped, lost>>
    /\ UNCHANGED <<env, forward, closed, client, reused, idle, worked>>

DropConnection_ThenRelay(r) ==
    /\ handler[r] = "dropping"
    /\ Goto(r, "relaying")
    /\ UNCHANGED <<env, dropped, forward, closed, client, reused, idle, worked,
                   lost>>
\* dropConnection: not one byte was written.  On a reused connection the
\* transport answers that by sending a replayable request once more.
DropConnection(r) ==
    /\ handler[r] = "dropping"
    /\ IF client[r] = "waiting" /\ reused[r] /\ replayable
       THEN client' = [client EXCEPT ![r] = "sending"] /\ UNCHANGED idle
       ELSE Deliver(r, "error")
    /\ Goto(r, "none")
    /\ UNCHANGED <<env, dropped, forward, closed, reused, worked, lost>>

\* The upstream's body is copied.  When it breaks off, io.Copy's error is
\* ignored: a Content-Length that was copied too betrays the short body, a
\* chunked answer ends as if it were complete.
Relay(r) ==
    /\ handler[r] = "relaying"
    /\ \E answer \in {"answered", "cut", "error"} : Deliver(r, answer)
    /\ Goto(r, "none")
    /\ UNCHANGED <<env, dropped, forward, closed, reused, worked, lost>>

-----------------------------------------------------------------------------
\* The deferred Close of runTest: no request is under way for the client.
Close ==
    /\ ~closed
    /\ \A r \in Requests : client[r] \notin {"sending", "waiting"}
    /\ closed' = TRUE
    /\ UNCHANGED <<env, handler, dropped, forward, client, reused, idle, worked,
                   lost>>

\* What the handler does by itself, and what needs the upstream.
Own(r) == BadGateway(r) \/ TakeDrop(r) \/ DropConnection(r)
Relayed(r) == DoReturns(r) \/ DoFails(r) \/ Relay(r)

Quiet == /\ \A r \in Requests : handler[r] = "none"
         /\ closed
         /\ UNCHANGED vars

Next ==
    \/ \E r \in Requests : Start(r) \/ Connect(r) \/ GiveUp(r)
                           \/ UpstreamWorks(r) \/ Own(r) \/ Relayed(r)
    \/ Close
    \/ Quiet

\* A handler goroutine runs when it can.  The upstream owes nothing, and no
\* client has to give up.
Spec == Init /\ [][Next]_vars /\ \A r \in Requests : WF_vars(Own(r))

-----------------------------------------------------------------------------
(* Properties.                                                             *)

Completed == {r \in Requests : handler[r] = "completed"}

\* One controlled failure: however many answers complete at the same time, at
\* most one is discarded, none outside lost-response mode, and the counter
\* the tests read says so ("Exactly one response is dropped per proxy
\* lifetime").
OneControlledLoss ==
    /\ Cardinality(lost) = dropped
    /\ dropped <= IF dropOnComplete THEN 1 ELSE 0

\* The lost answer is the answer to work that was done, and while the drop is
\* unclaimed nobody is answered by the upstream ("the upstream request must
\* [have] COMPLETED before the response may be dropped").
LossIsOfTheFirstWork ==
    /\ \A r \in lost : worked[r] > 0
    /\ dropOnComplete /\ lost = {} =>
          \A r \in Requests : client[r] \notin {"answered", "cut"}

\* A request whose answer was discarded is answered, if at all, for work that
\* the upstream did again: the discarded answer itself reaches nobody.
LostAnswerStaysLost ==
    \A r \in lost : client[r] \in {"answered", "cut"} => worked[r] = 2

\* In lost-response mode a completed answer is enough for the fault to be
\* injected, whether or not its client still waits; and a client whose request
\* is not sent again learns of its loss without waiting for a timeout or for
\* the upstream.
FaultIsInjected ==
    /\ (dropOnComplete /\ Completed # {}) ~> (lost # {})
    /\ \A r \in Requests :
          (~replayable /\ r \in lost) ~> (client[r] = "error")

\* "the proxy itself never changes verdicts" (faultproxy_test.go): what the
\* client takes for an answer is one the upstream gave in full.
ProxyForgesNoAnswer == \A r \in Requests : client[r] # "cut"

=============================================================================
