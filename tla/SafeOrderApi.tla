---------------------------- MODULE SafeOrderApi ----------------------------
(***************************************************************************)
(* The safe demo endpoint (examples/safe-order-api/main.go): one handler   *)
(* per request, a mutex per idempotency key, and a table of stored         *)
(* responses.                                                              *)
(*                                                                         *)
(* The mutex of a key orders the handlers of that key.  Nothing orders the *)
(* handlers of different keys, which share the map of orders and the       *)
(* counter of order ids: keyMu is held only while the mutex of a key is    *)
(* looked up.  A map access that meets a write of another handler is       *)
(* undefined: the runtime ends the process when it notices, otherwise the  *)
(* entry may be missed or lost.  The increment of the counter is a load    *)
(* and a store, and the id of the order is read once more.                 *)
(*                                                                         *)
(* A definition named X_Y is X with the fault Y seeded: no specification   *)
(* uses it; it shows which property notices that fault.                    *)
(***************************************************************************)
EXTENDS Integers

CONSTANTS
    Requests,   \* the requests; each has a handler of its own
    Keys,       \* idempotency keys
    Payloads,   \* well-formed request bodies
    Nobody      \* no request

VARIABLES
    ask,        \* what each request asks for
    pc,         \* where its handler is
    locks,      \* s.locks: the mutex of a key, named after its first handler
    mu,         \* the mutex a handler works with
    holder,     \* who holds a mutex
    next,       \* s.next
    id,         \* what the handler has read of s.next
    orders,     \* s.orders: the creating request and the order id
    answer,     \* what the handler has decided to answer
    raced,      \* history: a map access met a write of another handler
    tangled,    \* history: the handlers that counted while another one did
    crashed     \* the runtime has ended the process

vars == <<ask, pc, locks, mu, holder, next, id, orders, answer, raced, tangled,
          crashed>>

Malformed == [key |-> "none", payload |-> "none"]
Asks == [key : Keys, payload : Payloads] \cup {Malformed}
First == 400
Unstored == [by |-> Nobody, id |-> 0]
Order(r) == [status |-> 201, by |-> r]
Conflict == [status |-> 409]
BadRequest == [status |-> 400]
Unanswered == [status |-> 0]
Answers == {Order(r) : r \in Requests} \cup {Conflict, BadRequest, Unanswered}

ASSUME NobodyAssumption == Nobody \notin Requests
ASSUME KeysAssumption == "none" \notin Keys

KeyOf(r) == ask[r].key
PayloadOf(r) == ask[r].payload

\* The places of handleCreate; from "find" to "reply" the mutex is held.
Places == {"start", "lock", "find", "load", "store", "read", "save", "saving",
           "reply", "done"}
Inside == {"find", "load", "store", "read", "save", "saving", "reply"}

TypeOK ==
    /\ ask \in [Requests -> Asks]
    /\ pc \in [Requests -> Places]
    /\ locks \in [Keys -> Requests \cup {Nobody}]
    /\ mu \in [Requests -> Requests \cup {Nobody}]
    /\ \A r \in Requests : pc[r] \in Inside \cup {"lock"} => mu[r] \in Requests
    /\ holder \in [Requests -> Requests \cup {Nobody}]
    /\ next \in Nat
    /\ id \in [Requests -> Nat]
    /\ orders \in [Keys -> [by : Requests \cup {Nobody}, id : Nat]]
    /\ answer \in [Requests -> Answers]
    /\ raced \in BOOLEAN
    /\ tangled \subseteq Requests
    /\ crashed \in BOOLEAN

Init ==
    /\ ask \in [Requests -> Asks]
    /\ pc = [r \in Requests |-> "start"]
    /\ locks = [k \in Keys |-> Nobody]
    /\ mu = [r \in Requests |-> Nobody]
    /\ holder = [r \in Requests |-> Nobody]
    /\ next = First
    /\ id = [r \in Requests |-> 0]
    /\ orders = [k \in Keys |-> Unstored]
    /\ answer = [r \in Requests |-> Unanswered]
    /\ raced = FALSE
    /\ tangled = {}
    /\ crashed = FALSE

At(r, place) == ~crashed /\ pc[r] = place
Goto(r, place) == pc' = [pc EXCEPT ![r] = place]

-----------------------------------------------------------------------------
(* Entering.                                                               *)

Refuse(r) ==
    /\ At(r, "start")
    /\ ask[r] = Malformed
    /\ answer' = [answer EXCEPT ![r] = BadRequest]
    /\ Goto(r, "done")
    /\ UNCHANGED <<ask, locks, mu, holder, next, id, orders, raced, tangled,
                   crashed>>

LockFor_LookupOnly(r) ==
    /\ At(r, "start")
    /\ ask[r] # Malformed
    /\ mu' = [mu EXCEPT ![r] = locks[KeyOf(r)]]
    /\ Goto(r, "lock")
    /\ UNCHANGED <<ask, locks, holder, next, id, orders, answer, raced,
                   tangled, crashed>>

LockFor_NewEachTime(r) ==
    /\ At(r, "start")
    /\ ask[r] # Malformed
    /\ locks' = [locks EXCEPT ![KeyOf(r)] = r]
    /\ mu' = [mu EXCEPT ![r] = r]
    /\ Goto(r, "lock")
    /\ UNCHANGED <<ask, holder, next, id, orders, answer, raced, tangled,
                   crashed>>

\* lockFor: one critical section of keyMu.
LockFor(r) ==
    /\ At(r, "start")
    /\ ask[r] # Malformed
    /\ locks' = IF locks[KeyOf(r)] = Nobody
                THEN [locks EXCEPT ![KeyOf(r)] = r] ELSE locks
    /\ mu' = [mu EXCEPT ![r] = locks'[KeyOf(r)]]
    /\ Goto(r, "lock")
    /\ UNCHANGED <<ask, holder, next, id, orders, answer, raced, tangled,
                   crashed>>

Lock(r) ==
    /\ At(r, "lock")
    /\ holder[mu[r]] = Nobody
    /\ holder' = [holder EXCEPT ![mu[r]] = r]
    /\ Goto(r, "find")
    /\ UNCHANGED <<ask, locks, mu, next, id, orders, answer, raced, tangled,
                   crashed>>

-----------------------------------------------------------------------------
(* The map of orders.                                                      *)

\* Another handler is inside its write to the map.
Racing(r) == \E w \in Requests \ {r} : pc[w] = "saving"

\* fatal error: concurrent map writes (or read and write).
Throw(r) ==
    /\ At(r, "find") \/ At(r, "save") \/ At(r, "saving")
    /\ Racing(r)
    /\ raced' = TRUE
    /\ crashed' = TRUE
    /\ UNCHANGED <<ask, pc, locks, mu, holder, next, id, orders, answer,
                   tangled>>

FindStored_AnyPayload(r) ==
    /\ At(r, "find")
    /\ LET st == orders[KeyOf(r)] IN
          /\ st.by # Nobody
          /\ answer' = [answer EXCEPT ![r] = Order(st.by)]
    /\ raced' = (raced \/ Racing(r))
    /\ Goto(r, "reply")
    /\ UNCHANGED <<ask, locks, mu, holder, next, id, orders, tangled, crashed>>

\* The stored response, or 409 for another payload under the same key.
FindStored(r) ==
    /\ At(r, "find")
    /\ LET st == orders[KeyOf(r)] IN
          /\ st.by # Nobody
          /\ answer' = [answer EXCEPT ![r] =
                           IF PayloadOf(st.by) = PayloadOf(r)
                           THEN Order(st.by) ELSE Conflict]
    /\ raced' = (raced \/ Racing(r))
    /\ Goto(r, "reply")
    /\ UNCHANGED <<ask, locks, mu, holder, next, id, orders, tangled, crashed>>

FindNothing(r) ==
    /\ At(r, "find")
    /\ orders[KeyOf(r)].by = Nobody \/ Racing(r)
    /\ raced' = (raced \/ Racing(r))
    /\ Goto(r, "load")
    /\ UNCHANGED <<ask, locks, mu, holder, next, id, orders, answer, tangled,
                   crashed>>

BeginSave(r) ==
    /\ At(r, "save")
    /\ raced' = (raced \/ Racing(r))
    /\ Goto(r, "saving")
    /\ UNCHANGED <<ask, locks, mu, holder, next, id, orders, answer, tangled,
                   crashed>>

EndSave(r) ==
    /\ At(r, "saving")
    /\ \/ orders' = [orders EXCEPT ![KeyOf(r)] = [by |-> r, id |-> id[r]]]
       \/ raced /\ UNCHANGED orders
    /\ answer' = [answer EXCEPT ![r] = Order(r)]
    /\ Goto(r, "reply")
    /\ UNCHANGED <<ask, locks, mu, holder, next, id, raced, tangled, crashed>>

-----------------------------------------------------------------------------
(* s.next++ and OrderID: s.next.                                           *)

Counting(r) == pc[r] \in {"store", "read"}
Others(r) == {s \in Requests \ {r} : Counting(s)}

\* Of two handlers that count at once, one begins while the other one counts.
BeginCount(r) ==
    tangled' = IF Others(r) = {} THEN tangled ELSE tangled \cup {r} \cup Others(r)

LoadNext(r) ==
    /\ At(r, "load")
    /\ id' = [id EXCEPT ![r] = next + 1]
    /\ BeginCount(r)
    /\ Goto(r, "store")
    /\ UNCHANGED <<ask, locks, mu, holder, next, orders, answer, raced,
                   crashed>>

StoreNext_Forgotten(r) ==
    /\ At(r, "store")
    /\ Goto(r, "read")
    /\ UNCHANGED <<ask, locks, mu, holder, next, id, orders, answer, raced,
                   tangled, crashed>>

StoreNext(r) ==
    /\ At(r, "store")
    /\ next' = id[r]
    /\ Goto(r, "read")
    /\ UNCHANGED <<ask, locks, mu, holder, id, orders, answer, raced, tangled,
                   crashed>>

\* The build may read the field again or keep the value it has stored.
ReadId(r) ==
    /\ At(r, "read")
    /\ \/ id' = [id EXCEPT ![r] = next]
       \/ UNCHANGED id
    /\ Goto(r, "save")
    /\ UNCHANGED <<ask, locks, mu, holder, next, orders, answer, raced,
                   tangled, crashed>>

-----------------------------------------------------------------------------
(* Leaving.                                                                *)

Finish_NoUnlockOnConflict(r) ==
    /\ At(r, "reply")
    /\ holder' = IF answer[r] = Conflict THEN holder
                 ELSE [holder EXCEPT ![mu[r]] = Nobody]
    /\ Goto(r, "done")
    /\ UNCHANGED <<ask, locks, mu, next, id, orders, answer, raced, tangled,
                   crashed>>

\* The answer is written, then the deferred Unlock runs.
Finish(r) ==
    /\ At(r, "reply")
    /\ holder' = [holder EXCEPT ![mu[r]] = Nobody]
    /\ Goto(r, "done")
    /\ UNCHANGED <<ask, locks, mu, next, id, orders, answer, raced, tangled,
                   crashed>>

Handler(r) ==
    \/ Refuse(r) \/ LockFor(r) \/ Lock(r)
    \/ FindStored(r) \/ FindNothing(r)
    \/ LoadNext(r) \/ StoreNext(r) \/ ReadId(r)
    \/ BeginSave(r) \/ EndSave(r)
    \/ Finish(r)

\* Everything was answered, or the process is gone.
Stopped ==
    /\ crashed \/ \A r \in Requests : pc[r] = "done"
    /\ UNCHANGED vars

Next == (\E r \in Requests : Handler(r) \/ Throw(r)) \/ Stopped

\* The scheduler lets every handler go on; a mutex that stays free is taken.
Spec == Init /\ [][Next]_vars /\ \A r \in Requests : WF_vars(Handler(r))

-----------------------------------------------------------------------------
(* Properties.                                                             *)

Busy(r) == pc[r] \in Inside

\* The handlers of one key run one after the other from the lookup to the
\* answer ("a per-idempotency-key mutex serializes check-then-insert"), also
\* when the first requests of a key meet in lockFor, and also after a race
\* of other keys: nothing of the lock table is shared without keyMu.
KeyIsSerialized ==
    \A r, s \in Requests :
        r # s /\ KeyOf(r) = KeyOf(s) => ~(Busy(r) /\ Busy(s))

acceptedBy == [k \in Keys |-> orders[k].by]
Endpoint == INSTANCE IdempotentEndpoint WITH accepted <- acceptedBy

\* The endpoint does in many steps what IdempotentEndpoint does in one: it
\* accepts one request per key and answers the others from it ("first-writer
\* wins, everyone else replays"), up to a race of two keys in the map.
ImplementsIdempotentEndpoint ==
    /\ Endpoint!Init
    /\ [][Endpoint!Next \/ raced']_<<ask, acceptedBy, answer>>

\* Two orders of the table have different ids, unless the handler of one of
\* them was between the increment and the second read of s.next together with
\* another handler: an update of theirs may be lost, the id of the other read,
\* or a stale store may set the counter back to an id already taken, for a
\* later handler to take again.  Two handlers that each counted alone never
\* share an id, whatever the handlers before, between and after them did.
OrderIdsAreDistinct ==
    \A k, l \in Keys :
        /\ k # l
        /\ orders[k].by # Nobody /\ orders[l].by # Nobody
        /\ orders[k].id = orders[l].id
        => orders[k].by \in tangled \/ orders[l].by \in tangled

\* Every request gets its answer, or the process has crashed: no handler
\* waits forever for a mutex that an early return left locked.
EveryRequestIsAnswered ==
    \A r \in Requests :
        <>(crashed \/ (pc[r] = "done" /\ answer[r] # Unanswered))

\* "keyMu guards maps and per-key lock table": no handler touches the map of
\* orders while another one writes it.
MapsAreGuarded == ~raced

=============================================================================
