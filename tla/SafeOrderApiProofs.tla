------------------------- MODULE SafeOrderApiProofs -------------------------
(***************************************************************************)
(* Theorems about SafeOrderApi, for every set of requests, keys and        *)
(* payloads.                                                               *)
(*                                                                         *)
(* The invariant has three parts.  Locked: a handler past lockFor has the  *)
(* mutex of its key, and one inside holds it.  Clean: until the first race *)
(* in the map, a handler between lookup and save is the first of its key.  *)
(* Counted: the id of a handler that counted alone is behind the counter   *)
(* from then on, behind every count under way, and nobody else's.          *)
(***************************************************************************)
EXTENDS SafeOrderApi, TLAPS

\* A handler past lockFor has the mutex of its key; inside, it holds it.
Locked ==
    \A r \in Requests :
        /\ pc[r] \in Inside \cup {"lock"} =>
              /\ ask[r] # Malformed
              /\ mu[r] = locks[KeyOf(r)]
              /\ mu[r] \in Requests
        /\ pc[r] \in Inside => holder[mu[r]] = r

Creating == {"load", "store", "read", "save", "saving"}

\* Without a race, what a handler saw of its key is still so when it saves.
Clean ==
    ~raced =>
        \A r \in Requests :
            /\ pc[r] \in {"start", "lock", "find"} \cup Creating =>
                  answer[r] = Unanswered
            /\ pc[r] \in Creating => orders[KeyOf(r)].by = Nobody

Numbered(r) ==
    pc[r] \in {"save", "saving"} \/ \E k \in Keys : orders[k].by = r

\* An order carries the id of its handler.
Recorded(k) ==
    orders[k].by # Nobody =>
        /\ orders[k].id = id[orders[k].by]
        /\ KeyOf(orders[k].by) = k
        /\ pc[orders[k].by] \in {"reply", "done"}

\* Of a handler that counts alone: what it knows of the counter is so, and
\* once it has its id, the ids of the others that counted alone are others and
\* every count under way will give a greater one.
Alone(r) ==
    /\ pc[r] = "store" => id[r] = next + 1
    /\ pc[r] = "read" => id[r] = next
    /\ Counting(r) => \A s \in Requests \ {r} : ~Counting(s)
    /\ Numbered(r) =>
          /\ id[r] <= next
          /\ \A s \in Requests \ {r} :
                /\ Counting(s) => id[s] > id[r]
                /\ pc[s] = "read" => next > id[r]
                /\ s \notin tangled /\ Numbered(s) => id[s] # id[r]

Counted ==
    /\ \A k \in Keys : Recorded(k)
    /\ \A r \in Requests \ tangled : Alone(r)

Inv == TypeOK /\ Locked /\ Clean /\ Counted

LEMMA KeyTypes ==
    ASSUME TypeOK
    PROVE  \A r \in Requests : ask[r] # Malformed => KeyOf(r) \in Keys
BY DEF TypeOK, Asks, KeyOf

\* Two handlers of one key are never inside together.
LEMMA LockedSerializes ==
    ASSUME TypeOK, Locked
    PROVE  KeyIsSerialized
BY DEF Locked, KeyIsSerialized, Busy, Inside, KeyOf

LEMMA BooleanStep ==
    TypeOK /\ [Next]_vars => raced' \in BOOLEAN /\ crashed' \in BOOLEAN
<1> SUFFICES ASSUME TypeOK, [Next]_vars
             PROVE  raced' \in BOOLEAN /\ crashed' \in BOOLEAN
  OBVIOUS
<1>1. raced \in BOOLEAN /\ crashed \in BOOLEAN
  BY DEF TypeOK
<1>2. CASE UNCHANGED vars
  <2>1. raced' = raced /\ crashed' = crashed
    BY <1>2 DEF vars
  <2> QED
    BY <1>1, <2>1
<1>3. ASSUME NEW r \in Requests, Handler(r) \/ Throw(r)
      PROVE  raced' \in BOOLEAN /\ crashed' \in BOOLEAN
  <2>1. \/ raced' = raced \/ raced' = (raced \/ Racing(r)) \/ raced' = TRUE
    BY <1>3, Zenon DEF Handler, Throw, Refuse, LockFor, Lock, FindStored,
          FindNothing, LoadNext, StoreNext, ReadId, BeginSave, EndSave, Finish
  <2>2. crashed' = crashed \/ crashed' = TRUE
    BY <1>3, Zenon DEF Handler, Throw, Refuse, LockFor, Lock, FindStored,
          FindNothing, LoadNext, StoreNext, ReadId, BeginSave, EndSave, Finish
  <2> QED
    BY <1>1, <2>1, <2>2, Zenon
<1> QED
  BY <1>2, <1>3 DEF Next, Stopped

LEMMA InitInv == Init => Inv
<1> SUFFICES ASSUME Init PROVE Inv
  OBVIOUS
<1>0. /\ pc = [r \in Requests |-> "start"]
      /\ answer = [r \in Requests |-> Unanswered]
      /\ orders = [k \in Keys |-> Unstored]
  BY DEF Init
<1>1. TypeOK
  <2>1. raced \in BOOLEAN /\ crashed \in BOOLEAN
    BY Zenon DEF Init
  <2>2. answer \in [Requests -> Answers]
    BY DEF Answers, Init
  <2> QED
    BY <2>1, <2>2 DEF TypeOK, Init, Places, Inside, Unstored, First
<1>2. Locked
  <2>1. ASSUME NEW r \in Requests PROVE pc[r] \notin Inside \cup {"lock"}
    BY <1>0 DEF Inside
  <2> QED
    BY <2>1, Zenon DEF Locked
<1>3. Clean
  <2>1. ASSUME NEW r \in Requests
        PROVE  pc[r] \notin Creating /\ answer[r] = Unanswered
    BY <1>0 DEF Creating
  <2> QED
    BY <2>1, Zenon DEF Clean
<1>4. Counted
  BY <1>0, NobodyAssumption
  DEF Counted, Recorded, Alone, Counting, Numbered, Unstored
<1>5. QED
  BY <1>1, <1>2, <1>3, <1>4 DEF Inv

-----------------------------------------------------------------------------
(* Types.                                                                  *)

LEMMA TypeNext == TypeOK /\ Locked /\ [Next]_vars => TypeOK'
<1> SUFFICES ASSUME TypeOK, Locked, [Next]_vars PROVE TypeOK'
  OBVIOUS
<1> USE DEF TypeOK, Places, Inside
<1>b. raced' \in BOOLEAN /\ crashed' \in BOOLEAN
  BY BooleanStep
<1>a. \A r \in Requests :
         {Order(r), Conflict, BadRequest, Unanswered} \subseteq Answers
  BY DEF Answers
<1>1. ASSUME NEW r \in Requests, Refuse(r) PROVE TypeOK'
  BY <1>1, <1>a, <1>b DEF Refuse, At, Goto
<1>2. ASSUME NEW r \in Requests, LockFor(r) PROVE TypeOK'
  BY <1>2, <1>b, KeyTypes DEF LockFor, At, Goto
<1>3. ASSUME NEW r \in Requests, Lock(r) PROVE TypeOK'
  BY <1>3, <1>b DEF Lock, At, Goto
<1>4. ASSUME NEW r \in Requests, Throw(r) PROVE TypeOK'
  BY <1>4, <1>b DEF Throw, At, Goto
<1>5. ASSUME NEW r \in Requests, FindStored(r) PROVE TypeOK'
  <2>1. KeyOf(r) \in Keys /\ ask[r] # Malformed
    BY <1>5, KeyTypes DEF FindStored, Locked, At
  <2>2. orders[KeyOf(r)].by \in Requests
    BY <1>5, <2>1 DEF FindStored
  <2> QED
    BY <1>5, <1>a, <1>b, <2>2 DEF FindStored, At, Goto
<1>6. ASSUME NEW r \in Requests, FindNothing(r) PROVE TypeOK'
  BY <1>6, <1>b DEF FindNothing, At, Goto
<1>7. ASSUME NEW r \in Requests, LoadNext(r) PROVE TypeOK'
  BY <1>7, <1>b DEF LoadNext, BeginCount, Others, At, Goto
<1>8. ASSUME NEW r \in Requests, StoreNext(r) PROVE TypeOK'
  BY <1>8, <1>b DEF StoreNext, At, Goto
<1>9. ASSUME NEW r \in Requests, ReadId(r) PROVE TypeOK'
  BY <1>9, <1>b DEF ReadId, At, Goto
<1>10. ASSUME NEW r \in Requests, BeginSave(r) PROVE TypeOK'
  BY <1>10, <1>b DEF BeginSave, At, Goto
<1>11. ASSUME NEW r \in Requests, EndSave(r) PROVE TypeOK'
  <2>1. orders' \in [Keys -> [by : Requests \cup {Nobody}, id : Nat]]
    BY <1>11 DEF EndSave
  <2> QED
    BY <1>11, <1>a, <1>b, <2>1 DEF EndSave, At, Goto
<1>12. ASSUME NEW r \in Requests, Finish(r) PROVE TypeOK'
  BY <1>12, <1>b DEF Finish, At, Goto
<1>13. CASE UNCHANGED vars
  BY <1>13 DEF vars
<1> QED
  BY <1>1, <1>2, <1>3, <1>4, <1>5, <1>6, <1>7, <1>8, <1>9, <1>10, <1>11,
     <1>12, <1>13 DEF Next, Handler, Stopped

-----------------------------------------------------------------------------
(* The lock table.                                                         *)

LEMMA LockedNext == TypeOK /\ Locked /\ [Next]_vars => Locked'
<1> SUFFICES ASSUME TypeOK, Locked, [Next]_vars PROVE Locked'
  OBVIOUS
<1> USE NobodyAssumption DEF TypeOK, Locked, Places, Inside, KeyOf
<1>1. ASSUME NEW r \in Requests, Refuse(r) PROVE Locked'
  BY <1>1 DEF Refuse, At, Goto
<1>2. ASSUME NEW r \in Requests, LockFor(r) PROVE Locked'
  BY <1>2, KeyTypes DEF LockFor, At, Goto
<1>3. ASSUME NEW r \in Requests, Lock(r) PROVE Locked'
  BY <1>3 DEF Lock, At, Goto
<1>4. ASSUME NEW r \in Requests, Throw(r) PROVE Locked'
  BY <1>4 DEF Throw, At, Goto
<1>5. ASSUME NEW r \in Requests, FindStored(r) PROVE Locked'
  BY <1>5 DEF FindStored, At, Goto
<1>6. ASSUME NEW r \in Requests, FindNothing(r) PROVE Locked'
  BY <1>6 DEF FindNothing, At, Goto
<1>7. ASSUME NEW r \in Requests, LoadNext(r) PROVE Locked'
  BY <1>7 DEF LoadNext, At, Goto
<1>8. ASSUME NEW r \in Requests, StoreNext(r) PROVE Locked'
  BY <1>8 DEF StoreNext, At, Goto
<1>9. ASSUME NEW r \in Requests, ReadId(r) PROVE Locked'
  BY <1>9 DEF ReadId, At, Goto
<1>10. ASSUME NEW r \in Requests, BeginSave(r) PROVE Locked'
  BY <1>10 DEF BeginSave, At, Goto
<1>11. ASSUME NEW r \in Requests, EndSave(r) PROVE Locked'
  BY <1>11 DEF EndSave, At, Goto
<1>12. ASSUME NEW r \in Requests, Finish(r) PROVE Locked'
  BY <1>12 DEF Finish, At, Goto
<1>13. CASE UNCHANGED vars
  BY <1>13 DEF vars
<1> QED
  BY <1>1, <1>2, <1>3, <1>4, <1>5, <1>6, <1>7, <1>8, <1>9, <1>10, <1>11,
     <1>12, <1>13 DEF Next, Handler, Stopped

-----------------------------------------------------------------------------
(* Until the first race.                                                   *)

LEMMA CleanNext == Inv /\ [Next]_vars => Clean'
<1> SUFFICES ASSUME Inv, [Next]_vars PROVE Clean'
  OBVIOUS
<1> KeyIsSerialized
  BY LockedSerializes DEF Inv
<1> USE DEF Inv, TypeOK, Clean, Creating, Places, KeyIsSerialized, Busy,
            Inside, KeyOf
<1>1. ASSUME NEW r \in Requests, Refuse(r) PROVE Clean'
  BY <1>1 DEF Refuse, At, Goto
<1>2. ASSUME NEW r \in Requests, LockFor(r) PROVE Clean'
  BY <1>2, KeyTypes DEF LockFor, At, Goto
<1>3. ASSUME NEW r \in Requests, Lock(r) PROVE Clean'
  BY <1>3 DEF Lock, At, Goto
<1>4. ASSUME NEW r \in Requests, Throw(r) PROVE Clean'
  BY <1>4 DEF Throw, At, Goto
<1>5. ASSUME NEW r \in Requests, FindStored(r) PROVE Clean'
  BY <1>5 DEF FindStored, At, Goto
<1>6. ASSUME NEW r \in Requests, FindNothing(r) PROVE Clean'
  BY <1>6 DEF FindNothing, At, Goto
<1>7. ASSUME NEW r \in Requests, LoadNext(r) PROVE Clean'
  BY <1>7 DEF LoadNext, At, Goto
<1>8. ASSUME NEW r \in Requests, StoreNext(r) PROVE Clean'
  BY <1>8 DEF StoreNext, At, Goto
<1>9. ASSUME NEW r \in Requests, ReadId(r) PROVE Clean'
  BY <1>9 DEF ReadId, At, Goto
<1>10. ASSUME NEW r \in Requests, BeginSave(r) PROVE Clean'
  BY <1>10 DEF BeginSave, At, Goto
<1>11. ASSUME NEW r \in Requests, EndSave(r) PROVE Clean'
  <2> SUFFICES ASSUME ~raced', NEW s \in Requests
               PROVE  /\ pc'[s] \in {"start", "lock", "find"} \cup Creating =>
                            answer'[s] = Unanswered
                      /\ pc'[s] \in Creating =>
                            orders'[ask'[s].key].by = Nobody
    BY DEF Clean, KeyOf
  <2>1. ~raced /\ ask' = ask
    BY <1>11 DEF EndSave
  <2>2. CASE s = r
    BY <1>11, <2>2 DEF EndSave, At, Goto
  <2>3. CASE s # r
    <3>1. pc'[s] = pc[s] /\ answer'[s] = answer[s]
      BY <1>11, <2>3 DEF EndSave, Goto
    <3>2. pc[s] \in Creating => ask[s].key # ask[r].key
      BY <1>11, <2>3 DEF EndSave, At
    <3>3. pc[s] \in Creating => orders'[ask[s].key] = orders[ask[s].key]
      <4>1. pc[s] \in Creating => ask[s].key \in Keys
        BY KeyTypes DEF Locked
      <4> QED
        BY <1>11, <3>2, <4>1 DEF EndSave
    <3> QED
      BY <2>1, <3>1, <3>3
  <2> QED
    BY <2>2, <2>3
<1>12. ASSUME NEW r \in Requests, Finish(r) PROVE Clean'
  BY <1>12 DEF Finish, At, Goto
<1>13. CASE UNCHANGED vars
  BY <1>13 DEF vars
<1> QED
  BY <1>1, <1>2, <1>3, <1>4, <1>5, <1>6, <1>7, <1>8, <1>9, <1>10, <1>11,
     <1>12, <1>13 DEF Next, Handler, Stopped

-----------------------------------------------------------------------------
(* Counting.                                                               *)

\* A step that leaves the counter, the ids, the orders and the places that
\* matter to them alone.
LEMMA CountedStutter ==
    ASSUME TypeOK, Counted, UNCHANGED <<ask, next, id, orders, tangled>>,
           \A s \in Requests :
              /\ pc'[s] = "store" <=> pc[s] = "store"
              /\ pc'[s] = "read" <=> pc[s] = "read"
              /\ pc'[s] \in {"save", "saving"} <=> pc[s] \in {"save", "saving"}
              /\ pc[s] \in {"reply", "done"} => pc'[s] \in {"reply", "done"}
    PROVE  Counted'
<1>1. \A s \in Requests : Numbered(s)' <=> Numbered(s)
  BY DEF Numbered
<1>2. \A s \in Requests : Counting(s)' <=> Counting(s)
  BY DEF Counting
<1>3. ASSUME NEW k \in Keys PROVE Recorded(k)'
  <2>1. orders[k].by \in Requests \cup {Nobody}
    BY DEF TypeOK
  <2> QED
    BY <2>1 DEF Counted, Recorded, KeyOf
<1>4. ASSUME NEW r \in Requests \ tangled PROVE Alone(r)'
  BY <1>1, <1>2 DEF Counted, Alone
<1> QED
  BY <1>3, <1>4 DEF Counted

LEMMA CountedNext == Inv /\ [Next]_vars => Counted'
<1> SUFFICES ASSUME Inv, [Next]_vars PROVE Counted'
  OBVIOUS
<1> TypeOK /\ Counted
  BY DEF Inv
<1>a. \A k \in Keys : orders[k].by \in Requests \cup {Nobody}
  BY DEF TypeOK
<1>b. next \in Nat /\ \A s \in Requests : id[s] \in Nat
  BY DEF TypeOK
\* A handler that is still counting has no order yet.
<1>c. ASSUME NEW r \in Requests, pc[r] \notin {"reply", "done"}
      PROVE  \A k \in Keys : orders[k].by # r
  BY <1>c, NobodyAssumption DEF Counted, Recorded
<1>1. ASSUME NEW r \in Requests,
             \/ Refuse(r) \/ LockFor(r) \/ Lock(r) \/ Throw(r) \/ FindStored(r)
             \/ FindNothing(r) \/ BeginSave(r) \/ Finish(r)
      PROVE  Counted'
  <2>1. UNCHANGED <<ask, next, id, orders, tangled>>
    BY <1>1 DEF Refuse, LockFor, Lock, Throw, FindStored, FindNothing,
                BeginSave, Finish
  <2>2. \A s \in Requests :
           /\ pc'[s] = "store" <=> pc[s] = "store"
           /\ pc'[s] = "read" <=> pc[s] = "read"
           /\ pc'[s] \in {"save", "saving"} <=> pc[s] \in {"save", "saving"}
           /\ pc[s] \in {"reply", "done"} => pc'[s] \in {"reply", "done"}
    BY <1>1 DEF Refuse, LockFor, Lock, Throw, FindStored, FindNothing,
                BeginSave, Finish, TypeOK, At, Goto
  <2> QED
    BY <2>1, <2>2, CountedStutter
<1>2. ASSUME NEW r \in Requests, LoadNext(r) PROVE Counted'
  <2>1. /\ pc[r] = "load" /\ pc'[r] = "store" /\ id'[r] = next + 1
        /\ \A s \in Requests \ {r} : pc'[s] = pc[s] /\ id'[s] = id[s]
        /\ UNCHANGED <<ask, next, orders>>
    BY <1>2 DEF LoadNext, At, Goto, TypeOK
  <2>2. /\ tangled \subseteq tangled'
        /\ \A s \in Requests \ {r} :
              Counting(s) => s \in tangled' /\ r \in tangled'
    BY <1>2 DEF LoadNext, BeginCount, Others
  <2>3. \A k \in Keys : Recorded(k)'
    BY <1>a, <1>c, <2>1 DEF Counted, Recorded, KeyOf
  <2>4. \A k \in Keys : orders[k].by # r
    BY <1>c, <2>1
  <2>5. ASSUME NEW s \in Requests \ {r}
        PROVE  (Numbered(s)' <=> Numbered(s)) /\ (Counting(s)' <=> Counting(s))
    BY <2>1 DEF Numbered, Counting
  <2>6. ~Numbered(r)' /\ Counting(r)'
    BY <2>1, <2>4 DEF Numbered, Counting
  <2>7. r \notin tangled' => Alone(r)'
    BY <2>1, <2>2, <2>5, <2>6 DEF Alone
  <2>8. ASSUME NEW u \in Requests \ tangled', u # r PROVE Alone(u)'
    <3>1. ~Counting(u) /\ Alone(u)
      BY <2>2, <2>8 DEF Counted
    <3>2. id'[u] = id[u] /\ id'[r] > next
      BY <1>b, <2>1, <2>8
    <3>3. ASSUME NEW s \in Requests \ {u}, Numbered(u)
          PROVE  /\ Counting(s)' => id'[s] > id[u]
                 /\ pc'[s] = "read" => next > id[u]
                 /\ s \notin tangled' /\ Numbered(s)' => id'[s] # id[u]
      <4>1. CASE s = r
        BY <1>b, <2>1, <2>6, <3>1, <3>2, <3>3, <4>1 DEF Alone
      <4>2. CASE s # r
        BY <2>1, <2>2, <2>5, <3>1, <3>3, <4>2 DEF Alone
      <4> QED
        BY <4>1, <4>2
    <3> QED
      BY <2>1, <2>5, <2>8, <3>1, <3>2, <3>3 DEF Alone, Counting
  <2> QED
    BY <2>3, <2>7, <2>8 DEF Counted
<1>3. ASSUME NEW r \in Requests, StoreNext(r) PROVE Counted'
  <2>1. /\ pc[r] = "store" /\ pc'[r] = "read" /\ next' = id[r]
        /\ \A s \in Requests \ {r} : pc'[s] = pc[s]
        /\ UNCHANGED <<ask, id, orders, tangled>>
    BY <1>3 DEF StoreNext, At, Goto, TypeOK
  <2>2. \A k \in Keys : Recorded(k)'
    BY <1>a, <1>c, <2>1 DEF Counted, Recorded, KeyOf
  <2>3. ASSUME NEW s \in Requests
        PROVE  (Numbered(s)' <=> Numbered(s)) /\ (Counting(s)' <=> Counting(s))
    BY <2>1 DEF Numbered, Counting
  <2>4. Counting(r) /\ ~Numbered(r)
    BY <1>c, <2>1 DEF Numbered, Counting
  <2>5. ASSUME NEW u \in Requests \ tangled PROVE Alone(u)'
    <3>1. Alone(u)
      BY DEF Counted
    <3>2. CASE u = r
      BY <2>1, <2>3, <2>4, <3>1, <3>2 DEF Alone
    <3>3. CASE u # r
      <4>1. ~Counting(u) /\ (Numbered(u) => id[r] > id[u])
        BY <2>4, <3>1, <3>3 DEF Alone
      <4> QED
        BY <1>b, <2>1, <2>3, <2>4, <3>1, <3>3, <4>1 DEF Alone, Counting
    <3> QED
      BY <3>2, <3>3
  <2> QED
    BY <2>1, <2>2, <2>5 DEF Counted
<1>4. ASSUME NEW r \in Requests, ReadId(r) PROVE Counted'
  <2>1. /\ pc[r] = "read" /\ pc'[r] = "save" /\ id'[r] \in {id[r], next}
        /\ \A s \in Requests \ {r} : pc'[s] = pc[s] /\ id'[s] = id[s]
        /\ UNCHANGED <<ask, next, orders, tangled>>
    BY <1>4 DEF ReadId, At, Goto, TypeOK
  <2>2. \A k \in Keys : Recorded(k)'
    BY <1>a, <1>c, <2>1 DEF Counted, Recorded, KeyOf
  <2>3. ASSUME NEW s \in Requests \ {r}
        PROVE  (Numbered(s)' <=> Numbered(s)) /\ (Counting(s)' <=> Counting(s))
    BY <2>1 DEF Numbered, Counting
  <2>4. Counting(r) /\ ~Numbered(r) /\ Numbered(r)' /\ ~Counting(r)'
    BY <1>c, <2>1 DEF Numbered, Counting
  <2>5. ASSUME NEW u \in Requests \ tangled PROVE Alone(u)'
    <3>1. Alone(u)
      BY DEF Counted
    <3>2. CASE u = r
      <4>1. id'[r] = next /\ \A s \in Requests \ {r} : ~Counting(s)
        BY <2>1, <2>4, <3>1, <3>2 DEF Alone
      <4>2. \A s \in Requests \ {r} :
               s \notin tangled /\ Numbered(s) => next > id[s]
        <5>1. \A s \in Requests \ tangled : Alone(s)
          BY DEF Counted
        <5> QED
          BY <2>1, <5>1 DEF Alone
      <4> QED
        BY <1>b, <2>1, <2>3, <2>4, <3>1, <3>2, <4>1, <4>2 DEF Alone, Counting
    <3>3. CASE u # r
      <4>1. Numbered(u) => id'[r] > id[u]
        BY <2>1, <2>4, <3>1, <3>3 DEF Alone
      <4> QED
        BY <1>b, <2>1, <2>3, <2>4, <3>1, <3>3, <4>1 DEF Alone, Counting
    <3> QED
      BY <3>2, <3>3
  <2> QED
    BY <2>1, <2>2, <2>5 DEF Counted
<1>5. ASSUME NEW r \in Requests, EndSave(r) PROVE Counted'
  <2>1. /\ pc[r] = "saving" /\ pc'[r] = "reply" /\ KeyOf(r) \in Keys
        /\ \A s \in Requests \ {r} : pc'[s] = pc[s]
        /\ UNCHANGED <<ask, id, next, tangled>>
    BY <1>5, KeyTypes DEF EndSave, At, Goto, Inv, Locked, Inside, TypeOK
  <2>2. \/ orders' = orders
        \/ orders' = [orders EXCEPT ![KeyOf(r)] = [by |-> r, id |-> id[r]]]
    BY <1>5 DEF EndSave
  <2>3. \A k \in Keys : \/ orders'[k] = orders[k]
                        \/ k = KeyOf(r) /\ orders'[k] = [by |-> r, id |-> id[r]]
    BY <2>1, <2>2 DEF TypeOK
  <2>4. ASSUME NEW k \in Keys PROVE Recorded(k)'
    BY <1>a, <2>1, <2>3 DEF Counted, Recorded, KeyOf
  <2>5. Numbered(r)
    BY <2>1 DEF Numbered
  <2>6. ASSUME NEW s \in Requests
        PROVE  (Numbered(s)' => Numbered(s)) /\ (Counting(s)' <=> Counting(s))
    BY <2>1, <2>3, <2>5 DEF Numbered, Counting
  <2>7. ASSUME NEW u \in Requests \ tangled PROVE Alone(u)'
    <3>1. Alone(u)
      BY DEF Counted
    <3> QED
      BY <2>1, <2>6, <3>1 DEF Alone, Counting
  <2> QED
    BY <2>1, <2>4, <2>7 DEF Counted
<1>6. CASE UNCHANGED vars
  BY <1>6, CountedStutter DEF vars
<1> QED
  BY <1>1, <1>2, <1>3, <1>4, <1>5, <1>6 DEF Next, Handler, Stopped

-----------------------------------------------------------------------------
(* The theorems.                                                           *)

THEOREM Invariance == Spec => []Inv
<1>1. Inv /\ [Next]_vars => Inv'
  BY TypeNext, LockedNext, CleanNext, CountedNext DEF Inv
<1> QED
  BY <1>1, InitInv, PTL DEF Spec

\* TypeOK holds for every set of requests, keys and payloads.
THEOREM TypeCorrect == Spec => []TypeOK
<1>1. Inv => TypeOK
  BY DEF Inv
<1> QED
  BY <1>1, Invariance, PTL

\* lockFor and the deferred Unlock serialize the handlers of a key, for any
\* number of them and also after a race in the map of orders.
THEOREM Serialized == Spec => []KeyIsSerialized
<1>1. Inv => KeyIsSerialized
  BY LockedSerializes DEF Inv
<1> QED
  BY <1>1, Invariance, PTL

\* Two orders share an id only if the handler of at least one of them counted
\* while another handler did: handlers that counted alone never share an id.
THEOREM IdsDistinct == Spec => []OrderIdsAreDistinct
<1>1. Inv => OrderIdsAreDistinct
  <2> SUFFICES ASSUME Inv, NEW k \in Keys, NEW l \in Keys, k # l,
                      orders[k].by # Nobody, orders[l].by # Nobody,
                      orders[k].by \notin tangled, orders[l].by \notin tangled
               PROVE  orders[k].id # orders[l].id
    BY DEF OrderIdsAreDistinct
  <2>1. orders[k].by \in Requests /\ orders[l].by \in Requests
    BY DEF Inv, TypeOK
  <2>2. Numbered(orders[k].by) /\ Numbered(orders[l].by)
    BY DEF Numbered
  <2>3. /\ orders[k].id = id[orders[k].by] /\ orders[l].id = id[orders[l].by]
        /\ orders[k].by # orders[l].by
    BY DEF Inv, Counted, Recorded
  <2> QED
    BY <2>1, <2>2, <2>3 DEF Inv, Counted, Alone
<1> QED
  BY <1>1, Invariance, PTL

-----------------------------------------------------------------------------
(* The refinement of IdempotentEndpoint.                                   *)

abstract == <<ask, acceptedBy, answer>>

LEMMA InitRefines == Init => Endpoint!Init
BY DEF Init, Endpoint!Init, Asks, Malformed, Endpoint!Asks, Endpoint!Malformed,
       acceptedBy, Unstored, Unanswered,
       Endpoint!Unanswered

LEMMA Vocabulary ==
    /\ Endpoint!Malformed = Malformed
    /\ Endpoint!Conflict = Conflict /\ Endpoint!BadRequest = BadRequest
    /\ Endpoint!Unanswered = Unanswered
    /\ \A r \in Requests : Endpoint!Order(r) = Order(r)
    /\ \A r \in Requests : Endpoint!KeyOf(r) = KeyOf(r)
BY DEF Endpoint!Malformed, Endpoint!Conflict, Endpoint!Order,
       Endpoint!BadRequest, Endpoint!Unanswered, Endpoint!KeyOf,
       Malformed, Conflict, BadRequest, Unanswered, Order, KeyOf

\* A lookup answers like Replay or RefuseReuse, the save is Accept, and every
\* other step is invisible.
LEMMA StepRefines ==
    Inv /\ [Next]_vars => [Endpoint!Next \/ raced']_abstract
<1> SUFFICES ASSUME Inv, [Next]_vars, ~raced'
             PROVE  Endpoint!Next \/ UNCHANGED abstract
  OBVIOUS
<1> USE Vocabulary DEF Inv, Endpoint!Wellformed, Endpoint!Reply
<1>1. ASSUME NEW r \in Requests, Refuse(r) PROVE Endpoint!Next
  <2>1. Endpoint!RefuseMalformed(r)
    BY <1>1 DEF Refuse, Clean, At, acceptedBy, Endpoint!RefuseMalformed
  <2> QED
    BY <2>1 DEF Endpoint!Next
<1>2. ASSUME NEW r \in Requests, FindStored(r) PROVE Endpoint!Next
  <2>1. /\ ask[r] # Malformed /\ KeyOf(r) \in Keys
        /\ answer[r] = Unanswered /\ UNCHANGED <<ask, orders>>
    BY <1>2, KeyTypes DEF FindStored, Locked, Clean, At, Inside
  <2>2. acceptedBy[KeyOf(r)] = orders[KeyOf(r)].by /\ UNCHANGED acceptedBy
    BY <2>1 DEF acceptedBy
  <2>3. orders[KeyOf(r)].by \in Requests
    BY <1>2, <2>1 DEF FindStored, TypeOK
  <2>4. CASE PayloadOf(orders[KeyOf(r)].by) = PayloadOf(r)
    <3>1. Endpoint!Replay(r)
      BY <1>2, <2>1, <2>2, <2>3, <2>4
      DEF FindStored, PayloadOf, Endpoint!Replay
    <3> QED
      BY <3>1 DEF Endpoint!Next
  <2>5. CASE PayloadOf(orders[KeyOf(r)].by) # PayloadOf(r)
    <3>1. Endpoint!RefuseReuse(r)
      BY <1>2, <2>1, <2>2, <2>3, <2>5
      DEF FindStored, PayloadOf, Endpoint!RefuseReuse
    <3> QED
      BY <3>1 DEF Endpoint!Next
  <2> QED
    BY <2>4, <2>5
<1>3. ASSUME NEW r \in Requests, EndSave(r) PROVE Endpoint!Next
  <2>1. /\ ask[r] # Malformed /\ KeyOf(r) \in Keys
        /\ answer[r] = Unanswered /\ UNCHANGED <<ask, raced>>
        /\ orders[KeyOf(r)].by = Nobody
    BY <1>3, KeyTypes DEF EndSave, Locked, Clean, Creating, At, Inside
  <2>2. orders' = [orders EXCEPT ![KeyOf(r)] = [by |-> r, id |-> id[r]]]
    BY <1>3, <2>1 DEF EndSave
  <2>3. acceptedBy' = [acceptedBy EXCEPT ![KeyOf(r)] = r]
    BY <2>1, <2>2 DEF acceptedBy, TypeOK
  <2>4. Endpoint!Accept(r)
    BY <1>3, <2>1, <2>3 DEF EndSave, acceptedBy, Endpoint!Accept
  <2> QED
    BY <2>4 DEF Endpoint!Next
<1>4. ASSUME NEW r \in Requests,
             \/ LockFor(r) \/ Lock(r) \/ Throw(r) \/ FindNothing(r)
             \/ LoadNext(r) \/ StoreNext(r) \/ ReadId(r)
             \/ BeginSave(r) \/ Finish(r)
      PROVE  UNCHANGED abstract
  BY <1>4 DEF LockFor, Lock, Throw, FindNothing, LoadNext, StoreNext, ReadId,
              BeginSave, Finish, abstract, acceptedBy
<1>5. CASE UNCHANGED vars
  BY <1>5 DEF vars, abstract, acceptedBy
<1> QED
  BY <1>1, <1>2, <1>3, <1>4, <1>5 DEF Next, Handler, Stopped

\* The handlers, interleaved in any way, implement the atomic endpoint until
\* two keys race in the map, for every set of requests, keys and payloads.
THEOREM Refinement == Spec => ImplementsIdempotentEndpoint
<1>1. Inv /\ [Next]_vars =>
         [Endpoint!Next \/ raced']_<<ask, acceptedBy, answer>>
  BY StepRefines DEF abstract
<1> QED
  BY <1>1, InitRefines, Invariance, PTL DEF Spec, ImplementsIdempotentEndpoint

=============================================================================
