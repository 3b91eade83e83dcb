------------------------------ MODULE PayProofs ------------------------------
(***************************************************************************)
(* What holds of the webhook queue for every number of endpoints, watches, *)
(* bank lines, dispatchers and attempts, proved.                           *)
(***************************************************************************)
EXTENDS Pay, TLAPS

\* A row that a pass may still work on: it was pending when it was listed, and the
\* attempts it counts were made.
Listed(item) ==
    /\ item.row.state = "pending"
    /\ item.row.attempts < MaxAttempts
    /\ item.row.attempts <= tries[item.id]

\* No row, in the table or in a pass, counts an attempt that was not made, and
\* what a dispatcher is about to record is an answer it was given.
Counted ==
    /\ \A d \in Deliveries :
        /\ deliveries[d].attempts <= tries[d]
        /\ deliveries[d].state = "pending" => deliveries[d].attempts < MaxAttempts
    /\ \A p \in Dispatchers : \A item \in todo[p] : Listed(item)
    /\ \A p \in Dispatchers :
        posted[p] # None =>
            /\ Listed(posted[p].item)
            /\ posted[p].item.row.attempts < tries[posted[p].item.id]
            /\ posted[p].answer # "error" => posted[p].answer \in answers[posted[p].item.id]

QueueInv == TypeOK /\ Counted

\* What an outcome makes of a row that was listed: one more attempt, and a final
\* state only for a final answer or the last attempt.
LEMMA OutcomeOfListed ==
    ASSUME NEW row \in Row, row.state = "pending", row.attempts < MaxAttempts,
           NEW answer \in Answers
    PROVE  LET new == Outcome(row, answer) IN
           /\ new \in Row
           /\ new.attempts = row.attempts + 1
           /\ new.state # "none"
           /\ new.state = "pending" => new.attempts < MaxAttempts
           /\ new.state = "delivered" => answer = "ok"
           /\ new.state = "failed" => answer = "rejected" \/ new.attempts = MaxAttempts
<1> USE DispatchersAssumption
<1>1. row.attempts \in Nat /\ row.attempts + 1 \in 0..MaxAttempts
  BY DEF Row
<1>2. /\ Retried(row) \in Row
      /\ Retried(row).attempts = row.attempts + 1
      /\ Retried(row).state = "pending"
  BY <1>1 DEF Retried, Row
<1>3. ASSUME NEW state \in {"delivered", "failed"}
      PROVE  /\ Settled(row, state) \in Row
             /\ Settled(row, state).attempts = row.attempts + 1
             /\ Settled(row, state).state = state
  BY <1>1 DEF Settled, Row
<1>4. CASE answer = "ok"
  BY <1>3, <1>4 DEF Outcome
<1>5. CASE answer # "ok" /\ (answer = "rejected" \/ row.attempts + 1 >= MaxAttempts)
  <2>1. Outcome(row, answer) = Settled(row, "failed")
    BY <1>5 DEF Outcome
  <2> QED
    BY <1>1, <1>3, <1>5, <2>1
<1>6. CASE answer # "ok" /\ answer # "rejected" /\ ~(row.attempts + 1 >= MaxAttempts)
  <2>1. Outcome(row, answer) = Retried(row)
    BY <1>6 DEF Outcome
  <2> QED
    BY <1>1, <1>2, <1>6, <2>1
<1> QED
  BY <1>4, <1>5, <1>6

\* The tables start out typed, and nothing has been counted.
LEMMA QueueInvInit == Init => QueueInv
BY DispatchersAssumption
   DEF Init, QueueInv, TypeOK, Counted, NoRow, Row, RowStates, Answers

\* An action on a watch or an endpoint that leaves queue and passes alone.
TableStep ==
    \/ \E w \in Watches : WatchAdd(w) \/ \E enabled \in BOOLEAN : WatchSetEnabled(w, enabled)
    \/ \E e \in Endpoints :
        \/ EndpointAdd(e) \/ EndpointRow(e) \/ EndpointRowFails(e)
        \/ EndpointRevoke(e) \/ EndpointCutShort(e)
        \/ \E enabled \in BOOLEAN : EndpointSetEnabled(e, enabled)

\* Such an action keeps the types and touches neither the queue nor the passes.
LEMMA TableStepTyped ==
    ASSUME TypeOK, TableStep
    PROVE  TypeOK' /\ UNCHANGED <<imported, deliveries, passVars, heardVars>>
<1>1. ASSUME NEW w \in Watches, WatchAdd(w) \/ \E enabled \in BOOLEAN : WatchSetEnabled(w, enabled)
      PROVE  TypeOK' /\ UNCHANGED <<imported, deliveries, passVars, heardVars>>
  BY <1>1 DEF TypeOK, WatchAdd, WatchSetEnabled, endpointVars, passVars, heardVars, RowStates
<1>2. ASSUME NEW e \in Endpoints,
             \/ EndpointAdd(e) \/ EndpointRow(e) \/ EndpointRowFails(e)
             \/ EndpointRevoke(e) \/ EndpointCutShort(e)
             \/ \E enabled \in BOOLEAN : EndpointSetEnabled(e, enabled)
      PROVE  TypeOK' /\ UNCHANGED <<imported, deliveries, passVars, heardVars>>
  BY <1>2 DEF TypeOK, EndpointAdd, EndpointRow, EndpointRowFails, EndpointRevoke,
              EndpointCutShort, EndpointSetEnabled, endpointVars, passVars, heardVars, RowStates
<1> QED
  BY <1>1, <1>2 DEF TableStep

\* Every action keeps the types and the counts.
LEMMA QueueInvStep == QueueInv /\ [Next]_vars => QueueInv'
<1> SUFFICES ASSUME TypeOK, Counted, [Next]_vars
             PROVE  TypeOK' /\ Counted'
  BY DEF QueueInv
<1> USE DispatchersAssumption
<1>1. CASE UNCHANGED vars
  BY <1>1 DEF vars, endpointVars, passVars, heardVars, TypeOK, Counted, Listed
<1>2. CASE TableStep
  BY <1>2, TableStepTyped DEF passVars, heardVars, Counted, Listed
<1>3. ASSUME UNCHANGED <<todo, posted, answers, tries>>, deliveries' \in [Deliveries -> Row],
             \A d \in Deliveries : \/ deliveries'[d] = deliveries[d]
                                   \/ deliveries'[d] \in {NoRow, Queued}
                                   \/ deliveries'[d] = [deliveries[d] EXCEPT !.waiting = FALSE]
      PROVE  Counted'
  <2>1. ASSUME NEW d \in Deliveries
        PROVE  /\ deliveries'[d].attempts <= tries[d]
               /\ deliveries'[d].state = "pending" => deliveries'[d].attempts < MaxAttempts
    <3>1. deliveries[d] \in Row /\ tries[d] \in Nat
      BY DEF TypeOK
    <3> QED
      BY <1>3, <3>1 DEF Counted, NoRow, Queued, Row
  <2> QED
    BY <1>3, <2>1 DEF Counted, Listed
<1>4. ASSUME NEW gone \in SUBSET Deliveries
      PROVE  Without(gone) \in [Deliveries -> Row]
  BY DEF Without, NoRow, Row, TypeOK
<1>5. ASSUME NEW w \in Watches, WatchRemove(w)
      PROVE  TypeOK' /\ Counted'
  <2>1. deliveries' \in [Deliveries -> Row]
    BY <1>4, <1>5 DEF WatchRemove
  <2>2. TypeOK'
    BY <1>5, <2>1 DEF WatchRemove, endpointVars, passVars, heardVars, TypeOK, RowStates
  <2> QED
    BY <1>3, <1>5, <2>1, <2>2 DEF WatchRemove, Without, passVars, heardVars
<1>6. ASSUME NEW e \in Endpoints, EndpointRemove(e)
      PROVE  TypeOK' /\ Counted'
  <2>1. deliveries' \in [Deliveries -> Row]
    BY <1>4, <1>6 DEF EndpointRemove
  <2>2. TypeOK'
    BY <1>6, <2>1 DEF EndpointRemove, passVars, heardVars, TypeOK, RowStates
  <2> QED
    BY <1>3, <1>6, <2>1, <2>2 DEF EndpointRemove, Without, passVars, heardVars
<1>7. ASSUME NEW l \in BankLines, TransactionCreate(l)
      PROVE  TypeOK' /\ Counted'
  <2>1. deliveries' \in [Deliveries -> Row]
    BY <1>7 DEF TransactionCreate, Queued, Row, TypeOK
  <2>2. TypeOK'
    BY <1>7, <2>1 DEF TransactionCreate, endpointVars, passVars, heardVars, TypeOK
  <2> QED
    BY <1>3, <1>7, <2>1, <2>2 DEF TransactionCreate, passVars, heardVars
<1>8. ASSUME NEW p \in Dispatchers, StartPass(p)
      PROVE  TypeOK' /\ Counted'
  <2> DEFINE listed == {[id |-> d, row |-> deliveries[d]] : d \in Due}
  <2>1. Due \subseteq Deliveries /\ \A d \in Due : deliveries[d].state = "pending"
    BY DEF Due
  <2>2. \A item \in listed : item \in Item /\ Listed(item)
    BY <2>1 DEF TypeOK, Item, Counted, Listed
  <2>3. todo' \in [Dispatchers -> SUBSET Item]
    BY <1>8, <2>2 DEF StartPass, TypeOK
  <2>4. TypeOK'
    BY <1>8, <2>3 DEF StartPass, endpointVars, heardVars, TypeOK
  <2>5. \A q \in Dispatchers : \A item \in todo'[q] : Listed(item)
    BY <1>8, <2>2 DEF StartPass, TypeOK, Counted
  <2> QED
    BY <1>8, <2>4, <2>5 DEF StartPass, heardVars, Counted, Listed
<1>9. ASSUME NEW p \in Dispatchers, Post(p)
      PROVE  TypeOK' /\ Counted'
  <2> PICK item \in todo[p], answer \in Answers :
        /\ posted' = [posted EXCEPT ![p] = [item |-> item, answer |-> answer]]
        /\ todo' = [todo EXCEPT ![p] = @ \ {item}]
        /\ answers' = [answers EXCEPT ![item.id] = @ \cup ({answer} \ {"error"})]
        /\ tries' = [tries EXCEPT ![item.id] = IF @ < MaxAttempts THEN @ + 1 ELSE @]
    BY <1>9 DEF Post
  <2>1. UNCHANGED <<endpointVars, watches, imported, deliveries, restarts>>
    BY <1>9 DEF Post
  <2>2. item \in Item /\ item.id \in Deliveries /\ item.row \in Row /\ Listed(item)
    BY DEF TypeOK, Item, Counted
  <2>3. /\ tries' \in [Deliveries -> 0..MaxAttempts]
        /\ \A d \in Deliveries : tries[d] <= tries'[d]
        /\ item.row.attempts < tries'[item.id]
    BY <2>2 DEF TypeOK, Listed, Row
  <2>4. /\ answers' \in [Deliveries -> SUBSET Answers]
        /\ \A d \in Deliveries : answers[d] \subseteq answers'[d]
        /\ answer # "error" => answer \in answers'[item.id]
    BY <2>2 DEF TypeOK
  <2>5. todo' \in [Dispatchers -> SUBSET Item]
        /\ posted' \in [Dispatchers -> {None} \cup [item : Item, answer : Answers]]
    BY <2>2 DEF TypeOK
  <2>6. TypeOK'
    BY <2>1, <2>3, <2>4, <2>5 DEF TypeOK, endpointVars
  <2>7. ASSUME NEW it \in Item, Listed(it)
        PROVE  Listed(it)'
    <3>1. it.id \in Deliveries /\ it.row.attempts \in Nat
      BY DEF Item, Row
    <3> QED
      BY <2>3, <2>7, <3>1 DEF Listed, TypeOK
  <2>8. \A d \in Deliveries : deliveries'[d].attempts <= tries'[d]
    BY <2>1, <2>3 DEF Counted, TypeOK, Row
  <2>9. ASSUME NEW q \in Dispatchers, NEW it \in todo'[q]
        PROVE  Listed(it)'
    <3>1. it \in todo[q]
      BY <2>9 DEF TypeOK
    <3>2. it \in Item /\ Listed(it)
      BY <3>1 DEF TypeOK, Counted
    <3> QED
      BY <2>7, <3>2
  <2>10. ASSUME NEW q \in Dispatchers, posted'[q] # None
         PROVE  /\ Listed(posted[q].item)'
                /\ posted'[q].item.row.attempts < tries'[posted'[q].item.id]
                /\ posted'[q].answer # "error" =>
                       posted'[q].answer \in answers'[posted'[q].item.id]
    <3>1. CASE q = p
      <4>1. posted'[q] = [item |-> item, answer |-> answer]
        BY <3>1 DEF TypeOK
      <4>2. Listed(item)'
        BY <2>2, <2>7
      <4> QED
        BY <2>3, <2>4, <4>1, <4>2 DEF Listed
    <3>2. CASE q # p
      <4>1. posted'[q] = posted[q] /\ posted[q] \in [item : Item, answer : Answers]
        BY <2>10, <3>2 DEF TypeOK
      <4>2. /\ posted[q].item \in Item /\ posted[q].item.id \in Deliveries
            /\ posted[q].item.row.attempts \in Nat
        BY <4>1 DEF Item, Row
      <4>3. /\ Listed(posted[q].item)
            /\ posted[q].item.row.attempts < tries[posted[q].item.id]
            /\ posted[q].answer # "error" => posted[q].answer \in answers[posted[q].item.id]
        BY <2>10, <4>1 DEF Counted
      <4>4. Listed(posted[q].item)'
        BY <2>3, <4>1, <4>2, <4>3 DEF Listed, TypeOK
      <4>5. /\ posted'[q].item.row.attempts < tries'[posted'[q].item.id]
            /\ posted'[q].answer # "error" => posted'[q].answer \in answers'[posted'[q].item.id]
        BY <2>3, <2>4, <4>1, <4>2, <4>3 DEF TypeOK
      <4> QED
        BY <4>4, <4>5
    <3> QED
      BY <3>1, <3>2
  <2> QED
    BY <2>1, <2>6, <2>8, <2>9, <2>10 DEF Counted
<1>10. ASSUME NEW p \in Dispatchers, Record(p)
       PROVE  TypeOK' /\ Counted'
  <2> DEFINE d == posted[p].item.id
             row == posted[p].item.row
             new == Outcome(row, posted[p].answer)
  <2>1. /\ posted[p] \in [item : Item, answer : Answers]
        /\ d \in Deliveries /\ row \in Row /\ posted[p].answer \in Answers
        /\ Listed(posted[p].item) /\ row.attempts < tries[d]
    BY <1>10 DEF Record, TypeOK, Item, Counted
  <2>2. /\ new \in Row /\ new.attempts = row.attempts + 1
        /\ new.state = "pending" => new.attempts < MaxAttempts
    BY <2>1, OutcomeOfListed DEF Listed
  <2>3. deliveries' = deliveries \/ deliveries' = [deliveries EXCEPT ![d] = new]
    BY <1>10 DEF Record, Put
  <2>4. deliveries' \in [Deliveries -> Row]
    BY <2>1, <2>2, <2>3 DEF TypeOK
  <2>5. posted' \in [Dispatchers -> {None} \cup [item : Item, answer : Answers]]
    BY <1>10 DEF Record, TypeOK
  <2>6. TypeOK'
    BY <1>10, <2>4, <2>5 DEF Record, endpointVars, heardVars, TypeOK
  <2>7. ASSUME NEW x \in Deliveries
        PROVE  /\ deliveries'[x].attempts <= tries[x]
               /\ deliveries'[x].state = "pending" => deliveries'[x].attempts < MaxAttempts
    <3>1. tries[x] \in Nat /\ row.attempts \in Nat
      BY <2>1 DEF TypeOK, Row
    <3>2. deliveries'[x] = deliveries[x] \/ (x = d /\ deliveries'[x] = new)
      BY <2>3 DEF TypeOK
    <3> QED
      BY <2>1, <2>2, <3>1, <3>2 DEF Counted
  <2>8. \A q \in Dispatchers : posted'[q] = posted[q] \/ posted'[q] = None
    BY <1>10 DEF Record, TypeOK
  <2>9. UNCHANGED <<todo, answers, tries>>
    BY <1>10 DEF Record, heardVars
  <2> QED
    BY <2>6, <2>7, <2>8, <2>9 DEF Counted, Listed
<1>11. ASSUME NEW p \in Dispatchers, PassDies(p)
       PROVE  TypeOK' /\ Counted'
  <2>1. TypeOK'
    BY <1>11 DEF PassDies, endpointVars, heardVars, TypeOK
  <2>2. /\ \A q \in Dispatchers : todo'[q] \subseteq todo[q]
        /\ \A q \in Dispatchers : posted'[q] = posted[q] \/ posted'[q] = None
    BY <1>11 DEF PassDies, TypeOK
  <2>3. UNCHANGED <<deliveries, answers, tries>>
    BY <1>11 DEF PassDies, heardVars
  <2> QED
    BY <2>1, <2>2, <2>3 DEF Counted, Listed
<1>12. ASSUME NEW d \in Deliveries, BackoffElapses(d)
       PROVE  TypeOK' /\ Counted'
  <2>1. deliveries' \in [Deliveries -> Row]
    BY <1>12 DEF BackoffElapses, TypeOK, Row
  <2>2. TypeOK'
    BY <1>12, <2>1 DEF BackoffElapses, endpointVars, passVars, heardVars, TypeOK
  <2> QED
    BY <1>3, <1>12, <2>1, <2>2 DEF BackoffElapses, passVars, heardVars, TypeOK
<1> QED
  BY <1>1, <1>2, <1>5, <1>6, <1>7, <1>8, <1>9, <1>10, <1>11, <1>12 DEF Next, TableStep

\* The strengthened type invariant of the queue.
LEMMA QueueInvariant == Spec => []QueueInv
BY QueueInvInit, QueueInvStep, PTL DEF Spec

\* pay_deliver_due: every reachable state is well typed; in particular no row ever
\* counts more than MAX_DELIVERY_ATTEMPTS attempts.
THEOREM PayTypeOK == Spec => []TypeOK
<1>1. QueueInv => TypeOK
  BY DEF QueueInv
<1> QED
  BY <1>1, QueueInvariant, PTL

-----------------------------------------------------------------------------
\* Step by step: what is settled was settled for a reason.  An answer is never
\* forgotten and an attempt never uncounted, so only Record has to be looked at.
LEMMA SettledStep ==
    ASSUME QueueInv, SettledForAReason, [Next]_vars
    PROVE  SettledForAReason'
<1> USE DispatchersAssumption
<1>1. TypeOK /\ Counted
  BY DEF QueueInv
<1>2. ASSUME \A d \in Deliveries : answers[d] \subseteq answers'[d] /\ tries[d] <= tries'[d],
             tries' \in [Deliveries -> 0..MaxAttempts],
             \A d \in Deliveries :
                 \/ deliveries'[d].state = deliveries[d].state
                 \/ deliveries'[d].state \notin {"delivered", "failed"}
      PROVE  SettledForAReason'
  BY <1>1, <1>2 DEF SettledForAReason, TypeOK
<1>3. TypeOK'
  BY QueueInvStep DEF QueueInv
<1>4. CASE UNCHANGED vars
  BY <1>4 DEF vars, heardVars, SettledForAReason
<1>5. CASE TableStep
  BY <1>1, <1>5, TableStepTyped DEF heardVars, SettledForAReason
<1>6. ASSUME UNCHANGED heardVars,
             \A d \in Deliveries : \/ deliveries'[d].state = deliveries[d].state
                                   \/ deliveries'[d] \in {NoRow, Queued}
      PROVE  SettledForAReason'
  <2>1. \A d \in Deliveries : answers[d] \subseteq answers'[d] /\ tries[d] <= tries'[d]
    BY <1>1, <1>6 DEF heardVars, TypeOK
  <2> QED
    BY <1>2, <1>3, <1>6, <2>1 DEF NoRow, Queued, TypeOK
<1>7. ASSUME NEW w \in Watches, WatchRemove(w)
      PROVE  SettledForAReason'
  BY <1>6, <1>7 DEF WatchRemove, Without
<1>8. ASSUME NEW e \in Endpoints, EndpointRemove(e)
      PROVE  SettledForAReason'
  BY <1>6, <1>8 DEF EndpointRemove, Without
<1>9. ASSUME NEW l \in BankLines, TransactionCreate(l)
      PROVE  SettledForAReason'
  BY <1>6, <1>9 DEF TransactionCreate
<1>10. ASSUME NEW p \in Dispatchers, StartPass(p) \/ PassDies(p)
       PROVE  SettledForAReason'
  BY <1>6, <1>10 DEF StartPass, PassDies
<1>11. ASSUME NEW p \in Dispatchers, Post(p)
       PROVE  SettledForAReason'
  <2> PICK item \in todo[p], answer \in Answers :
        /\ answers' = [answers EXCEPT ![item.id] = @ \cup ({answer} \ {"error"})]
        /\ tries' = [tries EXCEPT ![item.id] = IF @ < MaxAttempts THEN @ + 1 ELSE @]
    BY <1>11 DEF Post
  <2>1. \A d \in Deliveries : answers[d] \subseteq answers'[d] /\ tries[d] <= tries'[d]
    BY <1>1 DEF TypeOK
  <2>2. UNCHANGED deliveries
    BY <1>11 DEF Post
  <2> QED
    BY <1>2, <1>3, <2>1, <2>2 DEF TypeOK
<1>12. ASSUME NEW p \in Dispatchers, Record(p)
       PROVE  SettledForAReason'
  <2> DEFINE d == posted[p].item.id
             row == posted[p].item.row
             answer == posted[p].answer
             new == Outcome(row, answer)
  <2>1. /\ d \in Deliveries /\ row \in Row /\ answer \in Answers
        /\ Listed(posted[p].item) /\ row.attempts < tries[d]
        /\ answer # "error" => answer \in answers[d]
    BY <1>1, <1>12 DEF Record, TypeOK, Item, Counted
  <2>2. /\ new.attempts = row.attempts + 1
        /\ new.state = "delivered" => answer = "ok"
        /\ new.state = "failed" => answer = "rejected" \/ new.attempts = MaxAttempts
    BY <2>1, OutcomeOfListed DEF Listed
  <2>3. UNCHANGED heardVars
    BY <1>12 DEF Record
  <2>4. ASSUME NEW x \in Deliveries
        PROVE  /\ deliveries'[x].state = "delivered" => "ok" \in answers[x]
               /\ deliveries'[x].state = "failed" =>
                      "rejected" \in answers[x] \/ tries[x] = MaxAttempts
    <3>1. deliveries'[x] = deliveries[x] \/ (x = d /\ deliveries'[x] = new)
      BY <1>1, <1>12 DEF Record, Put, TypeOK
    <3>2. tries[d] \in 0..MaxAttempts /\ row.attempts \in Nat
      BY <1>1, <2>1 DEF TypeOK, Row
    <3>3. CASE deliveries'[x] = deliveries[x]
      BY <3>3 DEF SettledForAReason
    <3>4. CASE x = d /\ deliveries'[x] = new
      BY <2>1, <2>2, <3>2, <3>4
    <3> QED
      BY <3>1, <3>3, <3>4
  <2> QED
    BY <2>3, <2>4 DEF heardVars, SettledForAReason
<1>13. ASSUME NEW d \in Deliveries, BackoffElapses(d)
       PROVE  SettledForAReason'
  <2>1. \A x \in Deliveries : deliveries'[x].state = deliveries[x].state
    BY <1>1, <1>13 DEF BackoffElapses, TypeOK, Row
  <2> QED
    BY <1>6, <1>13, <2>1 DEF BackoffElapses
<1> QED
  BY <1>4, <1>5, <1>7, <1>8, <1>9, <1>10, <1>11, <1>12, <1>13 DEF Next, TableStep

\* pay_deliver_due: `delivered' was answered 2xx; `failed' was answered 4xx or tried
\* MAX_DELIVERY_ATTEMPTS times - with any number of dispatchers writing stale rows.
THEOREM SettledMeansAnswered == Spec => []SettledForAReason
<1>1. Init => SettledForAReason
  BY DEF Init, SettledForAReason, NoRow
<1>2. QueueInv /\ SettledForAReason /\ [Next]_vars => SettledForAReason'
  BY SettledStep
<1> QED
  BY <1>1, <1>2, QueueInvariant, PTL DEF Spec

-----------------------------------------------------------------------------
\* An endpoint between the two transactions of its add has a secret and no row yet;
\* one between those of its removal has no row any more.
HalfDone ==
    /\ \A e \in adding : endpoints[e] = "absent" /\ e \in secrets
    /\ \A e \in removing : endpoints[e] = "removed"

\* pay_endpoint_add, pay_endpoint_remove: wherever the two transactions of either are
\* cut short, an endpoint in the table can be signed for.
THEOREM SecretsFollow == Spec => []SecretsFollowEndpoints
<1> DEFINE Inv == HalfDone /\ SecretsFollowEndpoints
<1>1. Init => Inv
  BY DEF Init, HalfDone, SecretsFollowEndpoints, Present
<1>2. QueueInv /\ Inv /\ [Next]_vars => Inv'
  <2> SUFFICES ASSUME TypeOK, HalfDone, SecretsFollowEndpoints, [Next]_vars
               PROVE  Inv'
    BY DEF QueueInv
  <2> USE DEF TypeOK, HalfDone, SecretsFollowEndpoints, Present
  <2>1. ASSUME UNCHANGED endpointVars
        PROVE  Inv'
    BY <2>1 DEF endpointVars
  <2>2. ASSUME NEW e \in Endpoints, EndpointAdd(e)
        PROVE  Inv'
    BY <2>2 DEF EndpointAdd
  <2>3. ASSUME NEW e \in Endpoints, EndpointRow(e)
        PROVE  Inv'
    BY <2>3 DEF EndpointRow
  <2>4. ASSUME NEW e \in Endpoints, EndpointRowFails(e)
        PROVE  Inv'
    BY <2>4 DEF EndpointRowFails
  <2>5. ASSUME NEW e \in Endpoints, NEW enabled \in BOOLEAN, EndpointSetEnabled(e, enabled)
        PROVE  Inv'
    BY <2>5 DEF EndpointSetEnabled
  <2>6. ASSUME NEW e \in Endpoints, EndpointRemove(e)
        PROVE  Inv'
    BY <2>6 DEF EndpointRemove
  <2>7. ASSUME NEW e \in Endpoints, EndpointRevoke(e)
        PROVE  Inv'
    BY <2>7 DEF EndpointRevoke
  <2>8. ASSUME NEW e \in Endpoints, EndpointCutShort(e)
        PROVE  Inv'
    BY <2>8 DEF EndpointCutShort
  <2>9. CASE \E w \in Watches : \/ WatchAdd(w) \/ WatchRemove(w)
                                 \/ \E enabled \in BOOLEAN : WatchSetEnabled(w, enabled)
    BY <2>1, <2>9 DEF WatchAdd, WatchRemove, WatchSetEnabled
  <2>10. CASE \E l \in BankLines : TransactionCreate(l)
    BY <2>1, <2>10 DEF TransactionCreate
  <2>11. CASE \E p \in Dispatchers : StartPass(p) \/ Post(p) \/ Record(p) \/ PassDies(p)
    BY <2>1, <2>11 DEF StartPass, Post, Record, PassDies
  <2>12. CASE \E d \in Deliveries : BackoffElapses(d)
    BY <2>1, <2>12 DEF BackoffElapses
  <2>13. CASE UNCHANGED vars
    BY <2>1, <2>13 DEF vars
  <2> QED
    BY <2>2, <2>3, <2>4, <2>5, <2>6, <2>7, <2>8, <2>9, <2>10, <2>11, <2>12, <2>13 DEF Next
<1>3. Inv => SecretsFollowEndpoints
  OBVIOUS
<1> QED
  BY <1>1, <1>2, <1>3, QueueInvariant, PTL DEF Spec

-----------------------------------------------------------------------------
\* update_delivery_outcome: an outcome that arrives after its endpoint or its watch
\* was removed does not bring the delivery back: a row is made by detection alone.
THEOREM RemovedStaysRemoved == Spec => []QueueHasItsParents
<1>1. Init => QueueHasItsParents
  BY DEF Init, QueueHasItsParents
<1>2. QueueInv /\ QueueHasItsParents /\ [Next]_vars => QueueHasItsParents'
  <2> SUFFICES ASSUME TypeOK, QueueHasItsParents, [Next]_vars
               PROVE  QueueHasItsParents'
    BY DEF QueueInv
  <2> USE DEF TypeOK, QueueHasItsParents, Present
  <2>1. ASSUME \A d \in Deliveries : deliveries'[d] # NoRow => deliveries[d] # NoRow,
               \A e \in Endpoints : endpoints[e] \in Present => endpoints'[e] \in Present,
               \A w \in Watches : watches[w] \in Present => watches'[w] \in Present,
               imported \subseteq imported'
        PROVE  QueueHasItsParents'
    BY <2>1 DEF Deliveries
  <2>2. CASE UNCHANGED vars
    BY <2>2 DEF vars, endpointVars
  <2>3. ASSUME NEW w \in Watches,
               WatchAdd(w) \/ \E enabled \in BOOLEAN : WatchSetEnabled(w, enabled)
        PROVE  QueueHasItsParents'
    BY <2>1, <2>3 DEF WatchAdd, WatchSetEnabled, endpointVars
  <2>4. ASSUME NEW w \in Watches, WatchRemove(w)
        PROVE  QueueHasItsParents'
    BY <2>4 DEF WatchRemove, Without, endpointVars, Deliveries
  <2>5. ASSUME NEW e \in Endpoints,
               \/ EndpointAdd(e) \/ EndpointRowFails(e)
               \/ EndpointRevoke(e) \/ EndpointCutShort(e)
        PROVE  QueueHasItsParents'
    BY <2>1, <2>5 DEF EndpointAdd, EndpointRowFails, EndpointRevoke, EndpointCutShort
  <2>6. ASSUME NEW e \in Endpoints,
               EndpointRow(e) \/ \E enabled \in BOOLEAN : EndpointSetEnabled(e, enabled)
        PROVE  QueueHasItsParents'
    BY <2>1, <2>6 DEF EndpointRow, EndpointSetEnabled
  <2>7. ASSUME NEW e \in Endpoints, EndpointRemove(e)
        PROVE  QueueHasItsParents'
    BY <2>7 DEF EndpointRemove, Without, Deliveries
  <2>8. ASSUME NEW l \in BankLines, TransactionCreate(l)
        PROVE  QueueHasItsParents'
    <3>1. \A d \in Deliveries :
            \/ deliveries'[d] = deliveries[d]
            \/ d[3] = l /\ watches[d[2]] = "on" /\ endpoints[d[1]] = "on"
      BY <2>8 DEF TransactionCreate, Fires
    <3> QED
      BY <2>8, <3>1 DEF TransactionCreate, endpointVars
  <2>9. ASSUME NEW p \in Dispatchers, StartPass(p) \/ Post(p) \/ PassDies(p)
        PROVE  QueueHasItsParents'
    BY <2>9 DEF StartPass, Post, PassDies, endpointVars
  <2>10. ASSUME NEW p \in Dispatchers, Record(p)
         PROVE  QueueHasItsParents'
    <3>1. \A d \in Deliveries : deliveries'[d] # NoRow => deliveries[d] # NoRow
      BY <2>10 DEF Record, Put
    <3> QED
      BY <2>1, <2>10, <3>1 DEF Record, endpointVars
  <2>11. ASSUME NEW d \in Deliveries, BackoffElapses(d)
         PROVE  QueueHasItsParents'
    <3>1. deliveries[d] # NoRow
      BY <2>11 DEF BackoffElapses, NoRow
    <3>2. \A x \in Deliveries : deliveries'[x] # NoRow => deliveries[x] # NoRow
      BY <2>11, <3>1 DEF BackoffElapses
    <3> QED
      BY <2>1, <2>11, <3>2 DEF BackoffElapses, endpointVars
  <2> QED
    BY <2>2, <2>3, <2>4, <2>5, <2>6, <2>7, <2>8, <2>9, <2>10, <2>11 DEF Next
<1> QED
  BY <1>1, <1>2, QueueInvariant, PTL DEF Spec

-----------------------------------------------------------------------------
\* With one dispatcher no row of a pass is stale: until its outcome is recorded the
\* table holds the row as it was listed, unless it was removed.
UpToDate(item) ==
    /\ item.id[3] \in imported
    /\ item.row.state = "pending" /\ ~item.row.waiting
    /\ deliveries[item.id] \in {NoRow, item.row}

NothingStale ==
    /\ \A item \in todo[Server] :
        /\ UpToDate(item)
        /\ \A other \in todo[Server] : other.id = item.id => other = item
    /\ posted[Server] # None =>
        /\ UpToDate(posted[Server].item)
        /\ \A item \in todo[Server] : item.id # posted[Server].item.id


\* Every step of a lone dispatcher, and of anyone else, keeps that so.
LEMMA NothingStaleStep ==
    ASSUME Dispatchers = {Server}, QueueInv, QueueHasItsParents, NothingStale, [Next]_vars
    PROVE  NothingStale'
<1> USE DEF NothingStale, UpToDate
<1>1. /\ TypeOK
      /\ \A item \in todo[Server] : item \in Item /\ item.id \in Deliveries
      /\ posted[Server] # None => posted[Server].item \in Item /\ posted[Server].item.id \in Deliveries
  BY DEF QueueInv, TypeOK, Item
<1>2. ASSUME \A d \in Deliveries : deliveries'[d] \in {NoRow, deliveries[d]},
             UNCHANGED <<todo, posted>>, imported \subseteq imported'
      PROVE  NothingStale'
  BY <1>1, <1>2
<1>3. CASE UNCHANGED vars
  BY <1>1, <1>2, <1>3 DEF vars, passVars
<1>4. CASE TableStep
  BY <1>1, <1>2, <1>4, TableStepTyped DEF passVars
<1>5. ASSUME NEW w \in Watches, WatchRemove(w)
      PROVE  NothingStale'
  BY <1>2, <1>5 DEF WatchRemove, Without, passVars
<1>6. ASSUME NEW e \in Endpoints, EndpointRemove(e)
      PROVE  NothingStale'
  BY <1>2, <1>6 DEF EndpointRemove, Without, passVars
<1>7. ASSUME NEW l \in BankLines, TransactionCreate(l)
      PROVE  NothingStale'
  <2>1. \A d \in Deliveries : d[3] # l => deliveries'[d] = deliveries[d]
    BY <1>7 DEF TransactionCreate, Fires
  <2> QED
    BY <1>1, <1>7, <2>1 DEF TransactionCreate, passVars
<1>8. ASSUME StartPass(Server)
      PROVE  NothingStale'
  <2>1. \A d \in Due : d \in Deliveries /\ deliveries[d] # NoRow
    BY DEF Due, NoRow
  <2>2. \A d \in Due : d[3] \in imported
    BY <2>1 DEF QueueHasItsParents
  <2>3. todo'[Server] = {[id |-> d, row |-> deliveries[d]] : d \in Due}
    BY <1>1, <1>8 DEF StartPass, TypeOK, DispatchersAssumption
  <2>4. posted'[Server] = None /\ UNCHANGED <<deliveries, imported>>
    BY <1>8 DEF StartPass
  <2> QED
    BY <2>2, <2>3, <2>4 DEF Due
<1>9. ASSUME Post(Server)
      PROVE  NothingStale'
  <2> PICK item \in todo[Server], answer \in Answers :
        /\ posted' = [posted EXCEPT ![Server] = [item |-> item, answer |-> answer]]
        /\ todo' = [todo EXCEPT ![Server] = @ \ {item}]
    BY <1>9 DEF Post
  <2>1. UNCHANGED <<deliveries, imported>>
    BY <1>9 DEF Post
  <2>2. todo'[Server] = todo[Server] \ {item} /\ posted'[Server].item = item
    BY <1>1 DEF TypeOK
  <2> QED
    BY <2>1, <2>2
<1>10. ASSUME Record(Server)
       PROVE  NothingStale'
  <2>1. \A d \in Deliveries : d # posted[Server].item.id => deliveries'[d] = deliveries[d]
    BY <1>1, <1>10 DEF Record, Put, TypeOK
  <2>2. posted'[Server] = None /\ posted[Server] # None /\ UNCHANGED <<todo, imported>>
    BY <1>1, <1>10 DEF Record, TypeOK
  <2> QED
    BY <1>1, <2>1, <2>2
<1>11. ASSUME PassDies(Server)
       PROVE  NothingStale'
  BY <1>1, <1>11 DEF PassDies, TypeOK
<1>12. ASSUME NEW d \in Deliveries, BackoffElapses(d)
       PROVE  NothingStale'
  <2>1. deliveries[d].waiting /\ deliveries[d] # NoRow
    BY <1>12 DEF BackoffElapses, NoRow
  <2>2. \A x \in Deliveries : x # d => deliveries'[x] = deliveries[x]
    BY <1>1, <1>12 DEF BackoffElapses, TypeOK
  <2>3. \A item \in todo[Server] : item.id # d
    BY <2>1
  <2>4. posted[Server] # None => posted[Server].item.id # d
    BY <2>1
  <2> QED
    BY <1>1, <1>12, <2>2, <2>3, <2>4 DEF BackoffElapses, passVars
<1> QED
  BY <1>3, <1>4, <1>5, <1>6, <1>7, <1>8, <1>9, <1>10, <1>11, <1>12 DEF Next, TableStep

\* docs/PAYMENTS.md: with a single dispatcher a delivered delivery does stay so,
\* through restarts of its passes and the removal of what it belongs to.
THEOREM OneDispatcherIsDone ==
    ASSUME Dispatchers = {Server}
    PROVE  Spec => DeliveredIsDone
<1> DEFINE Settles == \A d \in Deliveries :
        deliveries[d].state = "delivered" => deliveries'[d].state \in {"delivered", "none"}
<1>1. Init => NothingStale
  BY DispatchersAssumption DEF Init, NothingStale, DispatchersAssumption
<1>2. QueueInv /\ QueueHasItsParents /\ NothingStale /\ [Next]_vars => NothingStale'
  BY NothingStaleStep
<1>3. QueueInv /\ QueueHasItsParents /\ NothingStale /\ [Next]_vars => [Settles]_vars
  <2> SUFFICES ASSUME TypeOK, QueueHasItsParents, NothingStale, Next
               PROVE  Settles
    BY DEF QueueInv
  <2>1. ASSUME \A d \in Deliveries : deliveries'[d] \in {NoRow, deliveries[d]}
        PROVE  Settles
    BY <2>1 DEF NoRow
  <2>2. CASE TableStep
    BY <2>1, <2>2, TableStepTyped
  <2>3. ASSUME NEW w \in Watches, WatchRemove(w)
        PROVE  Settles
    BY <2>1, <2>3 DEF WatchRemove, Without
  <2>4. ASSUME NEW e \in Endpoints, EndpointRemove(e)
        PROVE  Settles
    BY <2>1, <2>4 DEF EndpointRemove, Without
  <2>5. ASSUME StartPass(Server) \/ Post(Server) \/ PassDies(Server)
        PROVE  Settles
    BY <2>1, <2>5 DEF StartPass, Post, PassDies
  <2>6. ASSUME Record(Server)
        PROVE  Settles
    <3>1. deliveries[posted[Server].item.id].state # "delivered"
      BY <2>6 DEF Record, NothingStale, UpToDate, NoRow
    <3>2. \A d \in Deliveries :
            d # posted[Server].item.id => deliveries'[d] = deliveries[d]
      BY <2>6 DEF Record, Put, TypeOK
    <3> QED
      BY <3>1, <3>2
  <2>7. ASSUME NEW d \in Deliveries, BackoffElapses(d)
        PROVE  Settles
    BY <2>7 DEF BackoffElapses, TypeOK
  <2>8. ASSUME NEW l \in BankLines, TransactionCreate(l)
        PROVE  Settles
    <3>1. \A d \in Deliveries : deliveries[d] # NoRow => d[3] # l
      BY <2>8 DEF TransactionCreate, QueueHasItsParents
    <3>2. \A d \in Deliveries : d[3] # l => deliveries'[d] = deliveries[d]
      BY <2>8 DEF TransactionCreate, Fires
    <3> QED
      BY <3>1, <3>2 DEF NoRow
  <2> QED
    BY <2>2, <2>3, <2>4, <2>5, <2>6, <2>7, <2>8 DEF Next, TableStep
<1> QED
  BY <1>1, <1>2, <1>3, QueueInvariant, RemovedStaysRemoved, PTL DEF Spec, DeliveredIsDone

=============================================================================
