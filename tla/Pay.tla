--------------------------------- MODULE Pay ---------------------------------
(***************************************************************************)
(* Payment watches and the signed webhooks they fire.  A bank line that    *)
(* carries an enabled watch code is matched in the transaction that imports*)
(* it, which queues one delivery per enabled endpoint.  Dispatchers - the  *)
(* server's loop, `pay deliver', `mail-sync', the desktop's button - work  *)
(* through the queue on one database file: a pass lists what is due once,  *)
(* and then, per delivery, signs, POSTs and writes the outcome over the    *)
(* WHOLE row as it was listed.                                             *)
(*                                                                         *)
(* An endpoint's secret is kept in the vault, whose transactions are its   *)
(* own: adding and removing an endpoint are two transactions each.         *)
(***************************************************************************)
EXTENDS Integers

CONSTANTS Dispatchers, Server,  \* what runs pay_deliver_due; the loop of serve mode
          Endpoints, Watches,   \* ids that may come to be used
          BankLines, Carries,   \* bank lines, and which watch codes each carries
          MaxAttempts,          \* MAX_DELIVERY_ATTEMPTS
          MaxRestarts,          \* bound: passes of the server's loop that die
          None

ASSUME DispatchersAssumption ==
    /\ Server \in Dispatchers
    /\ Carries \subseteq BankLines \X Watches
    /\ MaxAttempts \in Nat \ {0} /\ MaxRestarts \in Nat

VARIABLES endpoints,   \* pay_endpoints
          secrets,     \* the endpoints whose signing secret is in the vault
          watches,     \* pay_watch_codes
          imported,    \* the bank lines in transactions
          deliveries,  \* pay_deliveries, by endpoint, watch and bank line
          adding,      \* endpoints whose secret is stored and whose row is not
          removing,    \* endpoints whose row is deleted and whose secret is not
          todo,        \* what is left of each dispatcher's pass: rows as listed
          posted,      \* the POST a dispatcher has made and not recorded yet
          restarts,
          \* What happened, for the properties only:
          stranded,    \* endpoints whose add or remove was cut short
          answers,     \* per delivery, the final answers receivers gave
          tries        \* per delivery, the attempts made, counted to MaxAttempts

endpointVars == <<endpoints, secrets, adding, removing, stranded>>
passVars == <<todo, posted, restarts>>
heardVars == <<answers, tries>>
vars == <<endpointVars, watches, imported, deliveries, passVars, heardVars>>

RowStates == {"absent", "on", "off", "removed"}
Present == {"on", "off"}
Deliveries == Endpoints \X Watches \X BankLines
NoRow == [state |-> "none", attempts |-> 0, waiting |-> FALSE]
Queued == [state |-> "pending", attempts |-> 0, waiting |-> FALSE]

Init ==
    /\ endpoints = [e \in Endpoints |-> "absent"]
    /\ secrets = {}
    /\ watches = [w \in Watches |-> "absent"]
    /\ imported = {}
    /\ deliveries = [d \in Deliveries |-> NoRow]
    /\ adding = {} /\ removing = {} /\ stranded = {}
    /\ todo = [p \in Dispatchers |-> {}]
    /\ posted = [p \in Dispatchers |-> None]
    /\ restarts = 0
    /\ answers = [d \in Deliveries |-> {}]
    /\ tries = [d \in Deliveries |-> 0]

\* ON DELETE CASCADE, from an endpoint or by way of a watch's matches.
Without(gone) == [d \in Deliveries |-> IF d \in gone THEN NoRow ELSE deliveries[d]]

-----------------------------------------------------------------------------
(***************************************************************************)
(* Watches and endpoints.                                                  *)
(***************************************************************************)

WatchAdd(w) ==
    /\ watches[w] = "absent"
    /\ watches' = [watches EXCEPT ![w] = "on"]
    /\ UNCHANGED <<endpointVars, imported, deliveries, passVars, heardVars>>

WatchSetEnabled(w, enabled) ==
    /\ watches[w] \in Present
    /\ watches' = [watches EXCEPT ![w] = IF enabled THEN "on" ELSE "off"]
    /\ UNCHANGED <<endpointVars, imported, deliveries, passVars, heardVars>>

WatchRemove(w) ==
    /\ watches[w] \in Present
    /\ watches' = [watches EXCEPT ![w] = "removed"]
    /\ deliveries' = Without({d \in Deliveries : d[2] = w})
    /\ UNCHANGED <<endpointVars, imported, passVars, heardVars>>

\* pay_endpoint_add, its first transaction: the secret.
EndpointAdd(e) ==
    /\ endpoints[e] = "absent" /\ e \notin secrets \cup stranded
    /\ secrets' = secrets \cup {e}
    /\ adding' = adding \cup {e}
    /\ UNCHANGED <<endpoints, removing, stranded, watches, imported, deliveries,
                   passVars, heardVars>>

\* Its second: the row.
EndpointRow(e) ==
    /\ e \in adding
    /\ endpoints' = [endpoints EXCEPT ![e] = "on"]
    /\ adding' = adding \ {e}
    /\ UNCHANGED <<secrets, removing, stranded, watches, imported, deliveries,
                   passVars, heardVars>>

\* The row could not be written: the secret is taken back out, and the error of
\* that, if any, is ignored.
EndpointRowFails(e) ==
    /\ e \in adding
    /\ adding' = adding \ {e}
    /\ \/ secrets' = secrets \ {e} /\ UNCHANGED stranded
       \/ stranded' = stranded \cup {e} /\ UNCHANGED secrets
    /\ UNCHANGED <<endpoints, removing, watches, imported, deliveries, passVars,
                   heardVars>>

EndpointSetEnabled(e, enabled) ==
    /\ endpoints[e] \in Present
    /\ endpoints' = [endpoints EXCEPT ![e] = IF enabled THEN "on" ELSE "off"]
    /\ UNCHANGED <<secrets, adding, removing, stranded, watches, imported, deliveries,
                   passVars, heardVars>>

\* Mutation of EndpointRemove: the secret first.
RevokeFirst(e) ==
    /\ endpoints[e] \in Present /\ e \in secrets
    /\ secrets' = secrets \ {e}
    /\ removing' = removing \cup {e}
    /\ UNCHANGED <<endpoints, adding, stranded, watches, imported, deliveries, passVars,
                   heardVars>>

\* pay_endpoint_remove, its first transaction: the row and the queue.
EndpointRemove(e) ==
    /\ endpoints[e] \in Present
    /\ endpoints' = [endpoints EXCEPT ![e] = "removed"]
    /\ deliveries' = Without({d \in Deliveries : d[1] = e})
    /\ removing' = removing \cup {e}
    /\ UNCHANGED <<secrets, adding, stranded, watches, imported, passVars, heardVars>>

\* Its second: the secret.
EndpointRevoke(e) ==
    /\ e \in removing
    /\ secrets' = secrets \ {e}
    /\ removing' = removing \ {e}
    /\ UNCHANGED <<endpoints, adding, stranded, watches, imported, deliveries,
                   passVars, heardVars>>

\* The process dies, or revoke fails, between the two transactions.
EndpointCutShort(e) ==
    /\ e \in adding \cup removing
    /\ adding' = adding \ {e} /\ removing' = removing \ {e}
    /\ stranded' = stranded \cup {e}
    /\ UNCHANGED <<endpoints, secrets, watches, imported, deliveries, passVars,
                   heardVars>>

-----------------------------------------------------------------------------
(***************************************************************************)
(* Detection.  transaction_create refuses a line it has already imported.  *)
(***************************************************************************)

Fires(l) ==
    {d \in Deliveries : /\ d[3] = l /\ <<l, d[2]>> \in Carries
                        /\ watches[d[2]] = "on" /\ endpoints[d[1]] = "on"}

TransactionCreate(l) ==
    /\ l \notin imported
    /\ imported' = imported \cup {l}
    /\ deliveries' = [d \in Deliveries |-> IF d \in Fires(l) THEN Queued
                                                             ELSE deliveries[d]]
    /\ UNCHANGED <<endpointVars, watches, passVars, heardVars>>

-----------------------------------------------------------------------------
(***************************************************************************)
(* Dispatch.                                                               *)
(***************************************************************************)

Due == {d \in Deliveries : /\ deliveries[d].state = "pending" /\ ~deliveries[d].waiting
                           /\ endpoints[d[1]] = "on"}

StartPass(p) ==
    /\ todo[p] = {} /\ posted[p] = None /\ Due # {}
    /\ todo' = [todo EXCEPT ![p] = {[id |-> d, row |-> deliveries[d]] : d \in Due}]
    /\ UNCHANGED <<endpointVars, watches, imported, deliveries, posted, restarts,
                   heardVars>>

\* 2xx, 4xx, and the rest: other statuses, no connection, no answer.
Answers == {"ok", "rejected", "error"}

\* A delivery that cannot be signed is not POSTed.
Post(p) ==
    /\ posted[p] = None
    /\ \E item \in todo[p], answer \in Answers :
        LET d == item.id IN
        /\ d[1] \notin secrets => answer = "error"
        /\ posted' = [posted EXCEPT ![p] = [item |-> item, answer |-> answer]]
        /\ todo' = [todo EXCEPT ![p] = @ \ {item}]
        /\ answers' = [answers EXCEPT ![d] = @ \cup ({answer} \ {"error"})]
        /\ tries' = [tries EXCEPT ![d] = IF @ < MaxAttempts THEN @ + 1 ELSE @]
    /\ UNCHANGED <<endpointVars, watches, imported, deliveries, restarts>>

Retried(row) == [row EXCEPT !.attempts = @ + 1, !.waiting = TRUE]
Settled(row, state) == [row EXCEPT !.attempts = @ + 1, !.state = state]

\* Mutation of Outcome: every answer but 2xx is final.
NoRetry(row, answer) ==
    Settled(row, IF answer = "ok" THEN "delivered" ELSE "failed")

\* Mutation of Outcome: an attempt nobody answered does not count.
AnsweredOnly(row, answer) ==
    CASE answer = "ok" -> Settled(row, "delivered")
      [] answer = "rejected" -> Settled(row, "failed")
      [] OTHER -> [row EXCEPT !.waiting = TRUE]

Outcome(row, answer) ==
    IF answer = "ok" THEN Settled(row, "delivered")
    ELSE IF answer = "rejected" \/ row.attempts + 1 >= MaxAttempts THEN Settled(row, "failed")
    ELSE Retried(row)

\* UPDATE of a row that was deleted meanwhile changes nothing and is no error.
Put(d, row) ==
    IF deliveries[d] = NoRow THEN deliveries ELSE [deliveries EXCEPT ![d] = row]

Record(p) ==
    /\ posted[p] # None
    /\ deliveries' = Put(posted[p].item.id, Outcome(posted[p].item.row, posted[p].answer))
    /\ posted' = [posted EXCEPT ![p] = None]
    /\ UNCHANGED <<endpointVars, watches, imported, todo, restarts, heardVars>>

\* The process dies or a statement fails: the rest of the pass is not done, and a
\* POST already made is not recorded.
PassDies(p) ==
    /\ todo[p] # {} \/ posted[p] # None
    /\ p = Server => restarts < MaxRestarts
    /\ restarts' = IF p = Server THEN restarts + 1 ELSE restarts
    /\ todo' = [todo EXCEPT ![p] = {}]
    /\ posted' = [posted EXCEPT ![p] = None]
    /\ UNCHANGED <<endpointVars, watches, imported, deliveries, heardVars>>

\* The clock reaches a delivery's next_attempt_at.
BackoffElapses(d) ==
    /\ deliveries[d].state = "pending" /\ deliveries[d].waiting
    /\ deliveries' = [deliveries EXCEPT ![d].waiting = FALSE]
    /\ UNCHANGED <<endpointVars, watches, imported, passVars, heardVars>>

Next ==
    \/ \E w \in Watches : \/ WatchAdd(w) \/ WatchRemove(w)
                          \/ \E enabled \in BOOLEAN : WatchSetEnabled(w, enabled)
    \/ \E e \in Endpoints :
        \/ EndpointAdd(e) \/ EndpointRow(e) \/ EndpointRowFails(e)
        \/ EndpointRemove(e) \/ EndpointRevoke(e) \/ EndpointCutShort(e)
        \/ \E enabled \in BOOLEAN : EndpointSetEnabled(e, enabled)
    \/ \E l \in BankLines : TransactionCreate(l)
    \/ \E p \in Dispatchers : StartPass(p) \/ Post(p) \/ Record(p) \/ PassDies(p)
    \/ \E d \in Deliveries : BackoffElapses(d)

Spec == Init /\ [][Next]_vars

(***************************************************************************)
(* pay_delivery_loop runs a pass every PAY_DELIVERY_INTERVAL and carries on*)
(* after one that failed; a POST is bounded by the transport's timeouts; a *)
(* backoff ends.  The other dispatchers run when somebody starts them, or  *)
(* never, and may hang.                                                    *)
(***************************************************************************)
Fairness ==
    /\ WF_vars(StartPass(Server)) /\ WF_vars(Post(Server)) /\ WF_vars(Record(Server))
    /\ \A d \in Deliveries : WF_vars(BackoffElapses(d))

FairSpec == Spec /\ Fairness

-----------------------------------------------------------------------------
(***************************************************************************)
(* Properties.                                                             *)
(***************************************************************************)

Row == [state : {"none", "pending", "delivered", "failed"}, attempts : 0..MaxAttempts,
        waiting : BOOLEAN]
Item == [id : Deliveries, row : Row]

\* The types of the tables, of the passes under way and of what happened; no row
\* counts more than MAX_DELIVERY_ATTEMPTS attempts.
TypeOK ==
    /\ endpoints \in [Endpoints -> RowStates] /\ watches \in [Watches -> RowStates]
    /\ secrets \subseteq Endpoints /\ stranded \subseteq Endpoints
    /\ adding \subseteq Endpoints /\ removing \subseteq Endpoints
    /\ imported \subseteq BankLines
    /\ deliveries \in [Deliveries -> Row]
    /\ todo \in [Dispatchers -> SUBSET Item]
    /\ posted \in [Dispatchers -> {None} \cup [item : Item, answer : Answers]]
    /\ restarts \in 0..MaxRestarts
    /\ answers \in [Deliveries -> SUBSET Answers]
    /\ tries \in [Deliveries -> 0..MaxAttempts]

\* pay_deliver_due: a delivery says `delivered' only if its receiver did answer
\* 2xx, and `failed' only if it answered 4xx or MAX_DELIVERY_ATTEMPTS attempts were
\* made, counted over all dispatchers and passes that died: a stale row may forget
\* attempts, it never invents one.
SettledForAReason ==
    \A d \in Deliveries :
        /\ deliveries[d].state = "delivered" => "ok" \in answers[d]
        /\ deliveries[d].state = "failed" =>
            "rejected" \in answers[d] \/ tries[d] = MaxAttempts

\* pay_endpoint_add, pay_endpoint_remove: an endpoint in the table can always be
\* signed for, wherever the two transactions of either are cut short; and a secret
\* without its endpoint is one whose add or remove is under way or was cut short.
SecretsFollowEndpoints ==
    \A e \in Endpoints :
        /\ endpoints[e] \in Present => e \in secrets
        /\ e \in secrets /\ endpoints[e] \notin Present =>
            e \in adding \cup removing \cup stranded

\* update_delivery_outcome: an outcome that arrives after its endpoint or its watch
\* was removed does not bring the delivery back.
QueueHasItsParents ==
    \A d \in Deliveries :
        deliveries[d] # NoRow =>
            endpoints[d[1]] \in Present /\ watches[d[2]] \in Present /\ d[3] \in imported

\* pay_delivery_loop: a delivery that is not removed, to an endpoint that is in the
\* end left enabled, is in the end settled for good, however often another dispatcher
\* overwrites the row with an outcome it computed from a stale one.
EventuallySettled ==
    \A d \in Deliveries :
        <>[](deliveries[d] # NoRow /\ endpoints[d[1]] = "on") =>
            <>[](deliveries[d].state \in {"delivered", "failed"})

\* docs/PAYMENTS.md: `2xx' makes a delivery `delivered', and that is the end of it.
DeliveredIsDone ==
    [][\A d \in Deliveries :
        deliveries[d].state = "delivered" => deliveries'[d].state \in {"delivered", "none"}]_vars
=============================================================================
