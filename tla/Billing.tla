------------------------------- MODULE Billing -------------------------------
(***************************************************************************)
(* Credit packs bought through Creem: the checkout service, the webhook    *)
(* service and the four Postgres tables behind them                        *)
(* (src/app/server/billing).                                               *)
(*                                                                         *)
(* Every webhook call runs in one transaction at READ COMMITTED.  A call   *)
(* is a handler that takes one statement per step; what it has written is  *)
(* visible to the others only after Commit, and the row locks it holds are *)
(* read off its position in the code (see HoldsEvent, HoldsOrder,          *)
(* HoldsBalance).  Creem, which delivers an event at least once and in any *)
(* order, is external.                                                     *)
(***************************************************************************)
EXTENDS Integers, FiniteSets

CONSTANTS
    Users,      \* user ids
    Orders,     \* ids (and request ids, and Creem checkout ids) of orders
    Events,     \* Creem event ids
    Packs,      \* credit packs on sale
    Price,      \* price of each pack in US cents
    Handlers,   \* concurrent webhook calls
    Payloads,   \* the webhook bodies Creem may deliver
    None        \* a field that is missing

\* CREDITS_PER_USD_CENT: ten cents buy one credit.
CREDITS_PER_USD_CENT == 10

ASSUME PriceAssumption ==
    /\ Price \in [Packs -> Nat]
    /\ \A k \in Packs : Price[k] > 0 /\ Price[k] % 100 = 0

ASSUME PayloadAssumption ==
    /\ None \notin Orders \cup Packs
    /\ Payloads \subseteq
         [ type : {"checkout.completed", "other", "malformed"},
           event : Events,
           request : Orders \cup {None},
           checkout : Orders,
           pack : Packs \cup {None},
           amount : Nat \cup {None},
           usd : BOOLEAN ]

\* An event is about one checkout, and Creem hands back the request id it was
\* given for that checkout or none.
ASSUME CreemAssumption ==
    /\ \A p \in Payloads : p.request \in {p.checkout, None}
    /\ \A p, q \in Payloads : p.event = q.event => p.checkout = q.checkout

\* credits_for_usd_cents
Credits(k) == Price[k] \div CREDITS_PER_USD_CENT

VARIABLES
    row,        \* committed billing_orders: order -> status, user and pack
    draft,      \* progress of the create_checkout transaction of an order
    creem,      \* orders that have a checkout at Creem
    events,     \* committed billing_webhook_events
    balance,    \* committed billing_credit_balances: user -> credits, or NoRow
    ledger,     \* committed billing_credit_ledger
    pc,         \* next statement of each webhook call
    job,        \* the payload of each webhook call
    ord,        \* the order the call resolved, as it read it
    seen,       \* the balance the call read under the balance lock
    reply       \* the last reply of each webhook call

vars == <<row, draft, creem, events, balance, ledger, pc, job, ord, seen, reply>>

NoRow == -1

Rows == [status : {"absent", "pending", "paid"},
         user : Users \cup {None}, pack : Packs \cup {None}]

Absent == [status |-> "absent", user |-> None, pack |-> None]

LedgerRows == [user : Users, order : Orders, event : Events,
               delta : Nat \ {0}, after : Nat]

Steps == {"idle", "resolve", "select_event", "insert_event", "mark_paid",
          "select_ledger", "lock_balance", "insert_balance", "commit"}

Replies == {"none", "applied", "duplicate", "ignored", "error"}

TypeOK ==
    /\ row \in [Orders -> Rows]
    /\ draft \in [Orders -> {"new", "inserted", "checked_out", "closed"}]
    /\ creem \subseteq Orders
    /\ events \subseteq Events
    /\ balance \in [Users -> Nat \cup {NoRow}]
    /\ ledger \subseteq LedgerRows
    /\ pc \in [Handlers -> Steps]
    /\ job \in [Handlers -> Payloads \cup {None}]
    /\ ord \in [Handlers -> Orders \cup {None}]
    /\ seen \in [Handlers -> Nat]
    /\ reply \in [Handlers -> Replies]

-----------------------------------------------------------------------------
(* Row locks and uncommitted rows, from the position of a call. *)

\* Mutant: the event is locked when it is looked up, which two calls can do.
HoldsEventOnceSelected(h) ==
    pc[h] \in {"insert_event", "mark_paid", "select_ledger", "lock_balance",
               "insert_balance", "commit"}

HoldsEvent(h) ==
    pc[h] \in {"mark_paid", "select_ledger", "lock_balance",
               "insert_balance", "commit"}

HoldsOrder(h) ==
    pc[h] \in {"select_ledger", "lock_balance", "insert_balance", "commit"}

HoldsBalance(h) == pc[h] = "commit"

UserOf(h) == row[ord[h]].user

Init ==
    /\ row = [o \in Orders |-> Absent]
    /\ draft = [o \in Orders |-> "new"]
    /\ creem = {}
    /\ events = {}
    /\ balance = [u \in Users |-> NoRow]
    /\ ledger = {}
    /\ pc = [h \in Handlers |-> "idle"]
    /\ job = [h \in Handlers |-> None]
    /\ ord = [h \in Handlers |-> None]
    /\ seen = [h \in Handlers |-> 0]
    /\ reply = [h \in Handlers |-> "none"]

-----------------------------------------------------------------------------
(* BillingCheckoutService.create_checkout: one transaction around the       *)
(* insert, the call to Creem and the update.                                *)

\* Mutant: the insert commits on its own.
CreatePendingAutocommit(o) ==
    /\ draft[o] = "new"
    /\ draft' = [draft EXCEPT ![o] = "inserted"]
    /\ \E u \in Users, k \in Packs :
         row' = [row EXCEPT ![o] = [status |-> "pending", user |-> u, pack |-> k]]
    /\ UNCHANGED <<creem, events, balance, ledger, pc, job, ord, seen, reply>>

\* orders.create_pending: the new row is not visible to others yet.
CreatePending(o) ==
    /\ draft[o] = "new"
    /\ draft' = [draft EXCEPT ![o] = "inserted"]
    /\ UNCHANGED <<row, creem, events, balance, ledger, pc, job, ord, seen, reply>>

\* creem.create_checkout: from here Creem knows the order's request id.
CreemCreateCheckout(o) ==
    /\ draft[o] = "inserted"
    /\ draft' = [draft EXCEPT ![o] = "checked_out"]
    /\ creem' = creem \cup {o}
    /\ UNCHANGED <<row, events, balance, ledger, pc, job, ord, seen, reply>>

\* orders.attach_checkout and the commit that makes the row visible.
AttachCheckout(o, u, k) ==
    /\ draft[o] = "checked_out"
    /\ draft' = [draft EXCEPT ![o] = "closed"]
    /\ row' = [row EXCEPT ![o] = [status |-> "pending", user |-> u, pack |-> k]]
    /\ UNCHANGED <<creem, events, balance, ledger, pc, job, ord, seen, reply>>

\* Creem refuses, or the process dies: the transaction rolls back.  What
\* Creem has created stays.
CheckoutFails(o) ==
    /\ draft[o] \in {"inserted", "checked_out"}
    /\ draft' = [draft EXCEPT ![o] = "closed"]
    /\ UNCHANGED <<row, creem, events, balance, ledger, pc, job, ord, seen, reply>>

-----------------------------------------------------------------------------
(* BillingWebhookService.apply_payload, one statement per step. *)

\* A call ends; its locals are gone.
End(h, r) ==
    /\ pc' = [pc EXCEPT ![h] = "idle"]
    /\ ord' = [ord EXCEPT ![h] = None]
    /\ seen' = [seen EXCEPT ![h] = 0]
    /\ reply' = [reply EXCEPT ![h] = r]
    /\ UNCHANGED <<draft, creem, job>>

\* A call ends without a write that is kept.
Reply(h, r) ==
    /\ End(h, r)
    /\ UNCHANGED <<row, events, balance, ledger>>

Goto(h, step) ==
    /\ pc' = [pc EXCEPT ![h] = step]
    /\ UNCHANGED <<row, draft, creem, events, balance, ledger, job, ord, seen, reply>>

\* Creem delivers a signed event, again or for the first time.
Deliver(h, p) ==
    /\ pc[h] = "idle"
    /\ p.checkout \in creem
    /\ pc' = [pc EXCEPT ![h] = "resolve"]
    /\ job' = [job EXCEPT ![h] = p]
    /\ reply' = [reply EXCEPT ![h] = "none"]
    /\ UNCHANGED <<row, draft, creem, events, balance, ledger, ord, seen>>

\* parse_checkout_completed_grant returns no grant, or raises.
Parse(h) ==
    /\ pc[h] = "resolve"
    /\ \/ /\ job[h].type = "other"
          /\ Reply(h, "ignored")
       \/ /\ \/ job[h].type = "malformed"
             \/ job[h].type = "checkout.completed" /\ job[h].pack = None
          /\ Reply(h, "error")

Parsed(h) == job[h].type = "checkout.completed" /\ job[h].pack # None

\* _resolve_order: by the request id if the payload has one, else, or if no
\* row has it, by the Creem checkout id.
Resolved(p) ==
    IF p.request # None /\ row[p.request].status # "absent"
    THEN p.request ELSE p.checkout

\* The pack, the amount and the currency must be those of the order.
Matches(p, o) ==
    /\ p.pack = row[o].pack
    /\ p.amount # None
    /\ p.amount = Price[row[o].pack]
    /\ p.usd

\* The order is read without a lock; every check is made on that copy.
ResolveOrder(h) ==
    /\ pc[h] = "resolve"
    /\ Parsed(h)
    /\ LET o == Resolved(job[h]) IN
         \/ /\ row[o].status = "absent" \/ ~Matches(job[h], o)
            /\ Reply(h, "error")
         \/ /\ row[o].status = "paid" /\ Matches(job[h], o)
            /\ Reply(h, "duplicate")
         \/ /\ row[o].status = "pending" /\ Matches(job[h], o)
            /\ pc' = [pc EXCEPT ![h] = "select_event"]
            /\ ord' = [ord EXCEPT ![h] = o]
            /\ UNCHANGED <<row, draft, creem, events, balance, ledger, job, seen, reply>>

\* try_begin, the lookup.
SelectEvent(h) ==
    /\ pc[h] = "select_event"
    /\ \/ job[h].event \in events /\ Reply(h, "duplicate")
       \/ job[h].event \notin events /\ Goto(h, "insert_event")

\* Mutant: an event in progress counts as processed.
InsertEventNoWait(h) ==
    /\ pc[h] = "insert_event"
    /\ IF \E g \in Handlers \ {h} : HoldsEvent(g) /\ job[g].event = job[h].event
       THEN Reply(h, "duplicate")
       ELSE Goto(h, "mark_paid")

\* try_begin, the insert: the unique index makes it wait for another call
\* that has inserted the same event and not finished.  If that one commits,
\* the IntegrityError is caught, but Postgres has aborted the transaction and
\* the next statement (get_balance) raises.
InsertEvent(h) ==
    /\ pc[h] = "insert_event"
    /\ \A g \in Handlers \ {h} : ~(HoldsEvent(g) /\ job[g].event = job[h].event)
    /\ \/ job[h].event \in events /\ Reply(h, "error")
       \/ job[h].event \notin events /\ Goto(h, "mark_paid")

\* mark_paid: SELECT ... FOR UPDATE waits for the order row.  A row that is
\* paid by now is left as it is, and the call goes on either way.
MarkPaid(h) ==
    /\ pc[h] = "mark_paid"
    /\ \A g \in Handlers \ {h} : ~(HoldsOrder(g) /\ ord[g] = ord[h])
    /\ Goto(h, "select_ledger")

LedgerHas(e) == \E l \in ledger : l.event = e

\* Mutant: the order is left pending.
CommitMarksEventOnly(h) ==
    /\ events' = events \cup {job[h].event}
    /\ End(h, "applied")
    /\ UNCHANGED row

\* What a commit leaves behind besides the credit.
CommitMarks(h) ==
    /\ events' = events \cup {job[h].event}
    /\ row' = [row EXCEPT ![ord[h]].status = "paid"]
    /\ End(h, "applied")

\* credit, the lookup: an event that has a ledger row is not credited again.
SelectLedger(h) ==
    /\ pc[h] = "select_ledger"
    /\ \/ /\ LedgerHas(job[h].event)
          /\ CommitMarks(h)
          /\ UNCHANGED <<balance, ledger>>
       \/ /\ ~LedgerHas(job[h].event)
          /\ Goto(h, "lock_balance")

\* Mutant: the balance row is read without FOR UPDATE.
BalanceUnlocked(h) == TRUE

BalanceFree(h) ==
    \A g \in Handlers \ {h} : ~(HoldsBalance(g) /\ UserOf(g) = UserOf(h))

\* The balance row is locked and read.
ReadBalance(h, b) ==
    /\ pc' = [pc EXCEPT ![h] = "commit"]
    /\ seen' = [seen EXCEPT ![h] = b]
    /\ UNCHANGED <<row, draft, creem, events, balance, ledger, job, ord, reply>>

\* credit, SELECT ... FOR UPDATE on the balance row.  A row that another call
\* has inserted and not committed is not seen, so this does not wait for it.
LockBalance(h) ==
    /\ pc[h] = "lock_balance"
    /\ \/ /\ balance[UserOf(h)] = NoRow
          /\ Goto(h, "insert_balance")
       \/ /\ balance[UserOf(h)] # NoRow
          /\ BalanceFree(h)
          /\ ReadBalance(h, balance[UserOf(h)])

\* Mutant: no unique index on the user of a balance row.
InsertBalanceNotUnique(h) ==
    /\ pc[h] = "insert_balance"
    /\ BalanceFree(h)
    /\ ReadBalance(h, 0)

\* credit, the insert of a first balance row: unique per user, so it waits
\* for another inserter and fails if that one has committed.
InsertBalance(h) ==
    /\ pc[h] = "insert_balance"
    /\ BalanceFree(h)
    /\ \/ balance[UserOf(h)] # NoRow /\ Reply(h, "error")
       \/ balance[UserOf(h)] = NoRow /\ ReadBalance(h, 0)

\* The balance update, the ledger row and the commit.
Commit(h) ==
    /\ pc[h] = "commit"
    /\ LET u == UserOf(h)
           delta == Credits(job[h].pack)
           after == seen[h] + delta
       IN  /\ balance' = [balance EXCEPT ![u] = after]
           /\ ledger' = ledger \cup
                {[user |-> u, order |-> ord[h], event |-> job[h].event,
                  delta |-> delta, after |-> after]}
    /\ CommitMarks(h)

\* The process or the connection dies inside the transaction.
Rollback(h) ==
    /\ pc[h] # "idle"
    /\ Reply(h, "error")

HandlerStep(h) ==
    \/ Parse(h) \/ ResolveOrder(h) \/ SelectEvent(h) \/ InsertEvent(h)
    \/ MarkPaid(h) \/ SelectLedger(h) \/ LockBalance(h) \/ InsertBalance(h)
    \/ Commit(h)

CheckoutStep(o) ==
    \/ CreatePending(o)
    \/ CreemCreateCheckout(o)
    \/ \E u \in Users, k \in Packs : AttachCheckout(o, u, k)
    \/ CheckoutFails(o)

Next ==
    \/ \E o \in Orders : CheckoutStep(o)
    \/ \E h \in Handlers, p \in Payloads : Deliver(h, p)
    \/ \E h \in Handlers : HandlerStep(h)
    \/ \E h \in Handlers : Rollback(h)

\* A running call goes on: the event loop schedules it.  Postgres queues the
\* waiters of a lock, so a call is not overtaken for ever by others that take
\* the lock and roll back: hence strong fairness.  Nothing makes Creem deliver
\* or a customer check out, and no call has to fail.
Fairness == \A h \in Handlers : SF_vars(HandlerStep(h))

Spec == Init /\ [][Next]_vars /\ Fairness

-----------------------------------------------------------------------------
(* Properties *)

\* The ledger never holds two rows for one order: a purchase is credited once.
OrderCreditedOnce ==
    \A l1, l2 \in ledger : l1.order = l2.order => l1 = l2

\* The events, orders and ledger tables agree: a ledger row stands for a
\* registered event and a paid order, and a paid order has its ledger row.
TablesAgree ==
    /\ \A l \in ledger :
         /\ l.event \in events
         /\ row[l.order].status = "paid"
         /\ l.user = row[l.order].user
         /\ l.delta = Credits(row[l.order].pack)
    /\ \A o \in Orders :
         row[o].status = "paid" => \E l \in ledger : l.order = o
    /\ \A e \in events : LedgerHas(e)

\* No credit is lost or invented when two calls credit one user at once: the
\* user's ledger rows form a chain of running balances from zero to the
\* balance row.
BalanceFollowsLedger ==
    /\ \A u \in Users :
         IF balance[u] = NoRow
         THEN ~ \E l \in ledger : l.user = u
         ELSE \E l \in ledger : l.user = u /\ l.after = balance[u]
    /\ \A l \in ledger :
         /\ l.after <= balance[l.user]
         /\ \/ l.after = l.delta
            \/ \E k \in ledger : k.user = l.user /\ k.after = l.after - l.delta
    /\ \A l1, l2 \in ledger :
         l1.user = l2.user /\ l1.after = l2.after => l1 = l2

\* Creem stops redelivering once it is told "applied" or "duplicate", so such
\* a reply must only be given when the order is paid and credited for good.
AcknowledgedIsCredited ==
    \A h \in Handlers :
        reply[h] \in {"applied", "duplicate"} =>
            \E l \in ledger : l.order = job[h].checkout

\* A visible order can be paid for: Creem has its checkout.
VisibleOrderHasCheckout ==
    \A o \in Orders : row[o].status # "absent" => o \in creem

\* Credits are never taken back: balances only grow and ledger rows stay.
CreditsOnlyGrow ==
    [][ /\ \A u \in Users : balance'[u] >= balance[u]
        /\ ledger \subseteq ledger' ]_vars

\* The credits of a user who may have no balance row yet.
Balances == [u \in Users |-> IF balance[u] = NoRow THEN 0 ELSE balance[u]]

Purchase == INSTANCE Purchases WITH
                order <- row, used <- events, credits <- Balances,
                Worth <- [k \in Packs |-> Credits(k)]

\* The transactions are serializable although they take their locks one by one
\* and check the order on a copy read without a lock: what the tables show is
\* orders placed and events credited one at a time, each event once.
ImplementsPurchases == Purchase!Spec

\* Calls never wait for each other in a circle: each one ends.
CallsEnd == \A h \in Handlers : pc[h] # "idle" ~> pc[h] = "idle"

\* Creem gives each order one event id.
OneEventPerOrder ==
    \A p, q \in Payloads :
        p.checkout = q.checkout => p.event = q.event
=============================================================================
