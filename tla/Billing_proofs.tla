--------------------------- MODULE Billing_proofs ---------------------------
(* Machine-checked proofs about Billing, for every value of its constants. *)
EXTENDS Billing, TLAPS

-----------------------------------------------------------------------------
(* The inductive invariant *)

\* A visible order has an owner and a pack, and its checkout is committed.
RowsOK ==
    \A o \in Orders :
        /\ row[o].status # "absent" =>
             /\ row[o].user \in Users
             /\ row[o].pack \in Packs
             /\ draft[o] = "closed"
             /\ o \in creem
        /\ draft[o] = "checked_out" => o \in creem

Active == Steps \ {"idle", "resolve"}

\* A call past _resolve_order works for a visible order that fits its payload.
CallsOK ==
    \A h \in Handlers :
        /\ pc[h] # "idle" => job[h] \in Payloads
        /\ pc[h] \in Active =>
             /\ job[h].pack \in Packs
             /\ ord[h] \in Orders
             /\ ord[h] = job[h].checkout
             /\ row[ord[h]].status # "absent"
             /\ row[ord[h]].pack = job[h].pack

\* Two calls never hold the same event, order or balance row, and what a call
\* read under a lock it holds is still what the table says.
LocksOK ==
    /\ \A g, h \in Handlers : g # h =>
         /\ HoldsEvent(g) /\ HoldsEvent(h) => job[g].event # job[h].event
         /\ HoldsOrder(g) /\ HoldsOrder(h) => ord[g] # ord[h]
         /\ HoldsBalance(g) /\ HoldsBalance(h) => UserOf(g) # UserOf(h)
    /\ \A h \in Handlers :
         /\ HoldsEvent(h) => job[h].event \notin events
         /\ HoldsBalance(h) =>
              seen[h] = IF balance[UserOf(h)] = NoRow THEN 0
                        ELSE balance[UserOf(h)]

\* A ledger row goes back to a payload for its order.
LedgerHasSource ==
    \A l \in ledger : \E p \in Payloads :
        p.event = l.event /\ p.checkout = l.order

IInv ==
    /\ TypeOK
    /\ RowsOK
    /\ CallsOK
    /\ LocksOK
    /\ LedgerHasSource
    /\ TablesAgree
    /\ BalanceFollowsLedger
    /\ AcknowledgedIsCredited

-----------------------------------------------------------------------------
(* Credits *)

\* A pack is worth a positive number of credits.
LEMMA CreditsPositive ==
    ASSUME NEW k \in Packs PROVE Credits(k) \in Nat \ {0}
<1>1. Price[k] \in Nat /\ Price[k] > 0 /\ Price[k] % 100 = 0
  BY PriceAssumption
<1>2. Price[k] >= 100
  BY <1>1
<1>3. Price[k] \div 10 \in Nat /\ Price[k] \div 10 > 0
  BY <1>1, <1>2
<1> QED
  BY <1>3 DEF Credits, CREDITS_PER_USD_CENT

-----------------------------------------------------------------------------
(* Steps that leave the tables alone *)

\* A call that ends without a kept write preserves the invariant, if a reply
\* that acknowledges the event is justified by the ledger.
LEMMA ReplyStep ==
    ASSUME NEW h \in Handlers, NEW r \in Replies, IInv, Reply(h, r),
           pc[h] # "idle",
           r \in {"applied", "duplicate"} =>
               \E l \in ledger : l.order = job[h].checkout
    PROVE  IInv'
<1> USE DEF IInv, Reply, End
<1>1. TypeOK'
  BY DEF TypeOK, Steps
<1>2. RowsOK'
  BY DEF RowsOK
<1>3. CallsOK'
  BY DEF CallsOK, TypeOK, Active
<1>4. LocksOK'
  BY DEF LocksOK, TypeOK, HoldsEvent, HoldsOrder, HoldsBalance, UserOf
<1>5. LedgerHasSource'
  BY DEF LedgerHasSource
<1>6. TablesAgree'
  BY DEF TablesAgree, LedgerHas
<1>7. BalanceFollowsLedger'
  BY DEF BalanceFollowsLedger
<1>8. AcknowledgedIsCredited'
  BY DEF AcknowledgedIsCredited, TypeOK
<1> QED
  BY <1>1, <1>2, <1>3, <1>4, <1>5, <1>6, <1>7, <1>8

\* A call that goes on to its next statement preserves the invariant, if the
\* event and the order it comes to hold are held by no other call.
LEMMA GotoStep ==
    ASSUME NEW h \in Handlers, NEW step \in Active \ {"commit"}, IInv,
           Goto(h, step), pc[h] \in Active,
           step \notin {"select_event", "insert_event"} =>
               /\ job[h].event \notin events
               /\ \A g \in Handlers \ {h} :
                    ~(HoldsEvent(g) /\ job[g].event = job[h].event),
           step \notin {"select_event", "insert_event", "mark_paid"} =>
               \A g \in Handlers \ {h} : ~(HoldsOrder(g) /\ ord[g] = ord[h])
    PROVE  IInv'
<1> USE DEF IInv, Goto
<1>1. TypeOK'
  BY DEF TypeOK, Steps, Active
<1>2. RowsOK'
  BY DEF RowsOK
<1>3. CallsOK'
  BY DEF CallsOK, TypeOK, Active
<1>4. LocksOK'
  BY DEF LocksOK, TypeOK, HoldsEvent, HoldsOrder, HoldsBalance, UserOf, Active, Steps
<1>5. LedgerHasSource'
  BY DEF LedgerHasSource
<1>6. TablesAgree'
  BY DEF TablesAgree, LedgerHas
<1>7. BalanceFollowsLedger'
  BY DEF BalanceFollowsLedger
<1>8. AcknowledgedIsCredited'
  BY DEF AcknowledgedIsCredited, TypeOK
<1> QED
  BY <1>1, <1>2, <1>3, <1>4, <1>5, <1>6, <1>7, <1>8

-----------------------------------------------------------------------------
(* The invariant holds initially and every action preserves it *)

\* Nothing is stored and no call runs at the start.
LEMMA InitIInv == Init => IInv
<1> SUFFICES ASSUME Init PROVE IInv
  OBVIOUS
<1> USE DEF Init, Absent
<1>1. TypeOK
  BY DEF TypeOK, Rows, Steps, Replies, NoRow
<1>2. RowsOK /\ CallsOK /\ LedgerHasSource
  BY DEF RowsOK, CallsOK, LedgerHasSource, Active
<1>3. LocksOK
  BY DEF LocksOK, HoldsEvent, HoldsOrder, HoldsBalance
<1>4. TablesAgree /\ BalanceFollowsLedger /\ AcknowledgedIsCredited
  BY DEF TablesAgree, BalanceFollowsLedger, AcknowledgedIsCredited, LedgerHas
<1> QED
  BY <1>1, <1>2, <1>3, <1>4 DEF IInv

\* create_checkout: only a new order becomes visible, with its checkout.
LEMMA CheckoutInv ==
    ASSUME IInv, NEW o \in Orders, CheckoutStep(o) PROVE IInv'
<1>1. CASE CreatePending(o) \/ CreemCreateCheckout(o) \/ CheckoutFails(o)
  <2> USE <1>1 DEF CreatePending, CreemCreateCheckout, CheckoutFails, IInv
  <2>1. TypeOK'
    BY DEF TypeOK
  <2>2. RowsOK'
    BY DEF RowsOK, TypeOK
  <2>3. CallsOK' /\ LedgerHasSource'
    BY DEF CallsOK, LedgerHasSource
  <2>4. LocksOK'
    BY DEF LocksOK, HoldsEvent, HoldsOrder, HoldsBalance, UserOf
  <2>5. TablesAgree' /\ BalanceFollowsLedger' /\ AcknowledgedIsCredited'
    BY DEF TablesAgree, BalanceFollowsLedger, AcknowledgedIsCredited, LedgerHas
  <2> QED
    BY <2>1, <2>2, <2>3, <2>4, <2>5
<1>2. ASSUME NEW u \in Users, NEW k \in Packs, AttachCheckout(o, u, k)
      PROVE  IInv'
  <2> USE <1>2 DEF AttachCheckout, IInv
  <2>0. row[o].status = "absent" /\ o \in creem
    BY DEF RowsOK, TypeOK
  <2>1. TypeOK'
    BY DEF TypeOK, Rows
  <2>2. RowsOK'
    BY <2>0 DEF RowsOK, TypeOK
  <2>3. CallsOK' /\ LedgerHasSource'
    BY <2>0 DEF CallsOK, LedgerHasSource, TypeOK
  <2>4. \A h \in Handlers : pc[h] \in Active => ord[h] # o
    BY <2>0 DEF CallsOK
  <2>5. \A h \in Handlers : HoldsBalance(h) => UserOf(h)' = UserOf(h)
    BY <2>4 DEF HoldsBalance, UserOf, CallsOK, TypeOK, Active, Steps
  <2>6. LocksOK'
    BY <2>5 DEF LocksOK, HoldsEvent, HoldsOrder, HoldsBalance
  <2>7. \A l \in ledger : l.order # o
    BY <2>0 DEF TablesAgree
  <2>8. TablesAgree'
    BY <2>7, <2>0 DEF TablesAgree, LedgerHas, TypeOK, LedgerRows
  <2>9. BalanceFollowsLedger' /\ AcknowledgedIsCredited'
    BY DEF BalanceFollowsLedger, AcknowledgedIsCredited
  <2> QED
    BY <2>1, <2>2, <2>3, <2>6, <2>8, <2>9
<1> QED
  BY <1>1, <1>2 DEF CheckoutStep

\* A delivery only starts a call.
LEMMA DeliverInv ==
    ASSUME IInv, NEW h \in Handlers, NEW p \in Payloads, Deliver(h, p)
    PROVE  IInv'
<1> USE DEF IInv, Deliver
<1>1. TypeOK'
  BY DEF TypeOK, Steps, Replies
<1>2. RowsOK'
  BY DEF RowsOK
<1>3. CallsOK'
  BY DEF CallsOK, TypeOK, Active
<1>4. LocksOK'
  BY DEF LocksOK, TypeOK, HoldsEvent, HoldsOrder, HoldsBalance, UserOf
<1>5. LedgerHasSource'
  BY DEF LedgerHasSource
<1>6. TablesAgree'
  BY DEF TablesAgree, LedgerHas
<1>7. BalanceFollowsLedger'
  BY DEF BalanceFollowsLedger
<1>8. AcknowledgedIsCredited'
  BY DEF AcknowledgedIsCredited, TypeOK
<1> QED
  BY <1>1, <1>2, <1>3, <1>4, <1>5, <1>6, <1>7, <1>8

\* _resolve_order: a "duplicate" is only answered for a credited order, and a
\* call that goes on works for a pending order that fits its payload.
LEMMA ResolveOrderInv ==
    ASSUME IInv, NEW h \in Handlers, ResolveOrder(h) PROVE IInv'
<1> DEFINE o == Resolved(job[h])
<1>0. job[h] \in Payloads /\ job[h].checkout \in Orders
      /\ (row[o].status # "absent" => o = job[h].checkout)
  <2>1. job[h] \in Payloads
    BY DEF ResolveOrder, IInv, CallsOK
  <2>2. job[h].checkout \in Orders /\ job[h].request \in {job[h].checkout, None}
    BY <2>1, PayloadAssumption, CreemAssumption
  <2>3. row[o].status # "absent" => o = job[h].checkout
    BY <2>2 DEF Resolved
  <2> QED
    BY <2>1, <2>2, <2>3
<1>1. CASE Reply(h, "error")
  BY <1>1, ReplyStep DEF ResolveOrder, Replies
<1>2. CASE row[o].status = "paid" /\ Reply(h, "duplicate")
  <2>1. \E l \in ledger : l.order = job[h].checkout
    BY <1>0, <1>2 DEF IInv, TablesAgree
  <2> QED
    BY <1>2, <2>1, ReplyStep DEF ResolveOrder, Replies
<1>3. CASE /\ row[o].status = "pending" /\ Matches(job[h], o)
           /\ pc' = [pc EXCEPT ![h] = "select_event"]
           /\ ord' = [ord EXCEPT ![h] = o]
           /\ UNCHANGED <<row, draft, creem, events, balance, ledger, job, seen, reply>>
  <2> USE <1>3 DEF IInv
  <2>0. o \in Orders /\ o = job[h].checkout
    BY <1>0
  <2>1. TypeOK'
    BY <2>0 DEF TypeOK, Steps
  <2>2. RowsOK' /\ LedgerHasSource' /\ TablesAgree' /\ BalanceFollowsLedger'
    BY DEF RowsOK, LedgerHasSource, TablesAgree, BalanceFollowsLedger, LedgerHas
  <2>3. row[o].pack \in Packs
    BY <2>0 DEF RowsOK
  <2>4. CallsOK'
    BY <1>0, <2>0, <2>3 DEF CallsOK, TypeOK, Active, Matches
  <2>5. LocksOK'
    BY DEF LocksOK, TypeOK, HoldsEvent, HoldsOrder, HoldsBalance, UserOf
  <2>6. AcknowledgedIsCredited'
    BY DEF AcknowledgedIsCredited
  <2> QED
    BY <2>1, <2>2, <2>4, <2>5, <2>6
<1> QED
  BY <1>1, <1>2, <1>3 DEF ResolveOrder

\* try_begin: a known event is a credited one; an event that is inserted is
\* held by this call alone.
LEMMA TryBeginInv ==
    ASSUME IInv, NEW h \in Handlers, SelectEvent(h) \/ InsertEvent(h)
    PROVE  IInv'
<1>0. pc[h] \in Active /\ job[h] \in Payloads
  BY DEF SelectEvent, InsertEvent, Active, Steps, IInv, CallsOK
<1>1. CASE job[h].event \in events /\ Reply(h, "duplicate")
  <2>1. PICK l \in ledger : l.event = job[h].event
    BY <1>1 DEF IInv, TablesAgree, LedgerHas
  <2>2. PICK p \in Payloads : p.event = l.event /\ p.checkout = l.order
    BY DEF IInv, LedgerHasSource
  <2>3. l.order = job[h].checkout
    BY <1>0, <2>1, <2>2, CreemAssumption
  <2> QED
    BY <1>0, <1>1, <2>3, ReplyStep DEF Replies, Active
<1>2. CASE Reply(h, "error")
  BY <1>0, <1>2, ReplyStep DEF Replies, Active
<1>3. CASE Goto(h, "insert_event")
  BY <1>0, <1>3, GotoStep DEF Active, Steps
<1>4. CASE InsertEvent(h) /\ job[h].event \notin events /\ Goto(h, "mark_paid")
  BY <1>0, <1>4, GotoStep DEF InsertEvent, Active, Steps
<1> QED
  BY <1>1, <1>2, <1>3, <1>4 DEF SelectEvent, InsertEvent

\* mark_paid: the order row is held by this call alone from here on.
LEMMA MarkPaidInv ==
    ASSUME IInv, NEW h \in Handlers, MarkPaid(h) PROVE IInv'
<1>1. pc[h] \in Active /\ HoldsEvent(h)
  BY DEF MarkPaid, Active, Steps, HoldsEvent
<1>2. job[h].event \notin events /\
      \A g \in Handlers \ {h} : ~(HoldsEvent(g) /\ job[g].event = job[h].event)
  BY <1>1 DEF IInv, LocksOK
<1> QED
  BY <1>1, <1>2, GotoStep DEF MarkPaid, Active, Steps

\* A call that holds its event and its order keeps them.
LEMMA GotoHolding ==
    ASSUME IInv, NEW h \in Handlers, HoldsOrder(h),
           NEW step \in {"lock_balance", "insert_balance"}, Goto(h, step)
    PROVE  IInv'
<1>1. pc[h] \in Active /\ HoldsEvent(h)
  BY DEF Active, Steps, HoldsEvent, HoldsOrder
<1>2. job[h].event \notin events /\
      \A g \in Handlers \ {h} : ~(HoldsEvent(g) /\ job[g].event = job[h].event)
  BY <1>1 DEF IInv, LocksOK
<1>3. \A g \in Handlers \ {h} : ~(HoldsOrder(g) /\ ord[g] = ord[h])
  BY DEF IInv, LocksOK
<1>4. step \in Active \ {"commit"}
  BY DEF Active, Steps
<1> QED
  BY <1>1, <1>2, <1>3, <1>4, GotoStep

\* credit, the lookup: a call that holds its event finds no ledger row for it.
LEMMA SelectLedgerInv ==
    ASSUME IInv, NEW h \in Handlers, SelectLedger(h) PROVE IInv'
<1>1. HoldsEvent(h) /\ HoldsOrder(h)
  BY DEF SelectLedger, HoldsEvent, HoldsOrder
<1>2. ~LedgerHas(job[h].event)
  BY <1>1 DEF IInv, LocksOK, TablesAgree, LedgerHas
<1> QED
  BY <1>1, <1>2, GotoHolding DEF SelectLedger

\* The balance read under its lock is the balance of the table.
LEMMA ReadBalanceInv ==
    ASSUME IInv, NEW h \in Handlers,
           pc[h] \in {"lock_balance", "insert_balance"}, BalanceFree(h),
           ReadBalance(h, IF balance[UserOf(h)] = NoRow THEN 0
                          ELSE balance[UserOf(h)])
    PROVE  IInv'
<1> USE DEF IInv, ReadBalance
<1>0. UserOf(h) \in Users
  BY DEF CallsOK, RowsOK, UserOf, Active, Steps
<1>1. TypeOK'
  BY <1>0 DEF TypeOK, Steps, NoRow
<1>2. RowsOK'
  BY DEF RowsOK
<1>3. CallsOK'
  BY DEF CallsOK, TypeOK, Active, Steps
<1>4. \A g \in Handlers : UserOf(g)' = UserOf(g)
  BY DEF UserOf
<1>5. LocksOK'
  BY <1>4 DEF LocksOK, TypeOK, HoldsEvent, HoldsOrder, HoldsBalance, BalanceFree
<1>6. LedgerHasSource'
  BY DEF LedgerHasSource
<1>7. TablesAgree' /\ BalanceFollowsLedger' /\ AcknowledgedIsCredited'
  BY DEF TablesAgree, BalanceFollowsLedger, AcknowledgedIsCredited, LedgerHas
<1> QED
  BY <1>1, <1>2, <1>3, <1>5, <1>6, <1>7

\* credit, the balance row.
LEMMA BalanceInv ==
    ASSUME IInv, NEW h \in Handlers, LockBalance(h) \/ InsertBalance(h)
    PROVE  IInv'
<1>0. HoldsOrder(h) /\ pc[h] # "idle"
  BY DEF LockBalance, InsertBalance, HoldsOrder
<1>1. CASE Goto(h, "insert_balance")
  BY <1>0, <1>1, GotoHolding
<1>2. CASE Reply(h, "error")
  BY <1>0, <1>2, ReplyStep DEF Replies
<1>3. CASE LockBalance(h) /\ balance[UserOf(h)] # NoRow /\ BalanceFree(h)
           /\ ReadBalance(h, balance[UserOf(h)])
  BY <1>3, ReadBalanceInv DEF LockBalance
<1>4. CASE InsertBalance(h) /\ balance[UserOf(h)] = NoRow /\ ReadBalance(h, 0)
  BY <1>4, ReadBalanceInv DEF InsertBalance
<1> QED
  BY <1>1, <1>2, <1>3, <1>4 DEF LockBalance, InsertBalance

\* The commit adds one ledger row and moves the balance to it.
LEMMA CommitInv ==
    ASSUME IInv, NEW h \in Handlers, Commit(h) PROVE IInv'
<1> DEFINE u == UserOf(h)
           k == job[h].pack
           o == ord[h]
           e == job[h].event
           after == seen[h] + Credits(k)
           new == [user |-> u, order |-> o, event |-> e,
                   delta |-> Credits(k), after |-> after]
<1>0. /\ pc[h] \in Active /\ job[h] \in Payloads /\ k \in Packs
      /\ o \in Orders /\ o = job[h].checkout
      /\ row[o].status # "absent" /\ row[o].pack = k
      /\ HoldsEvent(h) /\ HoldsOrder(h) /\ HoldsBalance(h)
  BY DEF IInv, Commit, CallsOK, Active, Steps, HoldsEvent, HoldsOrder, HoldsBalance
<1>1. u \in Users /\ u = row[o].user
  BY <1>0 DEF IInv, RowsOK, UserOf
<1>2. e \in Events /\ e \notin events
  BY <1>0, PayloadAssumption DEF IInv, LocksOK
<1>3. Credits(k) \in Nat /\ Credits(k) > 0
  BY <1>0, CreditsPositive
<1>4. seen[h] \in Nat /\ after \in Nat /\ after > seen[h]
      /\ seen[h] = IF balance[u] = NoRow THEN 0 ELSE balance[u]
  BY <1>0, <1>3 DEF IInv, TypeOK, LocksOK
<1>5. new \in LedgerRows
  BY <1>0, <1>1, <1>2, <1>3, <1>4 DEF LedgerRows
<1>6. /\ balance' = [balance EXCEPT ![u] = after]
      /\ ledger' = ledger \cup {new}
      /\ events' = events \cup {e}
      /\ row' = [row EXCEPT ![o].status = "paid"]
      /\ pc' = [pc EXCEPT ![h] = "idle"]
      /\ ord' = [ord EXCEPT ![h] = None]
      /\ seen' = [seen EXCEPT ![h] = 0]
      /\ reply' = [reply EXCEPT ![h] = "applied"]
      /\ UNCHANGED <<draft, creem, job>>
  BY DEF Commit, CommitMarks, End
<1> HIDE DEF u, k, o, e, after, new
<1>7. \A q \in Orders : /\ row'[q].user = row[q].user
                        /\ row'[q].pack = row[q].pack
                        /\ row'[q].status = IF q = o THEN "paid" ELSE row[q].status
  BY <1>6, <1>0, SMTT(30) DEF IInv, TypeOK, Rows
<1>8. TypeOK'
  BY <1>0, <1>1, <1>2, <1>4, <1>5, <1>6, SMTT(30) DEF IInv, TypeOK, Rows, Steps, Replies
<1>9. RowsOK'
  BY <1>0, <1>6, <1>7 DEF IInv, RowsOK
<1>10. CallsOK'
  BY <1>6, <1>7 DEF IInv, CallsOK, TypeOK, Active
<1>11. LocksOK'
  <2>1. \A g \in Handlers \ {h} : HoldsEvent(g) => job[g].event # e
    BY <1>0 DEF IInv, LocksOK, e
  <2>2. \A g \in Handlers \ {h} : HoldsBalance(g) =>
            /\ UserOf(g) # u /\ UserOf(g) \in Users
            /\ UserOf(g)' = UserOf(g)
    <3> SUFFICES ASSUME NEW g \in Handlers \ {h}, HoldsBalance(g)
                 PROVE  /\ UserOf(g) # u /\ UserOf(g) \in Users
                        /\ UserOf(g)' = UserOf(g)
      OBVIOUS
    <3>1. ord[g] \in Orders /\ row[ord[g]].status # "absent"
      BY DEF IInv, CallsOK, HoldsBalance, Active, Steps
    <3>2. UserOf(g) # u
      BY <1>0 DEF IInv, LocksOK, u
    <3>3. UserOf(g) \in Users
      BY <3>1 DEF IInv, RowsOK, UserOf
    <3>4. ord'[g] = ord[g]
      BY <1>6 DEF IInv, TypeOK
    <3> QED
      BY <3>1, <3>2, <3>3, <3>4, <1>7 DEF UserOf
  <2>3. ~HoldsEvent(h)' /\ ~HoldsOrder(h)' /\ ~HoldsBalance(h)'
    BY <1>6 DEF IInv, TypeOK, HoldsEvent, HoldsOrder, HoldsBalance
  <2>4. \A g \in Handlers \ {h} :
            /\ HoldsEvent(g)' <=> HoldsEvent(g)
            /\ HoldsOrder(g)' <=> HoldsOrder(g)
            /\ HoldsBalance(g)' <=> HoldsBalance(g)
            /\ ord'[g] = ord[g] /\ seen'[g] = seen[g] /\ job'[g] = job[g]
    BY <1>6 DEF IInv, TypeOK, HoldsEvent, HoldsOrder, HoldsBalance
  <2>5. \A g \in Handlers \ {h} : HoldsBalance(g) => balance'[UserOf(g)] = balance[UserOf(g)]
    BY <2>2, <1>6, <1>1 DEF IInv, TypeOK
  <2> QED
    BY <2>1, <2>2, <2>3, <2>4, <2>5, <1>6 DEF IInv, LocksOK
<1>12. LedgerHasSource'
  BY <1>0, <1>6, SMTT(30) DEF IInv, LedgerHasSource, new, e
<1>13. TablesAgree'
  <2>1. \A l \in ledger : l.order \in Orders
    BY DEF IInv, TypeOK, LedgerRows
  <2>2. new.event = e /\ new.order = o /\ new.user = u /\ new.delta = Credits(k)
    BY DEF new
  <2> QED
    BY <1>0, <1>1, <1>6, <1>7, <2>1, <2>2 DEF IInv, TablesAgree, LedgerHas, Credits
<1>14. BalanceFollowsLedger'
  <2>1. \A l \in ledger : l.user \in Users /\ l.after \in Nat /\ l.delta \in Nat
    BY DEF IInv, TypeOK, LedgerRows
  <2>2. \A v \in Users : balance[v] \in Nat \cup {-1}
    BY DEF IInv, TypeOK, NoRow
  <2>3. new.user = u /\ new.after = after /\ new.delta = Credits(k)
    BY DEF new
  <2>4. \A v \in Users : balance'[v] = IF v = u THEN after ELSE balance[v]
    BY <1>1, <1>6 DEF IInv, TypeOK
  <2>5. \A l \in ledger : l.user = u => l.after <= seen[h]
    BY <1>4, <2>1 DEF IInv, BalanceFollowsLedger
  <2>6. after = seen[h] + Credits(k)
    BY DEF after
  <2>7. \A v \in Users :
          IF balance'[v] = NoRow
          THEN ~ \E l \in ledger' : l.user = v
          ELSE \E l \in ledger' : l.user = v /\ l.after = balance'[v]
    BY <1>4, <1>6, <2>3, <2>4 DEF IInv, BalanceFollowsLedger, NoRow
  <2>8. seen[h] = 0 \/ \E l \in ledger : l.user = u /\ l.after = seen[h]
    BY <1>1, <1>4 DEF IInv, BalanceFollowsLedger
  <2>9. \A l \in ledger' :
          /\ l.after <= balance'[l.user]
          /\ \/ l.after = l.delta
             \/ \E m \in ledger' : m.user = l.user /\ m.after = l.after - l.delta
    <3> TAKE l \in ledger'
    <3>1. CASE l = new
      <4>1. l.after <= balance'[l.user]
        BY <3>1, <1>1, <1>4, <2>3, <2>4
      <4>2. l.after - l.delta = seen[h] /\ l.after = seen[h] + l.delta
        BY <3>1, <1>3, <1>4, <2>3, <2>6
      <4> QED
        BY <4>1, <4>2, <2>8, <3>1, <2>3, <1>3, <1>6
    <3>2. CASE l \in ledger
      <4>1. l.after <= balance'[l.user]
        BY <3>2, <1>4, <2>1, <2>4, <2>5 DEF IInv, BalanceFollowsLedger
      <4> QED
        BY <3>2, <4>1, <1>6 DEF IInv, BalanceFollowsLedger
    <3> QED
      BY <3>1, <3>2, <1>6
  <2>10. \A l1, l2 \in ledger' :
           l1.user = l2.user /\ l1.after = l2.after => l1 = l2
    BY <1>4, <1>6, <2>1, <2>3, <2>5 DEF IInv, BalanceFollowsLedger
  <2> QED
    BY <2>7, <2>9, <2>10 DEF BalanceFollowsLedger
<1>15. AcknowledgedIsCredited'
  <2>1. new \in ledger' /\ new.order = job[h].checkout
    BY <1>0, <1>6 DEF new
  <2> QED
    BY <1>6, <2>1 DEF IInv, TypeOK, AcknowledgedIsCredited
<1> QED
  BY <1>8, <1>9, <1>10, <1>11, <1>12, <1>13, <1>14, <1>15 DEF IInv

\* Every step of the system preserves the invariant.
LEMMA NextIInv == IInv /\ [Next]_vars => IInv'
<1> SUFFICES ASSUME IInv, [Next]_vars PROVE IInv'
  OBVIOUS
<1>1. ASSUME NEW o \in Orders, CheckoutStep(o) PROVE IInv'
  BY <1>1, CheckoutInv
<1>2. ASSUME NEW h \in Handlers, NEW p \in Payloads, Deliver(h, p) PROVE IInv'
  BY <1>2, DeliverInv
<1>3. ASSUME NEW h \in Handlers, HandlerStep(h) PROVE IInv'
  <2>1. CASE Parse(h)
    BY <2>1, ReplyStep DEF Parse, Replies
  <2>2. CASE ResolveOrder(h)
    BY <2>2, ResolveOrderInv
  <2>3. CASE SelectEvent(h) \/ InsertEvent(h)
    BY <2>3, TryBeginInv
  <2>4. CASE MarkPaid(h)
    BY <2>4, MarkPaidInv
  <2>5. CASE SelectLedger(h)
    BY <2>5, SelectLedgerInv
  <2>6. CASE LockBalance(h) \/ InsertBalance(h)
    BY <2>6, BalanceInv
  <2>7. CASE Commit(h)
    BY <2>7, CommitInv
  <2> QED
    BY <1>3, <2>1, <2>2, <2>3, <2>4, <2>5, <2>6, <2>7 DEF HandlerStep
<1>4. ASSUME NEW h \in Handlers, Rollback(h) PROVE IInv'
  BY <1>4, ReplyStep DEF Rollback, Replies
<1>5. CASE UNCHANGED vars
  <2> USE <1>5 DEF vars, IInv
  <2>1. TypeOK' /\ RowsOK' /\ CallsOK' /\ LedgerHasSource'
    BY DEF TypeOK, RowsOK, CallsOK, LedgerHasSource
  <2>2. LocksOK'
    BY DEF LocksOK, HoldsEvent, HoldsOrder, HoldsBalance, UserOf
  <2>3. TablesAgree' /\ BalanceFollowsLedger' /\ AcknowledgedIsCredited'
    BY DEF TablesAgree, BalanceFollowsLedger, AcknowledgedIsCredited, LedgerHas
  <2> QED
    BY <2>1, <2>2, <2>3
<1> QED
  BY <1>1, <1>2, <1>3, <1>4, <1>5 DEF Next

\* The inductive invariant holds in every reachable state.
THEOREM Invariance == Spec => []IInv
<1>1. Init => IInv
  BY InitIInv
<1>2. IInv /\ [Next]_vars => IInv'
  BY NextIInv
<1> QED
  BY <1>1, <1>2, PTL DEF Spec

-----------------------------------------------------------------------------
(* The results *)

\* The variables keep their types: the tables hold well-formed rows.
THEOREM TypeCorrect == Spec => []TypeOK
<1>1. IInv => TypeOK
  BY DEF IInv
<1> QED
  BY <1>1, Invariance, PTL

\* The events, orders and ledger tables agree, for any number of concurrent
\* webhook calls, orders and deliveries.
THEOREM TablesAlwaysAgree == Spec => []TablesAgree
<1>1. IInv => TablesAgree
  BY DEF IInv
<1> QED
  BY <1>1, Invariance, PTL

\* Concurrent credits to one user never lose an update: the ledger is a chain
\* of running balances that ends in the balance row.
THEOREM NoLostCredit == Spec => []BalanceFollowsLedger
<1>1. IInv => BalanceFollowsLedger
  BY DEF IInv
<1> QED
  BY <1>1, Invariance, PTL

\* Creem is told "applied" or "duplicate" only for a credited order.
THEOREM AcknowledgementIsSafe == Spec => []AcknowledgedIsCredited
<1>1. IInv => AcknowledgedIsCredited
  BY DEF IInv
<1> QED
  BY <1>1, Invariance, PTL

\* An order whose row is visible has its checkout at Creem.
THEOREM VisibleOrderIsPayable == Spec => []VisibleOrderHasCheckout
<1>1. IInv => VisibleOrderHasCheckout
  BY DEF IInv, RowsOK, VisibleOrderHasCheckout
<1> QED
  BY <1>1, Invariance, PTL

\* If Creem uses one event id per order, no order is credited twice, whatever
\* the number of concurrent deliveries.
THEOREM CreditedOnce ==
    ASSUME OneEventPerOrder PROVE Spec => []OrderCreditedOnce
<1>1. Init => OrderCreditedOnce
  BY DEF Init, OrderCreditedOnce
<1>2. IInv /\ OrderCreditedOnce /\ [Next]_vars => OrderCreditedOnce'
  <2> SUFFICES ASSUME IInv, OrderCreditedOnce, [Next]_vars,
                      ledger' # ledger
               PROVE  OrderCreditedOnce'
    BY DEF OrderCreditedOnce
  <2>1. PICK h \in Handlers : Commit(h)
    BY DEF Next, CheckoutStep, CreatePending, CreemCreateCheckout, AttachCheckout,
           CheckoutFails, Deliver, HandlerStep, Parse, ResolveOrder, SelectEvent,
           InsertEvent, MarkPaid, SelectLedger, LockBalance, InsertBalance,
           ReadBalance, Rollback, Reply, Goto, vars
  <2>2. /\ job[h] \in Payloads /\ ord[h] = job[h].checkout
        /\ job[h].event \notin events
    BY <2>1 DEF Commit, IInv, CallsOK, LocksOK, HoldsEvent, Active, Steps
  <2>3. PICK new : ledger' = ledger \cup {new} /\ new.order = ord[h]
    BY <2>1 DEF Commit
  <2>4. \A l \in ledger : l.order # ord[h]
    <3> SUFFICES ASSUME NEW l \in ledger, l.order = ord[h] PROVE FALSE
      OBVIOUS
    <3>1. PICK p \in Payloads : p.event = l.event /\ p.checkout = l.order
      BY DEF IInv, LedgerHasSource
    <3>2. l.event = job[h].event
      BY <2>2, <3>1, OneEventPerOrder DEF OneEventPerOrder
    <3> QED
      BY <2>2, <3>2 DEF IInv, TablesAgree
  <2> QED
    BY <2>3, <2>4 DEF OrderCreditedOnce
<1> QED
  BY <1>1, <1>2, Invariance, PTL DEF Spec

\* No step takes credits back: balances grow and ledger rows stay.
THEOREM CreditsAreKept == Spec => CreditsOnlyGrow
<1> DEFINE A == /\ \A u \in Users : balance'[u] >= balance[u]
                /\ ledger \subseteq ledger'
<1>1. IInv /\ [Next]_vars => A
  <2> SUFFICES ASSUME IInv, [Next]_vars PROVE A
    OBVIOUS
  <2>0. \A u \in Users : balance[u] \in Int
    BY DEF IInv, TypeOK, NoRow
  <2>1. CASE UNCHANGED <<balance, ledger>>
    BY <2>0, <2>1
  <2>2. ASSUME NEW h \in Handlers, Commit(h) PROVE A
    <3>1. UserOf(h) \in Users /\ job[h].pack \in Packs /\ seen[h] \in Nat
          /\ seen[h] >= balance[UserOf(h)]
      BY <2>2, <2>0 DEF Commit, IInv, TypeOK, CallsOK, RowsOK, LocksOK, HoldsBalance,
                  UserOf, Active, Steps, NoRow
    <3>2. Credits(job[h].pack) \in Nat
      BY <3>1, CreditsPositive
    <3>3. balance' = [balance EXCEPT ![UserOf(h)] = seen[h] + Credits(job[h].pack)]
      BY <2>2 DEF Commit
    <3>4. \A u \in Users : balance'[u] >= balance[u]
      BY <2>0, <3>1, <3>2, <3>3 DEF IInv, TypeOK
    <3> QED
      BY <2>2, <3>4 DEF Commit
  <2> QED
    BY <2>1, <2>2 DEF Next, CheckoutStep, CreatePending, CreemCreateCheckout,
           AttachCheckout, CheckoutFails, Deliver, HandlerStep, Parse, ResolveOrder,
           SelectEvent, InsertEvent, MarkPaid, SelectLedger, LockBalance,
           InsertBalance, ReadBalance, Rollback, Reply, Goto, vars
<1> QED
  BY <1>1, Invariance, PTL DEF Spec, CreditsOnlyGrow

-----------------------------------------------------------------------------
(* Credits are atomic *)

Shown == <<row, events, Balances>>

\* A step that leaves the orders, the events and the balances alone shows
\* nothing.
LEMMA Hidden == UNCHANGED <<row, events, balance>> => UNCHANGED Shown
BY DEF Shown, Balances

\* The commit of create_checkout places the order.
LEMMA CheckoutIsPlaced ==
    ASSUME IInv, NEW o \in Orders, NEW u \in Users, NEW k \in Packs, AttachCheckout(o, u, k)
    PROVE  Purchase!Next
<1>1. row[o].status = "absent"
  BY DEF AttachCheckout, IInv, RowsOK
<1>2. Balances' = Balances
  BY DEF AttachCheckout, Balances
<1> QED
  BY <1>1, <1>2 DEF AttachCheckout, Purchase!Next, Purchase!Place

\* The commit of apply_payload credits the event to the order, on top of what
\* the owner has at that moment.
LEMMA CommitIsCredit ==
    ASSUME IInv, NEW h \in Handlers, Commit(h)
    PROVE  Purchase!Next
<1> DEFINE o == ord[h]
           e == job[h].event
           u == row[o].user
           Worth == [k \in Packs |-> Credits(k)]
<1>1. /\ o \in Orders /\ job[h] \in Payloads /\ e \in Events
      /\ row[o].status # "absent"
      /\ u \in Users /\ row[o].pack \in Packs /\ row[o].pack = job[h].pack
  <2>1. pc[h] \in Active /\ pc[h] # "idle"
    BY DEF Commit, Active, Steps
  <2>2. job[h] \in Payloads /\ o \in Orders /\ row[o].status # "absent"
        /\ row[o].pack = job[h].pack
    BY <2>1 DEF IInv, CallsOK
  <2>3. e \in Events
    BY <2>2, PayloadAssumption
  <2> QED
    BY <2>2, <2>3 DEF IInv, RowsOK
<1>2. e \notin events
  BY DEF Commit, IInv, LocksOK, HoldsEvent
<1>3. seen[h] = Balances[u]
  BY <1>1 DEF Commit, IInv, LocksOK, HoldsBalance, UserOf, Balances
<1>4. /\ row' = [row EXCEPT ![o].status = "paid"]
      /\ events' = events \cup {e}
      /\ balance' = [balance EXCEPT ![u] = seen[h] + Credits(row[o].pack)]
  BY <1>1 DEF Commit, CommitMarks, UserOf
<1>5. Balances' = [Balances EXCEPT ![u] = Balances[u] + Credits(row[o].pack)]
  <2>1. seen[h] + Credits(row[o].pack) \in Nat
    BY <1>1, CreditsPositive DEF IInv, TypeOK
  <2>2. seen[h] + Credits(row[o].pack) # NoRow
    BY <2>1 DEF NoRow
  <2>3. \A v \in Users :
          balance'[v] = IF v = u THEN seen[h] + Credits(row[o].pack) ELSE balance[v]
    BY <1>1, <1>4 DEF IInv, TypeOK
  <2>4. \A v \in Users :
          Balances'[v] = IF v = u THEN seen[h] + Credits(row[o].pack) ELSE Balances[v]
    BY <2>2, <2>3 DEF Balances
  <2> QED
    BY <1>3, <2>4 DEF Balances
<1>6. Worth[row[o].pack] = Credits(row[o].pack)
  BY <1>1
<1>7. Purchase!Credit(o, e)
  BY <1>1, <1>2, <1>4, <1>5, <1>6 DEF Purchase!Credit
<1> QED
  BY <1>1, <1>7 DEF Purchase!Next

\* Concurrent, repeated and interrupted webhook calls credit as if every credit
\* were one step: apply_payload is serializable, and an event counts once.
THEOREM CreditsAreAtomic == Spec => ImplementsPurchases
<1>1. Init => Purchase!Init
  BY DEF Init, Purchase!Init, Absent, Balances, NoRow
<1>2. IInv /\ [Next]_vars => [Purchase!Next]_Shown
  <2> SUFFICES ASSUME IInv, [Next]_vars PROVE Purchase!Next \/ UNCHANGED Shown
    OBVIOUS
  <2>1. ASSUME NEW o \in Orders, CheckoutStep(o) PROVE Purchase!Next \/ UNCHANGED Shown
    BY <2>1, Hidden, CheckoutIsPlaced DEF CheckoutStep, CreatePending, CreemCreateCheckout,
       CheckoutFails
  <2>2. ASSUME NEW h \in Handlers, HandlerStep(h) PROVE Purchase!Next \/ UNCHANGED Shown
    <3>1. CASE Commit(h)
      BY <3>1, CommitIsCredit
    <3>2. CASE SelectLedger(h)
      <4>1. ~LedgerHas(job[h].event)
        BY <3>2 DEF SelectLedger, HoldsEvent, IInv, LocksOK, TablesAgree, LedgerHas
      <4> QED
        BY <3>2, <4>1, Hidden DEF SelectLedger, Goto
    <3>3. CASE ~Commit(h) /\ ~SelectLedger(h)
      BY <2>2, <3>3, Hidden DEF HandlerStep, Parse, ResolveOrder, SelectEvent, InsertEvent,
         MarkPaid, LockBalance, InsertBalance, ReadBalance, Reply, Goto
    <3> QED
      BY <3>1, <3>2, <3>3
  <2>3. ASSUME NEW h \in Handlers, Rollback(h) \/ \E p \in Payloads : Deliver(h, p)
        PROVE  UNCHANGED Shown
    BY <2>3, Hidden DEF Rollback, Deliver, Reply
  <2>4. CASE UNCHANGED vars
    BY <2>4, Hidden DEF vars
  <2> QED
    BY <2>1, <2>2, <2>3, <2>4 DEF Next
<1> QED
  BY <1>1, <1>2, Invariance, PTL DEF Spec, ImplementsPurchases, Purchase!Spec, Shown

\* A paid order keeps its owner, its pack and its status, an event that was applied
\* stays applied, and a balance changes only in the step that applies a new one.
PaidOrdersRest ==
    /\ \A o \in Orders : row[o].status = "paid" => row'[o] = row[o]
    /\ events \subseteq events'
    /\ Balances' # Balances => \E e \in Events \ events : events' = events \cup {e}

\* Neither the rollback of a call that had marked an order, nor a repeated event,
\* nor a checkout that fails late takes anything back.  It follows from Purchases.
THEOREM SettledPurchasesRest == Spec => [][PaidOrdersRest]_Shown
<1> DEFINE Typed == \A o \in Orders : row[o] \in Rows
<1>1. Spec => []Typed
  <2>1. TypeOK => Typed
    BY DEF TypeOK
  <2> QED
    BY <2>1, TypeCorrect, PTL
<1>2. Typed /\ [Purchase!Next]_Shown => [PaidOrdersRest]_Shown
  <2>1. ASSUME Typed, NEW o \in Orders, NEW u \in Users, NEW k \in Packs,
               Purchase!Place(o, u, k)
        PROVE  PaidOrdersRest
    BY <2>1 DEF PaidOrdersRest, Purchase!Place
  <2>2. ASSUME Typed, NEW o \in Orders, NEW e \in Events, Purchase!Credit(o, e)
        PROVE  PaidOrdersRest
    <3>1. \A q \in Orders : row[q].status = "paid" => row'[q] = row[q]
      <4>1. row' = [row EXCEPT ![o].status = "paid"]
        BY <2>2 DEF Purchase!Credit
      <4> QED  BY <2>2, <4>1 DEF Rows
    <3>2. e \in Events \ events /\ events' = events \cup {e}
      BY <2>2 DEF Purchase!Credit
    <3> QED  BY <3>1, <3>2 DEF PaidOrdersRest
  <2> QED  BY <2>1, <2>2 DEF Purchase!Next
<1> QED
  BY <1>1, <1>2, CreditsAreAtomic, PTL DEF ImplementsPurchases, Purchase!Spec, Shown
=============================================================================
