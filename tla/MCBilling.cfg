\* Two concurrent webhook calls, two users, two orders, one event per order and
\* bodies that must be refused.
CONSTANTS
    u1 = u1
    u2 = u2
    o1 = o1
    o2 = o2
    e1 = e1
    e2 = e2
    e3 = e3
    small = small
    large = large
    None = None
    Users = {u1, u2}
    Orders = {o1, o2}
    Events = {e1, e2}
    Packs = {small, large}
    Price <- MCPrice
    Handlers = {h1, h2}
    Payloads <- OneEventOrRefused
CHECK_DEADLOCK FALSE
SPECIFICATION Spec
INVARIANTS
    TablesAgree
    BalanceFollowsLedger
    AcknowledgedIsCredited
    VisibleOrderHasCheckout
PROPERTIES
    ImplementsPurchases
    CallsEnd
