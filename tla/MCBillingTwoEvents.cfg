\* Two concurrent webhook calls, one order, two event ids for it.
CONSTANTS
    u1 = u1
    u2 = u2
    o1 = o1
    o2 = o2
    e1 = e1
    e2 = e2
    e3 = e3
    small = small
    large = large
    None = None
    Users = {u1}
    Orders = {o1}
    Events = {e1, e3}
    Packs = {small, large}
    Price <- MCPrice
    Handlers = {h1, h2}
    Payloads <- TwoEvents
CHECK_DEADLOCK FALSE
SPECIFICATION Spec
INVARIANTS
    OrderCreditedOnce
