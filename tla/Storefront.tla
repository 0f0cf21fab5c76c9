----------------------------- MODULE Storefront -----------------------------
(***************************************************************************)
(* The public checkout (packages/api/src/routes/storefront.ts): requests   *)
(* that check a cooldown, claim a telephone number, write the contact and  *)
(* the order, queue the confirmation and, within a daily budget, hand it   *)
(* to the provider.  Each is a statement of its own on the pool; other     *)
(* checkouts and the worker, which knows no budget, run in between.        *)
(* Consent is ConsentLedger's, the enrolment Enrolment's.                  *)
(***************************************************************************)
EXTENDS Naturals, Sequences, FiniteSets

CONSTANTS
    Shopper,        \* checkouts served at once
    Address, Phone, NoPhone,
    OrderNumber,    \* the random suffixes that are drawn
    Cooldown,       \* addressCooldownSeconds
    DailyBudget, Day,
    Tries,          \* attempts at an order number
    MaxTime, MaxOrders      \* bounds

NoContact == "none"

ASSUME StorefrontConstants ==
    /\ NoPhone \notin Phone /\ NoContact \notin Phone \cup {NoPhone}
    /\ Cooldown \in Nat /\ DailyBudget \in Nat /\ Day \in Nat /\ Tries \in Nat \ {0}
    /\ MaxTime \in Nat /\ MaxOrders \in Nat

VARIABLES
    today,          \* the clock
    contacts,       \* telephone of the contact of each address, if there is one
    orders,         \* orders, in the order they were written
    waiting,        \* orders whose confirmation is pending in message_queue
    sends,          \* live sends, with their sent_at
    cart            \* the request of each shopper

shopVars == <<today, contacts, orders, waiting, sends, cart>>

Known == {a \in Address : contacts[a] # NoContact}
Holder(p) == {a \in Known : contacts[a] = p}
Numbers == {orders[i].number : i \in DOMAIN orders}

\* What budgetSpent counts.
Recent == {i \in DOMAIN sends : sends[i].at + Day > today}

Empty == [at |-> "none", address |-> "none", phone |-> NoPhone, known |-> FALSE,
          orders |-> 0, tries |-> 0, sends |-> 0]

StoreInit ==
    /\ today = 0
    /\ contacts = [a \in Address |-> NoContact]
    /\ orders = << >> /\ waiting = {} /\ sends = << >>
    /\ cart = [s \in Shopper |-> Empty]

At(s, step) == cart[s].at = step
Moves(s, news) == cart' = [cart EXCEPT ![s] = news]
Step(s, step) == Moves(s, [cart[s] EXCEPT !.at = step])
Ends(s) == Moves(s, Empty)

-----------------------------------------------------------------------------
(* A checkout *)

\* Mutant of Cooled: the wait ends one second early.
CooledEarly(a) == \A i \in DOMAIN orders : orders[i].address = a => orders[i].placed + Cooldown <= today + 1

\* The latest order of the address decides whether it may order again.
Cooled(a) == \A i \in DOMAIN orders : orders[i].address = a => orders[i].placed + Cooldown <= today

Enter(s, a, p) ==
    /\ At(s, "none") /\ Len(orders) < MaxOrders
    /\ Cooled(a)
    /\ Moves(s, [Empty EXCEPT !.at = IF p = NoPhone THEN "look" ELSE "claim",
                              !.address = a, !.phone = p, !.orders = Len(orders)])
    /\ UNCHANGED <<today, contacts, orders, waiting, sends>>

\* A number of another contact is dropped from the order.
ClaimPhone(s) ==
    LET free == Holder(cart[s].phone) \subseteq {cart[s].address} IN
    /\ At(s, "claim")
    /\ Moves(s, [cart[s] EXCEPT !.at = "look", !.phone = IF free THEN @ ELSE NoPhone])
    /\ UNCHANGED <<today, contacts, orders, waiting, sends>>

LookUp(s) ==
    /\ At(s, "look")
    /\ Moves(s, [cart[s] EXCEPT !.at = "contact", !.known = cart[s].address \in Known])
    /\ UNCHANGED <<today, contacts, orders, waiting, sends>>

\* UPDATE (the number is replaced if one was given) or INSERT, by what was
\* looked up; either may run into UNIQUE (tenant, email) or (tenant, phone).
WriteContact(s) ==
    LET a == cart[s].address  p == cart[s].phone
        held == p # NoPhone /\ Holder(p) \ {a} # {}
        twice == ~cart[s].known /\ a \in Known
    IN  /\ At(s, "contact")
        /\ IF held \/ twice
           THEN Ends(s) /\ UNCHANGED contacts
           ELSE /\ contacts' = [contacts EXCEPT ![a] = IF p = NoPhone /\ @ # NoContact THEN @ ELSE p]
                /\ Moves(s, [cart[s] EXCEPT !.at = "order", !.phone = NoPhone, !.known = FALSE])
        /\ UNCHANGED <<today, orders, waiting, sends>>

\* Mutant of PlaceOrder: there is no conflict clause and no unique key.
PlaceOrderAnyway(s, n) ==
    /\ At(s, "order")
    /\ orders' = Append(orders, [address |-> cart[s].address, number |-> n, placed |-> today,
                                 after |-> cart[s].orders])
    /\ Moves(s, [cart[s] EXCEPT !.at = "queue", !.orders = Len(orders) + 1, !.tries = 0])
    /\ UNCHANGED <<today, contacts, waiting, sends>>

\* ON CONFLICT (tenant_id, store_id, order_number) DO NOTHING, a few times.
PlaceOrder(s, n) ==
    /\ At(s, "order")
    /\ IF n \in Numbers
       THEN /\ Moves(s, IF cart[s].tries + 1 = Tries THEN Empty ELSE [cart[s] EXCEPT !.tries = @ + 1])
            /\ UNCHANGED orders
       ELSE /\ orders' = Append(orders, [address |-> cart[s].address, number |-> n, placed |-> today,
                                         after |-> cart[s].orders])
            /\ Moves(s, [cart[s] EXCEPT !.at = "queue", !.orders = Len(orders) + 1, !.tries = 0])
    /\ UNCHANGED <<today, contacts, waiting, sends>>

\* evaluateTrigger: the confirmation is queued, if a campaign enrols the order.
QueueConfirmation(s, enrolled) ==
    /\ At(s, "queue")
    /\ waiting' = IF enrolled THEN waiting \cup {cart[s].orders} ELSE waiting
    /\ Step(s, "budget")
    /\ UNCHANGED <<today, contacts, orders, sends>>

\* Mutant of CheckBudget: the message at hand is not counted.
CheckBudgetSpent(s) ==
    /\ At(s, "budget")
    /\ IF Cardinality(Recent) > DailyBudget
       THEN Ends(s)
       ELSE Moves(s, [cart[s] EXCEPT !.at = "flush", !.sends = Len(sends)])
    /\ UNCHANGED <<today, contacts, orders, waiting, sends>>

\* Nothing is handed over when the rows of the order would exceed the budget.
CheckBudget(s) ==
    LET queued == Cardinality({cart[s].orders} \cap waiting) IN
    /\ At(s, "budget")
    /\ IF Cardinality(Recent) + queued > DailyBudget
       THEN Ends(s)
       ELSE Moves(s, [cart[s] EXCEPT !.at = "flush", !.sends = Len(sends)])
    /\ UNCHANGED <<today, contacts, orders, waiting, sends>>

Sent(i, by) == Append(sends, [at |-> today, by |-> by])

\* flushMessages: the row is claimed unless the worker was first.
Flush(s) ==
    LET i == cart[s].orders IN
    /\ At(s, "flush")
    /\ waiting' = waiting \ {i}
    /\ sends' = IF i \in waiting THEN Sent(i, IF cart[s].sends = Len(sends) THEN "flush" ELSE "overtaken")
                                 ELSE sends
    /\ Ends(s)
    /\ UNCHANGED <<today, contacts, orders>>

-----------------------------------------------------------------------------
\* process-queue sends whatever is due.
WorkerSends(i) ==
    /\ i \in waiting
    /\ waiting' = waiting \ {i}
    /\ sends' = Sent(i, "worker")
    /\ UNCHANGED <<today, contacts, orders, cart>>

\* The process ends: what was written stays.
CheckoutDies(s) ==
    /\ ~At(s, "none")
    /\ Ends(s)
    /\ UNCHANGED <<today, contacts, orders, waiting, sends>>

TimePasses ==
    /\ today < MaxTime
    /\ today' = today + 1
    /\ UNCHANGED <<contacts, orders, waiting, sends, cart>>

Checkout(s) ==
    \/ \E a \in Address, p \in Phone \cup {NoPhone} : Enter(s, a, p)
    \/ ClaimPhone(s) \/ LookUp(s) \/ WriteContact(s)
    \/ \E n \in OrderNumber : PlaceOrder(s, n)
    \/ \E enrolled \in BOOLEAN : QueueConfirmation(s, enrolled)
    \/ CheckBudget(s) \/ Flush(s)

StoreNext ==
    \/ \E s \in Shopper : Checkout(s) \/ CheckoutDies(s)
    \/ \E i \in waiting : WorkerSends(i)
    \/ TimePasses

StoreSpec == StoreInit /\ [][StoreNext]_shopVars

-----------------------------------------------------------------------------
StoreTypeOK ==
    /\ today \in 0..MaxTime
    /\ contacts \in [Address -> Phone \cup {NoPhone, NoContact}]
    /\ \A i, j \in DOMAIN orders : i # j => orders[i].number # orders[j].number
    /\ \A i \in DOMAIN orders : orders[i].address \in Known /\ orders[i].number \in OrderNumber
    /\ waiting \subseteq DOMAIN orders
    /\ \A i \in DOMAIN sends : sends[i].by \in {"flush", "overtaken", "worker"}
    /\ \A s \in Shopper : cart[s].tries < Tries

(***************************************************************************)
(* Two orders of an address are a cooldown apart, unless the second was    *)
(* let in before the first was written (storefront.ts, the cooldown is     *)
(* read long before the order).                                            *)
(***************************************************************************)
CooldownUnlessRaced ==
    \A i, j \in DOMAIN orders :
        i < j /\ orders[i].address = orders[j].address /\ i <= orders[j].after
            => orders[i].placed + Cooldown <= orders[j].placed

(***************************************************************************)
(* No more live sends than the daily budget, as long as all of them were   *)
(* handed over by a checkout that no other send overtook after it counted: *)
(* the worker's sends and overlapping checkouts are what breaks the budget.*)
(***************************************************************************)
BudgetUnlessRaced ==
    (\A i \in Recent : sends[i].by = "flush") => Cardinality(Recent) <= DailyBudget
=============================================================================
