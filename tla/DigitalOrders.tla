--------------------------- MODULE DigitalOrders ---------------------------
(***************************************************************************)
(* One-off sales of books (services/commercial_digital_goods.py): orders,  *)
(* the provider's signed payment events, and the short-lived tokens that   *)
(* let a buyer download what was paid for.  Events are delivered late, out *)
(* of order and again.                                                     *)
(*                                                                         *)
(* An event is its order, its type and the day it occurred; its event_id   *)
(* stands for all three.  An order keeps the price, product and buyer it   *)
(* was created with, and a token those of its order.                       *)
(***************************************************************************)
EXTENDS Naturals

CONSTANTS Product,
          Order,         \* order ids, each with its own provider_order_id
          Token,         \* download tokens
          Reader,        \* threads that serve downloads
          TTL,           \* days a token lives
          MaxDay,        \* bound on the clock
          MaxDownloads   \* bound on the downloads of an order

ASSUME OrderAssumption == TTL \in Nat \ {0} /\ MaxDay \in Nat \ {0} /\ MaxDownloads \in Nat

\* The types verify_digital_payment lets through; payment.failed is not among
\* them, so that no order is ever FAILED.
PaymentType == {"payment.succeeded", "payment.refunded", "payment.chargeback", "payment.cancelled"}
Payment     == Order \X PaymentType \X (1..MaxDay)

VARIABLES
    products,   \* commercial_digital_products
    orders,     \* state of an order, or "none"
    created,    \* the day it was created
    payments,   \* commercial_digital_payment_events
    tokens,     \* the order of a token, in a set
    expires,    \* the day a token expires
    revoked,    \* tokens that were revoked
    reading,    \* the token a thread has read and accepted, in a set
    downloads,  \* downloads authorized for an order
    day

tokenTables == <<tokens, expires, revoked>>
orderVars   == <<products, orders, created, payments, tokenTables, reading, downloads, day>>

OrdersTypeOK ==
    /\ products \subseteq Product
    /\ orders \in [Order -> {"none", "PENDING", "PAID", "REVOKED"}]
    /\ created \in [Order -> 0..MaxDay]
    /\ payments \subseteq Payment
    /\ tokens \in [Token -> SUBSET Order]
    /\ \A t \in Token : tokens[t] = {} <=> expires[t] = 0
    /\ expires \in [Token -> 0..(MaxDay + TTL)]
    /\ revoked \subseteq Token /\ \A t \in revoked : tokens[t] # {}
    /\ reading \in [Reader -> SUBSET Token]
    /\ \A r \in Reader : \A t \in reading[r] : tokens[t] # {}
    /\ downloads \in [Order -> 0..MaxDownloads]
    /\ day \in 1..MaxDay

OrdersInit ==
    /\ products = {} /\ payments = {} /\ revoked = {}
    /\ orders = [o \in Order |-> "none"]
    /\ created = [o \in Order |-> 0]
    /\ tokens = [t \in Token |-> {}]
    /\ expires = [t \in Token |-> 0]
    /\ reading = [r \in Reader |-> {}]
    /\ downloads = [o \in Order |-> 0]
    /\ day = 1

\* register_approved_book_product
RegisterProduct(p) ==
    /\ p \notin products
    /\ products' = products \union {p}
    /\ UNCHANGED <<orders, created, payments, tokenTables, reading, downloads, day>>

\* create_pending_order: an order id that exists is at best answered again.
CreatePendingOrder(o) ==
    /\ products # {}
    /\ orders[o] = "none"
    /\ orders' = [orders EXCEPT ![o] = "PENDING"]
    /\ created' = [created EXCEPT ![o] = day]
    /\ UNCHANGED <<products, payments, tokenTables, reading, downloads, day>>

-----------------------------------------------------------------------------
(* apply_verified_payment_event *)

Target(type) == IF type = "payment.succeeded" THEN "PAID" ELSE "REVOKED"

\* A replayed payment that pays for an order again.
AcceptableMutant(o, target) == TRUE

Acceptable(o, target) == ~(orders[o] = "REVOKED" /\ target = "PAID")

\* An event from before the order there is.
InLifeMutant(o, at) == orders[o] # "none"

\* The order is known and the event is not from before it.
InLife(o, at) == orders[o] # "none" /\ created[o] <= at

\* A refund that leaves the tokens to expire.
RevokedWithMutant(o, target) == {}

\* The tokens an event revokes.
RevokedWith(o, target) ==
    IF target = "REVOKED" THEN {t \in Token : o \in tokens[t]} ELSE {}

ApplyPayment(o, type, at) ==
    /\ at <= day
    /\ <<o, type, at>> \notin payments
    /\ InLife(o, at)
    /\ Acceptable(o, Target(type))
    /\ orders' = [orders EXCEPT ![o] = Target(type)]
    /\ payments' = payments \union {<<o, type, at>>}
    /\ revoked' = revoked \union RevokedWith(o, Target(type))
    /\ UNCHANGED <<products, created, tokens, expires, reading, downloads, day>>

-----------------------------------------------------------------------------
(* Downloads *)

\* A token without a lifetime.
ExpiryMutant == 0

Expiry == day + TTL

\* issue_download_authorization
IssueToken(o, t) ==
    /\ tokens[t] = {}
    /\ orders[o] = "PAID"
    /\ tokens' = [tokens EXCEPT ![t] = {o}]
    /\ expires' = [expires EXCEPT ![t] = Expiry]
    /\ UNCHANGED <<products, orders, created, payments, revoked, reading, downloads, day>>

\* authorize_download reads the token's row and then the order's, each as it is
\* at that moment.
DownloadToken(r, t) ==
    /\ reading[r] = {}
    /\ tokens[t] # {} /\ t \notin revoked /\ day < expires[t]
    /\ reading' = [reading EXCEPT ![r] = {t}]
    /\ UNCHANGED <<products, orders, created, payments, tokenTables, downloads, day>>

\* A download that relies on the token alone.
EntitledMutant(o) == TRUE

Entitled(o) == orders[o] = "PAID"

DownloadOrder(r, o) ==
    /\ reading' = [reading EXCEPT ![r] = {}]
    /\ \/ /\ Entitled(o) /\ downloads[o] < MaxDownloads
          /\ downloads' = [downloads EXCEPT ![o] = @ + 1]
       \/ ~Entitled(o) /\ UNCHANGED downloads
    /\ UNCHANGED <<products, orders, created, payments, tokenTables, day>>

OrdersTick ==
    /\ day < MaxDay
    /\ day' = day + 1
    /\ UNCHANGED <<products, orders, created, payments, tokenTables, reading, downloads>>

OrdersNext ==
    \/ \E p \in Product : RegisterProduct(p)
    \/ \E o \in Order : CreatePendingOrder(o)
    \/ \E o \in Order, type \in PaymentType, at \in 1..MaxDay : ApplyPayment(o, type, at)
    \/ \E o \in Order, t \in Token : IssueToken(o, t)
    \/ \E r \in Reader, t \in Token : DownloadToken(r, t)
    \/ \E r \in Reader : \E t \in reading[r] : \E o \in tokens[t] : DownloadOrder(r, o)
    \/ OrdersTick

OrdersSpec == OrdersInit /\ [][OrdersNext]_orderVars

-----------------------------------------------------------------------------
(* Properties *)

\* A refund, chargeback or cancellation that was applied is final, in whatever
\* order and however often the provider delivers the events of the order
\* (apply_verified_payment_event).
RevocationWins ==
    \A e \in payments : e[2] # "payment.succeeded" => orders[e[1]] = "REVOKED"

\* A token that is not revoked belongs to an order that is paid at this moment:
\* no payment event leaves a usable token behind, and none is issued for an
\* order on its way out.
TokensFollowOrder ==
    \A t \in Token \ revoked : \A o \in tokens[t] : orders[o] = "PAID"

\* A paid order has a success event of its own lifetime; one left over from
\* before the order was created pays for nothing.
PaidIsPaidFor ==
    \A o \in Order : orders[o] = "PAID" =>
        \E e \in payments : e[1] = o /\ e[2] = "payment.succeeded" /\ created[o] <= e[3]

\* Orders, events and tokens agree, in well-typed tables: however the provider
\* orders and repeats its events, a revocation wins, usable tokens follow paid
\* orders and paid orders were paid for.
OrdersInv == OrdersTypeOK /\ RevocationWins /\ TokensFollowOrder /\ PaidIsPaidFor

\* No download is authorized for an order that is revoked, not even through a
\* token that was read and accepted before the revocation (authorize_download).
NoDownloadOnceRevoked ==
    [][\A o \in Order : orders[o] = "REVOKED" => downloads'[o] = downloads[o]]_orderVars
=============================================================================
