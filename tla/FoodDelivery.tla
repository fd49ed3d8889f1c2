---------------------------- MODULE FoodDelivery ----------------------------
(***************************************************************************)
(* OrderService, Order, DeliveryPartner and DispatchService of             *)
(* python-low-level-design/food-delivery: customers place orders under an  *)
(* idempotency key, the actors move them through their states, and         *)
(* dispatchers claim partners for them.  Orders and partners have locks of *)
(* their own that are never nested, and the side effects of a transition   *)
(* run after the order's lock is released.                                 *)
(*                                                                         *)
(* An order is named by the tap that created it.  Partners are numbers in  *)
(* the order of their distance.  Carts stand for the request body; bills   *)
(* and observers are left out.                                             *)
(***************************************************************************)
EXTENDS Naturals, Sequences, FiniteSets, SequencesExt

CONSTANTS
    Tap, KeyOf, CartOf,     \* calls of place_order with their key and body
    RestaurantOf,           \* the restaurant of a cart
    Partner, MaxOrders,     \* BatchingStrategy.max_orders_per_partner
    Dispatcher,             \* threads that may be in DispatchService.assign
    None

VARIABLES
    tap,        \* where each call of place_order is, and the order it returns
    slot,       \* _idem: the call that owns the slot of a key
    charged,    \* FakePaymentGateway._by_key
    order,      \* Order._status and _partner_id
    refunded,   \* FakePaymentGateway.refunds, by order
    partner,    \* DeliveryPartner: online, active orders, picked_up
    effects,    \* side effects of transitions that are still to run
    assign      \* the assignment each dispatcher is in

vars == <<tap, slot, charged, order, refunded, partner, effects, assign>>

TapKey == {KeyOf[x] : x \in Tap}
Restaurant(x) == RestaurantOf[CartOf[x]]
Dispatchable == {"ACCEPTED", "PREPARING", "READY"}
Ended == {"CANCELLED", "REJECTED"}
Idle == [order |-> None, step |-> "none", list |-> <<>>, partner |-> None]

Init ==
    /\ tap = [x \in Tap |-> [step |-> "new", of |-> None]]
    /\ slot = [k \in TapKey |-> None] /\ charged = {}
    /\ order = [x \in Tap |-> [status |-> "none", partner |-> None]]
    /\ refunded = {} /\ effects = {} /\ assign = [d \in Dispatcher |-> Idle]
    /\ partner = [p \in Partner |-> [online |-> TRUE, active |-> {}, picked |-> FALSE]]

placement == <<tap, slot, charged>>
delivery == <<order, refunded, partner, effects, assign>>
----------------------------------------------------------------------------
SlotOf(x) == slot[KeyOf[x]]

\* place_order finds or makes the slot of its key.
PlaceOrder(x) ==
    /\ tap[x].step = "new"
    /\ IF SlotOf(x) = None
       THEN /\ slot' = [slot EXCEPT ![KeyOf[x]] = x]
            /\ tap' = [tap EXCEPT ![x] = [step |-> "own", of |-> x]]
       ELSE /\ slot' = slot
            /\ tap' = [tap EXCEPT ![x] = IF CartOf[SlotOf(x)] # CartOf[x]
                                         THEN [step |-> "conflict", of |-> None]
                                         ELSE [step |-> "wait", of |-> SlotOf(x)]]
    /\ UNCHANGED <<charged, delivery>>

\* _create_order up to the charge, which the gateway takes once per key.
Charge(x) ==
    /\ tap[x].step = "own"
    /\ charged' = charged \cup {KeyOf[x]} /\ tap' = [tap EXCEPT ![x].step = "charged"]
    /\ UNCHANGED <<slot, delivery>>

\* The restaurant is closed, an item or the coupon is gone, the card is
\* declined: the key is free again before the waiting calls are told.
PlaceFails(x) ==
    /\ tap[x].step = "own"
    /\ slot' = [slot EXCEPT ![KeyOf[x]] = None]
    /\ tap' = [tap EXCEPT ![x].step = "failed"]
    /\ UNCHANGED <<charged, delivery>>

CreateOrder(x) ==
    /\ tap[x].step = "charged"
    /\ order' = [order EXCEPT ![x].status = "PLACED"]
    /\ tap' = [tap EXCEPT ![x].step = "placed"]
    /\ UNCHANGED <<slot, charged, refunded, partner, effects, assign>>

\* slot.done.wait() returns with the owner's order or error.
Answered(x) ==
    /\ tap[x].step = "wait" /\ tap[tap[x].of].step \in {"placed", "failed"}
    /\ tap' = [tap EXCEPT ![x].step = tap[tap[x].of].step]
    /\ UNCHANGED <<slot, charged, delivery>>
----------------------------------------------------------------------------
\* TRANSITIONS.
Allowed(old, new) ==
    CASE old = "PLACED" /\ new = "ACCEPTED" -> {"RESTAURANT"}
      [] old = "PLACED" /\ new = "REJECTED" -> {"RESTAURANT", "SYSTEM"}
      [] old = "ACCEPTED" /\ new = "PREPARING" -> {"RESTAURANT"}
      [] old = "PREPARING" /\ new = "READY" -> {"RESTAURANT"}
      [] old = "READY" /\ new = "PICKED_UP" -> {"PARTNER"}
      [] old = "PICKED_UP" /\ new = "DELIVERED" -> {"PARTNER"}
      [] old = "PLACED" /\ new = "CANCELLED" -> {"CUSTOMER", "SYSTEM"}
      [] old = "ACCEPTED" /\ new = "CANCELLED" -> {"CUSTOMER", "RESTAURANT", "SYSTEM"}
      [] old \in {"PREPARING", "READY"} /\ new = "CANCELLED" -> {"RESTAURANT", "SYSTEM"}
      [] old = "PICKED_UP" /\ new = "CANCELLED" -> {"SYSTEM"}
      [] OTHER -> {}

\* Order.transition: the status changes, and an order that ends gives its
\* partner back.
Transition(x, new, actor) ==
    /\ actor \in Allowed(order[x].status, new)
    /\ order' = [order EXCEPT ![x] = [status |-> new,
                                      partner |-> IF new \in Ended THEN None ELSE @.partner]]

Effect(kind, x, p) == [kind |-> kind, order |-> x, partner |-> p]

StartPreparing(x) == Transition(x, "PREPARING", "RESTAURANT")
                     /\ UNCHANGED <<placement, refunded, partner, effects, assign>>
MarkReady(x) == Transition(x, "READY", "RESTAURANT")
                /\ UNCHANGED <<placement, refunded, partner, effects, assign>>

\* accept goes on as a dispatcher.
Accept(x, d) ==
    /\ assign[d] = Idle /\ Transition(x, "ACCEPTED", "RESTAURANT")
    /\ assign' = [assign EXCEPT ![d] = [Idle EXCEPT !.order = x, !.step = "check"]]
    /\ UNCHANGED <<placement, refunded, partner, effects>>

\* pick_up and deliver, of the partner that has the order.
PickUp(x) ==
    /\ order[x].partner # None /\ Transition(x, "PICKED_UP", "PARTNER")
    /\ effects' = effects \cup {Effect("mark", x, order[x].partner)}
    /\ UNCHANGED <<placement, refunded, partner, assign>>

Deliver(x) ==
    /\ order[x].partner # None /\ Transition(x, "DELIVERED", "PARTNER")
    /\ effects' = effects \cup {Effect("release", x, order[x].partner)}
    /\ UNCHANGED <<placement, refunded, partner, assign>>

\* cancel and reject: release the partner, then refund.
End(x, new, actor) ==
    /\ Transition(x, new, actor)
    /\ effects' = effects \cup {IF order[x].partner = None THEN Effect("refund", x, None)
                                ELSE Effect("releaseAndRefund", x, order[x].partner)}
    /\ UNCHANGED <<placement, refunded, partner, assign>>
----------------------------------------------------------------------------
\* DeliveryPartner.release.
Released(p, x) == LET left == partner[p].active \ {x}
                  IN  [partner[p] EXCEPT !.active = left, !.picked = @ /\ left # {}]

Mark(e) ==
    /\ e.kind = "mark"
    /\ partner' = IF e.order \in partner[e.partner].active
                  THEN [partner EXCEPT ![e.partner].picked = TRUE] ELSE partner
    /\ effects' = effects \ {e} /\ UNCHANGED <<placement, order, refunded, assign>>

Release(e) ==
    /\ e.kind \in {"release", "releaseAndRefund"}
    /\ partner' = [partner EXCEPT ![e.partner] = Released(e.partner, e.order)]
    /\ effects' = (effects \ {e}) \cup
                  (IF e.kind = "release" THEN {} ELSE {Effect("refund", e.order, None)})
    /\ UNCHANGED <<placement, order, refunded, assign>>

Refund(e) ==
    /\ e.kind = "refund" /\ refunded' = refunded \cup {e.order}
    /\ effects' = effects \ {e} /\ UNCHANGED <<placement, order, partner, assign>>

SetOnline(p) ==
    /\ partner' = [partner EXCEPT ![p].online = ~@]
    /\ UNCHANGED <<placement, order, refunded, effects, assign>>
----------------------------------------------------------------------------
Undispatched(x) == order[x].partner = None /\ order[x].status \in Dispatchable

\* dispatch, called again while no partner was free.
Dispatch(x, d) ==
    /\ assign[d] = Idle /\ Undispatched(x)
    /\ assign' = [assign EXCEPT ![d] = [Idle EXCEPT !.order = x, !.step = "rank"]]
    /\ UNCHANGED <<placement, order, refunded, partner, effects>>

SameRestaurant(p, x) == \A y \in partner[p].active : Restaurant(y) = Restaurant(x)

\* BatchingStrategy.rank: partners on their way to the restaurant with room to
\* spare, then the nearest idle ones.
Rank(x) ==
    LET batchable == {p \in Partner : /\ partner[p].online /\ partner[p].active # {}
                                      /\ ~partner[p].picked /\ SameRestaurant(p, x)
                                      /\ Cardinality(partner[p].active) < MaxOrders}
        idle == {p \in Partner : partner[p].online /\ partner[p].active = {}}
    IN  SetToSortSeq(batchable, <) \o SetToSortSeq(idle, <)

AssignCheck(d) ==
    /\ assign[d].step = "check"
    /\ assign' = [assign EXCEPT ![d] = IF Undispatched(@.order) THEN [@ EXCEPT !.step = "rank"] ELSE Idle]
    /\ UNCHANGED <<placement, order, refunded, partner, effects>>

AssignRank(d) ==
    /\ assign[d].step = "rank"
    /\ assign' = [assign EXCEPT ![d].step = "claim", ![d].list = Rank(assign[d].order)]
    /\ UNCHANGED <<placement, order, refunded, partner, effects>>

\* DeliveryPartner.try_claim checks again what the strategy saw.
Claimable(p, x) ==
    /\ partner[p].online /\ x \notin partner[p].active
    /\ partner[p].active # {} => /\ Cardinality(partner[p].active) < MaxOrders
                                 /\ ~partner[p].picked /\ SameRestaurant(p, x)

TryClaim(d) ==
    /\ assign[d].step = "claim"
    /\ LET x == assign[d].order
       IN  IF assign[d].list = <<>>
           THEN assign' = [assign EXCEPT ![d] = Idle] /\ partner' = partner
           ELSE LET p == Head(assign[d].list)
                IN  IF Claimable(p, x)
                    THEN /\ partner' = [partner EXCEPT ![p].active = @ \cup {x}]
                         /\ assign' = [assign EXCEPT ![d].step = "attach", ![d].partner = p]
                    ELSE /\ assign' = [assign EXCEPT ![d].list = Tail(@)]
                         /\ partner' = partner
    /\ UNCHANGED <<placement, order, refunded, effects>>

\* Order.attach_partner.
Attachable(x) == Undispatched(x)

Attach(d) ==
    /\ assign[d].step = "attach"
    /\ IF Attachable(assign[d].order)
       THEN /\ order' = [order EXCEPT ![assign[d].order].partner = assign[d].partner]
            /\ assign' = [assign EXCEPT ![d] = Idle]
       ELSE assign' = [assign EXCEPT ![d].step = "release"] /\ order' = order
    /\ UNCHANGED <<placement, refunded, partner, effects>>

Unclaim(d) ==
    /\ assign[d].step = "release"
    /\ partner' = [partner EXCEPT ![assign[d].partner] = Released(assign[d].partner, assign[d].order)]
    /\ assign' = [assign EXCEPT ![d] = Idle]
    /\ UNCHANGED <<placement, order, refunded, effects>>
----------------------------------------------------------------------------
Placing(x) == PlaceOrder(x) \/ Charge(x) \/ PlaceFails(x) \/ CreateOrder(x) \/ Answered(x)
Effects == \E e \in effects : Mark(e) \/ Release(e) \/ Refund(e)
Assigning(d) == AssignCheck(d) \/ AssignRank(d) \/ TryClaim(d) \/ Attach(d) \/ Unclaim(d)

Next ==
    \/ \E x \in Tap :
          \/ Placing(x) \/ StartPreparing(x) \/ MarkReady(x) \/ PickUp(x) \/ Deliver(x)
          \/ \E d \in Dispatcher : Accept(x, d) \/ Dispatch(x, d)
          \/ \E a \in {"CUSTOMER", "RESTAURANT", "SYSTEM"} : End(x, "CANCELLED", a) \/ End(x, "REJECTED", a)
    \/ Effects
    \/ \E p \in Partner : SetOnline(p)
    \/ \E d \in Dispatcher : Assigning(d)

Spec == Init /\ [][Next]_vars

\* Threads that have begun go on.
Fairness ==
    /\ \A x \in Tap : WF_vars(Placing(x))
    /\ WF_vars(Effects) /\ \A d \in Dispatcher : WF_vars(Assigning(d))
----------------------------------------------------------------------------
TypeOK ==
    /\ \A x \in Tap : /\ tap[x].step \in {"new", "own", "charged", "wait", "placed", "failed", "conflict"}
                      /\ order[x].partner \in Partner \cup {None}
                      /\ order[x].status = "none" => x \notin refunded
    /\ slot \in [TapKey -> Tap \cup {None}] /\ charged \subseteq TapKey
    /\ \A p \in Partner : partner[p].active = {} => ~partner[p].picked

\* place_order: however often a customer taps, a key has at most one order and
\* one charge, every call that succeeds returns that order, for the body it
\* sent, and money is only taken for an order that exists or is being made.
PlacedOnce ==
    /\ \A x, y \in Tap : KeyOf[x] = KeyOf[y] /\ tap[x].step = "placed" /\ tap[y].step = "placed"
                            => tap[x].of = tap[y].of /\ CartOf[x] = CartOf[y]
    /\ \A k \in TapKey : (k \in charged) = (\E x \in Tap : KeyOf[x] = k /\ tap[x].step \in {"charged", "placed"}
                                                     /\ tap[x].of = x)

\* DeliveryPartner, attach_partner and _move: an order counts among a partner's
\* active orders exactly while it is attached, claimed by a dispatcher or about
\* to be released, so no race of cancellation, pick-up and dispatch loses a
\* partner or gives one order to two; a batch has one restaurant and its size
\* is bounded.
PartnerBooks ==
    \A p \in Partner :
        /\ partner[p].active =
              {x \in Tap : \/ order[x].partner = p /\ order[x].status # "DELIVERED"
                           \/ \E d \in Dispatcher : /\ assign[d].step \in {"attach", "release"}
                                                    /\ assign[d].order = x /\ assign[d].partner = p
                           \/ \E e \in effects : e.order = x /\ e.partner = p /\ e.kind # "mark"}
        /\ Cardinality(partner[p].active) <= MaxOrders
        /\ \A x, y \in partner[p].active : Restaurant(x) = Restaurant(y)

\* _move: a cancelled or rejected order is refunded once its side effects have
\* run, and no other order is.
RefundExact ==
    \A x \in Tap : (x \in refunded \/ \E e \in effects : e.order = x /\ e.kind \in {"refund", "releaseAndRefund"})
                      = (order[x].status \in Ended)

\* The calls of place_order and the assignments that have not ended.
Unanswered == {x \in Tap : tap[x].step \notin {"placed", "failed", "conflict"}} \union {d \in Dispatcher : assign[d] # Idle}
=============================================================================
