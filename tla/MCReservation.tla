--------------------------- MODULE MCReservation ---------------------------
(***************************************************************************)
(* Small instances of the reservation service.  shirt and shoes are two    *)
(* inventory rows; o1 and o2 are orders for one and for two shirts, o3 is  *)
(* an order for one pair of shoes.                                         *)
(***************************************************************************)
EXTENDS ReservationRefinement, TLC

CONSTANTS shirt, shoes, o1, o2, o3, p1

Ask(op, i, q, o) == [op |-> op, item |-> i, qty |-> q, orderRef |-> o]

\* Callers that know their orders: the item and the quantity always fit the order.
Fitting(ops, orders) ==
    {Ask(op, shirt, IF o = o1 THEN 1 ELSE 2, o) : op \in ops, o \in orders \cap {o1, o2}}
    \cup {Ask(op, shoes, 1, o) : op \in ops, o \in orders \cap {o3}}

HoldAndRelease == Fitting({"reserve", "release"}, {o1, o2, o3})

\* Everything about order o1, an order that competes for the same row, and a caller that
\* releases another quantity than the order's, which no check of the code stops.
OrderAndRival ==
    Fitting(Ops, {o1}) \cup {Ask("reserve", shirt, 2, o2), Ask("release", shirt, 2, o1)}

SettleOneOrder == {Ask("release", shirt, 1, o1), Ask("confirm", shirt, 1, o1)}

Shelf(onHand, reserved) ==
    [EmptyItem EXCEPT !.onHand = onHand, !.available = onHand - reserved,
                      !.reserved = reserved]

\* One shirt of three is already held by order o1.
HeldStock == (shirt :> Shelf(3, 1)) @@ (shoes :> Shelf(1, 0))

\* The same with one shirt fewer: o2 does not fit until o1 is released.
TightStock == (shirt :> Shelf(2, 1)) @@ (shoes :> Shelf(1, 0))

HeldOrder ==
    p1 :> [item |-> shirt, qty |-> 1, orderRef |-> o1, status |-> "ACTIVE"]

Symmetry == Permutations(Calls)
=============================================================================
