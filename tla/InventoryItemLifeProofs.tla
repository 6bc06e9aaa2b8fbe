---------------------- MODULE InventoryItemLifeProofs ----------------------
(***************************************************************************)
(* The invariants of InventoryItemLife for every set of quantities and     *)
(* every bound on what is brought in.                                      *)
(***************************************************************************)
EXTENDS InventoryItemLife, InventoryItemProofs

\* A loaded object is the row; all three invariants of the row are needed together:
\* confirmSale keeps onHand non-negative only because the shelf is balanced.
LifeInv ==
    /\ TypeOK
    /\ phase = "loaded" => object = stored
    /\ StoredNonNegative
    /\ StoredBalanced
    /\ UnitsConserved

\* A new item has all its counters at zero, is balanced and accounts for no unit.
LEMMA InitLifeInv == Init => LifeInv
  BY DEF Init, LifeInv, TypeOK, StoredNonNegative, StoredBalanced, UnitsConserved,
         EmptyItem, InventoryItem, NonNegative, CountersNonNegative, ShelfBalanced

\* A method that returned is saved without harm when the counters it changed stay
\* non-negative, the shelf moves as a whole and the history counts what moved.
LEMMA SaveKeepsLifeInv ==
    ASSUME LifeInv, NEW new,
           NEW onHand \in Int, NEW available \in Int, NEW reserved \in Int,
           NEW committed \in Int, NEW inTransit \in Int,
           Moved(object, new, onHand, available, reserved, committed, inTransit),
           Save(new),
           onHand = available + reserved,
           object.available + available >= 0,
           object.reserved + reserved >= 0,
           committed >= 0,
           object.inTransit + inTransit >= 0,
           received' \in Int, sold' \in Int, shipped' \in Int,
           received' - sold' - shipped' = received - sold - shipped + onHand,
           sold' = sold + committed
    PROVE  LifeInv'
  <1>1. object = stored /\ stored \in InventoryItem /\ {received, sold, shipped} \subseteq Int
    BY DEF LifeInv, TypeOK, Save
  <1>2. TypeOK' /\ phase' = "saved" /\ stored' = new
    BY DEF TypeOK, Save, Moved
  <1>3. StoredNonNegative' /\ StoredBalanced' /\ UnitsConserved'
    BY <1>1, <1>2, ItemCounters
       DEF LifeInv, StoredNonNegative, StoredBalanced, UnitsConserved, Moved,
           NonNegative, CountersNonNegative, ShelfBalanced
  <1>. QED
    BY <1>2, <1>3 DEF LifeInv

\* Every method call that is saved, and every one that throws, keeps the counters
\* typed, non-negative, balanced and accounted for.
LEMMA NextLifeInv == LifeInv /\ [Next]_vars => LifeInv'
  <1> SUFFICES ASSUME LifeInv, [Next]_vars PROVE LifeInv'
    OBVIOUS
  <1>a. \A q \in Quantities : q \in Int /\ -q \in Int /\ q > 0
    BY QuantitiesAssumption
  <1>b. object \in InventoryItem /\ {received, sold, shipped} \subseteq Int
    BY DEF LifeInv, TypeOK
  <1>c. phase = "loaded" => /\ CountersNonNegative(object)
                            /\ ShelfBalanced(object)
    BY DEF LifeInv, StoredNonNegative, NonNegative, StoredBalanced
  <1>1. CASE Load
    BY <1>1 DEF Load, LifeInv, TypeOK, StoredNonNegative, StoredBalanced, UnitsConserved
  <1>2. ASSUME NEW q \in Quantities, Reserve(q) PROVE LifeInv'
    <2>1. Moved(object, ReserveStock(object, q), 0, -q, q, 0, 0)
      BY <1>a, <1>b, ReserveStockMoves
    <2>2. Save(ReserveStock(object, q)) /\ phase = "loaded"
      BY <1>2 DEF Reserve, Save
    <2>3. /\ object.available + (-q) >= 0
          /\ object.reserved + q >= 0
          /\ object.inTransit + 0 >= 0
          /\ received' - sold' - shipped' = received - sold - shipped + 0
          /\ sold' = sold + 0
          /\ received' \in Int /\ sold' \in Int /\ shipped' \in Int
      BY <1>a, <1>b, <1>c, <1>2, <2>2, ItemCounters
         DEF Reserve, CanReserve, CountersNonNegative, ShelfBalanced
    <2>. QED
      BY <1>a, <2>1, <2>2, <2>3, SaveKeepsLifeInv
  <1>3. ASSUME NEW q \in Quantities, Release(q) PROVE LifeInv'
    <2>1. Moved(object, ReleaseStock(object, q), 0, q, -q, 0, 0)
      BY <1>a, <1>b, ReleaseStockMoves
    <2>2. Save(ReleaseStock(object, q)) /\ phase = "loaded"
      BY <1>3 DEF Release, Save
    <2>3. /\ object.available + q >= 0
          /\ object.reserved + (-q) >= 0
          /\ object.inTransit + 0 >= 0
          /\ received' - sold' - shipped' = received - sold - shipped + 0
          /\ sold' = sold + 0
          /\ received' \in Int /\ sold' \in Int /\ shipped' \in Int
      BY <1>a, <1>b, <1>c, <1>3, <2>2, ItemCounters
         DEF Release, CanRelease, CountersNonNegative, ShelfBalanced
    <2>. QED
      BY <1>a, <2>1, <2>2, <2>3, SaveKeepsLifeInv
  <1>4. ASSUME NEW q \in Quantities, Confirm(q) PROVE LifeInv'
    <2>1. Moved(object, ConfirmSale(object, q), -q, 0, -q, q, 0)
      BY <1>a, <1>b, ConfirmSaleMoves
    <2>2. Save(ConfirmSale(object, q)) /\ phase = "loaded"
      BY <1>4 DEF Confirm, Save
    <2>3. /\ object.available + 0 >= 0
          /\ object.reserved + (-q) >= 0
          /\ object.inTransit + 0 >= 0
          /\ received' - sold' - shipped' = received - sold - shipped + (-q)
          /\ sold' = sold + q
          /\ received' \in Int /\ sold' \in Int /\ shipped' \in Int
      BY <1>a, <1>b, <1>c, <1>4, <2>2, ItemCounters
         DEF Confirm, CanConfirm, CountersNonNegative, ShelfBalanced
    <2>. QED
      BY <1>a, <2>1, <2>2, <2>3, SaveKeepsLifeInv
  <1>5. ASSUME NEW q \in Quantities, Receive(q) PROVE LifeInv'
    <2>1. Moved(object, AddStock(object, q), q, q, 0, 0, 0)
      BY <1>a, <1>b, AddStockMoves
    <2>2. Save(AddStock(object, q)) /\ phase = "loaded"
      BY <1>5 DEF Receive, Save
    <2>3. /\ object.available + q >= 0
          /\ object.reserved + 0 >= 0
          /\ object.inTransit + 0 >= 0
          /\ received' - sold' - shipped' = received - sold - shipped + q
          /\ sold' = sold + 0
          /\ received' \in Int /\ sold' \in Int /\ shipped' \in Int
      BY <1>a, <1>b, <1>c, <1>5, <2>2, ItemCounters
         DEF Receive, CountersNonNegative, ShelfBalanced
    <2>. QED
      BY <1>a, <2>1, <2>2, <2>3, SaveKeepsLifeInv
  <1>6. ASSUME NEW q \in Int, Adjust(q) PROVE LifeInv'
    <2>1. Moved(object, AdjustStock(object, q), q, q, 0, 0, 0)
      BY <1>a, <1>b, AdjustStockMoves
    <2>2. Save(AdjustStock(object, q)) /\ phase = "loaded"
      BY <1>6 DEF Adjust, Save
    <2>3. /\ object.available + q >= 0
          /\ object.reserved + 0 >= 0
          /\ object.inTransit + 0 >= 0
          /\ received' - sold' - shipped' = received - sold - shipped + q
          /\ sold' = sold + 0
          /\ received' \in Int /\ sold' \in Int /\ shipped' \in Int
      BY <1>a, <1>b, <1>c, <1>6, <2>2, ItemCounters
         DEF Adjust, CanAdjust, CountersNonNegative, ShelfBalanced
    <2>. QED
      BY <1>a, <2>1, <2>2, <2>3, SaveKeepsLifeInv
  <1>7. ASSUME NEW q \in Quantities, Ship(q) PROVE LifeInv'
    <2>1. Moved(object, MarkInTransit(object, q), -q, -q, 0, 0, q)
      BY <1>a, <1>b, MarkInTransitMoves
    <2>2. Save(MarkInTransit(object, q)) /\ phase = "loaded"
      BY <1>7 DEF Ship, Save
    <2>3. /\ object.available + (-q) >= 0
          /\ object.reserved + 0 >= 0
          /\ object.inTransit + q >= 0
          /\ received' - sold' - shipped' = received - sold - shipped + (-q)
          /\ sold' = sold + 0
          /\ received' \in Int /\ sold' \in Int /\ shipped' \in Int
      BY <1>a, <1>b, <1>c, <1>7, <2>2, ItemCounters
         DEF Ship, CanMarkInTransit, CountersNonNegative, ShelfBalanced
    <2>. QED
      BY <1>a, <2>1, <2>2, <2>3, SaveKeepsLifeInv
  <1>8. ASSUME NEW q \in Quantities, Arrive(q) PROVE LifeInv'
    <2>1. Moved(object, ConfirmTransferOut(object, q), 0, 0, 0, 0, -q)
      BY <1>a, <1>b, ConfirmTransferOutMoves
    <2>2. Save(ConfirmTransferOut(object, q)) /\ phase = "loaded"
      BY <1>8 DEF Arrive, Save
    <2>3. /\ object.available + 0 >= 0
          /\ object.reserved + 0 >= 0
          /\ object.inTransit + (-q) >= 0
          /\ received' - sold' - shipped' = received - sold - shipped + 0
          /\ sold' = sold + 0
          /\ received' \in Int /\ sold' \in Int /\ shipped' \in Int
      BY <1>a, <1>b, <1>c, <1>8, <2>2, ItemCounters
         DEF Arrive, CanConfirmTransferOut, CountersNonNegative, ShelfBalanced
    <2>. QED
      BY <1>a, <2>1, <2>2, <2>3, SaveKeepsLifeInv
  <1>9. ASSUME NEW q \in Quantities, Refuse(q) PROVE LifeInv'
    <2>1. AdjustStockThrown(object, -q) \in InventoryItem
      BY <1>a, <1>b DEF AdjustStockThrown, InventoryItem
    <2>. QED
      BY <1>9, <2>1 DEF Refuse, Throw, LifeInv, TypeOK, StoredNonNegative,
                        StoredBalanced, UnitsConserved
  <1>10. CASE UNCHANGED vars
    BY <1>10 DEF vars, LifeInv, TypeOK, StoredNonNegative, StoredBalanced, UnitsConserved
  <1>. QED
    BY <1>a, <1>1, <1>2, <1>3, <1>4, <1>5, <1>6, <1>7, <1>8, <1>9, <1>10 DEF Next

\* The invariant holds in every state that legal calls lead to.
LEMMA LifeInvariant == Spec => []LifeInv
  BY InitLifeInv, NextLifeInv, PTL DEF Spec

\* Whatever the quantities and their order, no sequence of legal calls saves a counter
\* below zero: each method's own check of one counter is enough for all it moves, though
\* for confirmSale and markInTransit only because the shelf is balanced.
THEOREM StockNeverNegative == Spec => []StoredNonNegative
  <1>1. LifeInv => StoredNonNegative
    BY DEF LifeInv
  <1>. QED
    BY <1>1, LifeInvariant, PTL

\* Sales, shipments, corrections and the calls that threw leave the shelf of the saved row
\* balanced: onHand is available and reserved.
THEOREM ShelfStaysBalanced == Spec => []StoredBalanced
  <1>1. LifeInv => StoredBalanced
    BY DEF LifeInv
  <1>. QED
    BY <1>1, LifeInvariant, PTL

\* For every bound on what comes in: a unit that came in is on the shelf, sold or shipped,
\* and committed counts the units sold.
THEOREM UnitsAccountedFor == Spec => []UnitsConserved
  <1>1. LifeInv => UnitsConserved
    BY DEF LifeInv
  <1>. QED
    BY <1>1, LifeInvariant, PTL

\* isConsistent() is true of a row exactly while nothing has been sold from it: a balanced
\* shelf has no room for the committed units that isConsistent() looks for there.
THEOREM ConsistencyEndsAtFirstSale == Spec => []ConsistentUntilSale
  <1>1. LifeInv => ConsistentUntilSale
    <2>. SUFFICES ASSUME LifeInv PROVE ConsistentUntilSale
      OBVIOUS
    <2>1. /\ stored.onHand = stored.available + stored.reserved
          /\ stored.committed = sold
      BY DEF LifeInv, StoredBalanced, ShelfBalanced, UnitsConserved
    <2>2. {stored.onHand, stored.available, stored.reserved, stored.committed} \subseteq Int
      BY DEF LifeInv, TypeOK, InventoryItem
    <2>. QED
      BY <2>1, <2>2 DEF ConsistentUntilSale, IsConsistent
  <1>. QED
    BY <1>1, LifeInvariant, PTL
=============================================================================
