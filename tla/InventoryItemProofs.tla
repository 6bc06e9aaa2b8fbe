------------------------ MODULE InventoryItemProofs ------------------------
(***************************************************************************)
(* What each method does to the counters, as facts the proofs about the    *)
(* services cite instead of expanding the records; and sums over rows, of  *)
(* which a step changes one term.                                          *)
(***************************************************************************)
EXTENDS InventoryItem, Functions, FiniteSetTheorems, TLAPS

\* new is old with the given amounts added to its counters.
Moved(old, new, onHand, available, reserved, committed, inTransit) ==
    /\ new \in InventoryItem
    /\ new.onHand = old.onHand + onHand
    /\ new.available = old.available + available
    /\ new.reserved = old.reserved + reserved
    /\ new.committed = old.committed + committed
    /\ new.inTransit = old.inTransit + inTransit

\* The five counters of an item are integers.
LEMMA ItemCounters ==
    ASSUME NEW item \in InventoryItem
    PROVE  /\ item.onHand \in Int
           /\ item.available \in Int
           /\ item.reserved \in Int
           /\ item.committed \in Int
           /\ item.inTransit \in Int
  BY DEF InventoryItem

\* reserveStock moves units from available to reserved.
LEMMA ReserveStockMoves ==
    ASSUME NEW item \in InventoryItem, NEW qty \in Int
    PROVE  Moved(item, ReserveStock(item, qty), 0, -qty, qty, 0, 0)
  <1> DEFINE one == [item EXCEPT !.available = @ - qty]
  <1>1. Moved(item, one, 0, -qty, 0, 0, 0)
    BY DEF InventoryItem, Moved
  <1>2. ReserveStock(item, qty) = [one EXCEPT !.reserved = @ + qty]
    BY Zenon DEF ReserveStock
  <1> HIDE DEF one
  <1>. QED
    BY <1>1, <1>2 DEF InventoryItem, Moved

\* releaseStock moves them back.
LEMMA ReleaseStockMoves ==
    ASSUME NEW item \in InventoryItem, NEW qty \in Int
    PROVE  Moved(item, ReleaseStock(item, qty), 0, qty, -qty, 0, 0)
  <1> DEFINE one == [item EXCEPT !.reserved = @ - qty]
  <1>1. Moved(item, one, 0, 0, -qty, 0, 0)
    BY DEF InventoryItem, Moved
  <1>2. ReleaseStock(item, qty) = [one EXCEPT !.available = @ + qty]
    BY Zenon DEF ReleaseStock
  <1> HIDE DEF one
  <1>. QED
    BY <1>1, <1>2 DEF InventoryItem, Moved

\* confirmSale takes units from reserved and from onHand, and counts them as committed.
LEMMA ConfirmSaleMoves ==
    ASSUME NEW item \in InventoryItem, NEW qty \in Int
    PROVE  Moved(item, ConfirmSale(item, qty), -qty, 0, -qty, qty, 0)
  <1> DEFINE one == [item EXCEPT !.reserved = @ - qty]
  <1>1. Moved(item, one, 0, 0, -qty, 0, 0)
    BY DEF InventoryItem, Moved
  <1> HIDE DEF one
  <1> DEFINE two == [one EXCEPT !.committed = @ + qty]
  <1>2. Moved(item, two, 0, 0, -qty, qty, 0)
    BY <1>1 DEF InventoryItem, Moved
  <1>3. ConfirmSale(item, qty) = [two EXCEPT !.onHand = @ - qty]
    BY Zenon DEF ConfirmSale, one
  <1> HIDE DEF two
  <1>. QED
    BY <1>2, <1>3 DEF InventoryItem, Moved

\* addStock changes onHand and available alike.
LEMMA AddStockMoves ==
    ASSUME NEW item \in InventoryItem, NEW qty \in Int
    PROVE  Moved(item, AddStock(item, qty), qty, qty, 0, 0, 0)
  <1> DEFINE one == [item EXCEPT !.onHand = @ + qty]
  <1>1. Moved(item, one, qty, 0, 0, 0, 0)
    BY DEF InventoryItem, Moved
  <1>2. AddStock(item, qty) = [one EXCEPT !.available = @ + qty]
    BY Zenon DEF AddStock
  <1> HIDE DEF one
  <1>. QED
    BY <1>1, <1>2 DEF InventoryItem, Moved

\* adjustStock does the same with a quantity of either sign.
LEMMA AdjustStockMoves ==
    ASSUME NEW item \in InventoryItem, NEW qty \in Int
    PROVE  Moved(item, AdjustStock(item, qty), qty, qty, 0, 0, 0)
  <1> DEFINE one == [item EXCEPT !.onHand = @ + qty]
  <1>1. Moved(item, one, qty, 0, 0, 0, 0)
    BY DEF InventoryItem, Moved
  <1>2. AdjustStock(item, qty) = [one EXCEPT !.available = @ + qty]
    BY Zenon DEF AdjustStock
  <1> HIDE DEF one
  <1>. QED
    BY <1>1, <1>2 DEF InventoryItem, Moved

\* markInTransit takes units from available and from onHand, and counts them as shipped.
LEMMA MarkInTransitMoves ==
    ASSUME NEW item \in InventoryItem, NEW qty \in Int
    PROVE  Moved(item, MarkInTransit(item, qty), -qty, -qty, 0, 0, qty)
  <1> DEFINE one == [item EXCEPT !.available = @ - qty]
  <1>1. Moved(item, one, 0, -qty, 0, 0, 0)
    BY DEF InventoryItem, Moved
  <1> HIDE DEF one
  <1> DEFINE two == [one EXCEPT !.inTransit = @ + qty]
  <1>2. Moved(item, two, 0, -qty, 0, 0, qty)
    BY <1>1 DEF InventoryItem, Moved
  <1>3. MarkInTransit(item, qty) = [two EXCEPT !.onHand = @ - qty]
    BY Zenon DEF MarkInTransit, one
  <1> HIDE DEF two
  <1>. QED
    BY <1>2, <1>3 DEF InventoryItem, Moved

\* confirmTransferOut ends the shipment of units.
LEMMA ConfirmTransferOutMoves ==
    ASSUME NEW item \in InventoryItem, NEW qty \in Int
    PROVE  Moved(item, ConfirmTransferOut(item, qty), 0, 0, 0, 0, -qty)
  BY DEF InventoryItem, Moved, ConfirmTransferOut

\* An UPDATE of some columns leaves an item, and a negative counter only if the row or
\* the object had one.
LEMMA MergeCounters ==
    ASSUME NEW stored \in InventoryItem, NEW object \in InventoryItem, NEW cols
    PROVE  /\ Merge(stored, object, cols) \in InventoryItem
           /\ (CountersNonNegative(stored) /\ CountersNonNegative(object)) =>
                CountersNonNegative(Merge(stored, object, cols))
  BY DEF Merge, InventoryItem, CountersNonNegative

\* An UPDATE of exactly the differing columns makes the row equal to the object.
LEMMA MergeOfDifferences ==
    ASSUME NEW stored \in InventoryItem, NEW object \in InventoryItem
    PROVE  Merge(stored, object, Differing(object, stored)) = object
  <1> DEFINE cols == Differing(object, stored)
  <1>1. \A f \in Fields : f \notin cols => object[f] = stored[f]
    BY DEF Differing
  <1>2. /\ "onHand" \in Fields
        /\ "available" \in Fields
        /\ "reserved" \in Fields
        /\ "committed" \in Fields
        /\ "inTransit" \in Fields
    BY DEF Fields
  <1> HIDE DEF cols
  <1>. QED
    BY <1>1, <1>2 DEF Merge, InventoryItem, cols

-----------------------------------------------------------------------------
(* Sums over finite sets.  A table holds the partial sums of f, one for    *)
(* each subset of S; the fold of the community modules reads the last one. *)

\* The member of s that a fold takes out first.
Member(s) == CHOOSE x \in s : TRUE

\* One line of the table of partial sums of f.
SumLine(f, g, s) == IF s = {} THEN 0 ELSE f[Member(s)] + g[s \ {Member(s)}]

\* g is that table, for the subsets of S.
SumTable(f, g, S) == g = [s \in SUBSET S |-> SumLine(f, g, s)]

\* The sum as the community modules define it, read off such a table.
LEMMA SumIsInTable ==
    ASSUME NEW f, NEW S 
    PROVE  SumFunctionOnSet(f, S) = (CHOOSE g : SumTable(f, g, S))[S]
  BY Zenon DEF SumFunctionOnSet, FoldFunctionOnSet, MapThenFoldSet, SumTable, SumLine, Member

\* A set that is not empty has that member.
LEMMA MemberIsIn == ASSUME NEW s, s # {} PROVE Member(s) \in s
  BY DEF Member

\* Among subsets of a finite set there is one with no smaller one among them: in a set of
\* counterexamples it is the least, which is how the proofs below use it.
LEMMA SubsetsInduct ==
    ASSUME NEW S, IsFiniteSet(S), NEW T, T \subseteq SUBSET S, T # {}
    PROVE  \E t \in T : \A s \in T : s \subseteq t => s = t
  <1>1. IsWellFoundedOn(StrictSubsetOrdering(S), SUBSET S)
    BY FS_StrictSubsetOrderingWellFounded, FS_FiniteSubsetsOfFinite
  <1>2. PICK t \in T : \A s \in T : ~(<<s, t>> \in StrictSubsetOrdering(S))
    BY <1>1, WFMin
  <1>. QED
    BY <1>2 DEF StrictSubsetOrdering

\* A part of a table is the table of a subset.
LEMMA SumTableOfSubset ==
    ASSUME NEW f, NEW g, NEW S, SumTable(f, g, S), NEW R \in SUBSET S
    PROVE  SumTable(f, [s \in SUBSET R |-> g[s]], R)
  <1> DEFINE h == [s \in SUBSET R |-> g[s]]
  <1>1. ASSUME NEW s \in SUBSET R PROVE h[s] = SumLine(f, h, s)
    <2>1. h[s] = SumLine(f, g, s)
      BY DEF SumTable
    <2>2. s \ {Member(s)} \in SUBSET R
      OBVIOUS
    <2>. QED
      BY <2>1, <2>2 DEF SumLine
  <1>. QED
    BY <1>1 DEF SumTable

\* A finite set has no two tables.
LEMMA SumTableUnique ==
    ASSUME NEW f, NEW g, NEW h, NEW S, IsFiniteSet(S), SumTable(f, g, S), SumTable(f, h, S)
    PROVE  g = h
  <1> DEFINE T == {s \in SUBSET S : g[s] # h[s]}
  <1>1. CASE T # {}
    <2>0. T \subseteq SUBSET S
      OBVIOUS
    <2>1. PICK t \in T : \A s \in T : s \subseteq t => s = t
      <3> HIDE DEF T
      <3>. QED
        BY <1>1, <2>0, SubsetsInduct
    <2>2. t \in SUBSET S /\ g[t] = SumLine(f, g, t) /\ h[t] = SumLine(f, h, t)
      BY DEF SumTable
    <2>3. t # {}
      BY <2>2 DEF SumLine
    <2>4. g[t \ {Member(t)}] = h[t \ {Member(t)}]
      BY <2>1, <2>2, <2>3, MemberIsIn
    <2>. QED
      BY <2>2, <2>3, <2>4 DEF SumLine
  <1>2. CASE T = {}
    <2>1. \A s \in SUBSET S : g[s] = h[s]
      BY <1>2
    <2>2. g = [s \in SUBSET S |-> g[s]] /\ h = [s \in SUBSET S |-> h[s]]
      BY DEF SumTable
    <2>. QED
      BY <2>1, <2>2
  <1>. QED
    BY <1>1, <1>2

\* Every finite set has one: the entries of smaller sets, each from its own table, give its.
LEMMA SumTableExists ==
    ASSUME NEW f, NEW S, IsFiniteSet(S)
    PROVE  \E g : SumTable(f, g, S)
  <1> DEFINE T == {s \in SUBSET S : ~ \E g : SumTable(f, g, s)}
  <1>1. CASE T # {}
    <2>0. T \subseteq SUBSET S
      OBVIOUS
    <2>1. PICK t \in T : \A s \in T : s \subseteq t => s = t
      <3> HIDE DEF T
      <3>. QED
        BY <1>1, <2>0, SubsetsInduct
    <2>2. \A s \in SUBSET t : s # t => \E g : SumTable(f, g, s)
      BY <2>1
    <2> DEFINE tab(s) == CHOOSE g : SumTable(f, g, s)
               low == [s \in SUBSET t |-> tab(s)[s]]
               all == [s \in SUBSET t |-> SumLine(f, low, s)]
    <2>3. \A s \in SUBSET t : s # t => SumTable(f, tab(s), s)
      BY <2>2
    <2>4. ASSUME NEW s \in SUBSET t, NEW r \in SUBSET s, s # t
          PROVE  tab(s)[r] = tab(r)[r]
      <3>1. SumTable(f, tab(s), s) /\ SumTable(f, tab(r), r) /\ IsFiniteSet(r)
        BY <2>3, <2>4, FS_Subset
      <3>2. SumTable(f, [q \in SUBSET r |-> tab(s)[q]], r)
        BY <3>1, SumTableOfSubset
      <3> HIDE DEF tab
      <3>3. [q \in SUBSET r |-> tab(s)[q]] = tab(r)
        BY <3>1, <3>2, SumTableUnique
      <3>. QED
        BY <3>3
    <2> HIDE DEF tab
    <2>5. ASSUME NEW s \in SUBSET t, s # t PROVE low[s] = SumLine(f, low, s)
      <3>1. low[s] = SumLine(f, tab(s), s)
        BY <2>3, <2>5 DEF SumTable
      <3>2. low[s \ {Member(s)}] = tab(s)[s \ {Member(s)}]
        BY <2>4, <2>5
      <3>. QED
        BY <3>1, <3>2 DEF SumLine
    <2>6. ASSUME NEW s \in SUBSET t PROVE all[s] = SumLine(f, all, s)
      <3>1. CASE s = {}
        BY <3>1 DEF SumLine
      <3>2. CASE s # {}
        <4>1. s \ {Member(s)} \in SUBSET t /\ s \ {Member(s)} # t
          BY <3>2, MemberIsIn
        <4>2. low[s \ {Member(s)}] = all[s \ {Member(s)}]
          BY <2>5, <4>1
        <4>. QED
          BY <4>2 DEF SumLine
      <3>. QED
        BY <3>1, <3>2
    <2> HIDE DEF low
    <2>7. SumTable(f, all, t)
      BY <2>6 DEF SumTable
    <2>. QED
      BY <2>1, <2>7
  <1>2. CASE T = {}
    BY <1>2
  <1>. QED
    BY <1>1, <1>2

\* Every entry of a table is a sum.
LEMMA SumOfSubset ==
    ASSUME NEW f, NEW S, IsFiniteSet(S), NEW g, SumTable(f, g, S), NEW s \in SUBSET S
    PROVE  SumFunctionOnSet(f, s) = g[s]
  <1> DEFINE h == CHOOSE h : SumTable(f, h, s)
  <1>1. IsFiniteSet(s)
    BY FS_Subset
  <1>2. SumTable(f, h, s)
    BY <1>1, SumTableExists
  <1>3. SumTable(f, [r \in SUBSET s |-> g[r]], s)
    BY SumTableOfSubset
  <1>4. SumFunctionOnSet(f, s) = h[s]
    BY SumIsInTable
  <1> HIDE DEF h
  <1>5. h = [r \in SUBSET s |-> g[r]]
    BY <1>1, <1>2, <1>3, SumTableUnique
  <1>. QED
    BY <1>4, <1>5

\* The sum follows its recursive definition.
LEMMA SumEquation ==
    ASSUME NEW f, NEW S, IsFiniteSet(S)
    PROVE  /\ SumFunctionOnSet(f, {}) = 0
           /\ S # {} => SumFunctionOnSet(f, S) = f[Member(S)] + SumFunctionOnSet(f, S \ {Member(S)})
  <1>1. PICK g : SumTable(f, g, S)
    BY SumTableExists
  <1>2. \A s \in SUBSET S : g[s] = SumLine(f, g, s)
    BY <1>1 DEF SumTable
  <1>3. \A s \in SUBSET S : SumFunctionOnSet(f, s) = g[s]
    BY <1>1, SumOfSubset
  <1>. QED
    BY <1>2, <1>3 DEF SumLine

\* A sum of integers is an integer.
LEMMA SumType ==
    ASSUME NEW f, NEW S, IsFiniteSet(S), \A x \in S : f[x] \in Int
    PROVE  SumFunctionOnSet(f, S) \in Int
  <1> DEFINE T == {s \in SUBSET S : SumFunctionOnSet(f, s) \notin Int}
  <1>1. CASE T # {}
    <2>0. T \subseteq SUBSET S
      OBVIOUS
    <2>1. PICK t \in T : \A s \in T : s \subseteq t => s = t
      <3> HIDE DEF T
      <3>. QED
        BY <1>1, <2>0, SubsetsInduct
    <2>2. t \in SUBSET S /\ IsFiniteSet(t)
      BY FS_Subset
    <2>3. t # {}
      BY <2>2, SumEquation
    <2>4. SumFunctionOnSet(f, t \ {Member(t)}) \in Int
      BY <2>1, <2>2, <2>3, MemberIsIn
    <2>. QED
      BY <2>2, <2>3, <2>4, SumEquation, MemberIsIn
  <1>2. CASE T = {}
    BY <1>2
  <1>. QED
    BY <1>1, <1>2

\* Any one term can be taken out of a sum.
LEMMA SumWithout ==
    ASSUME NEW f, NEW S, IsFiniteSet(S), \A x \in S : f[x] \in Int, NEW x \in S
    PROVE  SumFunctionOnSet(f, S) = f[x] + SumFunctionOnSet(f, S \ {x})
  <1> DEFINE Bad(s, y) == SumFunctionOnSet(f, s) # f[y] + SumFunctionOnSet(f, s \ {y})
             T == {s \in SUBSET S : \E y \in s : Bad(s, y)}
  <1>1. CASE T # {}
    <2>0. T \subseteq SUBSET S
      OBVIOUS
    <2>1. PICK t \in T : \A s \in T : s \subseteq t => s = t
      <3> HIDE DEF T
      <3>. QED
        BY <1>1, <2>0, SubsetsInduct
    <2>2. t \in SUBSET S
      OBVIOUS
    <2>3. PICK y \in t : Bad(t, y)
      OBVIOUS
    <2> DEFINE p == Member(t)
               rest == t \ {p, y}
    <2>4. \A s \in SUBSET t : s # t => \A z \in s : ~Bad(s, z)
      BY <2>1
    <2>5. p \in t /\ IsFiniteSet(t) /\ IsFiniteSet(rest)
      BY <2>2, MemberIsIn, FS_Subset
    <2>6. SumFunctionOnSet(f, t) = f[p] + SumFunctionOnSet(f, t \ {p})
      BY <2>5, SumEquation
    <2>7. p # y
      BY <2>3, <2>6
    <2>8. SumFunctionOnSet(f, t \ {p}) = f[y] + SumFunctionOnSet(f, rest)
      <3>1. (t \ {p}) \ {y} = rest
        OBVIOUS
      <3>. QED
        BY <2>4, <2>5, <2>7, <3>1
    <2>9. SumFunctionOnSet(f, t \ {y}) = f[p] + SumFunctionOnSet(f, rest)
      <3>1. (t \ {y}) \ {p} = rest
        OBVIOUS
      <3>. QED
        BY <2>4, <2>5, <2>7, <3>1
    <2>10. SumFunctionOnSet(f, rest) \in Int /\ f[p] \in Int /\ f[y] \in Int
      BY <2>2, <2>5, SumType
    <2>. QED
      BY <2>3, <2>6, <2>8, <2>9, <2>10
  <1>2. CASE T = {}
    BY <1>2
  <1>. QED
    BY <1>1, <1>2

\* A sum depends on its terms only.
LEMMA SumAgrees ==
    ASSUME NEW f, NEW g, NEW S, IsFiniteSet(S), \A x \in S : f[x] = g[x]
    PROVE  SumFunctionOnSet(f, S) = SumFunctionOnSet(g, S)
  <1> DEFINE T == {s \in SUBSET S : SumFunctionOnSet(f, s) # SumFunctionOnSet(g, s)}
  <1>1. CASE T # {}
    <2>0. T \subseteq SUBSET S
      OBVIOUS
    <2>1. PICK t \in T : \A s \in T : s \subseteq t => s = t
      <3> HIDE DEF T
      <3>. QED
        BY <1>1, <2>0, SubsetsInduct
    <2>2. t \in SUBSET S /\ IsFiniteSet(t)
      BY FS_Subset
    <2>3. t # {}
      BY <2>2, SumEquation
    <2>4. SumFunctionOnSet(f, t \ {Member(t)}) = SumFunctionOnSet(g, t \ {Member(t)})
      BY <2>1, <2>2, <2>3, MemberIsIn
    <2>. QED
      BY <2>2, <2>3, <2>4, SumEquation, MemberIsIn
  <1>2. CASE T = {}
    BY <1>2
  <1>. QED
    BY <1>1, <1>2

\* A sum without terms is zero, and one of integers is an integer.
LEMMA SumFunctionType ==
    ASSUME NEW f, IsFiniteSet(DOMAIN f), \A x \in DOMAIN f : f[x] \in Int
    PROVE  SumFunction(f) \in Int /\ (DOMAIN f = {} => SumFunction(f) = 0)
  BY SumType, SumEquation DEF SumFunction

\* One term of a sum changes.
LEMMA SumChanges ==
    ASSUME NEW f, NEW g, IsFiniteSet(DOMAIN f), DOMAIN g = DOMAIN f, NEW x \in DOMAIN f,
           \A y \in DOMAIN f : f[y] \in Int, g[x] \in Int,
           \A y \in DOMAIN f \ {x} : f[y] = g[y]
    PROVE  SumFunction(g) = SumFunction(f) - f[x] + g[x]
  <1> DEFINE S == DOMAIN f
  <1>1. IsFiniteSet(S \ {x})
    BY FS_Subset
  <1>2. \A y \in S : g[y] \in Int
    OBVIOUS
  <1>3. SumFunctionOnSet(f, S) = f[x] + SumFunctionOnSet(f, S \ {x})
    BY SumWithout
  <1>4. SumFunctionOnSet(g, S) = g[x] + SumFunctionOnSet(g, S \ {x})
    BY <1>2, SumWithout
  <1>5. SumFunctionOnSet(f, S \ {x}) = SumFunctionOnSet(g, S \ {x})
    BY <1>1, SumAgrees
  <1>6. SumFunctionOnSet(f, S \ {x}) \in Int
    BY <1>1, SumType
  <1>7. SumFunction(f) = SumFunctionOnSet(f, S) /\ SumFunction(g) = SumFunctionOnSet(g, S)
    BY DEF SumFunction
  <1>. QED
    BY <1>3, <1>4, <1>5, <1>6, <1>7

\* A sum gets one more term.
LEMMA SumGrows ==
    ASSUME NEW f, NEW g, IsFiniteSet(DOMAIN f), NEW x, x \notin DOMAIN f,
           DOMAIN g = DOMAIN f \cup {x},
           \A y \in DOMAIN f : f[y] \in Int, g[x] \in Int,
           \A y \in DOMAIN f : f[y] = g[y]
    PROVE  SumFunction(g) = SumFunction(f) + g[x]
  <1> DEFINE S == DOMAIN f
  <1>1. IsFiniteSet(S \cup {x})
    BY FS_AddElement
  <1>2. \A y \in S \cup {x} : g[y] \in Int
    OBVIOUS
  <1>3. SumFunctionOnSet(g, S \cup {x}) = g[x] + SumFunctionOnSet(g, (S \cup {x}) \ {x})
    BY <1>1, <1>2, SumWithout
  <1>4. (S \cup {x}) \ {x} = S
    OBVIOUS
  <1>5. SumFunctionOnSet(g, (S \cup {x}) \ {x}) = SumFunctionOnSet(g, S)
    BY <1>4, Zenon
  <1>6. SumFunctionOnSet(f, S) = SumFunctionOnSet(g, S)
    BY SumAgrees
  <1>7. SumFunctionOnSet(f, S) \in Int
    BY SumType
  <1>8. SumFunction(f) = SumFunctionOnSet(f, S)
    BY DEF SumFunction
  <1>9. SumFunction(g) = SumFunctionOnSet(g, S \cup {x})
    BY Zenon DEF SumFunction
  <1> HIDE DEF S
  <1>. QED
    BY <1>3, <1>5, <1>6, <1>7, <1>8, <1>9
=============================================================================
