--------------------------- MODULE AccountingProofs ---------------------------
(***************************************************************************)
(* Facts about the accounting operators, for every scale and every input,  *)
(* and about the sums that books are made of (SumFunction of the module    *)
(* Functions), for every finite set.                                       *)
(***************************************************************************)
EXTENDS PositionAccounting, Functions, FiniteSetTheorems, WellFoundedInduction, TLAPS

\* Rounding an integer ratio gives an integer of the same sign, and at least
\* one when the ratio is at least one (pnl.py to_money and to_average).
LEMMA HalfUpType ==
    ASSUME NEW n \in Int, NEW d \in Nat \ {0}
    PROVE  /\ HalfUp(n, d) \in Int
           /\ n >= 0 => HalfUp(n, d) >= 0
           /\ n >= d => HalfUp(n, d) >= 1
  <1> DEFINE m == 2 * Magnitude(n) + d
  <1>1. Magnitude(n) \in Nat /\ (n >= 0 => Magnitude(n) = n)
    BY DEF Magnitude
  <1>2. m \in Nat /\ 2 * d \in Nat \ {0}
    BY <1>1
  <1>3. m \div (2 * d) \in Int /\ m \div (2 * d) >= 0
    BY <1>2
  <1>4. m >= 2 * d => m \div (2 * d) >= 1
    BY <1>2
  <1>5. Sign(n) \in {1, -1} /\ (n > 0 => Sign(n) = 1)
    BY DEF Sign
  <1>6. HalfUp(n, d) = Sign(n) * (m \div (2 * d))
    BY DEF HalfUp
  <1>7. ASSUME n = 0 PROVE m \div (2 * d) = 0
    BY <1>7, <1>1
  <1> HIDE DEF m
  <1>8. HalfUp(n, d) \in Int
    BY <1>3, <1>5, <1>6
  <1>9. n >= 0 => HalfUp(n, d) >= 0
    BY <1>3, <1>5, <1>6, <1>7
  <1>10. n >= d => HalfUp(n, d) >= 1
    <2> SUFFICES ASSUME n >= d PROVE HalfUp(n, d) >= 1
      OBVIOUS
    <2>1. m >= 2 * d
      BY <1>1 DEF m
    <2>2. Sign(n) = 1
      BY <1>5
    <2> QED BY <2>1, <2>2, <1>3, <1>4, <1>6
  <1> QED BY <1>8, <1>9, <1>10

\* Blending positive prices never rounds the entry price away to zero.
LEMMA WeightedAveragePositive ==
    ASSUME NEW existing \in Nat \ {0}, NEW added \in Nat \ {0},
           NEW average \in Nat \ {0}, NEW price \in Nat \ {0}
    PROVE  WeightedAveragePrice(existing, average, added, price) \in Nat \ {0}
  <1>1. average * existing \in Nat /\ average * existing >= existing
    <2>1. average * existing = existing + (average - 1) * existing
      OBVIOUS
    <2>2. (average - 1) * existing \in Nat
      OBVIOUS
    <2> QED BY <2>1, <2>2
  <1>2. price * AvgTicks \in Nat \ {0}
    BY ScaleAssumption
  <1>3. ASSUME NEW p \in Nat \ {0} PROVE p * added \in Nat /\ p * added >= added
    <2>1. p * added = added + (p - 1) * added
      OBVIOUS
    <2>2. (p - 1) * added \in Nat
      OBVIOUS
    <2> QED BY <2>1, <2>2
  <1>4. price * AvgTicks * added \in Nat /\ price * AvgTicks * added >= added
    BY <1>2, <1>3
  <1>5. average * existing + price * AvgTicks * added >= existing + added
    BY <1>1, <1>4
  <1> DEFINE n == average * existing + price * AvgTicks * added
             d == existing + added
  <1>6. n \in Int /\ d \in Nat \ {0} /\ n >= d
    BY <1>1, <1>4, <1>5
  <1>7. WeightedAveragePrice(existing, average, added, price) = HalfUp(n, d)
    BY DEF WeightedAveragePrice
  <1> HIDE DEF n, d
  <1> QED BY <1>6, <1>7, HalfUpType

\* A fill conserves quantity: what it closes it takes from the position, the
\* rest it opens, and it never closes more than was held.
LEMMA ApplyFillQuantities ==
    ASSUME NEW quantity \in Int, NEW average \in Nat, NEW fill \in Int, NEW price \in Nat
    PROVE  LET outcome == ApplyFill(quantity, average, fill, price)
           IN  /\ outcome.quantity = quantity + fill
               /\ outcome.closed \in Nat /\ outcome.opened \in Nat
               /\ outcome.closed + outcome.opened = Magnitude(fill)
               /\ outcome.closed <= Magnitude(quantity)
  BY DEF ApplyFill, Magnitude, Lesser

\* The profit a fill realises is an amount of money.
LEMMA ApplyFillRealized ==
    ASSUME NEW quantity \in Int, NEW average \in Nat, NEW fill \in Int, NEW price \in Nat
    PROVE  ApplyFill(quantity, average, fill, price).realized \in Int
  <1> DEFINE outcome == ApplyFill(quantity, average, fill, price)
  <1>1. outcome.closed \in Nat
    BY ApplyFillQuantities
  <1>2. outcome.realized = IF outcome.closed = 0 THEN 0
                           ELSE RealizedPnl(average, price, outcome.closed, Sign(quantity))
    BY DEF ApplyFill
  <1> HIDE DEF outcome
  <1>3. Sign(quantity) \in Int
    BY DEF Sign
  <1>4. AvgTicks * Lot \in Nat \ {0}
    BY ScaleAssumption
  <1>5. (price * AvgTicks - average) * outcome.closed * Sign(quantity) \in Int
    BY <1>1, <1>3, ScaleAssumption
  <1>6. RealizedPnl(average, price, outcome.closed, Sign(quantity)) \in Int
    BY <1>4, <1>5, HalfUpType DEF RealizedPnl
  <1>7. outcome.realized \in Int
    BY <1>2, <1>6
  <1> QED BY <1>7 DEF outcome

\* After a fill a position carries an entry price exactly when it is open
\* (the CHECK constraint average_price_matches_quantity), if it did before.
LEMMA ApplyFillAverage ==
    ASSUME NEW quantity \in Int, NEW average \in Nat,
           NEW fill \in Int \ {0}, NEW price \in Nat \ {0},
           (quantity = 0) <=> (average = 0)
    PROVE  LET outcome == ApplyFill(quantity, average, fill, price)
           IN  /\ outcome.average \in Nat
               /\ (outcome.quantity = 0) <=> (outcome.average = 0)
  <1> DEFINE outcome == ApplyFill(quantity, average, fill, price)
             against == quantity # 0 /\ fill # 0 /\ (quantity > 0) # (fill > 0)
  <1>1. price * AvgTicks \in Nat \ {0}
    BY ScaleAssumption
  <1>2. outcome.quantity = quantity + fill
    BY DEF ApplyFill
  <1>3. CASE quantity = 0
    <2>1. outcome.average = price * AvgTicks
      BY <1>3 DEF ApplyFill
    <2> QED BY <1>1, <1>2, <1>3, <2>1
  <1>4. CASE quantity # 0 /\ ~against
    <2>1. outcome.average = WeightedAveragePrice(Magnitude(quantity), average,
                                                 Magnitude(fill), price)
      BY <1>4 DEF ApplyFill
    <2>2. Magnitude(quantity) \in Nat \ {0} /\ Magnitude(fill) \in Nat \ {0}
      BY <1>4 DEF Magnitude
    <2>3. average \in Nat \ {0}
      BY <1>4
    <2>4. outcome.average \in Nat \ {0}
      BY <2>1, <2>2, <2>3, WeightedAveragePositive
    <2>5. quantity + fill # 0
      BY <1>4
    <2> QED BY <1>2, <2>4, <2>5
  <1>5. CASE against /\ quantity + fill = 0
    <2>1. outcome.average = 0
      BY <1>5 DEF ApplyFill, Magnitude, Lesser
    <2> QED BY <1>2, <1>5, <2>1
  <1>6. CASE against /\ quantity + fill # 0
    <2>1. outcome.average = price * AvgTicks \/ outcome.average = average
      BY <1>6 DEF ApplyFill, Magnitude, Lesser
    <2> QED BY <1>1, <1>2, <1>6, <2>1
  <1> QED BY <1>3, <1>4, <1>5, <1>6

\* A fill the engine accepts for a closing-only side is closed in full.
LEMMA CloseOnlyClosesAll ==
    ASSUME NEW side \in {"SELL", "BUY_TO_COVER"}, NEW quantity \in Nat \ {0},
           NEW held \in Int, NEW average \in Nat, NEW price \in Nat,
           ValidAgainstPosition(side, quantity, held)
    PROVE  ApplyFill(held, average, Direction(side) * quantity, price).closed = quantity
  BY DEF ValidAgainstPosition, ApplyFill, Direction, Magnitude, Lesser

\* PositionManager.apply leaves a well-formed row.
LEMMA AfterFillType ==
    ASSUME NEW position \in Position, (position.quantity = 0) <=> (position.average = 0),
           NEW side \in Side, NEW quantity \in Nat \ {0},
           NEW price \in Nat \ {0}, NEW charges \in Nat
    PROVE  LET after == AfterFill(position, side, quantity, price, charges)
           IN  /\ after \in Position
               /\ (after.quantity = 0) <=> (after.average = 0)
  <1> DEFINE fill == Direction(side) * quantity
             outcome == ApplyFill(position.quantity, position.average, fill, price)
             after == AfterFill(position, side, quantity, price, charges)
  <1>1. fill \in Int \ {0}
    BY DEF Direction
  <1>2. position.quantity \in Int /\ position.average \in Nat /\ position.realized \in Int
        /\ position.charges \in Nat
    BY DEF Position
  <1> HIDE DEF fill
  <1>3. /\ outcome.quantity \in Int /\ outcome.realized \in Int
        /\ outcome.average \in Nat
        /\ (outcome.quantity = 0) <=> (outcome.average = 0)
    <2>1. outcome.quantity = position.quantity + fill
      BY DEF ApplyFill
    <2>2. outcome.realized \in Int
      BY <1>1, <1>2, ApplyFillRealized
    <2>3. outcome.average \in Nat /\ ((outcome.quantity = 0) <=> (outcome.average = 0))
      BY <1>1, <1>2, ApplyFillAverage
    <2> HIDE DEF outcome
    <2> QED BY <2>1, <2>2, <2>3, <1>1, <1>2
  <1>4. after = [quantity |-> outcome.quantity, average |-> outcome.average,
                 realized |-> position.realized + outcome.realized,
                 charges |-> position.charges + charges,
                 net |-> position.realized + outcome.realized
                           - (position.charges + charges)]
    BY DEF AfterFill, fill
  <1> HIDE DEF outcome, after
  <1>5. after \in Position /\ ((after.quantity = 0) <=> (after.average = 0))
    BY <1>2, <1>3, <1>4 DEF Position
  <1> QED BY <1>5 DEF after

\* Cash moves by a whole amount, and an affordable debit leaves no debt.
LEMMA AffordableLeavesNoDebt ==
    ASSUME NEW cash \in Nat, NEW side \in Side, NEW quantity \in Nat, NEW price \in Nat,
           NEW charges \in Nat
    PROVE  /\ CashDelta(side, quantity, price, charges) \in Int
           /\ Affordable(cash, CashDelta(side, quantity, price, charges)) =>
                cash + CashDelta(side, quantity, price, charges) \in Nat
  <1> DEFINE delta == CashDelta(side, quantity, price, charges)
  <1>1. Direction(side) \in Int
    BY DEF Direction
  <1>2. -(Direction(side) * quantity * price) - charges * Lot \in Int
    BY <1>1, ScaleAssumption
  <1>3. delta \in Int
    BY <1>2, HalfUpType, ScaleAssumption DEF CashDelta
  <1> HIDE DEF delta
  <1>4. Affordable(cash, delta) => cash + delta \in Nat
    BY <1>3 DEF Affordable
  <1> QED BY <1>3, <1>4 DEF delta

-----------------------------------------------------------------------------
(* Sums *)

\* Induction over a finite set: a family of its subsets that is not empty has
\* a smallest member.

LEMMA SmallestMember ==
    ASSUME NEW S, IsFiniteSet(S), NEW family \in SUBSET (SUBSET S), family # {}
    PROVE  \E s \in family : \A x \in s : s \ {x} \notin family
  <1> DEFINE R == {ss \in Nat \X Nat : ss[1] < ss[2]}
             sizes == {Cardinality(s) : s \in family}
  <1>1. \A s \in SUBSET S : IsFiniteSet(s) /\ Cardinality(s) \in Nat
    BY FS_Subset, FS_CardinalityType
  <1>2. sizes \subseteq Nat /\ sizes # {}
    BY <1>1
  <1>3. IsWellFoundedOn(R, Nat)
    BY NatLessThanWellFounded DEF OpToRel
  <1>4. PICK n \in sizes : \A m \in sizes : ~ (<<m, n>> \in R)
    <2> HIDE DEF R, sizes
    <2> QED BY <1>2, <1>3, WFMin
  <1>5. PICK s \in family : Cardinality(s) = n
    BY <1>4
  <1>6. ASSUME NEW x \in s, s \ {x} \in family
        PROVE  FALSE
    <2>1. IsFiniteSet(s) /\ Cardinality(s) \in Nat
      BY <1>1
    <2>2. Cardinality(s \ {x}) = Cardinality(s) - 1
      BY <1>6, <2>1, FS_RemoveElement
    <2>3. Cardinality(s \ {x}) \in sizes /\ Cardinality(s \ {x}) \in Nat
      BY <1>6, <1>1
    <2>4. n \in Nat /\ n - 1 \in Nat /\ n - 1 < n
      BY <1>5, <2>1, <2>2, <2>3
    <2>5. <<n - 1, n>> \in R
      BY <2>4
    <2>6. n - 1 \in sizes
      BY <1>5, <2>2, <2>3
    <2> HIDE DEF R, sizes
    <2> QED BY <1>4, <2>5, <2>6
  <1> QED BY <1>6

Some(s) == CHOOSE x \in s : TRUE

LEMMA SomeIsMember == ASSUME NEW s, s # {} PROVE Some(s) \in s
  BY DEF Some

\* The recursion of SumFunctionOnSet.
SumsUp(iter, f, S) ==
    iter = [s \in SUBSET S |-> IF s = {} THEN 0 ELSE f[Some(s)] + iter[s \ {Some(s)}]]

LEMMA SumsUpAt ==
    ASSUME NEW iter, NEW f, NEW S, SumsUp(iter, f, S)
    PROVE  /\ iter[{}] = 0
           /\ \A s \in SUBSET S : s # {} => iter[s] = f[Some(s)] + iter[s \ {Some(s)}]
  <1> DEFINE body(s) == IF s = {} THEN 0 ELSE f[Some(s)] + iter[s \ {Some(s)}]
  <1>1. iter = [s \in SUBSET S |-> body(s)]
    BY DEF SumsUp
  <1>2. \A s \in SUBSET S : iter[s] = body(s)
    <2> HIDE DEF body
    <2> QED BY <1>1
  <1>3. {} \in SUBSET S
    OBVIOUS
  <1> QED BY <1>2, <1>3

\* It determines what it says of a set, whatever larger set it was run for ...
LEMMA SumsUpUnique ==
    ASSUME NEW f, NEW g, NEW S, NEW T, IsFiniteSet(S), S \subseteq T,
           NEW a, NEW b, SumsUp(a, f, S), SumsUp(b, g, T),
           \A x \in S : f[x] = g[x]
    PROVE  a[S] = b[S]
  <1> DEFINE bad == {s \in SUBSET S : a[s] # b[s]}
  <1>1. SUFFICES ASSUME bad # {} PROVE FALSE
    BY Zenon DEF bad
  <1>2. PICK s \in bad : \A x \in s : s \ {x} \notin bad
    <2>1. bad \in SUBSET (SUBSET S)
      OBVIOUS
    <2> HIDE DEF bad
    <2> QED BY <1>1, <2>1, SmallestMember
  <1>3. s \in SUBSET S /\ s \in SUBSET T /\ a[s] # b[s]
    BY <1>2
  <1>4. s # {}
    BY <1>3, SumsUpAt
  <1>5. Some(s) \in s
    BY <1>4, SomeIsMember
  <1>6. a[s \ {Some(s)}] = b[s \ {Some(s)}]
    BY <1>2, <1>3, <1>5
  <1>7. a[s] = f[Some(s)] + a[s \ {Some(s)}] /\ b[s] = g[Some(s)] + b[s \ {Some(s)}]
    BY <1>3, <1>4, SumsUpAt
  <1> QED BY <1>3, <1>5, <1>6, <1>7

\* ... and it serves every smaller one.
LEMMA SumsUpWithin ==
    ASSUME NEW iter, NEW f, NEW S, SumsUp(iter, f, S), NEW T \in SUBSET S
    PROVE  SumsUp([s \in SUBSET T |-> iter[s]], f, T)
  <1> DEFINE part == [s \in SUBSET T |-> iter[s]]
             body(s) == IF s = {} THEN 0 ELSE f[Some(s)] + part[s \ {Some(s)}]
  <1>1. ASSUME NEW s \in SUBSET T
        PROVE  part[s] = body(s)
    <2>1. CASE s = {}
      BY <2>1, SumsUpAt
    <2>2. CASE s # {}
      <3>1. iter[s] = f[Some(s)] + iter[s \ {Some(s)}]
        BY <2>2, SumsUpAt
      <3>2. s \ {Some(s)} \in SUBSET T
        OBVIOUS
      <3>3. part[s \ {Some(s)}] = iter[s \ {Some(s)}] /\ part[s] = iter[s]
        BY <3>2
      <3> QED BY <2>2, <3>1, <3>3
    <2> QED BY <2>1, <2>2
  <1>2. part = [s \in SUBSET T |-> body(s)]
    <2> DEFINE whole == [s \in SUBSET T |-> body(s)]
    <2>1. \A s \in SUBSET T : part[s] = whole[s]
      <3> HIDE DEF part, body
      <3> QED BY <1>1
    <2> HIDE DEF body
    <2> QED BY <2>1
  <1> QED BY <1>2 DEF SumsUp

Sums(f, S) == (CHOOSE iter : SumsUp(iter, f, S))[S]

\* Each finite set has one.
LEMMA SumsUpExists ==
    ASSUME NEW f, NEW S, IsFiniteSet(S)
    PROVE  \E iter : SumsUp(iter, f, S)
  <1> DEFINE bad == {s \in SUBSET S : ~ \E iter : SumsUp(iter, f, s)}
  <1>1. SUFFICES ASSUME bad # {} PROVE FALSE
    BY Zenon
  <1>2. PICK s \in bad : \A x \in s : s \ {x} \notin bad
    <2>1. bad \in SUBSET (SUBSET S)
      OBVIOUS
    <2> HIDE DEF bad
    <2> QED BY <1>1, <2>1, SmallestMember
  <1>3. s \in SUBSET S /\ ~ \E iter : SumsUp(iter, f, s)
    BY <1>2
  <1>4. \A x \in s : \E iter : SumsUp(iter, f, s \ {x})
    BY <1>2, <1>3
  <1> DEFINE v(t) == IF t = {} THEN 0 ELSE f[Some(t)] + Sums(f, t \ {Some(t)})
             h == [t \in SUBSET s |-> v(t)]
  <1>5. ASSUME NEW t \in SUBSET s, t # s
        PROVE  /\ IsFiniteSet(t)
               /\ SumsUp(CHOOSE iter : SumsUp(iter, f, t), f, t)
    <2>1. PICK x \in s : x \notin t
      BY <1>5
    <2>2. PICK iter : SumsUp(iter, f, s \ {x})
      BY <1>4
    <2>3. t \in SUBSET (s \ {x})
      BY <2>1
    <2>4. SumsUp([u \in SUBSET t |-> iter[u]], f, t)
      BY <2>2, <2>3, SumsUpWithin
    <2>5. \E i : SumsUp(i, f, t)
      BY <2>4
    <2> QED BY <1>3, <2>5, FS_Subset
  <1>6. ASSUME NEW t \in SUBSET s, t # s
        PROVE  Sums(f, t) = v(t)
    <2> DEFINE a == CHOOSE iter : SumsUp(iter, f, t)
    <2>1. SumsUp(a, f, t) /\ Sums(f, t) = a[t]
      BY <1>5, <1>6 DEF Sums
    <2>2. CASE t = {}
      BY <2>1, <2>2, SumsUpAt
    <2>3. CASE t # {}
      <3> DEFINE u == t \ {Some(t)}
                 b == CHOOSE iter : SumsUp(iter, f, u)
      <3>1. Some(t) \in t
        BY <2>3, SomeIsMember
      <3>2. u \in SUBSET s /\ u # s /\ u \subseteq t
        BY <1>6, <3>1
      <3>3. SumsUp(b, f, u) /\ Sums(f, u) = b[u] /\ IsFiniteSet(u)
        BY <1>5, <3>2 DEF Sums
      <3>4. b[u] = a[u]
        <4> HIDE DEF a, b, u
        <4> QED BY <2>1, <3>2, <3>3, SumsUpUnique
      <3>5. a[t] = f[Some(t)] + a[u]
        <4> HIDE DEF a
        <4> QED BY <2>1, <2>3, SumsUpAt
      <3> HIDE DEF a, b
      <3> QED BY <2>1, <2>3, <3>3, <3>4, <3>5
    <2> QED BY <2>2, <2>3
  <1>7. SumsUp(h, f, s)
    <2> DEFINE body(t) == IF t = {} THEN 0 ELSE f[Some(t)] + h[t \ {Some(t)}]
    <2>1. ASSUME NEW t \in SUBSET s, t # {}
          PROVE  h[t \ {Some(t)}] = Sums(f, t \ {Some(t)})
      <3>1. Some(t) \in t
        BY <2>1, SomeIsMember
      <3>2. t \ {Some(t)} \in SUBSET s /\ t \ {Some(t)} # s
        BY <3>1
      <3>3. h[t \ {Some(t)}] = v(t \ {Some(t)})
        <4> HIDE DEF v
        <4> QED BY <3>2
      <3> HIDE DEF h, v
      <3> QED BY <1>6, <3>2, <3>3
    <2>2. \A t \in SUBSET s : v(t) = body(t)
      <3> HIDE DEF h
      <3> QED BY <2>1
    <2>3. [t \in SUBSET s |-> v(t)] = [t \in SUBSET s |-> body(t)]
      <3> HIDE DEF v, body
      <3> QED BY <2>2
    <2> QED BY <2>3 DEF SumsUp
  <1> QED BY <1>3, <1>7

\* So the operator of the library unfolds.
LEMMA SumIsSums ==
    ASSUME NEW f, NEW S, IsFiniteSet(S)
    PROVE  \E iter : SumsUp(iter, f, S) /\ SumFunctionOnSet(f, S) = iter[S]
  <1>1. PICK g : SumsUp(g, f, S)
    BY SumsUpExists
  <1> QED
    BY <1>1 DEF SumsUp, SumFunctionOnSet, FoldFunctionOnSet, MapThenFoldSet, Some

LEMMA SumNothing == \A f : SumFunctionOnSet(f, {}) = 0
  <1>1. IsFiniteSet({})
    BY FS_EmptySet
  <1> QED BY <1>1, SumIsSums, SumsUpAt

\* The member the operator happens to take first.
LEMMA SumSome ==
    ASSUME NEW f, NEW S, IsFiniteSet(S), S # {}
    PROVE  SumFunctionOnSet(f, S) = f[Some(S)] + SumFunctionOnSet(f, S \ {Some(S)})
  <1> DEFINE rest == S \ {Some(S)}
  <1>1. PICK a : SumsUp(a, f, S) /\ SumFunctionOnSet(f, S) = a[S]
    BY SumIsSums
  <1>2. IsFiniteSet(rest) /\ rest \subseteq S
    BY FS_Subset
  <1>3. PICK b : SumsUp(b, f, rest) /\ SumFunctionOnSet(f, rest) = b[rest]
    <2> HIDE DEF rest
    <2> QED BY <1>2, SumIsSums
  <1>4. b[rest] = a[rest]
    <2> HIDE DEF rest
    <2> QED BY <1>1, <1>2, <1>3, SumsUpUnique
  <1>5. a[S] = f[Some(S)] + a[rest]
    BY <1>1, SumsUpAt
  <1> QED BY <1>1, <1>3, <1>4, <1>5

\* The sum depends on the values it adds up and on nothing else.
LEMMA SumSame ==
    ASSUME NEW f, NEW g, NEW S, IsFiniteSet(S), \A x \in S : f[x] = g[x]
    PROVE  SumFunctionOnSet(f, S) = SumFunctionOnSet(g, S)
  <1>1. PICK a : SumsUp(a, f, S) /\ SumFunctionOnSet(f, S) = a[S]
    BY SumIsSums
  <1>2. PICK b : SumsUp(b, g, S) /\ SumFunctionOnSet(g, S) = b[S]
    BY SumIsSums
  <1>3. a[S] = b[S]
    BY <1>1, <1>2, SumsUpUnique
  <1> QED BY <1>1, <1>2, <1>3

\* A sum of amounts is an amount.
LEMMA SumInt ==
    ASSUME NEW f, NEW S, IsFiniteSet(S), \A x \in S : f[x] \in Int
    PROVE  SumFunctionOnSet(f, S) \in Int
  <1> DEFINE bad == {s \in SUBSET S : SumFunctionOnSet(f, s) \notin Int}
  <1>1. SUFFICES ASSUME bad # {} PROVE FALSE
    BY Zenon
  <1>2. PICK s \in bad : \A x \in s : s \ {x} \notin bad
    <2>1. bad \in SUBSET (SUBSET S)
      OBVIOUS
    <2> HIDE DEF bad
    <2> QED BY <1>1, <2>1, SmallestMember
  <1>3. s \in SUBSET S /\ SumFunctionOnSet(f, s) \notin Int /\ IsFiniteSet(s)
    BY <1>2, FS_Subset
  <1>4. s # {}
    BY <1>3, SumNothing
  <1>5. Some(s) \in s
    BY <1>4, SomeIsMember
  <1>6. SumFunctionOnSet(f, s \ {Some(s)}) \in Int
    BY <1>2, <1>3, <1>5
  <1>7. f[Some(s)] \in Int
    BY <1>3, <1>5
  <1> QED BY <1>3, <1>4, <1>6, <1>7, SumSome

\* Any element may be taken out first.
LEMMA SumWithout ==
    ASSUME NEW f, NEW S, IsFiniteSet(S), \A x \in S : f[x] \in Int, NEW z \in S
    PROVE  SumFunctionOnSet(f, S) = f[z] + SumFunctionOnSet(f, S \ {z})
  <1> DEFINE Fails(s, x) == SumFunctionOnSet(f, s) # f[x] + SumFunctionOnSet(f, s \ {x})
             bad == {s \in SUBSET S : \E x \in s : Fails(s, x)}
  <1>1. SUFFICES ASSUME bad # {} PROVE FALSE
    <2>1. S \in SUBSET S
      OBVIOUS
    <2> QED BY <2>1
  <1>2. PICK s \in bad : \A x \in s : s \ {x} \notin bad
    <2>1. bad \in SUBSET (SUBSET S)
      OBVIOUS
    <2> HIDE DEF bad
    <2> QED BY <1>1, <2>1, SmallestMember
  <1>3. s \in SUBSET S
    BY <1>2
  <1>4. PICK x \in s : Fails(s, x)
    BY <1>2
  <1> DEFINE y == Some(s)
             rest == (s \ {x}) \ {y}
  <1>5. y \in s /\ IsFiniteSet(s) /\ s # {}
    BY <1>3, SomeIsMember, FS_Subset
  <1>6. SumFunctionOnSet(f, s) = f[y] + SumFunctionOnSet(f, s \ {y})
    BY <1>5, SumSome
  <1>7. CASE x = y
    BY <1>4, <1>6, <1>7
  <1>8. CASE x # y
    <2>1. ~Fails(s \ {y}, x) /\ ~Fails(s \ {x}, y)
      <3>1. s \ {x} \in SUBSET S /\ s \ {y} \in SUBSET S
        BY <1>3
      <3>2. x \in s \ {y} /\ y \in s \ {x}
        BY <1>4, <1>5, <1>8
      <3>3. s \ {x} \notin bad /\ s \ {y} \notin bad
        BY <1>2, <1>4, <1>5
      <3> HIDE DEF Fails, y
      <3> QED BY <3>1, <3>2, <3>3
    <2>2. SumFunctionOnSet(f, s \ {x}) = f[y] + SumFunctionOnSet(f, rest)
      BY <2>1
    <2>3. SumFunctionOnSet(f, s \ {y}) = f[x] + SumFunctionOnSet(f, rest)
      <3>1. rest = (s \ {y}) \ {x}
        OBVIOUS
      <3> HIDE DEF rest
      <3> QED BY <2>1, <3>1
    <2>4. SumFunctionOnSet(f, rest) \in Int /\ f[x] \in Int /\ f[y] \in Int
      <3>1. rest \subseteq S /\ IsFiniteSet(rest)
        BY <1>3, FS_Subset
      <3> HIDE DEF rest
      <3> QED BY <1>3, <1>5, <3>1, SumInt
    <2> HIDE DEF rest, y
    <2> QED BY <1>4, <1>6, <2>2, <2>3, <2>4
  <1> QED BY <1>7, <1>8

LEMMA SumType ==
    ASSUME NEW f, IsFiniteSet(DOMAIN f), \A x \in DOMAIN f : f[x] \in Int
    PROVE  SumFunction(f) \in Int
  BY SumInt DEF SumFunction

LEMMA SumEmpty == ASSUME NEW f, DOMAIN f = {} PROVE SumFunction(f) = 0
  BY SumNothing DEF SumFunction

\* One more amount.
LEMMA SumGrows ==
    ASSUME NEW f, NEW g, IsFiniteSet(DOMAIN f), NEW z, z \notin DOMAIN f,
           DOMAIN g = DOMAIN f \cup {z}, g[z] \in Int,
           \A x \in DOMAIN f : f[x] \in Int /\ g[x] = f[x]
    PROVE  SumFunction(g) = SumFunction(f) + g[z]
  <1>1. IsFiniteSet(DOMAIN g) /\ (DOMAIN g) \ {z} = DOMAIN f
    BY FS_AddElement
  <1>2. \A x \in DOMAIN g : g[x] \in Int
    OBVIOUS
  <1>3. SumFunctionOnSet(g, DOMAIN g) = g[z] + SumFunctionOnSet(g, DOMAIN f)
    BY <1>1, <1>2, SumWithout
  <1>4. SumFunctionOnSet(g, DOMAIN f) = SumFunctionOnSet(f, DOMAIN f)
    BY SumSame
  <1>5. SumFunctionOnSet(f, DOMAIN f) \in Int
    BY SumInt
  <1> QED BY <1>3, <1>4, <1>5 DEF SumFunction

\* One amount changed.
LEMMA SumChanges ==
    ASSUME NEW f, NEW g, IsFiniteSet(DOMAIN f), NEW z \in DOMAIN f,
           DOMAIN g = DOMAIN f, g[z] \in Int, \A x \in DOMAIN f : f[x] \in Int,
           \A x \in DOMAIN f : x # z => g[x] = f[x]
    PROVE  SumFunction(g) = SumFunction(f) - f[z] + g[z]
  <1> DEFINE rest == (DOMAIN f) \ {z}
  <1>1. \A x \in DOMAIN g : g[x] \in Int
    OBVIOUS
  <1>2. SumFunctionOnSet(g, DOMAIN f) = g[z] + SumFunctionOnSet(g, rest)
    BY <1>1, SumWithout
  <1>3. SumFunctionOnSet(f, DOMAIN f) = f[z] + SumFunctionOnSet(f, rest)
    BY SumWithout
  <1>4. IsFiniteSet(rest)
    BY FS_Subset
  <1>5. SumFunctionOnSet(f, rest) = SumFunctionOnSet(g, rest)
    BY <1>4, SumSame
  <1>6. SumFunctionOnSet(f, rest) \in Int
    BY <1>4, SumInt
  <1> HIDE DEF rest
  <1> QED BY <1>2, <1>3, <1>5, <1>6 DEF SumFunction

LEMMA SumEqual ==
    ASSUME NEW f, NEW g, IsFiniteSet(DOMAIN f), DOMAIN g = DOMAIN f,
           \A x \in DOMAIN f : g[x] = f[x]
    PROVE  SumFunction(g) = SumFunction(f)
  BY SumSame DEF SumFunction

\* Sums are added, and compared, amount by amount.
LEMMA SumPlus ==
    ASSUME NEW f, NEW g, NEW h, NEW S, IsFiniteSet(S),
           \A x \in S : f[x] \in Int /\ g[x] \in Int /\ h[x] = f[x] + g[x]
    PROVE  SumFunctionOnSet(h, S) = SumFunctionOnSet(f, S) + SumFunctionOnSet(g, S)
  <1> DEFINE Total(s) == SumFunctionOnSet(f, s) + SumFunctionOnSet(g, s)
             bad == {s \in SUBSET S : SumFunctionOnSet(h, s) # Total(s)}
  <1>1. SUFFICES ASSUME bad # {} PROVE FALSE
    <2>1. S \in SUBSET S
      OBVIOUS
    <2> QED BY <2>1
  <1>2. PICK s \in bad : \A x \in s : s \ {x} \notin bad
    <2>1. bad \in SUBSET (SUBSET S)
      OBVIOUS
    <2> HIDE DEF bad
    <2> QED BY <1>1, <2>1, SmallestMember
  <1>3. s \in SUBSET S /\ SumFunctionOnSet(h, s) # Total(s)
    BY <1>2
  <1>4. s # {}
    <2>1. Total({}) = 0
      BY SumNothing
    <2> HIDE DEF Total
    <2> QED BY <1>3, <2>1, SumNothing
  <1> DEFINE z == Some(s)
             rest == s \ {z}
  <1>5. z \in s /\ z \in S /\ rest \in SUBSET S /\ IsFiniteSet(s) /\ IsFiniteSet(rest)
    BY <1>3, <1>4, SomeIsMember, FS_Subset
  <1>6. SumFunctionOnSet(h, rest) = Total(rest)
    BY <1>2, <1>5
  <1>7. /\ SumFunctionOnSet(f, rest) \in Int
        /\ SumFunctionOnSet(g, rest) \in Int
    <2> HIDE DEF rest
    <2> QED BY <1>5, SumInt
  <1>8. /\ SumFunctionOnSet(f, s) = f[z] + SumFunctionOnSet(f, rest)
        /\ SumFunctionOnSet(g, s) = g[z] + SumFunctionOnSet(g, rest)
        /\ SumFunctionOnSet(h, s) = h[z] + SumFunctionOnSet(h, rest)
    BY <1>4, <1>5, SumSome
  <1> HIDE DEF z, rest
  <1>9. f[z] \in Int /\ g[z] \in Int /\ h[z] = f[z] + g[z]
    BY <1>5
  <1> QED BY <1>3, <1>6, <1>7, <1>8, <1>9

LEMMA SumNonNegative ==
    ASSUME NEW f, NEW S, IsFiniteSet(S), \A x \in S : f[x] \in Nat
    PROVE  SumFunctionOnSet(f, S) \in Nat
  <1> DEFINE bad == {s \in SUBSET S : SumFunctionOnSet(f, s) \notin Nat}
  <1>1. SUFFICES ASSUME bad # {} PROVE FALSE
    BY Zenon
  <1>2. PICK s \in bad : \A x \in s : s \ {x} \notin bad
    <2>1. bad \in SUBSET (SUBSET S)
      OBVIOUS
    <2> HIDE DEF bad
    <2> QED BY <1>1, <2>1, SmallestMember
  <1>3. s \in SUBSET S /\ SumFunctionOnSet(f, s) \notin Nat /\ IsFiniteSet(s)
    BY <1>2, FS_Subset
  <1>4. s # {}
    BY <1>3, SumNothing
  <1>5. Some(s) \in s
    BY <1>4, SomeIsMember
  <1>6. SumFunctionOnSet(f, s \ {Some(s)}) \in Nat
    BY <1>2, <1>3, <1>5
  <1>7. f[Some(s)] \in Nat
    BY <1>3, <1>5
  <1> QED BY <1>3, <1>4, <1>6, <1>7, SumSome

LEMMA SumMonotone ==
    ASSUME NEW f, NEW g, NEW S, IsFiniteSet(S),
           \A x \in S : f[x] \in Int /\ g[x] \in Int /\ f[x] <= g[x]
    PROVE  SumFunctionOnSet(f, S) <= SumFunctionOnSet(g, S)
  <1> DEFINE more == [x \in S |-> g[x] - f[x]]
  <1>1. \A x \in S : more[x] \in Nat /\ g[x] = f[x] + more[x]
    OBVIOUS
  <1> HIDE DEF more
  <1>2. SumFunctionOnSet(more, S) \in Nat
    BY <1>1, SumNonNegative
  <1>3. SumFunctionOnSet(g, S) = SumFunctionOnSet(f, S) + SumFunctionOnSet(more, S)
    BY <1>1, SumPlus
  <1>4. SumFunctionOnSet(f, S) \in Int
    BY SumInt
  <1> QED BY <1>2, <1>3, <1>4

\* Amounts within bounds make a sum within the sum of the bounds.
LEMMA SumWithin ==
    ASSUME NEW f, NEW g, NEW S, IsFiniteSet(S),
           \A x \in S : f[x] \in Int /\ g[x] \in Int /\ f[x] <= g[x] /\ -f[x] <= g[x]
    PROVE  /\ SumFunctionOnSet(f, S) <= SumFunctionOnSet(g, S)
           /\ -SumFunctionOnSet(f, S) <= SumFunctionOnSet(g, S)
  <1> DEFINE h == [x \in S |-> f[x] + g[x]]
             F == SumFunctionOnSet(f, S)
             G == SumFunctionOnSet(g, S)
             H == SumFunctionOnSet(h, S)
  <1>1. F <= G
    BY SumMonotone
  <1>2. \A x \in S : h[x] = f[x] + g[x] /\ h[x] \in Nat
    OBVIOUS
  <1> HIDE DEF h
  <1>3. H = F + G
    BY <1>2, SumPlus
  <1>4. H \in Nat
    BY <1>2, SumNonNegative
  <1>5. F \in Int /\ G \in Int
    BY SumInt
  <1> HIDE DEF F, G, H
  <1>6. F <= G /\ -F <= G
    BY <1>1, <1>3, <1>4, <1>5
  <1> QED BY <1>6 DEF F, G

LEMMA SumZero ==
    ASSUME NEW f, NEW S, IsFiniteSet(S), f \in [S -> {0}]
    PROVE  SumFunction(f) = 0
  <1> DEFINE sum == SumFunctionOnSet(f, S)
  <1>1. DOMAIN f = S /\ \A x \in S : f[x] = 0
    OBVIOUS
  <1>2. sum = sum + sum /\ sum \in Int
    BY <1>1, SumPlus, SumInt
  <1>3. SumFunction(f) = sum
    BY <1>1 DEF SumFunction
  <1> HIDE DEF sum
  <1>4. sum = 0
    BY <1>2
  <1> QED BY <1>3, <1>4

\* What is zero adds nothing.
LEMMA SumExtends ==
    ASSUME NEW f, NEW g, NEW S, IsFiniteSet(S), DOMAIN g = S, DOMAIN f \subseteq S,
           \A x \in S : g[x] = IF x \in DOMAIN f THEN f[x] ELSE 0,
           \A x \in DOMAIN f : f[x] \in Int
    PROVE  SumFunction(g) = SumFunction(f)
  <1> DEFINE D == DOMAIN f
             family == {s \in SUBSET S : D \subseteq s /\ SumFunctionOnSet(g, s)
                                                            = SumFunctionOnSet(g, S)}
  <1>1. S \in family
    OBVIOUS
  <1>2. PICK s \in family : \A x \in s : s \ {x} \notin family
    <2>1. family \in SUBSET (SUBSET S) /\ family # {}
      BY <1>1
    <2> HIDE DEF family
    <2> QED BY <2>1, SmallestMember
  <1>3. s \in SUBSET S /\ D \subseteq s /\ IsFiniteSet(s)
        /\ SumFunctionOnSet(g, s) = SumFunctionOnSet(g, S)
    BY <1>2, FS_Subset
  <1>4. \A x \in s : g[x] \in Int
    BY <1>3
  <1>5. s = D
    <2> SUFFICES ASSUME NEW x \in s, x \notin D PROVE FALSE
      BY <1>3
    <2>1. SumFunctionOnSet(g, s) = g[x] + SumFunctionOnSet(g, s \ {x}) /\ g[x] = 0
      BY <1>3, <1>4, SumWithout
    <2>2. SumFunctionOnSet(g, s \ {x}) \in Int
      <3>1. IsFiniteSet(s \ {x}) /\ \A y \in s \ {x} : g[y] \in Int
        BY <1>3, <1>4, FS_Subset
      <3> QED BY <3>1, SumInt
    <2>3. SumFunctionOnSet(g, s \ {x}) = SumFunctionOnSet(g, S)
      BY <1>3, <2>1, <2>2
    <2>4. s \ {x} \in family
      BY <1>3, <2>3
    <2> QED BY <1>2, <2>4
  <1>6. SumFunctionOnSet(g, D) = SumFunctionOnSet(f, D)
    BY <1>3, <1>5, SumSame
  <1> QED BY <1>3, <1>5, <1>6 DEF SumFunction

LEMMA SumScaled ==
    ASSUME NEW c \in Int, NEW f, NEW g, NEW S, IsFiniteSet(S),
           \A x \in S : f[x] \in Int /\ g[x] = c * f[x]
    PROVE  SumFunctionOnSet(g, S) = c * SumFunctionOnSet(f, S)
  <1> DEFINE bad == {s \in SUBSET S : SumFunctionOnSet(g, s) # c * SumFunctionOnSet(f, s)}
  <1>1. SUFFICES ASSUME bad # {} PROVE FALSE
    <2>1. S \in SUBSET S
      OBVIOUS
    <2> QED BY <2>1
  <1>2. PICK s \in bad : \A x \in s : s \ {x} \notin bad
    <2>1. bad \in SUBSET (SUBSET S)
      OBVIOUS
    <2> HIDE DEF bad
    <2> QED BY <1>1, <2>1, SmallestMember
  <1>3. /\ s \in SUBSET S /\ IsFiniteSet(s)
        /\ SumFunctionOnSet(g, s) # c * SumFunctionOnSet(f, s)
    BY <1>2, FS_Subset
  <1>4. s # {}
    <2>1. SumFunctionOnSet(g, {}) = 0 /\ SumFunctionOnSet(f, {}) = 0 /\ c * 0 = 0
      BY SumNothing
    <2> QED BY <1>3, <2>1
  <1> DEFINE x == Some(s)
             F == SumFunctionOnSet(f, s \ {x})
             G == SumFunctionOnSet(g, s \ {x})
  <1>5. x \in s
    BY <1>4, SomeIsMember
  <1>6. G = c * F
    BY <1>2, <1>3, <1>5
  <1>7. F \in Int
    <2>1. IsFiniteSet(s \ {x}) /\ \A y \in s \ {x} : f[y] \in Int
      BY <1>3, FS_Subset
    <2> QED BY <2>1, SumInt
  <1>8. /\ SumFunctionOnSet(f, s) = f[x] + F
        /\ SumFunctionOnSet(g, s) = g[x] + G
    BY <1>3, <1>4, SumSome
  <1>9. f[x] \in Int /\ g[x] = c * f[x]
    BY <1>3, <1>5
  <1> HIDE DEF x, F, G
  <1>10. c * (f[x] + F) = c * f[x] + c * F
    BY <1>7, <1>9
  <1> QED BY <1>3, <1>6, <1>8, <1>9, <1>10

\* As many amounts as a set may have members, each within a bound.
LEMMA SumBounded ==
    ASSUME NEW f, NEW S, NEW U, IsFiniteSet(U), S \subseteq U, NEW b \in Nat,
           \A x \in S : f[x] \in Int /\ 2 * f[x] <= b /\ -2 * f[x] <= b
    PROVE  /\ SumFunctionOnSet(f, S) \in Int
           /\ 2 * SumFunctionOnSet(f, S) <= b * Cardinality(U)
           /\ -2 * SumFunctionOnSet(f, S) <= b * Cardinality(U)
  <1> DEFINE Holds(s) == /\ 2 * SumFunctionOnSet(f, s) <= b * Cardinality(s)
                         /\ -2 * SumFunctionOnSet(f, s) <= b * Cardinality(s)
             bad == {s \in SUBSET S : ~Holds(s)}
  <1>1. IsFiniteSet(S) /\ Cardinality(S) \in Nat /\ Cardinality(U) \in Nat
        /\ Cardinality(S) <= Cardinality(U)
    BY FS_Subset, FS_CardinalityType
  <1>2. Holds(S)
    <2>1. SUFFICES ASSUME bad # {} PROVE FALSE
      <3>1. S \in SUBSET S
        OBVIOUS
      <3> HIDE DEF Holds
      <3> QED BY <3>1
    <2>2. PICK s \in bad : \A x \in s : s \ {x} \notin bad
      <3>1. bad \in SUBSET (SUBSET S)
        OBVIOUS
      <3> HIDE DEF bad
      <3> QED BY <1>1, <2>1, <3>1, SmallestMember
    <2>3. s \in SUBSET S /\ IsFiniteSet(s) /\ ~Holds(s)
      <3> HIDE DEF Holds
      <3> QED BY <1>1, <2>2, FS_Subset
    <2>4. s # {}
      <3>1. SumFunctionOnSet(f, {}) = 0 /\ Cardinality({}) = 0 /\ b * 0 = 0
        BY SumNothing, FS_EmptySet
      <3>2. Holds({})
        BY <3>1
      <3> HIDE DEF Holds
      <3> QED BY <2>3, <3>2
    <2> DEFINE x == Some(s)
               rest == s \ {x}
               F == SumFunctionOnSet(f, rest)
               n == Cardinality(rest)
    <2>5. x \in s
      BY <2>4, SomeIsMember
    <2>6. Holds(rest)
      <3> HIDE DEF Holds, x
      <3> QED BY <2>2, <2>3, <2>5
    <2>7. F \in Int
      <3>1. IsFiniteSet(rest) /\ \A y \in rest : f[y] \in Int
        BY <2>3, FS_Subset
      <3> QED BY <3>1, SumInt
    <2>8. SumFunctionOnSet(f, s) = f[x] + F
      BY <2>3, <2>4, SumSome
    <2>9. Cardinality(s) = n + 1 /\ n \in Nat
      <3>1. Cardinality(rest) = Cardinality(s) - 1 /\ IsFiniteSet(rest)
        BY <2>3, <2>5, FS_RemoveElement, FS_Subset
      <3>2. Cardinality(rest) \in Nat /\ Cardinality(s) \in Nat
        BY <2>3, <3>1, FS_CardinalityType
      <3> HIDE DEF rest
      <3> QED BY <3>1, <3>2
    <2>10. f[x] \in Int /\ 2 * f[x] <= b /\ -2 * f[x] <= b
      BY <2>3, <2>5
    <2>11. 2 * F <= b * n /\ -2 * F <= b * n
      BY <2>6
    <2> HIDE DEF x, F, n, rest
    <2>12. b * (n + 1) = b * n + b /\ b * n \in Int
      BY <2>9
    <2>13. /\ 2 * (f[x] + F) <= b * n + b
           /\ -2 * (f[x] + F) <= b * n + b
      BY <2>7, <2>10, <2>11, <2>12
    <2> QED BY <2>3, <2>8, <2>9, <2>12, <2>13
  <1>3. SumFunctionOnSet(f, S) \in Int
    BY <1>1, SumInt
  <1>4. b * Cardinality(S) <= b * Cardinality(U) /\ b * Cardinality(S) \in Int
        /\ b * Cardinality(U) \in Int
    <2> DEFINE n == Cardinality(S)
               more == Cardinality(U) - n
    <2>1. n \in Nat /\ more \in Nat /\ Cardinality(U) = n + more
      BY <1>1
    <2> HIDE DEF n, more
    <2>2. b * (n + more) = b * n + b * more /\ b * more \in Nat /\ b * n \in Int
      BY <2>1
    <2> QED BY <2>1, <2>2 DEF n
  <1> QED BY <1>2, <1>3, <1>4

-----------------------------------------------------------------------------
(* What rounding costs: a ratio, an average, cash, a profit, a fill *)

LEMMA WholeDivision ==
    ASSUME NEW m \in Nat, NEW n \in Nat \ {0}
    PROVE  m \div n \in Int /\ (m \div n) * n <= m /\ m < (m \div n) * n + n
  OBVIOUS

\* Rounding moves a ratio by half at most, and a whole number not at all.
LEMMA HalfUpError ==
    ASSUME NEW n \in Int, NEW d \in Nat \ {0}
    PROVE  /\ HalfUp(n, d) \in Int
           /\ 2 * (d * HalfUp(n, d) - n) <= d
           /\ 2 * (n - d * HalfUp(n, d)) <= d
           /\ d = 1 => HalfUp(n, d) = n
  <1> DEFINE m == 2 * Magnitude(n) + d
             k == m \div (2 * d)
  <1>1. /\ Magnitude(n) \in Nat /\ n = Sign(n) * Magnitude(n)
        /\ Sign(n) = 1 \/ Sign(n) = -1
    BY DEF Magnitude, Sign
  <1>2. m \in Nat /\ 2 * d \in Nat \ {0}
    BY <1>1
  <1>3. k \in Int /\ k * (2 * d) <= m /\ m < k * (2 * d) + 2 * d
    <2> HIDE DEF m
    <2> QED BY <1>2, WholeDivision
  <1>4. k * (2 * d) = 2 * (d * k)
    <2> HIDE DEF k
    <2> QED BY <1>3
  <1>5. HalfUp(n, d) = Sign(n) * k
    BY DEF HalfUp
  <1>6. d * k \in Int /\ 2 * (d * k) <= m /\ m < 2 * (d * k) + 2 * d
    <2> HIDE DEF m, k
    <2> QED BY <1>2, <1>3, <1>4
  <1> HIDE DEF k
  <1>7. 2 * (d * k) - 2 * Magnitude(n) <= d /\ 2 * Magnitude(n) - 2 * (d * k) <= d
    BY <1>1, <1>6
  <1>8. HalfUp(n, d) \in Int
    BY <1>1, <1>3, <1>5
  <1>9. d * HalfUp(n, d) = Sign(n) * (d * k)
    BY <1>1, <1>3, <1>5
  <1>10. 2 * (d * HalfUp(n, d) - n) <= d /\ 2 * (n - d * HalfUp(n, d)) <= d
    <2> DEFINE a == Magnitude(n)
               b == d * k
               h == d * HalfUp(n, d)
    <2>1. a \in Int /\ b \in Int /\ h = Sign(n) * b /\ n = Sign(n) * a
      BY <1>1, <1>6, <1>9
    <2>2. 2 * b - 2 * a <= d /\ 2 * a - 2 * b <= d
      BY <1>7
    <2> HIDE DEF a, b, h
    <2>3. 2 * (h - n) <= d /\ 2 * (n - h) <= d
      BY <1>1, <2>1, <2>2
    <2> QED BY <2>3 DEF h
  <1>11. d = 1 => HalfUp(n, d) = n
    BY <1>8, <1>10
  <1> QED BY <1>8, <1>10, <1>11

\* An average price times the quantity it is of.
LEMMA BlendedCost ==
    ASSUME NEW existing \in Nat \ {0}, NEW added \in Nat \ {0}, NEW average \in Nat,
           NEW price \in Nat
    PROVE  LET blended == WeightedAveragePrice(existing, average, added, price)
               cost == average * existing + price * AvgTicks * added
           IN  /\ blended \in Int /\ cost \in Int
               /\ 2 * ((existing + added) * blended - cost) <= existing + added
               /\ 2 * (cost - (existing + added) * blended) <= existing + added
  <1>1. average * existing + price * AvgTicks * added \in Int
    BY ScaleAssumption
  <1>2. existing + added \in Nat \ {0}
    OBVIOUS
  <1> QED BY <1>1, <1>2, HalfUpError DEF WeightedAveragePrice

\* What a fill leaves unexplained: the cash it moves, less the net profit it
\* books, plus what it changes in the cost of the position.
Unexplained(position, side, quantity, price, charges) ==
    LET outcome == ApplyFill(position.quantity, position.average,
                             Direction(side) * quantity, price)
    IN  AvgTicks * Lot * (CashDelta(side, quantity, price, charges)
                            - outcome.realized + charges)
          + outcome.quantity * outcome.average - position.quantity * position.average

CashError == IF Lot = 1 THEN 0 ELSE AvgTicks * Lot

LEMMA CashRounds ==
    ASSUME NEW side \in Side, NEW quantity \in Nat, NEW price \in Nat, NEW charges \in Nat
    PROVE  LET fill == Direction(side) * quantity
               delta == CashDelta(side, quantity, price, charges)
           IN  \E e \in Int :
                  /\ AvgTicks * Lot * delta = e - fill * price * AvgTicks - AvgTicks * Lot * charges
                  /\ 2 * e <= CashError /\ -2 * e <= CashError
  <1> DEFINE fill == Direction(side) * quantity
             n == -(Direction(side) * quantity * price) - charges * Lot
             delta == CashDelta(side, quantity, price, charges)
             r == Lot * delta - n
  <1>1. fill \in Int /\ n \in Int /\ n = -(fill * price) - charges * Lot
    BY ScaleAssumption DEF Direction
  <1>2. delta = HalfUp(n, Lot)
    BY DEF CashDelta
  <1> HIDE DEF n
  <1>3. /\ delta \in Int /\ r \in Int
        /\ 2 * r <= Lot /\ -2 * r <= Lot
        /\ Lot = 1 => r = 0
    <2>1. /\ HalfUp(n, Lot) \in Int
          /\ 2 * (Lot * HalfUp(n, Lot) - n) <= Lot
          /\ 2 * (n - Lot * HalfUp(n, Lot)) <= Lot
          /\ Lot = 1 => HalfUp(n, Lot) = n
      BY <1>1, HalfUpError, ScaleAssumption
    <2>2. delta \in Int /\ Lot * delta \in Int /\ r \in Int
      BY <1>1, <1>2, <2>1, ScaleAssumption
    <2>3. 2 * r <= Lot /\ -2 * r <= Lot
      <3> HIDE DEF delta
      <3> QED BY <1>1, <1>2, <2>1, <2>2, ScaleAssumption
    <2>4. Lot = 1 => r = 0
      <3> HIDE DEF delta
      <3> QED BY <1>1, <1>2, <2>1, <2>2
    <2> QED BY <2>2, <2>3, <2>4
  <1> HIDE DEF delta, fill
  <1> DEFINE e == AvgTicks * r
  <1>4. e \in Int
    BY <1>3, ScaleAssumption
  <1>5. AvgTicks * Lot * delta = e - fill * price * AvgTicks - AvgTicks * Lot * charges
    <2>1. Lot * delta = r - fill * price - charges * Lot
      BY <1>1, <1>3, ScaleAssumption
    <2> HIDE DEF r
    <2>2. AvgTicks * (Lot * delta) = AvgTicks * (r - fill * price - charges * Lot)
      BY <2>1
    <2> QED BY <1>1, <1>3, <2>2, ScaleAssumption
  <1>6. 2 * e <= CashError /\ -2 * e <= CashError
    <2> HIDE DEF r
    <2>1. CASE Lot = 1
      BY <1>3, <2>1, ScaleAssumption DEF CashError
    <2>2. CASE Lot # 1
      <3>1. \A x, y \in Int : x <= y => AvgTicks * x <= AvgTicks * y
        BY ScaleAssumption
      <3>2. AvgTicks * (2 * r) <= AvgTicks * Lot /\ AvgTicks * (-2 * r) <= AvgTicks * Lot
        BY <1>3, <3>1, ScaleAssumption
      <3>3. 2 * e = AvgTicks * (2 * r) /\ -2 * e = AvgTicks * (-2 * r)
        BY <1>3, ScaleAssumption
      <3> QED BY <2>2, <3>2, <3>3 DEF CashError
    <2> QED BY <2>1, <2>2
  <1> QED BY <1>4, <1>5, <1>6 DEF fill, delta

LEMMA ProfitRounds ==
    ASSUME NEW entry \in Nat, NEW exit \in Nat, NEW quantity \in Nat, NEW direction \in {1, -1}
    PROVE  \E e \in Int :
              /\ RealizedPnl(entry, exit, quantity, direction) \in Int
              /\ AvgTicks * Lot * RealizedPnl(entry, exit, quantity, direction)
                    = e + (exit * AvgTicks - entry) * (quantity * direction)
              /\ 2 * e <= AvgTicks * Lot /\ -2 * e <= AvgTicks * Lot
  <1> DEFINE n == (exit * AvgTicks - entry) * quantity * direction
             d == AvgTicks * Lot
             h == HalfUp(n, d)
  <1>1. n \in Int /\ d \in Nat \ {0}
    BY ScaleAssumption
  <1>2. h \in Int /\ 2 * (d * h - n) <= d /\ 2 * (n - d * h) <= d
    <2> HIDE DEF n, d
    <2> QED BY <1>1, HalfUpError
  <1>3. n = (exit * AvgTicks - entry) * (quantity * direction)
    BY ScaleAssumption
  <1>4. RealizedPnl(entry, exit, quantity, direction) = h
    BY DEF RealizedPnl
  <1> DEFINE e == d * h - n
  <1> HIDE DEF n, d, h
  <1>5. e \in Int /\ d * h = e + n /\ 2 * e <= d /\ -2 * e <= d
    BY <1>1, <1>2
  <1> HIDE DEF e
  <1> QED BY <1>2, <1>3, <1>4, <1>5 DEF d

\* What a position costs a unit once a fill has gone against it.
LEMMA AverageAfterClosing ==
    ASSUME NEW quantity \in Int, NEW average \in Nat, NEW fill \in Int, NEW price \in Nat,
           quantity # 0, fill # 0, (quantity > 0) # (fill > 0)
    PROVE  LET after == ApplyFill(quantity, average, fill, price).average
           IN  /\ quantity + fill = 0 => after = 0
               /\ quantity + fill # 0 /\ Magnitude(fill) > Magnitude(quantity)
                    => after = price * AvgTicks
               /\ quantity + fill # 0 /\ ~(Magnitude(fill) > Magnitude(quantity))
                    => after = average
  <1> DEFINE closed == Lesser(Magnitude(quantity), Magnitude(fill))
             opened == Magnitude(fill) - closed
             P == price * AvgTicks
             blend == WeightedAveragePrice(Magnitude(quantity), average, Magnitude(fill), price)
             against == quantity # 0 /\ fill # 0 /\ (quantity > 0) # (fill > 0)
             after == CASE fill = 0 -> average
                        [] fill # 0 /\ quantity = 0 -> P
                        [] fill # 0 /\ quantity # 0 /\ ~against -> blend
                        [] against /\ quantity + fill = 0 -> 0
                        [] against /\ opened > 0 -> P
                        [] against /\ quantity + fill # 0 /\ opened = 0 -> average
  <1>1. against
    OBVIOUS
  <1>2. ApplyFill(quantity, average, fill, price).average = after
    BY <1>1 DEF ApplyFill
  <1>3. /\ quantity + fill = 0 => opened = 0
        /\ Magnitude(fill) > Magnitude(quantity) => opened > 0
        /\ ~(Magnitude(fill) > Magnitude(quantity)) => opened = 0
    BY DEF Magnitude, Lesser
  <1> HIDE DEF opened, blend, P
  <1>4. opened > 0 => opened # 0
    BY DEF opened, closed, Magnitude, Lesser
  <1>5. /\ quantity + fill = 0 => after = 0
        /\ quantity + fill # 0 /\ Magnitude(fill) > Magnitude(quantity) => after = P
        /\ quantity + fill # 0 /\ ~(Magnitude(fill) > Magnitude(quantity)) => after = average
    BY <1>1, <1>3, <1>4
  <1> HIDE DEF after
  <1> QED BY <1>2, <1>5 DEF P

\* It is what the fill has rounded: a profit when it closes, an average over
\* the units then held when it only opens, and the cash.
LEMMA FillError ==
    ASSUME NEW position \in Position, NEW side \in Side, NEW quantity \in Nat \ {0},
           NEW price \in Nat, NEW charges \in Nat
    PROVE  LET outcome == ApplyFill(position.quantity, position.average,
                                    Direction(side) * quantity, price)
               unexplained == Unexplained(position, side, quantity, price, charges)
               bound == (IF outcome.closed > 0 THEN AvgTicks * Lot
                         ELSE Magnitude(outcome.quantity)) + CashError
           IN  /\ unexplained \in Int
               /\ 2 * unexplained <= bound /\ -2 * unexplained <= bound
  <1> DEFINE Q == position.quantity
             a == position.average
             fill == Direction(side) * quantity
             outcome == ApplyFill(Q, a, fill, price)
             P == price * AvgTicks
             S == AvgTicks * Lot
             delta == CashDelta(side, quantity, price, charges)
             u == Unexplained(position, side, quantity, price, charges)
             realized == outcome.realized
             after == outcome.quantity
             average == outcome.average
             against == Q # 0 /\ fill # 0 /\ (Q > 0) # (fill > 0)
  <1>1. /\ Q \in Int /\ a \in Nat /\ fill \in Int \ {0} /\ P \in Nat /\ S \in Nat \ {0}
        /\ realized \in Int /\ delta \in Int /\ after = Q + fill /\ CashError \in Nat
        /\ outcome.closed \in Nat
    <2>1. Q \in Int /\ a \in Nat /\ fill \in Int \ {0} /\ P \in Nat /\ S \in Nat \ {0}
          /\ CashError \in Nat
      BY ScaleAssumption DEF Position, Direction, CashError
    <2>2. delta \in Int
      <3>1. -(Direction(side) * quantity * price) - charges * Lot \in Int
        BY ScaleAssumption DEF Direction
      <3> QED BY <3>1, HalfUpError, ScaleAssumption DEF CashDelta
    <2>3. realized \in Int /\ after = Q + fill /\ outcome.closed \in Nat
      <3> HIDE DEF fill, Q, a
      <3>1. outcome.realized \in Int
        BY <2>1, ApplyFillRealized
      <3>2. /\ ApplyFill(Q, a, fill, price).quantity = Q + fill
            /\ ApplyFill(Q, a, fill, price).closed \in Nat
        <4>1. \A n, f \in Int, m, p \in Nat :
                 /\ ApplyFill(n, m, f, p).quantity = n + f
                 /\ ApplyFill(n, m, f, p).closed \in Nat
          BY DEF ApplyFill, Magnitude, Lesser
        <4>2. fill \in Int
          BY <2>1
        <4> HIDE DEF outcome, realized
        <4> QED BY <2>1, <4>1, <4>2, Zenon
      <3> QED BY <3>1, <3>2
    <2> QED BY <2>1, <2>2, <2>3
  <1>2. PICK e \in Int : /\ S * delta = e - fill * P - S * charges
                         /\ 2 * e <= CashError /\ -2 * e <= CashError
    <2>1. PICK e \in Int :
             /\ S * delta = e - fill * price * AvgTicks - S * charges
             /\ 2 * e <= CashError /\ -2 * e <= CashError
      BY CashRounds
    <2>2. fill * price * AvgTicks = fill * P
      BY <1>1, ScaleAssumption
    <2> QED BY <2>1, <2>2
  <1>3. u = S * (delta - realized + charges) + after * average - Q * a
    BY DEF Unexplained
  <1>4. outcome.closed = IF against THEN Lesser(Magnitude(Q), Magnitude(fill)) ELSE 0
    BY DEF ApplyFill
  <1>5. realized = IF outcome.closed = 0 THEN 0
                   ELSE RealizedPnl(a, price, outcome.closed, Sign(Q))
    BY DEF ApplyFill
  <1>6. S * (delta - realized + charges) = e - fill * P - S * realized
    <2>1. S * (delta - realized + charges) = S * delta - S * realized + S * charges
      <3> HIDE DEF S, delta, realized
      <3> QED BY <1>1
    <2> HIDE DEF S, delta, realized, fill, P
    <2> QED BY <1>1, <1>2, <2>1
  <1>7. ASSUME average \in Nat
        PROVE  u = e - S * realized + ((Q + fill) * average - fill * P - Q * a)
    <2> HIDE DEF S, delta, realized, fill, P, Q, a, average, after, u
    <2> QED BY <1>1, <1>3, <1>6, <1>7
  <1> DEFINE bound == (IF outcome.closed > 0 THEN S ELSE Magnitude(after)) + CashError
  <1> SUFFICES u \in Int /\ 2 * u <= bound /\ -2 * u <= bound
    OBVIOUS
  <1>8. CASE ~against
    <2>1. outcome.closed = 0 /\ realized = 0
      BY <1>4, <1>5, <1>8
    <2>2. CASE Q = 0
      <3>1. average = P
        BY <1>1, <2>2 DEF ApplyFill
      <3> HIDE DEF S, delta, realized, fill, P, Q, a, average, after, u, outcome
      <3>2. u = e
        BY <1>1, <1>7, <2>1, <2>2, <3>1
      <3> QED BY <1>1, <1>2, <2>1, <3>2 DEF Magnitude
    <2>3. CASE Q # 0
      <3> DEFINE existing == Magnitude(Q)
                 added == Magnitude(fill)
      <3>1. average = WeightedAveragePrice(existing, a, added, price)
        BY <1>1, <1>8, <2>3 DEF ApplyFill
      <3> HIDE DEF S, delta, realized, fill, P, Q, a, average, after, u, outcome
      <3>2. existing \in Nat \ {0} /\ added \in Nat \ {0}
        BY <1>1, <2>3 DEF Magnitude
      <3>3. PICK s \in {1, -1} : Q = s * existing /\ fill = s * added
        <4>1. CASE Q > 0
          <5>1. Q = 1 * existing /\ fill = 1 * added
            BY <1>1, <1>8, <4>1 DEF Magnitude
          <5> QED BY <5>1
        <4>2. CASE Q < 0
          <5>1. Q = (-1) * existing /\ fill = (-1) * added
            BY <1>1, <1>8, <4>2 DEF Magnitude
          <5> QED BY <5>1
        <4> QED BY <1>1, <2>3, <4>1, <4>2
      <3>4. Magnitude(after) = existing + added
        BY <1>1, <1>8, <2>3 DEF Magnitude
      <3> HIDE DEF existing, added
      <3> DEFINE cost == a * existing + P * added
                 r == (existing + added) * average - cost
      <3>5. average \in Int /\ r \in Int /\ 2 * r <= existing + added /\ -2 * r <= existing + added
        <4>1. price * AvgTicks * added = P * added
          BY DEF P
        <4>2. /\ average \in Int /\ cost \in Int
              /\ 2 * ((existing + added) * average - cost) <= existing + added
              /\ 2 * (cost - (existing + added) * average) <= existing + added
          BY <1>1, <3>1, <3>2, <4>1, BlendedCost
        <4>3. (existing + added) * average \in Int
          BY <3>2, <4>2
        <4> HIDE DEF cost
        <4> QED BY <3>2, <4>2, <4>3
      <3>6. average \in Nat
        <4>1. a * existing + price * AvgTicks * added \in Nat /\ existing + added \in Nat \ {0}
          BY <1>1, <3>2, ScaleAssumption
        <4>2. average = HalfUp(a * existing + price * AvgTicks * added, existing + added)
          BY <3>1 DEF WeightedAveragePrice
        <4> QED BY <4>1, <4>2, HalfUpType
      <3>7. (Q + fill) * average - fill * P - Q * a = s * r
        BY <1>1, <3>2, <3>3, <3>6
      <3> HIDE DEF r
      <3>8. u = e + s * r
        BY <1>1, <1>7, <2>1, <3>5, <3>6, <3>7
      <3> QED BY <1>1, <1>2, <2>1, <3>2, <3>4, <3>5, <3>8
    <2> QED BY <2>2, <2>3
  <1>9. CASE against
    <2> DEFINE closed == outcome.closed
    <2>0. /\ Q + fill = 0 => average = 0
          /\ Q + fill # 0 /\ Magnitude(fill) > Magnitude(Q) => average = P
          /\ Q + fill # 0 /\ ~(Magnitude(fill) > Magnitude(Q)) => average = a
      <3> HIDE DEF Q, a, fill
      <3> QED BY <1>1, <1>9, AverageAfterClosing
    <2>1. /\ closed \in Nat \ {0} /\ closed = Lesser(Magnitude(Q), Magnitude(fill))
          /\ Sign(Q) \in {1, -1}
      BY <1>1, <1>4, <1>9 DEF Magnitude, Lesser, Sign
    <2>2. PICK r \in Int : /\ S * realized = r + (P - a) * (closed * Sign(Q))
                           /\ 2 * r <= S /\ -2 * r <= S
      <3>1. realized = RealizedPnl(a, price, closed, Sign(Q))
        BY <1>5, <2>1
      <3> HIDE DEF a, Q, closed, realized
      <3>2. PICK r \in Int :
               /\ AvgTicks * Lot * realized
                     = r + (price * AvgTicks - a) * (closed * Sign(Q))
               /\ 2 * r <= AvgTicks * Lot /\ -2 * r <= AvgTicks * Lot
        <4>1. \E r \in Int :
                 /\ RealizedPnl(a, price, closed, Sign(Q)) \in Int
                 /\ AvgTicks * Lot * RealizedPnl(a, price, closed, Sign(Q))
                       = r + (price * AvgTicks - a) * (closed * Sign(Q))
                 /\ 2 * r <= AvgTicks * Lot /\ -2 * r <= AvgTicks * Lot
          <5> DEFINE direction == Sign(Q)
          <5>1. a \in Nat /\ closed \in Nat /\ direction \in {1, -1}
            BY <1>1, <2>1
          <5> HIDE DEF direction
          <5>2. \A entry, exit, units \in Nat, d \in {1, -1} :
                   \E r \in Int :
                      /\ RealizedPnl(entry, exit, units, d) \in Int
                      /\ AvgTicks * Lot * RealizedPnl(entry, exit, units, d)
                            = r + (exit * AvgTicks - entry) * (units * d)
                      /\ 2 * r <= AvgTicks * Lot /\ -2 * r <= AvgTicks * Lot
            BY ProfitRounds
          <5> DEFINE Explained(entry, exit, units, d, r) ==
                        /\ RealizedPnl(entry, exit, units, d) \in Int
                        /\ AvgTicks * Lot * RealizedPnl(entry, exit, units, d)
                              = r + (exit * AvgTicks - entry) * (units * d)
                        /\ 2 * r <= AvgTicks * Lot /\ -2 * r <= AvgTicks * Lot
          <5>3. \A entry, exit, units \in Nat, d \in {1, -1} :
                   \E r \in Int : Explained(entry, exit, units, d, r)
            BY <5>2
          <5> HIDE DEF Explained
          <5>4. \E r \in Int : Explained(a, price, closed, direction, r)
            BY <5>1, <5>3
          <5> QED BY <5>4 DEF Explained, direction
        <4> QED BY <3>1, <4>1
      <3>3. S * realized = r + (P - a) * (closed * Sign(Q))
        BY <3>2
      <3> QED BY <3>2, <3>3
    <2>3. /\ average \in Nat
          /\ (Q + fill) * average - fill * P - Q * a = (P - a) * (closed * Sign(Q))
      <3>1. CASE Q + fill = 0
        <4>1. average = 0
          BY <2>0, <3>1
        <4> HIDE DEF fill, P, Q, a, average, closed, outcome
        <4>2. closed * Sign(Q) = Q /\ fill = -Q
          BY <1>1, <1>9, <2>1, <3>1 DEF Magnitude, Lesser, Sign
        <4> QED BY <1>1, <4>1, <4>2
      <3>2. CASE Q + fill # 0 /\ Magnitude(fill) > Magnitude(Q)
        <4>1. average = P
          BY <2>0, <3>2
        <4> HIDE DEF fill, P, Q, a, average, closed, outcome
        <4>2. closed * Sign(Q) = Q
          BY <1>1, <1>9, <2>1, <3>2 DEF Magnitude, Lesser, Sign
        <4> QED BY <1>1, <4>1, <4>2
      <3>3. CASE Q + fill # 0 /\ ~(Magnitude(fill) > Magnitude(Q))
        <4>1. average = a
          BY <2>0, <3>3
        <4> HIDE DEF fill, P, Q, a, average, closed, outcome
        <4>2. closed * Sign(Q) = -fill
          BY <1>1, <1>9, <2>1, <3>3 DEF Magnitude, Lesser, Sign
        <4> QED BY <1>1, <4>1, <4>2
      <3> QED BY <3>1, <3>2, <3>3
    <2> HIDE DEF S, delta, realized, fill, P, Q, a, average, after, u, outcome, closed
    <2>4. u = e - r
      <3> DEFINE x == (P - a) * (closed * Sign(Q))
      <3>1. x \in Int
        BY <1>1, <2>1
      <3> HIDE DEF x
      <3> QED BY <1>1, <1>7, <2>2, <2>3, <3>1
    <2> QED BY <1>1, <1>2, <2>1, <2>2, <2>4 DEF closed
  <1> QED BY <1>8, <1>9
===============================================================================
