--------------------------- MODULE RestaurantProofs ---------------------------
(***************************************************************************)
(* Tables, the work of the waiters and the tokens of the cooks are kept    *)
(* for any layout of M and any guests, although the first order overwrites *)
(* the front of the cooks' queue and the cooks then read from elsewhere    *)
(* and notify waiters that they made up.  What saves the counts is that a  *)
(* cook stores nothing but its queue's front and length, and one cell at   *)
(* the end of a stride: never an index, a queue or a count of a waiter.    *)
(***************************************************************************)
EXTENDS Restaurant, FiniteSetTheorems, TLAPS

Cell == 0 .. Cells - 1

Typed ==
    /\ M \in [Cell -> Nat] /\ M[2] \in Waiter
    /\ sem_cook \in Nat /\ sem_waiter \in [Waiter -> Nat]
    /\ cpc \in [Cook -> {"wait", "preparing", "cooking", "prepared", "notify", "dead", "gone"}]
    /\ wpc \in [Waiter -> {"wait", "serving", "listening", "writing", "ordering", "notify", "gone"}]
    /\ upc \in [Customer -> {"coming", "seated", "placed", "hungry", "served", "eating",
                             "finished", "gone"}]
    /\ order \in [Cook -> [waiter : Nat, cust : Nat, count : Nat]]
    /\ taken \in [Waiter -> [cust : Nat, count : Nat]]
    /\ waiter_id \in [Customer -> Waiter]
    /\ curr_time \in [Processes -> Nat]

Placed(c)   == upc[c] \notin {"coming", "seated"}
PlacedAt(w) == {c \in Customer : Placed(c) /\ waiter_id[c] = w}
queued(w, j) == M[base(w) + 2 + 2 * j]
HasOrder(w) == wpc[w] \in {"listening", "writing", "ordering"}

(***************************************************************************)
(* w has had k orders; the first k - PO it has taken.  Each is of another  *)
(* customer of its own.                                                    *)
(***************************************************************************)
Queue(w, k) ==
    /\ k <= Cardinality(PlacedAt(w)) /\ M[PO(w)] <= k
    /\ M[base(w) + 1] = base(w) + 2 + 2 * k
    /\ M[base(w)] = base(w) + 2 + 2 * (k - M[PO(w)])
    /\ \A j \in 0 .. k - 1 : queued(w, j) \in PlacedAt(w)
    /\ \A i, j \in 0 .. k - 1 : queued(w, i) = queued(w, j) => i = j
    /\ \A j \in k - M[PO(w)] .. k - 1 : queued(w, j) \notin passed
    /\ HasOrder(w) =>
          /\ M[PO(w)] < k /\ taken[w].cust = queued(w, k - M[PO(w)] - 1)
          /\ taken[w].cust \notin passed

Queues == \A w \in Waiter : \E k \in Nat : Queue(w, k)

(***************************************************************************)
(* The back of the cooks' queue counts the orders passed on; its front     *)
(* starts over from the number of the waiter that passed on the first.     *)
(***************************************************************************)
Kitchen ==
    /\ passed \subseteq {c \in Customer : Placed(c)}
    /\ M[kitchen + 1] = kitchen + 3 * Cardinality(passed)
    /\ passed = {} => M[3] = 0
    /\ passed # {} => M[kitchen] + 3 * M[3] < Waiters + 3 * Cardinality(passed)

(* The counts of the waiters' orders and food outside S stay. *)
CountsStay(S) ==
    \A v \in Waiter \ S : M'[PO(v)] = M[PO(v)] /\ M'[FR(v)] = M[FR(v)]

IInv == Typed /\ Queues /\ Kitchen /\ KitchenTokens
-----------------------------------------------------------------------------
(* Where things are in M.  The proofs below use these facts, not base and   *)
(* kitchen themselves.                                                      *)

LEMMA Sizes ==
    /\ {Cooks, Waiters, Tables, Globals, Stride, Cells} \subseteq Nat \ {0}
    /\ Globals > 3 /\ Stride > 4
    /\ IsFiniteSet(Customer) /\ Cardinality(Customer) \in Nat
    /\ 2 * Cardinality(Customer) + 4 <= Stride
    /\ \A c \in Customer : Guests[c].arrival \in Nat /\ Guests[c].count \in Nat
<1>1. IsFiniteSet(Customer)
    BY RestaurantAssumption
<1>2. Cardinality(Customer) \in Nat
    BY <1>1, FS_CardinalityType
<1>3. \A c \in Customer : Guests[c].arrival \in Nat /\ Guests[c].count \in Nat
    BY RestaurantAssumption
<1> QED BY <1>1, <1>2, <1>3, RestaurantAssumption

LEMMA Strides ==
    ASSUME NEW x \in Nat, NEW y \in Nat, x < y
    PROVE  x * Stride \in Nat /\ y * Stride \in Nat /\ x * Stride + Stride <= y * Stride
<1>1. x * Stride \in Nat /\ y * Stride \in Nat /\ (y - x - 1) * Stride \in Nat
    BY Sizes
<1>2. y * Stride = x * Stride + Stride + (y - x - 1) * Stride
    BY Sizes
<1> QED BY <1>1, <1>2, Sizes

LEMMA Layout ==
    /\ kitchen \in Nat /\ kitchen >= Globals + Stride /\ kitchen + 1 < Cells
    /\ kitchen + 3 * Cardinality(Customer) < Cells
    /\ Waiters + 3 * Cardinality(Customer) < Cells
    /\ \A w \in Waiter :
          /\ base(w) \in Nat /\ base(w) >= Globals /\ base(w) + Stride <= kitchen
          /\ PO(w) = base(w) + Stride - 2 /\ FR(w) = base(w) + Stride - 1
    /\ \A v, w \in Waiter :
          v # w => base(v) + Stride <= base(w) \/ base(w) + Stride <= base(v)
<1>1. /\ kitchen \in Nat /\ kitchen >= Globals + Stride /\ kitchen + 1 < Cells
      /\ kitchen + 3 * Cardinality(Customer) < Cells
  <2>1. Waiters * Stride \in Nat /\ Waiters * Stride >= Stride
    <3>1. 0 * Stride = 0 /\ 0 \in Nat /\ Waiters \in Nat /\ 0 < Waiters /\ Stride \in Nat
        BY Sizes
    <3>2. Waiters * Stride \in Nat /\ 0 * Stride + Stride <= Waiters * Stride
        BY <3>1, Strides
    <3> QED BY <3>1, <3>2
  <2> QED BY <2>1, Sizes, RestaurantAssumption, SMTT(30) DEF kitchen
<1>2. Waiters + 3 * Cardinality(Customer) < Cells
  <2>1. Waiters <= Waiters * Stride
    BY Sizes
  <2> QED BY <2>1, <1>1, Sizes DEF kitchen
<1>3. ASSUME NEW w \in Waiter
      PROVE  /\ base(w) \in Nat /\ base(w) >= Globals /\ base(w) + Stride <= kitchen
             /\ PO(w) = base(w) + Stride - 2 /\ FR(w) = base(w) + Stride - 1
  <2>1. w \in Nat /\ Waiters \in Nat /\ w < Waiters
    BY Sizes DEF Waiter
  <2>2. w * Stride \in Nat /\ w * Stride + Stride <= Waiters * Stride /\ Waiters * Stride \in Nat
    BY <2>1, Strides
  <2> QED BY <2>2, Sizes DEF base, kitchen, PO, FR
<1>4. ASSUME NEW v \in Waiter, NEW w \in Waiter, v < w
      PROVE  base(v) + Stride <= base(w)
  <2>1. v \in Nat /\ w \in Nat
    BY <1>4 DEF Waiter
  <2>2. v * Stride \in Nat /\ w * Stride \in Nat /\ v * Stride + Stride <= w * Stride
    BY <1>4, <2>1, Strides
  <2> QED BY <2>2, Sizes DEF base
<1>5. \A v, w \in Waiter : v # w => v < w \/ w < v
    BY DEF Waiter
<1> QED BY <1>1, <1>2, <1>3, <1>4, <1>5

LEMMA Indices ==
    /\ 0 \in Cell /\ 1 \in Cell /\ 2 \in Cell /\ 3 \in Cell
    /\ kitchen \in Cell /\ kitchen + 1 \in Cell /\ kitchen \in Nat /\ kitchen > 3
    /\ \A w \in Waiter : \A x \in base(w) .. base(w) + Stride - 1 :
          x \in Cell /\ x > 3 /\ x < kitchen
    /\ \A w \in Waiter :
          /\ base(w) \in base(w) .. base(w) + Stride - 2
          /\ base(w) + 1 \in base(w) .. base(w) + Stride - 2
          /\ PO(w) \in base(w) .. base(w) + Stride - 2
          /\ FR(w) \in base(w) .. base(w) + Stride - 1
<1>1. /\ Cells \in Nat /\ Globals \in Nat /\ Stride \in Nat /\ Globals > 3 /\ Stride > 4
      /\ Cardinality(Customer) \in Nat
    BY Sizes
<1>2. kitchen \in Nat /\ kitchen >= Globals + Stride /\ kitchen + 1 < Cells
    BY Layout
<1>3. ASSUME NEW w \in Waiter
      PROVE  /\ base(w) \in Nat /\ base(w) >= Globals /\ base(w) + Stride <= kitchen
             /\ PO(w) = base(w) + Stride - 2 /\ FR(w) = base(w) + Stride - 1
    BY Layout
<1>4. \A w \in Waiter : \A x \in base(w) .. base(w) + Stride - 1 :
          x \in Cell /\ x > 3 /\ x < kitchen
    BY <1>1, <1>2, <1>3 DEF Cell
<1> QED BY <1>1, <1>2, <1>3, <1>4 DEF Cell

LEMMA CountCells ==
    /\ \A v \in Waiter :
          /\ PO(v) \in Cell /\ PO(v) > 3 /\ PO(v) < kitchen
          /\ FR(v) \in Cell /\ FR(v) > 3 /\ FR(v) < kitchen
    /\ \A v, w \in Waiter :
          /\ PO(v) # FR(w) /\ base(w) \notin {PO(v), FR(v)} /\ base(w) + 1 \notin {PO(v), FR(v)}
          /\ v # w => PO(v) # PO(w) /\ FR(v) # FR(w)
<1>1. \A v \in Waiter :
          /\ PO(v) \in base(v) .. base(v) + Stride - 1
          /\ FR(v) \in base(v) .. base(v) + Stride - 1
    BY Layout, Sizes
<1>2. ASSUME NEW v \in Waiter, NEW w \in Waiter
      PROVE  /\ PO(v) # FR(w) /\ base(w) \notin {PO(v), FR(v)} /\ base(w) + 1 \notin {PO(v), FR(v)}
             /\ v # w => PO(v) # PO(w) /\ FR(v) # FR(w)
    BY Layout, Sizes
<1> QED BY <1>1, <1>2, Indices

LEMMA WaitersFinite ==
    \A S \in SUBSET Waiter : IsFiniteSet(S) /\ Cardinality(S) \in Nat
<1>1. IsFiniteSet(Waiter)
    BY Sizes, FS_Interval DEF Waiter
<1> QED BY <1>1, FS_Subset, FS_CardinalityType

(* Whatever number a cook takes for a waiter's, it stores at the end of a    *)
(* stride: at that waiter's FR, or in none of the waiters' regions and at no *)
(* index of the cooks.                                                       *)
LEMMA FoodCell ==
    ASSUME NEW x \in Nat
    PROVE  /\ FR(x) \in Nat /\ FR(x) > 3 /\ FR(x) # kitchen /\ FR(x) # kitchen + 1
           /\ \A w \in Waiter : x # w => FR(x) \notin base(w) .. base(w) + Stride - 1
<1>1. ASSUME NEW y \in Nat, x # y
      PROVE  /\ FR(x) \in Nat
             /\ \/ FR(x) < Globals + y * Stride
                \/ FR(x) > Globals + y * Stride + Stride
  <2>1. CASE x < y
    <3>1. x * Stride \in Nat /\ y * Stride \in Nat /\ x * Stride + Stride <= y * Stride
        BY <2>1, Strides
    <3> QED BY <3>1, Sizes DEF FR, base
  <2>2. CASE y < x
    <3>1. x * Stride \in Nat /\ y * Stride \in Nat /\ y * Stride + Stride <= x * Stride
        BY <2>2, Strides
    <3> QED BY <3>1, Sizes DEF FR, base
  <2> QED BY <1>1, <2>1, <2>2
<1>2. x * Stride \in Nat
    BY Sizes
<1>3. FR(x) \in Nat /\ FR(x) > 3
    BY <1>2, Sizes DEF FR, base
<1>4. FR(x) # kitchen /\ FR(x) # kitchen + 1
  <2>1. CASE x = Waiters
    BY <1>2, <2>1, Sizes DEF FR, base, kitchen
  <2>2. CASE x # Waiters
    <3>1. Waiters \in Nat /\ Waiters * Stride \in Nat
        BY Sizes
    <3> QED BY <1>1, <2>2, <3>1, Sizes DEF kitchen
  <2> QED BY <2>1, <2>2
<1>5. ASSUME NEW w \in Waiter, x # w
      PROVE  FR(x) \notin base(w) .. base(w) + Stride - 1
  <2>1. w \in Nat /\ w * Stride \in Nat
    BY Sizes DEF Waiter
  <2> QED BY <1>1, <1>5, <2>1, Sizes DEF base
<1> QED BY <1>3, <1>4, <1>5
-----------------------------------------------------------------------------
(* What leaves a waiter's queue as it is *)

LEMMA PlacedFinite ==
    ASSUME NEW w \in Waiter
    PROVE  /\ IsFiniteSet(PlacedAt(w)) /\ Cardinality(PlacedAt(w)) \in Nat
           /\ Cardinality(PlacedAt(w)) <= Cardinality(Customer)
           /\ PlacedAt(w) \subseteq Customer
<1>1. PlacedAt(w) \subseteq Customer
    BY DEF PlacedAt
<1> QED BY <1>1, Sizes, FS_Subset, FS_CardinalityType

(* There is room for an order of every customer below the counters. *)
LEMMA QueueRoom ==
    ASSUME NEW w \in Waiter, NEW k \in Nat, Queue(w, k)
    PROVE  /\ 2 * k + 4 <= Stride
           /\ \A j \in 0 .. k - 1 : base(w) + 2 + 2 * j \in base(w) + 2 .. base(w) + Stride - 4
<1>1. k <= Cardinality(Customer)
    BY PlacedFinite, Sizes DEF Queue
<1>2. 2 * k + 4 <= Stride
    BY <1>1, Sizes
<1> QED BY <1>2, Sizes, Layout

LEMMA QueueStays ==
    ASSUME NEW w \in Waiter, NEW k \in Nat, Queue(w, k),
           \A x \in base(w) .. base(w) + Stride - 2 : M'[x] = M[x],
           \A c \in PlacedAt(w) : c \in PlacedAt(w)' /\ (c \in passed' => c \in passed),
           HasOrder(w)' => HasOrder(w) /\ taken'[w] = taken[w],
           Typed
    PROVE  Queue(w, k)'
<1> USE Sizes, Layout
<1>1. /\ M'[base(w)] = M[base(w)] /\ M'[base(w) + 1] = M[base(w) + 1] /\ M'[PO(w)] = M[PO(w)]
      /\ \A j \in 0 .. k - 1 : queued(w, j)' = queued(w, j)
  <2>1. base(w) \in base(w) .. base(w) + Stride - 2
    OBVIOUS
  <2>2. base(w) + 1 \in base(w) .. base(w) + Stride - 2
    OBVIOUS
  <2>3. PO(w) \in base(w) .. base(w) + Stride - 2
    OBVIOUS
  <2>4. \A j \in 0 .. k - 1 : base(w) + 2 + 2 * j \in base(w) .. base(w) + Stride - 2
    BY QueueRoom
  <2> QED BY <2>1, <2>2, <2>3, <2>4 DEF queued
<1>2. M[PO(w)] \in Nat /\ M[PO(w)] <= k
  <2>1. PO(w) \in Cell
    BY DEF Cell
  <2> QED BY <2>1 DEF Typed, Queue
<1>3. k <= Cardinality(PlacedAt(w)')
  <2>1. PlacedAt(w) \subseteq PlacedAt(w)' /\ PlacedAt(w)' \subseteq Customer
    BY DEF PlacedAt
  <2>2. IsFiniteSet(PlacedAt(w)') /\ Cardinality(PlacedAt(w)) <= Cardinality(PlacedAt(w)')
    BY <2>1, FS_Subset
  <2>3. Cardinality(PlacedAt(w)) \in Nat /\ Cardinality(PlacedAt(w)') \in Nat
    BY <2>2, PlacedFinite, FS_CardinalityType
  <2> QED BY <2>2, <2>3 DEF Queue
<1>4. \A j \in 0 .. k - 1 : queued(w, j) \in PlacedAt(w)
    BY DEF Queue
<1>5. \A j \in k - M[PO(w)] .. k - 1 : j \in 0 .. k - 1
    BY <1>2
<1>6. \A j \in k - M[PO(w)] .. k - 1 : queued(w, j) \notin passed'
    BY <1>4, <1>5 DEF Queue
<1>7. HasOrder(w)' =>
        /\ M[PO(w)] < k /\ taken'[w].cust = queued(w, k - M[PO(w)] - 1)
        /\ taken'[w].cust \notin passed'
  <2> SUFFICES ASSUME HasOrder(w)' PROVE
        /\ M[PO(w)] < k /\ taken'[w].cust = queued(w, k - M[PO(w)] - 1)
        /\ taken'[w].cust \notin passed'
    OBVIOUS
  <2>1. /\ M[PO(w)] < k /\ taken'[w].cust = queued(w, k - M[PO(w)] - 1)
        /\ taken'[w].cust \notin passed
    BY DEF Queue
  <2>2. k - M[PO(w)] - 1 \in 0 .. k - 1
    BY <1>2, <2>1
  <2> QED BY <1>4, <2>1, <2>2
<1>8. /\ base(w)' = base(w) /\ PO(w)' = PO(w)
    BY DEF base, PO
<1>9. \A i, j \in 0 .. k - 1 : queued(w, i)' = queued(w, j)' => i = j
    BY <1>1 DEF Queue
<1>10. \A j \in 0 .. k - 1 : queued(w, j)' \in PlacedAt(w)'
    BY <1>1, <1>4
<1>11. \A j \in k - M[PO(w)] .. k - 1 : queued(w, j)' \notin passed'
    BY <1>1, <1>5, <1>6
<1>12. HasOrder(w)' =>
        /\ M[PO(w)] < k /\ taken'[w].cust = queued(w, k - M[PO(w)] - 1)'
        /\ taken'[w].cust \notin passed'
  <2>1. M[PO(w)] < k => k - M[PO(w)] - 1 \in 0 .. k - 1
    BY <1>2
  <2> QED BY <1>1, <1>7, <2>1
<1> QED BY <1>1, <1>2, <1>3, <1>8, <1>9, <1>10, <1>11, <1>12 DEF Queue

(* The same for all queues at once, and for the kitchen. *)
LEMMA QueuesStay ==
    ASSUME Typed, Queues,
           \A w \in Waiter : \A x \in base(w) .. base(w) + Stride - 2 : M'[x] = M[x],
           \A c \in Customer : Placed(c) => Placed(c)' /\ waiter_id'[c] = waiter_id[c],
           \A w \in Waiter : HasOrder(w)' => HasOrder(w) /\ taken'[w] = taken[w],
           passed' = passed
    PROVE  Queues'
<1>1. ASSUME NEW w \in Waiter PROVE \E k \in Nat : Queue(w, k)'
  <2>1. PICK k \in Nat : Queue(w, k)
    BY DEF Queues
  <2>2. \A c \in PlacedAt(w) : c \in PlacedAt(w)' /\ (c \in passed' => c \in passed)
    BY DEF PlacedAt
  <2> QED BY <2>1, <2>2, QueueStays
<1> QED BY <1>1 DEF Queues

LEMMA KitchenStays ==
    ASSUME Kitchen, KitchenTokens, passed' = passed,
           M'[3] = M[3], M'[kitchen] = M[kitchen], M'[kitchen + 1] = M[kitchen + 1],
           \A c \in Customer : Placed(c) => Placed(c)',
           sem_cook' = sem_cook,
           \A w \in Waiter : wpc'[w] = "notify" <=> wpc[w] = "notify"
    PROVE  Kitchen' /\ KitchenTokens'
<1>1. kitchen' = kitchen
    BY DEF kitchen
<1>2. {w \in Waiter : wpc'[w] = "notify"} = {w \in Waiter : wpc[w] = "notify"}
    OBVIOUS
<1> QED BY <1>1, <1>2 DEF Kitchen, KitchenTokens

-----------------------------------------------------------------------------
(* The cooks *)

LEMMA PassedFinite ==
    ASSUME Kitchen
    PROVE  /\ IsFiniteSet(passed) /\ Cardinality(passed) \in Nat
           /\ Cardinality(passed) <= Cardinality(Customer)
<1>1. passed \subseteq Customer
    BY DEF Kitchen
<1> QED BY <1>1, Sizes, FS_Subset, FS_CardinalityType

(* A cook has a token only for an order that was passed on; it reads three  *)
(* cells of M, wherever they are.                                           *)
LEMMA CookFinds ==
    ASSUME IInv, sem_cook > 0
    PROVE  /\ M[3] > 0 /\ M[kitchen] + 2 \in Cell
<1> USE Sizes, Layout
<1>1. /\ 3 \in Cell /\ kitchen \in Cell /\ M[3] \in Nat /\ M[kitchen] \in Nat /\ sem_cook \in Nat
    BY Indices DEF IInv, Typed
<1>2. Cardinality({w \in Waiter : wpc[w] = "notify"}) \in Nat
    BY WaitersFinite
<1>3. M[3] > 0
    BY <1>1, <1>2 DEF IInv, KitchenTokens
<1>4. /\ M[kitchen] + 3 * M[3] < Waiters + 3 * Cardinality(passed)
      /\ Cardinality(passed) <= Cardinality(Customer) /\ Cardinality(passed) \in Nat
    BY <1>3, PassedFinite DEF IInv, Kitchen
<1> QED BY <1>1, <1>3, <1>4 DEF Cell

LEMMA CookTakesKeeps ==
    ASSUME IInv, NEW i \in Cook, CookTakes(i)
    PROVE  IInv' /\ M'[1] = M[1] /\ CountsStay({})
<1> DEFINE front == M[kitchen]
<1>1. M[3] > 0 /\ front + 2 \in Cell
    BY CookFinds DEF CookTakes
<1>2. /\ 3 \in Cell /\ kitchen \in Cell /\ M[3] \in Nat /\ front \in Nat /\ kitchen > 3
      /\ front \in Cell /\ front + 1 \in Cell
  <2>1. 3 \in Cell /\ kitchen \in Cell /\ M[3] \in Nat /\ front \in Nat /\ kitchen > 3
    BY Indices DEF IInv, Typed
  <2>2. Cells \in Nat
    BY Sizes
  <2> QED BY <1>1, <2>1, <2>2 DEF Cell
<1>3. ~NoMoreOrders
    BY <1>1, <1>2 DEF NoMoreOrders
<1>4. /\ sem_cook > 0 /\ sem_cook' = sem_cook - 1
      /\ cpc' = [cpc EXCEPT ![i] = "preparing"]
      /\ order' = [order EXCEPT ![i] =
            [waiter |-> M[front], cust |-> M[front + 1], count |-> M[front + 2]]]
      /\ M' = [M EXCEPT ![kitchen] = front + 3, ![3] = @ - 1]
      /\ UNCHANGED <<sem_waiter, wpc, taken, passed, upc, waiter_id, curr_time>>
    BY <1>3 DEF CookTakes, CookGoes, waiters, customers
<1>5. /\ M' \in [Cell -> Nat] /\ M'[kitchen] = front + 3 /\ M'[3] = M[3] - 1
      /\ \A x \in Cell \ {3, kitchen} : M'[x] = M[x]
    BY <1>1, <1>2, <1>4 DEF IInv, Typed
<1>6. Typed'
  <2>1. M'[2] = M[2]
    BY <1>2, <1>5, Indices
  <2>2. order' \in [Cook -> [waiter : Nat, cust : Nat, count : Nat]]
    BY <1>1, <1>2, <1>4 DEF IInv, Typed
  <2> QED BY <1>4, <1>5, <2>1, <2>2 DEF IInv, Typed
<1>7. Queues'
  <2>1. \A w \in Waiter : \A x \in base(w) .. base(w) + Stride - 2 : x \in Cell \ {3, kitchen}
    <3>1. ASSUME NEW w \in Waiter, NEW x \in base(w) .. base(w) + Stride - 2
          PROVE  x \in base(w) .. base(w) + Stride - 1
        BY Layout, Sizes
    <3> QED BY <3>1, Indices
  <2> QED BY <1>4, <1>5, <2>1, QueuesStay DEF IInv, Placed, HasOrder
<1>8. Kitchen'
  <2>1. kitchen + 1 \in Cell \ {3, kitchen} /\ M'[kitchen + 1] = M[kitchen + 1]
    BY <1>2, <1>5, Indices
  <2>2. kitchen' = kitchen
    BY DEF kitchen
  <2>3. passed # {}
    BY <1>1 DEF IInv, Kitchen
  <2>4. Cardinality(passed) \in Nat
    BY PassedFinite DEF IInv
  <2>5. M'[kitchen] + 3 * M'[3] = M[kitchen] + 3 * M[3]
    BY <1>2, <1>5
  <2> QED BY <1>4, <2>1, <2>2, <2>3, <2>4, <2>5 DEF IInv, Kitchen, Placed
<1>9. KitchenTokens'
  <2>1. {w \in Waiter : wpc'[w] = "notify"} = {w \in Waiter : wpc[w] = "notify"}
    BY <1>4
  <2>2. Cardinality({w \in Waiter : wpc[w] = "notify"}) \in Nat
    BY WaitersFinite
  <2> QED BY <1>2, <1>4, <1>5, <2>1, <2>2 DEF IInv, Typed, KitchenTokens
<1>10. M'[1] = M[1] /\ CountsStay({})
    BY <1>5, Indices, CountCells DEF CountsStay
<1> QED BY <1>6, <1>7, <1>8, <1>9, <1>10 DEF IInv

(* A cook that prepares an order moves the clock and nothing else in M. *)
LEMMA ClockKeeps ==
    ASSUME IInv, NEW delay \in Nat, NEW p \in Processes, update_time(p, delay),
           \A c \in Customer : Placed(c) => Placed(c)' /\ waiter_id'[c] = waiter_id[c],
           \A w \in Waiter : HasOrder(w)' => HasOrder(w),
           \A w \in Waiter : wpc'[w] = "notify" <=> wpc[w] = "notify",
           taken' = taken, passed' = passed, sem_cook' = sem_cook
    PROVE  /\ M' \in [Cell -> Nat] /\ \A x \in Cell \ {0} : M'[x] = M[x]
           /\ Queues' /\ Kitchen' /\ KitchenTokens'
<1>1. M' \in [Cell -> Nat] /\ \A x \in Cell \ {0} : M'[x] = M[x]
  <2>1. curr_time[p] \in Nat /\ M \in [Cell -> Nat] /\ 0 \in Cell
    BY Indices DEF IInv, Typed
  <2>2. curr_time[p] + delay \in Nat /\ M[0] \in Nat
    BY <2>1
  <2>3. PICK v \in Nat : M' = [M EXCEPT ![0] = v]
    BY <2>2 DEF update_time
  <2> QED BY <2>1, <2>3
<1>2. \A w \in Waiter : \A x \in base(w) .. base(w) + Stride - 2 : M'[x] = M[x]
  <2>1. ASSUME NEW w \in Waiter, NEW x \in base(w) .. base(w) + Stride - 2
        PROVE  x \in base(w) .. base(w) + Stride - 1
    BY Layout, Sizes
  <2>2. \A w \in Waiter : \A x \in base(w) .. base(w) + Stride - 2 : x \in Cell \ {0}
    BY <2>1, Indices
  <2> QED BY <1>1, <2>2
<1>3. Queues'
    BY <1>2, QueuesStay DEF IInv
<1>4. M'[3] = M[3] /\ M'[kitchen] = M[kitchen] /\ M'[kitchen + 1] = M[kitchen + 1]
    BY <1>1, Indices
<1>5. Kitchen' /\ KitchenTokens'
    BY <1>4, KitchenStays DEF IInv
<1> QED BY <1>1, <1>3, <1>5

LEMMA SameM ==
    ASSUME IInv, M' = M,
           \A c \in Customer : Placed(c) => Placed(c)' /\ waiter_id'[c] = waiter_id[c],
           \A w \in Waiter : HasOrder(w)' => HasOrder(w) /\ taken'[w] = taken[w],
           \A w \in Waiter : wpc'[w] = "notify" <=> wpc[w] = "notify",
           passed' = passed, sem_cook' = sem_cook
    PROVE  Queues' /\ Kitchen' /\ KitchenTokens'
<1>1. Queues'
    BY QueuesStay DEF IInv
<1>2. Kitchen' /\ KitchenTokens'
    BY KitchenStays DEF IInv
<1> QED BY <1>1, <1>2

LEMMA CookPreparesKeeps ==
    ASSUME IInv, NEW i \in Cook, CookPrepares(i)
    PROVE  IInv' /\ M'[1] = M[1] /\ CountsStay({})
<1>1. /\ UNCHANGED <<sem_cook, sem_waiter, order, wpc, taken, passed, upc, waiter_id>>
      /\ cpc' \in [Cook -> {"wait", "preparing", "cooking", "prepared", "notify", "dead", "gone"}]
      /\ <<"cook", i>> \in Processes /\ order[i].count \in Nat
    BY DEF CookPrepares, CookGoes, semaphores, waiters, customers, IInv, Typed, Processes
<1>2. CASE ReadClock(<<"cook", i>>) /\ UNCHANGED M
  <2>1. M[0] \in Nat /\ M \in [Cell -> Nat]
    BY Indices DEF IInv, Typed
  <2>2. Typed'
    BY <1>1, <1>2, <2>1 DEF ReadClock, IInv, Typed
  <2>3. Queues' /\ Kitchen' /\ KitchenTokens'
    BY <1>1, <1>2, SameM DEF Placed, HasOrder
  <2> QED BY <1>2, <2>2, <2>3 DEF IInv, CountsStay
<1>3. CASE update_time(<<"cook", i>>, 5 * order[i].count) /\ UNCHANGED curr_time
  <2>1. 5 * order[i].count \in Nat
    BY <1>1
  <2>2. /\ M' \in [Cell -> Nat] /\ \A x \in Cell \ {0} : M'[x] = M[x]
        /\ Queues' /\ Kitchen' /\ KitchenTokens'
    BY <1>1, <1>3, <2>1, ClockKeeps DEF Placed, HasOrder
  <2>3. Typed'
    BY <1>1, <1>3, <2>2, Indices DEF IInv, Typed
  <2>4. M'[1] = M[1] /\ CountsStay({})
    BY <2>2, Indices, CountCells DEF CountsStay
  <2> QED BY <2>2, <2>3, <2>4 DEF IInv
<1> QED BY <1>2, <1>3 DEF CookPrepares

(* What FoodCell is for: no index, no queue and no count is overwritten. *)
LEMMA FoodReadyKeeps ==
    ASSUME IInv, NEW i \in Cook, SetFoodReady(i)
    PROVE  /\ IInv' /\ M'[1] = M[1] /\ CountsStay({order[i].waiter})
           /\ \A w \in Waiter : M'[PO(w)] = M[PO(w)]
<1> DEFINE x == order[i].waiter
<1>1. /\ UNCHANGED <<sem_cook, sem_waiter, order, wpc, taken, passed, upc, waiter_id, curr_time>>
      /\ cpc' \in [Cook -> {"wait", "preparing", "cooking", "prepared", "notify", "dead", "gone"}]
      /\ x \in Nat /\ order[i].cust \in Nat /\ M \in [Cell -> Nat]
    BY DEF SetFoodReady, CookGoes, semaphores, waiters, customers, IInv, Typed
<1>2. M' \in [Cell -> Nat] /\ \A y \in Cell \ {FR(x)} : M'[y] = M[y]
  <2>1. M' = M \/ M' = [M EXCEPT ![FR(x)] = order[i].cust]
    BY DEF SetFoodReady
  <2> QED BY <1>1, <2>1
<1>3. FR(x) \in Nat /\ FR(x) > 3 /\ FR(x) # kitchen /\ FR(x) # kitchen + 1
    BY <1>1, FoodCell
<1>4. ASSUME NEW w \in Waiter, NEW y \in base(w) .. base(w) + Stride - 2
      PROVE  y \in Cell \ {FR(x)}
  <2>1. y \in base(w) .. base(w) + Stride - 1 /\ y # FR(w)
    BY Layout, Sizes
  <2>2. x # w => FR(x) \notin base(w) .. base(w) + Stride - 1
    BY <1>1, FoodCell
  <2> QED BY <2>1, <2>2, Indices
<1>5. Typed'
  <2>1. M'[2] = M[2]
    BY <1>2, <1>3, Indices
  <2> QED BY <1>1, <1>2, <2>1 DEF IInv, Typed
<1>6. Queues'
  <2>1. \A w \in Waiter : \A y \in base(w) .. base(w) + Stride - 2 : M'[y] = M[y]
    BY <1>2, <1>4
  <2> QED BY <1>1, <2>1, QueuesStay DEF IInv, Placed, HasOrder
<1>7. M'[3] = M[3] /\ M'[kitchen] = M[kitchen] /\ M'[kitchen + 1] = M[kitchen + 1]
    BY <1>2, <1>3, Indices
<1>8. Kitchen' /\ KitchenTokens'
    BY <1>1, <1>7, KitchenStays DEF IInv, Placed
<1>9. M'[1] = M[1] /\ \A w \in Waiter : M'[PO(w)] = M[PO(w)]
  <2>1. \A w \in Waiter : PO(w) \in Cell \ {FR(x)}
    BY <1>4, Indices
  <2> QED BY <1>2, <1>3, <2>1, Indices
<1>10. \A w \in Waiter : w # x => M'[FR(w)] = M[FR(w)]
  <2>1. \A w \in Waiter : w # x => FR(w) # FR(x)
    BY <1>1, FoodCell, Layout, Sizes
  <2> QED BY <1>2, <2>1, CountCells
<1>11. CountsStay({x})
    BY <1>9, <1>10 DEF CountsStay
<1> QED BY <1>5, <1>6, <1>8, <1>9, <1>11 DEF IInv

LEMMA NotifyWaiterKeeps ==
    ASSUME IInv, NEW i \in Cook, NotifyWaiter(i)
    PROVE  IInv'
<1>1. /\ UNCHANGED <<M, sem_cook, order, wpc, taken, passed, upc, waiter_id, curr_time>>
      /\ cpc' \in [Cook -> {"wait", "preparing", "cooking", "prepared", "notify", "dead", "gone"}]
    BY DEF NotifyWaiter, CookGoes, waiters, customers, IInv, Typed
<1>2. sem_waiter' \in [Waiter -> Nat]
    BY DEF NotifyWaiter, Up, IInv, Typed
<1>3. Typed'
    BY <1>1, <1>2 DEF IInv, Typed
<1>4. Queues' /\ Kitchen' /\ KitchenTokens'
    BY <1>1, SameM DEF Placed, HasOrder
<1> QED BY <1>3, <1>4 DEF IInv

-----------------------------------------------------------------------------
(* The waiters *)

(* A waiter that takes food or goes home leaves its queue alone; one that   *)
(* takes an order takes the first that it has not taken yet.                *)
LEMMA WakesKeeps ==
    ASSUME IInv, NEW w \in Waiter, WaiterWakes(w)
    PROVE  IInv' /\ M'[1] = M[1] /\ CountsStay({w})
<1>1. /\ UNCHANGED <<sem_cook, cpc, order, passed, upc, waiter_id, curr_time>>
      /\ sem_waiter[w] > 0 /\ sem_waiter' = [sem_waiter EXCEPT ![w] = @ - 1]
      /\ wpc[w] = "wait" /\ M \in [Cell -> Nat]
    BY DEF WaiterWakes, Down, WaiterGoes, cooks, customers, IInv, Typed
<1>2. sem_waiter' \in [Waiter -> Nat]
    BY <1>1 DEF IInv, Typed
<1>3. CASE /\ wpc' = [wpc EXCEPT ![w] = "wait"] \/ wpc' = [wpc EXCEPT ![w] = "gone"]
           /\ UNCHANGED <<M, taken>>
  <2>1. Typed'
    BY <1>1, <1>2, <1>3 DEF IInv, Typed
  <2>2. Queues' /\ Kitchen' /\ KitchenTokens'
    BY <1>1, <1>3, SameM DEF IInv, Typed, Placed, HasOrder
  <2> QED BY <1>3, <2>1, <2>2 DEF IInv, CountsStay
<1>4. CASE /\ wpc' = [wpc EXCEPT ![w] = "serving"]
           /\ taken' = [taken EXCEPT ![w].cust = M[FR(w)]]
           /\ M' = [M EXCEPT ![FR(w)] = 0]
  <2>1. FR(w) \in Cell /\ FR(w) > 3 /\ FR(w) < kitchen
    BY Indices
  <2>2. M' \in [Cell -> Nat] /\ \A y \in Cell \ {FR(w)} : M'[y] = M[y]
    BY <1>1, <1>4, <2>1
  <2>3. taken' \in [Waiter -> [cust : Nat, count : Nat]]
    BY <1>1, <1>4, <2>1 DEF IInv, Typed
  <2>4. M'[2] = M[2] /\ M'[3] = M[3] /\ M'[kitchen] = M[kitchen] /\ M'[kitchen + 1] = M[kitchen + 1]
    BY <2>1, <2>2, Indices
  <2>5. Typed'
    BY <1>1, <1>2, <1>4, <2>2, <2>3, <2>4 DEF IInv, Typed
  <2>6. ASSUME NEW v \in Waiter, NEW y \in base(v) .. base(v) + Stride - 2
        PROVE  y \in Cell \ {FR(w)}
    <3>1. y \in base(v) .. base(v) + Stride - 1
        BY Layout, Sizes
    <3>2. y # FR(w)
        BY Layout, Sizes
    <3> QED BY <3>1, <3>2, Indices
  <2>7. Queues'
    <3>1. \A v \in Waiter : \A y \in base(v) .. base(v) + Stride - 2 : M'[y] = M[y]
        BY <2>2, <2>6
    <3>2. \A v \in Waiter : HasOrder(v)' => HasOrder(v) /\ taken'[v] = taken[v]
        BY <1>4 DEF IInv, Typed, HasOrder
    <3> QED BY <1>1, <3>1, <3>2, QueuesStay DEF IInv, Placed
  <2>8. Kitchen' /\ KitchenTokens'
    BY <1>1, <1>4, <2>4, KitchenStays DEF IInv, Typed, Placed
  <2>9. M'[1] = M[1] /\ CountsStay({w})
    BY <2>1, <2>2, Indices, CountCells DEF CountsStay
  <2> QED BY <2>5, <2>7, <2>8, <2>9 DEF IInv
<1>5. CASE /\ wpc' = [wpc EXCEPT ![w] = "listening"] /\ M[PO(w)] # 0
           /\ taken' = [taken EXCEPT ![w] = [cust |-> M[M[base(w)]], count |-> M[M[base(w)] + 1]]]
           /\ M' = [M EXCEPT ![base(w)] = M[base(w)] + 2, ![PO(w)] = @ - 1]
  <2> DEFINE front == M[base(w)]
  <2>1. PICK k \in Nat : Queue(w, k)
    BY DEF IInv, Queues
  <2>2. /\ base(w) \in Nat /\ Stride \in Nat /\ PO(w) = base(w) + Stride - 2
        /\ base(w) \in Cell /\ PO(w) \in Cell /\ base(w) > 3 /\ PO(w) > 3
        /\ base(w) < kitchen /\ PO(w) < kitchen /\ 2 * k + 4 <= Stride
    <3>1. base(w) \in base(w) .. base(w) + Stride - 1 /\ PO(w) \in base(w) .. base(w) + Stride - 1
        BY Layout, Sizes
    <3> QED BY <2>1, <3>1, Layout, Sizes, Indices, QueueRoom
  <2>3. PICK po \in 1 .. k : /\ po = M[PO(w)] /\ k - po \in 0 .. k - 1
                             /\ front = base(w) + 2 + 2 * (k - po)
    <3>1. M[PO(w)] \in Nat /\ M[PO(w)] # 0
        BY <1>1, <1>5, <2>2
    <3> QED BY <2>1, <3>1 DEF Queue
  <2>4. front \in Nat /\ front \in Cell /\ front + 1 \in Cell /\ M[front] = queued(w, k - po)
    <3>1. front \in base(w) + 2 .. base(w) + Stride - 4
        BY <2>2, <2>3
    <3>2. front \in base(w) .. base(w) + Stride - 1 /\ front + 1 \in base(w) .. base(w) + Stride - 1
        BY <2>2, <3>1
    <3> QED BY <2>2, <2>3, <3>2, Indices DEF queued
  <2>5. /\ M' \in [Cell -> Nat] /\ M'[base(w)] = front + 2 /\ M'[PO(w)] = po - 1
        /\ \A y \in Cell \ {base(w), PO(w)} : M'[y] = M[y]
    BY <1>1, <1>5, <2>2, <2>3, <2>4
  <2>6. M'[2] = M[2] /\ M'[3] = M[3] /\ M'[kitchen] = M[kitchen] /\ M'[kitchen + 1] = M[kitchen + 1]
    BY <2>2, <2>5, Indices
  <2>7. taken'[w].cust = queued(w, k - po) /\ taken' \in [Waiter -> [cust : Nat, count : Nat]]
    BY <1>1, <1>5, <2>4 DEF IInv, Typed
  <2>8. Typed'
    BY <1>1, <1>2, <1>5, <2>5, <2>6, <2>7 DEF IInv, Typed
  <2>9. Queue(w, k)'
    <3>1. M'[base(w) + 1] = M[base(w) + 1]
        BY <2>2, <2>5, Indices, Sizes
    <3>2. \A j \in 0 .. k - 1 : queued(w, j)' = queued(w, j)
        <4>1. ASSUME NEW j \in 0 .. k - 1
              PROVE  base(w) + 2 + 2 * j \in Cell \ {base(w), PO(w)}
            <5>1. base(w) + 2 + 2 * j \in base(w) + 2 .. base(w) + Stride - 4
                BY <2>1, QueueRoom
            <5>2. base(w) + 2 + 2 * j \in base(w) .. base(w) + Stride - 1
                BY <2>2, <5>1
            <5> QED BY <2>2, <5>1, <5>2, Indices
        <4> QED BY <2>5, <4>1 DEF queued, base
    <3>3. PlacedAt(w)' = PlacedAt(w)
        BY <1>1 DEF PlacedAt, Placed
    <3>4. /\ base(w)' = base(w) /\ PO(w)' = PO(w) /\ passed' = passed
        BY <1>1 DEF base, PO
    <3>5. \A j \in k - (po - 1) .. k - 1 : j \in k - po .. k - 1 /\ j \in 0 .. k - 1
        BY <2>3
    <3>6. po - 1 <= k /\ front + 2 = base(w) + 2 + 2 * (k - (po - 1)) /\ po - 1 < k
          /\ k - (po - 1) - 1 = k - po
        BY <2>2, <2>3
    <3>7. taken'[w].cust = queued(w, k - (po - 1) - 1)' /\ taken'[w].cust \notin passed'
        <4>1. queued(w, k - po) \notin passed
            BY <2>1, <2>3 DEF Queue
        <4>2. queued(w, k - po)' = queued(w, k - po)
            BY <2>3, <3>2
        <4> QED BY <2>3, <2>7, <3>4, <3>6, <4>1, <4>2
    <3>8. /\ \A j \in 0 .. k - 1 : queued(w, j)' \in PlacedAt(w)'
          /\ \A i, j \in 0 .. k - 1 : queued(w, i)' = queued(w, j)' => i = j
          /\ \A j \in k - (po - 1) .. k - 1 : queued(w, j)' \notin passed'
          /\ k <= Cardinality(PlacedAt(w)')
          /\ M[base(w) + 1] = base(w) + 2 + 2 * k
        <4>1. \A j \in k - po .. k - 1 : queued(w, j) \notin passed
            BY <2>1, <2>3 DEF Queue
        <4>2. \A j \in k - (po - 1) .. k - 1 : queued(w, j)' \notin passed'
            BY <3>2, <3>4, <3>5, <4>1
        <4> QED BY <2>1, <3>2, <3>3, <4>2 DEF Queue
    <3> QED BY <2>5, <3>1, <3>4, <3>6, <3>7, <3>8 DEF Queue
  <2>10. ASSUME NEW v \in Waiter, v # w
         PROVE  \E m \in Nat : Queue(v, m)'
    <3>1. PICK m \in Nat : Queue(v, m)
        BY DEF IInv, Queues
    <3>2. ASSUME NEW y \in base(v) .. base(v) + Stride - 2
          PROVE  M'[y] = M[y]
        <4>1. y \in base(v) .. base(v) + Stride - 1 /\ y # base(w) /\ y # PO(w)
            BY <2>10, Layout, Sizes
        <4> QED BY <2>5, <4>1, Indices
    <3>3. HasOrder(v)' => HasOrder(v) /\ taken'[v] = taken[v]
        BY <1>5, <2>10 DEF IInv, Typed, HasOrder
    <3>4. \A c \in PlacedAt(v) : c \in PlacedAt(v)' /\ (c \in passed' => c \in passed)
        BY <1>1 DEF PlacedAt, Placed
    <3> QED BY <3>1, <3>2, <3>3, <3>4, QueueStays DEF IInv
  <2>11. Queues'
    BY <2>9, <2>10 DEF Queues
  <2>12. Kitchen' /\ KitchenTokens'
    BY <1>1, <1>5, <2>6, KitchenStays DEF IInv, Typed, Placed
  <2>13. M'[1] = M[1] /\ CountsStay({w})
    BY <2>2, <2>5, Indices, CountCells DEF CountsStay
  <2> QED BY <2>8, <2>11, <2>12, <2>13 DEF IInv
<1> QED BY <1>3, <1>4, <1>5 DEF WaiterWakes, WaiterGoes

LEMMA WaiterMovesKeeps ==
    ASSUME IInv, NEW w \in Waiter, ServeFood(w) \/ TakeOrder(w)
    PROVE  IInv' /\ M'[1] = M[1] /\ CountsStay({})
<1>1. /\ UNCHANGED <<sem_cook, sem_waiter, cpc, order, taken, passed, upc, waiter_id>>
      /\ <<"waiter", w>> \in Processes
      /\ wpc' \in [Waiter -> {"wait", "serving", "listening", "writing", "ordering", "notify",
                              "gone"}]
      /\ \A v \in Waiter : /\ HasOrder(v)' => HasOrder(v)
                           /\ wpc'[v] = "notify" <=> wpc[v] = "notify"
    BY DEF ServeFood, TakeOrder, WaiterGoes, semaphores, cooks, customers, IInv, Typed, Processes,
        HasOrder
<1>2. CASE UNCHANGED M /\ (UNCHANGED curr_time \/ ReadClock(<<"waiter", w>>))
  <2>1. M[0] \in Nat /\ M \in [Cell -> Nat]
    BY Indices DEF IInv, Typed
  <2>2. Typed'
    BY <1>1, <1>2, <2>1 DEF ReadClock, IInv, Typed
  <2>3. Queues' /\ Kitchen' /\ KitchenTokens'
    BY <1>1, <1>2, SameM DEF Placed
  <2> QED BY <1>2, <2>2, <2>3 DEF IInv, CountsStay
<1>3. CASE update_time(<<"waiter", w>>, 1) /\ UNCHANGED curr_time
  <2>1. /\ M' \in [Cell -> Nat] /\ \A x \in Cell \ {0} : M'[x] = M[x]
        /\ Queues' /\ Kitchen' /\ KitchenTokens'
    BY <1>1, <1>3, ClockKeeps DEF Placed
  <2>2. Typed'
    BY <1>1, <1>3, <2>1, Indices DEF IInv, Typed
  <2>3. M'[1] = M[1] /\ CountsStay({})
    BY <2>1, Indices, CountCells DEF CountsStay
  <2> QED BY <2>1, <2>2, <2>3 DEF IInv
<1> QED BY <1>2, <1>3 DEF ServeFood, TakeOrder, customers

(* One more waiter is on its way to the cooks' semaphore, or one less. *)
LEMMA OneMore ==
    ASSUME Typed, NEW w \in Waiter, NEW to \in {"notify", "wait"},
           wpc' = [wpc EXCEPT ![w] = to],
           wpc[w] = "notify" <=> to = "wait"
    PROVE  Cardinality({v \in Waiter : wpc'[v] = "notify"}) =
           Cardinality({v \in Waiter : wpc[v] = "notify"}) + (IF to = "notify" THEN 1 ELSE -1)
<1> DEFINE old == {v \in Waiter : wpc[v] = "notify"}
           new == {v \in Waiter : wpc'[v] = "notify"}
<1>1. IsFiniteSet(old) /\ IsFiniteSet(new) /\ Cardinality(old) \in Nat /\ Cardinality(new) \in Nat
    BY WaitersFinite
<1>2. CASE to = "notify"
  <2>1. new = old \cup {w} /\ w \notin old
    BY <1>2 DEF Typed
  <2> HIDE DEF old, new
  <2>2. Cardinality(new) = Cardinality(old) + 1
    BY <1>1, <2>1, FS_AddElement
  <2> QED BY <1>1, <1>2, <2>2 DEF old, new
<1>3. CASE to = "wait"
  <2>1. old = new \cup {w} /\ w \notin new
    BY <1>3 DEF Typed
  <2> HIDE DEF old, new
  <2>2. Cardinality(old) = Cardinality(new) + 1
    BY <1>1, <2>1, FS_AddElement
  <2>3. Cardinality(new) = Cardinality(old) - 1
    BY <1>1, <2>2
  <2> QED BY <1>1, <1>3, <2>3 DEF old, new
<1> QED BY <1>2, <1>3

LEMMA NotifyCookKeeps ==
    ASSUME IInv, NEW w \in Waiter, NotifyCook(w)
    PROVE  IInv'
<1>1. /\ UNCHANGED <<M, sem_waiter, cpc, order, taken, passed, upc, waiter_id, curr_time>>
      /\ wpc' = [wpc EXCEPT ![w] = "wait"] /\ wpc[w] = "notify" /\ sem_cook' = sem_cook + 1
    BY DEF NotifyCook, WaiterGoes, cooks, customers
<1>2. Typed'
    BY <1>1 DEF IInv, Typed
<1>3. Queues'
    BY <1>1, QueuesStay DEF IInv, Typed, Placed, HasOrder
<1>4. Kitchen'
    BY <1>1 DEF IInv, Kitchen, Placed, kitchen
<1>5. KitchenTokens'
  <2> DEFINE a == Cardinality({v \in Waiter : wpc[v] = "notify"})
             b == Cardinality({v \in Waiter : wpc'[v] = "notify"})
  <2>1. a \in Nat /\ b \in Nat
    BY WaitersFinite
  <2>2. b = a - 1
    BY <1>1, <2>1, OneMore DEF IInv
  <2>3. sem_cook + a = M[3] /\ sem_cook \in Nat
    BY DEF IInv, Typed, KitchenTokens
  <2> QED BY <1>1, <2>1, <2>2, <2>3 DEF KitchenTokens
<1> QED BY <1>2, <1>3, <1>4, <1>5 DEF IInv

(* An order is passed on once, so the cooks' queue has room for it; its     *)
(* first cells are the front, which is lost, and the back, which is not.    *)
LEMMA QueueOrderKeeps ==
    ASSUME IInv, NEW w \in Waiter, QueueOrder(w)
    PROVE  IInv' /\ M'[1] = M[1] /\ CountsStay({})
<1> DEFINE c == taken[w].cust
           back == M[kitchen + 1]
           p == Cardinality(passed)
<1>1. /\ UNCHANGED <<sem_cook, sem_waiter, cpc, order, taken, upc, waiter_id, curr_time>>
      /\ wpc' = [wpc EXCEPT ![w] = "notify"] /\ wpc[w] = "ordering"
      /\ M' = [M EXCEPT ![back] = w, ![back + 1] = c, ![back + 2] = taken[w].count,
                        ![kitchen + 1] = back + 3, ![3] = @ + 1]
      /\ passed' = passed \cup {c}
      /\ M \in [Cell -> Nat] /\ c \in Nat /\ taken[w].count \in Nat
      /\ w \in Nat /\ w < Waiters /\ Waiters \in Nat
  <2>1. w \in Nat /\ w < Waiters /\ Waiters \in Nat
    BY Sizes DEF Waiter
  <2>2. M \in [Cell -> Nat] /\ c \in Nat /\ taken[w].count \in Nat
    BY DEF IInv, Typed
  <2>3. M' = [M EXCEPT ![back] = w, ![back + 1] = c, ![back + 2] = taken[w].count,
                      ![kitchen + 1] = back + 3, ![3] = @ + 1]
    BY DEF QueueOrder, PassOn
  <2>4. /\ UNCHANGED <<sem_cook, sem_waiter, cpc, order, taken, upc, waiter_id, curr_time>>
        /\ wpc' = [wpc EXCEPT ![w] = "notify"] /\ wpc[w] = "ordering"
        /\ passed' = passed \cup {c}
    BY DEF QueueOrder, WaiterGoes, semaphores, cooks, customers
  <2> QED BY <2>1, <2>2, <2>3, <2>4
<1>2. c \in PlacedAt(w) /\ c \notin passed
  <2>1. PICK k \in Nat : Queue(w, k)
    BY DEF IInv, Queues
  <2>2. HasOrder(w)
    BY <1>1 DEF HasOrder
  <2>3. M[PO(w)] \in Nat
    <3>1. PO(w) \in base(w) .. base(w) + Stride - 1
        BY Layout, Sizes
    <3> QED BY <1>1, <3>1, Indices
  <2>4. k - M[PO(w)] - 1 \in 0 .. k - 1
    BY <2>1, <2>2, <2>3 DEF Queue
  <2> QED BY <2>1, <2>2, <2>4 DEF Queue
<1>3. /\ p \in Nat /\ passed \subseteq Customer /\ c \in Customer /\ Placed(c)
      /\ Cardinality(passed') = p + 1 /\ p + 1 <= Cardinality(Customer)
      /\ passed' \subseteq {d \in Customer : Placed(d)}
  <2>1. /\ p \in Nat /\ IsFiniteSet(passed) /\ passed \subseteq {d \in Customer : Placed(d)}
    BY PassedFinite DEF IInv, Kitchen
  <2>2. c \in Customer /\ Placed(c)
    BY <1>2 DEF PlacedAt
  <2>3. Cardinality(passed \cup {c}) = p + 1
    BY <1>2, <2>1, FS_AddElement
  <2>4. Cardinality(passed \cup {c}) <= Cardinality(Customer)
    <3>1. passed \cup {c} \subseteq Customer
        BY <2>1, <2>2
    <3> QED BY <3>1, Sizes, FS_Subset
  <2> QED BY <1>1, <2>1, <2>2, <2>3, <2>4
<1>4. /\ back = kitchen + 3 * p /\ back \in Nat /\ kitchen \in Nat /\ kitchen > 3
      /\ back \in Cell /\ back + 1 \in Cell /\ back + 2 \in Cell
      /\ kitchen + 1 \in Cell /\ 3 \in Cell
  <2>1. back = kitchen + 3 * p
    BY DEF IInv, Kitchen
  <2>2. kitchen + 3 * p + 2 < Cells /\ Cells \in Nat /\ kitchen \in Nat
    BY <1>3, Layout, Sizes
  <2>3. back + 2 < Cells /\ back \in Nat
    BY <1>3, <2>1, <2>2
  <2> QED BY <2>1, <2>2, <2>3, Indices DEF Cell
<1>5. /\ M' \in [Cell -> Nat] /\ M'[3] = M[3] + 1 /\ M'[kitchen + 1] = back + 3
      /\ \A y \in Cell : y < kitchen /\ y # 3 => M'[y] = M[y]
      /\ p = 0 => M'[kitchen] = w
      /\ p > 0 => M'[kitchen] = M[kitchen]
  <2>1. M' \in [Cell -> Nat]
    BY <1>1, <1>4
  <2>2. M'[3] = M[3] + 1 /\ M'[kitchen + 1] = back + 3
    BY <1>1, <1>4
  <2>3. \A y \in Cell : y < kitchen /\ y # 3 => M'[y] = M[y]
    BY <1>1, <1>3, <1>4
  <2>4. p = 0 => M'[kitchen] = w
    BY <1>1, <1>4
  <2>5. p > 0 => M'[kitchen] = M[kitchen]
    <3>1. p > 0 => kitchen < back
        BY <1>3, <1>4
    <3> QED BY <1>1, <1>4, <3>1, Indices
  <2> QED BY <2>1, <2>2, <2>3, <2>4, <2>5
<1>6. Typed'
  <2>1. M'[2] = M[2]
    BY <1>4, <1>5, Indices
  <2> QED BY <1>1, <1>5, <2>1 DEF IInv, Typed
<1>7. Queues'
  <2>1. ASSUME NEW v \in Waiter
        PROVE  \E k \in Nat : Queue(v, k)'
    <3>1. PICK k \in Nat : Queue(v, k)
        BY DEF IInv, Queues
    <3>2. ASSUME NEW y \in base(v) .. base(v) + Stride - 2
          PROVE  M'[y] = M[y]
        <4>1. y \in base(v) .. base(v) + Stride - 1
            BY Layout, Sizes
        <4>2. y \in Cell /\ y < kitchen /\ y # 3
            BY <4>1, Indices
        <4> QED BY <1>5, <4>2
    <3>3. PlacedAt(v)' = PlacedAt(v)
        BY <1>1 DEF PlacedAt, Placed
    <3>4. CASE v # w
        <4>1. HasOrder(v)' => HasOrder(v) /\ taken'[v] = taken[v]
            BY <1>1, <3>4 DEF IInv, Typed, HasOrder
        <4>2. c \notin PlacedAt(v)
            BY <1>2, <3>4 DEF PlacedAt
        <4>3. \A d \in PlacedAt(v) : d \in PlacedAt(v)' /\ (d \in passed' => d \in passed)
            BY <1>1, <3>3, <4>2
        <4> QED BY <3>1, <3>2, <4>1, <4>3, QueueStays DEF IInv
    <3>5. CASE v = w
        <4>1. ~HasOrder(w)' /\ HasOrder(w)
            BY <1>1 DEF IInv, Typed, HasOrder
        <4>2. PICK po \in Nat : po = M[PO(w)] /\ po < k /\ c = queued(w, k - po - 1)
            <5>1. M[PO(w)] \in Nat
                <6>1. PO(w) \in base(w) .. base(w) + Stride - 1
                    BY Layout, Sizes
                <6> QED BY <1>1, <6>1, Indices
            <5> QED BY <3>1, <3>5, <4>1, <5>1 DEF Queue
        <4>3. /\ M'[base(w)] = M[base(w)] /\ M'[base(w) + 1] = M[base(w) + 1]
              /\ M'[PO(w)] = po /\ base(w)' = base(w) /\ PO(w)' = PO(w)
            BY <3>2, <3>5, <4>2, Indices DEF base, PO
        <4>4. \A j \in 0 .. k - 1 : queued(w, j)' = queued(w, j)
            <5>1. ASSUME NEW j \in 0 .. k - 1
                  PROVE  base(w) + 2 + 2 * j \in base(w) .. base(w) + Stride - 2
                <6>1. base(w) + 2 + 2 * j \in base(w) + 2 .. base(w) + Stride - 4
                    BY <3>1, <3>5, QueueRoom
                <6> QED BY <6>1, Layout, Sizes
            <5> QED BY <3>2, <3>5, <5>1 DEF queued, base
        <4>5. \A j \in k - po .. k - 1 : j \in 0 .. k - 1 /\ j # k - po - 1 /\ k - po - 1 \in 0 .. k - 1
            BY <4>2
        <4>6. \A j \in k - po .. k - 1 : queued(w, j) \notin passed /\ queued(w, j) # c
            BY <3>1, <3>5, <4>2, <4>5 DEF Queue
        <4>7. \A j \in k - po .. k - 1 : queued(w, j)' \notin passed'
            BY <1>1, <4>4, <4>5, <4>6
        <4>8. /\ k <= Cardinality(PlacedAt(w)') /\ po <= k
              /\ M[base(w) + 1] = base(w) + 2 + 2 * k
              /\ M[base(w)] = base(w) + 2 + 2 * (k - po)
              /\ \A j \in 0 .. k - 1 : queued(w, j)' \in PlacedAt(w)'
            BY <3>1, <3>3, <3>5, <4>2, <4>4 DEF Queue
        <4>9. \A i, j \in 0 .. k - 1 : queued(w, i)' = queued(w, j)' => i = j
            BY <3>1, <3>5, <4>4 DEF Queue
        <4> QED BY <3>5, <4>1, <4>3, <4>7, <4>8, <4>9 DEF Queue
    <3> QED BY <3>4, <3>5
  <2> QED BY <2>1 DEF Queues
<1>8. Kitchen'
  <2>1. kitchen' = kitchen /\ passed' # {}
    BY <1>1 DEF kitchen
  <2>2. M'[kitchen + 1] = kitchen + 3 * (p + 1)
    BY <1>3, <1>4, <1>5
  <2>3. M'[kitchen] + 3 * M'[3] < Waiters + 3 * (p + 1)
    <3>1. M[kitchen] \in Nat /\ M[3] \in Nat
        BY <1>1, Indices
    <3>2. CASE p = 0
        <4>1. M[3] = 0
            <5>1. passed = {}
                BY <1>3, <3>2, FS_EmptySet, PassedFinite DEF IInv
            <5> QED BY <5>1 DEF IInv, Kitchen
        <4> QED BY <1>1, <1>5, <3>2, <4>1
    <3>3. CASE p > 0
        <4>1. passed # {}
            BY <3>3, FS_EmptySet
        <4>2. M[kitchen] + 3 * M[3] < Waiters + 3 * p
            BY <4>1 DEF IInv, Kitchen
        <4>3. M'[kitchen] = M[kitchen] /\ M'[3] = M[3] + 1
            BY <1>5, <3>3
        <4> HIDE DEF p
        <4> QED BY <1>1, <1>3, <3>1, <4>2, <4>3
    <3> QED BY <1>3, <3>2, <3>3
  <2>4. passed' \subseteq {d \in Customer : Placed(d)'}
    BY <1>1, <1>3 DEF Placed
  <2> QED BY <1>3, <2>1, <2>2, <2>3, <2>4 DEF Kitchen
<1>9. KitchenTokens'
  <2> DEFINE a == Cardinality({v \in Waiter : wpc[v] = "notify"})
             b == Cardinality({v \in Waiter : wpc'[v] = "notify"})
  <2>1. a \in Nat /\ b \in Nat
    BY WaitersFinite
  <2>2. b = a + 1
    BY <1>1, <2>1, OneMore DEF IInv
  <2>3. sem_cook + a = M[3] /\ sem_cook \in Nat
    BY DEF IInv, Typed, KitchenTokens
  <2> QED BY <1>1, <1>5, <2>1, <2>2, <2>3 DEF KitchenTokens
<1>10. M'[1] = M[1] /\ CountsStay({})
    BY <1>4, <1>5, Indices, CountCells DEF CountsStay
<1> QED BY <1>6, <1>7, <1>8, <1>9, <1>10 DEF IInv

-----------------------------------------------------------------------------
(* The customers *)

LEMMA ArriveKeeps ==
    ASSUME IInv, NEW c \in Customer, Arrive(c)
    PROVE  IInv' /\ CountsStay({})
<1>1. /\ UNCHANGED <<sem_cook, sem_waiter, cpc, order, wpc, taken, passed, curr_time>>
      /\ upc[c] = "coming" /\ M \in [Cell -> Nat] /\ M[1] \in Nat /\ M[2] \in Waiter
    BY Indices DEF Arrive, CustomerGoes, semaphores, cooks, waiters, IInv, Typed
<1>2. CASE TurnedAway(c)
  <2>1. upc' = [upc EXCEPT ![c] = "gone"] /\ UNCHANGED <<M, waiter_id>>
    BY <1>2 DEF Arrive, CustomerGoes
  <2>2. Typed'
    BY <1>1, <2>1 DEF IInv, Typed
  <2>3. \A d \in Customer : Placed(d) => Placed(d)'
    BY <1>1, <2>1 DEF IInv, Typed, Placed
  <2>4. Queues' /\ Kitchen' /\ KitchenTokens'
    BY <1>1, <2>1, <2>3, SameM DEF HasOrder
  <2> QED BY <2>1, <2>2, <2>4 DEF IInv, CountsStay
<1>3. CASE ~TurnedAway(c)
  <2>1. /\ upc' = [upc EXCEPT ![c] = "seated"] /\ waiter_id' = [waiter_id EXCEPT ![c] = M[2]]
        /\ M' = [M EXCEPT ![0] = IF @ < Guests[c].arrival THEN Guests[c].arrival ELSE @,
                          ![1] = @ - 1, ![2] = (@ + 1) % Waiters]
    BY <1>3 DEF Arrive, CustomerGoes
  <2>2. M[1] - 1 \in Nat
    BY <1>1, <1>3 DEF TurnedAway
  <2>3. (M[2] + 1) % Waiters \in Waiter /\ (M[2] + 1) % Waiters \in Nat
    BY <1>1, Sizes DEF Waiter
  <2>4. /\ M' \in [Cell -> Nat] /\ M'[2] \in Waiter
        /\ \A x \in Cell : x > 2 => M'[x] = M[x]
    <3>1. /\ M[0] \in Nat /\ Guests[c].arrival \in Nat
        BY <1>1, Sizes, Indices
    <3>2. PICK t \in Nat : M' = [M EXCEPT ![0] = t, ![1] = M[1] - 1, ![2] = (M[2] + 1) % Waiters]
        BY <2>1, <3>1
    <3> QED BY <1>1, <2>2, <2>3, <3>2, Indices
  <2>5. Typed'
    BY <1>1, <2>1, <2>4 DEF IInv, Typed
  <2>6. \A d \in Customer : Placed(d) => Placed(d)' /\ waiter_id'[d] = waiter_id[d]
    BY <1>1, <2>1 DEF IInv, Typed, Placed
  <2>7. \A w \in Waiter : \A x \in base(w) .. base(w) + Stride - 2 : M'[x] = M[x]
    <3>1. ASSUME NEW w \in Waiter, NEW x \in base(w) .. base(w) + Stride - 2
          PROVE  x \in base(w) .. base(w) + Stride - 1
        BY Layout, Sizes
    <3>2. \A w \in Waiter : \A x \in base(w) .. base(w) + Stride - 2 : x \in Cell /\ x > 2
        BY <3>1, Indices DEF Cell
    <3> QED BY <2>4, <3>2
  <2>8. Queues'
    BY <1>1, <2>6, <2>7, QueuesStay DEF IInv, HasOrder
  <2>9. M'[3] = M[3] /\ M'[kitchen] = M[kitchen] /\ M'[kitchen + 1] = M[kitchen + 1]
    BY <2>4, Indices
  <2>10. Kitchen' /\ KitchenTokens'
    BY <1>1, <2>6, <2>9, KitchenStays DEF IInv
  <2>11. CountsStay({})
    BY <2>4, CountCells DEF CountsStay, Cell
  <2> QED BY <2>5, <2>8, <2>10, <2>11 DEF IInv
<1> QED BY <1>2, <1>3

(* An order goes behind those of the same waiter. *)
LEMMA PlaceKeeps ==
    ASSUME IInv, NEW c \in Customer, PlaceOrder(c)
    PROVE  /\ IInv' /\ M'[1] = M[1] /\ CountsStay({waiter_id[c]})
           /\ M'[PO(waiter_id[c])] = M[PO(waiter_id[c])] + 1
           /\ M'[FR(waiter_id[c])] = M[FR(waiter_id[c])]
<1> DEFINE count == Guests[c].count
<1>0. PICK w \in Waiter : w = waiter_id[c]
    BY DEF IInv, Typed
<1>1. /\ UNCHANGED <<sem_cook, sem_waiter, cpc, order, wpc, taken, passed, waiter_id, curr_time>>
      /\ upc[c] = "seated" /\ upc' = [upc EXCEPT ![c] = "placed"]
      /\ M \in [Cell -> Nat] /\ w \in Waiter /\ c \in Nat /\ count \in Nat
  <2>1. c \in Nat /\ count \in Nat
    BY RestaurantAssumption, Sizes, SMTT(30)
  <2> QED BY <1>0, <2>1 DEF PlaceOrder, CustomerGoes, semaphores, cooks, waiters, IInv, Typed
<1>2. \A d \in Customer : Placed(d)' <=> Placed(d) \/ d = c
    BY <1>1 DEF IInv, Typed, Placed
<1>3. /\ c \notin PlacedAt(w) /\ c \notin passed /\ PlacedAt(w)' = PlacedAt(w) \cup {c}
      /\ Cardinality(PlacedAt(w)') = Cardinality(PlacedAt(w)) + 1
      /\ Cardinality(PlacedAt(w)) \in Nat
      /\ Cardinality(PlacedAt(w)) + 1 <= Cardinality(Customer)
  <2>1. c \notin PlacedAt(w) /\ c \notin passed
    BY <1>1 DEF PlacedAt, Placed, IInv, Kitchen
  <2>2. PlacedAt(w)' = PlacedAt(w) \cup {c}
    BY <1>0, <1>1, <1>2 DEF PlacedAt
  <2>3. Cardinality(PlacedAt(w) \cup {c}) = Cardinality(PlacedAt(w)) + 1
    BY <1>1, <2>1, PlacedFinite, FS_AddElement
  <2>4. Cardinality(PlacedAt(w) \cup {c}) <= Cardinality(Customer)
    <3>1. PlacedAt(w) \cup {c} \subseteq Customer
        BY DEF PlacedAt
    <3> QED BY <3>1, Sizes, FS_Subset
  <2> QED BY <1>1, <2>1, <2>2, <2>3, <2>4, PlacedFinite
<1>4. PICK k \in Nat : Queue(w, k)
    BY <1>1 DEF IInv, Queues
<1> DEFINE back == base(w) + 2 + 2 * k
<1>5. /\ base(w) \in Nat /\ Stride \in Nat /\ Stride > 4 /\ kitchen \in Nat
      /\ PO(w) = base(w) + Stride - 2 /\ 2 * k + 6 <= Stride
      /\ base(w) > 3 /\ PO(w) < kitchen /\ PO(w) \in Cell
      /\ base(w) \in Cell /\ base(w) + 1 \in Cell /\ back \in Cell /\ back + 1 \in Cell
  <2>1. k + 1 <= Cardinality(Customer)
    BY <1>3, <1>4, Sizes DEF Queue
  <2>2. 2 * k + 6 <= Stride
    BY <2>1, Sizes
  <2>3. /\ base(w) \in Nat /\ Stride \in Nat /\ Stride > 4 /\ kitchen \in Nat
        /\ PO(w) = base(w) + Stride - 2
    BY <1>1, Layout, Sizes
  <2>4. {base(w), base(w) + 1, back, back + 1, PO(w)} \subseteq base(w) .. base(w) + Stride - 1
    BY <2>2, <2>3
  <2>5. \A x \in base(w) .. base(w) + Stride - 1 : x \in Cell /\ x > 3 /\ x < kitchen
    BY <1>1, Indices
  <2> QED BY <2>2, <2>3, <2>4, <2>5
<1>6. PICK po \in Nat : po = M[PO(w)] /\ po <= k /\ M[base(w) + 1] = back
    BY <1>1, <1>4, <1>5 DEF Queue
<1>7. /\ M' \in [Cell -> Nat] /\ M'[back] = c /\ M'[base(w) + 1] = back + 2 /\ M'[PO(w)] = po + 1
      /\ \A x \in Cell \ {back, back + 1, base(w) + 1, PO(w)} : M'[x] = M[x]
  <2>1. M' = [M EXCEPT ![back] = c, ![back + 1] = count, ![base(w) + 1] = back + 2, ![PO(w)] = @ + 1]
    BY <1>0, <1>6 DEF PlaceOrder
  <2> QED BY <1>1, <1>5, <1>6, <2>1
<1>8. /\ M'[2] = M[2] /\ M'[3] = M[3] /\ M'[kitchen] = M[kitchen]
      /\ M'[kitchen + 1] = M[kitchen + 1]
  <2>1. {2, 3, kitchen, kitchen + 1} \subseteq Cell \ {back, back + 1, base(w) + 1, PO(w)}
    BY <1>5, Indices
  <2> QED BY <1>7, <2>1
<1>9. Typed'
    BY <1>1, <1>7, <1>8 DEF IInv, Typed
<1>10. Kitchen' /\ KitchenTokens'
    BY <1>1, <1>2, <1>8, KitchenStays DEF IInv
<1>11. ASSUME NEW v \in Waiter, v # w
       PROVE  \E m \in Nat : Queue(v, m)'
  <2>1. PICK m \in Nat : Queue(v, m)
    BY DEF IInv, Queues
  <2>2. ASSUME NEW y \in base(v) .. base(v) + Stride - 2
        PROVE  M'[y] = M[y]
    <3>1. base(v) + Stride <= base(w) \/ base(w) + Stride <= base(v)
        BY <1>1, <1>11, Layout
    <3>2. y \notin {back, back + 1, base(w) + 1, PO(w)} /\ y \in base(v) .. base(v) + Stride - 1
        BY <1>5, <3>1, Layout
    <3> QED BY <1>7, <3>2, Indices
  <2>3. \A d \in PlacedAt(v) : d \in PlacedAt(v)' /\ (d \in passed' => d \in passed)
    BY <1>0, <1>1, <1>2, <1>11 DEF PlacedAt
  <2>4. HasOrder(v)' => HasOrder(v) /\ taken'[v] = taken[v]
    BY <1>1 DEF HasOrder
  <2> QED BY <2>1, <2>2, <2>3, <2>4, QueueStays DEF IInv
<1>12. Queue(w, k + 1)'
  <2>1. /\ \A j \in 0 .. k - 1 : queued(w, j)' = queued(w, j)
        /\ queued(w, k)' = c
    <3>1. ASSUME NEW j \in 0 .. k - 1
          PROVE  base(w) + 2 + 2 * j \in Cell \ {back, back + 1, base(w) + 1, PO(w)}
        <4>1. base(w) + 2 + 2 * j \in base(w) .. base(w) + Stride - 1
            BY <1>5
        <4> QED BY <1>5, <4>1, Indices
    <3> QED BY <1>7, <3>1 DEF queued, base
  <2>2. /\ base(w)' = base(w) /\ PO(w)' = PO(w) /\ M'[base(w)] = M[base(w)]
        /\ M[base(w)] = base(w) + 2 + 2 * (k - po)
    BY <1>4, <1>5, <1>6, <1>7 DEF base, PO, Queue
  <2>3. \A j \in 0 .. k - 1 : queued(w, j) \in PlacedAt(w) /\ queued(w, j) # c
    BY <1>3, <1>4 DEF Queue
  <2>4. \A j \in 0 .. k : queued(w, j)' \in PlacedAt(w)'
    BY <1>3, <2>1, <2>3
  <2>5. \A i, j \in 0 .. k : queued(w, i)' = queued(w, j)' => i = j
    <3>1. \A i, j \in 0 .. k - 1 : queued(w, i) = queued(w, j) => i = j
        BY <1>4 DEF Queue
    <3>2. \A j \in 0 .. k : j = k \/ j \in 0 .. k - 1
        OBVIOUS
    <3> QED BY <2>1, <2>3, <3>1, <3>2
  <2>6. \A j \in k - po .. k : queued(w, j)' \notin passed'
    <3>1. \A j \in k - po .. k - 1 : queued(w, j) \notin passed
        BY <1>4, <1>6 DEF Queue
    <3>2. \A j \in k - po .. k : j = k \/ (j \in 0 .. k - 1 /\ j \in k - po .. k - 1)
        BY <1>6
    <3> QED BY <1>1, <1>3, <2>1, <3>1, <3>2
  <2>7. HasOrder(w)' =>
          /\ po + 1 < k + 1
          /\ taken'[w].cust = queued(w, k - po - 1)' /\ taken'[w].cust \notin passed'
    <3>1. HasOrder(w)' => HasOrder(w)
        BY <1>1 DEF HasOrder
    <3>2. HasOrder(w) => /\ po < k /\ taken[w].cust = queued(w, k - po - 1)
                         /\ taken[w].cust \notin passed
        BY <1>4, <1>6 DEF Queue
    <3>3. po < k => k - po - 1 \in 0 .. k - 1
        BY <1>6
    <3> QED BY <1>1, <2>1, <3>1, <3>2, <3>3
  <2>8. k + 1 <= Cardinality(PlacedAt(w)')
    BY <1>3, <1>4 DEF Queue
  <2>9. /\ k + 1 - (po + 1) = k - po /\ k + 1 - 1 = k /\ po + 1 <= k + 1
        /\ back + 2 = base(w) + 2 + 2 * (k + 1)
    BY <1>5, <1>6
  <2> QED BY <1>7, <2>2, <2>4, <2>5, <2>6, <2>7, <2>8, <2>9 DEF Queue
<1>13. Queues'
  <2>1. k + 1 \in Nat
    OBVIOUS
  <2> QED BY <1>11, <1>12, <2>1 DEF Queues
<1>14. /\ M'[1] = M[1] /\ CountsStay({w}) /\ M'[PO(w)] = M[PO(w)] + 1
       /\ M'[FR(w)] = M[FR(w)]
  <2>1. \A v \in Waiter : back \notin {PO(v), FR(v)} /\ back + 1 \notin {PO(v), FR(v)}
    BY <1>5, Layout, Sizes
  <2>2. 1 \in Cell \ {back, back + 1, base(w) + 1, PO(w)}
    BY <1>5, Indices
  <2> QED BY <1>6, <1>7, <2>1, <2>2, CountCells DEF CountsStay
<1> QED BY <1>0, <1>9, <1>10, <1>13, <1>14 DEF IInv

LEMMA EatKeeps ==
    ASSUME IInv, NEW c \in Customer, CallWaiter(c) \/ GetFood(c) \/ Eat(c) \/ FreeTable(c)
    PROVE  IInv' /\ CountsStay({})
<1>1. /\ UNCHANGED <<sem_cook, cpc, order, wpc, taken, passed, waiter_id>>
      /\ <<"customer", c>> \in Processes
      /\ upc' \in [Customer -> {"coming", "seated", "placed", "hungry", "served", "eating",
                               "finished", "gone"}]
      /\ sem_waiter' \in [Waiter -> Nat]
      /\ \A d \in Customer : Placed(d) => Placed(d)'
  <2>1. /\ UNCHANGED <<sem_cook, cpc, order, wpc, taken, passed, waiter_id>>
        /\ <<"customer", c>> \in Processes
    BY DEF CallWaiter, GetFood, Eat, FreeTable, semaphores, cooks, waiters, Processes
  <2>2. sem_waiter' \in [Waiter -> Nat]
    <3>1. sem_waiter' = sem_waiter \/ sem_waiter' = [sem_waiter EXCEPT ![waiter_id[c]] = @ + 1]
        BY DEF CallWaiter, GetFood, Eat, FreeTable, Up, semaphores
    <3> QED BY <3>1 DEF IInv, Typed
  <2>3. /\ upc \in [Customer -> {"coming", "seated", "placed", "hungry", "served", "eating",
                                "finished", "gone"}]
        /\ upc[c] \notin {"coming", "seated"}
        /\ \E to \in {"hungry", "served", "eating", "finished", "gone"} :
              upc' = [upc EXCEPT ![c] = to]
    BY DEF CallWaiter, GetFood, Eat, FreeTable, CustomerGoes, IInv, Typed
  <2> QED BY <2>1, <2>2, <2>3 DEF Placed
<1>2. CASE UNCHANGED M /\ (UNCHANGED curr_time \/ ReadClock(<<"customer", c>>))
  <2>1. M[0] \in Nat /\ M \in [Cell -> Nat]
    BY Indices DEF IInv, Typed
  <2>2. Typed'
    BY <1>1, <1>2, <2>1 DEF ReadClock, IInv, Typed
  <2>3. Queues' /\ Kitchen' /\ KitchenTokens'
    BY <1>1, <1>2, SameM DEF HasOrder
  <2> QED BY <1>2, <2>2, <2>3 DEF IInv, CountsStay
<1>3. CASE update_time(<<"customer", c>>, 30) /\ UNCHANGED curr_time
  <2>1. /\ M' \in [Cell -> Nat] /\ \A x \in Cell \ {0} : M'[x] = M[x]
        /\ Queues' /\ Kitchen' /\ KitchenTokens'
    BY <1>1, <1>3, ClockKeeps DEF HasOrder
  <2>2. Typed'
    BY <1>1, <1>3, <2>1, Indices DEF IInv, Typed
  <2>3. CountsStay({})
    BY <2>1, CountCells DEF CountsStay
  <2> QED BY <2>1, <2>2, <2>3 DEF IInv
<1>4. CASE M' = [M EXCEPT ![1] = @ + 1] /\ UNCHANGED curr_time
  <2>1. M' \in [Cell -> Nat] /\ \A x \in Cell \ {1} : M'[x] = M[x]
    BY <1>4, Indices DEF IInv, Typed
  <2>2. Typed'
    BY <1>1, <1>4, <2>1, Indices DEF IInv, Typed
  <2>3. ASSUME NEW w \in Waiter, NEW x \in base(w) .. base(w) + Stride - 2
        PROVE  M'[x] = M[x]
    <3>1. x \in base(w) .. base(w) + Stride - 1
        BY Layout, Sizes
    <3> QED BY <2>1, <3>1, Indices
  <2>4. Queues'
    BY <1>1, <2>3, QueuesStay DEF IInv, HasOrder
  <2>5. M'[3] = M[3] /\ M'[kitchen] = M[kitchen] /\ M'[kitchen + 1] = M[kitchen + 1]
    BY <2>1, Indices
  <2>6. Kitchen' /\ KitchenTokens'
    BY <1>1, <2>5, KitchenStays DEF IInv
  <2>7. CountsStay({})
    BY <2>1, CountCells DEF CountsStay
  <2> QED BY <2>2, <2>4, <2>6, <2>7 DEF IInv
<1> QED BY <1>2, <1>3, <1>4 DEF CallWaiter, GetFood, Eat, FreeTable

-----------------------------------------------------------------------------
LEMMA InitIInv ==
    Init => IInv /\ M[1] = Tables /\ \A w \in Waiter : M[PO(w)] = 0 /\ M[FR(w)] = 0
<1> SUFFICES ASSUME Init
             PROVE  /\ IInv /\ M[1] = Tables
                    /\ \A w \in Waiter : M[PO(w)] = 0 /\ M[FR(w)] = 0
    OBVIOUS
<1>1. /\ M = [i \in Cell |-> InitialCell(i)] /\ sem_cook = 0 /\ passed = {}
      /\ wpc = [w \in Waiter |-> "wait"] /\ upc = [c \in Customer |-> "coming"]
    BY DEF Init, Cell
<1>2. /\ M[1] = Tables /\ M[2] = 0 /\ M[3] = 0 /\ M[kitchen + 1] = kitchen
  <2>1. \A w \in Waiter : base(w) > 3 /\ base(w) + 1 > 3 /\ base(w) \in Nat
    BY Layout, Sizes
  <2>2. \A w \in Waiter : kitchen + 1 # base(w) /\ kitchen + 1 # base(w) + 1 /\ kitchen \in Nat
    BY Layout, Sizes
  <2> QED BY <1>1, <2>1, <2>2, Indices DEF InitialCell
<1>3. ASSUME NEW w \in Waiter
      PROVE  /\ M[PO(w)] = 0 /\ M[FR(w)] = 0
             /\ M[base(w)] = base(w) + 2 /\ M[base(w) + 1] = base(w) + 2
  <2>1. /\ base(w) \in Nat /\ base(w) > 3 /\ base(w) \in Cell /\ base(w) + 1 \in Cell
        /\ base(w) + 1 < kitchen /\ kitchen \in Nat
        /\ PO(w) \in Nat /\ FR(w) \in Nat
    BY Layout, Sizes, Indices DEF Cell
  <2>2. \A v \in Waiter : base(w) + 1 # base(v) /\ base(w) # base(v) + 1
    BY Layout, Sizes
  <2>3. M[base(w)] = base(w) + 2
    BY <1>1, <2>1, <2>2 DEF InitialCell
  <2>4. M[base(w) + 1] = base(w) + 1 + 1
    BY <1>1, <2>1, <2>2 DEF InitialCell
  <2>5. InitialCell(PO(w)) = 0 /\ InitialCell(FR(w)) = 0
    BY <2>1, CountCells DEF InitialCell
  <2> QED BY <1>1, <2>1, <2>3, <2>4, <2>5, CountCells
<1>4. Typed
  <2>1. \A i \in Cell : InitialCell(i) \in Nat
    <3>1. Tables \in Nat /\ kitchen \in Nat
        BY Sizes, Layout
    <3> QED BY <3>1 DEF InitialCell, Cell
  <2>2. 0 \in Waiter
    BY Sizes DEF Waiter
  <2> QED BY <1>1, <1>2, <2>1, <2>2 DEF Init, Typed
<1>5. Queues
  <2>1. ASSUME NEW w \in Waiter PROVE Queue(w, 0)
    BY <1>1, <1>3, PlacedFinite, Layout DEF Queue, HasOrder
  <2> QED BY <2>1 DEF Queues
<1>6. Kitchen
    BY <1>1, <1>2, Layout, FS_EmptySet DEF Kitchen
<1>7. KitchenTokens
  <2>1. {w \in Waiter : wpc[w] = "notify"} = {}
    BY <1>1
  <2> QED BY <1>1, <1>2, <2>1, FS_EmptySet DEF KitchenTokens
<1> QED BY <1>2, <1>3, <1>4, <1>5, <1>6, <1>7 DEF IInv

LEMMA NextIInv == IInv /\ [Next]_vars => IInv'
<1> SUFFICES ASSUME IInv, [Next]_vars PROVE IInv'
    OBVIOUS
<1>1. CASE UNCHANGED vars
  <2>1. /\ UNCHANGED <<M, jammed, sem_cook, sem_waiter, sem_customer, cpc, order, wpc, taken>>
        /\ UNCHANGED <<passed, upc, waiter_id, curr_time>>
    BY <1>1 DEF vars, semaphores, cooks, waiters, customers
  <2>2. Typed'
    BY <2>1 DEF IInv, Typed
  <2>3. Queues' /\ Kitchen' /\ KitchenTokens'
    BY <2>1, SameM DEF Placed, HasOrder
  <2> QED BY <2>2, <2>3 DEF IInv
<1>2. ASSUME NEW i \in Cook, CookRuns(i) PROVE IInv'
    BY <1>2, CookTakesKeeps, CookPreparesKeeps, FoodReadyKeeps, NotifyWaiterKeeps DEF CookRuns
<1>3. ASSUME NEW w \in Waiter, WaiterRuns(w) PROVE IInv'
    BY <1>3, WakesKeeps, WaiterMovesKeeps, QueueOrderKeeps, NotifyCookKeeps DEF WaiterRuns
<1>4. ASSUME NEW c \in Customer, CustomerRuns(c) PROVE IInv'
    BY <1>4, ArriveKeeps, PlaceKeeps, EatKeeps DEF CustomerRuns
<1> QED BY <1>1, <1>2, <1>3, <1>4 DEF Next

LEMMA AlwaysIInv == FairSpec => []IInv
<1>1. FairSpec => Init /\ [][Next]_vars
    BY PTL DEF FairSpec
<1> QED BY <1>1, InitIInv, NextIInv, PTL

(* A cook that has a token finds an order in the queue: the tokens, with     *)
(* those about to come, are the length of the queue (waiter.c:77-83,         *)
(* cook.c:65-78), whatever the orders read from it are.                      *)
THEOREM TokensCorrect == FairSpec => []KitchenTokens
<1>1. IInv => KitchenTokens
    BY DEF IInv
<1> QED BY <1>1, AlwaysIInv, PTL

-----------------------------------------------------------------------------
(* The tables *)

Seated == {c \in Customer : upc[c] \notin {"coming", "gone"}}

LEMMA SeatedFinite == IsFiniteSet(Seated) /\ Cardinality(Seated) \in Nat
<1>1. Seated \subseteq Customer
    BY DEF Seated
<1> QED BY <1>1, Sizes, FS_Subset, FS_CardinalityType

LEMMA TablesStay ==
    ASSUME TablesKept, M'[1] = M[1], Seated' = Seated
    PROVE  TablesKept'
BY DEF TablesKept, Seated

LEMMA TablesNext == IInv /\ TablesKept /\ [Next]_vars => TablesKept'
<1> SUFFICES ASSUME IInv, TablesKept, [Next]_vars PROVE TablesKept'
    OBVIOUS
<1>1. CASE UNCHANGED vars
    BY <1>1, TablesStay DEF vars, customers, Seated
<1>2. ASSUME NEW i \in Cook, CookRuns(i) PROVE TablesKept'
  <2>1. M'[1] = M[1]
    BY <1>2, CookTakesKeeps, CookPreparesKeeps, FoodReadyKeeps DEF CookRuns, NotifyWaiter
  <2>2. upc' = upc
    BY <1>2 DEF CookRuns, CookTakes, CookPrepares, SetFoodReady, NotifyWaiter, customers
  <2> QED BY <2>1, <2>2, TablesStay DEF Seated
<1>3. ASSUME NEW w \in Waiter, WaiterRuns(w) PROVE TablesKept'
  <2>1. M'[1] = M[1]
    BY <1>3, WakesKeeps, WaiterMovesKeeps, QueueOrderKeeps DEF WaiterRuns, NotifyCook
  <2>2. upc' = upc
    BY <1>3 DEF WaiterRuns, WaiterWakes, ServeFood, TakeOrder, QueueOrder, NotifyCook, customers
  <2> QED BY <2>1, <2>2, TablesStay DEF Seated
<1>4. ASSUME NEW c \in Customer, CustomerRuns(c) PROVE TablesKept'
  <2>1. /\ M \in [Cell -> Nat] /\ M[1] \in Nat /\ 1 \in Cell /\ Tables \in Nat
        /\ upc \in [Customer -> {"coming", "seated", "placed", "hungry", "served", "eating",
                                "finished", "gone"}]
        /\ M[1] + Cardinality(Seated) = Tables
    BY Indices, Sizes DEF IInv, Typed, TablesKept, Seated
  <2>2. CASE Arrive(c) /\ ~TurnedAway(c)
    <3>1. Seated' = Seated \cup {c} /\ c \notin Seated
        BY <2>1, <2>2 DEF Arrive, CustomerGoes, Seated
    <3>2. Cardinality(Seated') = Cardinality(Seated) + 1
        BY <3>1, SeatedFinite, FS_AddElement
    <3>3. M'[1] = M[1] - 1
        BY <2>1, <2>2 DEF Arrive
    <3>4. M'[1] + Cardinality(Seated') = Tables
        BY <2>1, <3>2, <3>3, SeatedFinite
    <3> QED BY <3>4 DEF TablesKept, Seated
  <2>3. CASE FreeTable(c)
    <3>1. Seated' = Seated \ {c} /\ c \in Seated
        BY <2>1, <2>3 DEF FreeTable, CustomerGoes, Seated
    <3>2. Cardinality(Seated') = Cardinality(Seated) - 1
        BY <3>1, SeatedFinite, FS_RemoveElement
    <3>3. M'[1] = M[1] + 1
        BY <2>1, <2>3 DEF FreeTable
    <3>4. M'[1] + Cardinality(Seated') = Tables
        BY <2>1, <3>2, <3>3, SeatedFinite
    <3> QED BY <3>4 DEF TablesKept, Seated
  <2>4. CASE Arrive(c) /\ TurnedAway(c)
    BY <2>1, <2>4, TablesStay DEF Arrive, CustomerGoes, Seated
  <2>5. CASE PlaceOrder(c)
    <3>1. M'[1] = M[1]
        BY <2>5, PlaceKeeps
    <3> QED BY <2>1, <2>5, <3>1, TablesStay DEF PlaceOrder, CustomerGoes, Seated
  <2>6. CASE CallWaiter(c) \/ GetFood(c) \/ Eat(c)
    <3>1. M'[1] = M[1]
        <4>1. M' = M \/ \E v : M' = [M EXCEPT ![0] = v]
            BY <2>6 DEF CallWaiter, GetFood, Eat, update_time
        <4> QED BY <2>1, <4>1
    <3>2. Seated' = Seated
        BY <2>1, <2>6 DEF CallWaiter, GetFood, Eat, CustomerGoes, Seated
    <3> QED BY <3>1, <3>2, TablesStay
  <2> QED BY <1>4, <2>2, <2>3, <2>4, <2>5, <2>6 DEF CustomerRuns
<1> QED BY <1>1, <1>2, <1>3, <1>4 DEF Next

(* No table is lost or made up, though cooks store into M at places they     *)
(* have misread (customer.c:50-59, 86; cook.c:92).                           *)
THEOREM TablesCorrect == FairSpec => []TablesKept
<1>1. FairSpec => Init /\ [][Next]_vars
    BY PTL DEF FairSpec
<1>2. Init => TablesKept
  <2> SUFFICES ASSUME Init PROVE TablesKept
    OBVIOUS
  <2>1. Seated = {}
    BY DEF Init, Seated
  <2>2. M[1] = Tables /\ Tables \in Nat
    BY InitIInv, Sizes
  <2>3. M[1] + Cardinality(Seated) = Tables
    BY <2>1, <2>2, FS_EmptySet
  <2> QED BY <2>3 DEF TablesKept, Seated
<1> QED BY <1>1, <1>2, AlwaysIInv, TablesNext, PTL
-----------------------------------------------------------------------------
(* The work of the waiters *)

Calling(w)  == {c \in Customer : upc[c] = "placed" /\ waiter_id[c] = w}
Bringing(w) == {i \in Cook : cpc[i] = "notify" /\ order[i].waiter = w}
Tokens(w)   == sem_waiter[w] + Cardinality(Calling(w)) + Cardinality(Bringing(w))
Work(w)     == M[PO(w)] + (IF M[FR(w)] # 0 THEN 1 ELSE 0)

LEMMA WorkIs ==
    /\ NoWorkAsleep <=> \A w \in Waiter : wpc[w] # "gone" => Tokens(w) >= Work(w)
    /\ NoWorkAsleep' <=> \A w \in Waiter : wpc'[w] # "gone" => Tokens(w)' >= Work(w)'
BY DEF NoWorkAsleep, Calling, Bringing, Tokens, Work

LEMMA CallingFinite ==
    ASSUME NEW w \in Waiter
    PROVE  /\ IsFiniteSet(Calling(w)) /\ Cardinality(Calling(w)) \in Nat
           /\ IsFiniteSet(Bringing(w)) /\ Cardinality(Bringing(w)) \in Nat
<1>1. Calling(w) \subseteq Customer /\ Bringing(w) \subseteq Cook
    BY DEF Calling, Bringing
<1>2. IsFiniteSet(Cook)
    BY Sizes, FS_Interval DEF Cook
<1> QED BY <1>1, <1>2, Sizes, FS_Subset, FS_CardinalityType

LEMMA CountsTyped ==
    ASSUME IInv, NEW w \in Waiter
    PROVE  M[PO(w)] \in Nat /\ M[FR(w)] \in Nat /\ sem_waiter[w] \in Nat
BY CountCells DEF IInv, Typed

(* A step that leaves w's tokens, orders and food alone. *)
LEMMA TokensStay ==
    ASSUME NEW w \in Waiter, wpc[w] # "gone" => Tokens(w) >= Work(w),
           M'[PO(w)] = M[PO(w)], M'[FR(w)] = M[FR(w)], sem_waiter'[w] = sem_waiter[w],
           Calling(w)' = Calling(w), Bringing(w)' = Bringing(w),
           wpc[w] = "gone" => wpc'[w] = "gone"
    PROVE  wpc'[w] # "gone" => Tokens(w)' >= Work(w)'
<1>1. PO(w)' = PO(w) /\ FR(w)' = FR(w)
    BY DEF PO, FR, base
<1> QED BY <1>1 DEF Tokens, Work

(* The token of the food's waiter is on its way before the food is noticed. *)
LEMMA FoodHasToken ==
    ASSUME IInv, NoWorkAsleep, NEW i \in Cook, SetFoodReady(i)
    PROVE  NoWorkAsleep'
<1>1. /\ UNCHANGED <<sem_waiter, order, wpc, upc, waiter_id>> /\ cpc[i] = "prepared"
      /\ cpc \in [Cook -> {"wait", "preparing", "cooking", "prepared", "notify", "dead", "gone"}]
    BY DEF SetFoodReady, CookGoes, semaphores, waiters, customers, IInv, Typed
<1>2. ASSUME NEW w \in Waiter, wpc'[w] # "gone" PROVE Tokens(w)' >= Work(w)'
  <2>1. Calling(w)' = Calling(w) /\ wpc[w] # "gone" /\ Tokens(w) >= Work(w)
    BY <1>1, <1>2, WorkIs DEF Calling
  <2>2. CASE order[i].waiter # w
    <3>1. Bringing(w)' = Bringing(w)
        BY <1>1, <2>2 DEF Bringing, SetFoodReady, CookGoes
    <3>2. M'[PO(w)] = M[PO(w)] /\ M'[FR(w)] = M[FR(w)]
        BY <2>2, FoodReadyKeeps DEF CountsStay
    <3> QED BY <1>1, <1>2, <2>1, <3>1, <3>2, TokensStay
  <2>3. CASE order[i].waiter = w
    <3>1. FR(w) \in DOMAIN M
        BY CountCells DEF IInv, Typed
    <3>2. cpc' = [cpc EXCEPT ![i] = "notify"]
        BY <2>3, <3>1 DEF SetFoodReady, CookGoes
    <3>3. Bringing(w)' = Bringing(w) \cup {i} /\ i \notin Bringing(w)
        BY <1>1, <2>3, <3>2 DEF Bringing
    <3>4. Cardinality(Bringing(w)') = Cardinality(Bringing(w)) + 1
        BY <3>3, CallingFinite, FS_AddElement
    <3>5. M'[PO(w)] = M[PO(w)] /\ PO(w)' = PO(w) /\ FR(w)' = FR(w)
        BY FoodReadyKeeps DEF PO, FR, base
    <3>6. Tokens(w)' = Tokens(w) + 1
        BY <1>1, <2>1, <3>4, CountsTyped, CallingFinite DEF Tokens
    <3>7. Work(w)' <= Work(w) + 1
        BY <3>5, CountsTyped DEF Work
    <3>8. Tokens(w) \in Nat /\ Work(w) \in Nat /\ Work(w)' \in Nat
        BY <3>5, CountsTyped, CallingFinite DEF Tokens, Work
    <3> QED BY <2>1, <3>6, <3>7, <3>8
  <2> QED BY <2>2, <2>3
<1> QED BY <1>2, WorkIs
LEMMA WaiterIsNotified ==
    ASSUME IInv, NoWorkAsleep, NEW i \in Cook, NotifyWaiter(i)
    PROVE  NoWorkAsleep'
<1>1. /\ UNCHANGED <<M, order, wpc, upc, waiter_id>>
      /\ cpc[i] = "notify" /\ cpc' = [cpc EXCEPT ![i] = "wait"]
      /\ cpc \in [Cook -> {"wait", "preparing", "cooking", "prepared", "notify", "dead", "gone"}]
      /\ sem_waiter \in [Waiter -> Nat]
    BY DEF NotifyWaiter, CookGoes, waiters, customers, IInv, Typed
<1>2. ASSUME NEW w \in Waiter, wpc'[w] # "gone" PROVE Tokens(w)' >= Work(w)'
  <2>1. Calling(w)' = Calling(w) /\ wpc[w] # "gone" /\ Tokens(w) >= Work(w)
    BY <1>1, <1>2, WorkIs DEF Calling
  <2>2. CASE order[i].waiter # w
    <3>1. Bringing(w)' = Bringing(w)
        BY <1>1, <2>2 DEF Bringing
    <3>2. sem_waiter'[w] = sem_waiter[w]
        BY <1>1, <2>2 DEF NotifyWaiter, Up
    <3> QED BY <1>1, <1>2, <2>1, <3>1, <3>2, TokensStay
  <2>3. CASE order[i].waiter = w
    <3>1. sem_waiter'[w] = sem_waiter[w] + 1
        BY <1>1, <2>3 DEF NotifyWaiter, Up
    <3>2. Bringing(w)' = Bringing(w) \ {i} /\ i \in Bringing(w)
        BY <1>1, <2>3 DEF Bringing
    <3>3. Cardinality(Bringing(w)') = Cardinality(Bringing(w)) - 1
        BY <3>2, CallingFinite, FS_RemoveElement
    <3>4. Tokens(w)' = Tokens(w)
        BY <2>1, <3>1, <3>3, CountsTyped, CallingFinite DEF Tokens
    <3>5. Work(w)' = Work(w)
        BY <1>1 DEF Work, PO, FR, base
    <3> QED BY <2>1, <3>4, <3>5
  <2> QED BY <2>2, <2>3
<1> QED BY <1>2, WorkIs

(* A token is spent on an order or on food; one for nothing only when there *)
(* is neither.                                                              *)
LEMMA TokenIsSpent ==
    ASSUME IInv, NoWorkAsleep, NEW w \in Waiter, WaiterWakes(w)
    PROVE  NoWorkAsleep'
<1>1. /\ UNCHANGED <<cpc, order, upc, waiter_id>>
      /\ sem_waiter[w] > 0 /\ sem_waiter' = [sem_waiter EXCEPT ![w] = @ - 1]
      /\ sem_waiter \in [Waiter -> Nat] /\ M \in [Cell -> Nat]
      /\ wpc \in [Waiter -> {"wait", "serving", "listening", "writing", "ordering", "notify",
                             "gone"}]
      /\ wpc[w] = "wait"
    BY DEF WaiterWakes, Down, WaiterGoes, cooks, customers, IInv, Typed
<1>2. \A v \in Waiter : Calling(v)' = Calling(v) /\ Bringing(v)' = Bringing(v)
    BY <1>1 DEF Calling, Bringing
<1>3. ASSUME NEW v \in Waiter, v # w, wpc'[v] # "gone" PROVE Tokens(v)' >= Work(v)'
  <2>1. M'[PO(v)] = M[PO(v)] /\ M'[FR(v)] = M[FR(v)]
    BY <1>3, WakesKeeps DEF CountsStay
  <2>2. wpc'[v] = wpc[v] /\ sem_waiter'[v] = sem_waiter[v]
    <3>1. \E to : wpc' = [wpc EXCEPT ![w] = to]
        BY DEF WaiterWakes, WaiterGoes
    <3> QED BY <1>1, <1>3, <3>1
  <2> QED BY <1>2, <1>3, <2>1, <2>2, WorkIs, TokensStay
<1>4. ASSUME wpc'[w] # "gone" PROVE Tokens(w)' >= Work(w)'
  <2>1. Tokens(w)' = Tokens(w) - 1 /\ Tokens(w) \in Nat /\ Tokens(w) > 0
    BY <1>1, <1>2, CountsTyped, CallingFinite DEF Tokens
  <2>2. Tokens(w) >= Work(w)
    BY <1>1, WorkIs
  <2>3. PO(w)' = PO(w) /\ FR(w)' = FR(w)
    BY DEF PO, FR, base
  <2>4. PO(w) \in Cell /\ FR(w) \in Cell /\ PO(w) # FR(w) /\ base(w) \notin {PO(w), FR(w)}
    BY CountCells
  <2>5. CASE M[FR(w)] # 0 /\ M' = [M EXCEPT ![FR(w)] = 0]
    <3>1. Work(w)' = Work(w) - 1
        BY <1>1, <2>3, <2>4, <2>5, CountsTyped DEF Work
    <3>2. Work(w) \in Nat
        BY CountsTyped DEF Work
    <3> QED BY <2>1, <2>2, <3>1, <3>2
  <2>6. CASE /\ M[FR(w)] = 0 /\ M[PO(w)] # 0
             /\ M' = [M EXCEPT ![base(w)] = M[base(w)] + 2, ![PO(w)] = @ - 1]
    <3>1. M'[PO(w)] = M[PO(w)] - 1 /\ M'[FR(w)] = M[FR(w)]
        BY <1>1, <2>4, <2>6
    <3>2. Work(w)' = Work(w) - 1
        BY <2>3, <2>6, <3>1, CountsTyped DEF Work
    <3>3. Work(w) \in Nat
        BY CountsTyped DEF Work
    <3> QED BY <2>1, <2>2, <3>2, <3>3
  <2>7. CASE M[FR(w)] = 0 /\ M[PO(w)] = 0 /\ M' = M
    <3>1. Work(w)' = 0
        BY <2>3, <2>7 DEF Work
    <3> QED BY <2>1, <3>1
  <2>8. ~(M[0] >= Closing /\ M[PO(w)] = 0)
    BY <1>1, <1>4 DEF WaiterWakes, WaiterGoes
  <2> QED BY <2>5, <2>6, <2>7, <2>8 DEF WaiterWakes
<1> QED BY <1>3, <1>4, WorkIs
LEMMA OrderHasToken ==
    ASSUME IInv, NoWorkAsleep, NEW c \in Customer, PlaceOrder(c)
    PROVE  NoWorkAsleep'
<1>1. /\ UNCHANGED <<sem_waiter, cpc, order, wpc, waiter_id>>
      /\ upc[c] = "seated" /\ upc' = [upc EXCEPT ![c] = "placed"]
      /\ upc \in [Customer -> {"coming", "seated", "placed", "hungry", "served", "eating",
                               "finished", "gone"}]
    BY DEF PlaceOrder, CustomerGoes, semaphores, cooks, waiters, IInv, Typed
<1>2. ASSUME NEW w \in Waiter, wpc'[w] # "gone" PROVE Tokens(w)' >= Work(w)'
  <2>1. Bringing(w)' = Bringing(w) /\ wpc[w] # "gone" /\ Tokens(w) >= Work(w)
    BY <1>1, <1>2, WorkIs DEF Bringing
  <2>2. CASE waiter_id[c] # w
    <3>1. Calling(w)' = Calling(w)
        BY <1>1, <2>2 DEF Calling
    <3>2. M'[PO(w)] = M[PO(w)] /\ M'[FR(w)] = M[FR(w)]
        BY <2>2, PlaceKeeps DEF CountsStay
    <3> QED BY <1>1, <1>2, <2>1, <3>1, <3>2, TokensStay
  <2>3. CASE waiter_id[c] = w
    <3>1. Calling(w)' = Calling(w) \cup {c} /\ c \notin Calling(w)
        BY <1>1, <2>3 DEF Calling
    <3>2. Cardinality(Calling(w)') = Cardinality(Calling(w)) + 1
        BY <3>1, CallingFinite, FS_AddElement
    <3>3. Tokens(w)' = Tokens(w) + 1
        BY <1>1, <2>1, <3>2, CountsTyped, CallingFinite DEF Tokens
    <3>4. M'[PO(w)] = M[PO(w)] + 1 /\ M'[FR(w)] = M[FR(w)]
        BY <2>3, PlaceKeeps
    <3>5. PO(w)' = PO(w) /\ FR(w)' = FR(w)
        BY DEF PO, FR, base
    <3>6. Work(w)' = Work(w) + 1
        BY <3>4, <3>5, CountsTyped DEF Work
    <3>7. Tokens(w) \in Nat /\ Work(w) \in Nat
        BY CountsTyped, CallingFinite DEF Tokens, Work
    <3> QED BY <2>1, <3>3, <3>6, <3>7
  <2> QED BY <2>2, <2>3
<1> QED BY <1>2, WorkIs

LEMMA WaiterIsCalled ==
    ASSUME IInv, NoWorkAsleep, NEW c \in Customer, CallWaiter(c)
    PROVE  NoWorkAsleep'
<1>1. /\ UNCHANGED <<M, cpc, order, wpc, waiter_id>>
      /\ upc[c] = "placed" /\ upc' = [upc EXCEPT ![c] = "hungry"]
      /\ sem_waiter' = [sem_waiter EXCEPT ![waiter_id[c]] = @ + 1]
      /\ sem_waiter \in [Waiter -> Nat]
      /\ upc \in [Customer -> {"coming", "seated", "placed", "hungry", "served", "eating",
                               "finished", "gone"}]
    BY DEF CallWaiter, CustomerGoes, Up, cooks, waiters, IInv, Typed
<1>2. ASSUME NEW w \in Waiter, wpc'[w] # "gone" PROVE Tokens(w)' >= Work(w)'
  <2>1. Bringing(w)' = Bringing(w) /\ wpc[w] # "gone" /\ Tokens(w) >= Work(w)
    BY <1>1, <1>2, WorkIs DEF Bringing
  <2>2. CASE waiter_id[c] # w
    <3>1. Calling(w)' = Calling(w) /\ sem_waiter'[w] = sem_waiter[w]
        BY <1>1, <2>2 DEF Calling
    <3> QED BY <1>1, <1>2, <2>1, <3>1, TokensStay
  <2>3. CASE waiter_id[c] = w
    <3>1. sem_waiter'[w] = sem_waiter[w] + 1
        BY <1>1, <2>3
    <3>2. Calling(w)' = Calling(w) \ {c} /\ c \in Calling(w)
        BY <1>1, <2>3 DEF Calling
    <3>3. Cardinality(Calling(w)') = Cardinality(Calling(w)) - 1
        BY <3>2, CallingFinite, FS_RemoveElement
    <3>4. Tokens(w)' = Tokens(w)
        BY <2>1, <3>1, <3>3, CountsTyped, CallingFinite DEF Tokens
    <3>5. Work(w)' = Work(w)
        BY <1>1 DEF Work, PO, FR, base
    <3> QED BY <2>1, <3>4, <3>5
  <2> QED BY <2>2, <2>3
<1> QED BY <1>2, WorkIs

(* The other steps leave tokens, orders and food alone. *)
LEMMA WorkStays ==
    ASSUME NoWorkAsleep, CountsStay({}), sem_waiter' = sem_waiter,
           \A w \in Waiter : Calling(w)' = Calling(w) /\ Bringing(w)' = Bringing(w),
           \A w \in Waiter : wpc[w] = "gone" => wpc'[w] = "gone"
    PROVE  NoWorkAsleep'
<1>1. ASSUME NEW w \in Waiter PROVE wpc'[w] # "gone" => Tokens(w)' >= Work(w)'
  <2>1. M'[PO(w)] = M[PO(w)] /\ M'[FR(w)] = M[FR(w)]
    BY DEF CountsStay
  <2> QED BY <2>1, WorkIs, TokensStay
<1> QED BY <1>1, WorkIs

LEMMA WorkNext == IInv /\ NoWorkAsleep /\ [Next]_vars => NoWorkAsleep'
<1> SUFFICES ASSUME IInv, NoWorkAsleep, [Next]_vars PROVE NoWorkAsleep'
    OBVIOUS
<1>1. CASE UNCHANGED vars
  <2>1. UNCHANGED <<M, sem_waiter, cpc, order, wpc, upc, waiter_id>>
    BY <1>1 DEF vars, semaphores, cooks, waiters, customers
  <2> QED BY <2>1, WorkStays DEF CountsStay, Calling, Bringing
<1>2. ASSUME NEW i \in Cook, CookRuns(i) PROVE NoWorkAsleep'
  <2>1. CASE CookTakes(i) \/ CookPrepares(i)
    <3>1. UNCHANGED <<sem_waiter, order>> \/ CookTakes(i)
        BY <2>1 DEF CookPrepares, semaphores
    <3>2. /\ UNCHANGED <<wpc, upc, waiter_id>> /\ cpc[i] \notin {"notify"}
          /\ \E to \in {"preparing", "cooking", "prepared", "gone"} : cpc' = [cpc EXCEPT ![i] = to]
        BY <2>1 DEF CookTakes, CookPrepares, CookGoes, waiters, customers
    <3>3. cpc \in [Cook -> {"wait", "preparing", "cooking", "prepared", "notify", "dead", "gone"}]
        BY DEF IInv, Typed
    <3>4. sem_waiter' = sem_waiter /\ \A k \in Cook : k # i => order'[k] = order[k]
      <4>1. CASE CookPrepares(i)
        BY <4>1 DEF CookPrepares, semaphores
      <4>2. CASE CookTakes(i)
        <5>1. M[3] > 0 /\ 3 \in Cell /\ M[3] \in Nat
            BY <4>2, CookFinds, Indices DEF CookTakes, IInv, Typed
        <5>2. ~NoMoreOrders
            BY <5>1 DEF NoMoreOrders
        <5>3. /\ sem_waiter' = sem_waiter
              /\ \E o : order' = [order EXCEPT ![i] = o]
            BY <4>2, <5>2 DEF CookTakes
        <5>4. order \in [Cook -> [waiter : Nat, cust : Nat, count : Nat]]
            BY DEF IInv, Typed
        <5> QED BY <5>3, <5>4
      <4> QED BY <2>1, <4>1, <4>2
    <3>5. \A w \in Waiter : Bringing(w)' = Bringing(w)
        BY <3>2, <3>3, <3>4 DEF Bringing
    <3>6. CountsStay({})
        BY <2>1, CookTakesKeeps, CookPreparesKeeps
    <3> QED BY <3>2, <3>4, <3>5, <3>6, WorkStays DEF Calling
  <2> QED BY <1>2, <2>1, FoodHasToken, WaiterIsNotified DEF CookRuns
<1>3. ASSUME NEW w \in Waiter, WaiterRuns(w) PROVE NoWorkAsleep'
  <2>1. CASE ~WaiterWakes(w)
    <3>1. UNCHANGED <<sem_waiter, cpc, order, upc, waiter_id>>
        BY <1>3, <2>1 DEF WaiterRuns, ServeFood, TakeOrder, QueueOrder, NotifyCook,
                          semaphores, cooks, customers
    <3>2. wpc[w] # "gone" /\ \E to : wpc' = [wpc EXCEPT ![w] = to]
        BY <1>3, <2>1 DEF WaiterRuns, ServeFood, TakeOrder, QueueOrder, NotifyCook, WaiterGoes
    <3>3. \A v \in Waiter : wpc[v] = "gone" => wpc'[v] = "gone"
        BY <3>2 DEF IInv, Typed
    <3>4. CountsStay({})
      <4>1. CASE NotifyCook(w)
        BY <4>1 DEF NotifyCook, CountsStay
      <4> QED BY <1>3, <2>1, <4>1, WaiterMovesKeeps, QueueOrderKeeps DEF WaiterRuns
    <3> QED BY <3>1, <3>3, <3>4, WorkStays DEF Calling, Bringing
  <2> QED BY <2>1, TokenIsSpent
<1>4. ASSUME NEW c \in Customer, CustomerRuns(c) PROVE NoWorkAsleep'
  <2>1. CASE Arrive(c) \/ GetFood(c) \/ Eat(c) \/ FreeTable(c)
    <3>1. UNCHANGED <<sem_waiter, cpc, order, wpc>>
        BY <2>1 DEF Arrive, GetFood, Eat, FreeTable, semaphores, cooks, waiters
    <3>2. /\ upc[c] # "placed"
          /\ \E to \in {"seated", "served", "eating", "finished", "gone"} :
                upc' = [upc EXCEPT ![c] = to]
        BY <2>1 DEF Arrive, GetFood, Eat, FreeTable, CustomerGoes
    <3>3. \A d \in Customer : d # c => waiter_id'[d] = waiter_id[d]
        BY <2>1 DEF Arrive, GetFood, Eat, FreeTable, IInv, Typed
    <3>4. \A w \in Waiter : Calling(w)' = Calling(w)
        BY <3>2, <3>3 DEF Calling, IInv, Typed
    <3>5. CountsStay({})
        BY <2>1, ArriveKeeps, EatKeeps
    <3> QED BY <3>1, <3>4, <3>5, WorkStays DEF Bringing
  <2> QED BY <1>4, <2>1, OrderHasToken, WaiterIsCalled DEF CustomerRuns
<1> QED BY <1>1, <1>2, <1>3, <1>4 DEF Next

(* A waiter never sleeps on an order or on food that is ready: the tokens it *)
(* has and those on their way are as many, whatever each is spent on, and a  *)
(* waiter that the cooks made up takes none of them (waiter.c:48-86).        *)
THEOREM WorkCorrect == FairSpec => []NoWorkAsleep
<1>1. FairSpec => Init /\ [][Next]_vars
    BY PTL DEF FairSpec
<1>2. Init => NoWorkAsleep
  <2> SUFFICES ASSUME Init PROVE NoWorkAsleep
    OBVIOUS
  <2>1. ASSUME NEW w \in Waiter PROVE Tokens(w) >= Work(w)
    <3>1. IInv /\ M[PO(w)] = 0 /\ M[FR(w)] = 0
        BY InitIInv
    <3> QED BY <3>1, CountsTyped, CallingFinite DEF Tokens, Work
  <2> QED BY <2>1, WorkIs
<1> QED BY <1>1, <1>2, AlwaysIInv, WorkNext, PTL
=============================================================================
