---------------------------- MODULE BankerLoopProofs ----------------------------
(***************************************************************************)
(* is_safe_state for any number of threads and resource types and any      *)
(* amounts: its loop leaves the matrices as it found them, and its verdict *)
(* is that some order of ending all threads exists.  The greedy sweep is   *)
(* right because no order gets past a stuck set: threads each of which     *)
(* needs more than would be free once all threads outside it had ended.    *)
(* ResourceManagerProofs instantiates the section on stuck sets.           *)
(***************************************************************************)
EXTENDS BankerLoop, FiniteSetTheorems, WellFoundedInduction, TLAPS

LEMMA LeastNatural ==
    ASSUME NEW T, T \subseteq Nat, T # {}
    PROVE  \E m \in T : \A k \in T : m <= k
<1>1. IsWellFoundedOn(OpToRel(<, Nat), Nat)
    BY NatLessThanWellFounded
<1>2. ASSUME NEW R, IsWellFoundedOn(R, Nat)
      PROVE  \E m \in T : \A k \in T : ~(<<k, m>> \in R)
    BY <1>2, WFMin
<1>3. PICK m \in T : \A k \in T : ~(<<k, m>> \in OpToRel(<, Nat))
    BY <1>1, <1>2, Zenon
<1>4. \A k, j \in Nat : k < j => <<k, j>> \in OpToRel(<, Nat)
    BY DEF OpToRel
<1>5. \A k \in T : ~(k < m)
    BY <1>3, <1>4, Zenon
<1> HIDE <1>1, <1>3, <1>4
<1> QED BY <1>5

(* What holds of 0 and goes on to the next number holds up to n. *)
LEMMA UpTo ==
    ASSUME NEW n \in Nat, NEW Holds, 0 \in Holds,
           \A k \in 1 .. n : k - 1 \in Holds => k \in Holds
    PROVE  \A k \in 0 .. n : k \in Holds
<1> DEFINE T == {k \in 0 .. n : k \notin Holds}
<1> SUFFICES ASSUME T # {} PROVE FALSE
    OBVIOUS
<1>1. PICK m \in T : \A k \in T : m <= k
  <2>1. T \subseteq Nat
    OBVIOUS
  <2> HIDE DEF T
  <2> QED BY <2>1, LeastNatural
<1>2. m \in 1 .. n
    BY <1>1
<1>3. m - 1 \notin T
    BY <1>1, <1>2
<1>4. m - 1 \in Holds
    BY <1>2, <1>3
<1> QED BY <1>1, <1>2, <1>4

(* A step that is a function can be taken n times. *)
Runs(f, n, start, step) ==
    f[0] = start /\ \A k \in 1 .. n : f[k] = step[k][f[k - 1]]

LEMMA Recursion ==
    ASSUME NEW n \in Nat, NEW D, NEW start \in D, NEW step \in [1 .. n -> [D -> D]]
    PROVE  \E f \in [0 .. n -> D] : Runs(f, n, start, step)
<1> DEFINE Is(m, f) == f[0] = start /\ \A k \in 1 .. m : f[k] = step[k][f[k - 1]]
           Holds == {m \in Nat : \E f \in [0 .. n -> D] : Is(m, f)}
<1>1. 0 \in Holds
  <2>1. [k \in 0 .. n |-> start] \in [0 .. n -> D] /\ Is(0, [k \in 0 .. n |-> start])
    OBVIOUS
  <2> QED BY <2>1
<1>2. ASSUME NEW m \in 1 .. n, m - 1 \in Holds PROVE m \in Holds
  <2>1. PICK f \in [0 .. n -> D] : Is(m - 1, f)
    BY <1>2
  <2> DEFINE g == [f EXCEPT ![m] = step[m][f[m - 1]]]
  <2>2. g \in [0 .. n -> D]
    <3>1. f[m - 1] \in D
        OBVIOUS
    <3> QED BY <3>1
  <2>3. g[0] = start /\ \A k \in 1 .. m : g[k] = step[k][g[k - 1]]
    <3>1. \A k \in 0 .. m - 1 : g[k] = f[k]
        BY <2>1
    <3>2. g[m] = step[m][f[m - 1]]
        OBVIOUS
    <3>3. \A k \in 1 .. m - 1 : k \in 0 .. m - 1 /\ k - 1 \in 0 .. m - 1
        OBVIOUS
    <3> HIDE DEF g
    <3> QED BY <2>1, <3>1, <3>2, <3>3
  <2>4. \E h \in [0 .. n -> D] : Is(m, h)
    BY <2>2, <2>3
  <2> QED BY <2>4
<1>3. n \in Holds
  <2> HIDE DEF Holds
  <2>1. \A k \in 1 .. n : k - 1 \in Holds => k \in Holds
    BY <1>2
  <2>2. \A k \in 0 .. n : k \in Holds
    BY <1>1, <2>1, UpTo
  <2> QED BY <2>2
<1>4. PICK f \in [0 .. n -> D] : Is(n, f)
    BY <1>3
<1> QED BY <1>4 DEF Runs

-----------------------------------------------------------------------------
(* The work that has come together when some threads have finished *)

States == [AVAILABLE : Vector, ALLOCATION : [Thread -> Vector],
           NEED : [Thread -> Vector]]

IsSum(f, a, g) ==
    f \in [0 .. N -> Int] /\ f[0] = a /\ \A k \in 1 .. N : f[k] = f[k - 1] + g[k - 1]

Share(X, done, r) == [j \in Thread |-> IF j \in done THEN X.ALLOCATION[j][r] ELSE 0]

LEMMA ThreadBefore ==
    /\ N \in Nat /\ N > 0 /\ 0 \in Resource /\ Thread \subseteq Nat
    /\ \A k \in 1 .. N : k - 1 \in Thread
BY SizeAssumption DEF Thread, Resource

LEMMA ShareTyped ==
    ASSUME NEW X \in States, NEW done, NEW r \in Resource
    PROVE  Share(X, done, r) \in [Thread -> Int] /\ X.AVAILABLE[r] \in Int
BY DEF Share, States, Vector

LEMMA WorkSum ==
    ASSUME NEW X \in States, NEW done, NEW r \in Resource
    PROVE  \E f : /\ IsSum(f, X.AVAILABLE[r], Share(X, done, r))
                  /\ WorkAfter(X, done)[r] = f[N]
<1> DEFINE F == CHOOSE sum : sum = [k \in 0 .. N |->
                    IF k = 0 THEN X.AVAILABLE[r]
                    ELSE sum[k - 1] + (IF (k - 1) \in done
                                       THEN X.ALLOCATION[k - 1][r] ELSE 0)]
           g == Share(X, done, r)
           a == X.AVAILABLE[r]
<1>1. WorkAfter(X, done)[r] = F[N]
    BY DEF WorkAfter
<1>2. \E f \in [0 .. N -> Int] : f = [k \in 0 .. N |->
                    IF k = 0 THEN a ELSE f[k - 1] + (IF (k - 1) \in done
                                       THEN X.ALLOCATION[k - 1][r] ELSE 0)]
  <2> DEFINE step == [k \in 1 .. N |-> [x \in Int |-> x + g[k - 1]]]
  <2>1. a \in Int /\ g \in [Thread -> Int]
    BY ShareTyped
  <2>2. step \in [1 .. N -> [Int -> Int]]
    <3> HIDE DEF g
    <3> QED BY <2>1, ThreadBefore
  <2>3. PICK f \in [0 .. N -> Int] : Runs(f, N, a, step)
    <3>1. N \in Nat
        BY ThreadBefore
    <3> HIDE DEF step, a
    <3> QED BY <2>1, <2>2, <3>1, Recursion
  <2>4. \A k \in 1 .. N : step[k][f[k - 1]] =
            f[k - 1] + (IF (k - 1) \in done THEN X.ALLOCATION[k - 1][r] ELSE 0)
    <3> SUFFICES ASSUME NEW k \in 1 .. N
                 PROVE  step[k][f[k - 1]] =
                        f[k - 1] + (IF (k - 1) \in done THEN X.ALLOCATION[k - 1][r] ELSE 0)
        OBVIOUS
    <3>1. k - 1 \in 0 .. N /\ k - 1 \in Thread
        BY ThreadBefore
    <3>2. step[k][f[k - 1]] = f[k - 1] + g[k - 1]
        BY <3>1
    <3>3. g[k - 1] = IF (k - 1) \in done THEN X.ALLOCATION[k - 1][r] ELSE 0
        BY <3>1 DEF Share
    <3> QED BY <3>2, <3>3
  <2> HIDE DEF step, g, a
  <2>5. f = [k \in 0 .. N |->
                    IF k = 0 THEN a ELSE f[k - 1] + (IF (k - 1) \in done
                                       THEN X.ALLOCATION[k - 1][r] ELSE 0)]
    <3>1. f[0] = a /\ \A k \in 0 .. N : k # 0 => k \in 1 .. N
        BY <2>3 DEF Runs
    <3> QED BY <2>3, <2>4, <3>1 DEF Runs
  <2> QED BY <2>5
<1>3. F = [k \in 0 .. N |-> IF k = 0 THEN a
                            ELSE F[k - 1] + (IF (k - 1) \in done
                                             THEN X.ALLOCATION[k - 1][r] ELSE 0)]
    BY <1>2, Zenon
<1> HIDE DEF F
<1>4. \A k \in 1 .. N : k - 1 \in Thread
    BY ThreadBefore
<1>5. F[0] = a /\ \A k \in 1 .. N : F[k] = F[k - 1] + g[k - 1]
  <2>1. 0 \in 0 .. N /\ \A k \in 1 .. N : k \in 0 .. N /\ k # 0
    BY ThreadBefore
  <2>2. \A k \in 1 .. N : g[k - 1] = IF (k - 1) \in done THEN X.ALLOCATION[k - 1][r] ELSE 0
    BY <1>4 DEF Share
  <2> HIDE DEF a, g
  <2> QED BY <1>3, <2>1, <2>2
<1>6. F \in [0 .. N -> Int]
  <2> DEFINE Holds == {k \in 0 .. N : F[k] \in Int}
  <2> HIDE DEF g
  <2>1. a \in Int /\ g \in [Thread -> Int]
    BY ShareTyped DEF g
  <2>2. 0 \in Holds
    BY <1>5, <2>1, ThreadBefore
  <2>3. \A k \in 1 .. N : k - 1 \in Holds => k \in Holds
    BY <1>4, <1>5, <2>1
  <2> HIDE DEF Holds
  <2>4. \A k \in 0 .. N : k \in Holds
    BY <2>2, <2>3, UpTo, ThreadBefore
  <2>5. \A k \in 0 .. N : F[k] \in Int
    BY <2>4 DEF Holds
  <2> HIDE DEF a
  <2> QED BY <1>3, <2>5
<1>7. IsSum(F, a, g)
    BY <1>5, <1>6 DEF IsSum
<1> QED BY <1>1, <1>7

(* Two sums of which one begins with more and adds no less. *)
LEMMA SumMonotone ==
    ASSUME NEW a \in Int, NEW b \in Int, a <= b,
           NEW g \in [Thread -> Int], NEW h \in [Thread -> Int],
           \A j \in Thread : g[j] <= h[j],
           NEW u, IsSum(u, a, g), NEW v, IsSum(v, b, h)
    PROVE  u[N] <= v[N]
<1> DEFINE Holds == {k \in 0 .. N : u[k] <= v[k]}
<1>1. 0 \in Holds
    BY ThreadBefore DEF IsSum
<1>2. ASSUME NEW k \in 1 .. N, k - 1 \in Holds PROVE k \in Holds
  <2>1. k - 1 \in Thread
    BY ThreadBefore
  <2> QED BY <1>2, <2>1 DEF IsSum
<1> HIDE DEF Holds
<1>3. \A k \in 0 .. N : k \in Holds
    BY <1>1, <1>2, UpTo, ThreadBefore
<1> QED BY <1>3, ThreadBefore DEF Holds

(* Two sums that differ in one summand and in where they begin. *)
AlikeBut(t, g, h) == \A j \in Thread : j # t => g[j] = h[j]

LEMMA SumDiffers ==
    ASSUME NEW a \in Int, NEW b \in Int, NEW t \in Thread,
           NEW g \in [Thread -> Int], NEW h \in [Thread -> Int],
           AlikeBut(t, g, h),
           NEW u, IsSum(u, a, g), NEW v, IsSum(v, b, h)
    PROVE  v[N] = u[N] + (b - a) + (h[t] - g[t])
<1> DEFINE Holds ==
        {k \in 0 .. N : v[k] = u[k] + (b - a) + (IF t < k THEN h[t] - g[t] ELSE 0)}
<1>1. 0 \in Holds
    BY ThreadBefore DEF IsSum
<1>2. ASSUME NEW k \in 1 .. N, k - 1 \in Holds PROVE k \in Holds
  <2>1. k - 1 \in Thread /\ t \in Nat /\ u[k - 1] \in Int /\ v[k - 1] \in Int
    BY ThreadBefore DEF IsSum
  <2> USE DEF AlikeBut
  <2>2. u[k] = u[k - 1] + g[k - 1] /\ v[k] = v[k - 1] + h[k - 1]
    BY DEF IsSum
  <2>3. v[k - 1] = u[k - 1] + (b - a) + (IF t < k - 1 THEN h[t] - g[t] ELSE 0)
    BY <1>2
  <2>4. CASE t = k - 1
    BY <2>1, <2>2, <2>3, <2>4
  <2>5. CASE t # k - 1
    BY <2>1, <2>2, <2>3, <2>5
  <2> QED BY <2>4, <2>5
<1> HIDE DEF Holds
<1>3. \A k \in 0 .. N : k \in Holds
    BY <1>1, <1>2, UpTo, ThreadBefore
<1>4. N \in Holds /\ t < N
    BY <1>3, ThreadBefore DEF Thread
<1> QED BY <1>4 DEF Holds

(* What the work depends on: it grows with the threads that have finished, and *)
(* changes as one thread's allocation or what is available changes.           *)
LEMMA WorkTyped ==
    ASSUME NEW X \in States, NEW done
    PROVE  WorkAfter(X, done) \in Vector
<1>1. ASSUME NEW r \in Resource PROVE WorkAfter(X, done)[r] \in Int
  <2>1. PICK f : IsSum(f, X.AVAILABLE[r], Share(X, done, r)) /\ WorkAfter(X, done)[r] = f[N]
    BY WorkSum
  <2> QED BY <2>1, ThreadBefore DEF IsSum
<1>2. WorkAfter(X, done) = [r \in Resource |-> WorkAfter(X, done)[r]]
    BY DEF WorkAfter
<1> HIDE DEF WorkAfter
<1> QED BY <1>1, <1>2 DEF Vector

SameBut(t, X, F, Y, G) ==
    \A j \in Thread : j # t => (j \in F <=> j \in G) /\ X.ALLOCATION[j] = Y.ALLOCATION[j]

LEMMA WorkMoves ==
    ASSUME NEW X \in States, NEW Y \in States, NEW F, NEW G, NEW t \in Thread,
           SameBut(t, X, F, Y, G),
           NEW r \in Resource
    PROVE  WorkAfter(Y, G)[r] =
              WorkAfter(X, F)[r] + (Y.AVAILABLE[r] - X.AVAILABLE[r])
              + ((IF t \in G THEN Y.ALLOCATION[t][r] ELSE 0)
                 - (IF t \in F THEN X.ALLOCATION[t][r] ELSE 0))
<1>1. PICK u : IsSum(u, X.AVAILABLE[r], Share(X, F, r)) /\ WorkAfter(X, F)[r] = u[N]
    BY WorkSum
<1>2. PICK v : IsSum(v, Y.AVAILABLE[r], Share(Y, G, r)) /\ WorkAfter(Y, G)[r] = v[N]
    BY WorkSum
<1>3. /\ Share(X, F, r) \in [Thread -> Int] /\ X.AVAILABLE[r] \in Int
      /\ Share(Y, G, r) \in [Thread -> Int] /\ Y.AVAILABLE[r] \in Int
    BY ShareTyped
<1>4. AlikeBut(t, Share(X, F, r), Share(Y, G, r))
    BY DEF Share, AlikeBut, SameBut
<1>5. v[N] = u[N] + (Y.AVAILABLE[r] - X.AVAILABLE[r])
             + (Share(Y, G, r)[t] - Share(X, F, r)[t])
  <2> DEFINE a == X.AVAILABLE[r]
             b == Y.AVAILABLE[r]
             g == Share(X, F, r)
             h == Share(Y, G, r)
  <2>1. /\ a \in Int /\ b \in Int /\ g \in [Thread -> Int] /\ h \in [Thread -> Int]
        /\ AlikeBut(t, g, h) /\ IsSum(u, a, g) /\ IsSum(v, b, h)
    BY <1>1, <1>2, <1>3, <1>4
  <2> HIDE DEF a, b, g, h
  <2>2. v[N] = u[N] + (b - a) + (h[t] - g[t])
    BY <2>1, SumDiffers
  <2> QED BY <2>2 DEF a, b, g, h
<1>6. /\ Share(Y, G, r)[t] = (IF t \in G THEN Y.ALLOCATION[t][r] ELSE 0)
      /\ Share(X, F, r)[t] = (IF t \in F THEN X.ALLOCATION[t][r] ELSE 0)
    BY DEF Share
<1> QED BY <1>1, <1>2, <1>5, <1>6

LEMMA WorkAdds ==
    ASSUME NEW X \in States, NEW F \in SUBSET Thread, NEW t \in Thread \ F
    PROVE  WorkAfter(X, F \cup {t}) = Add(WorkAfter(X, F), X.ALLOCATION[t])
<1>1. ASSUME NEW r \in Resource
      PROVE  WorkAfter(X, F \cup {t})[r] = WorkAfter(X, F)[r] + X.ALLOCATION[t][r]
  <2>1. SameBut(t, X, F, X, F \cup {t})
    BY DEF SameBut
  <2>2. /\ X.AVAILABLE[r] \in Int /\ X.ALLOCATION[t][r] \in Int
        /\ WorkAfter(X, F)[r] \in Int
    BY WorkTyped DEF States, Vector
  <2>3. WorkAfter(X, F \cup {t})[r] =
              WorkAfter(X, F)[r] + (X.AVAILABLE[r] - X.AVAILABLE[r])
              + ((IF t \in F \cup {t} THEN X.ALLOCATION[t][r] ELSE 0)
                 - (IF t \in F THEN X.ALLOCATION[t][r] ELSE 0))
    BY <2>1, WorkMoves
  <2> QED BY <2>2, <2>3
<1>2. WorkAfter(X, F \cup {t}) \in Vector
    BY WorkTyped
<1> QED BY <1>1, <1>2 DEF Add, Vector

LEMMA WorkNone ==
    ASSUME NEW X \in States
    PROVE  WorkAfter(X, {}) = X.AVAILABLE
<1>1. ASSUME NEW r \in Resource
      PROVE  WorkAfter(X, {})[r] = X.AVAILABLE[r]
  <2> DEFINE a == X.AVAILABLE[r]
             none == [j \in Thread |-> 0]
             f == [k \in 0 .. N |-> a]
  <2>1. PICK u : IsSum(u, a, Share(X, {}, r)) /\ WorkAfter(X, {})[r] = u[N]
    BY WorkSum
  <2>2. Share(X, {}, r) = none /\ a \in Int /\ none \in [Thread -> Int]
    BY ShareTyped DEF Share
  <2>3. IsSum(f, a, none)
    BY <2>2, ThreadBefore DEF IsSum
  <2>4. \A j \in Thread : none[j] <= none[j]
    OBVIOUS
  <2>5. f[N] = a
    BY ThreadBefore
  <2> HIDE DEF a, none, f
  <2>6. f[N] <= u[N] /\ u[N] <= f[N]
    BY <2>1, <2>2, <2>3, <2>4, SumMonotone
  <2>7. u[N] \in Int
    BY <2>1, ThreadBefore DEF IsSum
  <2> QED BY <2>1, <2>2, <2>5, <2>6, <2>7 DEF a
<1>2. WorkAfter(X, {}) \in Vector /\ X.AVAILABLE \in Vector
    BY WorkTyped DEF States
<1> QED BY <1>1, <1>2 DEF Vector

Nonnegative(X) == \A j \in Thread : Leq(Zero, X.ALLOCATION[j])

LEMMA WorkGrows ==
    ASSUME NEW X \in States, Nonnegative(X),
           NEW F \in SUBSET Thread, NEW G \in SUBSET Thread, F \subseteq G
    PROVE  Leq(WorkAfter(X, F), WorkAfter(X, G))
<1>1. ASSUME NEW r \in Resource PROVE WorkAfter(X, F)[r] <= WorkAfter(X, G)[r]
  <2>1. PICK u : IsSum(u, X.AVAILABLE[r], Share(X, F, r)) /\ WorkAfter(X, F)[r] = u[N]
    BY WorkSum
  <2>2. PICK v : IsSum(v, X.AVAILABLE[r], Share(X, G, r)) /\ WorkAfter(X, G)[r] = v[N]
    BY WorkSum
  <2>3. /\ Share(X, F, r) \in [Thread -> Int] /\ X.AVAILABLE[r] \in Int
        /\ Share(X, G, r) \in [Thread -> Int]
    BY ShareTyped
  <2>4. \A j \in Thread : Share(X, F, r)[j] <= Share(X, G, r)[j]
    <3>1. \A j \in Thread : 0 <= X.ALLOCATION[j][r] /\ X.ALLOCATION[j][r] \in Int
        BY DEF Nonnegative, Leq, Zero, States, Vector
    <3> QED BY <3>1 DEF Share
  <2>5. X.AVAILABLE[r] <= X.AVAILABLE[r]
    BY <2>3
  <2> QED BY <2>1, <2>2, <2>3, <2>4, <2>5, SumMonotone
<1> QED BY <1>1 DEF Leq

LEMMA LeqTransitive ==
    ASSUME NEW u \in Vector, NEW v \in Vector, NEW w \in Vector, Leq(u, v), Leq(v, w)
    PROVE  Leq(u, w)
<1>1. \A r \in Resource : u[r] \in Int /\ v[r] \in Int /\ w[r] \in Int
    BY DEF Vector
<1> QED BY <1>1 DEF Leq

-----------------------------------------------------------------------------
(* The sweeps of is_safe_state as Banker states them *)

Looks == [work : Vector, finish : SUBSET Thread]

LEMMA VisitIs ==
    ASSUME NEW X \in States, NEW w \in Looks, NEW t \in Thread
    PROVE  /\ Visit(X, w, t) \in Looks
           /\ IF t \notin w.finish /\ Leq(X.NEED[t], w.work)
              THEN /\ Visit(X, w, t).finish = w.finish \cup {t}
                   /\ Visit(X, w, t).work = Add(w.work, X.ALLOCATION[t])
              ELSE Visit(X, w, t) = w
<1>1. w.work \in Vector /\ X.ALLOCATION[t] \in Vector /\ w.finish \in SUBSET Thread
    BY DEF Looks, States
<1>2. Add(w.work, X.ALLOCATION[t]) \in Vector
    BY <1>1 DEF Add, Vector
<1>3. CASE t \notin w.finish /\ Leq(X.NEED[t], w.work)
  <2>1. Visit(X, w, t) = [work |-> Add(w.work, X.ALLOCATION[t]), finish |-> w.finish \cup {t}]
    BY <1>3 DEF Visit
  <2> QED BY <1>1, <1>2, <1>3, <2>1 DEF Looks
<1>4. CASE ~(t \notin w.finish /\ Leq(X.NEED[t], w.work))
    BY <1>4 DEF Visit
<1> QED BY <1>3, <1>4

IsRun(X, w) ==
    /\ w \in [0 .. N * N -> Looks] /\ w[0] = [work |-> X.AVAILABLE, finish |-> {}]
    /\ \A k \in 1 .. N * N : w[k] = Visit(X, w[k - 1], (k - 1) % N)

LEMMA Turns ==
    /\ N * N \in Nat /\ 0 \in 0 .. N * N /\ N * N \in 0 .. N * N
    /\ \A k \in 1 .. N * N : (k - 1) % N \in Thread /\ k - 1 \in 0 .. N * N /\ k \in 0 .. N * N
    /\ \A s \in 0 .. N - 1 : \A j \in Thread :
          s * N + j + 1 \in 1 .. N * N /\ (s * N + j) % N = j
<1>1. N \in Nat /\ N > 0 /\ N * N \in Nat
    BY SizeAssumption
<1>2. ASSUME NEW a \in Nat PROVE a % N \in 0 .. N - 1
    BY <1>1
<1>3. ASSUME NEW s \in 0 .. N - 1, NEW j \in 0 .. N - 1
      PROVE  s * N + j + 1 \in 1 .. N * N /\ (s * N + j) % N = j
  <2>1. (s + 1) * N <= N * N
    BY <1>1
  <2>2. s * N \in Nat /\ (s + 1) * N = s * N + N
    BY <1>1
  <2>3. (s * N + j) % N = j
    BY <1>1, <2>2
  <2> QED BY <1>1, <2>1, <2>2, <2>3
<1>4. \A k \in 1 .. N * N : k - 1 \in Nat /\ k - 1 \in 0 .. N * N /\ k \in 0 .. N * N
    BY <1>1
<1>5. N * N \in Nat /\ 0 \in 0 .. N * N /\ N * N \in 0 .. N * N
    BY <1>1
<1> QED BY <1>2, <1>3, <1>4, <1>5 DEF Thread

LEMMA VisitRun ==
    ASSUME NEW X \in States
    PROVE  \E w : IsRun(X, w) /\ Finishable(X) = w[N * N].finish
<1> DEFINE first == [work |-> X.AVAILABLE, finish |-> {}]
           step == [k \in 1 .. N * N |-> [v \in Looks |-> Visit(X, v, (k - 1) % N)]]
           V == CHOOSE visits : visits = [k \in 0 .. N * N |->
                    IF k = 0 THEN {[work |-> X.AVAILABLE, finish |-> {}]}
                             ELSE {Visit(X, w, (k - 1) % N) : w \in visits[k - 1]}]
<1>1. first \in Looks /\ step \in [1 .. N * N -> [Looks -> Looks]]
    BY VisitIs, Turns DEF Looks, States
<1>2. PICK w \in [0 .. N * N -> Looks] : Runs(w, N * N, first, step)
  <2> HIDE DEF first, step
  <2> QED BY <1>1, Turns, Recursion
<1>3. /\ w[0] = first
      /\ \A k \in 1 .. N * N : w[k] = Visit(X, w[k - 1], (k - 1) % N)
  <2>1. \A k \in 1 .. N * N : w[k - 1] \in Looks
    BY Turns
  <2> QED BY <1>2, <2>1 DEF Runs
<1>4. IsRun(X, w)
    BY <1>3 DEF IsRun
<1>5. V = [k \in 0 .. N * N |->
              IF k = 0 THEN {first} ELSE {Visit(X, v, (k - 1) % N) : v \in V[k - 1]}]
  <2> DEFINE U == [k \in 0 .. N * N |-> {w[k]}]
  <2>1. ASSUME NEW k \in 0 .. N * N
        PROVE  U[k] = IF k = 0 THEN {first}
                               ELSE {Visit(X, v, (k - 1) % N) : v \in U[k - 1]}
    <3>1. CASE k = 0
        BY <1>3, <3>1
    <3>2. CASE k # 0
        <4>1. k \in 1 .. N * N /\ k - 1 \in 0 .. N * N
            BY <3>2, Turns
        <4>2. U[k - 1] = {w[k - 1]} /\ U[k] = {Visit(X, w[k - 1], (k - 1) % N)}
            BY <1>3, <4>1
        <4> QED BY <3>2, <4>2
    <3> QED BY <3>1, <3>2
  <2>2. U = [k \in 0 .. N * N |->
                IF k = 0 THEN {first} ELSE {Visit(X, v, (k - 1) % N) : v \in U[k - 1]}]
    BY <2>1
  <2> HIDE DEF U
  <2> QED BY <2>2, Zenon
<1>6. Finishable(X) = UNION {v.finish : v \in V[N * N]}
    BY DEF Finishable
<1> HIDE DEF V, first
<1>7. \A k \in 0 .. N * N : V[k] = {w[k]}
  <2> DEFINE Holds == {k \in 0 .. N * N : V[k] = {w[k]}}
  <2>1. 0 \in Holds
    BY <1>3, <1>5, Turns
  <2>2. ASSUME NEW k \in 1 .. N * N, k - 1 \in Holds PROVE k \in Holds
    <3>1. V[k] = {Visit(X, v, (k - 1) % N) : v \in V[k - 1]}
        <4>1. k \in 0 .. N * N /\ k # 0
            BY Turns
        <4> QED BY <1>5, <4>1, Zenon
    <3>2. V[k - 1] = {w[k - 1]}
        BY <2>2
    <3> QED BY <1>3, <3>1, <3>2, Turns
  <2> HIDE DEF Holds
  <2>3. \A k \in 0 .. N * N : k \in Holds
    BY <2>1, <2>2, UpTo, Turns
  <2> QED BY <2>3 DEF Holds
<1>8. Finishable(X) = w[N * N].finish
    BY <1>6, <1>7, Turns
<1> QED BY <1>4, <1>8

-----------------------------------------------------------------------------
(* A set of threads is stuck when nobody outside it can run once it has given  *)
(* everything back.  A state is safe exactly when only the set of all threads  *)
(* is stuck; the greedy sweeps end in the least stuck set.                     *)

Stuck(X, F) == \A j \in Thread \ F : ~Leq(X.NEED[j], WorkAfter(X, F))
NoneStuck(X) == \A F \in SUBSET Thread : Stuck(X, F) => F = Thread

(* Who runs within what some set gives back is in every stuck set around it. *)
LEMMA StuckHolds ==
    ASSUME NEW X \in States, Nonnegative(X), NEW F \in SUBSET Thread,
           NEW G \in SUBSET Thread, F \subseteq G, Stuck(X, G),
           NEW j \in Thread, Leq(X.NEED[j], WorkAfter(X, F))
    PROVE  j \in G
<1>1. Leq(WorkAfter(X, F), WorkAfter(X, G))
    BY WorkGrows
<1>2. X.NEED[j] \in Vector /\ WorkAfter(X, F) \in Vector /\ WorkAfter(X, G) \in Vector
    BY WorkTyped DEF States
<1>3. Leq(X.NEED[j], WorkAfter(X, G))
    BY <1>1, <1>2, LeqTransitive
<1> QED BY <1>3 DEF Stuck

(* At each visit, work is what the finished threads have given back. *)
LEMMA RunWork ==
    ASSUME NEW X \in States, NEW w, IsRun(X, w), NEW k \in 0 .. N * N
    PROVE  /\ w[k].work = WorkAfter(X, w[k].finish)
           /\ w[k].finish \in SUBSET Thread /\ w[k] \in Looks
<1> DEFINE Holds == {m \in 0 .. N * N : w[m].work = WorkAfter(X, w[m].finish)}
<1>1. 0 \in Holds
  <2>1. w[0].work = X.AVAILABLE /\ w[0].finish = {}
    BY DEF IsRun
  <2>2. WorkAfter(X, {}) = X.AVAILABLE
    BY WorkNone
  <2> QED BY <2>1, <2>2, Turns
<1>2. ASSUME NEW m \in 1 .. N * N, m - 1 \in Holds PROVE m \in Holds
  <2> DEFINE v == w[m - 1]
             t == (m - 1) % N
  <2>1. /\ v \in Looks /\ t \in Thread /\ w[m] = Visit(X, v, t) /\ m \in 0 .. N * N
        /\ v.work = WorkAfter(X, v.finish) /\ v.finish \in SUBSET Thread
    BY <1>2, Turns DEF IsRun, Looks
  <2> HIDE DEF v, t
  <2>2. CASE t \notin v.finish /\ Leq(X.NEED[t], v.work)
    <3>1. w[m].finish = v.finish \cup {t} /\ w[m].work = Add(v.work, X.ALLOCATION[t])
        BY <2>1, <2>2, VisitIs
    <3>2. WorkAfter(X, v.finish \cup {t}) = Add(WorkAfter(X, v.finish), X.ALLOCATION[t])
        BY <2>1, <2>2, WorkAdds
    <3> QED BY <2>1, <3>1, <3>2
  <2>3. CASE ~(t \notin v.finish /\ Leq(X.NEED[t], v.work))
    <3>1. w[m] = v
        BY <2>1, <2>3, VisitIs
    <3> QED BY <2>1, <3>1
  <2> QED BY <2>2, <2>3
<1> HIDE DEF Holds
<1>3. \A m \in 0 .. N * N : m \in Holds
    BY <1>1, <1>2, UpTo, Turns
<1>4. w[k] \in Looks
    BY DEF IsRun
<1> QED BY <1>3, <1>4 DEF Holds, Looks

(* The finished threads are within every stuck set. *)
LEMMA RunWithin ==
    ASSUME NEW X \in States, Nonnegative(X), NEW w, IsRun(X, w),
           NEW G \in SUBSET Thread, Stuck(X, G), NEW a \in 0 .. N * N,
           w[a].finish \subseteq G, NEW k \in a .. N * N
    PROVE  w[k].finish \subseteq G
<1> DEFINE Holds == {m \in 0 .. N * N : m >= a => w[m].finish \subseteq G}
<1>0. \A m \in 1 .. N * N : m \in 0 .. N * N /\ m - 1 \in 0 .. N * N /\ (m >= a => m = a \/ m - 1 >= a)
    BY Turns
<1>1. 0 \in Holds
  <2>1. 0 >= a => a = 0
    OBVIOUS
  <2> QED BY <2>1, Turns
<1>2. ASSUME NEW m \in 1 .. N * N, m - 1 \in Holds PROVE m \in Holds
  <2> SUFFICES ASSUME m >= a, m # a PROVE w[m].finish \subseteq G
    BY <1>0
  <2> DEFINE v == w[m - 1]
             t == (m - 1) % N
  <2>1. /\ v \in Looks /\ t \in Thread /\ w[m] = Visit(X, v, t) /\ v.finish \subseteq G
    BY <1>0, <1>2, Turns DEF IsRun
  <2>2. v.work = WorkAfter(X, v.finish) /\ v.finish \in SUBSET Thread
    BY <1>0, RunWork
  <2> HIDE DEF v, t
  <2>3. CASE t \notin v.finish /\ Leq(X.NEED[t], v.work)
    <3>1. w[m].finish = v.finish \cup {t}
        BY <2>1, <2>3, VisitIs
    <3>2. t \in G
        BY <2>1, <2>2, <2>3, StuckHolds
    <3> QED BY <2>1, <3>1, <3>2
  <2>4. CASE ~(t \notin v.finish /\ Leq(X.NEED[t], v.work))
    <3>1. w[m] = v
        BY <2>1, <2>4, VisitIs
    <3> QED BY <2>1, <3>1
  <2> QED BY <2>3, <2>4
<1> HIDE DEF Holds
<1>3. \A m \in 0 .. N * N : m \in Holds
    BY <1>1, <1>2, UpTo, Turns
<1>4. k \in 0 .. N * N /\ k >= a
    BY Turns
<1> QED BY <1>3, <1>4 DEF Holds

LEMMA RunGrows ==
    ASSUME NEW X \in States, NEW w, IsRun(X, w), NEW a \in 0 .. N * N, NEW k \in a .. N * N
    PROVE  w[a].finish \subseteq w[k].finish
<1> DEFINE Holds == {m \in 0 .. N * N : m >= a => w[a].finish \subseteq w[m].finish}
<1>0. \A m \in 1 .. N * N : m \in 0 .. N * N /\ m - 1 \in 0 .. N * N /\ (m >= a => m = a \/ m - 1 >= a)
    BY Turns
<1>1. 0 \in Holds
  <2>1. 0 >= a => a = 0
    OBVIOUS
  <2> QED BY <2>1, Turns
<1>2. ASSUME NEW m \in 1 .. N * N, m - 1 \in Holds PROVE m \in Holds
  <2> SUFFICES ASSUME m >= a, m # a PROVE w[a].finish \subseteq w[m].finish
    BY <1>0
  <2> DEFINE v == w[m - 1]
             t == (m - 1) % N
  <2>1. /\ v \in Looks /\ t \in Thread /\ w[m] = Visit(X, v, t)
        /\ w[a].finish \subseteq v.finish
    BY <1>0, <1>2, Turns DEF IsRun
  <2> HIDE DEF v, t
  <2>2. v.finish \subseteq w[m].finish
    BY <2>1, VisitIs
  <2> QED BY <2>1, <2>2
<1> HIDE DEF Holds
<1>3. \A m \in 0 .. N * N : m \in Holds
    BY <1>1, <1>2, UpTo, Turns
<1>4. k \in 0 .. N * N /\ k >= a
    BY Turns
<1> QED BY <1>3, <1>4 DEF Holds

(* A sweep that finds nobody ends in a stuck set. *)
LEMMA SweepStuck ==
    ASSUME NEW X \in States, NEW w, IsRun(X, w), NEW s \in 0 .. N - 1,
           w[(s + 1) * N].finish = w[s * N].finish
    PROVE  Stuck(X, w[s * N].finish)
<1> DEFINE F == w[s * N].finish
<1>0. /\ s * N \in 0 .. N * N /\ (s + 1) * N \in 0 .. N * N /\ (s + 1) * N = s * N + N
      /\ N \in Nat /\ N * N \in Nat
  <2>1. N \in Nat /\ N * N \in Nat /\ s * N \in Nat /\ (s + 1) * N = s * N + N
    BY SizeAssumption
  <2>2. (s + 1) * N <= N * N
    BY SizeAssumption
  <2> QED BY <2>1, <2>2
<1> SUFFICES ASSUME NEW j \in Thread, j \notin F, Leq(X.NEED[j], WorkAfter(X, F)) PROVE FALSE
    BY DEF Stuck
<1> DEFINE k == s * N + j
<1>1. /\ k \in 0 .. N * N /\ k + 1 \in 1 .. N * N /\ k % N = j
      /\ k \in s * N .. N * N /\ (s + 1) * N \in k .. N * N
      /\ k + 1 \in s * N .. N * N /\ (s + 1) * N \in k + 1 .. N * N
      /\ k + 1 \in 0 .. N * N /\ (k + 1) - 1 = k
    BY <1>0, Turns DEF Thread
<1> HIDE DEF k
<1>2. w[k].finish = F
  <2>1. F \subseteq w[k].finish /\ w[k].finish \subseteq w[(s + 1) * N].finish
    BY <1>0, <1>1, RunGrows
  <2> QED BY <2>1
<1>3. w[k] \in Looks /\ w[k].work = WorkAfter(X, F)
    BY <1>1, <1>2, RunWork
<1>4. w[k + 1] = Visit(X, w[k], j)
    BY <1>1 DEF IsRun
<1>5. j \in w[k + 1].finish
    BY <1>2, <1>3, <1>4, VisitIs
<1>6. w[k + 1].finish \subseteq w[(s + 1) * N].finish
    BY <1>0, <1>1, RunGrows
<1> QED BY <1>5, <1>6

LEMMA ThreadsFinite ==
    /\ IsFiniteSet(Thread) /\ Cardinality(Thread) = N
    /\ \A F \in SUBSET Thread :
          /\ IsFiniteSet(F) /\ Cardinality(F) \in Nat /\ Cardinality(F) <= N
          /\ Cardinality(F) >= N => F = Thread
          /\ \A G \in SUBSET Thread :
                F \subseteq G /\ F # G => Cardinality(F) < Cardinality(G)
<1>1. IsFiniteSet(Thread) /\ Cardinality(Thread) = N
    BY ThreadBefore, FS_Interval DEF Thread
<1>2. ASSUME NEW F \in SUBSET Thread
      PROVE  IsFiniteSet(F) /\ Cardinality(F) \in Nat /\ Cardinality(F) <= N
    BY <1>1, FS_Subset, FS_CardinalityType
<1>3. ASSUME NEW F \in SUBSET Thread, NEW G \in SUBSET Thread, F \subseteq G, F # G
      PROVE  Cardinality(F) < Cardinality(G)
  <2>1. IsFiniteSet(G) /\ Cardinality(F) \in Nat /\ Cardinality(G) \in Nat
    BY <1>2
  <2>2. Cardinality(F) <= Cardinality(G) /\ Cardinality(F) # Cardinality(G)
    BY <1>3, <2>1, FS_Subset
  <2> QED BY <2>1, <2>2
<1>4. ASSUME NEW F \in SUBSET Thread, Cardinality(F) >= N PROVE F = Thread
  <2> SUFFICES ASSUME F # Thread PROVE FALSE
    OBVIOUS
  <2>1. Cardinality(F) < Cardinality(Thread)
    BY <1>3
  <2> QED BY <1>1, <1>2, <1>4, <2>1
<1> QED BY <1>1, <1>2, <1>3, <1>4

(* The sweeps stop at a stuck set, and n of them are enough. *)
LEMMA FinishableStuck ==
    ASSUME NEW X \in States, Nonnegative(X)
    PROVE  /\ Finishable(X) \in SUBSET Thread /\ Stuck(X, Finishable(X))
           /\ \A G \in SUBSET Thread : Stuck(X, G) => Finishable(X) \subseteq G
<1>1. PICK w : IsRun(X, w) /\ Finishable(X) = w[N * N].finish
    BY VisitRun
<1> DEFINE F(s) == w[s * N].finish
           Holds == {s \in 0 .. N : Stuck(X, F(s)) \/ Cardinality(F(s)) >= s}
<1>2. \A s \in 0 .. N : s * N \in 0 .. N * N
  <2> SUFFICES ASSUME NEW s \in 0 .. N PROVE s * N \in 0 .. N * N
    OBVIOUS
  <2>1. N \in Nat /\ N * N \in Nat /\ s * N \in Nat
    BY SizeAssumption
  <2>2. s * N <= N * N
    BY SizeAssumption
  <2> QED BY <2>1, <2>2
<1>3. \A s \in 0 .. N : F(s) \in SUBSET Thread
    BY <1>1, <1>2, RunWork
<1>4. 0 \in Holds
  <2>1. 0 \in 0 .. N
    BY ThreadBefore
  <2>2. Cardinality(F(0)) >= 0
    BY <1>3, <2>1, ThreadsFinite
  <2> QED BY <2>1, <2>2
<1>5. ASSUME NEW s \in 1 .. N, s - 1 \in Holds PROVE s \in Holds
  <2>1. /\ s - 1 \in 0 .. N - 1 /\ s - 1 \in 0 .. N /\ s \in 0 .. N /\ (s - 1) + 1 = s
        /\ (s - 1) * N \in 0 .. N * N /\ s * N \in (s - 1) * N .. N * N
    <3>1. s * N = (s - 1) * N + N /\ N \in Nat
        BY SizeAssumption
    <3> QED BY <1>2, <3>1
  <2>2. F(s - 1) \subseteq F(s)
    BY <1>1, <2>1, RunGrows
  <2>3. CASE F(s) = F(s - 1)
    <3>1. Stuck(X, F(s - 1))
        BY <1>1, <2>1, <2>3, SweepStuck
    <3> QED BY <2>1, <2>3, <3>1
  <2>4. CASE F(s) # F(s - 1) /\ Stuck(X, F(s - 1))
    <3>1. F(s) \subseteq F(s - 1)
        BY <1>1, <1>3, <2>1, <2>4, RunWithin
    <3> QED BY <2>2, <2>4, <3>1
  <2>5. CASE F(s) # F(s - 1) /\ ~Stuck(X, F(s - 1))
    <3>1. Cardinality(F(s - 1)) >= s - 1
        BY <1>5, <2>5
    <3>2. F(s) \in SUBSET Thread /\ F(s - 1) \in SUBSET Thread
        BY <1>3, <2>1
    <3>3. Cardinality(F(s - 1)) < Cardinality(F(s)) /\ Cardinality(F(s)) \in Nat
          /\ Cardinality(F(s - 1)) \in Nat
        BY <2>2, <2>5, <3>2, ThreadsFinite
    <3>4. Cardinality(F(s)) >= s
        BY <3>1, <3>3
    <3> QED BY <2>1, <3>4
  <2> QED BY <2>3, <2>4, <2>5
<1> HIDE DEF Holds
<1>6. \A s \in 0 .. N : s \in Holds
    BY <1>4, <1>5, UpTo, ThreadBefore
<1>7. N \in Holds /\ F(N) \in SUBSET Thread
    BY <1>3, <1>6, ThreadBefore
<1>8. Stuck(X, F(N))
  <2>1. CASE Cardinality(F(N)) >= N
    <3>1. F(N) = Thread
        BY <1>7, <2>1, ThreadsFinite
    <3> QED BY <3>1 DEF Stuck
  <2> QED BY <1>7, <2>1 DEF Holds
<1>9. ASSUME NEW G \in SUBSET Thread, Stuck(X, G) PROVE Finishable(X) \subseteq G
  <2>1. 0 \in 0 .. N * N /\ N * N \in 0 .. N * N
    BY Turns
  <2>2. w[0].finish = {}
    BY <1>1 DEF IsRun
  <2> QED BY <1>1, <1>9, <2>1, <2>2, RunWithin
<1> QED BY <1>1, <1>7, <1>8, <1>9

(* The verdict of is_safe_state is that only all threads together are stuck. *)
LEMMA GreedyIsSafe ==
    ASSUME NEW X \in States, Nonnegative(X)
    PROVE  Finishable(X) = Thread <=> NoneStuck(X)
BY FinishableStuck DEF NoneStuck

(* So is being safe in some order, whatever the order. *)
LEMMA SomeOrderIsSafe ==
    ASSUME NEW X \in States, Nonnegative(X)
    PROVE  SafeInSomeOrder(X) <=> NoneStuck(X)
<1> DEFINE CanRun(done, j) == Leq(X.NEED[j], WorkAfter(X, done))
           above(done) == \A G \in SUBSET Thread : done \subseteq G /\ Stuck(X, G) => G = Thread
           f == [done \in SUBSET Thread |-> above(done)]
           h == CHOOSE fromHere : fromHere = [done \in SUBSET Thread |->
                    \/ done = Thread
                    \/ \E j \in Thread \ done :
                          /\ Leq(X.NEED[j], WorkAfter(X, done))
                          /\ fromHere[done \cup {j}]]
<1>1. SafeInSomeOrder(X) = h[{}]
    BY DEF SafeInSomeOrder
<1>2. ASSUME NEW done \in SUBSET Thread
      PROVE  above(done) <=> \/ done = Thread
                             \/ \E j \in Thread \ done : CanRun(done, j) /\ above(done \cup {j})
  <2>1. CASE done = Thread
    BY <2>1
  <2>2. CASE done # Thread
    <3>1. ASSUME above(done)
          PROVE  \E j \in Thread \ done : CanRun(done, j) /\ above(done \cup {j})
        <4>1. ~Stuck(X, done)
            BY <2>2, <3>1
        <4>2. PICK j \in Thread \ done : CanRun(done, j)
            BY <4>1 DEF Stuck
        <4>3. above(done \cup {j})
            BY <3>1
        <4> QED BY <4>2, <4>3
    <3>2. ASSUME NEW j \in Thread \ done, CanRun(done, j), above(done \cup {j})
          PROVE  above(done)
        <4> SUFFICES ASSUME NEW G \in SUBSET Thread, done \subseteq G, Stuck(X, G)
                     PROVE  G = Thread
            OBVIOUS
        <4>1. j \in G
            BY <3>2, StuckHolds
        <4> QED BY <3>2, <4>1
    <3> HIDE DEF above, CanRun
    <3> QED BY <2>2, <3>1, <3>2
  <2> QED BY <2>1, <2>2
<1>3. h = [done \in SUBSET Thread |->
              \/ done = Thread
              \/ \E j \in Thread \ done : CanRun(done, j) /\ h[done \cup {j}]]
  <2>1. \A done \in SUBSET Thread : f[done] = (\/ done = Thread
              \/ \E j \in Thread \ done : CanRun(done, j) /\ f[done \cup {j}])
    <3> SUFFICES ASSUME NEW done \in SUBSET Thread
                 PROVE  f[done] = (\/ done = Thread
                            \/ \E j \in Thread \ done : CanRun(done, j) /\ f[done \cup {j}])
        OBVIOUS
    <3>1. f[done] = above(done)
        OBVIOUS
    <3>2. \A j \in Thread \ done : f[done \cup {j}] = above(done \cup {j})
        OBVIOUS
    <3>3. above(done) \in BOOLEAN
        OBVIOUS
    <3> HIDE DEF f, above, CanRun
    <3> QED BY <1>2, <3>1, <3>2, <3>3
  <2>2. f = [done \in SUBSET Thread |->
              \/ done = Thread
              \/ \E j \in Thread \ done : CanRun(done, j) /\ f[done \cup {j}]]
    <3> HIDE DEF CanRun
    <3> QED BY <2>1
  <2> HIDE DEF f
  <2> QED BY <2>2, Zenon
<1> HIDE DEF h, above, CanRun
<1> DEFINE left(done) == Cardinality(Thread \ done)
           T == {m \in Nat : \E done \in SUBSET Thread :
                    left(done) = m /\ ~(h[done] <=> above(done))}
<1>4. T = {}
  <2> SUFFICES ASSUME T # {} PROVE FALSE
    OBVIOUS
  <2>1. PICK m \in T : \A k \in T : m <= k
    <3>1. T \subseteq Nat
        OBVIOUS
    <3> HIDE DEF T
    <3> QED BY <3>1, LeastNatural
  <2>2. PICK done \in SUBSET Thread : left(done) = m /\ ~(h[done] <=> above(done))
    BY <2>1
  <2>3. ASSUME NEW j \in Thread \ done PROVE h[done \cup {j}] <=> above(done \cup {j})
    <3>1. /\ Thread \ (done \cup {j}) \in SUBSET Thread /\ Thread \ done \in SUBSET Thread
          /\ Thread \ (done \cup {j}) \subseteq Thread \ done
          /\ Thread \ (done \cup {j}) # Thread \ done
        OBVIOUS
    <3>2. left(done \cup {j}) \in Nat /\ left(done \cup {j}) < m /\ m \in Nat
        BY <2>2, <3>1, ThreadsFinite
    <3>3. left(done \cup {j}) \notin T
      <4> HIDE DEF T, left
      <4> QED BY <2>1, <3>2
    <3> QED BY <3>2, <3>3
  <2>4. h[done] = (\/ done = Thread
                   \/ \E j \in Thread \ done : CanRun(done, j) /\ h[done \cup {j}])
    BY <1>3, Zenon
  <2> QED BY <1>2, <2>2, <2>3, <2>4
<1>5. h[{}] <=> above({})
  <2>1. left({}) \in Nat
    BY ThreadsFinite
  <2> QED BY <1>4, <2>1
<1>6. above({}) <=> NoneStuck(X)
    BY DEF above, NoneStuck
<1> QED BY <1>1, <1>5, <1>6

-----------------------------------------------------------------------------
(* What a grant does to stuck sets, and what the end of a thread does *)

LEMMA GrantTyped ==
    ASSUME NEW X \in States, NEW t \in Thread, NEW q \in Vector
    PROVE  /\ AfterGrant(X, t, q) \in States
           /\ AfterGrant(X, t, q).AVAILABLE = Sub(X.AVAILABLE, q)
           /\ AfterGrant(X, t, q).ALLOCATION = [X.ALLOCATION EXCEPT ![t] = Add(@, q)]
           /\ AfterGrant(X, t, q).NEED = [X.NEED EXCEPT ![t] = Sub(@, q)]
<1>1. /\ X.AVAILABLE \in Vector /\ X.ALLOCATION \in [Thread -> Vector]
      /\ X.NEED \in [Thread -> Vector]
    BY DEF States
<1>2. /\ Sub(X.AVAILABLE, q) \in Vector /\ Add(X.ALLOCATION[t], q) \in Vector
      /\ Sub(X.NEED[t], q) \in Vector
    BY <1>1 DEF Sub, Add, Vector
<1> QED BY <1>1, <1>2 DEF AfterGrant, States

(* Granting takes from one thread's need what it takes from the work: a set  *)
(* that is stuck stays so.                                                   *)
LEMMA GrantKeepsStuck ==
    ASSUME NEW X \in States, NEW t \in Thread, NEW q \in Vector, Leq(Zero, q),
           NEW F \in SUBSET Thread, Stuck(X, F)
    PROVE  Stuck(AfterGrant(X, t, q), F)
<1> DEFINE Y == AfterGrant(X, t, q)
<1>1. /\ Y \in States /\ Y.AVAILABLE = Sub(X.AVAILABLE, q)
      /\ Y.ALLOCATION = [X.ALLOCATION EXCEPT ![t] = Add(@, q)]
      /\ Y.NEED = [X.NEED EXCEPT ![t] = Sub(@, q)]
    BY GrantTyped
<1> HIDE DEF Y
<1>2. /\ X.AVAILABLE \in Vector /\ X.ALLOCATION \in [Thread -> Vector]
      /\ X.NEED \in [Thread -> Vector]
    BY DEF States
<1>3. SameBut(t, X, F, Y, F)
    BY <1>1, <1>2 DEF SameBut
<1>4. ASSUME NEW r \in Resource
      PROVE  /\ WorkAfter(X, F)[r] \in Int /\ q[r] \in Int /\ 0 <= q[r]
             /\ WorkAfter(Y, F)[r] = WorkAfter(X, F)[r] - (IF t \in F THEN 0 ELSE q[r])
  <2>1. WorkAfter(Y, F)[r] =
              WorkAfter(X, F)[r] + (Y.AVAILABLE[r] - X.AVAILABLE[r])
              + ((IF t \in F THEN Y.ALLOCATION[t][r] ELSE 0)
                 - (IF t \in F THEN X.ALLOCATION[t][r] ELSE 0))
    <3>1. Y \in States
        BY <1>1
    <3> QED BY <1>3, <3>1, WorkMoves
  <2>2. /\ X.AVAILABLE[r] \in Int /\ q[r] \in Int /\ X.ALLOCATION[t][r] \in Int
        /\ WorkAfter(X, F)[r] \in Int
    BY <1>2, WorkTyped DEF Vector
  <2>3. /\ Y.AVAILABLE[r] = X.AVAILABLE[r] - q[r]
        /\ Y.ALLOCATION[t][r] = X.ALLOCATION[t][r] + q[r]
    BY <1>1, <1>2 DEF Sub, Add
  <2>4. 0 <= q[r]
    BY DEF Leq, Zero
  <2> QED BY <2>1, <2>2, <2>3, <2>4
<1>5. ASSUME NEW j \in Thread \ F PROVE ~Leq(Y.NEED[j], WorkAfter(Y, F))
  <2>1. PICK r \in Resource : ~(X.NEED[j][r] <= WorkAfter(X, F)[r])
    BY DEF Stuck, Leq
  <2>2. X.NEED[j][r] \in Int
    BY <1>2 DEF Vector
  <2>3. Y.NEED[j][r] = X.NEED[j][r] - (IF j = t THEN q[r] ELSE 0)
    BY <1>1, <1>2, <1>4, <2>2 DEF Sub
  <2>4. ~(Y.NEED[j][r] <= WorkAfter(Y, F)[r])
    BY <1>4, <2>1, <2>2, <2>3
  <2> QED BY <2>4 DEF Leq
<1> QED BY <1>5 DEF Y, Stuck

(* Two grants may be made in either order. *)
LEMMA GrantsCommute ==
    ASSUME NEW X \in States, NEW t \in Thread, NEW u \in Thread,
           NEW p \in Vector, NEW q \in Vector
    PROVE  AfterGrant(AfterGrant(X, t, p), u, q) = AfterGrant(AfterGrant(X, u, q), t, p)
<1> DEFINE Y == AfterGrant(X, t, p)
           Z == AfterGrant(X, u, q)
<1>1. /\ X.AVAILABLE \in Vector /\ X.ALLOCATION \in [Thread -> Vector]
      /\ X.NEED \in [Thread -> Vector]
    BY DEF States
<1>2. /\ Y.AVAILABLE = Sub(X.AVAILABLE, p)
      /\ Y.ALLOCATION = [X.ALLOCATION EXCEPT ![t] = Add(@, p)]
      /\ Y.NEED = [X.NEED EXCEPT ![t] = Sub(@, p)]
    BY GrantTyped
<1>3. /\ Z.AVAILABLE = Sub(X.AVAILABLE, q)
      /\ Z.ALLOCATION = [X.ALLOCATION EXCEPT ![u] = Add(@, q)]
      /\ Z.NEED = [X.NEED EXCEPT ![u] = Sub(@, q)]
    BY GrantTyped
<1> HIDE DEF Y, Z
<1>4. ASSUME NEW v \in Vector
      PROVE  /\ Add(Add(v, p), q) = Add(Add(v, q), p) /\ Sub(Sub(v, p), q) = Sub(Sub(v, q), p)
    BY DEF Add, Sub, Vector
<1>5. Sub(Y.AVAILABLE, q) = Sub(Z.AVAILABLE, p)
    BY <1>1, <1>2, <1>3, <1>4
<1>6. [Y.ALLOCATION EXCEPT ![u] = Add(@, q)] = [Z.ALLOCATION EXCEPT ![t] = Add(@, p)]
  <2>1. Add(Add(X.ALLOCATION[t], p), q) = Add(Add(X.ALLOCATION[t], q), p)
    BY <1>1, <1>4
  <2> QED BY <1>1, <1>2, <1>3, <2>1
<1>7. [Y.NEED EXCEPT ![u] = Sub(@, q)] = [Z.NEED EXCEPT ![t] = Sub(@, p)]
  <2>1. Sub(Sub(X.NEED[t], p), q) = Sub(Sub(X.NEED[t], q), p)
    BY <1>1, <1>4
  <2> QED BY <1>1, <1>2, <1>3, <2>1
<1>8. AfterGrant(Y, u, q) = AfterGrant(Z, t, p)
    BY <1>5, <1>6, <1>7 DEF AfterGrant
<1> QED BY <1>8 DEF Y, Z

(* Threads that hold nothing have nothing to give back. *)
LEMMA WorkOfHolders ==
    ASSUME NEW X \in States, NEW Y \in States, NEW F, NEW G,
           X.AVAILABLE = Y.AVAILABLE, X.ALLOCATION = Y.ALLOCATION,
           \A j \in Thread : (j \in F <=> j \in G) \/ X.ALLOCATION[j] = Zero
    PROVE  WorkAfter(X, F) = WorkAfter(Y, G)
<1>1. ASSUME NEW r \in Resource PROVE WorkAfter(X, F)[r] = WorkAfter(Y, G)[r]
  <2> DEFINE a == X.AVAILABLE[r]
             g == Share(X, F, r)
  <2>1. PICK u : IsSum(u, X.AVAILABLE[r], Share(X, F, r)) /\ WorkAfter(X, F)[r] = u[N]
    BY WorkSum
  <2>2. PICK v : IsSum(v, Y.AVAILABLE[r], Share(Y, G, r)) /\ WorkAfter(Y, G)[r] = v[N]
    BY WorkSum
  <2>3. g \in [Thread -> Int] /\ a \in Int
    BY ShareTyped
  <2>4. Share(Y, G, r) = g
    BY DEF Share, Zero
  <2>5. IsSum(u, a, g) /\ IsSum(v, a, g)
    BY <2>1, <2>2, <2>4
  <2> HIDE DEF a, g
  <2>6. a <= a /\ \A j \in Thread : g[j] <= g[j]
    BY <2>3
  <2>7. u[N] <= v[N] /\ v[N] <= u[N]
    BY <2>3, <2>5, <2>6, SumMonotone
  <2>8. u[N] \in Int /\ v[N] \in Int
    BY <2>5, ThreadBefore DEF IsSum
  <2> QED BY <2>1, <2>2, <2>7, <2>8
<1>2. WorkAfter(X, F) \in Vector /\ WorkAfter(Y, G) \in Vector
    BY WorkTyped
<1> QED BY <1>1, <1>2 DEF Vector

(* What is free and the sum of what the threads hold is the work once all have *)
(* finished.                                                                   *)
LEMMA SumIsWork ==
    ASSUME NEW X \in States, NEW r \in Resource
    PROVE  X.AVAILABLE[r] + SumFunction([t \in Thread |-> X.ALLOCATION[t][r]])
              = WorkAfter(X, Thread)[r]
<1> DEFINE a == X.AVAILABLE[r]
           f == [t \in Thread |-> X.ALLOCATION[t][r]]
           one(s) == CHOOSE x \in s : TRUE
           work_of(s) == WorkAfter(X, s)[r] - a
           h == CHOOSE iter : iter = [s \in SUBSET Thread |->
                    IF s = {} THEN 0 ELSE f[one(s)] + iter[s \ {one(s)}]]
<1>1. SumFunction(f) = h[Thread]
  <2>1. DOMAIN f = Thread
    OBVIOUS
  <2>2. SumFunction(f) =
          LET iter[s \in SUBSET DOMAIN f] ==
                  IF s = {} THEN 0 ELSE LET x == CHOOSE y \in s : TRUE
                                        IN  f[x] + iter[s \ {x}]
          IN  iter[DOMAIN f]
    BY Zenon DEF SumFunction, SumFunctionOnSet, FoldFunctionOnSet, MapThenFoldSet
  <2> HIDE DEF f
  <2> QED BY <2>1, <2>2
<1>2. a \in Int /\ \A s \in SUBSET Thread : WorkAfter(X, s)[r] \in Int
    BY WorkTyped DEF States, Vector
<1>3. work_of({}) = 0
    BY <1>2, WorkNone
<1>4. ASSUME NEW s \in SUBSET Thread, s # {}
      PROVE  /\ one(s) \in s /\ s \ {one(s)} \in SUBSET Thread
             /\ work_of(s) = f[one(s)] + work_of(s \ {one(s)})
  <2>1. one(s) \in s
    BY <1>4
  <2> HIDE DEF one
  <2> DEFINE t == one(s)
             rest == s \ {t}
  <2>2. /\ t \in Thread \ rest /\ rest \in SUBSET Thread /\ s = rest \cup {t}
        /\ f[t] = X.ALLOCATION[t][r] /\ t \in Thread
    BY <2>1
  <2> HIDE DEF t, rest, f
  <2>3. WorkAfter(X, s) = Add(WorkAfter(X, rest), X.ALLOCATION[t])
    BY <2>2, WorkAdds
  <2>4. WorkAfter(X, s)[r] = WorkAfter(X, rest)[r] + f[t]
    BY <2>2, <2>3 DEF Add
  <2>5. f[t] \in Int
    BY <2>2 DEF States, Vector
  <2>6. work_of(s) = f[t] + work_of(rest)
    <3>1. WorkAfter(X, s)[r] \in Int /\ WorkAfter(X, rest)[r] \in Int
        BY <1>2, <2>2
    <3> HIDE DEF a
    <3> QED BY <1>2, <2>4, <2>5, <3>1
  <2> HIDE DEF work_of
  <2> QED BY <2>1, <2>2, <2>6 DEF t, rest
<1> HIDE DEF one, f, work_of
<1>5. \A s \in SUBSET Thread :
          h[s] = IF s = {} THEN 0 ELSE f[one(s)] + h[s \ {one(s)}]
  <2> DEFINE g == [s \in SUBSET Thread |-> work_of(s)]
  <2>1. g = [s \in SUBSET Thread |-> IF s = {} THEN 0 ELSE f[one(s)] + g[s \ {one(s)}]]
    <3>1. \A s \in SUBSET Thread : g[s] = IF s = {} THEN 0 ELSE f[one(s)] + g[s \ {one(s)}]
        BY <1>3, <1>4
    <3> QED BY <3>1
  <2> HIDE DEF g
  <2>2. h = [s \in SUBSET Thread |-> IF s = {} THEN 0 ELSE f[one(s)] + h[s \ {one(s)}]]
    BY <2>1, Zenon
  <2> HIDE DEF h
  <2> QED BY <2>2, Zenon
<1> HIDE DEF h
<1> DEFINE T == {m \in Nat : \E s \in SUBSET Thread : Cardinality(s) = m /\ h[s] # work_of(s)}
<1>6. T = {}
  <2> SUFFICES ASSUME T # {} PROVE FALSE
    OBVIOUS
  <2>1. PICK m \in T : \A k \in T : m <= k
    <3>1. T \subseteq Nat
        OBVIOUS
    <3> HIDE DEF T
    <3> QED BY <3>1, LeastNatural
  <2>2. PICK s \in SUBSET Thread : Cardinality(s) = m /\ h[s] # work_of(s)
    BY <2>1
  <2>3. s # {}
    BY <1>3, <1>5, <2>2
  <2>4. one(s) \in s /\ s \ {one(s)} \in SUBSET Thread
    BY <1>4, <2>3
  <2>5. Cardinality(s \ {one(s)}) \in Nat /\ Cardinality(s \ {one(s)}) < m /\ m \in Nat
    <3>1. s \ {one(s)} \subseteq s /\ s \ {one(s)} # s
        BY <2>4
    <3> QED BY <2>2, <2>4, <3>1, ThreadsFinite
  <2>6. s \ {one(s)} \in SUBSET Thread /\ h[s \ {one(s)}] = work_of(s \ {one(s)})
    <3>1. Cardinality(s \ {one(s)}) \notin T
        <4> HIDE DEF T
        <4> QED BY <2>1, <2>5
    <3> QED BY <2>4, <2>5, <3>1
  <2> QED BY <1>4, <1>5, <2>2, <2>3, <2>6
<1>7. h[Thread] = work_of(Thread)
    BY <1>6, ThreadsFinite
<1>8. a + work_of(Thread) = WorkAfter(X, Thread)[r]
  <2>1. WorkAfter(X, Thread)[r] \in Int
    BY <1>2
  <2> HIDE DEF a
  <2> QED BY <1>2, <2>1 DEF work_of
<1> QED BY <1>1, <1>7, <1>8 DEF f

(* X becomes Y as thread t gives back all it holds and has a new claim. *)
Ends(X, Y, t) ==
    /\ Y.AVAILABLE = Add(X.AVAILABLE, X.ALLOCATION[t])
    /\ Y.ALLOCATION = [X.ALLOCATION EXCEPT ![t] = Zero]
    /\ \A j \in Thread : j # t => Y.NEED[j] = X.NEED[j]

(* A thread that ends, giving back all it holds, leaves the others safe; it is *)
(* safe itself as long as its new claim is within the whole.                   *)
LEMMA EndKeepsSafe ==
    ASSUME NEW X \in States, NEW Y \in States, NEW t \in Thread, Ends(X, Y, t),
           Leq(Y.NEED[t], WorkAfter(X, Thread)), NoneStuck(X)
    PROVE  NoneStuck(Y)
<1> SUFFICES ASSUME NEW F \in SUBSET Thread, Stuck(Y, F) PROVE F = Thread
    BY DEF NoneStuck
<1> DEFINE G == F \cup {t}
<1>1. /\ G \in SUBSET Thread /\ X.ALLOCATION \in [Thread -> Vector] /\ X.AVAILABLE \in Vector
      /\ t \in G
    BY DEF States
<1>2. SameBut(t, X, G, Y, F)
    BY <1>1 DEF SameBut, Ends
<1>3. WorkAfter(Y, F) = WorkAfter(X, G)
  <2> HIDE DEF G
  <2>1. ASSUME NEW r \in Resource PROVE WorkAfter(Y, F)[r] = WorkAfter(X, G)[r]
    <3>1. WorkAfter(Y, F)[r] =
              WorkAfter(X, G)[r] + (Y.AVAILABLE[r] - X.AVAILABLE[r])
              + ((IF t \in F THEN Y.ALLOCATION[t][r] ELSE 0)
                 - (IF t \in G THEN X.ALLOCATION[t][r] ELSE 0))
        BY <1>2, WorkMoves
    <3>2. /\ X.AVAILABLE[r] \in Int /\ X.ALLOCATION[t][r] \in Int
          /\ WorkAfter(X, G)[r] \in Int
        BY <1>1, WorkTyped DEF Vector
    <3>3. /\ Y.AVAILABLE[r] = X.AVAILABLE[r] + X.ALLOCATION[t][r]
          /\ Y.ALLOCATION[t][r] = 0
        BY <1>1 DEF Add, Zero, Ends
    <3> QED BY <1>1, <3>1, <3>2, <3>3
  <2>2. WorkAfter(Y, F) \in Vector /\ WorkAfter(X, G) \in Vector
    BY WorkTyped
  <2> QED BY <2>1, <2>2 DEF Vector
<1>4. Stuck(X, G)
    BY <1>3 DEF Stuck, Ends
<1>5. G = Thread
    BY <1>1, <1>4 DEF NoneStuck
<1>6. t \in F
    BY <1>3, <1>5 DEF Stuck
<1> QED BY <1>5, <1>6

(* Raising the claims of threads that hold nothing leaves a state safe, as     *)
(* long as they are within the whole.                                          *)
LEMMA IdleKeepsSafe ==
    ASSUME NEW X \in States, NEW Y \in States,
           X.AVAILABLE = Y.AVAILABLE, X.ALLOCATION = Y.ALLOCATION,
           \A j \in Thread : \/ Y.NEED[j] = X.NEED[j]
                             \/ /\ X.ALLOCATION[j] = Zero
                                /\ Leq(Y.NEED[j], WorkAfter(X, Thread)),
           NoneStuck(X)
    PROVE  NoneStuck(Y)
<1> SUFFICES ASSUME NEW F \in SUBSET Thread, Stuck(Y, F) PROVE F = Thread
    BY DEF NoneStuck
<1> DEFINE G == F \cup {j \in Thread : Y.NEED[j] # X.NEED[j]}
<1>1. WorkAfter(X, G) = WorkAfter(Y, F)
  <2>1. \A j \in Thread : (j \in G <=> j \in F) \/ X.ALLOCATION[j] = Zero
    OBVIOUS
  <2> HIDE DEF G
  <2> QED BY <2>1, WorkOfHolders
<1>2. Stuck(X, G) /\ G \in SUBSET Thread
    BY <1>1 DEF Stuck
<1>3. G = Thread
    BY <1>2 DEF NoneStuck
<1> QED BY <1>1, <1>3 DEF Stuck

(* Where nobody holds anything, claims within what is free are safe. *)
LEMMA AllFreeIsSafe ==
    ASSUME NEW X \in States, \A j \in Thread : X.ALLOCATION[j] = Zero,
           \A j \in Thread : Leq(X.NEED[j], X.AVAILABLE)
    PROVE  NoneStuck(X)
<1>1. ASSUME NEW F PROVE WorkAfter(X, F) = X.AVAILABLE
    BY WorkOfHolders, WorkNone
<1> QED BY <1>1 DEF NoneStuck, Stuck

-----------------------------------------------------------------------------
(* The loop *)

(* The tentative grant is in the matrices exactly while the check runs. *)
Marked ==
    S = IF pc \in {"sweep", "restore"} THEN Mark(given) ELSE given

(* A sweep that has found nobody yet has passed stuck threads only. *)
PassedStuck ==
    pc = "sweep" /\ ~found =>
        \A j \in Thread : j < i => j \in finish \/ ~Leq(S.NEED[j], work)

IInv == TypeOK /\ Marked /\ PassedStuck /\ StopsWhenStuck

(* Vectors add up to vectors, and adding undoes subtracting. *)
LEMMA Sums ==
    ASSUME NEW u \in Vector, NEW v \in Vector
    PROVE  /\ Add(u, v) \in Vector /\ Sub(u, v) \in Vector
           /\ Sub(Add(u, v), v) = u /\ Add(Sub(u, v), v) = u
BY DEF Vector, Add, Sub

(* Taking the tentative grant back restores the matrices. *)
LEMMA MarkAndUnmark ==
    ASSUME TypeOK
    PROVE  Mark(given) \in States /\ Unmark(Mark(given)) = given
<1> DEFINE A == [given.ALLOCATION EXCEPT ![thread_id] = Add(@, request)]
           D == [given.NEED EXCEPT ![thread_id] = Sub(@, request)]
<1>1. /\ given.AVAILABLE \in Vector /\ given.ALLOCATION \in [Thread -> Vector]
      /\ given.NEED \in [Thread -> Vector]
      /\ given = [AVAILABLE |-> given.AVAILABLE, ALLOCATION |-> given.ALLOCATION,
                  NEED |-> given.NEED]
      /\ thread_id \in Thread /\ request \in Vector
  BY DEF TypeOK
<1>2. Mark(given) = [AVAILABLE |-> given.AVAILABLE, ALLOCATION |-> A, NEED |-> D]
  BY <1>1 DEF Mark
<1>3. A \in [Thread -> Vector] /\ D \in [Thread -> Vector]
  BY <1>1, Sums
<1>4. Unmark(Mark(given)) =
        [AVAILABLE  |-> given.AVAILABLE,
         ALLOCATION |-> [A EXCEPT ![thread_id] = Sub(@, request)],
         NEED       |-> [D EXCEPT ![thread_id] = Add(@, request)]]
  <2> HIDE DEF A, D
  <2>1. A[thread_id] \in Vector /\ D[thread_id] \in Vector  BY <1>1, <1>3
  <2>2. /\ Mark(given).AVAILABLE = given.AVAILABLE
        /\ Mark(given).ALLOCATION = A /\ Mark(given).NEED = D
    BY <1>2
  <2> QED BY <1>1, <1>2, <2>1, <2>2 DEF Unmark
<1>5. [A EXCEPT ![thread_id] = Sub(@, request)] = given.ALLOCATION
  BY <1>1, Sums
<1>6. [D EXCEPT ![thread_id] = Add(@, request)] = given.NEED
  BY <1>1, Sums
<1>7. Mark(given) \in States  BY <1>1, <1>2, <1>3 DEF States
<1> QED BY <1>1, <1>4, <1>5, <1>6, <1>7

(* What one visit does to work and finish. *)
LEMMA VisitOutcome ==
    ASSUME TypeOK, i < N, NEW w, w = Visit(S, [work |-> work, finish |-> finish], i)
    PROVE  /\ i \in Thread
           /\ w.work \in Vector /\ w.finish \in SUBSET Thread
           /\ \/ /\ w.work = work /\ w.finish = finish
                 /\ i \in finish \/ ~Leq(S.NEED[i], work)
              \/ w.finish # finish
<1>1. i \in Thread  BY SizeAssumption DEF TypeOK, Thread
<1>2. S.ALLOCATION[i] \in Vector  BY <1>1 DEF TypeOK
<1>3. CASE i \notin finish /\ Leq(S.NEED[i], work)
  <2>1. w = [work |-> Add(work, S.ALLOCATION[i]), finish |-> finish \cup {i}]
    BY <1>3 DEF Visit
  <2>2. Add(work, S.ALLOCATION[i]) \in Vector  BY <1>2, Sums DEF TypeOK
  <2>3. w.work = Add(work, S.ALLOCATION[i]) /\ w.finish = finish \cup {i}
    BY <2>1
  <2>4. w.finish \in SUBSET Thread /\ w.finish # finish
    BY <1>1, <1>3, <2>3 DEF TypeOK
  <2> QED BY <1>1, <2>2, <2>3, <2>4
<1>4. CASE ~(i \notin finish /\ Leq(S.NEED[i], work))
  <2>1. w = [work |-> work, finish |-> finish]  BY <1>4 DEF Visit
  <2>2. w.work = work /\ w.finish = finish  BY <2>1
  <2>3. work \in Vector /\ finish \in SUBSET Thread  BY DEF TypeOK
  <2> QED BY <1>1, <1>4, <2>2, <2>3
<1> QED BY <1>3, <1>4

(* The call begins in the invariant. *)
LEMMA Start == Init => IInv
<1> SUFFICES ASSUME Init PROVE IInv  OBVIOUS
<1>1. Amount \subseteq Int /\ -1 .. MaxAmount \subseteq Int
  BY AmountAssumption DEF Amount
<1>2. given \in States /\ request \in Vector
  <2>1. [Resource -> Amount] \subseteq Vector
        /\ [Resource -> -1 .. MaxAmount] \subseteq Vector
    BY <1>1 DEF Vector
  <2>2. given.AVAILABLE \in [Resource -> Amount]
        /\ given.ALLOCATION \in [Thread -> [Resource -> Amount]]
        /\ given.NEED \in [Thread -> [Resource -> -1 .. MaxAmount]]
        /\ given = [AVAILABLE |-> given.AVAILABLE, ALLOCATION |-> given.ALLOCATION,
                    NEED |-> given.NEED]
    BY DEF Init, Matrices
  <2>3. given.ALLOCATION \in [Thread -> Vector] /\ given.NEED \in [Thread -> Vector]
    BY <2>1, <2>2
  <2>4. given \in States  BY <2>1, <2>2, <2>3 DEF States
  <2> QED BY <2>1, <2>4 DEF Init
<1>3. work \in Vector  BY DEF Init, Zero, Vector
<1>4. TypeOK
  <2>1. i \in 0 .. N  BY SizeAssumption DEF Init
  <2>2. found \in BOOLEAN /\ safe \in BOOLEAN  BY DEF Init
  <2>3. thread_id \in Thread /\ finish \in SUBSET Thread
        /\ pc \in {"tentative", "sweep", "restore", "done"} /\ S = given
    BY DEF Init
  <2> QED BY <1>2, <1>3, <2>1, <2>2, <2>3 DEF TypeOK, States
<1> QED BY <1>4 DEF Init, IInv, Marked, PassedStuck, StopsWhenStuck

(* Every step of the check keeps the invariant. *)
LEMMA Step == IInv /\ [Next]_vars => IInv'
<1> SUFFICES ASSUME IInv, [Next]_vars PROVE IInv'  OBVIOUS
<1> USE DEF call
<1>1. CASE UNCHANGED vars
  BY <1>1 DEF vars, IInv, TypeOK, Marked, Mark, PassedStuck, StopsWhenStuck
<1>2. CASE Tentative
  <2>1. S = given /\ Mark(S) \in States
    BY <1>2, MarkAndUnmark DEF Tentative, IInv, Marked
  <2>2. work' \in Vector  BY <1>2, Sums DEF Tentative, IInv, TypeOK
  <2>3. TypeOK'
    <3>1. i' \in 0 .. N  BY <1>2, SizeAssumption DEF Tentative
    <3>2. found' \in BOOLEAN  BY <1>2 DEF Tentative
    <3>3. /\ S' \in States /\ finish' \in SUBSET Thread
          /\ pc' \in {"tentative", "sweep", "restore", "done"}
      BY <1>2, <2>1 DEF Tentative
    <3>4. UNCHANGED <<call, safe>>  BY <1>2 DEF Tentative
    <3> QED BY <2>2, <3>1, <3>2, <3>3, <3>4 DEF IInv, TypeOK, States
  <2>4. Marked'  BY <1>2, <2>1 DEF Tentative, Marked, Mark
  <2>5. PassedStuck'  BY <1>2, SizeAssumption DEF Tentative, PassedStuck, Thread
  <2> QED BY <1>2, <2>3, <2>4, <2>5 DEF Tentative, IInv, StopsWhenStuck
<1>3. CASE VisitThread
  <2>1. PICK w : /\ w = Visit(S, [work |-> work, finish |-> finish], i)
                 /\ work' = w.work /\ finish' = w.finish
                 /\ found' = (found \/ FoundNow(w))
    BY <1>3 DEF VisitThread
  <2>2. /\ pc = "sweep" /\ i < N /\ i' = i + 1 /\ i \in 0 .. N
        /\ UNCHANGED <<S, call, pc, safe>>
    BY <1>3 DEF VisitThread, IInv, TypeOK
  <2>3. /\ w.work \in Vector /\ w.finish \in SUBSET Thread
        /\ \/ /\ w.work = work /\ w.finish = finish
              /\ i \in finish \/ ~Leq(S.NEED[i], work)
           \/ w.finish # finish
    BY <2>1, <2>2, VisitOutcome DEF IInv
  <2>4. found' \in BOOLEAN  BY <2>1, <2>3 DEF FoundNow, IInv, TypeOK
  <2>5. i' \in 0 .. N  BY <2>2, SizeAssumption
  <2>6. TypeOK'  BY <2>1, <2>2, <2>3, <2>4, <2>5 DEF IInv, TypeOK
  <2>7. Marked'  BY <2>2 DEF IInv, Marked, Mark
  <2>8. ASSUME ~found', NEW j \in Thread, j < i'
        PROVE  j \in finish' \/ ~Leq(S'.NEED[j], work')
    <3>1. /\ ~found /\ w.finish = finish /\ w.work = work
          /\ i \in finish \/ ~Leq(S.NEED[i], work)
      BY <2>1, <2>3, <2>8 DEF FoundNow
    <3>2. j < i \/ j = i  BY <2>2, <2>8 DEF Thread
    <3>3. j \in finish \/ ~Leq(S.NEED[j], work)
      BY <2>2, <3>1, <3>2 DEF IInv, PassedStuck
    <3> QED BY <2>1, <2>2, <3>1, <3>3
  <2>9. PassedStuck'  BY <2>8 DEF PassedStuck
  <2> QED BY <2>2, <2>6, <2>7, <2>9 DEF IInv, StopsWhenStuck
<1>4. CASE EndOfSweep
  <2>1. pc = "sweep" /\ i = N /\ UNCHANGED <<S, call, work, finish>>
    BY <1>4 DEF EndOfSweep
  <2>2. CASE found
    <3>1. i' = 0 /\ found' = FALSE /\ pc' = pc /\ safe' = safe
      BY <1>4, <2>2 DEF EndOfSweep, SweepAgain
    <3>2. TypeOK'
      <4>1. i' = 0 /\ pc' = pc /\ safe' = safe  BY <3>1
      <4>2. found' \in BOOLEAN  BY <3>1
      <4>3. i' \in 0 .. N  BY <4>1, SizeAssumption
      <4> QED BY <2>1, <4>1, <4>2, <4>3 DEF IInv, TypeOK
    <3>3. Marked'  BY <2>1, <3>1 DEF IInv, Marked, Mark
    <3>4. PassedStuck'  BY <3>1 DEF PassedStuck, Thread
    <3> QED BY <2>1, <3>1, <3>2, <3>3, <3>4 DEF IInv, StopsWhenStuck
  <2>3. CASE ~found
    <3>1. safe' = (finish = Thread) /\ pc' = "restore" /\ i' = i /\ found' = found
      BY <1>4, <2>3 DEF EndOfSweep, SweepAgain
    <3>2. TypeOK'
      <4>1. safe' \in BOOLEAN  BY <3>1
      <4>2. i' = i /\ found' = found /\ pc' = "restore"  BY <3>1
      <4>3. found' \in BOOLEAN /\ i' \in 0 .. N  BY <4>2 DEF IInv, TypeOK
      <4>4. pc' \in {"tentative", "sweep", "restore", "done"}  BY <4>2
      <4> QED BY <2>1, <4>1, <4>3, <4>4 DEF IInv, TypeOK
    <3>3. Marked'  BY <2>1, <3>1 DEF IInv, Marked, Mark
    <3>4. \A j \in Thread : j < i
      BY <2>1, SizeAssumption DEF Thread
    <3>5. StopsWhenStuck'
      BY <2>1, <2>3, <3>1, <3>4 DEF IInv, PassedStuck, StopsWhenStuck
    <3> QED BY <3>1, <3>2, <3>3, <3>5 DEF IInv, PassedStuck
  <2> QED BY <2>2, <2>3
<1>5. CASE Restore
  <2>1. S = Mark(given) /\ pc' = "done"
        /\ UNCHANGED <<call, work, finish, i, found, safe>>
    BY <1>5 DEF Restore, IInv, Marked
  <2>2. S' = given  BY <1>5, <2>1, MarkAndUnmark DEF Restore, IInv
  <2>3. TypeOK'  BY <2>1, <2>2 DEF IInv, TypeOK
  <2>4. Marked'  BY <2>1, <2>2 DEF Marked
  <2> QED BY <2>1, <2>3, <2>4 DEF IInv, PassedStuck, StopsWhenStuck
<1>6. CASE Returned  BY <1>1, <1>6 DEF Returned
<1> QED BY <1>1, <1>2, <1>3, <1>4, <1>5, <1>6 DEF Next

(***************************************************************************)
(* The check leaves the matrices as it found them, and when it stops no    *)
(* unfinished thread could be run (resource.c:376-427).                    *)
(***************************************************************************)
THEOREM LoopCorrect == Spec => [](MatricesRestored /\ StopsWhenStuck)
<1>1. IInv => MatricesRestored  BY DEF IInv, Marked, MatricesRestored
<1>2. IInv => StopsWhenStuck  BY DEF IInv
<1> QED BY <1>1, <1>2, Start, Step, PTL DEF Spec

-----------------------------------------------------------------------------
(* The verdict *)

Granted == AfterGrant(given, thread_id, request)

CallTyped == Leq(Zero, request) /\ \A j \in Thread : Leq(Zero, given.ALLOCATION[j])

(* The finished threads are within every stuck set, and work is what they    *)
(* have given back.                                                          *)
Swept ==
    /\ work = WorkAfter(Granted, finish)
    /\ \A G \in SUBSET Thread : Stuck(Granted, G) => finish \subseteq G

VerdictInv ==
    /\ CallTyped
    /\ pc \in {"sweep", "restore"} => Swept
    /\ pc = "restore" => (safe <=> finish = Thread)
    /\ pc = "done" => (safe <=> NoneStuck(Granted))

LEMMA GrantedIs ==
    ASSUME TypeOK
    PROVE  /\ Granted \in States /\ Granted.AVAILABLE = Sub(given.AVAILABLE, request)
           /\ Granted.ALLOCATION = Mark(given).ALLOCATION /\ Granted.NEED = Mark(given).NEED
           /\ CallTyped => Nonnegative(Granted)
<1>1. Mark(given) \in States /\ Sub(given.AVAILABLE, request) \in Vector
    BY MarkAndUnmark, Sums DEF TypeOK
<1>2. /\ Granted.AVAILABLE = Sub(given.AVAILABLE, request)
      /\ Granted.ALLOCATION = Mark(given).ALLOCATION /\ Granted.NEED = Mark(given).NEED
      /\ Granted = [AVAILABLE |-> Granted.AVAILABLE, ALLOCATION |-> Granted.ALLOCATION,
                    NEED |-> Granted.NEED]
    BY DEF Granted, AfterGrant, Mark
<1>3. Granted \in States
    BY <1>1, <1>2 DEF States
<1>4. ASSUME CallTyped, NEW j \in Thread PROVE Leq(Zero, Granted.ALLOCATION[j])
  <2>1. /\ given.ALLOCATION \in [Thread -> Vector] /\ thread_id \in Thread /\ request \in Vector
    BY DEF TypeOK
  <2>2. Granted.ALLOCATION = [given.ALLOCATION EXCEPT ![thread_id] = Add(@, request)]
    BY DEF Granted, AfterGrant
  <2>3. CASE j # thread_id
    <3>1. Granted.ALLOCATION[j] = given.ALLOCATION[j]
        BY <2>1, <2>2, <2>3
    <3> QED BY <1>4, <3>1 DEF CallTyped
  <2>4. CASE j = thread_id
    <3>1. Granted.ALLOCATION[j] = Add(given.ALLOCATION[j], request)
        BY <2>1, <2>2, <2>4
    <3>2. \A r \in Resource : /\ given.ALLOCATION[j][r] \in Int /\ request[r] \in Int
                              /\ 0 <= given.ALLOCATION[j][r] /\ 0 <= request[r]
        BY <1>4, <2>1 DEF CallTyped, Leq, Zero, Vector
    <3>3. \A r \in Resource : 0 <= given.ALLOCATION[j][r] + request[r]
        BY <3>2
    <3> QED BY <3>1, <3>3 DEF Leq, Zero, Add
  <2> QED BY <2>3, <2>4
<1> QED BY <1>2, <1>3, <1>4 DEF Nonnegative

(* A visit that finishes a thread keeps all that holds of the finished ones. *)
LEMMA VisitSweeps ==
    ASSUME IInv, CallTyped, Swept, pc = "sweep", VisitThread
    PROVE  Swept'
<1> DEFINE v == [work |-> work, finish |-> finish]
<1>1. /\ i \in Thread /\ v \in Looks /\ work' = Visit(S, v, i).work
      /\ finish' = Visit(S, v, i).finish /\ S \in States /\ S = Mark(given)
      /\ UNCHANGED <<given, thread_id, request>>
  <2>1. i \in Thread
    BY SizeAssumption DEF VisitThread, IInv, TypeOK, Thread
  <2>2. v \in Looks /\ S \in States
    BY DEF IInv, TypeOK, Looks, States
  <2>3. S = Mark(given)
    BY DEF IInv, Marked
  <2> QED BY <2>1, <2>2, <2>3 DEF VisitThread, call
<1>2. /\ Granted \in States /\ Nonnegative(Granted) /\ Granted' = Granted
      /\ Granted.ALLOCATION = S.ALLOCATION /\ Granted.NEED = S.NEED
  <2>1. Granted' = Granted
    BY <1>1 DEF Granted
  <2> QED BY <1>1, <2>1, GrantedIs DEF IInv
<1>3. finish \in SUBSET Thread /\ v.finish = finish /\ v.work = work
    BY DEF IInv, TypeOK
<1>4. CASE i \notin finish /\ Leq(S.NEED[i], work)
  <2>1. finish' = finish \cup {i} /\ work' = Add(work, S.ALLOCATION[i])
    BY <1>1, <1>3, <1>4, VisitIs
  <2>2. WorkAfter(Granted, finish \cup {i}) = Add(WorkAfter(Granted, finish), Granted.ALLOCATION[i])
    BY <1>1, <1>2, <1>3, <1>4, WorkAdds
  <2>3. work' = WorkAfter(Granted, finish')
    BY <1>2, <2>1, <2>2 DEF Swept
  <2>4. ASSUME NEW G \in SUBSET Thread, Stuck(Granted, G) PROVE finish' \subseteq G
    <3>1. finish \subseteq G /\ Leq(Granted.NEED[i], WorkAfter(Granted, finish))
        BY <1>2, <1>4, <2>4 DEF Swept
    <3>2. i \in G
        BY <1>1, <1>2, <1>3, <2>4, <3>1, StuckHolds
    <3> QED BY <2>1, <3>1, <3>2
  <2> QED BY <1>2, <2>3, <2>4 DEF Swept
<1>5. CASE ~(i \notin finish /\ Leq(S.NEED[i], work))
  <2>1. finish' = finish /\ work' = work
    BY <1>1, <1>3, <1>5, VisitIs
  <2> QED BY <1>2, <2>1 DEF Swept
<1> QED BY <1>4, <1>5

LEMMA StepVerdict == IInv /\ IInv' /\ VerdictInv /\ [Next]_vars => VerdictInv'
<1> SUFFICES ASSUME IInv, IInv', VerdictInv, [Next]_vars PROVE VerdictInv'
    OBVIOUS
<1>1. UNCHANGED <<given, thread_id, request>> /\ Granted' = Granted /\ CallTyped'
  <2>1. UNCHANGED <<given, thread_id, request>>
    BY DEF Next, Tentative, VisitThread, EndOfSweep, Restore, Returned, vars, call
  <2> QED BY <2>1 DEF Granted, CallTyped, VerdictInv
<1>2. /\ Granted \in States /\ Nonnegative(Granted)
      /\ Granted.AVAILABLE = Sub(given.AVAILABLE, request)
      /\ Granted.NEED = Mark(given).NEED
    BY GrantedIs DEF IInv, VerdictInv
<1>3. CASE UNCHANGED vars \/ Returned
    BY <1>1, <1>3 DEF Returned, vars, VerdictInv, Swept
<1>4. CASE Tentative
  <2>1. work' = Granted.AVAILABLE /\ finish' = {} /\ pc' = "sweep"
    BY <1>2, <1>4 DEF Tentative, IInv, Marked
  <2>2. WorkAfter(Granted, {}) = Granted.AVAILABLE
    BY <1>2, WorkNone
  <2> QED BY <1>1, <2>1, <2>2 DEF VerdictInv, Swept
<1>5. CASE VisitThread
  <2>1. pc = "sweep" /\ pc' = "sweep"
    BY <1>5 DEF VisitThread
  <2>2. Swept'
    BY <1>5, <2>1, VisitSweeps DEF VerdictInv
  <2> QED BY <1>1, <2>1, <2>2 DEF VerdictInv
<1>6. CASE EndOfSweep
  <2>1. pc = "sweep" /\ UNCHANGED <<work, finish>>
    BY <1>6 DEF EndOfSweep
  <2>2. Swept'
    BY <1>1, <2>1 DEF VerdictInv, Swept
  <2>3. pc' = "sweep" \/ (pc' = "restore" /\ (safe' <=> finish' = Thread))
    BY <1>6, <2>1 DEF EndOfSweep
  <2> QED BY <1>1, <2>2, <2>3 DEF VerdictInv
<1>7. CASE Restore
  <2>1. pc = "restore" /\ pc' = "done" /\ safe' = safe
    BY <1>7 DEF Restore
  <2>2. Stuck(Granted, finish)
    <3>1. S.NEED = Granted.NEED /\ work = WorkAfter(Granted, finish)
        BY <1>2, <2>1 DEF IInv, Marked, VerdictInv, Swept
    <3> QED BY <2>1, <3>1 DEF IInv, StopsWhenStuck, Stuck
  <2>3. finish = Thread <=> NoneStuck(Granted)
    <3>1. finish \in SUBSET Thread
        BY DEF IInv, TypeOK
    <3>2. \A G \in SUBSET Thread : Stuck(Granted, G) => finish \subseteq G
        BY <2>1 DEF VerdictInv, Swept
    <3> QED BY <2>2, <3>1, <3>2 DEF NoneStuck
  <2> QED BY <1>1, <2>1, <2>3 DEF VerdictInv
<1> QED BY <1>3, <1>4, <1>5, <1>6, <1>7 DEF Next

(***************************************************************************)
(* The verdict of is_safe_state is exact: the sweeps in index order say    *)
(* safe exactly when the threads can finish in some order, and the loop    *)
(* and the function the manager uses agree (resource.c:383-432).           *)
(***************************************************************************)
THEOREM VerdictCorrect == Spec => []VerdictExact
<1>1. Init => VerdictInv
  <2> SUFFICES ASSUME Init PROVE VerdictInv
    OBVIOUS
  <2>1. \A a \in Amount : 0 <= a
    BY AmountAssumption DEF Amount
  <2>2. /\ request \in [Resource -> Amount]
        /\ given.ALLOCATION \in [Thread -> [Resource -> Amount]]
    BY DEF Init, Matrices
  <2>3. CallTyped
    BY <2>1, <2>2 DEF CallTyped, Leq, Zero
  <2> QED BY <2>3 DEF Init, VerdictInv
<1>2. IInv /\ VerdictInv => VerdictExact
  <2> SUFFICES ASSUME IInv, VerdictInv, pc = "done"
               PROVE  /\ safe <=> SafeInSomeOrder(Granted)
                      /\ safe <=> Finishable(Granted) = Thread
    BY DEF VerdictExact, is_safe_state, Granted
  <2>1. Granted \in States /\ Nonnegative(Granted)
    BY GrantedIs DEF IInv, VerdictInv
  <2> QED BY <2>1, GreedyIsSafe, SomeOrderIsSafe DEF VerdictInv
<1> QED BY <1>1, <1>2, Start, Step, StepVerdict, PTL DEF Spec
=============================================================================
