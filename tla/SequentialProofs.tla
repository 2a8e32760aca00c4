---------------------------- MODULE SequentialProofs ----------------------------
(***************************************************************************)
(* The sequential programs of MCSequential, one after the other, each for  *)
(* every input and any sizes.  LA1: each foodule is rebuilt once and after *)
(* all it depends on, whatever foodep.txt lists, cycles included.  LA9: no *)
(* process and no frame is lost or duplicated, however searches fail.      *)
(* LA3: the heap gives events in order, and no event is lost or made.      *)
(***************************************************************************)
EXTENDS MCSequential, SequenceTheorems, FiniteSetTheorems, WellFoundedInduction, TLAPS

(* LA1: the chain of rebuild processes *)

RebuildProcess ==
    [foodule : Foodule, remaining : Seq(Foodule), done : SUBSET Foodule]

TypeOK ==
    /\ dependencies \in [Foodule -> Seq(Foodule)]
    /\ target \in Foodule
    /\ processes \in Seq(RebuildProcess)
    /\ done \subseteq Foodule
    /\ rebuilt \in Seq(Foodule)
    /\ exited \in BOOLEAN

(* From the first process on, the file is the list of what was rebuilt. *)
FileIsRebuilt ==
    IF processes = <<>> /\ ~exited THEN rebuilt = <<>> ELSE done = Range(rebuilt)

(* What a process has passed over is marked in the file. *)
PassedOver ==
    \A k \in 1 .. Len(processes) :
        \A v \in Range(dependencies[processes[k].foodule]) :
            v \in done \/ v \in Range(processes[k].remaining)

(* The process that runs has read the file since it was last changed. *)
Fresh == processes # <<>> => processes[Len(processes)].done = done

(* A process that waits does so for the dependency it stopped at. *)
WaitsForNext ==
    \A k \in 1 .. Len(processes) - 1 :
        /\ processes[k].remaining # <<>>
        /\ Head(processes[k].remaining) = processes[k + 1].foodule

IInv == TypeOK /\ FileIsRebuilt /\ PassedOver /\ Fresh /\ WaitsForNext /\ InOrder

-----------------------------------------------------------------------------
(* An index is the last one or before it. *)
LEMMA LastOrBefore ==
    ASSUME NEW m \in Nat, NEW j \in 1 .. m  PROVE j \in 1 .. m - 1 \/ j = m
OBVIOUS

(* What a sequence holds, in terms of its head and its tail. *)
LEMMA RangeOfTail ==
    ASSUME NEW S, NEW s \in Seq(S), s # <<>>, NEW v \in Range(s)
    PROVE  v = Head(s) \/ v \in Range(Tail(s))
<1>1. PICK i \in 1 .. Len(s) : v = s[i]
  BY DEF Range
<1>2. Head(s) = s[1] /\ Len(Tail(s)) = Len(s) - 1 /\ Tail(s) \in Seq(S)
  BY HeadTailProperties
<1>3. CASE i = 1
  BY <1>1, <1>2, <1>3
<1>4. CASE i # 1
  <2>1. i - 1 \in 1 .. Len(Tail(s))  BY <1>1, <1>2, <1>4
  <2>2. Tail(s)[i - 1] = s[i]  BY <2>1, HeadTailProperties
  <2>3. DOMAIN Tail(s) = 1 .. Len(Tail(s))  BY <1>2
  <2> QED BY <1>1, <2>1, <2>2, <2>3 DEF Range
<1> QED BY <1>3, <1>4

(* What a sequence holds after one more element. *)
LEMMA RangeOfAppend ==
    ASSUME NEW S, NEW s \in Seq(S), NEW e \in S
    PROVE  Range(Append(s, e)) = Range(s) \cup {e}
<1>1. /\ Append(s, e) \in Seq(S) /\ Len(Append(s, e)) = Len(s) + 1
      /\ \A i \in 1 .. Len(s) : Append(s, e)[i] = s[i]
      /\ Append(s, e)[Len(s) + 1] = e
  BY AppendProperties
<1>2. /\ DOMAIN Append(s, e) = 1 .. Len(s) + 1
      /\ DOMAIN s = 1 .. Len(s) /\ Len(s) \in Nat
  BY <1>1
<1>3. ASSUME NEW v \in Range(Append(s, e))  PROVE v \in Range(s) \cup {e}
  BY <1>1, <1>2, <1>3 DEF Range
<1>4. ASSUME NEW v \in Range(s)  PROVE v \in Range(Append(s, e))
  BY <1>1, <1>2, <1>4 DEF Range
<1>5. e \in Range(Append(s, e))
  BY <1>1, <1>2 DEF Range
<1> QED BY <1>3, <1>4, <1>5

(* The order stays right when a foodule follows its dependencies. *)
LEMMA OneMore ==
    ASSUME dependencies \in [Foodule -> Seq(Foodule)],
           rebuilt \in Seq(Foodule), InOrder, NEW f \in Foodule, f \notin Range(rebuilt),
           Range(dependencies[f]) \subseteq Range(rebuilt),
           UNCHANGED dependencies, rebuilt' = Append(rebuilt, f)
    PROVE  InOrder'
<1>1. /\ rebuilt' \in Seq(Foodule) /\ Len(rebuilt') = Len(rebuilt) + 1
      /\ \A i \in 1 .. Len(rebuilt) : rebuilt'[i] = rebuilt[i]
      /\ rebuilt'[Len(rebuilt) + 1] = f
  BY AppendProperties
<1>2. /\ DOMAIN rebuilt' = 1 .. Len(rebuilt) + 1
      /\ DOMAIN rebuilt = 1 .. Len(rebuilt) /\ Len(rebuilt) \in Nat
  BY <1>1
<1>3. \A i \in 1 .. Len(rebuilt) : rebuilt[i] # f
  BY <1>2 DEF Range
<1>4. IsInjective(rebuilt')
  <2> SUFFICES ASSUME NEW i \in DOMAIN rebuilt', NEW j \in DOMAIN rebuilt',
                      rebuilt'[i] = rebuilt'[j]
               PROVE  i = j
    BY DEF IsInjective
  <2> QED BY <1>1, <1>2, <1>3 DEF InOrder, IsInjective
<1>5. ASSUME NEW k \in DOMAIN rebuilt'
      PROVE  Range(dependencies[rebuilt'[k]]) \subseteq {rebuilt'[j] : j \in 1 .. k - 1}
  <2>1. CASE k \in 1 .. Len(rebuilt)
    <3>1. Range(dependencies[rebuilt[k]]) \subseteq {rebuilt[j] : j \in 1 .. k - 1}
      BY <1>2, <2>1 DEF InOrder
    <3>2. \A j \in 1 .. k - 1 : rebuilt'[j] = rebuilt[j]
      BY <1>1, <1>2, <2>1
    <3> QED BY <1>1, <2>1, <3>1, <3>2
  <2>2. CASE k = Len(rebuilt) + 1
    <3>1. \A v \in Range(rebuilt) : \E j \in 1 .. k - 1 : v = rebuilt'[j]
      BY <1>1, <1>2, <2>2 DEF Range
    <3>2. rebuilt'[k] = f  BY <1>1, <2>2
    <3>3. Range(dependencies[f]) \subseteq {rebuilt'[j] : j \in 1 .. k - 1}
      BY <3>1
    <3> QED BY <3>2, <3>3
  <2>3. k \in 1 .. Len(rebuilt) \/ k = Len(rebuilt) + 1
    BY <1>2
  <2> QED BY <2>1, <2>2, <2>3
<1> QED BY <1>4, <1>5 DEF InOrder

-----------------------------------------------------------------------------
LEMMA InitHolds == ASSUME GraphAssumption PROVE Init => IInv
<1> SUFFICES ASSUME Init PROVE IInv  OBVIOUS
<1>1. processes = <<>> /\ rebuilt = <<>> /\ exited = FALSE /\ target \in Foodule
      /\ done \subseteq Foodule /\ dependencies \in [Foodule -> Seq(Foodule)]
  BY DEF Init, Starts, GraphAssumption, Foodule
<1>2. Len(processes) = 0 /\ DOMAIN rebuilt = {}
  BY <1>1
<1>3. InOrder  BY <1>2 DEF InOrder, IsInjective
<1>4. TypeOK
  <2>1. processes \in Seq(RebuildProcess) /\ rebuilt \in Seq(Foodule)
    BY <1>1, EmptySeq
  <2> QED BY <1>1, <2>1 DEF TypeOK
<1>5. FileIsRebuilt  BY <1>1 DEF FileIsRebuilt
<1>6. PassedOver /\ Fresh /\ WaitsForNext
  BY <1>1, <1>2 DEF PassedOver, Fresh, WaitsForNext
<1> QED BY <1>3, <1>4, <1>5, <1>6 DEF IInv

(* A process that starts with the file as it is keeps the invariant. *)
LEMMA StartKeeps ==
    ASSUME IInv, NEW f \in Foodule, Start(f),
           processes = <<>> => ~exited /\ f = target,
           processes # <<>> =>
               /\ processes[Len(processes)].remaining # <<>>
               /\ f = Head(processes[Len(processes)].remaining),
           UNCHANGED <<dependencies, target, rebuilt, exited>>
    PROVE  IInv'
<1> DEFINE N == Len(processes)
           p == Begins(f, done')
<1>1. done' \subseteq Foodule /\ done' = (IF processes = <<>> THEN {} ELSE done)
  BY DEF Start, initialize_done, FirstProcess, IInv, TypeOK
<1>2. p \in RebuildProcess /\ p.foodule = f /\ p.remaining = dependencies[f] /\ p.done = done'
  BY <1>1 DEF Begins, RebuildProcess, IInv, TypeOK
<1>3. processes' = Append(processes, p)
  BY DEF Start
<1>4. /\ processes' \in Seq(RebuildProcess) /\ processes' # <<>> /\ Len(processes') = N + 1
      /\ \A k \in 1 .. N : processes'[k] = processes[k]
      /\ processes'[N + 1] = p
      /\ N \in Nat
  <2> HIDE DEF p
  <2> QED BY <1>2, <1>3, AppendProperties DEF IInv, TypeOK
<1> HIDE DEF p
<1>5. TypeOK'
  BY <1>1, <1>4 DEF IInv, TypeOK
<1>6. FileIsRebuilt'
  <2>1. done' = Range(rebuilt)
    <3>1. CASE processes = <<>>
      <4>1. rebuilt = <<>>  BY <3>1 DEF IInv, FileIsRebuilt
      <4> QED BY <1>1, <3>1, <4>1 DEF Range
    <3>2. CASE processes # <<>>
      BY <1>1, <3>2 DEF IInv, FileIsRebuilt
    <3> QED BY <3>1, <3>2
  <2> QED BY <1>4, <2>1 DEF FileIsRebuilt
<1>7. PassedOver'
  <2> SUFFICES ASSUME NEW k \in 1 .. N + 1, NEW v \in Range(dependencies[processes'[k].foodule])
               PROVE  v \in done' \/ v \in Range(processes'[k].remaining)
    BY <1>4 DEF PassedOver
  <2>1. CASE k = N + 1
    BY <1>2, <1>4, <2>1
  <2>2. CASE k \in 1 .. N
    <3>1. processes # <<>>  BY <1>4, <2>2
    <3> QED BY <1>1, <1>4, <2>2, <3>1 DEF IInv, PassedOver
  <2> QED BY <1>4, <2>1, <2>2
<1>8. Fresh'
  BY <1>2, <1>4 DEF Fresh
<1>9. WaitsForNext'
  <2> SUFFICES ASSUME NEW k \in 1 .. N
               PROVE  /\ processes'[k].remaining # <<>>
                      /\ Head(processes'[k].remaining) = processes'[k + 1].foodule
    BY <1>4 DEF WaitsForNext
  <2>1. processes # <<>>  BY <1>4
  <2>2. CASE k = N
    BY <1>2, <1>4, <2>1, <2>2
  <2>3. CASE k \in 1 .. N - 1
    BY <1>4, <2>3 DEF IInv, WaitsForNext
  <2> QED BY <1>4, <2>2, <2>3
<1>10. InOrder'
  BY DEF IInv, InOrder
<1> QED BY <1>5, <1>6, <1>7, <1>8, <1>9, <1>10 DEF IInv

(* A dependency that is marked is passed over. *)
LEMMA AlreadyRebuiltKeeps == ASSUME IInv, AlreadyRebuilt PROVE IInv'
<1> DEFINE N == Len(processes)
           p == processes[N]
           q == MovedOn(p)
<1>1. processes \in Seq(RebuildProcess) /\ processes # <<>> /\ N \in Nat /\ N # 0 /\ N \in 1 .. N
  BY EmptySeq DEF AlreadyRebuilt, IInv, TypeOK
<1>2. p \in RebuildProcess /\ p.remaining # <<>> /\ Head(p.remaining) \in p.done
  BY <1>1, ElementOfSeq DEF AlreadyRebuilt, Running, Dependency, Last
<1>3. Tail(p.remaining) \in Seq(Foodule)
  BY <1>2, HeadTailProperties DEF RebuildProcess
<1>4. /\ q \in RebuildProcess /\ q.foodule = p.foodule /\ q.done = p.done
      /\ q.remaining = Tail(p.remaining)
  BY <1>2, <1>3 DEF MovedOn, RebuildProcess
<1>5. processes' = [processes EXCEPT ![N] = q]
  BY DEF AlreadyRebuilt
<1> HIDE DEF q
<1>6. /\ processes' \in Seq(RebuildProcess) /\ processes' # <<>> /\ Len(processes') = N
      /\ processes'[N] = q
      /\ \A k \in 1 .. N - 1 : processes'[k] = processes[k]
  BY <1>1, <1>4, <1>5, ExceptSeq
<1>7. UNCHANGED <<dependencies, target, done, rebuilt, exited>>
  BY DEF AlreadyRebuilt
<1>8. TypeOK' /\ FileIsRebuilt' /\ InOrder'
  <2>1. TypeOK'  BY <1>6, <1>7 DEF IInv, TypeOK
  <2>2. FileIsRebuilt'  BY <1>1, <1>6, <1>7 DEF IInv, FileIsRebuilt
  <2>3. InOrder'  BY <1>7 DEF IInv, InOrder
  <2> QED BY <2>1, <2>2, <2>3
<1>9. PassedOver'
  <2> SUFFICES ASSUME NEW k \in 1 .. N, NEW v \in Range(dependencies[processes'[k].foodule])
               PROVE  v \in done \/ v \in Range(processes'[k].remaining)
    BY <1>6, <1>7 DEF PassedOver
  <2>1. CASE k \in 1 .. N - 1
    BY <1>6, <2>1 DEF IInv, PassedOver
  <2>2. CASE k = N
    <3>1. v \in done \/ v \in Range(p.remaining)
      BY <1>1, <1>4, <1>6, <2>2 DEF IInv, PassedOver
    <3>2. p.done = done  BY <1>1 DEF IInv, Fresh
    <3>3. p.remaining \in Seq(Foodule)  BY <1>2 DEF RebuildProcess
    <3>4. v \in Range(p.remaining) => v = Head(p.remaining) \/ v \in Range(Tail(p.remaining))
      BY <1>2, <3>3, RangeOfTail
    <3> QED BY <1>2, <1>4, <1>6, <2>2, <3>1, <3>2, <3>4
  <2> QED BY <1>1, <2>1, <2>2
<1>10. Fresh'
  BY <1>1, <1>4, <1>6, <1>7 DEF IInv, Fresh
<1>11. WaitsForNext'
  <2> SUFFICES ASSUME NEW k \in 1 .. N - 1
               PROVE  /\ processes'[k].remaining # <<>>
                      /\ Head(processes'[k].remaining) = processes'[k + 1].foodule
    BY <1>6 DEF WaitsForNext
  <2>1. processes'[k] = processes[k] /\ processes'[k + 1].foodule = processes[k + 1].foodule
    BY <1>1, <1>4, <1>6
  <2> QED BY <2>1 DEF IInv, WaitsForNext
<1> QED BY <1>8, <1>9, <1>10, <1>11 DEF IInv

-----------------------------------------------------------------------------
(* A process that is at the end of its list marks its foodule and leaves.  *)
LEMMA FinishKeeps == ASSUME IInv, Finish PROVE IInv'
<1> DEFINE N == Len(processes)
           p == processes[N]
           rest == Front(processes)
<1>1. processes \in Seq(RebuildProcess) /\ processes # <<>> /\ N \in Nat /\ N # 0 /\ N \in 1 .. N
  BY EmptySeq DEF Finish, IInv, TypeOK
<1>2. /\ p \in RebuildProcess /\ p.foodule \in Foodule /\ p.remaining = <<>>
      /\ p.done = done
  <2>1. p \in RebuildProcess  BY <1>1, ElementOfSeq
  <2>2. p.foodule \in Foodule  BY <2>1 DEF RebuildProcess
  <2>3. p.remaining = <<>>  BY <1>1 DEF Finish, Running, Last
  <2>4. p.done = done  BY <1>1 DEF IInv, Fresh
  <2> QED BY <2>1, <2>2, <2>3, <2>4
<1>3. UNCHANGED <<dependencies, target>>
  BY DEF Finish
<1>4. IF p.foodule \in done
      THEN done' = done /\ rebuilt' = rebuilt
      ELSE done' = done \cup {p.foodule} /\ rebuilt' = Append(rebuilt, p.foodule)
  BY <1>2 DEF Finish, update_done, Running, Last
<1>5. done = Range(rebuilt) /\ rebuilt \in Seq(Foodule)
  BY <1>1 DEF IInv, FileIsRebuilt, TypeOK
<1>6. done' = done \cup {p.foodule} /\ done' = Range(rebuilt') /\ rebuilt' \in Seq(Foodule)
  <2>1. CASE p.foodule \in done
    BY <1>4, <1>5, <2>1
  <2>2. CASE p.foodule \notin done
    <3>1. done' = done \cup {p.foodule} /\ rebuilt' = Append(rebuilt, p.foodule)
      BY <1>4, <2>2
    <3>2. Range(Append(rebuilt, p.foodule)) = Range(rebuilt) \cup {p.foodule}
      <4> HIDE DEF p
      <4> QED BY <1>2, <1>5, RangeOfAppend
    <3>3. Append(rebuilt, p.foodule) \in Seq(Foodule)
      <4> HIDE DEF p
      <4> QED BY <1>2, <1>5, AppendProperties
    <3> QED BY <1>5, <3>1, <3>2, <3>3
  <2> QED BY <2>1, <2>2
<1>7. InOrder'
  <2>1. CASE p.foodule \in done
    <3>1. rebuilt' = rebuilt /\ dependencies' = dependencies
      BY <1>3, <1>4, <2>1
    <3> QED BY <3>1 DEF IInv, InOrder
  <2>2. CASE p.foodule \notin done
    <3>1. Range(dependencies[p.foodule]) \subseteq done
      <4>1. Range(p.remaining) = {}  BY <1>2 DEF Range
      <4> QED BY <1>1, <4>1 DEF IInv, PassedOver
    <3>2. InOrder /\ dependencies \in [Foodule -> Seq(Foodule)]
      BY DEF IInv, TypeOK
    <3> QED BY <1>2, <1>3, <1>4, <1>5, <2>2, <3>1, <3>2, OneMore
  <2> QED BY <2>1, <2>2
\* What is left of the processes.
<1>8. /\ rest \in Seq(RebuildProcess) /\ Len(rest) = N - 1
      /\ \A k \in 1 .. N - 1 : rest[k] = processes[k]
  <2>1. \A i \in 1 .. N - 1 : processes[i] \in RebuildProcess
    BY <1>1, ElementOfSeq
  <2>2. rest = SubSeq(processes, 1, N - 1)  BY DEF Front
  <2>3. 1 \in Int /\ N - 1 \in Int  BY <1>1
  <2> HIDE DEF rest
  <2>4. /\ rest \in Seq(RebuildProcess)
        /\ Len(rest) = IF 1 <= N - 1 THEN N - 1 - 1 + 1 ELSE 0
        /\ \A k \in 1 .. N - 1 - 1 + 1 : rest[k] = processes[1 + k - 1]
    BY <2>1, <2>2, <2>3, SubSeqProperties
  <2>5. Len(rest) = N - 1
    <3>1. N \in Nat /\ N # 0  BY <1>1
    <3>2. Len(rest) = IF 1 <= N - 1 THEN N - 1 - 1 + 1 ELSE 0  BY <2>4
    <3> HIDE DEF N
    <3> QED BY ONLY <3>1, <3>2
  <2>6. ASSUME NEW k \in 1 .. N - 1  PROVE rest[k] = processes[k]
    <3>1. k \in 1 .. N - 1 - 1 + 1 /\ 1 + k - 1 = k  BY <1>1
    <3> QED BY <2>4, <3>1
  <2> QED BY <2>4, <2>5, <2>6
<1>9. exited' = (rest = <<>>)
  BY DEF Finish
<1>10. CASE rest = <<>>
  <2>1. processes' = <<>>  BY <1>10 DEF Finish, Waked
  <2>2. TypeOK'
    <3>1. done' \subseteq Foodule  BY <1>2, <1>6 DEF IInv, TypeOK
    <3>2. exited' = TRUE  BY <1>9, <1>10
    <3> QED BY <1>3, <1>6, <2>1, <3>1, <3>2 DEF IInv, TypeOK
  <2>3. FileIsRebuilt'  BY <1>6, <1>9, <1>10, <2>1 DEF FileIsRebuilt
  <2>4. Len(processes') = 0  BY <2>1
  <2>5. PassedOver' /\ Fresh' /\ WaitsForNext'
    BY <2>1, <2>4 DEF PassedOver, Fresh, WaitsForNext
  <2> QED BY <1>7, <2>2, <2>3, <2>5 DEF IInv
<1>11. CASE rest # <<>>
  <2> DEFINE K == N - 1
             w == processes[K]
             q == Woken(w, done')
  <2>1. K \in Nat /\ K \in 1 .. K /\ K \in 1 .. N /\ K + 1 = N
    BY <1>1, <1>8, <1>11, EmptySeq
  <2>2. w \in RebuildProcess /\ w.remaining # <<>> /\ Head(w.remaining) = p.foodule
    <3>1. w \in RebuildProcess  BY <1>1, <2>1, ElementOfSeq
    <3> QED BY <2>1, <3>1 DEF IInv, WaitsForNext
  <2>3. w.remaining \in Seq(Foodule) /\ Tail(w.remaining) \in Seq(Foodule)
    BY <2>2, HeadTailProperties DEF RebuildProcess
  <2>4. done' \subseteq Foodule
    BY <1>2, <1>6 DEF IInv, TypeOK
  <2>5. /\ q \in RebuildProcess /\ q.foodule = w.foodule /\ q.done = done'
        /\ q.remaining = Tail(w.remaining)
    BY <2>2, <2>3, <2>4 DEF Woken, MovedOn, RebuildProcess
  <2>6. processes' = [rest EXCEPT ![K] = q]
    BY <1>8, <1>11, <2>1 DEF Finish, Waked
  <2> HIDE DEF q
  <2>7. /\ processes' \in Seq(RebuildProcess) /\ Len(processes') = K
        /\ processes'[K] = q
        /\ \A k \in 1 .. K - 1 : processes'[k] = processes[k]
    BY <1>8, <2>1, <2>5, <2>6, ExceptSeq
  <2>8. processes' # <<>>
    BY <2>1, <2>7
  <2>9. TypeOK'
    BY <1>3, <1>6, <1>9, <2>4, <2>7 DEF IInv, TypeOK
  <2>10. FileIsRebuilt'
    BY <1>6, <2>8 DEF FileIsRebuilt
  <2>11. PassedOver'
    <3> SUFFICES ASSUME NEW k \in 1 .. K,
                        NEW v \in Range(dependencies[processes'[k].foodule])
                 PROVE  v \in done' \/ v \in Range(processes'[k].remaining)
      BY <1>3, <2>7 DEF PassedOver
    <3>1. CASE k \in 1 .. K - 1
      <4>1. v \in done \/ v \in Range(processes[k].remaining)
        BY <2>1, <2>7, <3>1 DEF IInv, PassedOver
      <4> QED BY <1>6, <2>7, <3>1, <4>1
    <3>2. CASE k = K
      <4>1. v \in done \/ v \in Range(w.remaining)
        BY <2>1, <2>5, <2>7, <3>2 DEF IInv, PassedOver
      <4>2. v \in Range(w.remaining) => v = p.foodule \/ v \in Range(Tail(w.remaining))
        BY <2>2, <2>3, RangeOfTail
      <4> QED BY <1>6, <2>5, <2>7, <3>2, <4>1, <4>2
    <3>3. k \in 1 .. K - 1 \/ k = K  BY <2>1, LastOrBefore
    <3> QED BY <3>1, <3>2, <3>3
  <2>12. Fresh'
    BY <2>5, <2>7 DEF Fresh
  <2>13. WaitsForNext'
    <3> SUFFICES ASSUME NEW k \in 1 .. K - 1
                 PROVE  /\ processes'[k].remaining # <<>>
                        /\ Head(processes'[k].remaining) = processes'[k + 1].foodule
      BY <2>7 DEF WaitsForNext
    <3>1. processes'[k] = processes[k] /\ processes'[k + 1].foodule = processes[k + 1].foodule
      BY <2>1, <2>5, <2>7
    <3> QED BY <2>1, <3>1 DEF IInv, WaitsForNext
  <2> QED BY <1>7, <2>9, <2>10, <2>11, <2>12, <2>13 DEF IInv
<1> QED BY <1>10, <1>11

(* Every step keeps the invariant. *)
LEMMA NextHolds == IInv /\ [Next]_vars => IInv'
<1> SUFFICES ASSUME IInv, [Next]_vars PROVE IInv'  OBVIOUS
<1>1. CASE Main
  <2>1. target \in Foodule  BY DEF IInv, TypeOK
  <2> QED BY <1>1, <2>1, StartKeeps DEF Main
<1>2. CASE AlreadyRebuilt
  BY <1>2, AlreadyRebuiltKeeps
<1>3. CASE Fork
  <2> DEFINE p == processes[Len(processes)]
  <2>1. processes # <<>> /\ p.remaining # <<>> /\ Dependency = Head(p.remaining)
    BY <1>3 DEF Fork, Running, Dependency, Last
  <2>2. Dependency \in Foodule
    <3>1. p \in RebuildProcess
      <4>1. Len(processes) \in 1 .. Len(processes)
        BY <2>1, EmptySeq DEF IInv, TypeOK
      <4> QED BY <4>1, ElementOfSeq DEF IInv, TypeOK
    <3> QED BY <2>1, <3>1, HeadTailProperties DEF RebuildProcess
  <2> QED BY <1>3, <2>1, <2>2, StartKeeps DEF Fork
<1>4. CASE Finish
  BY <1>4, FinishKeeps
<1>5. CASE UNCHANGED vars
  <2>1. TypeOK'  BY <1>5 DEF vars, IInv, TypeOK
  <2>2. FileIsRebuilt'  BY <1>5 DEF vars, IInv, FileIsRebuilt
  <2>3. PassedOver'  BY <1>5 DEF vars, IInv, PassedOver
  <2>4. Fresh' /\ WaitsForNext'  BY <1>5 DEF vars, IInv, Fresh, WaitsForNext
  <2>5. InOrder'  BY <1>5 DEF vars, IInv, InOrder
  <2> QED BY <2>1, <2>2, <2>3, <2>4, <2>5 DEF IInv
<1> QED BY <1>1, <1>2, <1>3, <1>4, <1>5 DEF Next

(***************************************************************************)
(* InOrder for every number of foodules: each is rebuilt once, and after   *)
(* all that foodep.txt lists for it (rebuild.c:84-136).                    *)
(***************************************************************************)
THEOREM OrderCorrect == ASSUME GraphAssumption PROVE Spec => []InOrder
<1>1. Init => IInv  BY InitHolds
<1>2. IInv /\ [Next]_vars => IInv'  BY NextHolds
<1>3. IInv => InOrder  BY DEF IInv
<1> QED BY <1>1, <1>2, <1>3, PTL DEF Spec
-----------------------------------------------------------------------------
(* LA9: numbers, and functions defined from one number to the next *)

LEMMA LeastNatural ==
    ASSUME NEW T, T \subseteq Nat, T # {}
    PROVE  \E m \in T : \A k \in T : m <= k
<1>1. IsWellFoundedOn(OpToRel(<, Nat), Nat)
    BY NatLessThanWellFounded
<1>2. ASSUME NEW Rel, IsWellFoundedOn(Rel, Nat)
      PROVE  \E m \in T : \A k \in T : ~(<<k, m>> \in Rel)
    BY <1>2, WFMin
<1>3. PICK m \in T : \A k \in T : ~(<<k, m>> \in OpToRel(<, Nat))
    BY <1>1, <1>2, Zenon
<1>4. \A k, j \in Nat : k < j => <<k, j>> \in OpToRel(<, Nat)
    BY DEF OpToRel
<1>5. \A k \in T : ~(k < m)
    BY <1>3, <1>4, Zenon
<1> HIDE <1>1, <1>3, <1>4
<1> QED BY <1>5

(* What holds of 0 and goes on to the next number holds up to top. *)
LEMMA UpTo ==
    ASSUME NEW top \in Nat, NEW Holds, 0 \in Holds,
           \A k \in 1 .. top : k - 1 \in Holds => k \in Holds
    PROVE  \A k \in 0 .. top : k \in Holds
<1> DEFINE T == {k \in 0 .. top : k \notin Holds}
<1> SUFFICES ASSUME T # {} PROVE FALSE
    OBVIOUS
<1>1. PICK m \in T : \A k \in T : m <= k
  <2>1. T \subseteq Nat
    OBVIOUS
  <2> HIDE DEF T
  <2> QED BY <2>1, LeastNatural
<1>2. m \in 1 .. top
    BY <1>1
<1>3. m - 1 \notin T
    BY <1>1, <1>2
<1>4. m - 1 \in Holds
    BY <1>2, <1>3
<1> QED BY <1>1, <1>2, <1>4

(* A step that is a function can be taken top times. *)
Runs(f, top, start, step) ==
    f[0] = start /\ \A k \in 1 .. top : f[k] = step[k][f[k - 1]]

LEMMA Recursion ==
    ASSUME NEW top \in Nat, NEW D, NEW start \in D, NEW step \in [1 .. top -> [D -> D]]
    PROVE  \E f \in [0 .. top -> D] : Runs(f, top, start, step)
<1> DEFINE Is(m, f) == f[0] = start /\ \A k \in 1 .. m : f[k] = step[k][f[k - 1]]
           Holds == {m \in Nat : \E f \in [0 .. top -> D] : Is(m, f)}
<1>1. 0 \in Holds
  <2>1. [k \in 0 .. top |-> start] \in [0 .. top -> D] /\ Is(0, [k \in 0 .. top |-> start])
    OBVIOUS
  <2> QED BY <2>1
<1>2. ASSUME NEW m \in 1 .. top, m - 1 \in Holds PROVE m \in Holds
  <2>1. PICK f \in [0 .. top -> D] : Is(m - 1, f)
    BY <1>2
  <2> DEFINE g == [f EXCEPT ![m] = step[m][f[m - 1]]]
  <2>2. g \in [0 .. top -> D]
    <3>1. f[m - 1] \in D
        OBVIOUS
    <3> QED BY <3>1
  <2>3. g[0] = start /\ \A k \in 1 .. m : g[k] = step[k][g[k - 1]]
    <3>1. \A k \in 0 .. m - 1 : g[k] = f[k]
        BY <2>1
    <3>2. g[m] = step[m][f[m - 1]]
        OBVIOUS
    <3>3. \A k \in 1 .. m - 1 : k \in 0 .. m - 1 /\ k - 1 \in 0 .. m - 1
        OBVIOUS
    <3> HIDE DEF g
    <3> QED BY <2>1, <3>1, <3>2, <3>3
  <2>4. \E h \in [0 .. top -> D] : Is(m, h)
    BY <2>2, <2>3
  <2> QED BY <2>4
<1>3. top \in Holds
  <2> HIDE DEF Holds
  <2>1. \A k \in 1 .. top : k - 1 \in Holds => k \in Holds
    BY <1>2
  <2>2. \A k \in 0 .. top : k \in Holds
    BY <1>1, <2>1, UpTo
  <2> QED BY <2>2
<1>4. PICK f \in [0 .. top -> D] : Is(top, f)
    BY <1>3
<1> QED BY <1>4 DEF Runs

-----------------------------------------------------------------------------
(* LA9: the ring as a sequence *)

RingOK(q) ==
    /\ q \in [array : [Paging!Process -> Paging!Process],
              front : -1 .. num_processes - 1, rear : -1 .. num_processes - 1,
              size : 0 .. num_processes, capacity : {num_processes}]
    /\ IF q.size = 0 THEN q.front = -1 /\ q.rear = -1
       ELSE q.front # -1 /\ q.rear = (q.front + q.size - 1) % num_processes

LEMMA Sizes == num_processes \in Nat /\ num_processes > 0 /\ 0 \in Paging!Process
BY InputAssumption DEF Paging!MemoryAssumption, Paging!Process

(* An index that has run over the end of the array comes in at its start. *)
LEMMA Wraps ==
    ASSUME NEW k \in 0 .. 2 * num_processes - 1
    PROVE  k % num_processes = IF k < num_processes THEN k ELSE k - num_processes
BY Sizes

(* Places a whole round apart are the same. *)
LEMMA WrapsBack ==
    ASSUME NEW j \in 0 .. 2 * num_processes - 1, NEW k \in 0 .. 2 * num_processes - 1,
           j = k \/ j = k - num_processes
    PROVE  j % num_processes = k % num_processes
<1>1. CASE j = k
    BY <1>1
<1>2. CASE j = k - num_processes
  <2>1. j < num_processes /\ ~(k < num_processes)
    BY <1>2, Sizes
  <2>2. j % num_processes = j
    BY <2>1, Wraps
  <2>3. k % num_processes = k - num_processes
    BY <2>1, Wraps
  <2> QED BY <1>2, <2>2, <2>3
<1> QED BY <1>1, <1>2

(* What is in the queue is a sequence of processes. *)
LEMMA ItemsTyped ==
    ASSUME NEW q, RingOK(q)
    PROVE  /\ Paging!Items(q) \in Seq(Paging!Process) /\ Len(Paging!Items(q)) = q.size
           /\ q.size \in Nat
           /\ \A i \in 1 .. q.size :
                 /\ (q.front + i - 1) % num_processes \in Paging!Process
                 /\ Paging!Items(q)[i] = q.array[(q.front + i - 1) % num_processes]
<1>1. /\ q.size \in 0 .. num_processes /\ q.capacity = num_processes
      /\ q.array \in [Paging!Process -> Paging!Process]
      /\ q.size # 0 => q.front \in 0 .. num_processes - 1
  BY DEF RingOK
<1>2. ASSUME NEW i \in 1 .. q.size
      PROVE  (q.front + i - 1) % num_processes \in Paging!Process
  <2>1. q.front + i - 1 \in 0 .. 2 * num_processes - 1
    BY <1>1, Sizes
  <2> QED BY <2>1, Wraps, Sizes DEF Paging!Process
<1>3. Paging!Items(q) = [i \in 1 .. q.size |-> q.array[(q.front + i - 1) % num_processes]]
  BY <1>1 DEF Paging!Items
<1>4. Paging!Items(q) \in [1 .. q.size -> Paging!Process]
  BY <1>1, <1>2, <1>3
<1>5. q.size \in Nat
  BY <1>1
<1>6. Paging!Items(q) \in Seq(Paging!Process) /\ Len(Paging!Items(q)) = q.size
  BY <1>4, <1>5
<1>7. \A i \in 1 .. q.size :
         Paging!Items(q)[i] = q.array[(q.front + i - 1) % num_processes]
  BY <1>3
<1> QED BY <1>2, <1>5, <1>6, <1>7

(* enqueue puts an item behind the others, if there is room. *)
LEMMA EnqueueAppends ==
    ASSUME NEW q, RingOK(q), q.size < num_processes, NEW p \in Paging!Process
    PROVE  /\ RingOK(Paging!enqueue(q, p))
           /\ Paging!Items(Paging!enqueue(q, p)) = Append(Paging!Items(q), p)
<1> DEFINE e == Paging!enqueue(q, p)
           N == num_processes
           rear == (q.rear + 1) % N
<1>1. /\ q.size \in 0 .. N - 1 /\ q.capacity = N
      /\ q.array \in [Paging!Process -> Paging!Process]
      /\ q.rear \in -1 .. N - 1 /\ q.front \in -1 .. N - 1
      /\ q.size # 0 => q.front \in 0 .. N - 1 /\ q.rear = (q.front + q.size - 1) % N
      /\ q.size = 0 => q.front = -1 /\ q.rear = -1
  BY Sizes DEF RingOK
<1>2. rear \in 0 .. N - 1 /\ (q.size = 0 => rear = 0)
      /\ (q.size # 0 => rear = (q.front + q.size) % N)
  <2>1. CASE q.size = 0
    BY <1>1, <2>1, Sizes, Wraps
  <2>2. CASE q.size # 0
    <3>1. q.front + q.size - 1 \in 0 .. 2 * N - 1 /\ q.front + q.size \in 0 .. 2 * N - 1
      BY <1>1, <2>2, Sizes
    <3>2. q.rear + 1 \in 0 .. 2 * N - 1
      BY <1>1, Sizes
    <3> QED BY <1>1, <2>2, <3>1, <3>2, Wraps, Sizes
  <2> QED BY <2>1, <2>2
<1>3. e = [q EXCEPT !.rear = rear, !.array = [@ EXCEPT ![rear] = p],
                    !.size = q.size + 1, !.front = IF @ = -1 THEN 0 ELSE @]
  BY <1>1 DEF Paging!enqueue
<1> HIDE DEF rear, e
<1>4. /\ e.rear = rear /\ e.array = [q.array EXCEPT ![rear] = p]
      /\ e.size = q.size + 1 /\ e.capacity = N
      /\ e.front = IF q.size = 0 THEN 0 ELSE q.front
  BY <1>1, <1>3 DEF RingOK
<1>5. RingOK(e)
  <2>1. e \in [array : [Paging!Process -> Paging!Process],
               front : -1 .. N - 1, rear : -1 .. N - 1,
               size : 0 .. N, capacity : {N}]
    <3>1. e = [q EXCEPT !.rear = e.rear, !.array = e.array,
                        !.size = e.size, !.front = e.front]
      BY <1>3 DEF RingOK
    <3>2. e.array \in [Paging!Process -> Paging!Process]
      BY <1>1, <1>4
    <3>3. e.rear \in -1 .. N - 1 /\ e.size \in 0 .. N /\ e.front \in -1 .. N - 1
      BY <1>1, <1>2, <1>4, Sizes
    <3> QED BY <3>1, <3>2, <3>3 DEF RingOK
  <2>2. e.front # -1 /\ e.size # 0 /\ e.rear = (e.front + e.size - 1) % N
    <3>1. CASE q.size = 0
      BY <1>1, <1>2, <1>4, <3>1, Wraps, Sizes
    <3>2. CASE q.size # 0
      <4>1. e.front = q.front /\ e.size - 1 = q.size /\ q.front # -1
        BY <1>1, <1>4, <3>2
      <4>2. q.front + (q.size + 1) - 1 = q.front + q.size
        BY <1>1
      <4> QED BY <1>1, <1>2, <1>4, <3>2, <4>1, <4>2
    <3> QED BY <3>1, <3>2
  <2> QED BY <2>1, <2>2 DEF RingOK
<1>6. Paging!Items(e) = Append(Paging!Items(q), p)
  <2>1. /\ Paging!Items(q) \in Seq(Paging!Process) /\ Len(Paging!Items(q)) = q.size
        /\ \A i \in 1 .. q.size :
              Paging!Items(q)[i] = q.array[(q.front + i - 1) % N]
    BY ItemsTyped
  <2>2. /\ Paging!Items(e) \in Seq(Paging!Process) /\ Len(Paging!Items(e)) = q.size + 1
        /\ \A i \in 1 .. q.size + 1 :
              Paging!Items(e)[i] = e.array[(e.front + i - 1) % N]
    <3>1. e.size = q.size + 1
      BY <1>4
    <3>2. /\ Paging!Items(e) \in Seq(Paging!Process) /\ Len(Paging!Items(e)) = e.size
          /\ \A i \in 1 .. e.size :
                Paging!Items(e)[i] = e.array[(e.front + i - 1) % N]
      BY ONLY <1>5, ItemsTyped
    <3> QED BY ONLY <3>1, <3>2
  <2>3. /\ Append(Paging!Items(q), p) \in Seq(Paging!Process)
        /\ Len(Append(Paging!Items(q), p)) = q.size + 1
        /\ \A i \in 1 .. q.size : Append(Paging!Items(q), p)[i] = Paging!Items(q)[i]
        /\ Append(Paging!Items(q), p)[q.size + 1] = p
    BY <2>1, AppendProperties
  <2>4. ASSUME NEW i \in 1 .. q.size + 1
        PROVE  Paging!Items(e)[i] = Append(Paging!Items(q), p)[i]
    <3>1. CASE i = q.size + 1
      <4>1. (e.front + i - 1) % N = rear
        BY <1>1, <1>4, <1>5, <3>1 DEF RingOK
      <4>2. e.array[rear] = p
        BY <1>1, <1>2, <1>4 DEF Paging!Process
      <4> QED BY <2>2, <2>3, <3>1, <4>1, <4>2
    <3>2. CASE i \in 1 .. q.size
      <4>1. /\ q.size # 0 /\ e.front = q.front /\ q.front \in 0 .. N - 1
            /\ rear = (q.front + q.size) % N
        BY <1>1, <1>2, <1>4, <3>2
      <4>2. /\ q.front + i - 1 \in 0 .. 2 * N - 1 /\ q.front + q.size \in 0 .. 2 * N - 1
            /\ (q.front + i - 1) % N \in 0 .. N - 1
        BY <1>1, <3>2, <4>1, Wraps, Sizes
      <4>3. (q.front + i - 1) % N # rear
        BY <1>1, <3>2, <4>1, <4>2, Wraps, Sizes
      <4>4. e.array[(q.front + i - 1) % N] = q.array[(q.front + i - 1) % N]
        BY <1>1, <1>4, <4>2, <4>3 DEF Paging!Process
      <4> QED BY <2>1, <2>2, <2>3, <3>2, <4>1, <4>4
    <3>3. i = q.size + 1 \/ i \in 1 .. q.size
      BY <1>1
    <3> QED BY <3>1, <3>2, <3>3
  <2> QED BY <2>2, <2>3, <2>4, SeqEqual
<1> QED BY <1>5, <1>6 DEF e

(* dequeue takes the first item and leaves the others. *)
LEMMA DequeueTail ==
    ASSUME NEW q, RingOK(q), q.size # 0
    PROVE  /\ RingOK(Paging!Dequeued(q))
           /\ Paging!Items(Paging!Dequeued(q)) = Tail(Paging!Items(q))
           /\ Paging!First(q) = Head(Paging!Items(q))
           /\ Paging!Items(q) # <<>>
<1> DEFINE d == Paging!Dequeued(q)
           N == num_processes
<1>1. /\ q.size \in 1 .. N /\ q.capacity = N
      /\ q.array \in [Paging!Process -> Paging!Process]
      /\ q.front \in 0 .. N - 1 /\ q.rear = (q.front + q.size - 1) % N
      /\ q.rear \in -1 .. N - 1
  BY Sizes DEF RingOK
<1>2. /\ Paging!Items(q) \in Seq(Paging!Process) /\ Len(Paging!Items(q)) = q.size
      /\ \A i \in 1 .. q.size :
            Paging!Items(q)[i] = q.array[(q.front + i - 1) % N]
  BY ItemsTyped
<1>3. Paging!Items(q) # <<>> /\ Head(Paging!Items(q)) = Paging!Items(q)[1]
      /\ Tail(Paging!Items(q)) \in Seq(Paging!Process)
      /\ Len(Tail(Paging!Items(q))) = q.size - 1
      /\ \A i \in 1 .. q.size - 1 : Tail(Paging!Items(q))[i] = Paging!Items(q)[i + 1]
  <2>1. Paging!Items(q) # <<>>
    BY <1>1, <1>2, EmptySeq
  <2> QED BY <1>1, <1>2, <2>1, HeadTailProperties
<1>4. Paging!First(q) = Head(Paging!Items(q))
  <2>1. (q.front + 1 - 1) % N = q.front
    BY <1>1, Wraps, Sizes
  <2> QED BY <1>1, <1>2, <1>3, <2>1 DEF Paging!First
<1>5. /\ d.size = q.size - 1 /\ d.array = q.array /\ d.capacity = N
      /\ q.size = 1 => d.front = -1 /\ d.rear = -1
      /\ q.size # 1 => d.front = (q.front + 1) % N /\ d.rear = q.rear
  BY <1>1 DEF Paging!Dequeued, RingOK
<1>6. q.size # 1 => d.front \in 0 .. N - 1
                    /\ (d.front = q.front + 1 \/ d.front = q.front + 1 - N)
  <2> SUFFICES ASSUME q.size # 1
               PROVE  /\ d.front \in 0 .. N - 1
                      /\ d.front = q.front + 1 \/ d.front = q.front + 1 - N
    OBVIOUS
  <2>1. d.front = (q.front + 1) % N
    BY <1>5
  <2>2. q.front + 1 \in 0 .. 2 * N - 1
    BY <1>1, Sizes
  <2> HIDE DEF d
  <2> QED BY <1>1, <2>1, <2>2, Wraps, Sizes
<1>7. ASSUME NEW i \in 1 .. q.size - 1
      PROVE  (d.front + i - 1) % N = (q.front + (i + 1) - 1) % N
  <2>1. d.front + i - 1 \in 0 .. 2 * N - 1 /\ q.front + (i + 1) - 1 \in 0 .. 2 * N - 1
    BY <1>1, <1>6, <1>7, Sizes
  <2>2. \/ d.front + i - 1 = q.front + (i + 1) - 1
        \/ d.front + i - 1 = (q.front + (i + 1) - 1) - N
    <3>1. q.size # 1 /\ i \in Nat /\ q.front \in Nat /\ N \in Nat
      BY <1>1, <1>7, Sizes
    <3>2. d.front = q.front + 1 \/ d.front = q.front + 1 - N
      BY <1>6, <3>1
    <3> HIDE DEF d
    <3> QED BY <3>1, <3>2
  <2> DEFINE x == d.front + i - 1
             y == q.front + (i + 1) - 1
  <2> HIDE DEF d
  <2>3. x \in 0 .. 2 * N - 1 /\ y \in 0 .. 2 * N - 1 /\ (x = y \/ x = y - N)
    BY <2>1, <2>2
  <2> HIDE DEF x, y
  <2>4. x % N = y % N
    BY <2>3, WrapsBack
  <2> QED BY <2>4 DEF x, y
<1>8. RingOK(d)
  <2>1. d \in [array : [Paging!Process -> Paging!Process],
               front : -1 .. N - 1, rear : -1 .. N - 1,
               size : 0 .. N, capacity : {N}]
    <3>1. d = [q EXCEPT !.size = d.size, !.front = d.front, !.rear = d.rear]
      BY DEF Paging!Dequeued, RingOK
    <3>2. d.front \in -1 .. N - 1 /\ d.rear \in -1 .. N - 1 /\ d.size \in 0 .. N
      BY <1>1, <1>5, <1>6, Sizes
    <3> HIDE DEF d
    <3> QED BY <3>1, <3>2 DEF RingOK
  <2>2. CASE q.size = 1
    BY <1>5, <2>1, <2>2 DEF RingOK
  <2>3. CASE q.size # 1
    <3>1. (d.front + (q.size - 1) - 1) % N = (q.front + ((q.size - 1) + 1) - 1) % N
      BY <1>1, <1>7, <2>3
    <3>2. d.front # -1 /\ d.size # 0 /\ d.rear = (d.front + d.size - 1) % N
      BY <1>1, <1>5, <1>6, <2>3, <3>1
    <3> HIDE DEF d
    <3> QED BY <2>1, <3>2 DEF RingOK
  <2> QED BY <2>2, <2>3
<1>9. Paging!Items(d) = Tail(Paging!Items(q))
  <2> HIDE DEF d
  <2>1. /\ Paging!Items(d) \in Seq(Paging!Process) /\ Len(Paging!Items(d)) = q.size - 1
        /\ \A i \in 1 .. q.size - 1 :
              Paging!Items(d)[i] = q.array[(d.front + i - 1) % N]
    BY <1>5, <1>8, ItemsTyped
  <2>2. ASSUME NEW i \in 1 .. q.size - 1
        PROVE  Paging!Items(d)[i] = Tail(Paging!Items(q))[i]
    <3>1. i + 1 \in 1 .. q.size
      BY <1>1
    <3>2. Tail(Paging!Items(q))[i] = q.array[(q.front + (i + 1) - 1) % N]
      BY <1>2, <1>3, <3>1
    <3> QED BY <1>7, <2>1, <3>2
  <2> QED BY <1>3, <2>1, <2>2, SeqEqual
<1> QED BY <1>3, <1>4, <1>8, <1>9

-----------------------------------------------------------------------------
(* LA9: queues that hold a process once *)

(* An element that is new keeps a sequence free of repetition. *)
LEMMA AppendKeepsDistinct ==
    ASSUME NEW S, NEW s \in Seq(S), IsInjective(s), NEW e \in S, e \notin Range(s)
    PROVE  Append(s, e) \in Seq(S) /\ IsInjective(Append(s, e))
<1> DEFINE t == Append(s, e)
<1>1. /\ t \in Seq(S) /\ Len(t) = Len(s) + 1
      /\ \A i \in 1 .. Len(s) : t[i] = s[i]
      /\ t[Len(s) + 1] = e
  BY AppendProperties
<1>2. \A i \in 1 .. Len(s) : s[i] # e
  BY DEF Range
<1>3. \A i, j \in 1 .. Len(s) : s[i] = s[j] => i = j
  BY DEF IsInjective
<1> HIDE DEF t
<1>4. \A i, j \in 1 .. Len(s) + 1 : t[i] = t[j] => i = j
  <2>1. \A i \in 1 .. Len(s) + 1 : i \in 1 .. Len(s) \/ i = Len(s) + 1
    OBVIOUS
  <2> QED BY <1>1, <1>2, <1>3, <2>1
<1>5. IsInjective(t)
  BY <1>1, <1>4 DEF IsInjective
<1> QED BY <1>1, <1>5 DEF t

Waiting(q)  == Range(Paging!Items(q))
Distinct(q) == RingOK(q) /\ IsInjective(Paging!Items(q))

(* A queue of distinct processes is not full while one is missing. *)
LEMMA NotFull ==
    ASSUME NEW q, Distinct(q), NEW p \in Paging!Process, p \notin Waiting(q)
    PROVE  q.size < num_processes
<1> DEFINE s == Paging!Items(q)
           others == Paging!Process \ {p}
<1>1. s \in Seq(Paging!Process) /\ Len(s) = q.size /\ q.size \in Nat
  BY ItemsTyped DEF Distinct
<1>2. IsFiniteSet(others) /\ Cardinality(others) = num_processes - 1
  <2>1. IsFiniteSet(Paging!Process) /\ Cardinality(Paging!Process) = num_processes
    BY Sizes, FS_Interval DEF Paging!Process
  <2> QED BY <2>1, FS_RemoveElement
<1>3. IsFiniteSet(1 .. q.size) /\ Cardinality(1 .. q.size) = q.size
  <2>1. 1 \in Int /\ q.size \in Int
    BY <1>1
  <2>2. /\ IsFiniteSet(1 .. q.size)
        /\ Cardinality(1 .. q.size) = IF 1 > q.size THEN 0 ELSE q.size - 1 + 1
    BY <2>1, FS_Interval
  <2> QED BY <1>1, <2>2
<1> HIDE DEF s, others
<1>4. \A i \in 1 .. q.size : s[i] \in others
  BY <1>1 DEF Waiting, Range, s, others
<1>5. s \in [1 .. q.size -> others]
  BY <1>1, <1>4
<1>6. \A i, j \in 1 .. q.size : s[i] = s[j] => i = j
  BY <1>1 DEF Distinct, IsInjective, s
<1>7. s \in Injection(1 .. q.size, others)
  BY <1>5, <1>6 DEF Injection, IsInjective
<1>8. Cardinality(1 .. q.size) <= Cardinality(others)
  BY <1>2, <1>7, FS_Injection
<1> QED BY <1>1, <1>2, <1>3, <1>8, Sizes

LEMMA Enqueued ==
    ASSUME NEW q, Distinct(q), NEW p \in Paging!Process, p \notin Waiting(q)
    PROVE  /\ Distinct(Paging!enqueue(q, p))
           /\ Waiting(Paging!enqueue(q, p)) = Waiting(q) \cup {p}
<1> DEFINE s == Paging!Items(q)
           t == Append(s, p)
<1>1. RingOK(Paging!enqueue(q, p)) /\ Paging!Items(Paging!enqueue(q, p)) = t
  BY NotFull, EnqueueAppends DEF Distinct
<1>2. s \in Seq(Paging!Process)
  BY ItemsTyped DEF Distinct
<1> HIDE DEF s
<1>3. Range(t) = Range(s) \cup {p}
  BY <1>2, RangeOfAppend
<1>4. IsInjective(s) /\ p \notin Range(s)
  BY DEF Distinct, Waiting, s
<1>5. IsInjective(t)
  BY <1>2, <1>4, AppendKeepsDistinct
<1> QED BY <1>1, <1>3, <1>5 DEF Distinct, Waiting, s

LEMMA TakenOut ==
    ASSUME NEW q, Distinct(q), q.size # 0
    PROVE  /\ Distinct(Paging!Dequeued(q))
           /\ Paging!First(q) \in Waiting(q) /\ Paging!First(q) \in Paging!Process
           /\ Waiting(Paging!Dequeued(q)) = Waiting(q) \ {Paging!First(q)}
<1> DEFINE s == Paging!Items(q)
           t == Tail(s)
<1>1. /\ RingOK(Paging!Dequeued(q)) /\ Paging!Items(Paging!Dequeued(q)) = t
      /\ Paging!First(q) = Head(s) /\ s # <<>>
  BY DequeueTail DEF Distinct
<1>2. s \in Seq(Paging!Process)
  BY ItemsTyped DEF Distinct
<1>3. \A i, j \in 1 .. Len(s) : s[i] = s[j] => i = j
  BY <1>2 DEF Distinct, IsInjective
<1>4. s # <<>>
  BY <1>1
<1> HIDE DEF s
<1>5. /\ Head(s) = s[1] /\ Head(s) \in Paging!Process /\ Len(s) \in Nat /\ Len(s) # 0
      /\ t \in Seq(Paging!Process) /\ Len(t) = Len(s) - 1
      /\ \A i \in 1 .. Len(t) : t[i] = s[i + 1]
  BY <1>2, <1>4, HeadTailProperties, EmptySeq
<1> HIDE DEF t
<1>6. Head(s) \in Range(s)
  BY <1>2, <1>5 DEF Range
<1>7. \A i, j \in 1 .. Len(t) : t[i] = t[j] => i = j
  <2>1. \A i \in 1 .. Len(t) : i + 1 \in 1 .. Len(s)
    BY <1>5
  <2> QED BY <1>3, <1>5, <2>1
<1>8. IsInjective(t)
  BY <1>5, <1>7 DEF IsInjective
<1>9. Range(t) = Range(s) \ {Head(s)}
  <2>1. ASSUME NEW i \in 1 .. Len(t)
        PROVE  t[i] \in Range(s) /\ t[i] # Head(s)
    <3>1. i + 1 \in 1 .. Len(s) /\ i + 1 # 1 /\ 1 \in 1 .. Len(s) /\ t[i] = s[i + 1]
      BY <1>5
    <3> QED BY <1>2, <1>3, <1>5, <3>1 DEF Range
  <2>2. ASSUME NEW i \in 1 .. Len(s), s[i] # Head(s)
        PROVE  s[i] \in Range(t)
    <3>1. i - 1 \in 1 .. Len(t) /\ (i - 1) + 1 = i
      BY <1>5, <2>2
    <3>2. t[i - 1] = s[i]
      BY <1>5, <3>1
    <3> QED BY <1>5, <3>1, <3>2 DEF Range
  <2> QED BY <1>2, <1>5, <2>1, <2>2 DEF Range
<1> QED BY <1>1, <1>5, <1>6, <1>8, <1>9 DEF Distinct, Waiting, s, t

(* Initially everybody is ready, in the order of search.txt. *)
LEMMA AllReadyIs ==
    Distinct(Paging!AllReady) /\ Waiting(Paging!AllReady) = Paging!Process
<1> DEFINE N == num_processes
           Rings == {q \in [array : [Paging!Process -> Paging!Process],
                           front : -1 .. N - 1, rear : -1 .. N - 1,
                           size : 0 .. N, capacity : {N}] : RingOK(q)}
           first == Paging!create_queue(N)
           step == [k \in 1 .. N |-> [q \in Rings |-> Paging!enqueue(q, k - 1)]]
           V == CHOOSE queue : queue =
                   [k \in 0 .. N |-> IF k = 0 THEN Paging!create_queue(N)
                                     ELSE Paging!enqueue(queue[k - 1], k - 1)]
<1>1. \A k \in 1 .. N : k - 1 \in Paging!Process
  BY Sizes DEF Paging!Process
<1>2. first \in Rings /\ first.size = 0 /\ RingOK(first)
  <2>1. 0 .. N - 1 = Paging!Process
    BY DEF Paging!Process
  <2>2. first = [array |-> [i \in Paging!Process |-> 0],
                 front |-> -1, rear |-> -1, size |-> 0, capacity |-> N]
    BY <2>1 DEF Paging!create_queue
  <2>3. [i \in Paging!Process |-> 0] \in [Paging!Process -> Paging!Process]
    BY Sizes
  <2> HIDE DEF first
  <2> QED BY <2>2, <2>3, Sizes DEF RingOK
<1>3. \A q : RingOK(q) => q \in Rings
  BY DEF RingOK
<1>4. ASSUME NEW q \in Rings, NEW k \in 1 .. N
      PROVE  Paging!enqueue(q, k - 1) \in Rings
  <2>1. CASE q.size = N
    <3>1. Paging!enqueue(q, k - 1) = q
      BY <2>1 DEF Paging!enqueue
    <3> QED BY <3>1
  <2>2. CASE q.size # N
    <3>1. RingOK(q) /\ q.size < N
      BY <2>2, Sizes
    <3> QED BY <1>1, <1>3, <3>1, EnqueueAppends
  <2> QED BY <2>1, <2>2
<1> HIDE DEF Rings, first
<1>5. PICK w \in [0 .. N -> Rings] : Runs(w, N, first, step)
  <2>1. step \in [1 .. N -> [Rings -> Rings]]
    BY <1>4
  <2> HIDE DEF step
  <2> QED BY <1>2, <2>1, Recursion, Sizes
<1>6. /\ w[0] = first
      /\ \A k \in 1 .. N : w[k] = Paging!enqueue(w[k - 1], k - 1)
  <2>1. \A k \in 1 .. N : w[k - 1] \in Rings
    BY Sizes
  <2> QED BY <1>5, <2>1 DEF Runs
<1>7. V = [k \in 0 .. N |-> IF k = 0 THEN Paging!create_queue(N)
                            ELSE Paging!enqueue(V[k - 1], k - 1)]
  <2>1. ASSUME NEW k \in 0 .. N
        PROVE  w[k] = IF k = 0 THEN Paging!create_queue(N)
                      ELSE Paging!enqueue(w[k - 1], k - 1)
    <3>1. k # 0 => k \in 1 .. N
      BY Sizes
    <3> QED BY <1>6, <3>1 DEF first
  <2>2. w = [k \in 0 .. N |-> IF k = 0 THEN Paging!create_queue(N)
                              ELSE Paging!enqueue(w[k - 1], k - 1)]
    BY <2>1
  <2> QED BY <2>2, Zenon
<1>8. Paging!AllReady = V[N]
  BY DEF Paging!AllReady
<1> HIDE DEF V
<1>9. /\ V[0] = first
      /\ \A k \in 1 .. N : V[k] = Paging!enqueue(V[k - 1], k - 1)
  <2>1. \A k \in 1 .. N : k \in 0 .. N /\ k # 0
    BY Sizes
  <2>2. 0 \in 0 .. N
    BY Sizes
  <2>3. V[0] = first
    BY <1>7, <2>2, Zenon DEF first
  <2>4. ASSUME NEW k \in 1 .. N PROVE V[k] = Paging!enqueue(V[k - 1], k - 1)
    BY <1>7, <2>1, Zenon
  <2> QED BY <2>3, <2>4
<1> DEFINE Holds == {k \in 0 .. N : Distinct(V[k]) /\ Waiting(V[k]) = 0 .. k - 1}
<1>10. 0 \in Holds
  <2>1. Paging!Items(first) \in Seq(Paging!Process) /\ Len(Paging!Items(first)) = 0
    BY <1>2, ItemsTyped
  <2>2. Paging!Items(first) = <<>>
    BY <2>1, EmptySeq
  <2>3. Distinct(first) /\ Waiting(first) = {}
    BY <1>2, <2>2 DEF Distinct, Waiting, IsInjective, Range
  <2> QED BY <1>9, <2>3, Sizes
<1>11. ASSUME NEW k \in 1 .. N, k - 1 \in Holds PROVE k \in Holds
  <2>1. k - 1 \in Paging!Process /\ k - 1 \notin Waiting(V[k - 1]) /\ Distinct(V[k - 1])
    BY <1>1, <1>11
  <2>2. Distinct(V[k]) /\ Waiting(V[k]) = Waiting(V[k - 1]) \cup {k - 1}
    BY <1>9, <2>1, Enqueued
  <2>3. 0 .. k - 1 = (0 .. (k - 1) - 1) \cup {k - 1} /\ k \in 0 .. N
    BY Sizes
  <2> QED BY <1>11, <2>2, <2>3
<1> HIDE DEF Holds
<1>12. \A k \in 0 .. N : k \in Holds
  BY <1>10, <1>11, UpTo, Sizes
<1>13. N \in 0 .. N /\ Paging!Process = 0 .. N - 1
  BY Sizes DEF Paging!Process
<1> QED BY <1>8, <1>12, <1>13 DEF Holds

-----------------------------------------------------------------------------
(* LA9: where the processes are *)

PagingTypes ==
    /\ is_completed \in [Paging!Process -> BOOLEAN]
    /\ is_swapped_out \in [Paging!Process -> BOOLEAN]
    /\ pc \in {"turn", "search", "return", "statistics"}
    /\ running \in Paging!Process /\ searching \in Paging!Process

(* Nobody is in the ready queue but those that have searches to make, are in *)
(* memory and have not got the turn; all of those are.                       *)
Placed ==
    /\ PagingTypes
    /\ Distinct(ready_queue) /\ Distinct(swapped_out_queue)
    /\ \A p \in Paging!Process :
          /\ is_swapped_out[p] <=> p \in Waiting(swapped_out_queue)
          /\ p \in Waiting(ready_queue) <=>
                ~is_completed[p] /\ ~is_swapped_out[p] /\ ~Paging!InTurn(p)
          /\ is_swapped_out[p] => ~is_completed[p]
    /\ pc = "search" => ~is_completed[searching] /\ ~is_swapped_out[searching]

LEMMA InitPlaced == Paging!Init => Placed
<1> SUFFICES ASSUME NEW job, Paging!Starts(job) PROVE Placed
  BY DEF Paging!Init
<1>1. /\ is_completed = [p \in Paging!Process |-> FALSE]
      /\ is_swapped_out = [p \in Paging!Process |-> FALSE]
      /\ ready_queue = Paging!AllReady
      /\ swapped_out_queue = Paging!create_queue(num_processes)
      /\ pc = "turn" /\ running = 0 /\ searching = 0
  BY DEF Paging!Starts
<1>2. PagingTypes
  BY <1>1, Sizes DEF PagingTypes
<1>3. RingOK(swapped_out_queue) /\ swapped_out_queue.size = 0
  <2>1. 0 .. num_processes - 1 = Paging!Process
    BY DEF Paging!Process
  <2>2. swapped_out_queue = [array |-> [i \in Paging!Process |-> 0],
                             front |-> -1, rear |-> -1, size |-> 0,
                             capacity |-> num_processes]
    BY <1>1, <2>1 DEF Paging!create_queue
  <2>3. [i \in Paging!Process |-> 0] \in [Paging!Process -> Paging!Process]
    BY Sizes
  <2> QED BY <2>2, <2>3, Sizes DEF RingOK
<1>4. Distinct(swapped_out_queue) /\ Waiting(swapped_out_queue) = {}
  <2>1. /\ Paging!Items(swapped_out_queue) \in Seq(Paging!Process)
        /\ Len(Paging!Items(swapped_out_queue)) = 0
    BY <1>3, ItemsTyped
  <2>2. Paging!Items(swapped_out_queue) = <<>>
    BY <2>1, EmptySeq
  <2> QED BY <1>3, <2>2 DEF Distinct, Waiting, IsInjective, Range
<1>5. \A p \in Paging!Process : ~Paging!InTurn(p)
  BY <1>1 DEF Paging!InTurn
<1> QED BY <1>1, <1>2, <1>4, <1>5, AllReadyIs DEF Placed

(* What a step does to a process and the queues, once their ring is forgotten. *)
LEMMA PlacedTurn == Placed /\ Paging!Turn => Placed'
<1> SUFFICES ASSUME Placed, Paging!Turn PROVE Placed'  OBVIOUS
<1> DEFINE p == Paging!First(ready_queue)
<1>1. /\ pc = "turn" /\ ready_queue.size # 0 /\ running' = p
      /\ ready_queue' = Paging!Dequeued(ready_queue)
      /\ UNCHANGED <<is_completed, is_swapped_out, swapped_out_queue>>
  BY DEF Paging!Turn, Paging!is_empty, Paging!progress
<1>2. /\ Distinct(ready_queue') /\ p \in Waiting(ready_queue) /\ p \in Paging!Process
      /\ Waiting(ready_queue') = Waiting(ready_queue) \ {p}
  BY <1>1, TakenOut DEF Placed
<1> HIDE DEF p
<1>3. ~is_completed[p] /\ ~is_swapped_out[p]
  BY <1>2 DEF Placed
<1>4. searching' = p /\ pc' = "search"
  BY <1>1, <1>3 DEF Paging!Turn, Paging!StartSearch
<1>5. \A o \in Paging!Process : ~Paging!InTurn(o) /\ (Paging!InTurn(o)' <=> o = p)
  BY <1>1, <1>4 DEF Paging!InTurn
<1>6. PagingTypes'
  BY <1>1, <1>2, <1>4 DEF Placed, PagingTypes
<1> QED BY <1>1, <1>2, <1>3, <1>4, <1>5, <1>6 DEF Placed

LEMMA PlacedSwapOut == Placed /\ Paging!SwapOut => Placed'
<1> SUFFICES ASSUME Placed, Paging!SwapOut PROVE Placed'  OBVIOUS
<1> DEFINE p == searching
<1>1. /\ pc = "search" /\ pc' = "return"
      /\ swapped_out_queue' = Paging!enqueue(swapped_out_queue, p)
      /\ is_swapped_out' = [is_swapped_out EXCEPT ![p] = TRUE]
      /\ UNCHANGED <<is_completed, ready_queue, running, searching>>
  BY DEF Paging!SwapOut, Paging!Probing, Paging!progress, Paging!search
<1>2. p \in Paging!Process /\ ~is_completed[p] /\ ~is_swapped_out[p]
  BY <1>1 DEF Placed, PagingTypes
<1>3. p \notin Waiting(swapped_out_queue)
  BY <1>2 DEF Placed
<1>4. /\ Distinct(swapped_out_queue')
      /\ Waiting(swapped_out_queue') = Waiting(swapped_out_queue) \cup {p}
  BY <1>1, <1>2, <1>3, Enqueued DEF Placed
<1>5. PagingTypes'
  BY <1>1, <1>2 DEF Placed, PagingTypes
<1>6. \A o \in Paging!Process :
         (Paging!InTurn(o) <=> o = p) /\ (Paging!InTurn(o)' <=> o = p)
  BY <1>1 DEF Paging!InTurn
<1>7. \A o \in Paging!Process : is_swapped_out'[o] <=> is_swapped_out[o] \/ o = p
  BY <1>1, <1>2 DEF Placed, PagingTypes
<1> QED BY <1>1, <1>2, <1>4, <1>5, <1>6, <1>7 DEF Placed

LEMMA PlacedEndSearch == Placed /\ Paging!EndSearch => Placed'
<1> SUFFICES ASSUME Placed, Paging!EndSearch PROVE Placed'  OBVIOUS
<1> DEFINE p == searching
<1>1. /\ pc = "search" /\ pc' = "return"
      /\ is_completed' = is_completed \/ is_completed' = [is_completed EXCEPT ![p] = TRUE]
      /\ UNCHANGED <<is_swapped_out, ready_queue, swapped_out_queue, running, searching>>
  BY DEF Paging!EndSearch, Paging!queues, Paging!search
<1>2. p \in Paging!Process /\ ~is_completed[p] /\ ~is_swapped_out[p]
  BY <1>1 DEF Placed, PagingTypes
<1>3. PagingTypes'
  BY <1>1, <1>2 DEF Placed, PagingTypes
<1>4. \A o \in Paging!Process :
         (Paging!InTurn(o) <=> o = p) /\ (Paging!InTurn(o)' <=> o = p)
  BY <1>1 DEF Paging!InTurn
<1>5. \A o \in Paging!Process : o # p => is_completed'[o] = is_completed[o]
  BY <1>1, <1>2 DEF Placed, PagingTypes
<1> QED BY <1>1, <1>2, <1>3, <1>4, <1>5 DEF Placed

(* The turn ends of process p, which has it. *)
LEMMA PlacedNextTurn ==
    ASSUME Placed, pc = "return", NEW p \in Paging!Process, p = searching, Paging!NextTurn(p)
    PROVE  Placed'
<1>1. /\ pc' = "turn"
      /\ UNCHANGED <<is_completed, is_swapped_out, swapped_out_queue, running, searching>>
      /\ IF is_completed[p] \/ is_swapped_out[p] THEN ready_queue' = ready_queue
         ELSE ready_queue' = Paging!enqueue(ready_queue, p)
  BY DEF Paging!NextTurn, Paging!progress, Paging!search
<1>2. \A o \in Paging!Process : (Paging!InTurn(o) <=> o = p) /\ ~Paging!InTurn(o)'
  BY <1>1 DEF Paging!InTurn
<1>3. p \notin Waiting(ready_queue)
  BY <1>2 DEF Placed
<1>4. PagingTypes'
  BY <1>1 DEF Placed, PagingTypes
<1>5. CASE is_completed[p] \/ is_swapped_out[p]
  BY <1>1, <1>2, <1>4, <1>5 DEF Placed
<1>6. CASE ~(is_completed[p] \/ is_swapped_out[p])
  <2>1. /\ Distinct(ready_queue')
        /\ Waiting(ready_queue') = Waiting(ready_queue) \cup {p}
    BY <1>1, <1>3, <1>6, Enqueued DEF Placed
  <2> QED BY <1>1, <1>2, <1>4, <1>6, <2>1 DEF Placed
<1> QED BY <1>5, <1>6

LEMMA PlacedSwapIn == Placed /\ Paging!SwapIn => Placed'
<1> SUFFICES ASSUME Placed, Paging!SwapIn PROVE Placed'  OBVIOUS
<1> DEFINE q == Paging!First(swapped_out_queue)
<1>1. /\ pc = "return" /\ searching = running /\ is_completed[running]
      /\ swapped_out_queue.size # 0
      /\ swapped_out_queue' = Paging!Dequeued(swapped_out_queue)
      /\ is_swapped_out' = [is_swapped_out EXCEPT ![q] = FALSE]
      /\ searching' = q /\ pc' = "search"
      /\ UNCHANGED <<is_completed, ready_queue, running>>
  BY DEF Paging!SwapIn, Paging!CanSwapIn, Paging!Returned, Paging!is_empty,
         Paging!StartSearch, Paging!progress
<1>2. /\ Distinct(swapped_out_queue') /\ q \in Waiting(swapped_out_queue)
      /\ q \in Paging!Process
      /\ Waiting(swapped_out_queue') = Waiting(swapped_out_queue) \ {q}
  BY <1>1, TakenOut DEF Placed
<1> HIDE DEF q
<1>3. is_swapped_out[q] /\ ~is_completed[q] /\ q # running
  BY <1>1, <1>2 DEF Placed
<1>4. PagingTypes'
  BY <1>1, <1>2 DEF Placed, PagingTypes
<1>5. \A o \in Paging!Process :
         (Paging!InTurn(o) <=> o = running) /\ (Paging!InTurn(o)' <=> o = q)
  BY <1>1 DEF Paging!InTurn
<1>6. \A o \in Paging!Process : is_swapped_out'[o] <=> is_swapped_out[o] /\ o # q
  BY <1>1, <1>2 DEF Placed, PagingTypes
<1> QED BY <1>1, <1>2, <1>3, <1>4, <1>5, <1>6 DEF Placed

(* The steps that move nobody. *)
LEMMA PlacedStays ==
    ASSUME Placed, pc' \in {pc, "statistics"}, pc' = "statistics" => pc \in {"turn", "statistics"},
           UNCHANGED <<is_completed, is_swapped_out, ready_queue, swapped_out_queue,
                       running, searching>>
    PROVE  Placed'
<1>1. PagingTypes'
  BY DEF Placed, PagingTypes
<1>2. \A o \in Paging!Process : Paging!InTurn(o)' <=> Paging!InTurn(o)
  BY DEF Paging!InTurn
<1>3. pc' = "search" => pc = "search"
  OBVIOUS
<1> QED BY <1>1, <1>2, <1>3 DEF Placed

LEMMA StepPlaced == Placed /\ [Paging!Next]_(Paging!vars) => Placed'
<1> SUFFICES ASSUME Placed, [Paging!Next]_(Paging!vars) PROVE Placed'  OBVIOUS
<1>1. CASE Paging!Turn  BY <1>1, PlacedTurn
<1>2. CASE Paging!LeaveLoop
  BY <1>2, PlacedStays DEF Paging!LeaveLoop, Paging!progress, Paging!queues, Paging!search
<1>3. CASE Paging!Probe
  BY <1>3, PlacedStays DEF Paging!Probe, Paging!Probing, Paging!progress, Paging!queues
<1>4. CASE Paging!PageFault
  BY <1>4, PlacedStays DEF Paging!PageFault, Paging!Probing, Paging!progress, Paging!queues
<1>5. CASE Paging!SwapOut  BY <1>5, PlacedSwapOut
<1>6. CASE Paging!EndSearch  BY <1>6, PlacedEndSearch
<1>7. CASE Paging!EndTurn \/ Paging!LastTurn
  <2>1. pc = "return" /\ searching = running /\ Paging!NextTurn(running)
    BY <1>7 DEF Paging!EndTurn, Paging!LastTurn, Paging!Returned
  <2>2. running \in Paging!Process
    BY DEF Placed, PagingTypes
  <2> QED BY <2>1, <2>2, PlacedNextTurn
<1>8. CASE Paging!SwapIn  BY <1>8, PlacedSwapIn
<1>9. CASE Paging!EndSwapIn
  <2>1. pc = "return" /\ Paging!NextTurn(searching)
    BY <1>9 DEF Paging!EndSwapIn, Paging!SwappedInReturned
  <2>2. searching \in Paging!Process
    BY DEF Placed, PagingTypes
  <2> QED BY <2>1, <2>2, PlacedNextTurn
<1>10. CASE UNCHANGED Paging!vars
  BY <1>10, PlacedStays DEF Paging!vars, Paging!progress, Paging!queues, Paging!search
<1> QED BY <1>1, <1>2, <1>3, <1>4, <1>5, <1>6, <1>7, <1>8, <1>9, <1>10 DEF Paging!Next

LEMMA PlacedHolds == Paging!Spec => []Placed
BY InitPlaced, StepPlaced, PTL DEF Paging!Spec

(* The instance counts as its environment does. *)
LEMMA SameCardinality == ASSUME NEW S  PROVE Paging!Cardinality(S) = Cardinality(S)
BY Zenon DEF Paging!Cardinality, Cardinality

(* How often a process stands in a queue. *)
LEMMA Counted ==
    ASSUME NEW q, Distinct(q), NEW p \in Paging!Process
    PROVE  Cardinality({i \in DOMAIN Paging!Items(q) : Paging!Items(q)[i] = p})
              = IF p \in Waiting(q) THEN 1 ELSE 0
<1> DEFINE s == Paging!Items(q)
           at == {i \in DOMAIN s : s[i] = p}
<1>1. CASE p \in Waiting(q)
  <2>1. PICK i \in DOMAIN s : s[i] = p
    BY <1>1 DEF Waiting, Range
  <2>2. at = {i}
    BY <2>1 DEF Distinct, IsInjective
  <2> QED BY <1>1, <2>2, FS_Singleton
<1>2. CASE p \notin Waiting(q)
  <2>1. at = {}
    BY <1>2 DEF Waiting, Range
  <2> QED BY <1>2, <2>1, FS_EmptySet
<1> QED BY <1>1, <1>2

(***************************************************************************)
(* OnePlace for any number of processes and searches: through all the ways *)
(* a search can end within a turn, one's own or another's, each process is *)
(* in one place (demandpaging.c:160, 235, 250, 265-270).                   *)
(***************************************************************************)
THEOREM PlacesCorrect == Paging!Spec => []OnePlace
<1>1. Placed => OnePlace
  <2> SUFFICES ASSUME Placed, NEW p \in Paging!Process
               PROVE  /\ Paging!Places(p) =
                            IF is_completed[p] \/ (Paging!InTurn(p) /\ ~is_swapped_out[p])
                            THEN 0 ELSE 1
                      /\ is_swapped_out[p]
                            <=> Paging!Contains(Paging!Items(swapped_out_queue), p)
    BY DEF OnePlace, Paging!OnePlace
  <2>1. Paging!Places(p) = (IF p \in Waiting(ready_queue) THEN 1 ELSE 0)
                           + (IF p \in Waiting(swapped_out_queue) THEN 1 ELSE 0)
    <3>1. Distinct(ready_queue) /\ Distinct(swapped_out_queue)
      BY DEF Placed
    <3>2. /\ Cardinality({i \in DOMAIN Paging!Items(ready_queue) :
                             Paging!Items(ready_queue)[i] = p})
                = IF p \in Waiting(ready_queue) THEN 1 ELSE 0
          /\ Cardinality({i \in DOMAIN Paging!Items(swapped_out_queue) :
                             Paging!Items(swapped_out_queue)[i] = p})
                = IF p \in Waiting(swapped_out_queue) THEN 1 ELSE 0
      BY <3>1, Counted
    <3>3. Paging!Places(p) =
             Cardinality({i \in DOMAIN Paging!Items(ready_queue) :
                             Paging!Items(ready_queue)[i] = p})
             + Cardinality({i \in DOMAIN Paging!Items(swapped_out_queue) :
                               Paging!Items(swapped_out_queue)[i] = p})
      BY SameCardinality, Zenon DEF Paging!Places
    <3> QED BY <3>2, <3>3, Zenon
  <2>2. /\ is_swapped_out[p] <=> p \in Waiting(swapped_out_queue)
        /\ p \in Waiting(ready_queue) <=>
              ~is_completed[p] /\ ~is_swapped_out[p] /\ ~Paging!InTurn(p)
        /\ is_swapped_out[p] => ~is_completed[p]
    BY DEF Placed
  <2>3. Paging!Contains(Paging!Items(swapped_out_queue), p)
           <=> p \in Waiting(swapped_out_queue)
    <3>1. Paging!Items(swapped_out_queue) \in Seq(Paging!Process)
      BY ItemsTyped DEF Placed, Distinct
    <3> QED BY <3>1 DEF Paging!Contains, Waiting, Range
  <2> QED BY <2>1, <2>2, <2>3
<1> QED BY <1>1, PlacedHolds, PTL

-----------------------------------------------------------------------------
(* LA9: frames in page tables and in the pool *)

HeldIn(table, p) == {i \in Paging!Page : table[p][i] # Paging!NoFrame}

(* A frame is either in one place of the pool or in one page of one process. *)
Shared(table, pool) ==
    /\ table \in [Paging!Process -> [Paging!Page -> Paging!Frame \cup {Paging!NoFrame}]]
    /\ pool \in Seq(Paging!Frame) /\ IsInjective(pool)
    /\ \A p, q \in Paging!Process : \A i, j \in Paging!Page :
          table[p][i] # Paging!NoFrame /\ table[p][i] = table[q][j] => p = q /\ i = j
    /\ \A f \in Paging!Frame :
          f \in Range(pool) <=> \A p \in Paging!Process, i \in Paging!Page : table[p][i] # f

LEMMA MemorySizes ==
    /\ USABLE_FRAMES \in Nat /\ TOTAL_PAGES \in Nat
    /\ ESSENTIAL_PAGES \in Nat /\ ESSENTIAL_PAGES > 0
    /\ ItemsPerPage \in Nat /\ ItemsPerPage > 0
    /\ num_processes * ESSENTIAL_PAGES <= USABLE_FRAMES
    /\ Paging!NoFrame \notin Paging!Frame
    /\ \A s \in ArraySizes : /\ s \in Nat /\ s > 0
                             /\ s \div ItemsPerPage + ESSENTIAL_PAGES < TOTAL_PAGES
BY InputAssumption DEF Paging!MemoryAssumption, Paging!NoFrame, Paging!Frame

LEMMA PagesFinite ==
    ASSUME NEW table, NEW p
    PROVE  IsFiniteSet(HeldIn(table, p)) /\ Cardinality(HeldIn(table, p)) \in Nat
<1>1. IsFiniteSet(Paging!Page)
  BY MemorySizes, FS_Interval DEF Paging!Page
<1>2. HeldIn(table, p) \in SUBSET Paging!Page
  BY DEF HeldIn
<1> QED BY <1>1, <1>2, FS_Subset, FS_CardinalityType

(* The pages K of process q, empty so far, get the frames behind place m.  *)
Loads(table, pool, q, K, m, at, table2, pool2) ==
    /\ K \in SUBSET Paging!Page /\ \A i \in K : table[q][i] = Paging!NoFrame
    /\ m \in 0 .. Len(pool) /\ at \in [K -> m + 1 .. Len(pool)]
    /\ \A i, j \in K : at[i] = at[j] => i = j
    /\ \A k \in m + 1 .. Len(pool) : \E i \in K : at[i] = k
    /\ table2 = [table EXCEPT ![q] = [i \in Paging!Page |->
                    IF i \in K THEN pool[at[i]] ELSE @[i]]]
    /\ pool2 = SubSeq(pool, 1, m)

(* Process q gives back the frames it holds. *)
Returns(table, pool, q, back, table2, pool2) ==
    /\ back \in Seq(Paging!Frame) /\ IsInjective(back)
    /\ Range(back) = {table[q][i] : i \in HeldIn(table, q)}
    /\ table2 = [table EXCEPT ![q] = [i \in Paging!Page |-> Paging!NoFrame]]
    /\ pool2 = pool \o back

(* Frames from the end of the pool come into empty pages. *)
LEMMA Takes ==
    ASSUME NEW table, NEW pool, Shared(table, pool), NEW q \in Paging!Process,
           NEW K, NEW m, NEW at, NEW table2, NEW pool2,
           Loads(table, pool, q, K, m, at, table2, pool2)
    PROVE  /\ Shared(table2, pool2)
           /\ HeldIn(table2, q) = HeldIn(table, q) \cup K
           /\ \A p \in Paging!Process : p # q => HeldIn(table2, p) = HeldIn(table, p)
<1> USE DEF Loads
<1>1. /\ table \in [Paging!Process -> [Paging!Page -> Paging!Frame \cup {Paging!NoFrame}]]
      /\ pool \in Seq(Paging!Frame) /\ Len(pool) \in Nat /\ m \in Nat
      /\ \A k \in 1 .. Len(pool) : pool[k] \in Paging!Frame
      /\ \A k, l \in 1 .. Len(pool) : pool[k] = pool[l] => k = l
      /\ Range(pool) = {pool[k] : k \in 1 .. Len(pool)}
  <2>1. pool \in Seq(Paging!Frame) /\ IsInjective(pool)
    BY DEF Shared
  <2>2. DOMAIN pool = 1 .. Len(pool) /\ Len(pool) \in Nat
    BY <2>1
  <2>3. \A k \in 1 .. Len(pool) : pool[k] \in Paging!Frame
    BY <2>1, ElementOfSeq
  <2>4. Range(pool) = {pool[k] : k \in 1 .. Len(pool)}
    BY <2>2 DEF Range
  <2>5. \A k, l \in 1 .. Len(pool) : pool[k] = pool[l] => k = l
    BY <2>1, <2>2 DEF IsInjective
  <2> QED BY <2>1, <2>2, <2>3, <2>4, <2>5 DEF Shared
<1>2. \A i \in K : at[i] \in 1 .. Len(pool) /\ at[i] > m
  BY <1>1
<1>3. \A p \in Paging!Process : \A i \in Paging!Page :
         table2[p][i] = IF p = q /\ i \in K THEN pool[at[i]] ELSE table[p][i]
  BY <1>1
<1>4. table2 \in [Paging!Process -> [Paging!Page -> Paging!Frame \cup {Paging!NoFrame}]]
  <2>1. [i \in Paging!Page |-> IF i \in K THEN pool[at[i]] ELSE table[q][i]]
           \in [Paging!Page -> Paging!Frame \cup {Paging!NoFrame}]
    BY <1>1, <1>2
  <2> QED BY <1>1, <2>1
<1>5. /\ pool2 \in Seq(Paging!Frame) /\ Len(pool2) = m
      /\ \A k \in 1 .. m : pool2[k] = pool[k]
  <2>1. \A k \in 1 .. m : pool[k] \in Paging!Frame
    BY <1>1
  <2>2. 1 \in Int /\ m \in Int
    BY <1>1
  <2>3. /\ pool2 \in Seq(Paging!Frame)
        /\ Len(pool2) = IF 1 <= m THEN m - 1 + 1 ELSE 0
        /\ \A k \in 1 .. m - 1 + 1 : pool2[k] = pool[1 + k - 1]
    BY <2>1, <2>2, SubSeqProperties
  <2>4. Len(pool2) = m
    BY <1>1, <2>3
  <2>5. ASSUME NEW k \in 1 .. m PROVE pool2[k] = pool[k]
    <3>1. k \in 1 .. m - 1 + 1 /\ 1 + k - 1 = k
      BY <1>1
    <3> QED BY <2>3, <3>1
  <2> QED BY <2>3, <2>4, <2>5
<1> HIDE DEF Paging!NoFrame
<1>6. Range(pool2) = {pool[k] : k \in 1 .. m} /\ IsInjective(pool2)
  <2>1. DOMAIN pool2 = 1 .. m
    BY <1>5
  <2>2. \A k \in 1 .. m : k \in 1 .. Len(pool)
    BY <1>1
  <2>3. Range(pool2) = {pool2[k] : k \in 1 .. m}
    BY <2>1 DEF Range
  <2>4. Range(pool2) = {pool[k] : k \in 1 .. m}
    BY <1>5, <2>3
  <2>5. \A k, l \in 1 .. m : pool2[k] = pool2[l] => k = l
    BY <1>1, <1>5, <2>2
  <2>6. IsInjective(pool2)
    BY <2>1, <2>5 DEF IsInjective
  <2> QED BY <2>4, <2>6
<1>7. \A k \in 1 .. Len(pool) : \A p \in Paging!Process, i \in Paging!Page :
         table[p][i] # pool[k]
  <2>1. \A k \in 1 .. Len(pool) : pool[k] \in Range(pool) /\ pool[k] \in Paging!Frame
    BY <1>1
  <2> QED BY <2>1 DEF Shared
<1>8. ASSUME NEW p \in Paging!Process, NEW r \in Paging!Process,
             NEW i \in Paging!Page, NEW j \in Paging!Page,
             table2[p][i] # Paging!NoFrame, table2[p][i] = table2[r][j]
      PROVE  p = r /\ i = j
  <2>1. CASE p = q /\ i \in K /\ r = q /\ j \in K
    BY <1>1, <1>2, <1>3, <1>8, <2>1
  <2>2. CASE (p = q /\ i \in K) /\ ~(r = q /\ j \in K)
    BY <1>2, <1>3, <1>7, <1>8, <2>2
  <2>3. CASE ~(p = q /\ i \in K) /\ (r = q /\ j \in K)
    BY <1>2, <1>3, <1>7, <1>8, <2>3
  <2>4. CASE ~(p = q /\ i \in K) /\ ~(r = q /\ j \in K)
    <3>1. table2[p][i] = table[p][i] /\ table2[r][j] = table[r][j]
      BY <1>3, <2>4
    <3> QED BY <1>8, <3>1 DEF Shared
  <2> QED BY <2>1, <2>2, <2>3, <2>4
<1>9. ASSUME NEW f \in Paging!Frame
      PROVE  f \in Range(pool2) <=>
                \A p \in Paging!Process, i \in Paging!Page : table2[p][i] # f
  <2>1. ASSUME NEW k \in 1 .. m, f = pool[k],
               NEW p \in Paging!Process, NEW i \in Paging!Page
        PROVE  table2[p][i] # f
    <3>1. k \in 1 .. Len(pool)
      BY <1>1
    <3>2. CASE p = q /\ i \in K
      <4>1. table2[p][i] = pool[at[i]] /\ at[i] \in 1 .. Len(pool) /\ at[i] # k
        BY <1>1, <1>2, <1>3, <3>2
      <4> QED BY <1>1, <2>1, <3>1, <4>1
    <3>3. CASE ~(p = q /\ i \in K)
      BY <1>3, <1>7, <2>1, <3>1, <3>3
    <3> QED BY <3>2, <3>3
  <2>2. ASSUME f \notin Range(pool2)
        PROVE  \E p \in Paging!Process, i \in Paging!Page : table2[p][i] = f
    <3>1. CASE f \in Range(pool)
      <4>1. PICK k \in 1 .. Len(pool) : f = pool[k]
        BY <1>1, <3>1
      <4>2. k \in m + 1 .. Len(pool)
        BY <1>1, <1>6, <2>2, <4>1
      <4>3. PICK i \in K : at[i] = k
        BY <4>2
      <4> QED BY <1>3, <4>1, <4>3
    <3>2. CASE f \notin Range(pool)
      <4>1. PICK p \in Paging!Process, i \in Paging!Page : table[p][i] = f
        BY <3>2 DEF Shared
      <4>2. f # Paging!NoFrame
        BY MemorySizes
      <4>3. ~(p = q /\ i \in K)
        BY <4>1, <4>2
      <4> QED BY <1>3, <4>1, <4>3
    <3> QED BY <3>1, <3>2
  <2> QED BY <1>6, <2>1, <2>2
<1>10. Shared(table2, pool2)
  BY <1>4, <1>5, <1>6, <1>8, <1>9 DEF Shared
<1>11. \A i \in K : pool[at[i]] # Paging!NoFrame
  BY <1>1, <1>2, MemorySizes
<1>12. HeldIn(table2, q) = HeldIn(table, q) \cup K
  BY <1>3, <1>11 DEF HeldIn
<1>13. \A p \in Paging!Process : p # q => HeldIn(table2, p) = HeldIn(table, p)
  BY <1>3 DEF HeldIn
<1> QED BY <1>10, <1>12, <1>13

(* The frames of one process go behind those of the pool. *)
LEMMA GivesBack ==
    ASSUME NEW table, NEW pool, Shared(table, pool), NEW q \in Paging!Process,
           NEW back, NEW table2, NEW pool2, Returns(table, pool, q, back, table2, pool2)
    PROVE  /\ Shared(table2, pool2)
           /\ HeldIn(table2, q) = {}
           /\ \A p \in Paging!Process : p # q => HeldIn(table2, p) = HeldIn(table, p)
<1> USE DEF Returns
<1>1. /\ table \in [Paging!Process -> [Paging!Page -> Paging!Frame \cup {Paging!NoFrame}]]
      /\ pool \in Seq(Paging!Frame) /\ IsInjective(pool)
  BY DEF Shared
<1>2. /\ DOMAIN pool = 1 .. Len(pool) /\ Len(pool) \in Nat
      /\ DOMAIN back = 1 .. Len(back) /\ Len(back) \in Nat
  BY <1>1
<1>3. /\ pool2 \in Seq(Paging!Frame) /\ Len(pool2) = Len(pool) + Len(back)
      /\ \A k \in 1 .. Len(pool2) :
            pool2[k] = IF k <= Len(pool) THEN pool[k] ELSE back[k - Len(pool)]
  BY <1>1, ConcatProperties
<1>4. DOMAIN pool2 = 1 .. Len(pool) + Len(back)
  BY <1>3
<1> HIDE DEF Paging!NoFrame
<1>5. \A p \in Paging!Process : \A i \in Paging!Page :
         table2[p][i] = IF p = q THEN Paging!NoFrame ELSE table[p][i]
  BY <1>1
<1>6. table2 \in [Paging!Process -> [Paging!Page -> Paging!Frame \cup {Paging!NoFrame}]]
  <2>1. [i \in Paging!Page |-> Paging!NoFrame]
           \in [Paging!Page -> Paging!Frame \cup {Paging!NoFrame}]
    OBVIOUS
  <2> QED BY <1>1, <2>1
<1>7. \A k \in 1 .. Len(pool), l \in 1 .. Len(back) : pool[k] # back[l]
  <2> SUFFICES ASSUME NEW k \in 1 .. Len(pool), NEW l \in 1 .. Len(back), pool[k] = back[l]
               PROVE  FALSE
    OBVIOUS
  <2>1. back[l] \in Range(back) /\ pool[k] \in Range(pool) /\ pool[k] \in Paging!Frame
    BY <1>1, <1>2, ElementOfSeq DEF Range
  <2>2. PICK i \in HeldIn(table, q) : back[l] = table[q][i]
    BY <2>1
  <2> QED BY <2>1, <2>2 DEF Shared, HeldIn
<1>8. Range(pool2) = Range(pool) \cup Range(back)
  BY <1>1, RangeConcatenation
<1>9. IsInjective(pool2)
  <2> SUFFICES ASSUME NEW k \in 1 .. Len(pool) + Len(back),
                      NEW l \in 1 .. Len(pool) + Len(back), pool2[k] = pool2[l]
               PROVE  k = l
    BY <1>4 DEF IsInjective
  <2>1. CASE k <= Len(pool) /\ l <= Len(pool)
    <3>1. k \in 1 .. Len(pool) /\ l \in 1 .. Len(pool) /\ pool[k] = pool[l]
      BY <1>2, <1>3, <2>1
    <3> QED BY <1>1, <1>2, <3>1 DEF IsInjective
  <2>2. CASE k <= Len(pool) /\ ~(l <= Len(pool))
    <3>1. /\ k \in 1 .. Len(pool) /\ l - Len(pool) \in 1 .. Len(back)
          /\ pool[k] = back[l - Len(pool)]
      BY <1>2, <1>3, <2>2
    <3> QED BY <1>7, <3>1
  <2>3. CASE ~(k <= Len(pool)) /\ l <= Len(pool)
    <3>1. /\ l \in 1 .. Len(pool) /\ k - Len(pool) \in 1 .. Len(back)
          /\ pool[l] = back[k - Len(pool)]
      BY <1>2, <1>3, <2>3
    <3> QED BY <1>7, <3>1
  <2>4. CASE ~(k <= Len(pool)) /\ ~(l <= Len(pool))
    <3>1. /\ k - Len(pool) \in 1 .. Len(back) /\ l - Len(pool) \in 1 .. Len(back)
          /\ back[k - Len(pool)] = back[l - Len(pool)]
      BY <1>2, <1>3, <2>4
    <3>2. k - Len(pool) = l - Len(pool)
      BY <1>2, <3>1 DEF IsInjective
    <3> QED BY <1>2, <3>2
  <2> QED BY <2>1, <2>2, <2>3, <2>4
<1>10. ASSUME NEW f \in Paging!Frame
       PROVE  f \in Range(pool2) <=>
                 \A p \in Paging!Process, i \in Paging!Page : table2[p][i] # f
  <2>1. f # Paging!NoFrame
    BY MemorySizes
  <2>2. f \in Range(pool) <=>
           \A p \in Paging!Process, i \in Paging!Page : table[p][i] # f
    BY DEF Shared
  <2>3. f \in Range(back) <=> \E i \in Paging!Page : table[q][i] = f
    BY <2>1 DEF HeldIn
  <2>4. ASSUME NEW i \in Paging!Page, table[q][i] = f,
               NEW p \in Paging!Process, p # q, NEW j \in Paging!Page
        PROVE  table[p][j] # f
    BY <2>1, <2>4 DEF Shared
  <2> QED BY <1>5, <1>8, <2>1, <2>2, <2>3, <2>4
<1>11. \A p, r \in Paging!Process : \A i, j \in Paging!Page :
          table2[p][i] # Paging!NoFrame /\ table2[p][i] = table2[r][j] => p = r /\ i = j
  BY <1>5 DEF Shared
<1>12. Shared(table2, pool2)
  BY <1>3, <1>6, <1>9, <1>10, <1>11 DEF Shared
<1> QED BY <1>5, <1>12 DEF HeldIn

(* What a process gives back are the frames it holds, each once. *)
LEMMA FramesOfIs ==
    ASSUME NEW pool, Shared(page_table, pool), NEW p \in Paging!Process
    PROVE  /\ Paging!FramesOf(p) \in Seq(Paging!Frame) /\ IsInjective(Paging!FramesOf(p))
           /\ Range(Paging!FramesOf(p)) = {page_table[p][i] : i \in HeldIn(page_table, p)}
<1> DEFINE T == TOTAL_PAGES
           none == Paging!NoFrame
           more(s, k) == IF page_table[p][k - 1] = none THEN s
                         ELSE Append(s, page_table[p][k - 1])
           step == [k \in 1 .. T |-> [s \in Seq(Paging!Frame) |-> more(s, k)]]
           V == CHOOSE frames : frames =
                   [i \in 0 .. TOTAL_PAGES |->
                       IF i = 0 THEN <<>>
                       ELSE IF page_table[p][i - 1] = Paging!NoFrame THEN frames[i - 1]
                       ELSE Append(frames[i - 1], page_table[p][i - 1])]
<1>1. T \in Nat /\ \A k \in 1 .. T : /\ k - 1 \in Paging!Page /\ k - 1 \in 0 .. T
                                  /\ k \in 0 .. T /\ k # 0
  BY MemorySizes DEF Paging!Page
<1>2. \A i \in Paging!Page : page_table[p][i] = none \/ page_table[p][i] \in Paging!Frame
  BY DEF Shared
<1> HIDE DEF none
<1>3. ASSUME NEW s \in Seq(Paging!Frame), NEW k \in 1 .. T
      PROVE  more(s, k) \in Seq(Paging!Frame)
  <2>1. CASE page_table[p][k - 1] = none
    BY <2>1
  <2>2. CASE page_table[p][k - 1] # none
    <3>1. page_table[p][k - 1] \in Paging!Frame
      BY <1>1, <1>2, <2>2
    <3> QED BY <2>2, <3>1, AppendProperties
  <2> QED BY <2>1, <2>2
<1>4. PICK w \in [0 .. T -> Seq(Paging!Frame)] : Runs(w, T, <<>>, step)
  <2>1. step \in [1 .. T -> [Seq(Paging!Frame) -> Seq(Paging!Frame)]]
    BY <1>3
  <2>2. <<>> \in Seq(Paging!Frame)
    BY EmptySeq
  <2> HIDE DEF step
  <2> QED BY <1>1, <2>1, <2>2, Recursion
<1>5. w[0] = <<>> /\ \A k \in 1 .. T : w[k] = more(w[k - 1], k)
  <2>1. \A k \in 1 .. T : w[k - 1] \in Seq(Paging!Frame)
    BY <1>1
  <2> QED BY <1>4, <2>1 DEF Runs
<1>6. V = [i \in 0 .. TOTAL_PAGES |->
              IF i = 0 THEN <<>>
              ELSE IF page_table[p][i - 1] = Paging!NoFrame THEN V[i - 1]
              ELSE Append(V[i - 1], page_table[p][i - 1])]
  <2>1. ASSUME NEW i \in 0 .. TOTAL_PAGES
        PROVE  w[i] = IF i = 0 THEN <<>>
                      ELSE IF page_table[p][i - 1] = Paging!NoFrame THEN w[i - 1]
                      ELSE Append(w[i - 1], page_table[p][i - 1])
    <3>1. i # 0 => i \in 1 .. T
      BY <1>1
    <3>2. i # 0 => w[i] = more(w[i - 1], i)
      BY <1>5, <3>1
    <3> QED BY <1>5, <3>2 DEF none
  <2>2. w = [i \in 0 .. TOTAL_PAGES |->
                IF i = 0 THEN <<>>
                ELSE IF page_table[p][i - 1] = Paging!NoFrame THEN w[i - 1]
                ELSE Append(w[i - 1], page_table[p][i - 1])]
    BY <2>1
  <2> QED BY <2>2, Zenon
<1>7. Paging!FramesOf(p) = V[T]
  BY DEF Paging!FramesOf
<1> HIDE DEF V
<1>8. V[0] = <<>> /\ \A k \in 1 .. T : V[k] = more(V[k - 1], k)
  <2>1. 0 \in 0 .. T
    BY <1>1
  <2>2. V[0] = <<>>
    BY <1>6, <2>1, Zenon
  <2>3. ASSUME NEW k \in 1 .. T PROVE V[k] = more(V[k - 1], k)
    <3>1. k \in 0 .. T /\ k # 0
      BY <1>1
    <3> QED BY <1>6, <3>1, Zenon DEF none
  <2> QED BY <2>2, <2>3
<1> DEFINE Upto(k) == {page_table[p][i] : i \in {j \in 0 .. k - 1 : page_table[p][j] # none}}
           Holds == {k \in 0 .. T : /\ V[k] \in Seq(Paging!Frame) /\ IsInjective(V[k])
                                    /\ Range(V[k]) = Upto(k)}
<1>9. 0 \in Holds
  <2>1. <<>> \in Seq(Paging!Frame) /\ IsInjective(<<>>) /\ Range(<<>>) = {} /\ Upto(0) = {}
    BY EmptySeq DEF IsInjective, Range
  <2> HIDE DEF Upto
  <2>2. V[0] \in Seq(Paging!Frame) /\ IsInjective(V[0]) /\ Range(V[0]) = Upto(0)
    BY <1>8, <2>1
  <2> QED BY <1>1, <2>2
<1>10. ASSUME NEW k \in 1 .. T, k - 1 \in Holds PROVE k \in Holds
  <2> DEFINE f == page_table[p][k - 1]
             s == V[k - 1]
  <2>1. k \in 0 .. T /\ s \in Seq(Paging!Frame) /\ IsInjective(s) /\ Range(s) = Upto(k - 1)
    BY <1>1, <1>10
  <2>2. \A j \in 0 .. k - 1 : j \in 0 .. (k - 1) - 1 \/ j = k - 1
    BY <1>1
  <2>3. k - 1 \in 0 .. k - 1 /\ \A j \in 0 .. (k - 1) - 1 : j \in 0 .. k - 1
    BY <1>1
  <2>4. CASE f = none
    <3>1. V[k] = s
      BY <1>8, <2>4
    <3>2. Upto(k) = Upto(k - 1)
      BY <2>2, <2>3, <2>4
    <3> QED BY <2>1, <3>1, <3>2
  <2>5. CASE f # none
    <3>1. V[k] = Append(s, f) /\ f \in Paging!Frame
      BY <1>1, <1>2, <1>8, <2>5
    <3>2. f \notin Upto(k - 1)
      <4> SUFFICES ASSUME NEW j \in 0 .. (k - 1) - 1, page_table[p][j] = f PROVE FALSE
        OBVIOUS
      <4>1. j \in Paging!Page /\ j # k - 1 /\ k - 1 \in Paging!Page
        BY <1>1 DEF Paging!Page
      <4> QED BY <2>5, <4>1 DEF Shared, none
    <3>3. Upto(k) = Upto(k - 1) \cup {f}
      BY <2>2, <2>3, <2>5
    <3> HIDE DEF f, s, Upto
    <3>4. Range(Append(s, f)) = Range(s) \cup {f}
      BY <2>1, <3>1, RangeOfAppend
    <3>5. IsInjective(Append(s, f)) /\ Append(s, f) \in Seq(Paging!Frame)
      BY <2>1, <3>1, <3>2, AppendKeepsDistinct
    <3>6. V[k] \in Seq(Paging!Frame) /\ IsInjective(V[k]) /\ Range(V[k]) = Upto(k)
      BY <2>1, <3>1, <3>3, <3>4, <3>5
    <3> QED BY <2>1, <3>6
  <2> QED BY <2>4, <2>5
<1> HIDE DEF Holds
<1>11. \A k \in 0 .. T : k \in Holds
  BY <1>1, <1>9, <1>10, UpTo
<1>12. T \in 0 .. T /\ Paging!Page = 0 .. T - 1
  BY <1>1 DEF Paging!Page
<1>13. V[T] \in Seq(Paging!Frame) /\ IsInjective(V[T]) /\ Range(V[T]) = Upto(T)
  BY <1>11, <1>12 DEF Holds
<1>14. Upto(T) = {page_table[p][i] : i \in HeldIn(page_table, p)}
  BY <1>12 DEF HeldIn, none
<1> QED BY <1>7, <1>13, <1>14

(* The essential pages of all processes are numbered without gap or overlap. *)
LEMMA Blocks ==
    /\ \A p \in Paging!Process : \A i \in Paging!Essential :
          p * ESSENTIAL_PAGES + i \in 0 .. num_processes * ESSENTIAL_PAGES - 1
    /\ \A p, q \in Paging!Process : \A i, j \in Paging!Essential :
          p * ESSENTIAL_PAGES + i = q * ESSENTIAL_PAGES + j => p = q /\ i = j
    /\ \A k \in 0 .. num_processes * ESSENTIAL_PAGES - 1 :
          \E p \in Paging!Process, i \in Paging!Essential : k = p * ESSENTIAL_PAGES + i
<1> DEFINE N == num_processes
           E == ESSENTIAL_PAGES
<1>1. N \in Nat /\ E \in Nat /\ E > 0
  BY Sizes, MemorySizes
<1>2. ASSUME NEW p \in 0 .. N - 1
      PROVE  p * E \in Nat /\ p * E + E <= N * E
  <2>1. p \in Nat /\ p + 1 <= N
    BY <1>1
  <2>2. (p + 1) * E <= N * E /\ (p + 1) * E = p * E + E
    BY <1>1, <2>1
  <2> QED BY <1>1, <2>1, <2>2
<1>3. ASSUME NEW p \in 0 .. N - 1, NEW i \in 0 .. E - 1
      PROVE  p * E + i \in 0 .. N * E - 1
  BY <1>1, <1>2
<1>4. ASSUME NEW p \in 0 .. N - 1, NEW q \in 0 .. N - 1, p < q
      PROVE  p * E + E <= q * E
  <2>1. p \in Nat /\ q \in Nat /\ p + 1 <= q
    BY <1>1, <1>4
  <2>2. (p + 1) * E <= q * E /\ (p + 1) * E = p * E + E
    BY <1>1, <2>1
  <2> QED BY <2>2
<1>5. ASSUME NEW p \in 0 .. N - 1, NEW q \in 0 .. N - 1,
             NEW i \in 0 .. E - 1, NEW j \in 0 .. E - 1, p * E + i = q * E + j
      PROVE  p = q /\ i = j
  <2>1. p * E \in Nat /\ q * E \in Nat
    BY <1>2
  <2>2. ~(p < q)
    <3> SUFFICES ASSUME p < q PROVE FALSE  OBVIOUS
    <3>1. p * E + E <= q * E  BY <1>4
    <3> QED BY <1>1, <1>5, <2>1, <3>1
  <2>3. ~(q < p)
    <3> SUFFICES ASSUME q < p PROVE FALSE  OBVIOUS
    <3>1. q * E + E <= p * E  BY <1>4
    <3> QED BY <1>1, <1>5, <2>1, <3>1
  <2>4. p = q
    BY <1>1, <2>2, <2>3
  <2> QED BY <1>1, <1>5, <2>1, <2>4
<1>6. ASSUME NEW k \in 0 .. N * E - 1
      PROVE  \E p \in 0 .. N - 1, i \in 0 .. E - 1 : k = p * E + i
  <2> DEFINE p == k \div E
             i == k % E
  <2>1. k \in Nat /\ p \in Nat /\ i \in 0 .. E - 1 /\ k = p * E + i
    BY <1>1
  <2> HIDE DEF p, i
  <2>2. p < N
    <3> SUFFICES ASSUME p >= N PROVE FALSE
      BY <1>1, <2>1
    <3>1. p * E >= N * E
      BY <1>1, <2>1
    <3>2. p * E \in Nat /\ N * E \in Nat
      BY <1>1, <2>1
    <3> QED BY <1>1, <2>1, <3>1, <3>2
  <2>3. p \in 0 .. N - 1
    BY <1>1, <2>1, <2>2
  <2> QED BY <2>1, <2>3
<1>7. Paging!Process = 0 .. N - 1 /\ Paging!Essential = 0 .. E - 1
  BY DEF Paging!Process, Paging!Essential
<1> HIDE DEF N, E
<1> QED BY <1>3, <1>5, <1>6, <1>7 DEF N, E

Bounds(low, high, p) ==
    low \in 0 .. array_size[p] - 1 /\ high \in 0 .. array_size[p] - 1 /\ low <= high

(* Frames are shared as they should be, processes without a frame to run in *)
(* have none at all, and a search stays within its array.                   *)
Framed ==
    /\ Shared(page_table, free_frames)
    /\ frames_allocated \in [Paging!Process -> Nat]
    /\ \A p \in Paging!Process :
          /\ frames_allocated[p] = Cardinality(HeldIn(page_table, p))
          /\ is_completed[p] \/ is_swapped_out[p] => HeldIn(page_table, p) = {}
    /\ array_size \in [Paging!Process -> ArraySizes]
    /\ pc = "search" => Bounds(L, R, searching)

LEMMA EssentialPages ==
    ASSUME array_size \in [Paging!Process -> ArraySizes]
    PROVE  /\ Paging!Essential \in SUBSET Paging!Page
           /\ IsFiniteSet(Paging!Essential) /\ Cardinality(Paging!Essential) = ESSENTIAL_PAGES
<1>1. array_size[0] \in ArraySizes
  BY Sizes
<1>2. PICK s \in ArraySizes : s = array_size[0]
  BY <1>1
<1>3. /\ s \in Nat /\ ItemsPerPage \in Nat /\ ItemsPerPage > 0 /\ ESSENTIAL_PAGES \in Nat
      /\ TOTAL_PAGES \in Nat /\ s \div ItemsPerPage + ESSENTIAL_PAGES < TOTAL_PAGES
      /\ ESSENTIAL_PAGES > 0
  BY MemorySizes
<1>4. s \div ItemsPerPage \in Nat
  BY <1>3
<1>5. ESSENTIAL_PAGES < TOTAL_PAGES
  BY <1>3, <1>4
<1>6. Paging!Essential \in SUBSET Paging!Page
  BY <1>3, <1>5 DEF Paging!Essential, Paging!Page
<1>7. /\ IsFiniteSet(0 .. ESSENTIAL_PAGES - 1)
      /\ Cardinality(0 .. ESSENTIAL_PAGES - 1) = ESSENTIAL_PAGES
  <2>1. 0 \in Int /\ ESSENTIAL_PAGES - 1 \in Int
    BY <1>3
  <2>2. /\ IsFiniteSet(0 .. ESSENTIAL_PAGES - 1)
        /\ Cardinality(0 .. ESSENTIAL_PAGES - 1) =
              IF 0 > ESSENTIAL_PAGES - 1 THEN 0 ELSE ESSENTIAL_PAGES - 1 - 0 + 1
    BY <2>1, FS_Interval
  <2> QED BY <1>3, <2>2
<1> QED BY <1>6, <1>7 DEF Paging!Essential

(* The page that a search probes. *)
LEMMA ProbedIs ==
    ASSUME Framed, PagingTypes, pc = "search", L < R
    PROVE  /\ Paging!ProbedPage \in Paging!Page
           /\ Paging!Middle \in L .. R - 1
<1>1. /\ L \in 0 .. array_size[searching] - 1 /\ R \in 0 .. array_size[searching] - 1
      /\ array_size[searching] \in ArraySizes
  BY DEF Framed, PagingTypes, Bounds
<1>2. PICK s \in ArraySizes : s = array_size[searching]
  BY <1>1
<1>3. /\ s \in Nat /\ ItemsPerPage \in Nat /\ ItemsPerPage > 0 /\ ESSENTIAL_PAGES \in Nat
      /\ TOTAL_PAGES \in Nat /\ s \div ItemsPerPage + ESSENTIAL_PAGES < TOTAL_PAGES
  BY MemorySizes
<1>4. L \in Nat /\ R \in Nat /\ R < s
  BY <1>1, <1>2, <1>3
<1> DEFINE M == (L + R) \div 2
<1>5. M \in Nat /\ L <= M /\ M < R
  BY <1>4
<1> HIDE DEF M
<1>6. M \div ItemsPerPage \in Nat /\ M \div ItemsPerPage <= s \div ItemsPerPage
  <2> DEFINE a == M \div ItemsPerPage
             b == s \div ItemsPerPage
  <2>1. /\ a \in Nat /\ b \in Nat /\ ItemsPerPage * a <= M
        /\ s < ItemsPerPage * b + ItemsPerPage
    BY <1>3, <1>5
  <2> HIDE DEF a, b
  <2>2. ItemsPerPage * a < ItemsPerPage * (b + 1)
    <3>1. ItemsPerPage * (b + 1) = ItemsPerPage * b + ItemsPerPage
      BY <1>3, <2>1
    <3>2. ItemsPerPage * a \in Nat /\ ItemsPerPage * b \in Nat
      BY <1>3, <2>1
    <3> QED BY <1>3, <1>4, <1>5, <2>1, <3>1, <3>2
  <2>3. a < b + 1
    <3> SUFFICES ASSUME a >= b + 1 PROVE FALSE
      BY <2>1
    <3>1. ItemsPerPage * a >= ItemsPerPage * (b + 1)
      BY <1>3, <2>1
    <3>2. ItemsPerPage * a \in Nat /\ ItemsPerPage * (b + 1) \in Nat
      BY <1>3, <2>1
    <3> QED BY <2>2, <3>1, <3>2
  <2>4. a <= b
    BY <2>1, <2>3
  <2> QED BY <2>1, <2>4 DEF a, b
<1>7. s \div ItemsPerPage \in Nat
  BY <1>3
<1>8. M \div ItemsPerPage + ESSENTIAL_PAGES \in 0 .. TOTAL_PAGES - 1
  BY <1>3, <1>6, <1>7
<1>9. Paging!Middle = M /\ Paging!ProbedPage = M \div ItemsPerPage + ESSENTIAL_PAGES
  BY DEF Paging!Middle, Paging!ProbedPage, M
<1> QED BY <1>4, <1>5, <1>8, <1>9 DEF Paging!Page

LEMMA InitFramed == Paging!Init => Framed
<1> SUFFICES ASSUME NEW job \in [Paging!Process -> Paging!Job], Paging!Starts(job)
             PROVE  Framed
  BY DEF Paging!Init
<1> DEFINE U == USABLE_FRAMES
           E == ESSENTIAL_PAGES
           NE == num_processes * ESSENTIAL_PAGES
           number(p, i) == p * ESSENTIAL_PAGES + i
           P == Paging!Process
           none == Paging!NoFrame
<1>1. /\ array_size = [p \in Paging!Process |-> job[p].size]
      /\ free_frames = [i \in 1 .. U - NE |-> i - 1]
      /\ page_table = [p \in P |-> [i \in Paging!Page |->
             IF i \in Paging!Essential THEN U - 1 - number(p, i) ELSE none]]
      /\ frames_allocated = [p \in P |-> E]
      /\ is_completed = [p \in P |-> FALSE] /\ is_swapped_out = [p \in P |-> FALSE]
      /\ pc = "turn"
  BY DEF Paging!Starts
<1>2. array_size \in [P -> ArraySizes]
  <2>1. ASSUME NEW p \in P PROVE job[p].size \in ArraySizes
    <3>1. PICK s \in ArraySizes :
             job[p] \in [size : {s},
                         indices : [0 .. num_searches - 1 -> Keys \cap 0 .. s - 1]]
      BY DEF Paging!Job
    <3> QED BY <3>1
  <2> QED BY <1>1, <2>1
<1>3. /\ Paging!Essential \in SUBSET Paging!Page
      /\ IsFiniteSet(Paging!Essential) /\ Cardinality(Paging!Essential) = E
  BY <1>2, EssentialPages
<1>4. /\ U \in Nat /\ NE \in Nat /\ NE <= U /\ E \in Nat
      /\ Paging!Frame = 0 .. U - 1 /\ none \notin Paging!Frame
  BY MemorySizes, Sizes DEF Paging!Frame
<1>5. \A p \in P : \A i \in Paging!Essential : number(p, i) \in 0 .. NE - 1
  BY Blocks
<1>6. \A p, q \in P : \A i, j \in Paging!Essential :
         number(p, i) = number(q, j) => p = q /\ i = j
  BY Blocks
<1>7. \A k \in 0 .. NE - 1 : \E p \in P, i \in Paging!Essential : k = number(p, i)
  BY Blocks
<1> HIDE DEF U, E, NE, number, P, none
<1>8. \A p \in P : \A i \in Paging!Page :
         page_table[p][i] = IF i \in Paging!Essential THEN U - 1 - number(p, i) ELSE none
  BY <1>1
<1>9. \A p \in P : \A i \in Paging!Essential :
         /\ page_table[p][i] = U - 1 - number(p, i)
         /\ page_table[p][i] \in U - NE .. U - 1
         /\ page_table[p][i] \in Paging!Frame
  <2>1. \A p \in P : \A i \in Paging!Essential : page_table[p][i] = U - 1 - number(p, i)
    BY <1>3, <1>8
  <2>2. \A k \in 0 .. NE - 1 : U - 1 - k \in U - NE .. U - 1 /\ U - 1 - k \in 0 .. U - 1
    BY <1>4
  <2> QED BY <1>4, <1>5, <2>1, <2>2
<1>10. page_table \in [P -> [Paging!Page -> Paging!Frame \cup {none}]]
  <2>1. \A p \in P : \A i \in Paging!Page : page_table[p][i] \in Paging!Frame \cup {none}
    BY <1>8, <1>9
  <2>2. \A p \in P : page_table[p] = [i \in Paging!Page |-> page_table[p][i]]
    BY <1>1
  <2>3. \A p \in P : page_table[p] \in [Paging!Page -> Paging!Frame \cup {none}]
    BY <2>1, <2>2
  <2>4. page_table = [p \in P |-> page_table[p]]
    BY <1>1
  <2> QED BY <2>3, <2>4
<1>11. /\ free_frames \in Seq(Paging!Frame) /\ IsInjective(free_frames)
       /\ Range(free_frames) = 0 .. U - NE - 1
  <2>1. DOMAIN free_frames = 1 .. U - NE /\ U - NE \in Nat
    BY <1>1, <1>4
  <2>2. \A i \in 1 .. U - NE : free_frames[i] = i - 1
    BY <1>1
  <2>3. \A i \in 1 .. U - NE : i - 1 \in 0 .. U - NE - 1 /\ i - 1 \in Paging!Frame
    BY <1>4
  <2>4. free_frames \in [1 .. U - NE -> Paging!Frame]
    BY <1>1, <2>3
  <2>5. free_frames \in Seq(Paging!Frame)
    BY <2>1, <2>4
  <2>6. IsInjective(free_frames)
    BY <2>1, <2>2 DEF IsInjective
  <2>7. \A k \in 0 .. U - NE - 1 : k + 1 \in 1 .. U - NE /\ (k + 1) - 1 = k
    BY <1>4
  <2>8. \A k \in 0 .. U - NE - 1 : free_frames[k + 1] = k
    BY <2>2, <2>7
  <2>9. Range(free_frames) = {free_frames[i] : i \in 1 .. U - NE}
    BY <2>1 DEF Range
  <2>10. Range(free_frames) \subseteq 0 .. U - NE - 1
    BY <2>2, <2>3, <2>9
  <2>11. 0 .. U - NE - 1 \subseteq Range(free_frames)
    BY <2>7, <2>8, <2>9
  <2> QED BY <2>5, <2>6, <2>10, <2>11
<1>12. ASSUME NEW p \in P, NEW q \in P, NEW i \in Paging!Page, NEW j \in Paging!Page,
              page_table[p][i] # none, page_table[p][i] = page_table[q][j]
       PROVE  p = q /\ i = j
  <2>1. i \in Paging!Essential /\ j \in Paging!Essential
    BY <1>8, <1>12
  <2>2. number(p, i) \in 0 .. NE - 1 /\ number(q, j) \in 0 .. NE - 1
    BY <1>5, <2>1
  <2>3. U - 1 - number(p, i) = U - 1 - number(q, j)
    BY <1>9, <1>12, <2>1
  <2>4. number(p, i) = number(q, j)
    BY <1>4, <2>2, <2>3
  <2> QED BY <1>6, <2>1, <2>4
<1>13. ASSUME NEW f \in Paging!Frame
       PROVE  f \in Range(free_frames) <=> \A p \in P, i \in Paging!Page : page_table[p][i] # f
  <2>1. CASE f \in 0 .. U - NE - 1
    <3>1. f \notin U - NE .. U - 1 /\ f # none
      BY <1>4, <2>1
    <3> QED BY <1>8, <1>9, <1>11, <2>1, <3>1
  <2>2. CASE f \notin 0 .. U - NE - 1
    <3>1. U - 1 - f \in 0 .. NE - 1 /\ U - 1 - (U - 1 - f) = f
      BY <1>4, <2>2
    <3>2. PICK p \in P, i \in Paging!Essential : U - 1 - f = number(p, i)
      BY <1>7, <3>1
    <3>3. page_table[p][i] = f /\ i \in Paging!Page
      BY <1>3, <1>9, <3>1, <3>2
    <3> QED BY <1>11, <2>2, <3>3
  <2> QED BY <2>1, <2>2
<1>14. Shared(page_table, free_frames)
  BY <1>10, <1>11, <1>12, <1>13 DEF Shared, P, none
<1>15. \A p \in P : HeldIn(page_table, p) = Paging!Essential
  <2> SUFFICES ASSUME NEW p \in P, NEW i \in Paging!Page
               PROVE  page_table[p][i] # none <=> i \in Paging!Essential
    BY <1>3 DEF HeldIn, none
  <2> QED BY <1>4, <1>8, <1>9
<1> QED BY <1>1, <1>2, <1>3, <1>4, <1>14, <1>15 DEF Framed, P

(* A process gives all its frames back, and stays as it is or not. *)
LEMMA FreeKeeps ==
    ASSUME Framed, NEW p \in Paging!Process, Paging!free_process_frames(p)
    PROVE  /\ Shared(page_table', free_frames')
           /\ frames_allocated' \in [Paging!Process -> Nat]
           /\ \A o \in Paging!Process :
                 /\ frames_allocated'[o] = Cardinality(HeldIn(page_table', o))
                 /\ HeldIn(page_table', o) = IF o = p THEN {} ELSE HeldIn(page_table, o)
<1> DEFINE back == Paging!FramesOf(p)
<1>1. /\ free_frames' = free_frames \o back
      /\ page_table' = [page_table EXCEPT ![p] = [i \in Paging!Page |-> Paging!NoFrame]]
      /\ frames_allocated' = [frames_allocated EXCEPT ![p] = 0]
  BY DEF Paging!free_process_frames
<1>2. Shared(page_table, free_frames)
  BY DEF Framed
<1>3. /\ back \in Seq(Paging!Frame) /\ IsInjective(back)
      /\ Range(back) = {page_table[p][i] : i \in HeldIn(page_table, p)}
  BY <1>2, FramesOfIs
<1> HIDE DEF back
<1>4. /\ Shared(page_table', free_frames')
      /\ HeldIn(page_table', p) = {}
      /\ \A o \in Paging!Process : o # p => HeldIn(page_table', o) = HeldIn(page_table, o)
  <2> SUFFICES ASSUME NEW table2, NEW pool2, table2 = page_table', pool2 = free_frames'
               PROVE  /\ Shared(table2, pool2)
                      /\ HeldIn(table2, p) = {}
                      /\ \A o \in Paging!Process :
                            o # p => HeldIn(table2, o) = HeldIn(page_table, o)
    OBVIOUS
  <2>1. Returns(page_table, free_frames, p, back, table2, pool2)
    BY <1>1, <1>3 DEF Returns
  <2> QED BY <1>2, <2>1, GivesBack
<1>5. frames_allocated \in [Paging!Process -> Nat]
  BY DEF Framed
<1>6. frames_allocated' \in [Paging!Process -> Nat]
  BY <1>1, <1>5
<1>7. ASSUME NEW o \in Paging!Process
      PROVE  frames_allocated'[o] = Cardinality(HeldIn(page_table', o))
  <2>1. CASE o = p
    BY <1>1, <1>4, <1>5, <2>1, FS_EmptySet
  <2>2. CASE o # p
    BY <1>1, <1>4, <1>5, <2>2 DEF Framed
  <2> QED BY <2>1, <2>2
<1> QED BY <1>4, <1>6, <1>7

(* A process loads the pages K from the end of the pool. *)
LEMMA LoadKeeps ==
    ASSUME Framed, NEW q \in Paging!Process, NEW K, IsFiniteSet(K), NEW m, NEW at,
           NEW table2, table2 = page_table', NEW pool2, pool2 = free_frames',
           Loads(page_table, free_frames, q, K, m, at, table2, pool2),
           frames_allocated' = [frames_allocated EXCEPT ![q] = @ + Cardinality(K)]
    PROVE  /\ Shared(page_table', free_frames')
           /\ frames_allocated' \in [Paging!Process -> Nat]
           /\ \A o \in Paging!Process :
                 /\ frames_allocated'[o] = Cardinality(HeldIn(page_table', o))
                 /\ o # q => HeldIn(page_table', o) = HeldIn(page_table, o)
<1>1. Shared(page_table, free_frames)
  BY DEF Framed
<1>2. K \cap HeldIn(page_table, q) = {}
  BY DEF HeldIn, Loads
<1>3. /\ Shared(page_table', free_frames')
      /\ HeldIn(page_table', q) = HeldIn(page_table, q) \cup K
      /\ \A o \in Paging!Process : o # q => HeldIn(page_table', o) = HeldIn(page_table, o)
  <2>1. /\ Shared(table2, pool2)
        /\ HeldIn(table2, q) = HeldIn(page_table, q) \cup K
        /\ \A o \in Paging!Process : o # q => HeldIn(table2, o) = HeldIn(page_table, o)
    BY <1>1, Takes
  <2> QED BY <2>1
<1>4. Cardinality(HeldIn(page_table, q) \cup K)
         = Cardinality(HeldIn(page_table, q)) + Cardinality(K)
  <2>1. IsFiniteSet(HeldIn(page_table, q)) /\ HeldIn(page_table, q) \cap K = {}
    BY <1>2, PagesFinite
  <2>2. Cardinality(HeldIn(page_table, q) \cup K)
           = Cardinality(HeldIn(page_table, q)) + Cardinality(K)
             - Cardinality(HeldIn(page_table, q) \cap K)
    BY <2>1, FS_Union
  <2>3. Cardinality(HeldIn(page_table, q)) \in Nat /\ Cardinality(K) \in Nat
    BY <2>1, FS_CardinalityType
  <2>4. Cardinality(HeldIn(page_table, q) \cap K) = 0
    BY <2>1, FS_EmptySet
  <2> QED BY <2>2, <2>3, <2>4
<1>5. frames_allocated \in [Paging!Process -> Nat] /\ Cardinality(K) \in Nat
  BY FS_CardinalityType DEF Framed
<1>6. frames_allocated' \in [Paging!Process -> Nat]
  BY <1>5
<1>7. ASSUME NEW o \in Paging!Process
      PROVE  frames_allocated'[o] = Cardinality(HeldIn(page_table', o))
  <2>1. frames_allocated[o] = Cardinality(HeldIn(page_table, o))
    BY DEF Framed
  <2>2. CASE o = q
    BY <1>3, <1>4, <1>5, <2>1, <2>2
  <2>3. CASE o # q
    BY <1>3, <1>5, <2>1, <2>3
  <2> QED BY <2>2, <2>3
<1> QED BY <1>3, <1>6, <1>7

(* A probe narrows the interval of the search. *)
LEMMA NarrowKeeps ==
    ASSUME Framed, PagingTypes, pc = "search", L < R, Paging!Narrow,
           UNCHANGED <<array_size, searching>>
    PROVE  Bounds(L, R, searching)'
<1>1. Paging!Middle \in L .. R - 1
  BY ProbedIs
<1>2. Bounds(L, R, searching) /\ array_size[searching] \in Nat
  <2>1. array_size[searching] \in ArraySizes
    BY DEF Framed, PagingTypes
  <2> QED BY <2>1, MemorySizes DEF Framed
<1>3. \/ L' = Paging!Middle + 1 /\ R' = R
      \/ L' = L /\ R' = Paging!Middle
  BY DEF Paging!Narrow
<1> QED BY <1>1, <1>2, <1>3 DEF Bounds

LEMMA StartBounds ==
    ASSUME Framed, NEW p \in Paging!Process, UNCHANGED array_size,
           Paging!StartSearch(p)
    PROVE  Bounds(L, R, searching)'
<1>1. searching' = p /\ L' = 0 /\ R' = array_size[p] - 1
  BY DEF Paging!StartSearch
<1>2. array_size[p] \in Nat /\ array_size[p] > 0
  <2>1. array_size[p] \in ArraySizes
    BY DEF Framed
  <2> QED BY <2>1, MemorySizes
<1> QED BY <1>1, <1>2 DEF Bounds

LEMMA FramedPageFault ==
    ASSUME Placed, Framed, Paging!PageFault  PROVE Framed'
<1> DEFINE i0 == Paging!ProbedPage
           n0 == Len(free_frames)
           p  == searching
<1>1. /\ pc = "search" /\ L < R /\ pc' = "search" /\ Paging!Narrow
      /\ page_table[p][i0] = Paging!NoFrame /\ n0 > 0
      /\ UNCHANGED <<array_size, is_completed, is_swapped_out, searching>>
  BY DEF Paging!PageFault, Paging!Probing, Paging!Loaded, Paging!num_free_frames,
         Paging!input, Paging!progress, Paging!queues
<1>2. /\ page_table' = [page_table EXCEPT ![p][i0] = Paging!Last(free_frames)]
      /\ free_frames' = Paging!Front(free_frames)
      /\ frames_allocated' = [frames_allocated EXCEPT ![p] = @ + 1]
  BY DEF Paging!PageFault
<1>3. p \in Paging!Process /\ ~is_completed[p] /\ ~is_swapped_out[p] /\ PagingTypes
  BY <1>1 DEF Placed, PagingTypes
<1>4. i0 \in Paging!Page
  BY <1>1, <1>3, ProbedIs
<1> DEFINE at == [i \in {i0} |-> n0]
<1>5. /\ n0 \in Nat
      /\ page_table \in [Paging!Process -> [Paging!Page -> Paging!Frame \cup {Paging!NoFrame}]]
  BY DEF Framed, Shared
<1> SUFFICES ASSUME NEW table2, table2 = page_table', NEW pool2, pool2 = free_frames'
             PROVE  Framed'
  OBVIOUS
<1>6. Loads(page_table, free_frames, p, {i0}, n0 - 1, at, table2, pool2)
  <2>1. n0 - 1 \in 0 .. n0 /\ at \in [{i0} -> (n0 - 1) + 1 .. n0] /\ at[i0] = n0
    BY <1>1, <1>5
  <2>2. \A k \in (n0 - 1) + 1 .. n0 : k = n0
    BY <1>1, <1>5
  <2>3. table2 = [page_table EXCEPT ![p] = [i \in Paging!Page |->
                     IF i \in {i0} THEN free_frames[at[i]] ELSE @[i]]]
    <3>1. table2 = [page_table EXCEPT ![p] = [@ EXCEPT ![i0] = free_frames[n0]]]
      BY <1>2 DEF Paging!Last
    <3>2. [page_table[p] EXCEPT ![i0] = free_frames[n0]] =
             [i \in Paging!Page |-> IF i \in {i0} THEN free_frames[at[i]] ELSE page_table[p][i]]
      BY <1>3, <1>5, <2>1
    <3> QED BY <3>1, <3>2
  <2>4. pool2 = SubSeq(free_frames, 1, n0 - 1)
    BY <1>2 DEF Paging!Front
  <2> HIDE DEF i0, n0, at
  <2> QED BY <1>1, <1>4, <2>1, <2>2, <2>3, <2>4 DEF Loads, n0
<1>7. IsFiniteSet({i0}) /\ Cardinality({i0}) = 1
  BY FS_Singleton
<1>8. /\ Shared(page_table', free_frames')
      /\ frames_allocated' \in [Paging!Process -> Nat]
      /\ \A o \in Paging!Process :
            /\ frames_allocated'[o] = Cardinality(HeldIn(page_table', o))
            /\ o # p => HeldIn(page_table', o) = HeldIn(page_table, o)
  <2>1. frames_allocated' = [frames_allocated EXCEPT ![p] = @ + Cardinality({i0})]
    BY <1>2, <1>7
  <2> HIDE DEF i0, n0, at
  <2> QED BY <1>3, <1>6, <1>7, <2>1, LoadKeeps
<1>9. Bounds(L, R, searching)'
  BY <1>1, <1>3, NarrowKeeps
<1> HIDE DEF i0, n0, at
<1> QED BY <1>1, <1>3, <1>8, <1>9 DEF Framed

LEMMA FramedSwapIn ==
    ASSUME Placed, Framed, Paging!SwapIn  PROVE Framed'
<1> DEFINE q  == Paging!First(swapped_out_queue)
           n0 == Len(free_frames)
           K  == Paging!Essential
           m  == n0 - ESSENTIAL_PAGES
           at == [i \in K |-> n0 - i]
<1>1. /\ n0 >= ESSENTIAL_PAGES /\ swapped_out_queue.size # 0
      /\ page_table' = [page_table EXCEPT ![q] = [i \in Paging!Page |->
                           IF i \in K THEN free_frames[n0 - i] ELSE @[i]]]
      /\ free_frames' = SubSeq(free_frames, 1, m)
      /\ frames_allocated' = [frames_allocated EXCEPT ![q] = @ + ESSENTIAL_PAGES]
      /\ is_swapped_out' = [is_swapped_out EXCEPT ![q] = FALSE]
      /\ Paging!StartSearch(q)
      /\ UNCHANGED <<array_size, is_completed>>
  BY DEF Paging!SwapIn, Paging!CanSwapIn, Paging!num_free_frames, Paging!is_empty,
         Paging!input, Paging!progress
<1>2. /\ q \in Paging!Process /\ q \in Waiting(swapped_out_queue)
  BY <1>1, TakenOut DEF Placed
<1> HIDE DEF q
<1>3. is_swapped_out[q] /\ ~is_completed[q] /\ is_swapped_out \in [Paging!Process -> BOOLEAN]
  BY <1>2 DEF Placed, PagingTypes
<1>4. HeldIn(page_table, q) = {}
  BY <1>2, <1>3 DEF Framed
<1>5. /\ K \in SUBSET Paging!Page /\ IsFiniteSet(K) /\ Cardinality(K) = ESSENTIAL_PAGES
  BY EssentialPages DEF Framed
<1>6. n0 \in Nat /\ ESSENTIAL_PAGES \in Nat /\ ESSENTIAL_PAGES > 0 /\ K = 0 .. ESSENTIAL_PAGES - 1
  BY MemorySizes DEF Framed, Shared, Paging!Essential
<1> SUFFICES ASSUME NEW table2, table2 = page_table', NEW pool2, pool2 = free_frames'
             PROVE  Framed'
  OBVIOUS
<1> HIDE DEF n0, K
<1>7. Loads(page_table, free_frames, q, K, m, at, table2, pool2)
  <2>1. m \in 0 .. n0 /\ at \in [K -> m + 1 .. n0]
    BY <1>1, <1>6
  <2>2. \A i, j \in K : at[i] = at[j] => i = j
    BY <1>6
  <2>3. ASSUME NEW k \in m + 1 .. n0 PROVE \E i \in K : at[i] = k
    <3>1. n0 - k \in K /\ n0 - (n0 - k) = k
      BY <1>1, <1>6
    <3> QED BY <3>1
  <2>4. \A i \in K : page_table[q][i] = Paging!NoFrame
    BY <1>4, <1>5 DEF HeldIn
  <2>5. table2 = [page_table EXCEPT ![q] = [i \in Paging!Page |->
                     IF i \in K THEN free_frames[at[i]] ELSE @[i]]]
    <3>1. \A i \in Paging!Page : (IF i \in K THEN free_frames[at[i]] ELSE page_table[q][i])
             = IF i \in K THEN free_frames[n0 - i] ELSE page_table[q][i]
      OBVIOUS
    <3>2. table2 = [page_table EXCEPT ![q] = [i \in Paging!Page |->
                       IF i \in K THEN free_frames[n0 - i] ELSE page_table[q][i]]]
      BY <1>1
    <3> QED BY <3>1, <3>2
  <2> HIDE DEF m, at
  <2>6. pool2 = SubSeq(free_frames, 1, m)
    BY <1>1
  <2> QED BY <1>5, <2>1, <2>2, <2>3, <2>4, <2>5, <2>6 DEF Loads, n0
<1> HIDE DEF m, at
<1>8. /\ Shared(page_table', free_frames')
      /\ frames_allocated' \in [Paging!Process -> Nat]
      /\ \A o \in Paging!Process :
            /\ frames_allocated'[o] = Cardinality(HeldIn(page_table', o))
            /\ o # q => HeldIn(page_table', o) = HeldIn(page_table, o)
  <2>1. frames_allocated' = [frames_allocated EXCEPT ![q] = @ + Cardinality(K)]
    BY <1>1, <1>5
  <2> QED BY <1>2, <1>5, <1>7, <2>1, LoadKeeps
<1>9. Bounds(L, R, searching)'
  BY <1>1, <1>2, StartBounds
<1>10. /\ is_swapped_out'[q] = FALSE
       /\ \A o \in Paging!Process : o # q => is_swapped_out'[o] = is_swapped_out[o]
  BY <1>1, <1>2, <1>3
<1> QED BY <1>1, <1>2, <1>3, <1>8, <1>9, <1>10 DEF Framed

LEMMA FramedSwapOut ==
    ASSUME Placed, Framed, Paging!SwapOut  PROVE Framed'
<1>1. /\ Paging!free_process_frames(searching) /\ pc' = "return"
      /\ is_swapped_out' = [is_swapped_out EXCEPT ![searching] = TRUE]
      /\ UNCHANGED <<array_size, is_completed>>
  BY DEF Paging!SwapOut, Paging!input, Paging!progress
<1>2. searching \in Paging!Process /\ is_swapped_out \in [Paging!Process -> BOOLEAN]
  BY DEF Placed, PagingTypes
<1>3. \A o \in Paging!Process : o # searching => is_swapped_out'[o] = is_swapped_out[o]
  BY <1>1, <1>2
<1>4. /\ Shared(page_table', free_frames')
      /\ frames_allocated' \in [Paging!Process -> Nat]
      /\ \A o \in Paging!Process :
            /\ frames_allocated'[o] = Cardinality(HeldIn(page_table', o))
            /\ HeldIn(page_table', o) = IF o = searching THEN {} ELSE HeldIn(page_table, o)
  BY <1>1, <1>2, FreeKeeps
<1> QED BY <1>1, <1>3, <1>4 DEF Framed

LEMMA FramedEndSearch ==
    ASSUME Placed, Framed, Paging!EndSearch  PROVE Framed'
<1>1. /\ pc' = "return"
      /\ UNCHANGED <<array_size, is_swapped_out>>
      /\ \/ /\ is_completed' = [is_completed EXCEPT ![searching] = TRUE]
            /\ Paging!free_process_frames(searching)
         \/ UNCHANGED <<is_completed, page_table, frames_allocated, free_frames>>
  BY DEF Paging!EndSearch, Paging!input, Paging!queues, Paging!memory
<1>2. searching \in Paging!Process /\ is_completed \in [Paging!Process -> BOOLEAN]
  BY DEF Placed, PagingTypes
<1>3. CASE /\ is_completed' = [is_completed EXCEPT ![searching] = TRUE]
           /\ Paging!free_process_frames(searching)
  <2>1. \A o \in Paging!Process : o # searching => is_completed'[o] = is_completed[o]
    BY <1>2, <1>3
  <2>2. /\ Shared(page_table', free_frames')
        /\ frames_allocated' \in [Paging!Process -> Nat]
        /\ \A o \in Paging!Process :
              /\ frames_allocated'[o] = Cardinality(HeldIn(page_table', o))
              /\ HeldIn(page_table', o) = IF o = searching THEN {} ELSE HeldIn(page_table, o)
    BY <1>2, <1>3, FreeKeeps
  <2> QED BY <1>1, <2>1, <2>2 DEF Framed
<1>4. CASE UNCHANGED <<is_completed, page_table, frames_allocated, free_frames>>
  BY <1>1, <1>4 DEF Framed
<1> QED BY <1>1, <1>3, <1>4

(* The steps that leave memory alone. *)
LEMMA FramedStays ==
    ASSUME Framed, UNCHANGED <<page_table, frames_allocated, free_frames, array_size,
                               is_completed, is_swapped_out>>,
           pc' = "search" => Bounds(L, R, searching)'
    PROVE  Framed'
BY DEF Framed

LEMMA StepFramed == Placed /\ Framed /\ [Paging!Next]_(Paging!vars) => Framed'
<1> SUFFICES ASSUME Placed, Framed, [Paging!Next]_(Paging!vars) PROVE Framed'  OBVIOUS
<1>1. PagingTypes
  BY DEF Placed
<1>2. CASE Paging!Turn
  <2> DEFINE p == Paging!First(ready_queue)
  <2>1. /\ ready_queue.size # 0 /\ running' = p
        /\ UNCHANGED <<page_table, frames_allocated, free_frames, array_size,
                       is_completed, is_swapped_out>>
    BY <1>2 DEF Paging!Turn, Paging!is_empty, Paging!memory, Paging!input, Paging!progress
  <2>2. p \in Paging!Process
    BY <2>1, TakenOut DEF Placed
  <2>3. UNCHANGED <<pc, searching, L, R>> \/ Paging!StartSearch(p)
    BY <1>2, <2>1 DEF Paging!Turn, Paging!search
  <2>4. CASE UNCHANGED <<pc, searching, L, R>>
    BY <2>1, <2>4 DEF Framed, Bounds
  <2>5. CASE Paging!StartSearch(p)
    <3> HIDE DEF p
    <3>1. Bounds(L, R, searching)'
      BY <2>1, <2>2, <2>5, StartBounds
    <3> QED BY <2>1, <3>1, FramedStays
  <2> QED BY <2>3, <2>4, <2>5
<1>3. CASE Paging!Probe
  <2>1. /\ pc = "search" /\ L < R /\ Paging!Narrow
        /\ UNCHANGED <<page_table, frames_allocated, free_frames, array_size,
                       is_completed, is_swapped_out, searching>>
    BY <1>3 DEF Paging!Probe, Paging!Probing, Paging!memory, Paging!input,
                Paging!progress, Paging!queues
  <2>2. Bounds(L, R, searching)'
    BY <1>1, <2>1, NarrowKeeps
  <2> QED BY <2>1, <2>2, FramedStays
<1>4. CASE Paging!PageFault  BY <1>4, FramedPageFault
<1>5. CASE Paging!SwapOut  BY <1>5, FramedSwapOut
<1>6. CASE Paging!EndSearch  BY <1>6, FramedEndSearch
<1>7. CASE Paging!SwapIn  BY <1>7, FramedSwapIn
<1>8. CASE Paging!LeaveLoop \/ Paging!EndTurn \/ Paging!LastTurn \/ Paging!EndSwapIn
  <2>1. /\ pc' # "search"
        /\ UNCHANGED <<page_table, frames_allocated, free_frames, array_size,
                       is_completed, is_swapped_out>>
    BY <1>8 DEF Paging!LeaveLoop, Paging!EndTurn, Paging!LastTurn, Paging!EndSwapIn,
                Paging!NextTurn, Paging!memory, Paging!input, Paging!progress, Paging!queues
  <2> QED BY <2>1, FramedStays
<1>9. CASE UNCHANGED Paging!vars
  <2>1. /\ UNCHANGED <<page_table, frames_allocated, free_frames, array_size,
                       is_completed, is_swapped_out>>
        /\ UNCHANGED <<pc, searching, L, R>>
    BY <1>9 DEF Paging!vars, Paging!memory, Paging!input, Paging!progress,
                Paging!queues, Paging!search
  <2> QED BY <2>1 DEF Framed, Bounds
<1> QED BY <1>2, <1>3, <1>4, <1>5, <1>6, <1>7, <1>8, <1>9 DEF Paging!Next

LEMMA FramedHolds == Paging!Spec => []Framed
BY InitFramed, StepFramed, PlacedHolds, PTL DEF Paging!Spec

(***************************************************************************)
(* FramesPartition for any numbers of processes, searches, pages and       *)
(* frames: wherever a search fails, no frame is lost or given to two pages *)
(* (demandpaging.c:116-141, 253-258).                                      *)
(***************************************************************************)
THEOREM PartitionCorrect == Paging!Spec => []FramesPartition
<1>1. Framed => FramesPartition
  <2> SUFFICES ASSUME Framed PROVE FramesPartition  OBVIOUS
  <2>1. Shared(page_table, free_frames)
    BY DEF Framed
  <2>2. ASSUME NEW f \in Paging!Frame
        PROVE  Cardinality(Paging!PagesIn(f))
                 + Cardinality({i \in DOMAIN free_frames : free_frames[i] = f}) = 1
    <3> DEFINE places == {i \in DOMAIN free_frames : free_frames[i] = f}
    <3>1. CASE f \in Range(free_frames)
      <4>1. PICK i \in DOMAIN free_frames : free_frames[i] = f
        BY <3>1 DEF Range
      <4>2. places = {i}
        BY <2>1, <4>1 DEF Shared, IsInjective
      <4>3. Paging!PagesIn(f) = {}
        BY <2>1, <3>1 DEF Shared, Paging!PagesIn
      <4> HIDE DEF places
      <4>4. Cardinality(places) = 1 /\ Cardinality(Paging!PagesIn(f)) = 0
        BY <4>2, <4>3, FS_Singleton, FS_EmptySet
      <4> QED BY <4>4 DEF places
    <3>2. CASE f \notin Range(free_frames)
      <4>1. PICK p \in Paging!Process, i \in Paging!Page : page_table[p][i] = f
        BY <2>1, <3>2 DEF Shared
      <4>2. places = {}
        BY <3>2 DEF Range
      <4>3. f # Paging!NoFrame
        BY MemorySizes
      <4>4. Paging!PagesIn(f) = {<<p, i>>}
        <5>1. \A r \in Paging!Process : \A j \in Paging!Page :
                 page_table[r][j] = f => r = p /\ j = i
          BY <2>1, <4>1, <4>3 DEF Shared
        <5> QED BY <4>1, <5>1 DEF Paging!PagesIn
      <4> HIDE DEF places
      <4>5. Cardinality(places) = 0 /\ Cardinality(Paging!PagesIn(f)) = 1
        BY <4>2, <4>4, FS_Singleton, FS_EmptySet
      <4> QED BY <4>5 DEF places
    <3> QED BY <3>1, <3>2
  <2>3. \A p \in Paging!Process : frames_allocated[p] =
           Cardinality({i \in Paging!Page : page_table[p][i] # Paging!NoFrame})
    BY DEF Framed, HeldIn
  <2> QED BY <2>2, <2>3, SameCardinality, Zenon DEF FramesPartition, Paging!FramesPartition
<1> QED BY <1>1, FramedHolds, PTL
-----------------------------------------------------------------------------
(* LA3: the order of events, and a heap as a sequence in that order *)

Event == Scheduler!Event

Before(a, b) == Scheduler!compare_events(a, b) <= 0

(* No event comes before the one above it. *)
IsHeap(h) == \A k \in 2 .. Len(h) : Before(h[k \div 2], h[k])

LEMMA Compared ==
    \A a, b, c \in Event :
        /\ Before(a, a)
        /\ Scheduler!compare_events(a, b) < 0 => Before(a, b)
        /\ ~(Scheduler!compare_events(a, b) < 0) => Before(b, a)
        /\ Before(a, b) /\ Before(b, c) => Before(a, c)
        /\ Before(a, b) => a.time <= b.time
<1> SUFFICES ASSUME NEW a \in Event, NEW b \in Event, NEW c \in Event
             PROVE  /\ Before(a, a)
                    /\ Scheduler!compare_events(a, b) < 0 => Before(a, b)
                    /\ ~(Scheduler!compare_events(a, b) < 0) => Before(b, a)
                    /\ Before(a, b) /\ Before(b, c) => Before(a, c)
                    /\ Before(a, b) => a.time <= b.time
    OBVIOUS
<1> DEFINE key(e) == Scheduler!id(e.process_idx)
<1>1. \A p \in Scheduler!Entry : Scheduler!id(p) \in Nat
    BY InputAssumption
    DEF Scheduler!Entry, Scheduler!Process, Scheduler!id, Scheduler!ScheduleAssumption
<1>2. \A e \in Event : e.time \in Nat /\ key(e) \in Nat
    BY <1>1 DEF Event, Scheduler!Event
<1>3. \A d, e : Scheduler!compare_events(d, e) =
                    IF d.time # e.time THEN d.time - e.time ELSE key(d) - key(e)
    BY DEF Scheduler!compare_events
<1> HIDE DEF key
<1> QED BY <1>2, <1>3 DEF Before

(* The place above another. *)
LEMMA Above ==
    \A k \in Nat : k > 1 => /\ k \div 2 \in Nat /\ 1 <= k \div 2 /\ k \div 2 < k
                            /\ k = 2 * (k \div 2) \/ k = 2 * (k \div 2) + 1
OBVIOUS

LEMMA FirstIsLeast ==
    ASSUME NEW h \in Seq(Event), IsHeap(h)
    PROVE  \A k \in 1 .. Len(h) : Before(h[1], h[k])
<1> DEFINE T == {k \in 1 .. Len(h) : ~Before(h[1], h[k])}
<1> SUFFICES ASSUME T # {} PROVE FALSE
    OBVIOUS
<1>1. PICK m \in T : \A k \in T : m <= k
  <2>1. T \subseteq Nat
    OBVIOUS
  <2> HIDE DEF T
  <2> QED BY <2>1, LeastNatural
<1>2. \A k \in 1 .. Len(h) : h[k] \in Event
    OBVIOUS
<1>3. m \in 2 .. Len(h)
    BY <1>1, <1>2, Compared
<1>4. m \div 2 \in 1 .. Len(h) /\ m \div 2 < m
    BY <1>3, Above
<1>5. Before(h[1], h[m \div 2])
    BY <1>1, <1>4
<1>6. Before(h[m \div 2], h[m])
    BY <1>3 DEF IsHeap
<1> HIDE DEF T
<1>7. Before(h[1], h[m])
    BY <1>2, <1>3, <1>4, <1>5, <1>6, Compared
<1> QED BY <1>1, <1>7 DEF T

(***************************************************************************)
(* Another order of the same events.                                       *)
(***************************************************************************)
Reorders(f, size) ==
    /\ f \in [1 .. size -> 1 .. size]
    /\ \A i, j \in 1 .. size : f[i] = f[j] => i = j
    /\ \A j \in 1 .. size : \E i \in 1 .. size : f[i] = j

Shuffled(h, g) ==
    /\ Len(g) = Len(h) /\ g \in Seq(Event)
    /\ \E f : Reorders(f, Len(h)) /\ \A k \in 1 .. Len(h) : g[k] = h[f[k]]

LEMMA ShuffledItself == ASSUME NEW h \in Seq(Event) PROVE Shuffled(h, h)
<1> DEFINE f == [k \in 1 .. Len(h) |-> k]
<1>1. Reorders(f, Len(h))
    BY DEF Reorders
<1>2. \A k \in 1 .. Len(h) : h[k] = h[f[k]]
    OBVIOUS
<1> HIDE DEF f
<1> QED BY <1>1, <1>2 DEF Shuffled

LEMMA ShuffledTwice ==
    ASSUME NEW h \in Seq(Event), NEW g, Shuffled(h, g), NEW d, Shuffled(g, d)
    PROVE  Shuffled(h, d)
<1> DEFINE N == Len(h)
<1>1. Len(g) = N /\ Len(d) = N /\ d \in Seq(Event)
    BY DEF Shuffled
<1>2. PICK f : Reorders(f, N) /\ \A k \in 1 .. N : g[k] = h[f[k]]
    BY DEF Shuffled
<1>3. PICK e : Reorders(e, N) /\ \A k \in 1 .. N : d[k] = g[e[k]]
    BY <1>1 DEF Shuffled
<1> HIDE DEF N
<1> DEFINE c == [k \in 1 .. N |-> f[e[k]]]
<1>4. \A k \in 1 .. N : e[k] \in 1 .. N /\ f[k] \in 1 .. N
    BY <1>2, <1>3 DEF Reorders
<1>5. Reorders(c, N)
  <2>1. c \in [1 .. N -> 1 .. N]
    BY <1>4
  <2>2. \A i, j \in 1 .. N : c[i] = c[j] => i = j
    BY <1>2, <1>3, <1>4 DEF Reorders
  <2>3. ASSUME NEW j \in 1 .. N PROVE \E i \in 1 .. N : c[i] = j
    <3>1. PICK m \in 1 .. N : f[m] = j
        BY <1>2 DEF Reorders
    <3>2. PICK i \in 1 .. N : e[i] = m
        BY <1>3 DEF Reorders
    <3> QED BY <3>1, <3>2
  <2> HIDE DEF c
  <2> QED BY <2>1, <2>2, <2>3 DEF Reorders
<1>6. \A k \in 1 .. N : d[k] = h[c[k]]
    BY <1>2, <1>3, <1>4
<1> HIDE DEF c
<1> QED BY <1>1, <1>5, <1>6 DEF Shuffled, N

LEMMA SwapShuffles ==
    ASSUME NEW h \in Seq(Event), NEW i \in 1 .. Len(h), NEW j \in 1 .. Len(h), i # j
    PROVE  LET g == Scheduler!swap_events(h, i, j)
           IN  /\ Shuffled(h, g)
               /\ g[i] = h[j] /\ g[j] = h[i]
               /\ \A k \in 1 .. Len(h) : k # i /\ k # j => g[k] = h[k]
<1> DEFINE g == Scheduler!swap_events(h, i, j)
           f == [k \in 1 .. Len(h) |-> IF k = i THEN j ELSE IF k = j THEN i ELSE k]
<1>1. g = [h EXCEPT ![i] = h[j], ![j] = h[i]]
    BY DEF Scheduler!swap_events
<1>2. h[i] \in Event /\ h[j] \in Event
    OBVIOUS
<1>3. g \in Seq(Event) /\ Len(g) = Len(h)
    BY <1>1, <1>2
<1>4. \A k \in 1 .. Len(h) : g[k] = IF k = j THEN h[i] ELSE IF k = i THEN h[j] ELSE h[k]
    BY <1>1
<1>5. Reorders(f, Len(h))
  <2>1. \A k \in 1 .. Len(h) : f[f[k]] = k /\ f[k] \in 1 .. Len(h)
    OBVIOUS
  <2>2. f \in [1 .. Len(h) -> 1 .. Len(h)]
    OBVIOUS
  <2> HIDE DEF f
  <2> QED BY <2>1, <2>2, Zenon DEF Reorders
<1>6. \A k \in 1 .. Len(h) : g[k] = h[f[k]]
    BY <1>4
<1> HIDE DEF f, g
<1> QED BY <1>3, <1>4, <1>5, <1>6 DEF Shuffled, g

(* The loops of the heap *)

Places(size) == [heap : {h \in Seq(Event) : Len(h) = size}, i : 1 .. size]

(* Only the event at i may be out of order: with the one above it ... *)
Rising(s) ==
    /\ \A k \in 2 .. Len(s.heap) : k # s.i => Before(s.heap[k \div 2], s.heap[k])
    /\ \A k \in 2 .. Len(s.heap) :
          k \div 2 = s.i /\ s.i > 1 => Before(s.heap[s.i \div 2], s.heap[k])

(* ... or with those below it. *)
Sinking(s) ==
    /\ \A k \in 2 .. Len(s.heap) : k \div 2 # s.i => Before(s.heap[k \div 2], s.heap[k])
    /\ \A k \in 2 .. Len(s.heap) :
          k \div 2 = s.i /\ s.i > 1 => Before(s.heap[s.i \div 2], s.heap[k])

LEMMA Rises ==
    ASSUME NEW size \in Nat, NEW s \in Places(size), Rising(s)
    PROVE  LET r == Scheduler!Rise[s]
           IN  /\ r \in Places(size) /\ Shuffled(s.heap, r.heap) /\ Rising(r)
               /\ r = s => IsHeap(s.heap)
               /\ r # s => r.i < s.i
<1> DEFINE r == Scheduler!Rise[s]
           h == s.heap
           i == s.i
           p == i \div 2
<1>0. s \in Scheduler!Place
    BY DEF Places, Scheduler!Place, Event
<1>1. h \in Seq(Event) /\ Len(h) = size /\ i \in 1 .. size
      /\ \A k \in 1 .. size : h[k] \in Event
    BY DEF Places
<1>2. CASE i > 1 /\ Scheduler!compare_events(h[i], h[p]) < 0
  <2>1. p \in 1 .. size /\ p < i /\ i \in 2 .. size
    BY <1>1, <1>2, Above
  <2> DEFINE g == Scheduler!swap_events(h, i, p)
  <2>2. r = [heap |-> g, i |-> p]
    BY <1>0, <1>2 DEF Scheduler!Rise
  <2>3. /\ Shuffled(h, g) /\ g[i] = h[p] /\ g[p] = h[i]
        /\ \A k \in 1 .. Len(h) : k # i /\ k # p => g[k] = h[k]
    BY <1>1, <2>1, SwapShuffles
  <2>4. g \in Seq(Event) /\ Len(g) = size
    BY <1>1, <2>3 DEF Shuffled
  <2>5. Before(h[i], h[p])
    BY <1>1, <1>2, <2>1, Compared
  <2>6. /\ \A k \in 2 .. size : k # i => Before(h[k \div 2], h[k])
        /\ \A k \in 2 .. size : k \div 2 = i => Before(h[p], h[k])
    BY <1>1, <1>2 DEF Rising
  <2> HIDE DEF g, r, h, i
  <2>7. ASSUME NEW k \in 2 .. size, k # p PROVE Before(g[k \div 2], g[k])
    <3>1. k \div 2 \in 1 .. size /\ k \div 2 < k /\ k \in 1 .. size
        BY <1>1, Above
    <3>2. CASE k = i
        BY <2>3, <2>5, <3>2
    <3>3. CASE k # i /\ k \div 2 = i
      <4>1. g[k] = h[k] /\ g[k \div 2] = h[p]
        BY <1>1, <2>3, <2>7, <3>1, <3>3
      <4> QED BY <2>6, <3>3, <4>1
    <3>4. CASE k # i /\ k \div 2 = p
      <4>1. g[k] = h[k] /\ g[k \div 2] = h[i]
        BY <1>1, <2>3, <2>7, <3>1, <3>4
      <4>2. Before(h[p], h[k])
        BY <2>6, <3>4
      <4> QED BY <1>1, <2>1, <2>5, <3>1, <4>1, <4>2, Compared
    <3>5. CASE k # i /\ k \div 2 # i /\ k \div 2 # p
      <4>1. g[k] = h[k] /\ g[k \div 2] = h[k \div 2]
        BY <1>1, <2>3, <2>7, <3>1, <3>5
      <4> QED BY <2>6, <3>5, <4>1
    <3> QED BY <3>2, <3>3, <3>4, <3>5
  <2>8. ASSUME NEW k \in 2 .. size, k \div 2 = p, p > 1 PROVE Before(g[p \div 2], g[k])
    <3>1. p \div 2 \in 1 .. size /\ p \div 2 < p /\ p \in 2 .. size /\ p # i
        BY <2>1, <2>8, Above
    <3>2. g[p \div 2] = h[p \div 2] /\ Before(h[p \div 2], h[p])
        BY <1>1, <2>1, <2>3, <2>6, <3>1
    <3>3. CASE k = i
        BY <2>3, <3>2, <3>3
    <3>4. CASE k # i
      <4>1. k \in 1 .. size /\ k # p /\ g[k] = h[k] /\ Before(h[p], h[k])
        BY <1>1, <2>3, <2>6, <2>8, <3>4, Above
      <4> QED BY <1>1, <2>1, <3>1, <3>2, <4>1, Compared
    <3> QED BY <3>3, <3>4
  <2>9. r.heap = g /\ r.i = p /\ r \in Places(size)
    BY <2>1, <2>2, <2>4 DEF Places
  <2>10. Rising(r)
    BY <2>4, <2>7, <2>8, <2>9 DEF Rising
  <2> QED BY <2>1, <2>3, <2>9, <2>10 DEF r, h, i
<1>3. CASE ~(i > 1 /\ Scheduler!compare_events(h[i], h[p]) < 0)
  <2>1. r = s
    BY <1>0, <1>3 DEF Scheduler!Rise
  <2>2. IsHeap(h)
    <3> SUFFICES ASSUME NEW k \in 2 .. size PROVE Before(h[k \div 2], h[k])
        BY <1>1 DEF IsHeap
    <3>1. CASE k # i
        BY <1>1, <3>1 DEF Rising
    <3>2. CASE k = i
      <4>1. i > 1 /\ p \in 1 .. size
        BY <1>1, <3>2, Above
      <4> QED BY <1>1, <1>3, <3>2, <4>1, Compared
    <3> QED BY <3>1, <3>2
  <2> QED BY <1>1, <2>1, <2>2, ShuffledItself
<1> QED BY <1>2, <1>3

LEMMA SmallestIs ==
    ASSUME NEW size \in Nat, NEW s \in Places(size)
    PROVE  LET m == Scheduler!Smallest(s.heap, s.i)
           IN  /\ m \in 1 .. size /\ m \in {s.i, 2 * s.i, 2 * s.i + 1}
               /\ Before(s.heap[m], s.heap[s.i])
               /\ \A k \in {2 * s.i, 2 * s.i + 1} :
                     k <= size => Before(s.heap[m], s.heap[k])
<1> DEFINE h == s.heap
           i == s.i
           left == IF 2 * i <= Len(h) /\ Scheduler!compare_events(h[2 * i], h[i]) < 0
                   THEN 2 * i ELSE i
           m == Scheduler!Smallest(h, i)
<1>1. h \in Seq(Event) /\ Len(h) = size /\ i \in 1 .. size
      /\ \A k \in 1 .. size : h[k] \in Event
    BY DEF Places
<1> HIDE DEF h, i
<1>2. /\ left \in 1 .. size /\ left \in {i, 2 * i} /\ Before(h[left], h[i])
      /\ 2 * i <= size => Before(h[left], h[2 * i])
  <2>1. CASE 2 * i <= size /\ Scheduler!compare_events(h[2 * i], h[i]) < 0
    <3>1. 2 * i \in 1 .. size
        BY <1>1, <2>1
    <3>2. left = 2 * i
        BY <1>1, <2>1
    <3> QED BY <1>1, <2>1, <3>1, <3>2, Compared
  <2>2. CASE ~(2 * i <= size /\ Scheduler!compare_events(h[2 * i], h[i]) < 0)
    <3>1. 2 * i <= size => 2 * i \in 1 .. size
        BY <1>1
    <3>2. left = i
        BY <1>1, <2>2
    <3> QED BY <1>1, <2>2, <3>1, <3>2, Compared
  <2> QED BY <2>1, <2>2
<1>3. m = IF 2 * i + 1 <= Len(h) /\ Scheduler!compare_events(h[2 * i + 1], h[left]) < 0
          THEN 2 * i + 1 ELSE left
    BY DEF Scheduler!Smallest
<1> HIDE DEF left, m
<1>4. /\ m \in 1 .. size /\ m \in {i, 2 * i, 2 * i + 1} /\ Before(h[m], h[left])
      /\ 2 * i + 1 <= size => Before(h[m], h[2 * i + 1])
  <2>1. CASE 2 * i + 1 <= size /\ Scheduler!compare_events(h[2 * i + 1], h[left]) < 0
    <3>1. 2 * i + 1 \in 1 .. size
        BY <1>1, <2>1
    <3> QED BY <1>1, <1>2, <1>3, <2>1, <3>1, Compared
  <2>2. CASE ~(2 * i + 1 <= size /\ Scheduler!compare_events(h[2 * i + 1], h[left]) < 0)
    <3>1. 2 * i + 1 <= size => 2 * i + 1 \in 1 .. size
        BY <1>1
    <3>2. m = left
        BY <1>1, <1>3, <2>2
    <3> QED BY <1>1, <1>2, <2>2, <3>1, <3>2, Compared
  <2> QED BY <2>1, <2>2
<1>5. Before(h[m], h[i])
    BY <1>1, <1>2, <1>4, Compared
<1>6. 2 * i <= size => Before(h[m], h[2 * i])
  <2>1. 2 * i <= size => 2 * i \in 1 .. size
    BY <1>1
  <2> QED BY <1>1, <1>2, <1>4, <2>1, Compared
<1> QED BY <1>4, <1>5, <1>6 DEF m, h, i

LEMMA Sinks ==
    ASSUME NEW size \in Nat, NEW s \in Places(size), Sinking(s)
    PROVE  LET r == Scheduler!Sink[s]
           IN  /\ r \in Places(size) /\ Shuffled(s.heap, r.heap) /\ Sinking(r)
               /\ r = s => IsHeap(s.heap)
               /\ r # s => r.i > s.i
<1> DEFINE r == Scheduler!Sink[s]
           h == s.heap
           i == s.i
           m == Scheduler!Smallest(h, i)
<1>0. s \in Scheduler!Place
    BY DEF Places, Scheduler!Place, Event
<1>1. h \in Seq(Event) /\ Len(h) = size /\ i \in 1 .. size
      /\ \A k \in 1 .. size : h[k] \in Event
    BY DEF Places
<1>2. /\ m \in 1 .. size /\ m \in {i, 2 * i, 2 * i + 1} /\ Before(h[m], h[i])
      /\ \A k \in {2 * i, 2 * i + 1} : k <= size => Before(h[m], h[k])
    BY SmallestIs
<1>3. r = IF m = i THEN s ELSE [heap |-> Scheduler!swap_events(h, i, m), i |-> m]
    BY <1>0 DEF Scheduler!Sink
<1>4. /\ \A k \in 2 .. size : k \div 2 # i => Before(h[k \div 2], h[k])
      /\ \A k \in 2 .. size : k \div 2 = i /\ i > 1 => Before(h[i \div 2], h[k])
    BY <1>1 DEF Sinking
<1>5. s = [heap |-> h, i |-> i]
    BY DEF Places
<1> HIDE DEF m, r, h, i
<1>6. CASE m # i
  <2>1. m > i /\ m \div 2 = i /\ m \in 2 .. size
    BY <1>1, <1>2, <1>6
  <2> DEFINE g == Scheduler!swap_events(h, i, m)
  <2>2. /\ Shuffled(h, g) /\ g[i] = h[m] /\ g[m] = h[i]
        /\ \A k \in 1 .. Len(h) : k # i /\ k # m => g[k] = h[k]
    BY <1>1, <1>2, <1>6, SwapShuffles
  <2>3. g \in Seq(Event) /\ Len(g) = size
    BY <1>1, <2>2 DEF Shuffled
  <2>4. r.heap = g /\ r.i = m /\ r \in Places(size)
    BY <1>2, <1>3, <1>6, <2>3 DEF Places
  <2> HIDE DEF g
  <2>5. ASSUME NEW k \in 2 .. size, k \div 2 # m PROVE Before(g[k \div 2], g[k])
    <3>1. k \div 2 \in 1 .. size /\ k \div 2 < k /\ k \in 1 .. size
        BY <1>1, Above
    <3>2. CASE k = m
        BY <1>2, <2>1, <2>2, <3>2
    <3>3. CASE k # m /\ k \div 2 = i
      <4>1. g[k] = h[k] /\ g[k \div 2] = h[m]
        BY <1>1, <2>2, <3>1, <3>3
      <4>2. k \in {2 * i, 2 * i + 1}
        BY <1>1, <3>3, Above
      <4> QED BY <1>2, <4>1, <4>2
    <3>4. CASE k = i
      <4>1. g[k] = h[m] /\ g[k \div 2] = h[i \div 2]
        BY <1>1, <2>1, <2>2, <3>1, <3>4
      <4>2. Before(h[i \div 2], h[m])
        BY <1>1, <1>4, <2>1, <3>4
      <4> QED BY <4>1, <4>2
    <3>5. CASE k # m /\ k # i /\ k \div 2 # i
      <4>1. g[k] = h[k] /\ g[k \div 2] = h[k \div 2]
        BY <1>1, <2>2, <2>5, <3>1, <3>5
      <4> QED BY <1>4, <3>5, <4>1
    <3> QED BY <3>2, <3>3, <3>4, <3>5
  <2>6. ASSUME NEW k \in 2 .. size, k \div 2 = m PROVE Before(g[m \div 2], g[k])
    <3>1. k > m /\ k \in 1 .. size /\ k # i /\ k # m
        BY <1>1, <2>1, <2>6, Above
    <3>2. g[k] = h[k] /\ g[m \div 2] = h[m]
        BY <1>1, <2>1, <2>2, <3>1
    <3>3. Before(h[m], h[k])
        BY <1>4, <2>1, <2>6
    <3> QED BY <3>2, <3>3
  <2>7. Sinking(r)
    BY <2>3, <2>4, <2>5, <2>6 DEF Sinking
  <2> QED BY <2>1, <2>2, <2>4, <2>7, <1>5 DEF r, h, i
<1>7. CASE m = i
  <2>1. r = s
    BY <1>3, <1>7
  <2>2. IsHeap(h)
    <3> SUFFICES ASSUME NEW k \in 2 .. size PROVE Before(h[k \div 2], h[k])
        BY <1>1 DEF IsHeap
    <3>1. CASE k \div 2 # i
        BY <1>4, <3>1
    <3>2. CASE k \div 2 = i
      <4>1. k \in {2 * i, 2 * i + 1}
        BY <3>2, Above
      <4> QED BY <1>2, <1>7, <3>2, <4>1
    <3> QED BY <3>1, <3>2
  <2> QED BY <1>1, <2>1, <2>2, ShuffledItself DEF r, h, i
<1> QED BY <1>6, <1>7

LEMMA SiftUpOrders ==
    ASSUME NEW h \in Seq(Event), h # <<>>, Rising([heap |-> h, i |-> Len(h)])
    PROVE  IsHeap(Scheduler!SiftUp(h)) /\ Shuffled(h, Scheduler!SiftUp(h))
<1> DEFINE N == Len(h)
           first == [heap |-> h, i |-> N]
           D == {x \in Places(N) : Rising(x)}
           step == [t \in 1 .. N |-> [x \in D |-> Scheduler!Rise[x]]]
           V == CHOOSE loop : loop =
                   [turn \in 0 .. Len(h) |->
                       IF turn = 0 THEN [heap |-> h, i |-> Len(h)]
                       ELSE Scheduler!Rise[loop[turn - 1]]]
<1>1. N \in Nat /\ N > 0
    OBVIOUS
<1>2. first \in D
    BY <1>1 DEF Places
<1>3. \A x \in D : Scheduler!Rise[x] \in D
    BY <1>1, Rises, Zenon
<1>4. Scheduler!SiftUp(h) = V[N].heap
    BY DEF Scheduler!SiftUp
<1> HIDE DEF D, first
<1>5. PICK w \in [0 .. N -> D] : Runs(w, N, first, step)
  <2>1. step \in [1 .. N -> [D -> D]]
    BY <1>3
  <2> HIDE DEF step
  <2> QED BY <1>1, <1>2, <2>1, Recursion
<1>6. w[0] = first /\ \A t \in 1 .. N : w[t] = Scheduler!Rise[w[t - 1]]
  <2>1. \A t \in 1 .. N : w[t - 1] \in D
    BY <1>1
  <2> QED BY <1>5, <2>1 DEF Runs
<1> HIDE DEF step
<1>7. V = [turn \in 0 .. Len(h) |->
              IF turn = 0 THEN [heap |-> h, i |-> Len(h)]
              ELSE Scheduler!Rise[V[turn - 1]]]
  <2>1. ASSUME NEW turn \in 0 .. Len(h)
        PROVE  w[turn] = IF turn = 0 THEN [heap |-> h, i |-> Len(h)]
                         ELSE Scheduler!Rise[w[turn - 1]]
    <3>1. turn # 0 => turn \in 1 .. N
        BY <1>1
    <3> QED BY <1>6, <3>1 DEF first
  <2>2. w = [turn \in 0 .. Len(h) |->
                IF turn = 0 THEN [heap |-> h, i |-> Len(h)]
                ELSE Scheduler!Rise[w[turn - 1]]]
    BY <2>1
  <2> QED BY <2>2, Zenon
<1> HIDE DEF V
<1>8. V[0] = first /\ \A t \in 1 .. N : V[t] = Scheduler!Rise[V[t - 1]]
  <2>1. 0 \in 0 .. N /\ \A t \in 1 .. N : t \in 0 .. N /\ t # 0
    BY <1>1
  <2> QED BY <1>7, <2>1 DEF first
<1> DEFINE Holds == {t \in 0 .. N : /\ V[t] \in D /\ Shuffled(h, V[t].heap)
                                    /\ Scheduler!Rise[V[t]] = V[t] \/ V[t].i <= N - t}
<1>9. 0 \in Holds
    BY <1>1, <1>2, <1>8, ShuffledItself DEF first
<1>10. ASSUME NEW t \in 1 .. N, t - 1 \in Holds PROVE t \in Holds
  <2>1. PICK s : /\ s \in D /\ Shuffled(h, s.heap) /\ V[t] = Scheduler!Rise[s]
                 /\ Scheduler!Rise[s] = s \/ s.i <= N - (t - 1)
    BY <1>8, <1>10
  <2>2. /\ Shuffled(s.heap, V[t].heap)
        /\ V[t] = s \/ V[t].i < s.i
    <3>1. s \in Places(N) /\ Rising(s)
        BY <2>1 DEF D
    <3>2. /\ Shuffled(s.heap, Scheduler!Rise[s].heap)
          /\ Scheduler!Rise[s] = s \/ Scheduler!Rise[s].i < s.i
        BY <1>1, <3>1, Rises
    <3> QED BY <2>1, <3>2
  <2>3. V[t] \in D /\ Shuffled(h, V[t].heap)
    <3>1. V[t] \in D
        BY <1>3, <2>1
    <3>2. Shuffled(h, V[t].heap)
        BY <2>1, <2>2, ShuffledTwice
    <3> QED BY <3>1, <3>2
  <2>4. Scheduler!Rise[V[t]] = V[t] \/ V[t].i <= N - t
    <3>1. s.i \in Nat /\ V[t].i \in Nat
      <4>1. \A q \in D : q.i \in Nat
        BY <1>1 DEF D, Places
      <4> QED BY <2>1, <2>3, <4>1
    <3>2. CASE V[t] = s
      <4>1. Scheduler!Rise[s] = s => Scheduler!Rise[V[t]] = V[t]
        BY <3>2
      <4>2. Scheduler!Rise[s] = s
        BY <2>1, <3>2
      <4> QED BY <4>1, <4>2
    <3>3. CASE V[t] # s
      <4>1. s.i <= N - (t - 1) /\ V[t].i < s.i
        BY <2>1, <2>2, <3>3
      <4> QED BY <1>1, <3>1, <4>1
    <3> QED BY <3>2, <3>3
  <2> QED BY <2>3, <2>4
<1>11. N \in Holds
  <2>1. \A t \in 1 .. N : t - 1 \in Holds => t \in Holds
    BY <1>10
  <2> HIDE DEF Holds, N
  <2>2. \A t \in 0 .. N : t \in Holds
    BY <1>1, <1>9, <2>1, UpTo
  <2> QED BY <1>1, <2>2
<1>12. V[N] \in D /\ Shuffled(h, V[N].heap) /\ Scheduler!Rise[V[N]] = V[N]
  <2>1. V[N] \in D => V[N].i \in 1 .. N
    BY DEF D, Places
  <2> QED BY <1>1, <1>11, <2>1
<1>13. IsHeap(V[N].heap)
    BY <1>1, <1>12, Rises, Zenon DEF D
<1> QED BY <1>4, <1>12, <1>13

LEMMA SiftDownOrders ==
    ASSUME NEW h \in Seq(Event), h # <<>>, Sinking([heap |-> h, i |-> 1])
    PROVE  IsHeap(Scheduler!SiftDown(h)) /\ Shuffled(h, Scheduler!SiftDown(h))
<1> DEFINE N == Len(h)
           first == [heap |-> h, i |-> 1]
           D == {x \in Places(N) : Sinking(x)}
           step == [t \in 1 .. N |-> [x \in D |-> Scheduler!Sink[x]]]
           V == CHOOSE loop : loop =
                   [turn \in 0 .. Len(h) |->
                       IF turn = 0 THEN [heap |-> h, i |-> 1]
                       ELSE Scheduler!Sink[loop[turn - 1]]]
<1>1. N \in Nat /\ N > 0
    OBVIOUS
<1>2. first \in D
    BY <1>1 DEF Places
<1>3. \A x \in D : Scheduler!Sink[x] \in D
    BY <1>1, Sinks, Zenon
<1>4. Scheduler!SiftDown(h) = V[N].heap
    BY DEF Scheduler!SiftDown
<1> HIDE DEF D, first
<1>5. PICK w \in [0 .. N -> D] : Runs(w, N, first, step)
  <2>1. step \in [1 .. N -> [D -> D]]
    BY <1>3
  <2> HIDE DEF step
  <2> QED BY <1>1, <1>2, <2>1, Recursion
<1>6. w[0] = first /\ \A t \in 1 .. N : w[t] = Scheduler!Sink[w[t - 1]]
  <2>1. \A t \in 1 .. N : w[t - 1] \in D
    BY <1>1
  <2> QED BY <1>5, <2>1 DEF Runs
<1> HIDE DEF step
<1>7. V = [turn \in 0 .. Len(h) |->
              IF turn = 0 THEN [heap |-> h, i |-> 1]
              ELSE Scheduler!Sink[V[turn - 1]]]
  <2>1. ASSUME NEW turn \in 0 .. Len(h)
        PROVE  w[turn] = IF turn = 0 THEN [heap |-> h, i |-> 1]
                         ELSE Scheduler!Sink[w[turn - 1]]
    <3>1. turn # 0 => turn \in 1 .. N
        BY <1>1
    <3> QED BY <1>6, <3>1 DEF first
  <2>2. w = [turn \in 0 .. Len(h) |->
                IF turn = 0 THEN [heap |-> h, i |-> 1]
                ELSE Scheduler!Sink[w[turn - 1]]]
    BY <2>1
  <2> QED BY <2>2, Zenon
<1> HIDE DEF V
<1>8. V[0] = first /\ \A t \in 1 .. N : V[t] = Scheduler!Sink[V[t - 1]]
  <2>1. 0 \in 0 .. N /\ \A t \in 1 .. N : t \in 0 .. N /\ t # 0
    BY <1>1
  <2> QED BY <1>7, <2>1 DEF first
<1> DEFINE Holds == {t \in 0 .. N : /\ V[t] \in D /\ Shuffled(h, V[t].heap)
                                    /\ Scheduler!Sink[V[t]] = V[t] \/ V[t].i >= t + 1}
<1>9. 0 \in Holds
    BY <1>1, <1>2, <1>8, ShuffledItself DEF first
<1>10. ASSUME NEW t \in 1 .. N, t - 1 \in Holds PROVE t \in Holds
  <2>1. PICK s : /\ s \in D /\ Shuffled(h, s.heap) /\ V[t] = Scheduler!Sink[s]
                 /\ Scheduler!Sink[s] = s \/ s.i >= t
    BY <1>8, <1>10
  <2>2. /\ Shuffled(s.heap, V[t].heap)
        /\ V[t] = s \/ V[t].i > s.i
    <3>1. s \in Places(N) /\ Sinking(s)
        BY <2>1 DEF D
    <3>2. /\ Shuffled(s.heap, Scheduler!Sink[s].heap)
          /\ Scheduler!Sink[s] = s \/ Scheduler!Sink[s].i > s.i
        BY <1>1, <3>1, Sinks
    <3> QED BY <2>1, <3>2
  <2>3. V[t] \in D /\ Shuffled(h, V[t].heap)
    <3>1. V[t] \in D
        BY <1>3, <2>1
    <3>2. Shuffled(h, V[t].heap)
        BY <2>1, <2>2, ShuffledTwice
    <3> QED BY <3>1, <3>2
  <2>4. Scheduler!Sink[V[t]] = V[t] \/ V[t].i >= t + 1
    <3>1. s.i \in Nat /\ V[t].i \in Nat
      <4>1. \A q \in D : q.i \in Nat
        BY <1>1 DEF D, Places
      <4> QED BY <2>1, <2>3, <4>1
    <3>2. CASE V[t] = s
      <4>1. Scheduler!Sink[s] = s => Scheduler!Sink[V[t]] = V[t]
        BY <3>2
      <4>2. Scheduler!Sink[s] = s
        BY <2>1, <3>2
      <4> QED BY <4>1, <4>2
    <3>3. CASE V[t] # s
      <4>1. s.i >= t /\ V[t].i > s.i
        BY <2>1, <2>2, <3>3
      <4> QED BY <1>1, <3>1, <4>1
    <3> QED BY <3>2, <3>3
  <2> QED BY <2>3, <2>4
<1>11. N \in Holds
  <2>1. \A t \in 1 .. N : t - 1 \in Holds => t \in Holds
    BY <1>10
  <2> HIDE DEF Holds, N
  <2>2. \A t \in 0 .. N : t \in Holds
    BY <1>1, <1>9, <2>1, UpTo
  <2> QED BY <1>1, <2>2
<1>12. V[N] \in D /\ Shuffled(h, V[N].heap) /\ Scheduler!Sink[V[N]] = V[N]
  <2>1. V[N] \in D => V[N].i \in 1 .. N
    BY DEF D, Places
  <2> QED BY <1>1, <1>11, <2>1
<1>13. IsHeap(V[N].heap)
    BY <1>1, <1>12, Sinks, Zenon DEF D
<1> QED BY <1>4, <1>12, <1>13
LEMMA EventAdded ==
    ASSUME NEW h \in Seq(Event), IsHeap(h), NEW time \in Nat, NEW p \in Scheduler!Entry,
           NEW type \in {"ARRIVAL", "CPU_COMPLETION", "IO_COMPLETION", "CPU_TIMEOUT"}
    PROVE  LET e == [time |-> time, process_idx |-> p, type |-> type]
               g == Scheduler!add_event(h, time, p, type)
           IN  /\ e \in Event /\ Append(h, e) \in Seq(Event) /\ Len(Append(h, e)) = Len(h) + 1
               /\ IsHeap(g) /\ Shuffled(Append(h, e), g)
<1> DEFINE e == [time |-> time, process_idx |-> p, type |-> type]
           a == Append(h, e)
<1>1. e \in Event
    BY DEF Event, Scheduler!Event
<1>2. Scheduler!add_event(h, time, p, type) = Scheduler!SiftUp(a)
    BY DEF Scheduler!add_event
<1> HIDE DEF e
<1>3. /\ a \in Seq(Event) /\ Len(a) = Len(h) + 1
      /\ \A k \in 1 .. Len(h) : a[k] = h[k]
    BY <1>1
<1> HIDE DEF a
<1>4. Rising([heap |-> a, i |-> Len(a)])
  <2>1. ASSUME NEW k \in 2 .. Len(a), k # Len(a) PROVE Before(a[k \div 2], a[k])
    <3>1. k \in 2 .. Len(h) /\ k \in 1 .. Len(h) /\ k \div 2 \in 1 .. Len(h)
        BY <1>3, <2>1, Above
    <3> QED BY <1>3, <3>1 DEF IsHeap
  <2>2. \A k \in 2 .. Len(a) : k \div 2 # Len(a)
    BY <1>3, Above
  <2> QED BY <2>1, <2>2 DEF Rising
<1>5. a # <<>>
    BY <1>3
<1> QED BY <1>1, <1>2, <1>3, <1>4, <1>5, SiftUpOrders DEF a, e

LEMMA FirstTaken ==
    ASSUME NEW h \in Seq(Event), IsHeap(h), h # <<>>
    PROVE  LET g == Scheduler!get_next_event(h)
           IN  IsHeap(g) /\ Shuffled(Tail(h), g)
<1> DEFINE N == Len(h)
           g == Scheduler!get_next_event(h)
           a == [SubSeq(h, 1, N - 1) EXCEPT ![1] = h[N]]
<1>1. N \in Nat /\ N > 0 /\ Tail(h) \in Seq(Event) /\ Len(Tail(h)) = N - 1
    OBVIOUS
<1>2. CASE N = 1
  <2>1. g = <<>>
    BY <1>2 DEF Scheduler!get_next_event
  <2>2. Tail(h) = <<>>
    <3>1. Len(Tail(h)) = 0 /\ Tail(h) \in Seq(Event)
        BY <1>1, <1>2
    <3> QED BY <3>1, EmptySeq
  <2> HIDE DEF g
  <2>3. IsHeap(<<>>)
    BY DEF IsHeap
  <2> QED BY <2>1, <2>2, <2>3, <1>1, ShuffledItself DEF g
<1>3. CASE N # 1
  <2>1. g = Scheduler!SiftDown(a)
    BY <1>3 DEF Scheduler!get_next_event
  <2>2. /\ SubSeq(h, 1, N - 1) \in Seq(Event) /\ Len(SubSeq(h, 1, N - 1)) = N - 1
        /\ \A k \in 1 .. N - 1 : SubSeq(h, 1, N - 1)[k] = h[k]
    BY <1>1, <1>3
  <2>3. h[N] \in Event /\ N - 1 \in Nat /\ N - 1 >= 1
    BY <1>1, <1>3
  <2>4. /\ a \in Seq(Event) /\ Len(a) = N - 1 /\ a[1] = h[N]
        /\ \A k \in 2 .. N - 1 : a[k] = h[k]
    <3> DEFINE b == SubSeq(h, 1, N - 1)
               M == N - 1
               last == h[N]
    <3>1. b \in Seq(Event) /\ Len(b) = M /\ \A k \in 1 .. M : b[k] = h[k]
        BY <2>2
    <3>2. M \in Nat /\ M >= 1 /\ last \in Event
        BY <2>3
    <3> HIDE DEF b, M, last
    <3>3. [b EXCEPT ![1] = last] \in Seq(Event) /\ Len([b EXCEPT ![1] = last]) = M
        BY <3>1, <3>2
    <3>4. /\ [b EXCEPT ![1] = last][1] = last
          /\ \A k \in 2 .. M : [b EXCEPT ![1] = last][k] = h[k]
        BY <3>1, <3>2
    <3> QED BY <3>3, <3>4 DEF b, M, last
  <2> HIDE DEF a, g
  <2>5. Sinking([heap |-> a, i |-> 1])
    <3>1. ASSUME NEW k \in 2 .. Len(a), k \div 2 # 1 PROVE Before(a[k \div 2], a[k])
      <4>1. k \in 2 .. N - 1 /\ k \in 2 .. N /\ k \div 2 \in 2 .. N - 1
        BY <1>1, <2>4, <3>1, Above
      <4> QED BY <2>4, <4>1 DEF IsHeap
    <3> QED BY <3>1 DEF Sinking
  <2>6. IsHeap(g) /\ Shuffled(a, g)
    BY <2>1, <2>3, <2>4, <2>5, SiftDownOrders
  <2>7. Shuffled(Tail(h), a)
    <3> DEFINE f == [k \in 1 .. N - 1 |-> IF k = 1 THEN N - 1 ELSE k - 1]
    <3>1. Reorders(f, N - 1)
      <4>1. f \in [1 .. N - 1 -> 1 .. N - 1]
        BY <2>3
      <4>2. \A i, j \in 1 .. N - 1 : f[i] = f[j] => i = j
        BY <2>3
      <4>3. ASSUME NEW j \in 1 .. N - 1 PROVE \E i \in 1 .. N - 1 : f[i] = j
        <5>1. CASE j = N - 1
            BY <2>3, <5>1
        <5>2. CASE j # N - 1
          <6>1. j + 1 \in 1 .. N - 1 /\ f[j + 1] = j
            BY <2>3, <5>2
          <6> QED BY <6>1
        <5> QED BY <5>1, <5>2
      <4> HIDE DEF f
      <4> QED BY <4>1, <4>2, <4>3 DEF Reorders
    <3>2. ASSUME NEW k \in 1 .. N - 1 PROVE a[k] = Tail(h)[f[k]]
      <4>1. \A j \in 1 .. N - 1 : Tail(h)[j] = h[j + 1]
        BY <1>1
      <4>2. f[k] \in 1 .. N - 1 /\ f[k] + 1 = IF k = 1 THEN N ELSE k
        BY <2>3
      <4> QED BY <2>4, <4>1, <4>2
    <3> HIDE DEF f
    <3> QED BY <1>1, <2>4, <3>1, <3>2 DEF Shuffled
  <2> QED BY <1>1, <2>6, <2>7, ShuffledTwice DEF g
<1> QED BY <1>2, <1>3

-----------------------------------------------------------------------------
(* LA3: what the order of a heap does not change *)

AllLater(h, t) == \A k \in 1 .. Len(h) : t <= h[k].time

StopTypes == {"CPU_COMPLETION", "CPU_TIMEOUT"}

(* The event that stops whoever runs, and no other. *)
Stops(h, busy) ==
    IF busy = -1 THEN \A k \in 1 .. Len(h) : h[k].type \notin StopTypes
    ELSE \E k \in 1 .. Len(h) :
            /\ h[k].type \in StopTypes /\ h[k].process_idx = busy
            /\ \A j \in 1 .. Len(h) : h[j].type \in StopTypes => j = k

LEMMA ShuffleKeeps ==
    ASSUME NEW h \in Seq(Event), NEW g, Shuffled(h, g)
    PROVE  /\ g \in Seq(Event) /\ Len(g) = Len(h)
           /\ \A t : AllLater(h, t) => AllLater(g, t)
           /\ \A busy : Stops(h, busy) => Stops(g, busy)
<1> DEFINE N == Len(h)
<1>1. g \in Seq(Event) /\ Len(g) = N /\ N \in Nat
    BY DEF Shuffled
<1>2. PICK f : Reorders(f, N) /\ \A k \in 1 .. N : g[k] = h[f[k]]
    BY DEF Shuffled
<1> HIDE DEF N
<1>3. \A k \in 1 .. N : f[k] \in 1 .. N
    BY <1>2 DEF Reorders
<1>4. ASSUME NEW t, AllLater(h, t) PROVE AllLater(g, t)
    BY <1>1, <1>2, <1>3, <1>4 DEF AllLater, N
<1>5. ASSUME NEW busy, Stops(h, busy) PROVE Stops(g, busy)
  <2>1. CASE busy = -1
    BY <1>1, <1>2, <1>3, <1>5, <2>1 DEF Stops, N
  <2>2. CASE busy # -1
    <3>1. PICK k \in 1 .. N :
            /\ h[k].type \in StopTypes /\ h[k].process_idx = busy
            /\ \A j \in 1 .. N : h[j].type \in StopTypes => j = k
        BY <1>5, <2>2 DEF Stops, N
    <3>2. PICK i \in 1 .. N : f[i] = k
        BY <1>2 DEF Reorders
    <3>3. g[i].type \in StopTypes /\ g[i].process_idx = busy
        BY <1>2, <3>1, <3>2
    <3>4. ASSUME NEW j \in 1 .. N, g[j].type \in StopTypes PROVE j = i
      <4>1. f[j] = k
        BY <1>2, <1>3, <3>1, <3>4
      <4> QED BY <1>2, <3>2, <4>1 DEF Reorders
    <3> QED BY <1>1, <2>2, <3>3, <3>4 DEF Stops
  <2> QED BY <2>1, <2>2
<1> QED BY <1>1, <1>4, <1>5 DEF N

(* What add_event adds to that. *)
LEMMA AddKeeps ==
    ASSUME NEW h \in Seq(Event), IsHeap(h), NEW time \in Nat, NEW p \in Scheduler!Entry,
           NEW type \in {"ARRIVAL", "CPU_COMPLETION", "IO_COMPLETION", "CPU_TIMEOUT"}
    PROVE  LET g == Scheduler!add_event(h, time, p, type)
           IN  /\ g \in Seq(Event) /\ Len(g) = Len(h) + 1 /\ IsHeap(g)
               /\ \A t \in Nat : AllLater(h, t) /\ t <= time => AllLater(g, t)
               /\ \A busy : Stops(h, busy) /\ type \notin StopTypes => Stops(g, busy)
               /\ Stops(h, -1) /\ type \in StopTypes => Stops(g, p)
<1> DEFINE e == [time |-> time, process_idx |-> p, type |-> type]
           a == Append(h, e)
           g == Scheduler!add_event(h, time, p, type)
<1>1. e \in Event /\ a \in Seq(Event) /\ Len(a) = Len(h) + 1
      /\ IsHeap(g) /\ Shuffled(a, g)
    BY EventAdded
<1>2. /\ \A k \in 1 .. Len(h) : a[k] = h[k] /\ k \in 1 .. Len(a)
      /\ a[Len(h) + 1] = e /\ Len(h) + 1 \in 1 .. Len(a) /\ Len(h) \in Nat
      /\ \A k \in 1 .. Len(a) : k = Len(h) + 1 \/ k \in 1 .. Len(h)
    BY <1>1
<1>3. e.time = time /\ e.process_idx = p /\ e.type = type /\ p # -1
    BY InputAssumption
    DEF Scheduler!Entry, Scheduler!ScheduleAssumption
<1> HIDE DEF a, e, g
<1>4. ASSUME NEW t \in Nat, AllLater(h, t), t <= time PROVE AllLater(a, t)
    BY <1>2, <1>3, <1>4 DEF AllLater
<1>5. ASSUME NEW busy, Stops(h, busy), type \notin StopTypes PROVE Stops(a, busy)
  <2>1. CASE busy = -1
    BY <1>2, <1>3, <1>5, <2>1 DEF Stops
  <2>2. CASE busy # -1
    <3>1. PICK k \in 1 .. Len(h) :
            /\ h[k].type \in StopTypes /\ h[k].process_idx = busy
            /\ \A j \in 1 .. Len(h) : h[j].type \in StopTypes => j = k
        BY <1>5, <2>2 DEF Stops
    <3>2. \A j \in 1 .. Len(a) : a[j].type \in StopTypes => j = k
        BY <1>2, <1>3, <1>5, <3>1
    <3>3. k \in 1 .. Len(a) /\ a[k] = h[k]
        BY <1>2
    <3> QED BY <2>2, <3>1, <3>2, <3>3 DEF Stops
  <2> QED BY <2>1, <2>2
<1>6. ASSUME Stops(h, -1), type \in StopTypes PROVE Stops(a, p)
  <2>1. \A j \in 1 .. Len(h) : h[j].type \notin StopTypes
    BY <1>6 DEF Stops
  <2>2. \A j \in 1 .. Len(a) : a[j].type \in StopTypes => j = Len(h) + 1
    BY <1>2, <2>1
  <2>3. a[Len(h) + 1].type \in StopTypes /\ a[Len(h) + 1].process_idx = p
    BY <1>2, <1>3, <1>6
  <2> QED BY <1>2, <1>3, <2>2, <2>3 DEF Stops
<1>7. /\ g \in Seq(Event) /\ Len(g) = Len(a)
      /\ \A t : AllLater(a, t) => AllLater(g, t)
      /\ \A busy : Stops(a, busy) => Stops(g, busy)
    BY <1>1, ShuffleKeeps
<1> QED BY <1>1, <1>4, <1>5, <1>6, <1>7 DEF g

(* And what get_next_event leaves of it. *)
LEMMA TakeKeeps ==
    ASSUME NEW h \in Seq(Event), IsHeap(h), h # <<>>
    PROVE  LET g == Scheduler!get_next_event(h)
           IN  /\ g \in Seq(Event) /\ Len(g) = Len(h) - 1 /\ IsHeap(g)
               /\ Head(h) \in Event /\ AllLater(g, Head(h).time)
               /\ \A busy : Stops(h, busy) /\ Head(h).type \notin StopTypes
                               => Stops(g, busy)
               /\ \A busy : Stops(h, busy) /\ Head(h).type \in StopTypes
                               => busy # -1 /\ Stops(g, -1)
<1> DEFINE t == Tail(h)
           g == Scheduler!get_next_event(h)
<1>1. IsHeap(g) /\ Shuffled(t, g)
    BY FirstTaken
<1>2. /\ t \in Seq(Event) /\ Len(t) = Len(h) - 1 /\ Len(h) \in Nat /\ Len(h) > 0
      /\ Head(h) = h[1] /\ h[1] \in Event
      /\ \A k \in 1 .. Len(t) : t[k] = h[k + 1]
    OBVIOUS
<1> HIDE DEF t, g
<1>3. /\ \A k \in 1 .. Len(t) : k + 1 \in 2 .. Len(h) /\ k + 1 \in 1 .. Len(h)
      /\ \A k \in 2 .. Len(h) : k - 1 \in 1 .. Len(t) /\ t[k - 1] = h[k]
      /\ 1 \in 1 .. Len(h)
      /\ \A k \in 1 .. Len(h) : k = 1 \/ k \in 2 .. Len(h)
    BY <1>2
<1>4. AllLater(t, Head(h).time)
  <2> SUFFICES ASSUME NEW k \in 1 .. Len(t) PROVE h[1].time <= h[k + 1].time
    BY <1>2 DEF AllLater
  <2>1. h[k + 1] \in Event /\ Before(h[1], h[k + 1])
    BY <1>3, FirstIsLeast
  <2> QED BY <1>2, <2>1, Compared
<1>5. ASSUME NEW busy, Stops(h, busy), h[1].type \notin StopTypes PROVE Stops(t, busy)
  <2>1. CASE busy = -1
    BY <1>2, <1>3, <1>5, <2>1 DEF Stops
  <2>2. CASE busy # -1
    <3>1. PICK k \in 1 .. Len(h) :
            /\ h[k].type \in StopTypes /\ h[k].process_idx = busy
            /\ \A j \in 1 .. Len(h) : h[j].type \in StopTypes => j = k
        BY <1>5, <2>2 DEF Stops
    <3>2. k \in 2 .. Len(h)
        BY <1>3, <1>5, <3>1
    <3>3. k - 1 \in 1 .. Len(t) /\ t[k - 1] = h[k]
        BY <1>3, <3>2
    <3>4. ASSUME NEW j \in 1 .. Len(t), t[j].type \in StopTypes PROVE j = k - 1
      <4>1. j + 1 = k
        BY <1>2, <1>3, <3>1, <3>4
      <4> QED BY <4>1
    <3> QED BY <2>2, <3>1, <3>3, <3>4 DEF Stops
  <2> QED BY <2>1, <2>2
<1>6. ASSUME NEW busy, Stops(h, busy), h[1].type \in StopTypes
      PROVE  busy # -1 /\ Stops(t, -1)
  <2>1. busy # -1
    BY <1>3, <1>6 DEF Stops
  <2>2. PICK k \in 1 .. Len(h) :
            \A j \in 1 .. Len(h) : h[j].type \in StopTypes => j = k
    BY <1>6, <2>1 DEF Stops
  <2>3. k = 1
    BY <1>3, <1>6, <2>2
  <2>4. ASSUME NEW j \in 1 .. Len(t) PROVE t[j].type \notin StopTypes
    <3>1. t[j] = h[j + 1] /\ j + 1 \in 1 .. Len(h) /\ j + 1 # 1
        BY <1>2, <1>3
    <3> QED BY <2>2, <2>3, <3>1
  <2> QED BY <2>1, <2>4 DEF Stops
<1>7. /\ g \in Seq(Event) /\ Len(g) = Len(t)
      /\ \A u : AllLater(t, u) => AllLater(g, u)
      /\ \A busy : Stops(t, busy) => Stops(g, busy)
    BY <1>1, <1>2, ShuffleKeeps
<1> QED BY <1>1, <1>2, <1>4, <1>5, <1>6, <1>7 DEF g

-----------------------------------------------------------------------------
(* LA3: the invariant of the simulation *)

(***************************************************************************)
(* Events are a heap and none is in the past; the CPU is idle only if      *)
(* nobody is ready, and its next stop is in the heap once; events, entries *)
(* of the ready queue and exits keep their number.                         *)
(***************************************************************************)
Simulated ==
    /\ quantum \in Nat
    /\ bursts \in [Scheduler!Entry -> [0 .. MAX_BURSTS - 1 -> Nat]]
    /\ current_burst \in [Scheduler!Entry -> Nat]
    /\ handled \in Nat /\ exits \in Seq(Scheduler!Entry)
    /\ cpu_busy \in Scheduler!Entry \cup {-1}
    /\ cpu_ready_queue \in Seq(Scheduler!Entry)
    /\ events \in Seq(Event) /\ IsHeap(events) /\ AllLater(events, handled)
    /\ cpu_busy = -1 => cpu_ready_queue = <<>>
    /\ Stops(events, cpu_busy)
    /\ Len(events) + Len(cpu_ready_queue) + Len(exits) = num_processes

LEMMA NumbersOfLA3 ==
    /\ num_processes \in Nat \ {0} /\ MAX_BURSTS \in Nat /\ -1 \notin Scheduler!Entry
    /\ \A p \in Scheduler!Process : p \in Scheduler!Entry /\ Scheduler!id(p) \in Scheduler!Entry
    /\ \A p \in Scheduler!Entry : Scheduler!id(p) \in Scheduler!Entry
BY InputAssumption
DEF Scheduler!ScheduleAssumption, Scheduler!Entry, Scheduler!Process, Scheduler!id

LEMMA GreatestIn ==
    ASSUME NEW S, S \subseteq Nat, IsFiniteSet(S), S # {}
    PROVE  \E x \in S : \A y \in S : x >= y
<1> DEFINE Greatest(U) == \E x \in U : \A y \in U : x >= y
           T == {c \in Nat : \E U \in SUBSET S :
                                U # {} /\ Cardinality(U) = c /\ ~Greatest(U)}
<1>1. \A U \in SUBSET S : IsFiniteSet(U) /\ Cardinality(U) \in Nat
    BY FS_Subset, FS_CardinalityType
<1> SUFFICES ASSUME T # {} PROVE FALSE
    BY <1>1
<1>2. PICK c \in T : \A d \in T : c <= d
  <2>1. T \subseteq Nat
    OBVIOUS
  <2> HIDE DEF T
  <2> QED BY <2>1, LeastNatural
<1>3. PICK U \in SUBSET S : U # {} /\ Cardinality(U) = c /\ ~Greatest(U)
    BY <1>2
<1>4. PICK x \in U : TRUE
    BY <1>3
<1> DEFINE W == U \ {x}
<1>5. W \in SUBSET S /\ Cardinality(W) = c - 1 /\ c - 1 \in Nat
  <2>1. W \in SUBSET S /\ IsFiniteSet(U) /\ c \in Nat /\ x \in U
    BY <1>1, <1>3, <1>4
  <2>2. Cardinality(W) = Cardinality(U) - 1
    BY <2>1, FS_RemoveElement
  <2>3. Cardinality(W) \in Nat
    BY <1>1, <2>1
  <2> HIDE DEF W, T
  <2> QED BY <1>3, <2>1, <2>2, <2>3
<1>6. W # {}
  <2> SUFFICES ASSUME W = {} PROVE FALSE
    OBVIOUS
  <2>1. U = {x} /\ x \in Nat
    BY <1>4
  <2> QED BY <1>3, <2>1
<1>7. Greatest(W)
  <2>1. c - 1 \notin T
    BY <1>2, <1>5
  <2> HIDE DEF Greatest, W
  <2> QED BY <1>5, <1>6, <2>1
<1>8. PICK m \in W : \A y \in W : m >= y
    BY <1>7
<1>9. Greatest(U)
  <2>1. m \in U /\ x \in U /\ m \in Nat /\ x \in Nat /\ \A y \in U : y \in Nat
    BY <1>4, <1>8
  <2>2. \A y \in U : y = x \/ y \in W
    OBVIOUS
  <2>3. CASE m >= x
    BY <1>8, <2>1, <2>2, <2>3
  <2>4. CASE x >= m
    BY <1>8, <2>1, <2>2, <2>4
  <2> QED BY <2>1, <2>3, <2>4
<1> QED BY <1>3, <1>9

LEMMA ArrivalsAreTimes ==
    ASSUME NEW a \in Scheduler!Arrivals
    PROVE  \A p \in Scheduler!Process : a[p] \in Nat
<1>1. Gaps \subseteq Nat /\ Gaps # {} /\ IsFiniteSet(Gaps)
  <2>1. Scheduler!IsFiniteSet(Gaps) => IsFiniteSet(Gaps)
    BY Zenon DEF Scheduler!IsFiniteSet, IsFiniteSet
  <2> QED BY <2>1, InputAssumption DEF Scheduler!ScheduleAssumption
<1>2. Scheduler!Max(Gaps) \in Nat
  <2>1. \E x \in Gaps : \A y \in Gaps : x >= y
    BY <1>1, GreatestIn
  <2>2. Scheduler!Max(Gaps) \in Gaps
    BY <2>1 DEF Scheduler!Max
  <2> QED BY <1>1, <2>2
<1>3. num_processes * Scheduler!Max(Gaps) \in Int
    BY <1>2, NumbersOfLA3
<1>4. a \in [Scheduler!Process -> 0 .. num_processes * Scheduler!Max(Gaps)]
    BY DEF Scheduler!Arrivals
<1> QED BY <1>3, <1>4

(* The heap of the arrivals. *)
LEMMA AllArriveIs ==
    ASSUME NEW a \in Scheduler!Arrivals
    PROVE  LET g == Scheduler!AllArrive(a)
           IN  /\ g \in Seq(Event) /\ Len(g) = num_processes /\ IsHeap(g)
               /\ AllLater(g, 0) /\ Stops(g, -1)
<1> DEFINE N == num_processes
           D == {h \in Seq(Event) : IsHeap(h) /\ AllLater(h, 0) /\ Stops(h, -1)}
           put(h, k) == Scheduler!add_event(h, a[k - 1], k - 1, "ARRIVAL")
           step == [k \in 1 .. N |-> [h \in D |-> put(h, k)]]
           V == CHOOSE first : first =
                   [k \in 0 .. num_processes |->
                       IF k = 0 THEN <<>>
                       ELSE Scheduler!add_event(first[k - 1], a[k - 1], k - 1, "ARRIVAL")]
<1>1. N \in Nat /\ N > 0
    BY NumbersOfLA3
<1>2. <<>> \in D
    BY DEF IsHeap, AllLater, Stops
<1>3. ASSUME NEW h \in D, NEW k \in 1 .. N
      PROVE  put(h, k) \in D /\ Len(put(h, k)) = Len(h) + 1
  <2>1. k - 1 \in Scheduler!Process /\ k - 1 \in Scheduler!Entry
    BY <1>1, NumbersOfLA3 DEF Scheduler!Process
  <2>2. a[k - 1] \in Nat /\ 0 <= a[k - 1]
    BY <2>1, ArrivalsAreTimes
  <2>3. h \in Seq(Event) /\ IsHeap(h) /\ AllLater(h, 0) /\ Stops(h, -1)
    OBVIOUS
  <2>4. "ARRIVAL" \notin StopTypes
    BY DEF StopTypes
  <2> DEFINE g == put(h, k)
  <2>5. /\ g \in Seq(Event) /\ Len(g) = Len(h) + 1 /\ IsHeap(g)
        /\ \A t \in Nat : AllLater(h, t) /\ t <= a[k - 1] => AllLater(g, t)
        /\ \A busy : Stops(h, busy) /\ "ARRIVAL" \notin StopTypes => Stops(g, busy)
    BY <2>1, <2>2, <2>3, AddKeeps
  <2> HIDE DEF g
  <2>6. g \in D
    BY <2>2, <2>3, <2>4, <2>5
  <2> QED BY <2>5, <2>6 DEF g
<1>4. Scheduler!AllArrive(a) = V[N]
    BY DEF Scheduler!AllArrive
<1> HIDE DEF put
<1>5. PICK w \in [0 .. N -> D] : Runs(w, N, <<>>, step)
  <2>1. step \in [1 .. N -> [D -> D]]
    BY <1>3
  <2> HIDE DEF step, D
  <2> QED BY <1>1, <1>2, <2>1, Recursion
<1> HIDE DEF D
<1>6. w[0] = <<>> /\ \A k \in 1 .. N : w[k] = put(w[k - 1], k)
  <2>1. \A k \in 1 .. N : w[k - 1] \in D
    BY <1>1
  <2> QED BY <1>5, <2>1 DEF Runs
<1> HIDE DEF step
<1>7. V = [k \in 0 .. num_processes |->
              IF k = 0 THEN <<>>
              ELSE Scheduler!add_event(V[k - 1], a[k - 1], k - 1, "ARRIVAL")]
  <2>1. ASSUME NEW k \in 0 .. num_processes
        PROVE  w[k] = IF k = 0 THEN <<>>
                      ELSE Scheduler!add_event(w[k - 1], a[k - 1], k - 1, "ARRIVAL")
    <3>1. k # 0 => k \in 1 .. N
        BY <1>1
    <3> QED BY <1>6, <3>1 DEF put
  <2>2. w = [k \in 0 .. num_processes |->
                IF k = 0 THEN <<>>
                ELSE Scheduler!add_event(w[k - 1], a[k - 1], k - 1, "ARRIVAL")]
    BY <2>1
  <2> QED BY <2>2, Zenon
<1> HIDE DEF V
<1>8. V[0] = <<>> /\ \A k \in 1 .. N : V[k] = put(V[k - 1], k)
  <2>1. 0 \in 0 .. N /\ \A k \in 1 .. N : k \in 0 .. N /\ k # 0
    BY <1>1
  <2> QED BY <1>7, <2>1 DEF put
<1> DEFINE Holds == {k \in 0 .. N : V[k] \in D /\ Len(V[k]) = k}
<1>9. 0 \in Holds
    BY <1>1, <1>2, <1>8
<1>10. \A k \in 1 .. N : k - 1 \in Holds => k \in Holds
    BY <1>3, <1>8
<1>11. N \in Holds
  <2> HIDE DEF Holds
  <2>1. \A k \in 0 .. N : k \in Holds
    BY <1>1, <1>9, <1>10, UpTo
  <2> QED BY <1>1, <2>1
<1> QED BY <1>4, <1>11 DEF D

LEMMA InitSimulated == Scheduler!Init => Simulated
<1> SUFFICES ASSUME NEW b \in [Scheduler!Process -> Bursts],
                    NEW a \in Scheduler!Arrivals, NEW q \in Quanta,
                    Scheduler!Starts(b, a, q)
             PROVE  Simulated
    BY DEF Scheduler!Init
<1>1. /\ quantum = q /\ events = Scheduler!AllArrive(a) /\ cpu_ready_queue = <<>>
      /\ cpu_busy = -1 /\ handled = 0 /\ exits = <<>>
      /\ current_burst = [p \in Scheduler!Entry |-> 0]
    BY DEF Scheduler!Starts
<1>2. q \in Nat
    BY InputAssumption DEF Scheduler!ScheduleAssumption
<1>3. bursts \in [Scheduler!Entry -> [0 .. MAX_BURSTS - 1 -> Nat]]
  <2>1. ASSUME NEW p \in Scheduler!Process PROVE b[p] \in Seq(Nat)
    BY InputAssumption DEF Scheduler!ScheduleAssumption
  <2>2. ASSUME NEW p \in Scheduler!Entry, NEW j \in 0 .. MAX_BURSTS - 1
        PROVE  (IF p \in Scheduler!Process /\ j < Len(b[p]) THEN b[p][j + 1] ELSE 0) \in Nat
    <3>1. CASE p \in Scheduler!Process /\ j < Len(b[p])
      <4>1. b[p] \in Seq(Nat) /\ j + 1 \in 1 .. Len(b[p])
        BY <2>1, <3>1, NumbersOfLA3
      <4> QED BY <3>1, <4>1
    <3>2. CASE ~(p \in Scheduler!Process /\ j < Len(b[p]))
      BY <3>2
    <3> QED BY <3>1, <3>2
  <2>3. bursts = [p \in Scheduler!Entry |-> [j \in 0 .. MAX_BURSTS - 1 |->
                    IF p \in Scheduler!Process /\ j < Len(b[p]) THEN b[p][j + 1] ELSE 0]]
    BY DEF Scheduler!Starts
  <2> QED BY <2>2, <2>3
<1>4. /\ events \in Seq(Event) /\ Len(events) = num_processes /\ IsHeap(events)
      /\ AllLater(events, 0) /\ Stops(events, -1)
    BY <1>1, AllArriveIs
<1>5. Len(events) + Len(cpu_ready_queue) + Len(exits) = num_processes
    BY <1>1, <1>4, NumbersOfLA3
<1> QED BY <1>1, <1>2, <1>3, <1>4, <1>5 DEF Simulated

-----------------------------------------------------------------------------
(* LA3: every event keeps it *)

LEMMA Dispatched ==
    ASSUME Simulated, NEW now \in Nat, NEW t \in Nat, t <= now,
           NEW heap \in Seq(Event), IsHeap(heap), AllLater(heap, t),
           NEW ready \in Seq(Scheduler!Entry),
           NEW burst_of \in [Scheduler!Entry -> Nat],
           NEW busy \in Scheduler!Entry \cup {-1}, Stops(heap, busy),
           Scheduler!Dispatch(now, heap, ready, burst_of, busy)
    PROVE  /\ bursts' \in [Scheduler!Entry -> [0 .. MAX_BURSTS - 1 -> Nat]]
           /\ cpu_busy' \in Scheduler!Entry \cup {-1}
           /\ cpu_ready_queue' \in Seq(Scheduler!Entry)
           /\ events' \in Seq(Event) /\ IsHeap(events') /\ AllLater(events', t)
           /\ cpu_busy' = -1 => cpu_ready_queue' = <<>>
           /\ Stops(events', cpu_busy')
           /\ Len(events') + Len(cpu_ready_queue') = Len(heap) + Len(ready)
<1>1. /\ bursts \in [Scheduler!Entry -> [0 .. MAX_BURSTS - 1 -> Nat]] /\ quantum \in Nat
    BY DEF Simulated
<1>2. CASE busy = -1 /\ ready # <<>>
  <2> DEFINE next == Head(ready)
             left == bursts[next][burst_of[next]]
  <2>1. /\ burst_of[next] < MAX_BURSTS
        /\ cpu_ready_queue' = Tail(ready)
        /\ cpu_busy' = next
        /\ IF quantum >= left
           THEN /\ events' = Scheduler!add_event(heap, now + left, next, "CPU_COMPLETION")
                /\ UNCHANGED bursts
           ELSE /\ events' = Scheduler!add_event(heap, now + quantum, next, "CPU_TIMEOUT")
                /\ bursts' = [bursts EXCEPT ![next][burst_of[next]] = @ - quantum]
    BY <1>2 DEF Scheduler!Dispatch, Scheduler!CpuFree, Scheduler!First, Scheduler!Dequeued
  <2>2. /\ next \in Scheduler!Entry /\ next # -1 /\ Tail(ready) \in Seq(Scheduler!Entry)
        /\ Len(Tail(ready)) = Len(ready) - 1 /\ Len(ready) \in Nat /\ Len(heap) \in Nat
    BY <1>2, NumbersOfLA3
  <2> HIDE DEF next
  <2>3. burst_of[next] \in 0 .. MAX_BURSTS - 1
    <3>1. burst_of[next] \in Nat
        BY <2>2
    <3> QED BY <2>1, <3>1, NumbersOfLA3
  <2>4. left \in Nat
    BY <1>1, <2>2, <2>3
  <2> HIDE DEF left
  <2>5. Stops(heap, -1)
    BY <1>2
  <2>6. {"CPU_COMPLETION", "CPU_TIMEOUT"} = StopTypes
    BY DEF StopTypes
  <2>7. CASE quantum >= left
    <3> DEFINE g == Scheduler!add_event(heap, now + left, next, "CPU_COMPLETION")
    <3>1. now + left \in Nat /\ t <= now + left
        BY <2>4
    <3>2. /\ g \in Seq(Event) /\ Len(g) = Len(heap) + 1 /\ IsHeap(g)
          /\ AllLater(heap, t) /\ t <= now + left => AllLater(g, t)
          /\ Stops(heap, -1) /\ "CPU_COMPLETION" \in StopTypes => Stops(g, next)
        BY <2>2, <3>1, AddKeeps
    <3>3. events' = g /\ bursts' = bursts
        BY <2>1, <2>7
    <3> HIDE DEF g
    <3>4. AllLater(g, t) /\ Stops(g, next)
        BY <2>5, <2>6, <3>1, <3>2
    <3>5. Len(g) + Len(Tail(ready)) = Len(heap) + Len(ready)
        BY <2>2, <3>2
    <3>6. /\ cpu_ready_queue' = Tail(ready) /\ cpu_busy' = next /\ events' = g
          /\ bursts' \in [Scheduler!Entry -> [0 .. MAX_BURSTS - 1 -> Nat]]
        BY <1>1, <2>1, <3>3
    <3> QED BY <2>2, <3>2, <3>4, <3>5, <3>6
  <2>8. CASE ~(quantum >= left)
    <3> DEFINE g == Scheduler!add_event(heap, now + quantum, next, "CPU_TIMEOUT")
    <3>1. now + quantum \in Nat /\ t <= now + quantum
        BY <1>1
    <3>2. /\ g \in Seq(Event) /\ Len(g) = Len(heap) + 1 /\ IsHeap(g)
          /\ AllLater(heap, t) /\ t <= now + quantum => AllLater(g, t)
          /\ Stops(heap, -1) /\ "CPU_TIMEOUT" \in StopTypes => Stops(g, next)
        BY <2>2, <3>1, AddKeeps
    <3>3. events' = g /\ bursts' = [bursts EXCEPT ![next][burst_of[next]] = @ - quantum]
        BY <2>1, <2>8
    <3>4. bursts' \in [Scheduler!Entry -> [0 .. MAX_BURSTS - 1 -> Nat]]
      <4>1. bursts[next] \in [0 .. MAX_BURSTS - 1 -> Nat]
        BY <1>1, <2>2
      <4>2. bursts[next][burst_of[next]] - quantum \in Nat
        BY <1>1, <2>4, <2>8 DEF left
      <4>3. [bursts[next] EXCEPT ![burst_of[next]] = @ - quantum]
                \in [0 .. MAX_BURSTS - 1 -> Nat]
        BY <4>1, <4>2
      <4>4. bursts' = [bursts EXCEPT ![next] =
                          [bursts[next] EXCEPT ![burst_of[next]] = @ - quantum]]
        BY <3>3
      <4> QED BY <1>1, <4>3, <4>4
    <3> HIDE DEF g
    <3>5. AllLater(g, t) /\ Stops(g, next)
        BY <2>5, <2>6, <3>1, <3>2
    <3>6. Len(g) + Len(Tail(ready)) = Len(heap) + Len(ready)
        BY <2>2, <3>2
    <3>7. /\ cpu_ready_queue' = Tail(ready) /\ cpu_busy' = next /\ events' = g
          /\ bursts' \in [Scheduler!Entry -> [0 .. MAX_BURSTS - 1 -> Nat]]
        BY <2>1, <3>3, <3>4
    <3> QED BY <2>2, <3>2, <3>5, <3>6, <3>7
  <2> QED BY <2>7, <2>8
<1>3. CASE ~(busy = -1 /\ ready # <<>>)
  <2>1. cpu_ready_queue' = ready /\ cpu_busy' = busy /\ events' = heap /\ bursts' = bursts
    BY <1>3 DEF Scheduler!Dispatch, Scheduler!CpuFree
  <2> QED BY <1>1, <1>3, <2>1
<1> QED BY <1>2, <1>3

(* What the next event is, and what is left without it. *)
LEMMA NextEvent ==
    ASSUME Simulated, events # <<>>
    PROVE  /\ Head(events).time \in Nat /\ Head(events).process_idx \in Scheduler!Entry
           /\ Scheduler!get_next_event(events) \in Seq(Event)
           /\ Len(Scheduler!get_next_event(events)) = Len(events) - 1
           /\ IsHeap(Scheduler!get_next_event(events))
           /\ AllLater(Scheduler!get_next_event(events), Head(events).time)
           /\ Head(events).type \notin StopTypes
                 => Stops(Scheduler!get_next_event(events), cpu_busy)
           /\ Head(events).type \in StopTypes
                 => cpu_busy # -1 /\ Stops(Scheduler!get_next_event(events), -1)
<1>1. events \in Seq(Event) /\ IsHeap(events) /\ Stops(events, cpu_busy)
    BY DEF Simulated
<1>2. Head(events) \in Event
    BY <1>1, TakeKeeps
<1>3. Head(events).time \in Nat /\ Head(events).process_idx \in Scheduler!Entry
    BY <1>2 DEF Event, Scheduler!Event
<1> QED BY <1>1, <1>3, TakeKeeps

LEMMA Counts ==
    Simulated => /\ Len(events) \in Nat /\ Len(cpu_ready_queue) \in Nat /\ Len(exits) \in Nat
                 /\ Len(events) + Len(cpu_ready_queue) + Len(exits) = num_processes
BY DEF Simulated

LEMMA SimulatedJoinReady == Simulated /\ Scheduler!JoinReady => Simulated'
<1> SUFFICES ASSUME Simulated, Scheduler!JoinReady PROVE Simulated'
    OBVIOUS
<1> DEFINE e == Head(events)
           p == e.process_idx
           rest == Scheduler!get_next_event(events)
           now == e.time + bursts[p][current_burst[p]]
           ready == Append(cpu_ready_queue, p)
<1>1. /\ events # <<>> /\ e.type \in {"ARRIVAL", "IO_COMPLETION"}
      /\ handled' = e.time /\ current_burst[p] < MAX_BURSTS
      /\ current_burst' = [current_burst EXCEPT ![p] = @ + 1]
      /\ Scheduler!Dispatch(now, rest, ready, current_burst', cpu_busy)
      /\ quantum' = quantum /\ exits' = exits
    BY DEF Scheduler!JoinReady, Scheduler!NextIs, Scheduler!Take, Scheduler!enqueue
<1>2. e.type \notin StopTypes
    BY <1>1 DEF StopTypes
<1>3. /\ e.time \in Nat /\ p \in Scheduler!Entry
      /\ rest \in Seq(Event) /\ Len(rest) = Len(events) - 1 /\ IsHeap(rest)
      /\ AllLater(rest, e.time) /\ Stops(rest, cpu_busy)
    BY <1>1, <1>2, NextEvent
<1> HIDE DEF e, p, rest
<1>4. /\ bursts \in [Scheduler!Entry -> [0 .. MAX_BURSTS - 1 -> Nat]]
      /\ current_burst \in [Scheduler!Entry -> Nat] /\ quantum \in Nat
      /\ cpu_busy \in Scheduler!Entry \cup {-1}
      /\ cpu_ready_queue \in Seq(Scheduler!Entry)
    BY DEF Simulated
<1>5. current_burst[p] \in 0 .. MAX_BURSTS - 1 /\ current_burst[p] \in Nat
  <2>1. current_burst[p] \in Nat
    BY <1>3, <1>4
  <2> QED BY <1>1, <2>1, NumbersOfLA3
<1>6. now \in Nat /\ e.time <= now
  <2>1. bursts[p][current_burst[p]] \in Nat
    BY <1>3, <1>4, <1>5
  <2> QED BY <1>3, <2>1
<1>7. current_burst' \in [Scheduler!Entry -> Nat]
    BY <1>1, <1>3, <1>4, <1>5
<1>8. ready \in Seq(Scheduler!Entry) /\ Len(ready) = Len(cpu_ready_queue) + 1
    BY <1>3, <1>4
<1> HIDE DEF now, ready
<1>9. /\ bursts' \in [Scheduler!Entry -> [0 .. MAX_BURSTS - 1 -> Nat]]
      /\ cpu_busy' \in Scheduler!Entry \cup {-1}
      /\ cpu_ready_queue' \in Seq(Scheduler!Entry)
      /\ events' \in Seq(Event) /\ IsHeap(events') /\ AllLater(events', e.time)
      /\ cpu_busy' = -1 => cpu_ready_queue' = <<>>
      /\ Stops(events', cpu_busy')
      /\ Len(events') + Len(cpu_ready_queue') = Len(rest) + Len(ready)
  <2>1. Scheduler!Dispatch(now, rest, ready, current_burst', cpu_busy)
    BY <1>1
  <2>2. cpu_busy \in Scheduler!Entry \cup {-1}
    BY <1>4
  <2>3. e.time \in Nat /\ rest \in Seq(Event) /\ IsHeap(rest)
        /\ AllLater(rest, e.time) /\ Stops(rest, cpu_busy)
    BY <1>3
  <2>4. ready \in Seq(Scheduler!Entry)
    BY <1>8
  <2> QED BY <2>1, <2>2, <2>3, <2>4, <1>6, <1>7, Dispatched
<1>10. Len(events') + Len(cpu_ready_queue') + Len(exits') = num_processes
  <2>1. /\ Len(events') + Len(cpu_ready_queue') = Len(rest) + Len(ready)
        /\ Len(rest) = Len(events) - 1 /\ Len(ready) = Len(cpu_ready_queue) + 1
        /\ exits' = exits
    BY <1>1, <1>3, <1>8, <1>9
  <2> QED BY <2>1, Counts
<1>11. exits' \in Seq(Scheduler!Entry)
    BY <1>1 DEF Simulated
<1> QED BY <1>1, <1>3, <1>4, <1>7, <1>9, <1>10, <1>11 DEF Simulated

LEMMA SimulatedExit == Simulated /\ Scheduler!Exit => Simulated'
<1> SUFFICES ASSUME Simulated, Scheduler!Exit PROVE Simulated'
    OBVIOUS
<1> DEFINE e == Head(events)
           rest == Scheduler!get_next_event(events)
<1>1. /\ events # <<>> /\ e.type = "CPU_COMPLETION" /\ handled' = e.time
      /\ Scheduler!Dispatch(e.time, rest, cpu_ready_queue, current_burst, -1)
      /\ quantum' = quantum /\ exits' = Append(exits, e.process_idx)
      /\ current_burst' = current_burst
    BY DEF Scheduler!Exit, Scheduler!NextIs, Scheduler!Take
<1>2. e.type \in StopTypes
    BY <1>1 DEF StopTypes
<1>3. /\ e.time \in Nat /\ e.process_idx \in Scheduler!Entry
      /\ rest \in Seq(Event) /\ Len(rest) = Len(events) - 1 /\ IsHeap(rest)
      /\ AllLater(rest, e.time) /\ Stops(rest, -1)
    BY <1>1, <1>2, NextEvent
<1> HIDE DEF e, rest
<1>4. /\ current_burst \in [Scheduler!Entry -> Nat] /\ quantum \in Nat
      /\ cpu_ready_queue \in Seq(Scheduler!Entry)
    BY DEF Simulated
<1>5. e.time <= e.time /\ -1 \in Scheduler!Entry \cup {-1}
    BY <1>3
<1>6. /\ bursts' \in [Scheduler!Entry -> [0 .. MAX_BURSTS - 1 -> Nat]]
      /\ cpu_busy' \in Scheduler!Entry \cup {-1}
      /\ cpu_ready_queue' \in Seq(Scheduler!Entry)
      /\ events' \in Seq(Event) /\ IsHeap(events') /\ AllLater(events', e.time)
      /\ cpu_busy' = -1 => cpu_ready_queue' = <<>>
      /\ Stops(events', cpu_busy')
      /\ Len(events') + Len(cpu_ready_queue') = Len(rest) + Len(cpu_ready_queue)
    BY <1>1, <1>3, <1>4, <1>5, Dispatched
<1>7. exits' \in Seq(Scheduler!Entry) /\ Len(exits') = Len(exits) + 1
  <2>1. exits \in Seq(Scheduler!Entry)
    BY DEF Simulated
  <2> QED BY <1>1, <1>3, <2>1, AppendProperties
<1>8. Len(events') + Len(cpu_ready_queue') + Len(exits') = num_processes
  <2>1. /\ Len(events') + Len(cpu_ready_queue') = Len(rest) + Len(cpu_ready_queue)
        /\ Len(rest) = Len(events) - 1 /\ Len(exits') = Len(exits) + 1
    BY <1>3, <1>6, <1>7
  <2>2. Len(events') \in Nat /\ Len(cpu_ready_queue') \in Nat
    BY <1>6
  <2>3. /\ Len(events) \in Nat /\ Len(cpu_ready_queue) \in Nat /\ Len(exits) \in Nat
        /\ Len(events) + Len(cpu_ready_queue) + Len(exits) = num_processes
    BY Counts
  <2> QED BY <2>1, <2>2, <2>3
<1> QED BY <1>1, <1>3, <1>4, <1>6, <1>7, <1>8 DEF Simulated

LEMMA SimulatedStartIO == Simulated /\ Scheduler!StartIO => Simulated'
<1> SUFFICES ASSUME Simulated, Scheduler!StartIO PROVE Simulated'
    OBVIOUS
<1> DEFINE e == Head(events)
           p == e.process_idx
           rest == Scheduler!get_next_event(events)
           heap == Scheduler!add_event(rest, e.time, Scheduler!id(p), "IO_COMPLETION")
<1>1. /\ events # <<>> /\ e.type = "CPU_COMPLETION" /\ handled' = e.time
      /\ current_burst' = [current_burst EXCEPT ![p] = @ + 1]
      /\ Scheduler!Dispatch(e.time, heap, cpu_ready_queue, current_burst', -1)
      /\ quantum' = quantum /\ exits' = exits
    BY DEF Scheduler!StartIO, Scheduler!NextIs, Scheduler!Take
<1>2. e.type \in StopTypes
    BY <1>1 DEF StopTypes
<1>3. /\ e.time \in Nat /\ p \in Scheduler!Entry
      /\ rest \in Seq(Event) /\ Len(rest) = Len(events) - 1 /\ IsHeap(rest)
      /\ AllLater(rest, e.time) /\ Stops(rest, -1)
    BY <1>1, <1>2, NextEvent
<1> HIDE DEF e, p, rest
<1>4. Scheduler!id(p) \in Scheduler!Entry /\ e.time <= e.time
      /\ -1 \in Scheduler!Entry \cup {-1}
    BY <1>3, NumbersOfLA3
<1>5. /\ heap \in Seq(Event) /\ Len(heap) = Len(events) /\ IsHeap(heap)
      /\ AllLater(heap, e.time) /\ Stops(heap, -1)
  <2>1. "IO_COMPLETION" \notin StopTypes
    BY DEF StopTypes
  <2>2. /\ heap \in Seq(Event) /\ Len(heap) = Len(rest) + 1 /\ IsHeap(heap)
        /\ AllLater(rest, e.time) /\ e.time <= e.time => AllLater(heap, e.time)
        /\ Stops(rest, -1) /\ "IO_COMPLETION" \notin StopTypes => Stops(heap, -1)
    BY <1>3, <1>4, AddKeeps
  <2> HIDE DEF heap
  <2>3. Len(events) \in Nat
    BY Counts
  <2> QED BY <1>3, <1>4, <2>1, <2>2, <2>3
<1> HIDE DEF heap
<1>6. /\ current_burst \in [Scheduler!Entry -> Nat] /\ quantum \in Nat
      /\ cpu_ready_queue \in Seq(Scheduler!Entry)
    BY DEF Simulated
<1>7. current_burst' \in [Scheduler!Entry -> Nat]
    BY <1>1, <1>3, <1>6
<1>8. /\ bursts' \in [Scheduler!Entry -> [0 .. MAX_BURSTS - 1 -> Nat]]
      /\ cpu_busy' \in Scheduler!Entry \cup {-1}
      /\ cpu_ready_queue' \in Seq(Scheduler!Entry)
      /\ events' \in Seq(Event) /\ IsHeap(events') /\ AllLater(events', e.time)
      /\ cpu_busy' = -1 => cpu_ready_queue' = <<>>
      /\ Stops(events', cpu_busy')
      /\ Len(events') + Len(cpu_ready_queue') = Len(heap) + Len(cpu_ready_queue)
  <2>1. /\ e.time \in Nat /\ e.time <= e.time /\ -1 \in Scheduler!Entry \cup {-1}
        /\ heap \in Seq(Event) /\ IsHeap(heap) /\ AllLater(heap, e.time) /\ Stops(heap, -1)
        /\ Simulated
    BY <1>3, <1>4, <1>5
  <2>2. Scheduler!Dispatch(e.time, heap, cpu_ready_queue, current_burst', -1)
    BY <1>1
  <2> QED BY ONLY <1>6, <1>7, <2>1, <2>2, Dispatched
<1>9. Len(events') + Len(cpu_ready_queue') + Len(exits') = num_processes
    BY <1>1, <1>5, <1>8, Counts, NumbersOfLA3
<1>10. exits' \in Seq(Scheduler!Entry)
    BY <1>1 DEF Simulated
<1> QED BY <1>1, <1>3, <1>6, <1>7, <1>8, <1>9, <1>10 DEF Simulated

LEMMA SimulatedPreempt == Simulated /\ Scheduler!Preempt => Simulated'
<1> SUFFICES ASSUME Simulated, Scheduler!Preempt PROVE Simulated'
    OBVIOUS
<1> DEFINE e == Head(events)
           p == e.process_idx
           rest == Scheduler!get_next_event(events)
           ready == Append(cpu_ready_queue, p)
<1>1. /\ events # <<>> /\ e.type = "CPU_TIMEOUT" /\ handled' = e.time
      /\ Scheduler!Dispatch(e.time, rest, ready, current_burst, -1)
      /\ quantum' = quantum /\ exits' = exits /\ current_burst' = current_burst
    BY DEF Scheduler!Preempt, Scheduler!NextIs, Scheduler!Take, Scheduler!Requeued,
           Scheduler!enqueue
<1>2. e.type \in StopTypes
    BY <1>1 DEF StopTypes
<1>3. /\ e.time \in Nat /\ p \in Scheduler!Entry
      /\ rest \in Seq(Event) /\ Len(rest) = Len(events) - 1 /\ IsHeap(rest)
      /\ AllLater(rest, e.time) /\ Stops(rest, -1)
    BY <1>1, <1>2, NextEvent
<1> HIDE DEF e, p, rest
<1>4. /\ current_burst \in [Scheduler!Entry -> Nat] /\ quantum \in Nat
      /\ cpu_ready_queue \in Seq(Scheduler!Entry)
    BY DEF Simulated
<1>5. e.time <= e.time /\ -1 \in Scheduler!Entry \cup {-1}
      /\ ready \in Seq(Scheduler!Entry) /\ Len(ready) = Len(cpu_ready_queue) + 1
    BY <1>3, <1>4
<1> HIDE DEF ready
<1>6. /\ bursts' \in [Scheduler!Entry -> [0 .. MAX_BURSTS - 1 -> Nat]]
      /\ cpu_busy' \in Scheduler!Entry \cup {-1}
      /\ cpu_ready_queue' \in Seq(Scheduler!Entry)
      /\ events' \in Seq(Event) /\ IsHeap(events') /\ AllLater(events', e.time)
      /\ cpu_busy' = -1 => cpu_ready_queue' = <<>>
      /\ Stops(events', cpu_busy')
      /\ Len(events') + Len(cpu_ready_queue') = Len(rest) + Len(ready)
    BY <1>1, <1>3, <1>4, <1>5, Dispatched
<1>7. Len(events') + Len(cpu_ready_queue') + Len(exits') = num_processes
  <2>1. /\ Len(events') + Len(cpu_ready_queue') = Len(rest) + Len(ready)
        /\ Len(rest) = Len(events) - 1 /\ Len(ready) = Len(cpu_ready_queue) + 1
        /\ exits' = exits
    BY <1>1, <1>3, <1>5, <1>6
  <2> QED BY <2>1, Counts
<1>8. exits' \in Seq(Scheduler!Entry)
    BY <1>1 DEF Simulated
<1> QED BY <1>1, <1>3, <1>4, <1>6, <1>7, <1>8 DEF Simulated

LEMMA StepSimulated ==
    Simulated /\ [Scheduler!Next]_(Scheduler!vars) => Simulated'
<1>1. Simulated /\ UNCHANGED Scheduler!vars => Simulated'
    BY DEF Simulated, Scheduler!vars
<1> QED BY <1>1, SimulatedJoinReady, SimulatedExit, SimulatedStartIO, SimulatedPreempt
        DEF Scheduler!Next

LEMMA SimulatedHolds == Scheduler!Spec => []Simulated
BY InitSimulated, StepSimulated, PTL DEF Scheduler!Spec

-----------------------------------------------------------------------------
(* LA3: whoever runs has joined the ready queue before *)

(***************************************************************************)
(* A process that is ready or runs has passed over a burst.  The entry     *)
(* behind the last process has none, so its end is never reached.          *)
(***************************************************************************)
Started(ready, burst_of, busy) ==
    /\ \A i \in 1 .. Len(ready) : burst_of[ready[i]] > 0
    /\ busy # -1 => burst_of[busy] > 0

Joined ==
    /\ exits \in Seq(Scheduler!Process) /\ num_bursts[num_processes] = 0
    /\ Started(cpu_ready_queue, current_burst, cpu_busy)

(* The process that is started stood at the head of the ready queue. *)
LEMMA DispatchStarted ==
    ASSUME NEW now, NEW heap, NEW ready \in Seq(Scheduler!Entry), NEW burst_of,
           NEW busy, Started(ready, burst_of, busy),
           Scheduler!Dispatch(now, heap, ready, burst_of, busy)
    PROVE  Started(cpu_ready_queue', burst_of, cpu_busy')
<1>1. CASE busy = -1 /\ ready # <<>>
  <2>1. cpu_busy' = Head(ready) /\ cpu_ready_queue' = Tail(ready)
    BY <1>1 DEF Scheduler!Dispatch, Scheduler!CpuFree, Scheduler!First, Scheduler!Dequeued
  <2>2. /\ Head(ready) = ready[1] /\ 1 \in 1 .. Len(ready)
        /\ \A i \in 1 .. Len(Tail(ready)) :
              Tail(ready)[i] = ready[i + 1] /\ i + 1 \in 1 .. Len(ready)
    BY <1>1
  <2> QED BY <2>1, <2>2 DEF Started
<1>2. CASE ~(busy = -1 /\ ready # <<>>)
  <2>1. cpu_busy' = busy /\ cpu_ready_queue' = ready
    BY <1>2 DEF Scheduler!Dispatch, Scheduler!CpuFree
  <2> QED BY <2>1 DEF Started
<1> QED BY <1>1, <1>2

(* An event that stops a process stops the one that runs. *)
LEMMA StopsRunner ==
    ASSUME Simulated, events # <<>>, Head(events).type \in StopTypes
    PROVE  cpu_busy # -1 /\ Head(events).process_idx = cpu_busy
<1>1. events \in Seq(Event) /\ Stops(events, cpu_busy)
    BY DEF Simulated
<1>2. Head(events) = events[1] /\ 1 \in 1 .. Len(events)
    BY <1>1
<1> QED BY <1>1, <1>2 DEF Stops

LEMMA InitJoined == Scheduler!Init => Joined
<1> SUFFICES ASSUME NEW b \in [Scheduler!Process -> Bursts],
                    NEW a \in Scheduler!Arrivals, NEW q \in Quanta,
                    Scheduler!Starts(b, a, q)
             PROVE  Joined
    BY DEF Scheduler!Init
<1>1. /\ cpu_ready_queue = <<>> /\ cpu_busy = -1 /\ exits = <<>>
      /\ num_bursts = [p \in Scheduler!Entry |->
                          IF p \in Scheduler!Process THEN Len(b[p]) ELSE 0]
    BY DEF Scheduler!Starts
<1>2. num_processes \in Scheduler!Entry /\ num_processes \notin Scheduler!Process
    BY NumbersOfLA3 DEF Scheduler!Entry, Scheduler!Process
<1> QED BY <1>1, <1>2 DEF Joined, Started

LEMMA StepJoined ==
    Simulated /\ Joined /\ [Scheduler!Next]_(Scheduler!vars) => Joined'
<1> SUFFICES ASSUME Simulated, Joined, [Scheduler!Next]_(Scheduler!vars)
             PROVE  Joined'
    OBVIOUS
<1>1. /\ exits \in Seq(Scheduler!Process) /\ num_bursts[num_processes] = 0
      /\ \A i \in 1 .. Len(cpu_ready_queue) : current_burst[cpu_ready_queue[i]] > 0
      /\ cpu_busy # -1 => current_burst[cpu_busy] > 0
    BY DEF Joined, Started
<1>2. /\ current_burst \in [Scheduler!Entry -> Nat]
      /\ cpu_busy \in Scheduler!Entry \cup {-1} /\ cpu_ready_queue \in Seq(Scheduler!Entry)
      /\ \A i \in 1 .. Len(cpu_ready_queue) : cpu_ready_queue[i] \in Scheduler!Entry
    BY DEF Simulated
<1> DEFINE e == Head(events)
           p == e.process_idx
           ready == Append(cpu_ready_queue, p)
<1>3. ASSUME events # <<>>
      PROVE  /\ p \in Scheduler!Entry /\ ready \in Seq(Scheduler!Entry)
             /\ Len(ready) = Len(cpu_ready_queue) + 1
             /\ ready[Len(cpu_ready_queue) + 1] = p
             /\ \A i \in 1 .. Len(cpu_ready_queue) : ready[i] = cpu_ready_queue[i]
  <2>1. p \in Scheduler!Entry
    BY <1>3, NextEvent
  <2> HIDE DEF p
  <2> QED BY <1>2, <2>1, AppendProperties
<1>4. ASSUME events # <<>>, e.type \in StopTypes
      PROVE  cpu_busy # -1 /\ p = cpu_busy /\ current_burst[p] > 0
    BY <1>1, <1>4, StopsRunner
<1>5. ASSUME events # <<>>, NEW c, \A q \in Scheduler!Entry : c[q] >= current_burst[q],
             c \in [Scheduler!Entry -> Nat], c[p] > 0
      PROVE  /\ \A i \in 1 .. Len(ready) : c[ready[i]] > 0
             /\ \A i \in 1 .. Len(cpu_ready_queue) : c[cpu_ready_queue[i]] > 0
             /\ cpu_busy # -1 => c[cpu_busy] > 0
  <2> HIDE DEF p, ready
  <2>1. ASSUME NEW q \in Scheduler!Entry, current_burst[q] > 0 PROVE c[q] > 0
    BY <1>2, <1>5, <2>1
  <2>2. \A i \in 1 .. Len(cpu_ready_queue) : c[cpu_ready_queue[i]] > 0
    BY <1>1, <1>2, <2>1
  <2>3. ASSUME NEW i \in 1 .. Len(ready) PROVE c[ready[i]] > 0
    <3>1. i \in 1 .. Len(cpu_ready_queue) \/ i = Len(cpu_ready_queue) + 1
      BY <1>2, <1>3, <1>5
    <3> QED BY <1>3, <1>5, <2>2, <3>1
  <2> QED BY <1>1, <1>2, <2>1, <2>2, <2>3
<1> HIDE DEF e, p, ready
<1>6. CASE Scheduler!JoinReady
  <2>1. PICK now, heap :
           /\ events # <<>> /\ current_burst' = [current_burst EXCEPT ![p] = @ + 1]
           /\ Scheduler!Dispatch(now, heap, ready, current_burst', cpu_busy)
           /\ num_bursts' = num_bursts /\ exits' = exits
    BY <1>6 DEF Scheduler!JoinReady, Scheduler!NextIs, Scheduler!enqueue, e, p, ready
  <2>2. /\ current_burst' \in [Scheduler!Entry -> Nat] /\ current_burst'[p] > 0
        /\ \A q \in Scheduler!Entry : current_burst'[q] >= current_burst[q]
    BY <1>2, <1>3, <2>1
  <2>3. Started(ready, current_burst', cpu_busy)
    BY <1>5, <2>1, <2>2 DEF Started
  <2> QED BY <1>1, <1>3, <2>1, <2>3, DispatchStarted DEF Joined
<1>7. CASE Scheduler!Exit
  <2>1. PICK now, heap :
           /\ events # <<>> /\ e.type = "CPU_COMPLETION"
           /\ current_burst[p] = num_bursts[p] /\ exits' = Append(exits, p)
           /\ Scheduler!Dispatch(now, heap, cpu_ready_queue, current_burst, -1)
           /\ num_bursts' = num_bursts /\ current_burst' = current_burst
    BY <1>7 DEF Scheduler!Exit, Scheduler!NextIs, Scheduler!LastBurst, e, p
  <2>2. p # num_processes
    BY <1>1, <1>4, <2>1 DEF StopTypes
  <2>3. p \in Scheduler!Process
    <3>1. p \in Scheduler!Entry /\ num_processes \in Nat
      BY <1>3, <2>1, NumbersOfLA3
    <3> QED BY <2>2, <3>1 DEF Scheduler!Entry, Scheduler!Process
  <2>4. exits' \in Seq(Scheduler!Process)
    BY <1>1, <2>1, <2>3, AppendProperties
  <2>5. Started(cpu_ready_queue, current_burst, -1)
    BY <1>1 DEF Started
  <2> QED BY <1>1, <1>2, <2>1, <2>4, <2>5, DispatchStarted DEF Joined
<1>8. CASE Scheduler!StartIO
  <2>1. PICK now, heap :
           /\ events # <<>> /\ current_burst' = [current_burst EXCEPT ![p] = @ + 1]
           /\ Scheduler!Dispatch(now, heap, cpu_ready_queue, current_burst', -1)
           /\ num_bursts' = num_bursts /\ exits' = exits
    BY <1>8 DEF Scheduler!StartIO, Scheduler!NextIs, e, p
  <2>2. /\ current_burst' \in [Scheduler!Entry -> Nat] /\ current_burst'[p] > 0
        /\ \A q \in Scheduler!Entry : current_burst'[q] >= current_burst[q]
    BY <1>2, <1>3, <2>1
  <2>3. Started(cpu_ready_queue, current_burst', -1)
    BY <1>5, <2>1, <2>2 DEF Started
  <2> QED BY <1>1, <1>2, <2>1, <2>3, DispatchStarted DEF Joined
<1>9. CASE Scheduler!Preempt
  <2>1. PICK now, heap :
           /\ events # <<>> /\ e.type = "CPU_TIMEOUT" /\ current_burst' = current_burst
           /\ Scheduler!Dispatch(now, heap, ready, current_burst, -1)
           /\ num_bursts' = num_bursts /\ exits' = exits
    BY <1>9 DEF Scheduler!Preempt, Scheduler!NextIs, Scheduler!Requeued,
                Scheduler!enqueue, e, p, ready
  <2>2. current_burst[p] > 0 /\ \A q \in Scheduler!Entry : current_burst[q] >= current_burst[q]
    BY <1>2, <1>4, <2>1 DEF StopTypes
  <2>3. Started(ready, current_burst, -1)
    BY <1>2, <1>5, <2>1, <2>2 DEF Started
  <2> QED BY <1>1, <1>3, <2>1, <2>3, DispatchStarted DEF Joined
<1>10. CASE UNCHANGED Scheduler!vars
  BY <1>10 DEF Joined, Started, Scheduler!vars
<1> QED BY <1>6, <1>7, <1>8, <1>9, <1>10 DEF Scheduler!Next

LEMMA JoinedHolds == Scheduler!Spec => [](Simulated /\ Joined)
BY InitSimulated, InitJoined, StepSimulated, StepJoined, PTL DEF Scheduler!Spec

-----------------------------------------------------------------------------
(***************************************************************************)
(* EarliestFirst for any number of processes, bursts, arrival times and    *)
(* quantum: events are handled in the order of their times                 *)
(* (schedule.c:177-199, 234, 281, 322, 327).                               *)
(***************************************************************************)
THEOREM TimeCorrect == Scheduler!Spec => []EarliestFirst
<1>1. Simulated => EarliestFirst
  <2> SUFFICES ASSUME Simulated PROVE EarliestFirst
    OBVIOUS
  <2>1. events \in Seq(Event) /\ AllLater(events, handled)
    BY DEF Simulated
  <2>2. DOMAIN events = 1 .. Len(events)
    BY <2>1
  <2> QED BY <2>1, <2>2 DEF AllLater, EarliestFirst, Scheduler!EarliestFirst
<1> QED BY <1>1, SimulatedHolds, PTL

(***************************************************************************)
(* WorkConserved for the same: its event stops whoever runs, the CPU idles *)
(* only when nobody is ready, events are neither lost nor made, and no     *)
(* exit is printed for the entry behind the last process (schedule.c:      *)
(* 235-237, 241-258, 281-285, 292-293, 304-329).                           *)
(***************************************************************************)
THEOREM CpuCorrect == Scheduler!Spec => []WorkConserved
<1>1. Simulated /\ Joined => WorkConserved
  <2> SUFFICES ASSUME Simulated, Joined PROVE WorkConserved
    OBVIOUS
  <2>1. Scheduler!CpuEvents = {k \in 1 .. Len(events) : events[k].type \in StopTypes}
    BY DEF Simulated, Scheduler!CpuEvents, StopTypes
  <2>2. Scheduler!Range(exits) \subseteq Scheduler!Process
    BY DEF Joined, Scheduler!Range
  <2>3. CASE cpu_busy = -1
    <3>1. Scheduler!CpuEvents = {} /\ cpu_ready_queue = <<>>
        BY <2>1, <2>3 DEF Simulated, Stops
    <3> QED BY <2>3, <2>2, <3>1 DEF Simulated, WorkConserved, Scheduler!WorkConserved
  <2>4. CASE cpu_busy # -1
    <3>1. PICK k \in 1 .. Len(events) :
            /\ events[k].type \in StopTypes /\ events[k].process_idx = cpu_busy
            /\ \A j \in 1 .. Len(events) : events[j].type \in StopTypes => j = k
        BY <2>4 DEF Simulated, Stops
    <3>2. Scheduler!CpuEvents = {k} /\ k \in Scheduler!CpuEvents
        BY <2>1, <3>1
    <3> QED BY <2>4, <2>2, <3>1, <3>2 DEF Simulated, WorkConserved, Scheduler!WorkConserved
  <2> QED BY <2>3, <2>4
<1> QED BY <1>1, JoinedHolds, PTL

-----------------------------------------------------------------------------
(* LA8: the linked list of pending requests *)

LEMMA NodeTakenOut ==
    ASSUME NEW A, NEW s \in Seq(A), NEW k \in 1 .. Len(s)
    PROVE  /\ Requests!RemoveAt(s, k) \in Seq(A)
           /\ Len(Requests!RemoveAt(s, k)) = Len(s) - 1
           /\ \A j \in 1 .. Len(s) - 1 :
                 Requests!RemoveAt(s, k)[j] = IF j < k THEN s[j] ELSE s[j + 1]
<1> DEFINE p == SubSeq(s, 1, k - 1)
           q == SubSeq(s, k + 1, Len(s))
<1>1. p \in Seq(A) /\ Len(p) = k - 1 /\ \A j \in 1 .. k - 1 : p[j] = s[j]
  <2>1. CASE k = 1  BY <2>1, SubSeqProperties
  <2>2. CASE k # 1  BY <2>2, SubSeqProperties
  <2> QED BY <2>1, <2>2
<1>2. q \in Seq(A) /\ Len(q) = Len(s) - k
      /\ \A j \in 1 .. Len(s) - k : q[j] = s[k + j]
  <2>1. CASE k = Len(s)  BY <2>1, SubSeqProperties
  <2>2. CASE k # Len(s)  BY <2>2, SubSeqProperties
  <2> QED BY <2>1, <2>2
<1>3. Requests!RemoveAt(s, k) = p \o q  BY DEF Requests!RemoveAt
<1> HIDE DEF p, q
<1>4. /\ p \o q \in Seq(A) /\ Len(p \o q) = Len(p) + Len(q)
      /\ \A j \in 1 .. Len(p) + Len(q) :
            (p \o q)[j] = IF j <= Len(p) THEN p[j] ELSE q[j - Len(p)]
  BY <1>1, <1>2, ConcatProperties
<1>5. /\ Len(p \o q) = Len(s) - 1
      /\ \A j \in 1 .. Len(s) - 1 :
            (p \o q)[j] = IF j < k THEN s[j] ELSE s[j + 1]
  BY <1>1, <1>2, <1>4
<1> QED BY <1>3, <1>4, <1>5

(* No node is in the list twice, and the pass is inside it or at its end. *)
Linked ==
    /\ waiting_order \in Seq(Requests!Node)
    /\ \A j, k \in 1 .. Len(waiting_order) :
          waiting_order[j] = waiting_order[k] => j = k
    /\ next_node \in [Requests!Node -> Requests!Node \cup {Requests!NULL}]
    /\ pass_at \in 1 .. Len(waiting_order) + 1 \/ master_pc # "scan"
    /\ ListIsQueue

(* ListIsQueue in terms of the length, as the steps use it. *)
LEMMA LinkedIs ==
    Linked =>
        LET length == Len(waiting_order) IN
        /\ length \in Nat /\ waiting_order \in Seq(Requests!Node)
        /\ \A k \in 1 .. length : waiting_order[k] \in Requests!Node
        /\ \A k \in 1 .. length : waiting_order[k] # Requests!NULL
        /\ request_list = IF length = 0 THEN [head |-> Requests!NULL, tail |-> Requests!NULL]
                          ELSE [head |-> waiting_order[1], tail |-> waiting_order[length]]
        /\ \A k \in 1 .. length :
              next_node[waiting_order[k]] =
                  IF k = length THEN Requests!NULL ELSE waiting_order[k + 1]
<1> SUFFICES ASSUME Linked
             PROVE  LET length == Len(waiting_order) IN
                    /\ length \in Nat /\ waiting_order \in Seq(Requests!Node)
                    /\ \A k \in 1 .. length : waiting_order[k] \in Requests!Node
                    /\ \A k \in 1 .. length : waiting_order[k] # Requests!NULL
                    /\ request_list = IF length = 0
                          THEN [head |-> Requests!NULL, tail |-> Requests!NULL]
                          ELSE [head |-> waiting_order[1], tail |-> waiting_order[length]]
                    /\ \A k \in 1 .. length :
                          next_node[waiting_order[k]] =
                              IF k = length THEN Requests!NULL ELSE waiting_order[k + 1]
    OBVIOUS
<1>1. waiting_order \in Seq(Requests!Node)
    BY DEF Linked
<1>2. \A k \in 1 .. Len(waiting_order) :
          waiting_order[k] \in Requests!Node /\ waiting_order[k] # Requests!NULL
  <2>1. \A k \in 1 .. Len(waiting_order) : waiting_order[k] \in Requests!Node
    BY <1>1
  <2>2. \A node \in Requests!Node : node # Requests!NULL
    BY DEF Requests!Node, Requests!NULL
  <2> QED BY <2>1, <2>2
<1>3. Len(waiting_order) = 0 <=> waiting_order = <<>>
    BY <1>1, EmptySeq
<1> QED BY <1>1, <1>2, <1>3 DEF Linked, ListIsQueue, Requests!ListIsQueue

LEMMA InitLinked == Requests!Init => Linked
BY DEF Requests!Init, Requests!initialize_queue, Linked, ListIsQueue, Requests!ListIsQueue,
       Requests!Node, Requests!NULL

(* The first node of a pass is the head of the list it starts with. *)
LEMMA PassBegins ==
    ASSUME Requests!BeginPass, NEW l, l = Len(waiting_order'), l \in Nat,
           request_list' = IF waiting_order' = <<>>
                           THEN [head |-> Requests!NULL, tail |-> Requests!NULL]
                           ELSE [head |-> waiting_order'[1], tail |-> waiting_order'[l]],
           waiting_order' = <<>> <=> l = 0
    PROVE  /\ pass_at' \in 1 .. l + 1
           /\ this_node' = IF pass_at' = l + 1 THEN Requests!NULL ELSE waiting_order'[pass_at']
           /\ prev_node' = IF pass_at' = 1 THEN Requests!NULL ELSE waiting_order'[pass_at' - 1]
<1>1. pass_at' = 1 /\ this_node' = request_list'.head /\ prev_node' = Requests!NULL
    BY DEF Requests!BeginPass
<1> QED BY <1>1

LEMMA LinkedHandleOther == Linked /\ Requests!HandleOther => Linked'
<1> SUFFICES ASSUME Linked, Requests!HandleOther PROVE Linked'
    OBVIOUS
<1>1. /\ UNCHANGED <<request_list, next_node, waiting_order>>
      /\ Requests!BeginPass
    BY DEF Requests!HandleOther
<1>2. Len(waiting_order) \in Nat /\ (Len(waiting_order) = 0 <=> waiting_order = <<>>)
    BY LinkedIs, EmptySeq
<1>3. /\ pass_at' \in 1 .. Len(waiting_order) + 1
      /\ this_node' = IF pass_at' = Len(waiting_order) + 1 THEN Requests!NULL
                      ELSE waiting_order[pass_at']
      /\ prev_node' = IF pass_at' = 1 THEN Requests!NULL ELSE waiting_order[pass_at' - 1]
    BY <1>1, <1>2, PassBegins DEF Linked, ListIsQueue, Requests!ListIsQueue
<1> QED BY <1>1, <1>3 DEF Linked, ListIsQueue, Requests!ListIsQueue

LEMMA LinkedHandleAdditional == Linked /\ Requests!HandleAdditional => Linked'
<1> SUFFICES ASSUME Linked, Requests!HandleAdditional PROVE Linked'
    OBVIOUS
<1>1. PICK node \in Requests!Node \ Requests!Range(waiting_order) :
          Requests!enqueue_request(node)
    BY DEF Requests!HandleAdditional
<1> DEFINE length == Len(waiting_order)
<1>2. /\ length \in Nat /\ waiting_order \in Seq(Requests!Node)
      /\ \A k \in 1 .. length : waiting_order[k] \in Requests!Node
      /\ \A k \in 1 .. length : waiting_order[k] # Requests!NULL
      /\ request_list = IF length = 0 THEN [head |-> Requests!NULL, tail |-> Requests!NULL]
                        ELSE [head |-> waiting_order[1], tail |-> waiting_order[length]]
      /\ \A k \in 1 .. length :
            next_node[waiting_order[k]] =
                IF k = length THEN Requests!NULL ELSE waiting_order[k + 1]
    BY LinkedIs
<1>3. /\ next_node \in [Requests!Node -> Requests!Node \cup {Requests!NULL}]
      /\ \A j, k \in 1 .. length : waiting_order[j] = waiting_order[k] => j = k
    BY DEF Linked
<1>4. \A k \in 1 .. length : waiting_order[k] # node
    BY <1>1, <1>2 DEF Requests!Range
<1> HIDE DEF length
<1>5. request_list.tail = Requests!NULL <=> length = 0
    BY <1>2
<1>6. /\ waiting_order' = Append(waiting_order, node)
      /\ waiting_order' \in Seq(Requests!Node) /\ Len(waiting_order') = length + 1
      /\ waiting_order'[length + 1] = node /\ waiting_order' # <<>>
      /\ \A k \in 1 .. length : waiting_order'[k] = waiting_order[k]
  <2>1. waiting_order' = Append(waiting_order, node)
    BY <1>1 DEF Requests!enqueue_request
  <2> QED BY <1>1, <1>2, <2>1, AppendProperties, EmptySeq DEF length
<1>7. request_list' = [head |-> waiting_order'[1], tail |-> waiting_order'[length + 1]]
  <2>1. request_list' = [head |-> IF length = 0 THEN node ELSE request_list.head,
                         tail |-> node]
    BY <1>1, <1>5 DEF Requests!enqueue_request
  <2>2. CASE length = 0
    BY <1>6, <2>1, <2>2
  <2>3. CASE length # 0
    <3>1. 1 \in 1 .. length /\ request_list.head = waiting_order[1]
      BY <1>2, <2>3
    <3> QED BY <1>6, <2>1, <2>3, <3>1
  <2> QED BY <2>2, <2>3
<1>8. /\ next_node' \in [Requests!Node -> Requests!Node \cup {Requests!NULL}]
      /\ next_node'[node] = Requests!NULL
      /\ length # 0 => next_node'[waiting_order[length]] = node
      /\ \A k \in 1 .. length - 1 : next_node'[waiting_order[k]] = next_node[waiting_order[k]]
  <2>1. CASE length = 0
    <3>1. next_node' = [next_node EXCEPT ![node] = Requests!NULL]
      BY <1>1, <1>5, <2>1 DEF Requests!enqueue_request
    <3> QED BY <1>1, <1>3, <2>1, <3>1
  <2>2. CASE length # 0
    <3>1. length \in 1 .. length /\ request_list.tail = waiting_order[length]
      BY <1>2, <2>2
    <3>2. next_node' = [next_node EXCEPT ![node] = Requests!NULL,
                                         ![waiting_order[length]] = node]
      BY <1>1, <1>5, <2>2, <3>1 DEF Requests!enqueue_request
    <3>3. \A k \in 1 .. length - 1 : k \in 1 .. length /\ waiting_order[k] # waiting_order[length]
      BY <1>2, <1>3, <3>1
    <3> QED BY <1>1, <1>2, <1>3, <1>4, <2>2, <3>1, <3>2, <3>3
  <2> QED BY <2>1, <2>2
<1>9. ASSUME NEW k \in 1 .. length + 1
      PROVE  next_node'[waiting_order'[k]] =
                 IF k = length + 1 THEN Requests!NULL ELSE waiting_order'[k + 1]
  <2>1. CASE k = length + 1
    BY <1>6, <1>8, <2>1
  <2>2. CASE k = length
    BY <1>2, <1>6, <1>8, <2>2
  <2>3. CASE k \in 1 .. length - 1
    <3>1. k \in 1 .. length /\ k + 1 \in 1 .. length /\ k # length
      BY <1>2, <2>3
    <3> QED BY <1>2, <1>6, <1>8, <2>3, <3>1
  <2> QED BY <1>2, <2>1, <2>2, <2>3
<1>10. ASSUME NEW j \in 1 .. length + 1, NEW k \in 1 .. length + 1,
              waiting_order'[j] = waiting_order'[k]
       PROVE  j = k
  <2>1. /\ j \in 1 .. length \/ j = length + 1
        /\ k \in 1 .. length \/ k = length + 1
    BY <1>2
  <2>2. CASE j \in 1 .. length /\ k \in 1 .. length
    BY <1>3, <1>6, <1>10, <2>2
  <2>3. CASE j = length + 1 /\ k \in 1 .. length
    BY <1>4, <1>6, <1>10, <2>3
  <2>4. CASE j \in 1 .. length /\ k = length + 1
    BY <1>4, <1>6, <1>10, <2>4
  <2>5. CASE j = length + 1 /\ k = length + 1
    BY <2>5
  <2> QED BY <2>1, <2>2, <2>3, <2>4, <2>5
<1>11. /\ pass_at' \in 1 .. length + 1 + 1
       /\ this_node' = IF pass_at' = length + 1 + 1 THEN Requests!NULL
                       ELSE waiting_order'[pass_at']
       /\ prev_node' = IF pass_at' = 1 THEN Requests!NULL ELSE waiting_order'[pass_at' - 1]
  <2>1. pass_at' = 1 /\ this_node' = request_list'.head /\ prev_node' = Requests!NULL
    BY DEF Requests!HandleAdditional, Requests!BeginPass
  <2>2. 1 \in 1 .. length + 1 + 1 /\ 1 # length + 1 + 1
    BY <1>2
  <2>3. request_list'.head = waiting_order'[1]
    BY <1>7
  <2> QED BY <2>1, <2>2, <2>3
<1>12. ListIsQueue'
    BY <1>6, <1>7, <1>9, <1>11 DEF ListIsQueue, Requests!ListIsQueue
<1> QED BY <1>6, <1>8, <1>10, <1>11, <1>12 DEF Linked

(* Where a pass stands. *)
LEMMA InPass ==
    ASSUME Linked, master_pc = "scan", this_node # Requests!NULL
    PROVE  /\ pass_at \in 1 .. Len(waiting_order)
           /\ this_node = waiting_order[pass_at]
           /\ prev_node = IF pass_at = 1 THEN Requests!NULL ELSE waiting_order[pass_at - 1]
           /\ next_node[this_node] = IF pass_at = Len(waiting_order) THEN Requests!NULL
                                     ELSE waiting_order[pass_at + 1]
<1>1. /\ Len(waiting_order) \in Nat /\ pass_at \in 1 .. Len(waiting_order) + 1
      /\ this_node = IF pass_at = Len(waiting_order) + 1 THEN Requests!NULL
                     ELSE waiting_order[pass_at]
      /\ prev_node = IF pass_at = 1 THEN Requests!NULL ELSE waiting_order[pass_at - 1]
    BY LinkedIs DEF Linked, ListIsQueue, Requests!ListIsQueue
<1>2. pass_at \in 1 .. Len(waiting_order) /\ this_node = waiting_order[pass_at]
    BY <1>1
<1> QED BY <1>1, <1>2, LinkedIs

LEMMA LinkedSkip == Linked /\ Requests!Skip => Linked'
<1> SUFFICES ASSUME Linked, Requests!Skip PROVE Linked'
    OBVIOUS
<1>1. /\ master_pc = "scan" /\ this_node # Requests!NULL
      /\ prev_node' = this_node /\ this_node' = next_node[this_node] /\ pass_at' = pass_at + 1
      /\ UNCHANGED <<request_list, next_node, master_pc, waiting_order>>
    BY DEF Requests!Skip
<1>2. /\ pass_at \in 1 .. Len(waiting_order) /\ this_node = waiting_order[pass_at]
      /\ next_node[this_node] = IF pass_at = Len(waiting_order) THEN Requests!NULL
                                ELSE waiting_order[pass_at + 1]
    BY <1>1, InPass
<1>3. Len(waiting_order) \in Nat
    BY LinkedIs
<1>4. /\ pass_at' \in 1 .. Len(waiting_order) + 1
      /\ this_node' = IF pass_at' = Len(waiting_order) + 1 THEN Requests!NULL
                      ELSE waiting_order[pass_at']
      /\ prev_node' = IF pass_at' = 1 THEN Requests!NULL ELSE waiting_order[pass_at' - 1]
    BY <1>1, <1>2, <1>3
<1> QED BY <1>1, <1>4 DEF Linked, ListIsQueue, Requests!ListIsQueue

(* What an unlinked node leaves is linked around it. *)
LEMMA LinkedUnlink == Linked /\ Requests!Unlink => Linked'
<1> SUFFICES ASSUME Linked, Requests!Unlink PROVE Linked'
    OBVIOUS
<1> DEFINE length == Len(waiting_order)
           null == Requests!NULL
<1>1. /\ master_pc = "scan" /\ this_node # null
      /\ request_list' =
            [head |-> IF prev_node = null THEN next_node[this_node] ELSE request_list.head,
             tail |-> IF this_node = request_list.tail THEN prev_node ELSE request_list.tail]
      /\ next_node' = IF prev_node = null THEN next_node
                      ELSE [next_node EXCEPT ![prev_node] = next_node[this_node]]
      /\ this_node' = next_node[this_node] /\ prev_node' = prev_node
      /\ waiting_order' = Requests!RemoveAt(waiting_order, pass_at)
      /\ pass_at' = pass_at /\ master_pc' = master_pc
    BY DEF Requests!Unlink, Requests!TailBehind
<1>2. /\ pass_at \in 1 .. length /\ this_node = waiting_order[pass_at]
      /\ prev_node = IF pass_at = 1 THEN null ELSE waiting_order[pass_at - 1]
      /\ next_node[this_node] = IF pass_at = length THEN null ELSE waiting_order[pass_at + 1]
    BY <1>1, InPass
<1>3. /\ length \in Nat /\ waiting_order \in Seq(Requests!Node)
      /\ \A k \in 1 .. length : waiting_order[k] \in Requests!Node /\ waiting_order[k] # null
      /\ request_list = IF length = 0 THEN [head |-> null, tail |-> null]
                        ELSE [head |-> waiting_order[1], tail |-> waiting_order[length]]
      /\ \A k \in 1 .. length :
            next_node[waiting_order[k]] = IF k = length THEN null ELSE waiting_order[k + 1]
    BY LinkedIs
<1>4. /\ next_node \in [Requests!Node -> Requests!Node \cup {null}]
      /\ \A j, k \in 1 .. length : waiting_order[j] = waiting_order[k] => j = k
    BY DEF Linked
<1>5. /\ waiting_order' \in Seq(Requests!Node) /\ Len(waiting_order') = length - 1
      /\ \A j \in 1 .. length - 1 :
            waiting_order'[j] = IF j < pass_at THEN waiting_order[j] ELSE waiting_order[j + 1]
    BY <1>1, <1>2, <1>3, NodeTakenOut
<1>6. length - 1 \in Nat /\ (waiting_order' = <<>> <=> length = 1)
    BY <1>2, <1>3, <1>5, EmptySeq
<1> HIDE DEF length, null
<1>places. length \in Nat /\ pass_at \in 1 .. length
    BY <1>2, <1>3
<1>7. /\ prev_node = null <=> pass_at = 1
      /\ pass_at # 1 => pass_at - 1 \in 1 .. length /\ prev_node \in Requests!Node
      /\ this_node = request_list.tail <=> pass_at = length
  <2>1. length \in 1 .. length /\ request_list.tail = waiting_order[length]
    BY <1>2, <1>3
  <2>2. pass_at # 1 => pass_at - 1 \in 1 .. length
    BY <1>2, <1>3
  <2> QED BY <1>2, <1>3, <1>4, <2>1, <2>2
<1>8. request_list' = IF waiting_order' = <<>> THEN [head |-> null, tail |-> null]
                      ELSE [head |-> waiting_order'[1], tail |-> waiting_order'[length - 1]]
  <2>1. CASE length = 1
    <3>1. pass_at = 1 /\ pass_at = length
      BY <1>2, <2>1
    <3> QED BY <1>1, <1>2, <1>6, <1>7, <2>1, <3>1
  <2>2. CASE length # 1
    <3>1. 1 \in 1 .. length - 1 /\ length - 1 \in 1 .. length - 1
      BY <1>places, <2>2
    <3>2. request_list'.head = waiting_order'[1]
      <4>1. CASE pass_at = 1
        BY <1>1, <1>2, <1>5, <1>7, <2>2, <3>1, <4>1
      <4>2. CASE pass_at # 1
        <5>1. 1 < pass_at
          BY <1>2, <4>2
        <5> QED BY <1>1, <1>3, <1>5, <1>7, <3>1, <4>2, <5>1
      <4> QED BY <4>1, <4>2
    <3>3. request_list'.tail = waiting_order'[length - 1]
      <4>1. CASE pass_at = length
        <5>1. length - 1 < pass_at /\ pass_at # 1
          BY <1>3, <2>2, <4>1
        <5> QED BY <1>1, <1>2, <1>5, <1>7, <3>1, <4>1, <5>1
      <4>2. CASE pass_at # length
        <5>1. ~(length - 1 < pass_at) /\ length - 1 + 1 = length
          BY <1>places, <4>2
        <5> QED BY <1>1, <1>3, <1>5, <1>7, <3>1, <4>2, <5>1
      <4> QED BY <4>1, <4>2
    <3> QED BY <1>1, <1>6, <2>2, <3>2, <3>3
  <2> QED BY <2>1, <2>2
<1>9. next_node' \in [Requests!Node -> Requests!Node \cup {null}]
  <2>1. next_node[this_node] \in Requests!Node \cup {null}
    BY <1>2, <1>3, <1>4
  <2> QED BY <1>1, <1>4, <1>7, <2>1
<1>10. ASSUME NEW k \in 1 .. length - 1
       PROVE  next_node'[waiting_order'[k]] =
                  IF k = length - 1 THEN null ELSE waiting_order'[k + 1]
  <2>1. k \in 1 .. length /\ k + 1 \in 1 .. length
    BY <1>3
  <2>2. CASE k = pass_at - 1
    <3>1. k < pass_at /\ pass_at # 1 /\ ~(k + 1 < pass_at) /\ k + 1 + 1 = pass_at + 1
      BY <1>places, <2>2
    <3>2. waiting_order'[k] = prev_node
      BY <1>2, <1>5, <2>2, <3>1
    <3>3. next_node'[prev_node] = next_node[this_node]
      BY <1>1, <1>4, <1>7, <3>1
    <3>4. CASE k = length - 1
      <4>1. pass_at = length
        BY <1>places, <2>2, <3>4
      <4> QED BY <1>2, <3>2, <3>3, <3>4, <4>1
    <3>5. CASE k # length - 1
      <4>1. pass_at # length /\ k + 1 \in 1 .. length - 1
        BY <1>places, <2>2, <3>5
      <4>2. waiting_order'[k + 1] = waiting_order[pass_at + 1]
        BY <1>5, <3>1, <4>1
      <4> QED BY <1>2, <3>2, <3>3, <3>5, <4>1, <4>2
    <3> QED BY <3>4, <3>5
  <2>3. CASE k < pass_at - 1
    <3>1. k < pass_at /\ k + 1 < pass_at /\ k # length /\ k # length - 1
      BY <1>places, <2>3
    <3>2. waiting_order'[k] = waiting_order[k] /\ waiting_order'[k + 1] = waiting_order[k + 1]
      <4>1. k + 1 \in 1 .. length - 1
        BY <1>places, <3>1
      <4> QED BY <1>5, <3>1, <4>1
    <3>3. waiting_order[k] # prev_node \/ pass_at = 1
      <4>1. k # pass_at - 1
        BY <1>2, <2>3
      <4> QED BY <1>2, <1>4, <1>7, <2>1, <4>1
    <3>4. next_node'[waiting_order[k]] = next_node[waiting_order[k]]
      BY <1>1, <1>3, <1>4, <1>7, <2>1, <3>3
    <3> QED BY <1>3, <2>1, <3>1, <3>2, <3>4
  <2>4. CASE k >= pass_at
    <3>1. ~(k < pass_at) /\ ~(k + 1 < pass_at) /\ k + 1 # pass_at - 1
      BY <1>places, <2>4
    <3>2. waiting_order'[k] = waiting_order[k + 1]
      BY <1>5, <3>1
    <3>3. waiting_order[k + 1] # prev_node \/ pass_at = 1
      BY <1>2, <1>4, <1>7, <2>1, <3>1
    <3>4. next_node'[waiting_order[k + 1]] = next_node[waiting_order[k + 1]]
      BY <1>1, <1>3, <1>4, <1>7, <2>1, <3>3
    <3>5. next_node[waiting_order[k + 1]] =
              IF k + 1 = length THEN null ELSE waiting_order[k + 1 + 1]
      BY <1>3, <2>1
    <3>6. CASE k = length - 1
      <4>1. k + 1 = length
        BY <1>3, <3>6
      <4> QED BY <3>2, <3>4, <3>5, <3>6, <4>1
    <3>7. CASE k # length - 1
      <4>1. k + 1 # length /\ k + 1 \in 1 .. length - 1
        BY <1>3, <3>7
      <4> QED BY <1>5, <3>1, <3>2, <3>4, <3>5, <3>7, <4>1
    <3> QED BY <3>6, <3>7
  <2> QED BY <1>2, <1>3, <2>2, <2>3, <2>4
<1>11. ASSUME NEW j \in 1 .. length - 1, NEW k \in 1 .. length - 1,
              waiting_order'[j] = waiting_order'[k]
       PROVE  j = k
  <2>1. /\ j \in 1 .. length /\ j + 1 \in 1 .. length
        /\ k \in 1 .. length /\ k + 1 \in 1 .. length
    BY <1>3
  <2>2. CASE j < pass_at /\ k < pass_at
    BY <1>4, <1>5, <1>11, <2>1, <2>2
  <2>3. CASE j < pass_at /\ ~(k < pass_at)
    <3>1. j # k + 1
      BY <1>places, <2>3
    <3> QED BY <1>4, <1>5, <1>11, <2>1, <2>3, <3>1
  <2>4. CASE ~(j < pass_at) /\ k < pass_at
    <3>1. j + 1 # k
      BY <1>places, <2>4
    <3> QED BY <1>4, <1>5, <1>11, <2>1, <2>4, <3>1
  <2>5. CASE ~(j < pass_at) /\ ~(k < pass_at)
    <3>1. j + 1 = k + 1
      BY <1>4, <1>5, <1>11, <2>1, <2>5
    <3> QED BY <1>3, <3>1
  <2> QED BY <2>2, <2>3, <2>4, <2>5
<1>12. /\ pass_at' \in 1 .. (length - 1) + 1
       /\ this_node' = IF pass_at' = (length - 1) + 1 THEN null ELSE waiting_order'[pass_at']
       /\ prev_node' = IF pass_at' = 1 THEN null ELSE waiting_order'[pass_at' - 1]
  <2>1. (length - 1) + 1 = length
    BY <1>3
  <2>2. this_node' = IF pass_at = length THEN null ELSE waiting_order'[pass_at]
    <3>1. CASE pass_at = length
      BY <1>1, <1>2, <3>1
    <3>2. CASE pass_at # length
      <4>1. pass_at \in 1 .. length - 1 /\ ~(pass_at < pass_at)
        BY <1>places, <3>2
      <4> QED BY <1>1, <1>2, <1>5, <3>2, <4>1
    <3> QED BY <3>1, <3>2
  <2>3. prev_node' = IF pass_at = 1 THEN null ELSE waiting_order'[pass_at - 1]
    <3>1. CASE pass_at = 1
      BY <1>1, <1>2, <3>1
    <3>2. CASE pass_at # 1
      <4>1. pass_at - 1 \in 1 .. length - 1 /\ pass_at - 1 < pass_at
        BY <1>places, <3>2
      <4> QED BY <1>1, <1>2, <1>5, <3>2, <4>1
    <3> QED BY <3>1, <3>2
  <2> QED BY <1>1, <1>2, <2>1, <2>2, <2>3
<1> QED BY <1>5, <1>8, <1>9, <1>10, <1>11, <1>12
        DEF Linked, ListIsQueue, Requests!ListIsQueue, null

LEMMA LinkedHolds == Requests!Spec => []Linked
<1>1. Linked /\ Requests!EndOfPass => Linked'
    BY DEF Linked, ListIsQueue, Requests!ListIsQueue, Requests!EndOfPass
<1>2. Linked /\ UNCHANGED Requests!vars => Linked'
    BY DEF Linked, ListIsQueue, Requests!ListIsQueue, Requests!vars
<1>3. Linked /\ [Requests!Next]_(Requests!vars) => Linked'
    BY <1>1, <1>2, LinkedHandleAdditional, LinkedHandleOther, LinkedSkip, LinkedUnlink
       DEF Requests!Next
<1> QED BY InitLinked, <1>3, PTL DEF Requests!Spec

(***************************************************************************)
(* ListIsQueue for any number of nodes: however requests are added and     *)
(* taken out, the linked list is the sequence that ResourceManager and its *)
(* theorems have for it (resource.c:439-457, 460-464, 498-518).            *)
(***************************************************************************)
THEOREM ListCorrect == Requests!Spec => []ListIsQueue
<1>1. Linked => ListIsQueue
    BY DEF Linked
<1> QED BY <1>1, LinkedHolds, PTL
=============================================================================
