------------------------ MODULE ResourceManagerProofs ------------------------
(* Theorems about ResourceManager for every number of threads and resource *)
(* types, every input file and every setting of its switches.              *)
EXTENDS ResourceManager, SequenceTheorems, TLAPS

(***************************************************************************)
(* The vector operations stay within the vectors.                          *)
(***************************************************************************)
LEMMA VectorOps ==
    ASSUME NEW u \in Vector, NEW v \in Vector
    PROVE  /\ Add(u, v) \in Vector /\ Sub(u, v) \in Vector
           /\ Zero \in Vector
           /\ NegativePart(u) \in Vector /\ PositivePart(u) \in Vector
BY DEF Vector, Add, Sub, Zero, NegativePart, PositivePart

(***************************************************************************)
(* Unlinking node k leaves the other nodes, in order.                      *)
(***************************************************************************)
LEMMA Unlinked ==
    ASSUME NEW A, NEW s \in Seq(A), NEW k \in 1 .. Len(s)
    PROVE  /\ RemoveAt(s, k) \in Seq(A)
           /\ Len(RemoveAt(s, k)) = Len(s) - 1
           /\ \A j \in 1 .. Len(s) - 1 :
                 RemoveAt(s, k)[j] = IF j < k THEN s[j] ELSE s[j + 1]
<1> DEFINE p == SubSeq(s, 1, k - 1)
           q == SubSeq(s, k + 1, Len(s))
<1>1. p \in Seq(A) /\ Len(p) = k - 1 /\ \A j \in 1 .. k - 1 : p[j] = s[j]
  <2>1. CASE k = 1  BY <2>1, SubSeqProperties
  <2>2. CASE k # 1  BY <2>2, SubSeqProperties
  <2> QED BY <2>1, <2>2
<1>2. q \in Seq(A) /\ Len(q) = Len(s) - k
      /\ \A j \in 1 .. Len(s) - k : q[j] = s[k + j]
  <2>1. CASE k = Len(s)  BY <2>1, SubSeqProperties
  <2>2. CASE k # Len(s)  BY <2>2, SubSeqProperties
  <2> QED BY <2>1, <2>2
<1>3. RemoveAt(s, k) = p \o q  BY DEF RemoveAt
<1> HIDE DEF p, q
<1>4. /\ p \o q \in Seq(A) /\ Len(p \o q) = Len(p) + Len(q)
      /\ \A j \in 1 .. Len(p) + Len(q) :
            (p \o q)[j] = IF j <= Len(p) THEN p[j] ELSE q[j - Len(p)]
  BY <1>1, <1>2, ConcatProperties
<1>5. /\ Len(p \o q) = Len(s) - 1
      /\ \A j \in 1 .. Len(s) - 1 :
            (p \o q)[j] = IF j < k THEN s[j] ELSE s[j + 1]
  BY <1>1, <1>2, <1>4
<1> QED BY <1>3, <1>4, <1>5

-----------------------------------------------------------------------------
(* Type correctness                                                        *)

(***************************************************************************)
(* Granting keeps the three matrices well formed.                          *)
(***************************************************************************)
LEMMA GrantTypes ==
    ASSUME AVAILABLE \in Vector, ALLOCATION \in [Thread -> Vector],
           NEED \in [Thread -> Vector], NEW t \in Thread, NEW q \in Vector
    PROVE  /\ AfterGrant(S, t, q).AVAILABLE = Sub(AVAILABLE, q)
           /\ AfterGrant(S, t, q).ALLOCATION =
                 [ALLOCATION EXCEPT ![t] = Add(@, q)]
           /\ AfterGrant(S, t, q).NEED = [NEED EXCEPT ![t] = Sub(@, q)]
BY DEF AfterGrant, S

(* The initial state is type correct. *)
LEMMA InitTypes == Init => TypeOK
<1> USE SizeAssumption, InputAssumption
<1> SUFFICES ASSUME Init PROVE TypeOK  OBVIOUS
<1>1. Zero \in Vector  BY DEF Zero, Vector
<1>2. AVAILABLE \in Vector  BY DEF Init, Vector
<1>3. 0 \in Thread  BY DEF Thread
<1>4. pending_requests \in Seq(Node)  BY DEF Init
<1> QED BY <1>1, <1>2, <1>3, <1>4 DEF Init, TypeOK, Kinds

(***************************************************************************)
(* A line of a script is a vector.                                         *)
(***************************************************************************)
LEMMA LinesAreVectors ==
    ASSUME NEW t \in Thread, NEW q \in ScriptLines(t)  PROVE q \in Vector
<1>1. \A r \in Resource : -MaxNeed[t][r] .. MaxNeed[t][r] \subseteq Int
  BY InputAssumption
<1> QED BY <1>1 DEF ScriptLines, Vector

(* So is the row that read_thread_max_needs writes. *)
LEMMA NeedsAreVectors ==
    ASSUME NEW t \in Thread
    PROVE  [r \in Resource |-> MaxNeed[t][0]] \in Vector
<1>1. 0 \in Resource  BY SizeAssumption DEF Resource
<1>2. MaxNeed[t][0] \in Nat  BY <1>1, InputAssumption
<1> QED BY <1>2 DEF Vector

(* Every step of the program keeps the types of all variables. *)
LEMMA StepTypes == TypeOK /\ [Next]_vars => TypeOK'
<1> USE DEF TypeOK
<1> SUFFICES ASSUME TypeOK, [Next]_vars PROVE TypeOK'  OBVIOUS
<1> USE SizeAssumption DEF comms, users, matrix, queue
<1>1. CASE UNCHANGED vars  BY <1>1 DEF vars
<1>2. CASE BeginSession  BY <1>2 DEF BeginSession
<1>3. ASSUME NEW t \in Thread, ReadMaxNeeds(t) PROVE TypeOK'
  BY <1>3, NeedsAreVectors DEF ReadMaxNeeds
<1>4. ASSUME NEW t \in Thread, NEW kind \in Kinds, NEW q \in Vector,
             Prepare(t, kind, q), held' \in [Thread -> Vector],
             lines' \in [Thread -> 0 .. MaxRequests]
      PROVE  TypeOK'
  BY <1>4 DEF Prepare
<1>5. ASSUME NEW t \in Thread, SendRequest(t) PROVE TypeOK'
  <2>1. PICK q \in ScriptLines(t) :
           /\ Prepare(t, get_request_type(q), q)
           /\ held' = [held EXCEPT ![t] = Add(@, q)]
    BY <1>5 DEF SendRequest
  <2>2. q \in Vector  BY LinesAreVectors
  <2>3. get_request_type(q) \in Kinds  BY DEF get_request_type, Kinds
  <2>4. held' \in [Thread -> Vector]  BY <2>1, <2>2, VectorOps
  <2>5. lines' \in [Thread -> 0 .. MaxRequests]
    BY <1>5, InputAssumption DEF SendRequest
  <2> QED BY <1>4, <2>1, <2>2, <2>3, <2>4, <2>5
<1>6. ASSUME NEW t \in Thread, SendQuit(t) PROVE TypeOK'
  BY <1>4, <1>6 DEF SendQuit, Kinds
<1>7. ASSUME NEW t \in Thread,
             \/ Announce(t) \/ PrintReleased(t) \/ PrintGranted(t)
             \/ PrintQuit(t)
      PROVE  TypeOK'
  BY <1>7 DEF Announce, PrintReleased, PrintGranted, PrintQuit, PrintLine
<1>8. ASSUME NEW t \in Thread, Rendezvous(t) PROVE TypeOK'
  <2>1. ASSUME NEW p \in Thread \cup {TheMaster}, RequestBarrier(t, p)
        PROVE  TypeOK'
    BY <2>1 DEF RequestBarrier
  <2>2. CASE AckBarrier(t)  BY <2>2 DEF AckBarrier
  <2> QED BY <1>8, <2>1, <2>2 DEF Rendezvous
<1>9. ASSUME NEW t \in Thread, Unlock(t) PROVE TypeOK'
  <2>1. request_data.kind \in Kinds  OBVIOUS
  <2>2. upc' = [upc EXCEPT ![t] = "quitting"] \/ upc' = [upc EXCEPT ![t] = "released"]
        \/ upc' = [upc EXCEPT ![t] = "block"]
    BY <1>9, <2>1 DEF Unlock, Kinds
  <2> QED BY <1>9, <2>2 DEF Unlock
<1>10. ASSUME NEW t \in Thread, Wait(t) \/ SpuriousWakeup(t) PROVE TypeOK'
  BY <1>10 DEF Wait, SpuriousWakeup
<1>11. CASE Extract  BY <1>11 DEF Extract
<1>12. ASSUME NEW t \in Thread, NEW q \in Vector, GiveBack(t, q)
       PROVE  AVAILABLE' \in Vector /\ ALLOCATION' \in [Thread -> Vector]
  BY <1>12, VectorOps DEF GiveBack
<1>13. CASE HandleRelease
  <2>1. AVAILABLE' \in Vector /\ ALLOCATION' \in [Thread -> Vector]
    BY <1>12, <1>13 DEF HandleRelease
  <2> QED BY <1>13, <2>1 DEF HandleRelease, Handle
<1>14. CASE HandleQuit
  <2>1. AVAILABLE' \in Vector /\ ALLOCATION' \in [Thread -> Vector]
    BY <1>14, VectorOps DEF HandleQuit, Cleared
  <2> QED BY <1>14, <2>1 DEF HandleQuit, Handle
<1>15. CASE HandleAdditional
  <2>1. NegativePart(request.request) \in Vector
        /\ PositivePart(request.request) \in Vector
    BY VectorOps
  <2>2. AVAILABLE' \in Vector /\ ALLOCATION' \in [Thread -> Vector]
    BY <1>12, <1>15, <2>1 DEF HandleAdditional
  <2>3. pending_requests' \in Seq(Node)
    BY <1>15, <2>1, AppendProperties DEF HandleAdditional, enqueue_request, Node
  <2> QED BY <1>15, <2>2, <2>3 DEF HandleAdditional, Handle
<1>16. CASE Skip  BY <1>16 DEF Skip, Scanning, PassDone
<1>17. CASE Grant
  <2> DEFINE node == pending_requests[current]
  <2>1. current \in DOMAIN pending_requests  BY <1>17 DEF Grant, Scanning, PassDone
  <2>2. node.thread_id \in Thread /\ node.request \in Vector
    <3>1. node \in Node  BY <2>1, ElementOfSeq
    <3> QED BY <3>1 DEF Node
  <2>3. /\ AVAILABLE' = Sub(AVAILABLE, node.request)
        /\ ALLOCATION' = [ALLOCATION EXCEPT ![node.thread_id] = Add(@, node.request)]
        /\ NEED' = [NEED EXCEPT ![node.thread_id] = Sub(@, node.request)]
    BY <1>17, <2>2, GrantTypes DEF Grant
  <2>4. /\ AVAILABLE' \in Vector /\ ALLOCATION' \in [Thread -> Vector]
        /\ NEED' \in [Thread -> Vector]
    BY <2>2, <2>3, VectorOps
  <2> QED BY <1>17, <2>1, <2>4 DEF Grant
<1>18. CASE Signal
  <2>1. RemoveAt(pending_requests, current) \in Seq(Node)
    <3>1. mpc = "signal"  BY <1>18 DEF Signal
    <3>2. current \in 1 .. Len(pending_requests)  BY <3>1
    <3> QED BY <3>2, Unlinked
  <2>2. /\ pending_requests' = RemoveAt(pending_requests, current)
        /\ mpc' = "scan"
        /\ UNCHANGED <<comms, pmtx, lines, held, request, active_threads,
                       matrix, current>>
    BY <1>18 DEF Signal, Unlink
  <2>3. upc' \in {upc, [upc EXCEPT ![pending_requests[current].thread_id] = "granted"]}
    BY <1>18 DEF Signal, Wake
  <2> QED BY <2>1, <2>2, <2>3
<1>19. CASE EndOfPass
  <2>1. mpc' \in {"reqb", "join"}  BY <1>19 DEF EndOfPass
  <2> QED BY <1>19, <2>1 DEF EndOfPass
<1>20. CASE Return  BY <1>20 DEF Return
<1>22. CASE Master
  BY <1>11, <1>13, <1>14, <1>15, <1>16, <1>17, <1>18, <1>19, <1>20, <1>22
  DEF Master
<1>23. ASSUME NEW t \in Thread, User(t) \/ Rendezvous(t) \/ SpuriousWakeup(t)
       PROVE  TypeOK'
  BY <1>3, <1>5, <1>6, <1>7, <1>8, <1>9, <1>10, <1>23 DEF User
<1> HIDE DEF TypeOK
<1> QED BY <1>1, <1>2, <1>22, <1>23 DEF Next

(***************************************************************************)
(* Every variable keeps its type, whatever the inputs and the schedule.    *)
(***************************************************************************)
THEOREM TypeCorrect == Spec => []TypeOK
BY InitTypes, StepTypes, PTL DEF Spec

-----------------------------------------------------------------------------
(* The hand-over of a request                                              *)

(* Nothing is in transit when the threads start. *)
LEMMA InitHandOver == Init => RequestHandedOver
BY DEF Init, RequestHandedOver, InTransit

(***************************************************************************)
(* Only the sender, and the master opposite it, move while a request is in *)
(* transit: rmtx keeps every other user out.                               *)
(***************************************************************************)
LEMMA StepHandOver ==
    TypeOK /\ RequestHandedOver /\ [Next]_vars => RequestHandedOver'
<1> USE SizeAssumption
    DEF TypeOK, RequestHandedOver, InTransit, comms, users, matrix, queue
<1> SUFFICES ASSUME TypeOK, RequestHandedOver, [Next]_vars
             PROVE  RequestHandedOver'
  OBVIOUS
<1>1. CASE UNCHANGED vars  BY <1>1 DEF vars
<1>2. CASE BeginSession  BY <1>2 DEF BeginSession
<1>3. ASSUME NEW t \in Thread, ReadMaxNeeds(t) PROVE RequestHandedOver'
  BY <1>3 DEF ReadMaxNeeds
<1>4. ASSUME NEW t \in Thread, NEW kind, NEW q, Prepare(t, kind, q)
      PROVE  RequestHandedOver'
  <2>1. \A u \in Thread : ~InTransit(u)  BY <1>4 DEF Prepare, RmtxFree, Nobody, Thread
  <2>2. mpc \notin {"extract", "ackb"}
    BY <1>4 DEF Prepare, RmtxFree, Nobody, Thread
  <2> QED BY <1>4, <2>1, <2>2 DEF Prepare
<1>5. ASSUME NEW t \in Thread, SendRequest(t) \/ SendQuit(t)
      PROVE  RequestHandedOver'
  BY <1>4, <1>5 DEF SendRequest, SendQuit
<1>6. ASSUME NEW t \in Thread,
             \/ Announce(t) \/ PrintReleased(t) \/ PrintGranted(t)
             \/ PrintQuit(t)
      PROVE  RequestHandedOver'
  BY <1>6 DEF Announce, PrintReleased, PrintGranted, PrintQuit, PrintLine
<1>7. ASSUME NEW t \in Thread, NEW p \in Thread \cup {TheMaster},
             RequestBarrier(t, p)
      PROVE  RequestHandedOver'
  <2>1. p = TheMaster  BY <1>7 DEF RequestBarrier
  <2>2. mpc = "reqb" /\ mpc' = "extract" /\ upc[t] = "reqb"
    BY <1>7, <2>1 DEF RequestBarrier
  <2>3. \A u \in Thread : upc'[u] = IF u = t THEN "ackb" ELSE upc[u]
    BY <1>7, <2>1 DEF RequestBarrier, TheMaster, Thread
  <2>4. UNCHANGED <<rmtx, request_data, request>>  BY <1>7 DEF RequestBarrier
  <2> QED BY <2>2, <2>3, <2>4
<1>8. ASSUME NEW t \in Thread, AckBarrier(t) PROVE RequestHandedOver'
  BY <1>8 DEF AckBarrier
<1>9. ASSUME NEW t \in Thread, Unlock(t) PROVE RequestHandedOver'
  <2>1. \A u \in Thread : u # t => ~InTransit(u)  BY <1>9 DEF Unlock
  <2>2. upc'[t] \in {"quitting", "released", "block"}
    BY <1>9 DEF Unlock, Kinds
  <2>3. mpc \notin {"extract", "ackb"}  BY <1>9 DEF Unlock
  <2> QED BY <1>9, <2>1, <2>2, <2>3 DEF Unlock
<1>10. ASSUME NEW t \in Thread, Wait(t) \/ SpuriousWakeup(t)
       PROVE  RequestHandedOver'
  BY <1>10 DEF Wait, SpuriousWakeup
<1>11. CASE Extract  BY <1>11 DEF Extract
<1>12. CASE HandleRelease \/ HandleQuit \/ HandleAdditional
  BY <1>12 DEF HandleRelease, HandleQuit, HandleAdditional, Handle
<1>13. CASE Skip \/ Grant
  <2>1. mpc' \in {"scan", "signal"} /\ UNCHANGED <<rmtx, request_data, upc>>
    BY <1>13 DEF Skip, Grant, Scanning
  <2>2. mpc = "scan"  BY <1>13 DEF Skip, Grant, Scanning
  <2> QED BY <2>1, <2>2
<1>14. CASE Signal
  <2>1. \A u \in Thread :
           upc'[u] # upc[u] => upc'[u] = "granted" /\ upc[u] = "waiting"
    BY <1>14 DEF Signal, Wake
  <2>2. /\ mpc = "signal" /\ mpc' = "scan"
        /\ UNCHANGED <<rmtx, request_data>>
    BY <1>14 DEF Signal
  <2> QED BY <2>1, <2>2
<1>15. CASE EndOfPass \/ Return  BY <1>15 DEF EndOfPass, Return
<1>17. CASE Master  BY <1>11, <1>12, <1>13, <1>14, <1>15, <1>17 DEF Master
<1>18. ASSUME NEW t \in Thread, User(t) \/ Rendezvous(t) \/ SpuriousWakeup(t)
       PROVE  RequestHandedOver'
  BY <1>3, <1>5, <1>6, <1>7, <1>8, <1>9, <1>10, <1>18 DEF User, Rendezvous
<1> HIDE DEF RequestHandedOver
<1> QED BY <1>1, <1>2, <1>17, <1>18 DEF Next

(***************************************************************************)
(* From taking rmtx to giving it back, request_data is the sender's alone  *)
(* and the master's copy of it is the sender's request; nothing is assumed *)
(* about wakeups or about the time a signal takes.                         *)
(***************************************************************************)
THEOREM HandOverCorrect == Spec => []RequestHandedOver
BY InitTypes, StepTypes, InitHandOver, StepHandOver, PTL DEF Spec

-----------------------------------------------------------------------------
(* The queue and the threads that wait                                     *)

(***************************************************************************)
(* Inductive form of QueuedThreadsBlocked: the request the master is about *)
(* to carry out has no node yet, and if it will get one, its sender blocks.*)
(***************************************************************************)
QueueInv ==
    /\ QueuedThreadsBlocked
    /\ mpc = "handle" =>
          /\ \A k \in DOMAIN pending_requests :
                pending_requests[k].thread_id # request.thread_id
          /\ request.kind = "ADDITIONAL" => Blocked(request.thread_id)

(***************************************************************************)
(* What a step that leaves the queue alone must respect: whoever was       *)
(* blocked stays so.                                                       *)
(***************************************************************************)
LEMMA QueueUntouched ==
    ASSUME TypeOK, QueueInv, pending_requests' = pending_requests,
           mpc' = "handle" => mpc = "handle" /\ request' = request,
           \A u \in Thread : Blocked(u) => Blocked(u)'
    PROVE  QueueInv'
<1>1. \A k \in DOMAIN pending_requests :
         pending_requests[k].thread_id \in Thread
  <2> TAKE k \in DOMAIN pending_requests
  <2>1. pending_requests[k] \in Node  BY ElementOfSeq DEF TypeOK
  <2> QED BY <2>1 DEF Node
<1>2. QueuedThreadsBlocked'  BY <1>1 DEF QueueInv, QueuedThreadsBlocked
<1>3. request.thread_id \in Thread  BY DEF TypeOK
<1> QED BY <1>2, <1>3 DEF QueueInv

(* Every step of the program keeps the strengthened queue invariant. *)
LEMMA StepQueue ==
    ASSUME ~SpuriousWakeups, TypeOK, RequestHandedOver, QueueInv, [Next]_vars
    PROVE  QueueInv'
<1> USE DEF comms, users, matrix, queue
<1>1. \A k \in DOMAIN pending_requests :
         pending_requests[k].thread_id \in Thread
  <2> TAKE k \in DOMAIN pending_requests
  <2>1. pending_requests[k] \in Node  BY ElementOfSeq DEF TypeOK
  <2> QED BY <2>1 DEF Node
<1>2. CASE UNCHANGED vars
  BY <1>2, QueueUntouched DEF vars, Blocked
<1>3. CASE BeginSession
  BY <1>3, QueueUntouched DEF BeginSession, Blocked
<1>4. ASSUME NEW t \in Thread, ReadMaxNeeds(t) PROVE QueueInv'
  BY <1>4, QueueUntouched DEF ReadMaxNeeds, Blocked, TypeOK
<1>5. ASSUME NEW t \in Thread, NEW kind, NEW q, Prepare(t, kind, q)
      PROVE  QueueInv'
  <2>1. \A u \in Thread : upc[u] # "acked"
    BY <1>5 DEF Prepare, RmtxFree, RequestHandedOver, InTransit, Nobody, Thread
  <2>2. \A u \in Thread : Blocked(u) => Blocked(u)'
    BY <1>5, <2>1 DEF Prepare, Blocked, TypeOK
  <2> QED BY <1>5, <2>2, QueueUntouched DEF Prepare
<1>6. ASSUME NEW t \in Thread, SendRequest(t) \/ SendQuit(t) PROVE QueueInv'
  BY <1>5, <1>6 DEF SendRequest, SendQuit
<1>7. ASSUME NEW t \in Thread,
             \/ Announce(t) \/ PrintReleased(t) \/ PrintGranted(t)
             \/ PrintQuit(t)
      PROVE  QueueInv'
  <2>1. \A u \in Thread : Blocked(u) => Blocked(u)'
    BY <1>7 DEF Announce, PrintReleased, PrintGranted, PrintQuit, PrintLine,
                Blocked, TypeOK
  <2> QED
    BY <1>7, <2>1, QueueUntouched
    DEF Announce, PrintReleased, PrintGranted, PrintQuit, PrintLine
<1>8. ASSUME NEW t \in Thread, NEW p \in Thread \cup {TheMaster},
             RequestBarrier(t, p)
      PROVE  QueueInv'
  <2>1. \A u \in Thread : upc'[u] # upc[u] => upc[u] = "reqb"
    BY <1>8 DEF RequestBarrier, TheMaster, Thread
  <2>2. \A u \in Thread : Blocked(u) => Blocked(u)'
    BY <1>8, <2>1 DEF RequestBarrier, Blocked
  <2>3. mpc' = "handle" => mpc = "handle"  BY <1>8 DEF RequestBarrier
  <2> QED BY <1>8, <2>2, <2>3, QueueUntouched DEF RequestBarrier
<1>9. ASSUME NEW t \in Thread, AckBarrier(t) PROVE QueueInv'
  <2>1. /\ upc[t] = "ackb" /\ request = request_data /\ request.thread_id = t
        /\ upc' = [upc EXCEPT ![t] = "acked"]
        /\ UNCHANGED <<pending_requests, request, request_data>>
    BY <1>9 DEF AckBarrier, RequestHandedOver
  <2>2. ~Blocked(t)  BY <2>1 DEF Blocked
  <2>3. \A u \in Thread : Blocked(u) => Blocked(u)'
    BY <2>1 DEF Blocked, TypeOK
  <2>4. QueuedThreadsBlocked'
    BY <1>1, <2>1, <2>3 DEF QueueInv, QueuedThreadsBlocked
  <2>5. \A k \in DOMAIN pending_requests : pending_requests[k].thread_id # t
    BY <2>2 DEF QueueInv, QueuedThreadsBlocked
  <2>6. request.kind = "ADDITIONAL" => Blocked(t)'
    BY <2>1 DEF Blocked, TypeOK
  <2> QED BY <2>1, <2>4, <2>5, <2>6 DEF QueueInv
<1>10. ASSUME NEW t \in Thread, Unlock(t) PROVE QueueInv'
  <2>1. request_data.kind = "ADDITIONAL" => upc'[t] = "block"
    BY <1>10 DEF Unlock, TypeOK
  <2>2. \A u \in Thread : Blocked(u) => Blocked(u)'
    BY <1>10, <2>1 DEF Unlock, Blocked, TypeOK
  <2> QED BY <1>10, <2>2, QueueUntouched DEF Unlock
<1>11. ASSUME NEW t \in Thread, Wait(t) PROVE QueueInv'
  <2>1. \A u \in Thread : Blocked(u) => Blocked(u)'
    BY <1>11 DEF Wait, Blocked, TypeOK
  <2> QED BY <1>11, <2>1, QueueUntouched DEF Wait
<1>12. ASSUME NEW t \in Thread PROVE ~SpuriousWakeup(t)
  BY DEF SpuriousWakeup
<1>13. CASE Extract  BY <1>13, QueueUntouched DEF Extract, Blocked
<1>14. ASSUME NEW kind, Handle(kind), pending_requests' = pending_requests
       PROVE  QueueInv'
  BY <1>14, QueueUntouched DEF Handle, Blocked
<1>15. CASE HandleRelease \/ HandleQuit
  BY <1>14, <1>15 DEF HandleRelease, HandleQuit
<1>16. CASE HandleAdditional
  <2> DEFINE t == request.thread_id
             new == [thread_id |-> t, request |-> PositivePart(request.request)]
  <2>1. pending_requests \in Seq(Node) /\ new \in Node
    <3>1. PositivePart(request.request) \in Vector
      BY VectorOps DEF TypeOK
    <3> QED BY <3>1 DEF Node, TypeOK
  <2>2. pending_requests' = Append(pending_requests, new)
    BY <1>16 DEF HandleAdditional, enqueue_request
  <2>3. /\ mpc = "handle" /\ mpc' = "scan" /\ request.kind = "ADDITIONAL"
        /\ UNCHANGED <<upc, request_data>>
    BY <1>16 DEF HandleAdditional, Handle
  <2>4. \A u \in Thread : Blocked(u)' <=> Blocked(u)  BY <2>3 DEF Blocked
  <2>5. t \in Thread /\ Blocked(t)  BY <2>3 DEF QueueInv, TypeOK
  <2>6. /\ Len(pending_requests') = Len(pending_requests) + 1
        /\ \A k \in 1 .. Len(pending_requests) :
              pending_requests'[k] = pending_requests[k]
        /\ pending_requests'[Len(pending_requests) + 1] = new
        /\ DOMAIN pending_requests' = 1 .. Len(pending_requests) + 1
    BY <2>1, <2>2, AppendProperties
  <2>7. \A k \in 1 .. Len(pending_requests) :
           pending_requests[k].thread_id # t
    BY <2>1, <2>3 DEF QueueInv
  <2>8. \A k \in DOMAIN pending_requests', u \in Thread :
           u = pending_requests'[k].thread_id => Blocked(u)'
    BY <2>1, <2>4, <2>5, <2>6 DEF QueueInv, QueuedThreadsBlocked
  <2>9. \A k, j \in DOMAIN pending_requests' :
           pending_requests'[j].thread_id = pending_requests'[k].thread_id
             => j = k
    BY <2>1, <2>6, <2>7 DEF QueueInv, QueuedThreadsBlocked
  <2>10. \A k \in DOMAIN pending_requests' :
            pending_requests'[k].thread_id \in Thread
    BY <1>1, <2>1, <2>5, <2>6
  <2>11. QueuedThreadsBlocked'  BY <2>8, <2>9, <2>10 DEF QueuedThreadsBlocked
  <2> QED BY <2>3, <2>11 DEF QueueInv
<1>17. CASE Skip \/ Grant
  <2>1. mpc' # "handle" /\ UNCHANGED <<pending_requests, upc, request_data>>
    BY <1>17 DEF Skip, Grant, Scanning
  <2> QED BY <2>1, QueueUntouched DEF Blocked
<1>18. CASE Signal
  <2> DEFINE n == Len(pending_requests)
             t == pending_requests[current].thread_id
  <2>1. mpc = "signal" /\ mpc' = "scan"
        /\ pending_requests' = RemoveAt(pending_requests, current)
        /\ request_data' = request_data
    BY <1>18 DEF Signal, Unlink
  <2>2. current \in 1 .. n /\ pending_requests \in Seq(Node) /\ n \in Nat
        /\ DOMAIN pending_requests = 1 .. n
    BY <2>1 DEF TypeOK
  <2>3. DOMAIN pending_requests' = 1 .. n - 1
        /\ \A k \in 1 .. n - 1 : pending_requests'[k] =
              IF k < current THEN pending_requests[k] ELSE pending_requests[k + 1]
    <3>1. pending_requests' \in Seq(Node) /\ Len(pending_requests') = n - 1
      BY <2>1, <2>2, Unlinked
    <3>2. \A k \in 1 .. n - 1 : RemoveAt(pending_requests, current)[k] =
             IF k < current THEN pending_requests[k] ELSE pending_requests[k + 1]
      BY <2>2, Unlinked
    <3> QED BY <2>1, <3>1, <3>2
  <2>4. \A u \in Thread : u # t => upc'[u] = upc[u]
    BY <1>18 DEF Signal, Wake
  <2>5. \A k \in 1 .. n : k # current => pending_requests[k].thread_id # t
    BY <2>2 DEF QueueInv, QueuedThreadsBlocked
  <2>6. \A k \in 1 .. n, u \in Thread :
           k # current /\ u = pending_requests[k].thread_id => Blocked(u)'
    BY <2>1, <2>2, <2>4, <2>5 DEF QueueInv, QueuedThreadsBlocked, Blocked
  <2>7. \A k \in 1 .. n - 1 : \E j \in 1 .. n :
           j # current /\ pending_requests'[k] = pending_requests[j]
    <3> TAKE k \in 1 .. n - 1
    <3>1. CASE k < current
      <4>1. k \in 1 .. n /\ k # current  BY <2>2, <3>1
      <4> QED BY <2>3, <3>1, <4>1
    <3>2. CASE ~(k < current)
      <4>1. k + 1 \in 1 .. n /\ k + 1 # current  BY <2>2, <3>2
      <4>2. pending_requests'[k] = pending_requests[k + 1]  BY <2>3, <3>2
      <4> QED BY <4>1, <4>2
    <3> QED BY <3>1, <3>2
  <2>8. \A k, j \in 1 .. n - 1 :
           pending_requests'[j].thread_id = pending_requests'[k].thread_id
             => j = k
    <3>1. \A k, j \in 1 .. n :
             pending_requests[j].thread_id = pending_requests[k].thread_id
               => j = k
      BY <2>2 DEF QueueInv, QueuedThreadsBlocked
    <3> QED BY <2>2, <2>3, <3>1
  <2>9. \A k \in 1 .. n - 1 : pending_requests'[k].thread_id \in Thread
    BY <1>1, <2>2, <2>7
  <2>10. \A k \in 1 .. n - 1, u \in Thread :
            u = pending_requests'[k].thread_id => Blocked(u)'
    BY <2>6, <2>7
  <2>11. QueuedThreadsBlocked'
    BY <2>3, <2>8, <2>9, <2>10 DEF QueuedThreadsBlocked
  <2> QED BY <2>1, <2>11 DEF QueueInv
<1>19. CASE EndOfPass \/ Return
  <2>1. mpc' # "handle" /\ UNCHANGED <<pending_requests, upc, request_data>>
    BY <1>19 DEF EndOfPass, Return, vars
  <2> QED BY <2>1, QueueUntouched DEF Blocked
<1>20. CASE Master
  BY <1>13, <1>15, <1>16, <1>17, <1>18, <1>19, <1>20 DEF Master
<1>21. ASSUME NEW t \in Thread, User(t) \/ Rendezvous(t) \/ SpuriousWakeup(t)
       PROVE  QueueInv'
  BY <1>4, <1>6, <1>7, <1>8, <1>9, <1>10, <1>11, <1>12, <1>21
  DEF User, Rendezvous
<1> QED BY <1>2, <1>3, <1>19, <1>20, <1>21 DEF Next

(***************************************************************************)
(* If condition waits only return when signalled, a thread with a queued   *)
(* request stays blocked until it is granted, and has no second request.   *)
(***************************************************************************)
THEOREM QueueCorrect ==
    ASSUME ~SpuriousWakeups  PROVE Spec => []QueuedThreadsBlocked
<1>1. Init => QueueInv  BY DEF Init, QueueInv, QueuedThreadsBlocked
<1>2. QueueInv => QueuedThreadsBlocked  BY DEF QueueInv
<1>3. TypeOK /\ RequestHandedOver /\ QueueInv /\ [Next]_vars => QueueInv'
  BY StepQueue
<1> QED BY <1>1, <1>2, <1>3, TypeCorrect, HandOverCorrect, PTL DEF Spec

-----------------------------------------------------------------------------
(* The ledger                                                              *)

(* The request of t the master is about to carry out. *)
HandleOK(t) ==
    /\ request.kind = "QUIT" <=> Quitting(t)
    /\ request.kind # "QUIT" => Within(Add(ALLOCATION[t], request.request), t)

(***************************************************************************)
(* Inductive form of LedgerAgrees and WithinClaim: besides, the scripts    *)
(* stay within their claims, queued requests ask for nothing negative,     *)
(* releases for nothing positive, and carrying out the request at hand     *)
(* leaves its sender within its claim.                                     *)
(***************************************************************************)
LedgerInv ==
    /\ LedgerAgrees
    /\ WithinClaim
    /\ \A t \in Thread : Within(held[t], t)
    /\ \A k \in DOMAIN pending_requests : Leq(Zero, pending_requests[k].request)
    /\ request_data.kind = "RELEASE" => Leq(request_data.request, Zero)
    /\ request.kind = "RELEASE" => Leq(request.request, Zero)
    /\ \A t \in Thread : AtMaster(t) => HandleOK(t)

(***************************************************************************)
(* Arithmetic of claims: what giving back the released components of a     *)
(* request and granting the others comes to.                               *)
(***************************************************************************)
LEMMA VectorSums ==
    ASSUME NEW u \in Vector, NEW v \in Vector
    PROVE  /\ Add(u, Zero) = u
           /\ Add(Add(u, Zero), v) = Add(u, v)
           /\ Add(Add(u, v), Zero) = Add(u, v)
           /\ Add(Add(u, NegativePart(v)), PositivePart(v)) = Add(u, v)
           /\ Leq(Zero, PositivePart(v))
           /\ Leq(NegativePart(v), Zero)
BY DEF Vector, Add, Zero, NegativePart, PositivePart, Leq

(* What vector addition does to the bounds 0 and MaxNeed. *)
LEMMA VectorBounds ==
    ASSUME NEW t \in Thread, NEW u \in Vector, NEW v \in Vector
    PROVE  /\ Leq(Zero, u) /\ Leq(v, Zero) => Leq(Zero, Sub(u, v))
           /\ Leq(Zero, u) /\ Leq(Zero, v) => Leq(Zero, Add(u, v))
           /\ Leq(v, u) => Leq(Zero, Sub(u, v))
           /\ Within(Zero, t)
           /\ Within(u, t) /\ Within(Add(u, v), t)
                 => Within(Add(u, NegativePart(v)), t)
<1> USE InputAssumption DEF Vector, Add, Sub, Zero, NegativePart, Leq, Within
<1>1. Leq(Zero, u) /\ Leq(v, Zero) => Leq(Zero, Sub(u, v))  OBVIOUS
<1>2. Leq(Zero, u) /\ Leq(Zero, v) => Leq(Zero, Add(u, v))  OBVIOUS
<1>3. Leq(v, u) => Leq(Zero, Sub(u, v))  OBVIOUS
<1>4. Within(Zero, t)  OBVIOUS
<1>5. Within(u, t) /\ Within(Add(u, v), t) => Within(Add(u, NegativePart(v)), t)
  OBVIOUS
<1> QED BY <1>1, <1>2, <1>3, <1>4, <1>5

(***************************************************************************)
(* A step that changes nothing the ledger of u is made of keeps it.        *)
(***************************************************************************)
LEMMA LedgerKept ==
    ASSUME NEW u \in Thread, Ledger(u),
           ALLOCATION'[u] = ALLOCATION[u], held'[u] = held[u],
           Sent(u)' = Sent(u), BeingHandled(u)' = BeingHandled(u),
           QuitDone(u)' <=> QuitDone(u),
           Nodes(u)' = Nodes(u),
           \A k \in Nodes(u) : pending_requests'[k] = pending_requests[k]
    PROVE  Ledger(u)'
BY DEF Ledger

(***************************************************************************)
(* A step that grants nothing and moves no request concerns nobody's       *)
(* ledger.                                                                 *)
(***************************************************************************)
LEMMA LedgerUntouched ==
    ASSUME LedgerInv, TypeOK, TypeOK',
           UNCHANGED <<request_data, held, AVAILABLE, ALLOCATION,
                       pending_requests>>,
           mpc' = "handle" <=> mpc = "handle",
           mpc = "handle" => request' = request,
           request'.kind = "RELEASE" => Leq(request'.request, Zero),
           mpc' = "signal" <=> mpc = "signal",
           mpc = "signal" => current' = current,
           \A u \in Thread : Sent(u)' = Sent(u) /\ (Quitting(u)' <=> Quitting(u))
    PROVE  LedgerInv'
<1>1. ASSUME NEW u \in Thread PROVE Ledger(u)'
  <2>1. Ledger(u)  BY DEF LedgerInv, LedgerAgrees
  <2>2. BeingHandled(u)' = BeingHandled(u)  BY DEF BeingHandled, AtMaster
  <2>3. QuitDone(u)' <=> QuitDone(u)  BY DEF QuitDone, AtMaster
  <2>4. Nodes(u)' = Nodes(u)  BY DEF Nodes, Ungranted
  <2> QED BY <2>1, <2>2, <2>3, <2>4, LedgerKept
<1>2. \A t \in Thread : AtMaster(t)' => AtMaster(t)  BY DEF AtMaster
<1>3. \A t \in Thread : AtMaster(t)' => HandleOK(t)'
  <2> SUFFICES ASSUME NEW t \in Thread, AtMaster(t)' PROVE HandleOK(t)'
    OBVIOUS
  <2>1. request' = request  BY DEF AtMaster
  <2>2. HandleOK(t)  BY <1>2 DEF LedgerInv
  <2> QED BY <2>1, <2>2 DEF HandleOK
<1>4. LedgerAgrees'  BY <1>1 DEF LedgerAgrees
<1>5. WithinClaim' /\ \A t \in Thread : Within(held'[t], t)
  BY DEF LedgerInv, WithinClaim
<1> QED BY <1>3, <1>4, <1>5 DEF LedgerInv

(* Every step of the program keeps the strengthened ledger. *)
LEMMA StepLedger ==
    ASSUME ~SpuriousWakeups, TypeOK, TypeOK', RequestHandedOver, QueueInv,
           LedgerInv, [Next]_vars
    PROVE  LedgerInv'
<1> USE DEF comms, users, matrix, queue
<1> DEFINE Same == \A u \in Thread :
                      Sent(u)' = Sent(u) /\ (Quitting(u)' <=> Quitting(u))
<1>1. request.kind = "RELEASE" => Leq(request.request, Zero)  BY DEF LedgerInv
<1>2. CASE UNCHANGED vars
  BY <1>1, <1>2, LedgerUntouched DEF vars, Sent, Quitting
<1>3. CASE BeginSession
  <2>1. Same  BY <1>3 DEF BeginSession, Sent, Quitting
  <2> QED BY <1>1, <1>3, <2>1, LedgerUntouched DEF BeginSession
<1>4. ASSUME NEW t \in Thread, ReadMaxNeeds(t) PROVE LedgerInv'
  <2>1. Same  BY <1>4 DEF ReadMaxNeeds, Sent, Quitting, TypeOK
  <2> QED BY <1>1, <1>4, <2>1, LedgerUntouched DEF ReadMaxNeeds
<1>5. ASSUME NEW t \in Thread,
             \/ Announce(t) \/ PrintReleased(t) \/ PrintGranted(t)
             \/ PrintQuit(t)
      PROVE  LedgerInv'
  <2>1. Same
    BY <1>5, SMTT(30) DEF Announce, PrintReleased, PrintGranted, PrintQuit,
                PrintLine, Sent, Quitting, TypeOK
  <2> QED BY <1>1, <1>5, <2>1, LedgerUntouched
          DEF Announce, PrintReleased, PrintGranted, PrintQuit, PrintLine
<1>6. ASSUME NEW t \in Thread, NEW p \in Thread \cup {TheMaster},
             RequestBarrier(t, p)
      PROVE  LedgerInv'
  <2>1. \A u \in Thread : \/ upc'[u] = upc[u]
                          \/ upc'[u] = "ackb" /\ upc[u] = "reqb"
    BY <1>6 DEF RequestBarrier, TheMaster, Thread
  <2>2. Same  BY <1>6, <2>1 DEF RequestBarrier, Sent, Quitting
  <2>3. /\ mpc' = "handle" <=> mpc = "handle"
        /\ mpc' = "signal" <=> mpc = "signal"
    BY <1>6 DEF RequestBarrier
  <2> QED BY <1>1, <1>6, <2>2, <2>3, LedgerUntouched DEF RequestBarrier
<1>7. ASSUME NEW t \in Thread, Unlock(t) PROVE LedgerInv'
  <2>1. /\ upc[t] = "acked" /\ upc'[t] \in {"quitting", "released", "block"}
        /\ upc'[t] = "quitting" <=> request_data.kind = "QUIT"
    BY <1>7 DEF Unlock, TypeOK, Kinds
  <2>2. \A u \in Thread : u # t => upc'[u] = upc[u]  BY <1>7 DEF Unlock
  <2>3. Same  BY <1>7, <2>1, <2>2 DEF Unlock, Sent, Quitting
  <2> QED BY <1>1, <1>7, <2>3, LedgerUntouched DEF Unlock
<1>8. ASSUME NEW t \in Thread, Wait(t) PROVE LedgerInv'
  <2>1. Same  BY <1>8 DEF Wait, Sent, Quitting, TypeOK
  <2> QED BY <1>1, <1>8, <2>1, LedgerUntouched DEF Wait
<1>9. ASSUME NEW t \in Thread PROVE ~SpuriousWakeup(t)  BY DEF SpuriousWakeup
<1>10. CASE Extract
  <2>1. Same  BY <1>10 DEF Extract, Sent, Quitting
  <2>2. request'.kind = "RELEASE" => Leq(request'.request, Zero)
    BY <1>10 DEF Extract, LedgerInv
  <2> QED BY <1>10, <2>1, <2>2, LedgerUntouched DEF Extract
<1>11. CASE Skip \/ EndOfPass \/ Return
  <2>1. /\ mpc \notin {"handle", "signal"} /\ mpc' \notin {"handle", "signal"}
        /\ UNCHANGED <<comms, users, request, AVAILABLE, ALLOCATION,
                       pending_requests>>
    BY <1>11 DEF Skip, Scanning, EndOfPass, Return, vars
  <2>2. Same  BY <2>1 DEF Sent, Quitting
  <2> QED BY <1>1, <2>1, <2>2, LedgerUntouched
<1>12. \A k \in DOMAIN pending_requests :
          pending_requests[k] \in Node /\ k \in Nat
  <2>1. pending_requests \in Seq(Node)  BY DEF TypeOK
  <2> QED BY ONLY <2>1, ElementOfSeq
<1>13. ASSUME NEW t \in Thread, ~Blocked(t) PROVE Nodes(t) = {}
  BY <1>13 DEF Nodes, QueueInv, QueuedThreadsBlocked
<1>14. ASSUME NEW t \in Thread, NEW kind \in Kinds, NEW q \in Vector,
              Prepare(t, kind, q),
              held'[t] = IF kind = "QUIT" THEN held[t] ELSE Add(held[t], q),
              \A u \in Thread : u # t => held'[u] = held[u],
              Within(held'[t], t),
              kind = "RELEASE" => Leq(q, Zero)
       PROVE  LedgerInv'
  <2>1. /\ upc[t] = "script" /\ upc' = [upc EXCEPT ![t] = "announce"]
        /\ request_data' = [thread_id |-> t, kind |-> kind, request |-> q]
        /\ UNCHANGED <<mpc, request, ALLOCATION, AVAILABLE, pending_requests,
                       current>>
    BY <1>14 DEF Prepare
  <2>2. \A u \in Thread : ~InTransit(u)
    BY <1>14 DEF Prepare, RmtxFree, RequestHandedOver, Nobody, Thread
  <2>3. \A u \in Thread : BeingHandled(u)' = BeingHandled(u) /\ Nodes(u)' = Nodes(u)
                          /\ (AtMaster(u)' <=> AtMaster(u))
    BY <2>1 DEF BeingHandled, AtMaster, Nodes, Ungranted
  <2>4. \A u \in Thread : Quitting(u)' <=> Quitting(u)
    BY <2>1, <2>2 DEF Quitting, InTransit, TypeOK
  <2>5. \A u \in Thread : Sent(u) = Zero /\ (u # t => Sent(u)' = Zero)
    BY <2>1, <2>2 DEF Sent, InTransit, TypeOK
  <2>6. ASSUME NEW u \in Thread, u # t PROVE Ledger(u)'
    <3>1. held'[u] = held[u]  BY <1>14, <2>6
    <3>2. QuitDone(u)' <=> QuitDone(u)  BY <2>3, <2>4 DEF QuitDone
    <3>3. Ledger(u)  BY DEF LedgerInv, LedgerAgrees
    <3> QED BY <2>1, <2>3, <2>5, <2>6, <3>1, <3>2, <3>3, LedgerKept
  <2>7. Ledger(t)'
    <3>1. Nodes(t) = {} /\ ~Quitting(t)
      BY <1>13, <2>1 DEF Blocked, Quitting
    <3>2. held[t] = Add(Add(ALLOCATION[t], BeingHandled(t)), Zero)
      BY <2>5, <3>1 DEF LedgerInv, LedgerAgrees, Ledger, QuitDone
    <3>3. BeingHandled(t) \in Vector  BY VectorOps DEF BeingHandled, TypeOK
    <3>4. held[t] = Add(ALLOCATION[t], BeingHandled(t))
      BY <3>2, <3>3, VectorSums DEF TypeOK
    <3>5. Sent(t)' = IF kind = "QUIT" THEN Zero ELSE q
      BY <2>1 DEF Sent, TypeOK
    <3>6. held'[t] = Add(Add(ALLOCATION[t], BeingHandled(t)), Sent(t)')
      BY <1>14, <3>2, <3>4, <3>5
    <3>7. ~QuitDone(t)'  BY <2>4, <3>1 DEF QuitDone
    <3> QED BY <2>1, <2>3, <3>1, <3>6, <3>7 DEF Ledger
  <2>8. LedgerAgrees'  BY <2>6, <2>7 DEF LedgerAgrees
  <2>9. WithinClaim'  BY <2>1 DEF LedgerInv, WithinClaim
  <2>10. \A u \in Thread : Within(held'[u], u)
    BY <1>14 DEF LedgerInv, TypeOK
  <2>11. \A u \in Thread : AtMaster(u)' => HandleOK(u)'
    BY <2>1, <2>3, <2>4 DEF LedgerInv, HandleOK
  <2>12. request_data'.kind = "RELEASE" => Leq(request_data'.request, Zero)
    BY <1>14, <2>1
  <2> QED BY <2>1, <2>8, <2>9, <2>10, <2>11, <2>12 DEF LedgerInv
<1>15. ASSUME NEW t \in Thread, SendRequest(t) PROVE LedgerInv'
  <2>1. PICK q \in ScriptLines(t) :
           /\ Prepare(t, get_request_type(q), q)
           /\ held' = [held EXCEPT ![t] = Add(@, q)]
    BY <1>15 DEF SendRequest
  <2>2. q \in Vector  BY LinesAreVectors
  <2>3. get_request_type(q) \in {"RELEASE", "ADDITIONAL"}
    BY DEF get_request_type
  <2>4. get_request_type(q) = "RELEASE" => Leq(q, Zero)
    BY <2>2 DEF get_request_type, Leq, Zero, Vector
  <2>5. Within(held'[t], t)
    <3>1. held[t] \in Vector /\ Leq(Zero, held[t]) /\ Leq(held[t], MaxNeed[t])
      BY DEF TypeOK, LedgerInv, Within
    <3>2. \A r \in Resource : -held[t][r] <= q[r] /\ q[r] <= MaxNeed[t][r] - held[t][r]
      BY <2>2, <3>1 DEF ScriptLines, Leq, Zero, Vector
    <3>3. \A r \in Resource : MaxNeed[t][r] \in Int  BY InputAssumption
    <3>4. held'[t] = Add(held[t], q)  BY <2>1 DEF TypeOK
    <3> QED BY <2>2, <3>1, <3>2, <3>3, <3>4 DEF Within, Leq, Zero, Add, Vector
  <2>6. /\ get_request_type(q) # "QUIT" /\ held'[t] = Add(held[t], q)
        /\ \A u \in Thread : u # t => held'[u] = held[u]
    BY <2>1, <2>3 DEF TypeOK
  <2>7. PICK kind \in Kinds : kind = get_request_type(q)  BY <2>3 DEF Kinds
  <2>8. held'[t] = IF kind = "QUIT" THEN held[t] ELSE Add(held[t], q)
    BY <2>6, <2>7
  <2>9. Prepare(t, kind, q) /\ (kind = "RELEASE" => Leq(q, Zero))
    BY <2>1, <2>4, <2>7
  <2> QED BY <1>14, <2>2, <2>5, <2>6, <2>8, <2>9
<1>16. ASSUME NEW t \in Thread, SendQuit(t) PROVE LedgerInv'
  <2>1. request_data.request \in Vector  BY DEF TypeOK
  <2>2. held' = held  BY <1>16 DEF SendQuit
  <2>3. Within(held'[t], t)  BY <1>16 DEF SendQuit, LedgerInv
  <2> QED BY <1>14, <1>16, <2>1, <2>2, <2>3 DEF SendQuit, Kinds
<1>17. ASSUME NEW t \in Thread, AckBarrier(t) PROVE LedgerInv'
  <2>1. /\ upc[t] = "ackb" /\ mpc = "ackb" /\ mpc' = "handle"
        /\ request = request_data /\ request.thread_id = t
        /\ upc' = [upc EXCEPT ![t] = "acked"]
        /\ UNCHANGED <<request, request_data, held, ALLOCATION, AVAILABLE,
                       pending_requests>>
    BY <1>17 DEF AckBarrier, RequestHandedOver
  <2>2. \A u \in Thread : Nodes(u)' = Nodes(u)
    BY <2>1 DEF Nodes, Ungranted
  <2>3. \A u \in Thread : ~AtMaster(u) /\ BeingHandled(u) = Zero
                          /\ (AtMaster(u)' <=> u = t)
    BY <2>1 DEF AtMaster, BeingHandled
  <2>4. ASSUME NEW u \in Thread, u # t PROVE Ledger(u)'
    <3>1. Sent(u)' = Sent(u) /\ (Quitting(u)' <=> Quitting(u))
      BY <2>1, <2>4 DEF Sent, Quitting, TypeOK
    <3>2. BeingHandled(u)' = BeingHandled(u)
      BY <2>3, <2>4 DEF BeingHandled
    <3>3. QuitDone(u)' <=> QuitDone(u)
      BY <2>3, <2>4, <3>1 DEF QuitDone
    <3>4. Ledger(u)  BY DEF LedgerInv, LedgerAgrees
    <3> QED BY <2>1, <2>2, <3>1, <3>2, <3>3, <3>4, LedgerKept
  <2>5. request.kind = "QUIT" <=> Quitting(t)'
    BY <2>1 DEF Quitting, TypeOK
  <2>6. /\ Nodes(t) = {}
        /\ held[t] = Add(Add(ALLOCATION[t], Zero), Sent(t))
    BY <1>13, <2>1, <2>3 DEF Blocked, LedgerInv, LedgerAgrees, Ledger,
                             QuitDone, Quitting
  <2>7. Sent(t) = IF request.kind = "QUIT" THEN Zero ELSE request.request
    BY <2>1 DEF Sent
  <2>8. Sent(t)' = Zero /\ BeingHandled(t)' = Sent(t)
    BY <2>1, <2>3, <2>7 DEF Sent, BeingHandled, TypeOK
  <2>9. Sent(t) \in Vector /\ ALLOCATION[t] \in Vector
    <3>1. request.request \in Vector /\ Zero \in Vector
      BY VectorOps DEF TypeOK
    <3> QED BY <2>7, <3>1 DEF TypeOK
  <2>10. held[t] = Add(ALLOCATION[t], Sent(t))
         /\ held[t] = Add(Add(ALLOCATION[t], Sent(t)), Zero)
    BY <2>6, <2>9, VectorSums
  <2>11. Ledger(t)'
    BY <2>1, <2>2, <2>3, <2>6, <2>8, <2>10 DEF Ledger, QuitDone
  <2>12. HandleOK(t)'
    BY <2>1, <2>5, <2>7, <2>10 DEF HandleOK, LedgerInv
  <2>13. LedgerAgrees'  BY <2>4, <2>11 DEF LedgerAgrees
  <2>14. WithinClaim' /\ \A u \in Thread : Within(held'[u], u)
    BY <2>1 DEF LedgerInv, WithinClaim
  <2> QED BY <2>1, <2>3, <2>12, <2>13, <2>14 DEF LedgerInv
<1>18. ASSUME NEW kind, Handle(kind),
              ALLOCATION' \in [Thread -> Vector],
              \A u \in Thread : u # request.thread_id =>
                 /\ ALLOCATION'[u] = ALLOCATION[u]
                 /\ Nodes(u)' = Nodes(u)
                 /\ \A k \in Nodes(u) : pending_requests'[k] = pending_requests[k],
              Ledger(request.thread_id)',
              Within(ALLOCATION'[request.thread_id], request.thread_id),
              Leq(Zero, AVAILABLE'),
              \A k \in DOMAIN pending_requests' :
                 Leq(Zero, pending_requests'[k].request)
       PROVE  LedgerInv'
  <2>1. /\ mpc = "handle" /\ mpc' = "scan"
        /\ UNCHANGED <<upc, held, request, request_data>>
    BY <1>18 DEF Handle
  <2>2. \A u \in Thread : ~AtMaster(u)'  BY <2>1 DEF AtMaster
  <2>3. ASSUME NEW u \in Thread, u # request.thread_id PROVE Ledger(u)'
    <3>1. ~AtMaster(u)  BY <2>3 DEF AtMaster
    <3>2. Sent(u)' = Sent(u) /\ (QuitDone(u)' <=> QuitDone(u))
      BY <2>1, <2>2, <3>1 DEF Sent, QuitDone, Quitting
    <3>3. BeingHandled(u)' = BeingHandled(u)
      BY <2>2, <3>1 DEF BeingHandled
    <3>4. Ledger(u)  BY DEF LedgerInv, LedgerAgrees
    <3> QED BY <1>18, <2>1, <2>3, <3>2, <3>3, <3>4, LedgerKept
  <2>4. LedgerAgrees'  BY <1>18, <2>1, <2>3 DEF LedgerAgrees
  <2>5. WithinClaim'  BY <1>18 DEF LedgerInv, WithinClaim
  <2> QED BY <1>18, <2>1, <2>2, <2>4, <2>5 DEF LedgerInv
<1>19. CASE HandleRelease \/ HandleQuit \/ HandleAdditional
  <2> DEFINE t == request.thread_id
             q == request.request
  <2>1. /\ t \in Thread /\ q \in Vector /\ AVAILABLE \in Vector
        /\ ALLOCATION \in [Thread -> Vector]
    BY DEF TypeOK
  <2>2. /\ mpc = "handle" /\ mpc' = "scan"
        /\ UNCHANGED <<upc, held, request, request_data>>
    BY <1>19 DEF HandleRelease, HandleQuit, HandleAdditional, Handle
  <2>3. AtMaster(t) /\ HandleOK(t)  BY <2>1, <2>2 DEF AtMaster, LedgerInv
  <2>4. Nodes(t) = {}
    BY <2>2 DEF Nodes, QueueInv
  <2>5. ~AtMaster(t)' /\ BeingHandled(t)' = Zero /\ Sent(t)' = Sent(t)
        /\ (QuitDone(t)' <=> request.kind = "QUIT")
    BY <2>2, <2>3 DEF AtMaster, BeingHandled, Sent, QuitDone, Quitting, HandleOK
  <2>6. request.kind # "QUIT" => held[t] = Add(Add(ALLOCATION[t], q), Sent(t))
    BY <2>1, <2>3, <2>4
    DEF LedgerInv, LedgerAgrees, Ledger, QuitDone, BeingHandled
  <2>7. Within(ALLOCATION[t], t) /\ Leq(Zero, ALLOCATION[t]) /\ Leq(Zero, AVAILABLE)
    BY <2>1 DEF LedgerInv, WithinClaim, Within
  <2>8. ASSUME UNCHANGED pending_requests
        PROVE  \A u \in Thread : Nodes(u)' = Nodes(u)
    BY <2>2, <2>8 DEF Nodes, Ungranted
  <2>9. CASE HandleRelease
    <3>1. /\ request.kind = "RELEASE" /\ Handle("RELEASE")
          /\ AVAILABLE' = Sub(AVAILABLE, q)
          /\ ALLOCATION' = [ALLOCATION EXCEPT ![t] = Add(@, q)]
          /\ UNCHANGED pending_requests
      BY <2>9 DEF HandleRelease, GiveBack, Handle
    <3>2. Leq(q, Zero)  BY <3>1 DEF LedgerInv
    <3>3. Leq(Zero, AVAILABLE')  BY <2>1, <2>7, <3>1, <3>2, VectorBounds
    <3>4. ALLOCATION'[t] = Add(ALLOCATION[t], q)  BY <2>1, <3>1
    <3>5. ALLOCATION'[t] = Add(ALLOCATION'[t], Zero)
      BY <2>1, <3>4, VectorOps, VectorSums
    <3>6. Ledger(t)'
      BY <2>1, <2>2, <2>4, <2>5, <2>6, <2>8, <3>1, <3>4, <3>5 DEF Ledger
    <3>7. Within(ALLOCATION'[t], t)  BY <2>3, <3>1, <3>4 DEF HandleOK
    <3>8. ALLOCATION' \in [Thread -> Vector]  BY <2>1, <3>1, VectorOps
    <3>9. \A u \in Thread : u # t => ALLOCATION'[u] = ALLOCATION[u]
      BY <2>1, <3>1
    <3>10. \A k \in DOMAIN pending_requests' :
              Leq(Zero, pending_requests'[k].request)
      BY <3>1 DEF LedgerInv
    <3> QED BY <1>18, <2>8, <3>1, <3>3, <3>6, <3>7, <3>8, <3>9, <3>10
  <2>10. CASE HandleQuit
    <3>1. /\ request.kind = "QUIT" /\ Handle("QUIT")
          /\ AVAILABLE' = Add(AVAILABLE, ALLOCATION[t])
          /\ ALLOCATION' = [ALLOCATION EXCEPT ![t] = Zero]
          /\ UNCHANGED pending_requests
      BY <2>10 DEF HandleQuit, Handle, Cleared
    <3>2. Leq(Zero, AVAILABLE')  BY <2>1, <2>7, <3>1, VectorBounds
    <3>3. ALLOCATION'[t] = Zero  BY <2>1, <3>1
    <3>4. Ledger(t)'  BY <2>2, <2>5, <3>1, <3>3 DEF Ledger
    <3>5. Within(ALLOCATION'[t], t)  BY <2>1, <3>3, VectorBounds
    <3>6. ALLOCATION' \in [Thread -> Vector]  BY <2>1, <3>1, VectorOps
    <3>7. \A u \in Thread : u # t => ALLOCATION'[u] = ALLOCATION[u]
      BY <2>1, <3>1
    <3>8. \A k \in DOMAIN pending_requests' :
             Leq(Zero, pending_requests'[k].request)
      BY <3>1 DEF LedgerInv
    <3> QED BY <1>18, <2>8, <3>1, <3>2, <3>4, <3>5, <3>6, <3>7, <3>8
  <2>11. CASE HandleAdditional
    <3> DEFINE neg == NegativePart(q)
               pos == PositivePart(q)
               n == Len(pending_requests)
    <3>1. /\ request.kind = "ADDITIONAL" /\ Handle("ADDITIONAL")
          /\ AVAILABLE' = Sub(AVAILABLE, neg)
          /\ ALLOCATION' = [ALLOCATION EXCEPT ![t] = Add(@, neg)]
          /\ pending_requests' =
                Append(pending_requests, [thread_id |-> t, request |-> pos])
      BY <2>11 DEF HandleAdditional, GiveBack, Handle, enqueue_request
    <3>2. neg \in Vector /\ pos \in Vector  BY <2>1, VectorOps
    <3>3. Leq(neg, Zero) /\ Leq(Zero, pos)
          /\ Add(Add(ALLOCATION[t], neg), pos) = Add(ALLOCATION[t], q)
      BY <2>1, VectorSums
    <3>4. Leq(Zero, AVAILABLE')
      BY <2>1, <2>7, <3>1, <3>2, <3>3, VectorBounds
    <3>5. ALLOCATION'[t] = Add(ALLOCATION[t], neg)  BY <2>1, <3>1
    <3>6. Within(ALLOCATION'[t], t)
      <4>1. Within(Add(ALLOCATION[t], q), t)  BY <2>3, <3>1 DEF HandleOK
      <4> QED BY <2>1, <2>7, <3>5, <4>1, VectorBounds
    <3>7. /\ n \in Nat /\ DOMAIN pending_requests = 1 .. n
          /\ DOMAIN pending_requests' = 1 .. n + 1
          /\ \A k \in 1 .. n : pending_requests'[k] = pending_requests[k]
          /\ pending_requests'[n + 1] = [thread_id |-> t, request |-> pos]
      <4>1. pending_requests \in Seq(Node) /\ [thread_id |-> t, request |-> pos] \in Node
        BY <2>1, <3>2 DEF TypeOK, Node
      <4> QED BY <3>1, <4>1, AppendProperties
    <3>8. \A k \in 1 .. n : pending_requests[k].thread_id # t
      BY <2>2, <3>7 DEF QueueInv
    <3>9. \A k \in Nat : Ungranted(k) /\ Ungranted(k)'
      BY <2>2 DEF Ungranted
    <3>10. Nodes(t)' = {n + 1}
      <4>1. n + 1 \in Nodes(t)'  BY <2>2, <3>7, <3>9 DEF Nodes
      <4>2. \A k \in Nodes(t)' : k = n + 1
        BY <2>2, <3>7, <3>8 DEF Nodes
      <4> QED BY <4>1, <4>2
    <3>11. \A u \in Thread : u # t =>
              /\ Nodes(u)' = Nodes(u)
              /\ \A k \in Nodes(u) : pending_requests'[k] = pending_requests[k]
      BY <3>7, <3>9 DEF Nodes
    <3>12. Sent(t) = Zero
      BY <2>2, <3>1 DEF QueueInv, Blocked, Sent
    <3>13. held[t] = Add(ALLOCATION'[t], pos)
      <4>1. held[t] = Add(Add(ALLOCATION[t], q), Zero)
        BY <2>6, <3>1, <3>12
      <4>2. held[t] = Add(ALLOCATION[t], q)
        BY <2>1, <4>1, VectorSums
      <4> QED BY <3>3, <3>5, <4>2
    <3>14. Ledger(t)'
      BY <2>2, <2>5, <3>1, <3>7, <3>10, <3>13 DEF Ledger
    <3>15. ALLOCATION' \in [Thread -> Vector]
      BY <2>1, <3>1, <3>2, VectorOps
    <3>16. \A u \in Thread : u # t => ALLOCATION'[u] = ALLOCATION[u]
      BY <2>1, <3>1
    <3>17. \A k \in DOMAIN pending_requests' :
              Leq(Zero, pending_requests'[k].request)
      BY <3>3, <3>7 DEF LedgerInv
    <3> QED BY <1>18, <3>1, <3>4, <3>6, <3>11, <3>14, <3>15, <3>16, <3>17
  <2> QED BY <1>19, <2>9, <2>10, <2>11
<1>20. CASE Grant
  <2> DEFINE t == pending_requests[current].thread_id
             q == pending_requests[current].request
             n == Len(pending_requests)
  <2>1. /\ mpc = "scan" /\ mpc' = "signal" /\ current \in 1 .. n /\ n \in Nat
        /\ DOMAIN pending_requests = 1 .. n /\ Leq(q, AVAILABLE)
        /\ UNCHANGED <<comms, users, request, queue>>
    BY <1>20 DEF Grant, Scanning, PassDone, CanGrant, TypeOK
  <2>2. t \in Thread /\ q \in Vector  BY <1>12, <2>1 DEF Node
  <2>3. AVAILABLE \in Vector /\ ALLOCATION \in [Thread -> Vector]
        /\ held \in [Thread -> Vector]
    BY DEF TypeOK
  <2>4. /\ AVAILABLE' = Sub(AVAILABLE, q)
        /\ ALLOCATION' = [ALLOCATION EXCEPT ![t] = Add(@, q)]
    BY <1>20, <2>2, <2>3, GrantTypes DEF Grant, TypeOK
  <2>5. \A u \in Thread : /\ ~AtMaster(u) /\ ~AtMaster(u)'
                          /\ BeingHandled(u) = Zero /\ BeingHandled(u)' = Zero
                          /\ Sent(u)' = Sent(u)
                          /\ (QuitDone(u)' <=> QuitDone(u))
    BY <2>1 DEF AtMaster, BeingHandled, Sent, QuitDone, Quitting
  <2>6. \A k \in 1 .. n : Ungranted(k) /\ (Ungranted(k)' <=> k # current)
    BY <2>1 DEF Ungranted
  <2>7. Blocked(t)  BY <2>1 DEF QueueInv, QueuedThreadsBlocked
  <2>8. ~QuitDone(t) /\ Sent(t) = Zero
    BY <2>7 DEF Blocked, QuitDone, Quitting, Sent
  <2>9. current \in Nodes(t) /\ \A k \in Nodes(t) : k = current
    BY <2>1, <2>6 DEF Nodes, QueueInv, QueuedThreadsBlocked
  <2>10. held[t] = Add(ALLOCATION[t], q)
    BY <2>2, <2>8, <2>9 DEF LedgerInv, LedgerAgrees, Ledger
  <2>11. ALLOCATION'[t] = held[t]  BY <2>2, <2>3, <2>4, <2>10
  <2>12. \A u \in Thread : u # t =>
            /\ ALLOCATION'[u] = ALLOCATION[u] /\ Nodes(u)' = Nodes(u)
    BY <2>1, <2>3, <2>4, <2>6 DEF Nodes
  <2>13. ASSUME NEW u \in Thread, u # t PROVE Ledger(u)'
    <3>1. Ledger(u)  BY DEF LedgerInv, LedgerAgrees
    <3> QED BY <2>1, <2>5, <2>12, <2>13, <3>1, LedgerKept
  <2>14. ASSUME NEW u \in Thread, u = t PROVE Ledger(u)'
    <3>1. Nodes(u)' = {}
      BY <2>1, <2>6, <2>9, <2>14 DEF Nodes
    <3>2. /\ held'[u] = ALLOCATION'[u] /\ ALLOCATION'[u] \in Vector
          /\ ~QuitDone(u)' /\ Sent(u)' = Zero /\ BeingHandled(u)' = Zero
      BY <2>1, <2>3, <2>5, <2>8, <2>11, <2>14
    <3>3. ALLOCATION'[u] = Add(Add(ALLOCATION'[u], Zero), Zero)
      BY <3>2, VectorOps, VectorSums
    <3> QED BY <3>1, <3>2, <3>3 DEF Ledger
  <2>15. LedgerAgrees'  BY <2>13, <2>14 DEF LedgerAgrees
  <2>16. WithinClaim'
    <3>1. Leq(Zero, AVAILABLE')  BY <2>1, <2>2, <2>3, <2>4, VectorBounds
    <3>2. Within(ALLOCATION'[t], t)  BY <2>2, <2>11 DEF LedgerInv
    <3> QED BY <2>12, <3>1, <3>2 DEF LedgerInv, WithinClaim
  <2> QED BY <2>1, <2>5, <2>15, <2>16 DEF LedgerInv
<1>21. CASE Signal
  <2> DEFINE n == Len(pending_requests)
             t == pending_requests[current].thread_id
             old(k) == IF k < current THEN k ELSE k + 1
  <2>1. /\ mpc = "signal" /\ mpc' = "scan" /\ upc' = Wake(t)
        /\ pending_requests' = RemoveAt(pending_requests, current)
        /\ UNCHANGED <<comms, lines, held, request, matrix, current>>
    BY <1>21 DEF Signal, Unlink
  <2>2. /\ current \in 1 .. n /\ pending_requests \in Seq(Node) /\ n \in Nat
        /\ DOMAIN pending_requests = 1 .. n
    BY <2>1 DEF TypeOK
  <2>3. /\ DOMAIN pending_requests' = 1 .. n - 1
        /\ \A k \in 1 .. n - 1 : pending_requests'[k] = pending_requests[old(k)]
    <3>1. pending_requests' \in Seq(Node) /\ Len(pending_requests') = n - 1
      BY <2>1, <2>2, Unlinked
    <3>2. \A k \in 1 .. n - 1 : RemoveAt(pending_requests, current)[k] =
             IF k < current THEN pending_requests[k] ELSE pending_requests[k + 1]
      BY <2>2, Unlinked
    <3> QED BY <2>1, <3>1, <3>2
  <2>4. \A k \in 1 .. n - 1 : old(k) \in 1 .. n /\ old(k) # current
    BY <2>2
  <2>5. \A k \in 1 .. n : k # current => \E j \in 1 .. n - 1 : old(j) = k
    <3> SUFFICES ASSUME NEW k \in 1 .. n, k # current
                 PROVE  \E j \in 1 .. n - 1 : old(j) = k
      OBVIOUS
    <3>1. CASE k < current
      <4>1. k \in 1 .. n - 1 /\ old(k) = k  BY <2>2, <3>1
      <4> QED BY <4>1
    <3>2. CASE ~(k < current)
      <4>1. k - 1 \in 1 .. n - 1 /\ old(k - 1) = k  BY <2>2, <3>2
      <4> QED BY <4>1
    <3> QED BY <3>1, <3>2
  <2> HIDE DEF old
  <2>6. \A u \in Thread : /\ ~AtMaster(u) /\ ~AtMaster(u)'
                          /\ BeingHandled(u) = Zero /\ BeingHandled(u)' = Zero
    BY <2>1 DEF AtMaster, BeingHandled
  <2>7. \A u \in Thread : \/ upc'[u] = upc[u]
                          \/ upc[u] = "waiting" /\ upc'[u] = "granted"
    BY <2>1 DEF Wake
  <2>8. \A u \in Thread : Sent(u)' = Sent(u) /\ (QuitDone(u)' <=> QuitDone(u))
    BY <2>1, <2>6, <2>7 DEF Sent, QuitDone, Quitting
  <2>9. \A u \in Thread : /\ \A k \in Nodes(u)' : old(k) \in Nodes(u)
                          /\ \A k \in Nodes(u) : \E j \in Nodes(u)' : old(j) = k
    <3> SUFFICES ASSUME NEW u \in Thread
                 PROVE  /\ \A k \in Nodes(u)' : old(k) \in Nodes(u)
                        /\ \A k \in Nodes(u) : \E j \in Nodes(u)' : old(j) = k
      OBVIOUS
    <3>1. Nodes(u) = {k \in 1 .. n : pending_requests[k].thread_id = u /\ k # current}
      BY <2>1, <2>2 DEF Nodes, Ungranted
    <3>2. Nodes(u)' = {k \in 1 .. n - 1 : pending_requests[old(k)].thread_id = u}
      <4>1. \A k : Ungranted(k)'  BY <2>1 DEF Ungranted
      <4> QED BY <2>3, <4>1 DEF Nodes
    <3> QED BY <2>4, <2>5, <3>1, <3>2
  <2>10. ASSUME NEW u \in Thread PROVE Ledger(u)'
    <3>1. Ledger(u)  BY DEF LedgerInv, LedgerAgrees
    <3>2. Nodes(u) = {} <=> Nodes(u)' = {}  BY <2>9
    <3>3. Nodes(u)' \subseteq 1 .. n - 1  BY <2>3 DEF Nodes
    <3>4. CASE QuitDone(u)  BY <2>1, <2>8, <3>1, <3>4 DEF Ledger
    <3>5. CASE ~QuitDone(u) /\ Nodes(u) = {}
      BY <2>1, <2>6, <2>8, <3>1, <3>2, <3>5 DEF Ledger
    <3>6. CASE ~QuitDone(u) /\ Nodes(u) # {}
      BY <2>1, <2>3, <2>8, <2>9, <3>1, <3>2, <3>3, <3>6 DEF Ledger
    <3> QED BY <3>4, <3>5, <3>6
  <2>11. LedgerAgrees'  BY <2>10 DEF LedgerAgrees
  <2>12. WithinClaim' /\ \A u \in Thread : Within(held'[u], u)
    BY <2>1 DEF LedgerInv, WithinClaim
  <2>13. \A k \in DOMAIN pending_requests' :
            Leq(Zero, pending_requests'[k].request)
    BY <2>2, <2>3, <2>4 DEF LedgerInv
  <2> QED BY <2>1, <2>6, <2>11, <2>12, <2>13 DEF LedgerInv
<1>22. CASE Master
  BY <1>10, <1>11, <1>19, <1>20, <1>21, <1>22 DEF Master
<1>23. ASSUME NEW t \in Thread, User(t) \/ Rendezvous(t) \/ SpuriousWakeup(t)
       PROVE  LedgerInv'
  BY <1>4, <1>5, <1>6, <1>7, <1>8, <1>9, <1>15, <1>16, <1>17, <1>23
  DEF User, Rendezvous
<1> QED BY <1>2, <1>3, <1>11, <1>22, <1>23 DEF Next

(* Both inductive invariants hold when waits only return when signalled. *)
LEMMA LedgerHolds ==
    ASSUME ~SpuriousWakeups
    PROVE  Spec => [](TypeOK /\ RequestHandedOver /\ QueueInv /\ LedgerInv)
<1>1. Init => QueueInv  BY DEF Init, QueueInv, QueuedThreadsBlocked
<1>2. Init => LedgerInv
  <2> SUFFICES ASSUME Init PROVE LedgerInv  OBVIOUS
  <2> USE InputAssumption DEF Init
  <2>1. Zero \in Vector /\ Zero = Add(Add(Zero, Zero), Zero)
    BY DEF Zero, Vector, Add
  <2>2. ASSUME NEW t \in Thread PROVE Ledger(t) /\ Within(Zero, t)
    <3>1. Within(Zero, t)  BY <2>1, VectorBounds
    <3>2. Nodes(t) = {} /\ Sent(t) = Zero /\ BeingHandled(t) = Zero /\ ~QuitDone(t)
      BY DEF Nodes, Sent, BeingHandled, AtMaster, QuitDone, Quitting
    <3> QED BY <2>1, <3>1, <3>2 DEF Ledger
  <2>3. Leq(Zero, AVAILABLE)  BY DEF Leq, Zero
  <2> QED BY <2>2, <2>3 DEF LedgerInv, LedgerAgrees, WithinClaim, AtMaster
<1>3. TypeOK /\ RequestHandedOver /\ QueueInv /\ [Next]_vars => QueueInv'
  BY StepQueue
<1>4. TypeOK /\ TypeOK' /\ RequestHandedOver /\ QueueInv /\ LedgerInv
      /\ [Next]_vars => LedgerInv'
  BY StepLedger
<1> QED BY <1>1, <1>2, <1>3, <1>4, TypeCorrect, HandOverCorrect, PTL DEF Spec

(***************************************************************************)
(* If condition waits only return when signalled, the master's matrices    *)
(* agree with what the scripts have asked for, and no thread ever holds    *)
(* more than it declared or less than nothing.                             *)
(***************************************************************************)
THEOREM LedgerCorrect ==
    ASSUME ~SpuriousWakeups  PROVE Spec => [](LedgerAgrees /\ WithinClaim)
<1>1. LedgerInv => LedgerAgrees /\ WithinClaim  BY DEF LedgerInv
<1> QED BY <1>1, LedgerHolds, PTL

-----------------------------------------------------------------------------
(* No wakeup is lost when the sleep before the signal is long enough       *)

Queued(t) == \E k \in DOMAIN pending_requests : pending_requests[k].thread_id = t

(* A step that blocks nobody and takes nothing away from the master loses no
   wakeup. *)
LEMMA WaitUntouched ==
    ASSUME WaitersHaveRequests, pending_requests' = pending_requests,
           mpc = "handle" => mpc' = "handle" /\ request' = request,
           \A u \in Thread : Blocked(u)' => Blocked(u)
    PROVE  WaitersHaveRequests'
BY DEF WaitersHaveRequests, AtMaster

(* No step of the program leaves a waiting thread without its request. *)
LEMMA StepWait ==
    ASSUME TimelyWait, TypeOK, RequestHandedOver, WaitersHaveRequests, [Next]_vars
    PROVE  WaitersHaveRequests'
<1> USE DEF comms, users, matrix, queue
<1> DEFINE NoMore == \A u \in Thread : Blocked(u)' => Blocked(u)
<1>1. \A t \in Thread :
         Blocked(t) => \/ Queued(t)
                       \/ (AtMaster(t) /\ request.kind = "ADDITIONAL")
  BY DEF WaitersHaveRequests, Queued
<1>2. CASE UNCHANGED vars \/ BeginSession
  <2>1. NoMore  BY <1>2 DEF vars, BeginSession, Blocked
  <2> QED BY <1>2, <2>1, WaitUntouched DEF vars, BeginSession
<1>3. ASSUME NEW t \in Thread, ReadMaxNeeds(t) PROVE WaitersHaveRequests'
  <2>1. NoMore  BY <1>3 DEF ReadMaxNeeds, Blocked, TypeOK
  <2> QED BY <1>3, <2>1, WaitUntouched DEF ReadMaxNeeds
<1>4. ASSUME NEW t \in Thread, NEW kind, NEW q, Prepare(t, kind, q)
      PROVE  WaitersHaveRequests'
  <2>1. \A u \in Thread : upc[u] # "acked"
    BY <1>4 DEF Prepare, RmtxFree, RequestHandedOver, InTransit, Nobody, Thread
  <2>2. NoMore  BY <1>4, <2>1 DEF Prepare, Blocked, TypeOK
  <2> QED BY <1>4, <2>2, WaitUntouched DEF Prepare
<1>5. ASSUME NEW t \in Thread, SendRequest(t) \/ SendQuit(t)
      PROVE  WaitersHaveRequests'
  BY <1>4, <1>5 DEF SendRequest, SendQuit
<1>6. ASSUME NEW t \in Thread,
             \/ Announce(t) \/ PrintReleased(t) \/ PrintGranted(t)
             \/ PrintQuit(t)
      PROVE  WaitersHaveRequests'
  <2>1. NoMore
    BY <1>6 DEF Announce, PrintReleased, PrintGranted, PrintQuit, PrintLine,
                Blocked, TypeOK
  <2> QED BY <1>6, <2>1, WaitUntouched
          DEF Announce, PrintReleased, PrintGranted, PrintQuit, PrintLine
<1>7. ASSUME NEW t \in Thread, NEW p \in Thread \cup {TheMaster},
             RequestBarrier(t, p)
      PROVE  WaitersHaveRequests'
  <2>1. NoMore  BY <1>7 DEF RequestBarrier, Blocked
  <2>2. mpc = "handle" => mpc' = "handle"  BY <1>7 DEF RequestBarrier
  <2> QED BY <1>7, <2>1, <2>2, WaitUntouched DEF RequestBarrier
<1>8. ASSUME NEW t \in Thread, AckBarrier(t) PROVE WaitersHaveRequests'
  <2>1. /\ mpc = "ackb" /\ mpc' = "handle" /\ request = request_data
        /\ request.thread_id = t /\ upc' = [upc EXCEPT ![t] = "acked"]
        /\ UNCHANGED <<pending_requests, request, request_data>>
    BY <1>8 DEF AckBarrier, RequestHandedOver
  <2>2. \A u \in Thread : u # t /\ Blocked(u)' => Queued(u)
    BY <1>1, <2>1 DEF Blocked, AtMaster, TypeOK
  <2>3. Blocked(t)' => AtMaster(t)' /\ request.kind = "ADDITIONAL"
    BY <2>1 DEF Blocked, AtMaster, TypeOK
  <2> QED BY <2>1, <2>2, <2>3 DEF WaitersHaveRequests, Queued
<1>9. ASSUME NEW t \in Thread, Unlock(t) PROVE WaitersHaveRequests'
  <2>1. upc'[t] = "block" => request_data.kind = "ADDITIONAL"
    BY <1>9 DEF Unlock, TypeOK, Kinds
  <2>2. upc'[t] \in {"quitting", "released", "block"} /\ upc[t] = "acked"
    BY <1>9 DEF Unlock, TypeOK, Kinds
  <2>3. \A u \in Thread : u # t => upc'[u] = upc[u]  BY <1>9 DEF Unlock
  <2>4. NoMore  BY <1>9, <2>1, <2>2, <2>3 DEF Unlock, Blocked
  <2> QED BY <1>9, <2>4, WaitUntouched DEF Unlock
<1>10. ASSUME NEW t \in Thread, Wait(t) \/ SpuriousWakeup(t)
       PROVE  WaitersHaveRequests'
  <2>1. NoMore  BY <1>10 DEF Wait, SpuriousWakeup, Blocked, TypeOK
  <2> QED BY <1>10, <2>1, WaitUntouched DEF Wait, SpuriousWakeup
<1>11. CASE Extract \/ Skip \/ Grant \/ EndOfPass \/ Return
  <2>1. UNCHANGED <<pending_requests, upc, request_data>> /\ mpc # "handle"
    BY <1>11 DEF Extract, Skip, Grant, Scanning, EndOfPass, Return, vars
  <2> QED BY <2>1, WaitUntouched DEF Blocked
<1>12. CASE HandleRelease \/ HandleQuit
  <2>1. request.kind # "ADDITIONAL"
        /\ UNCHANGED <<pending_requests, upc, request_data>>
    BY <1>12 DEF HandleRelease, HandleQuit, Handle
  <2> QED BY <1>1, <2>1 DEF WaitersHaveRequests, Blocked, Queued
<1>13. CASE HandleAdditional
  <2> DEFINE node == [thread_id |-> request.thread_id,
                      request   |-> PositivePart(request.request)]
             n == Len(pending_requests)
  <2>1. UNCHANGED <<upc, request_data>>
        /\ pending_requests' = Append(pending_requests, node)
    BY <1>13 DEF HandleAdditional, Handle, enqueue_request
  <2>2. pending_requests \in Seq(Node) /\ node \in Node
    BY VectorOps DEF TypeOK, Node
  <2>3. /\ n \in Nat /\ DOMAIN pending_requests = 1 .. n
        /\ DOMAIN pending_requests' = 1 .. n + 1
        /\ \A k \in 1 .. n : pending_requests'[k] = pending_requests[k]
        /\ pending_requests'[n + 1] = node
    BY <2>1, <2>2, AppendProperties
  <2>4. ASSUME NEW u \in Thread, Blocked(u)'
        PROVE  \E k \in 1 .. n + 1 : pending_requests'[k].thread_id = u
    <3>1. Blocked(u)  BY <2>1, <2>4 DEF Blocked
    <3>2. CASE AtMaster(u)
      <4>1. pending_requests'[n + 1].thread_id = u  BY <2>3, <3>2 DEF AtMaster
      <4> QED BY <2>3, <4>1
    <3>3. CASE Queued(u)  BY <2>3, <3>3 DEF Queued
    <3> QED BY <1>1, <3>1, <3>2, <3>3
  <2> QED BY <2>3, <2>4 DEF WaitersHaveRequests
<1>14. CASE Signal
  <2> DEFINE n == Len(pending_requests)
             t == pending_requests[current].thread_id
  <2>1. /\ mpc = "signal" /\ upc[t] \notin {"acked", "block"} /\ upc' = Wake(t)
        /\ pending_requests' = RemoveAt(pending_requests, current)
        /\ request_data' = request_data
    BY <1>14 DEF Signal, Unlink
  <2>2. /\ current \in 1 .. n /\ pending_requests \in Seq(Node) /\ n \in Nat
        /\ DOMAIN pending_requests = 1 .. n
    BY <2>1 DEF TypeOK
  <2>3. pending_requests' \in Seq(Node) /\ Len(pending_requests') = n - 1
    BY <2>1, <2>2, Unlinked
  <2>4. \A k \in 1 .. n - 1 : pending_requests'[k] =
           IF k < current THEN pending_requests[k] ELSE pending_requests[k + 1]
    BY <2>1, <2>2, Unlinked
  <2>5. ASSUME NEW u \in Thread, Blocked(u)'
        PROVE  \E k \in 1 .. n - 1 : pending_requests'[k].thread_id = u
    <3>1. u # t
      BY <2>1, <2>5 DEF Blocked, Wake, TypeOK
    <3>2. Blocked(u)  BY <2>1, <2>5, <3>1 DEF Blocked, Wake, TypeOK
    <3>3. PICK k \in 1 .. n : pending_requests[k].thread_id = u
      BY <1>1, <2>1, <2>2, <3>2 DEF Queued, AtMaster
    <3>4. CASE k < current
      <4>1. k \in 1 .. n - 1 /\ pending_requests'[k] = pending_requests[k]
        BY <2>2, <2>4, <3>4
      <4> QED BY <3>3, <4>1
    <3>5. CASE ~(k < current)
      <4>1. k - 1 \in 1 .. n - 1 /\ ~(k - 1 < current) /\ (k - 1) + 1 = k
        BY <2>2, <3>1, <3>3, <3>5
      <4>2. pending_requests'[k - 1] = pending_requests[k]
        BY <2>4, <4>1
      <4> QED BY <3>3, <4>1, <4>2
    <3> QED BY <3>4, <3>5
  <2> QED BY <2>3, <2>5 DEF WaitersHaveRequests
<1>15. CASE Master
  BY <1>11, <1>12, <1>13, <1>14, <1>15 DEF Master
<1>16. ASSUME NEW t \in Thread, User(t) \/ Rendezvous(t) \/ SpuriousWakeup(t)
       PROVE  WaitersHaveRequests'
  BY <1>3, <1>5, <1>6, <1>7, <1>8, <1>9, <1>10, <1>16 DEF User, Rendezvous
<1> QED BY <1>2, <1>11, <1>15, <1>16 DEF Next

(***************************************************************************)
(* When the sleep before each signal suffices for the thread to reach its  *)
(* condition wait, no thread waits without a request that will wake it;    *)
(* even spurious wakeups do not break this.                                *)
(***************************************************************************)
THEOREM NoLostWakeup ==
    ASSUME TimelyWait  PROVE Spec => []WaitersHaveRequests
<1>1. Init => WaitersHaveRequests
  BY DEF Init, WaitersHaveRequests, Blocked
<1>2. TypeOK /\ RequestHandedOver /\ WaitersHaveRequests /\ [Next]_vars
        => WaitersHaveRequests'
  BY StepWait
<1> QED BY <1>1, <1>2, TypeCorrect, HandOverCorrect, PTL DEF Spec

-----------------------------------------------------------------------------
(* The safety check                                                        *)

(***************************************************************************)
(* BankerLoopProofs shows what the check, as a function of the matrices,   *)
(* decides.  Only those lemmas are used here: the variables of the loop do *)
(* not occur in them, so any values will do for it.                        *)
(***************************************************************************)
Check == INSTANCE BankerLoopProofs
            WITH MaxAmount <- 0, given <- S, thread_id <- 0, work <- Zero,
                 finish <- {}, i <- 0, found <- FALSE, pc <- "done", safe <- TRUE

(* Both modules take their vectors and their check from Banker. *)
LEMMA Notions ==
    /\ Check!Thread = Thread /\ Check!Resource = Resource
    /\ Check!Vector = Vector /\ Check!Zero = Zero
    /\ \A u, v : /\ Check!Leq(u, v) <=> Leq(u, v)
                 /\ Check!Add(u, v) = Add(u, v) /\ Check!Sub(u, v) = Sub(u, v)
    /\ \A X, t, q : Check!AfterGrant(X, t, q) = AfterGrant(X, t, q)
    /\ \A X, F : Check!WorkAfter(X, F) = WorkAfter(X, F)
    /\ \A X : Check!SafeInSomeOrder(X) <=> SafeInSomeOrder(X)
    /\ \A X : Check!Finishable(X) = Finishable(X)
    /\ \A f : Check!SumFunction(f) = SumFunction(f)
<1> USE DEF Check!Thread, Thread, Check!Resource, Resource
<1>1. Check!Vector = Vector /\ Check!Zero = Zero
  BY DEF Check!Vector, Vector, Check!Zero, Zero
<1>2. ASSUME NEW u, NEW v
      PROVE  /\ Check!Leq(u, v) <=> Leq(u, v)
             /\ Check!Add(u, v) = Add(u, v) /\ Check!Sub(u, v) = Sub(u, v)
  BY DEF Check!Leq, Leq, Check!Add, Add, Check!Sub, Sub
<1>3. \A X, t, q : Check!AfterGrant(X, t, q) = AfterGrant(X, t, q)
  BY <1>2 DEF Check!AfterGrant, AfterGrant
<1>4. \A X, F : Check!WorkAfter(X, F) = WorkAfter(X, F)
  BY DEF Check!WorkAfter, WorkAfter
<1>5. \A X : Check!SafeInSomeOrder(X) <=> SafeInSomeOrder(X)
  BY DEF Check!SafeInSomeOrder, SafeInSomeOrder, Check!WorkAfter, WorkAfter,
         Check!Leq, Leq
<1>6. \A X : Check!Finishable(X) = Finishable(X)
  BY DEF Check!Finishable, Finishable, Check!Visit, Visit, Check!Leq, Leq,
         Check!Add, Add
<1>7. \A f : Check!SumFunction(f) = SumFunction(f)
  BY DEF Check!SumFunction, SumFunction, Check!SumFunctionOnSet, SumFunctionOnSet,
         Check!FoldFunctionOnSet, FoldFunctionOnSet, Check!MapThenFoldSet, MapThenFoldSet
<1> QED BY <1>1, <1>2, <1>3, <1>4, <1>5, <1>6, <1>7

(* The check says yes when only all the threads together would be stuck. *)
LEMMA SafeIs ==
    ASSUME NEW X \in Check!States, Check!Nonnegative(X), NEW t \in Thread,
           NEW q \in Vector, Leq(Zero, q)
    PROVE  /\ AfterGrant(X, t, q) \in Check!States
           /\ Check!Nonnegative(AfterGrant(X, t, q))
           /\ is_safe_state(X, t, q) <=> Check!NoneStuck(AfterGrant(X, t, q))
<1> DEFINE Y == AfterGrant(X, t, q)
<1>1. /\ Y \in Check!States
      /\ Y.ALLOCATION = [X.ALLOCATION EXCEPT ![t] = Add(@, q)]
  <2>1. Check!AfterGrant(X, t, q) \in Check!States
    BY Notions, Check!GrantTyped, SizeAssumption
  <2>2. Y \in Check!States
    BY <2>1, Notions
  <2> QED BY <2>2 DEF AfterGrant
<1>2. X.ALLOCATION \in [Thread -> Vector]
  BY Notions DEF Check!States
<1>3. \A j \in Thread : Leq(Zero, X.ALLOCATION[j])
  BY Notions DEF Check!Nonnegative
<1> HIDE DEF Y
<1>4. ASSUME NEW j \in Thread PROVE Leq(Zero, Y.ALLOCATION[j])
  <2>1. CASE j = t
    <3>1. Leq(Zero, Add(X.ALLOCATION[t], q))
      BY <1>2, <1>3, VectorBounds
    <3> QED BY <1>1, <1>2, <2>1, <3>1
  <2>2. CASE j # t
    <3>1. Y.ALLOCATION[j] = X.ALLOCATION[j]
      BY <1>1, <1>2, <2>2
    <3> QED BY <1>3, <3>1
  <2> QED BY <2>1, <2>2
<1>5. Check!Nonnegative(Y)
  BY <1>4, Notions DEF Check!Nonnegative
<1>6. Check!Finishable(Y) = Check!Thread <=> Check!NoneStuck(Y)
  BY <1>1, <1>5, Check!GreedyIsSafe, SizeAssumption
<1> QED BY <1>1, <1>5, <1>6, Notions DEF Y, is_safe_state

(* What CanGrant says of a node, as a function of the matrices. *)
Grantable(X, t, q) == Leq(q, X.AVAILABLE) /\ (DLAVOID => is_safe_state(X, t, q))

(***************************************************************************)
(* A grant makes no other grant possible: there is less to give, and who   *)
(* was stuck stays so.                                                     *)
(***************************************************************************)
LEMMA GrantHelpsNobody ==
    ASSUME NEW X \in Check!States, Check!Nonnegative(X),
           NEW t \in Thread, NEW q \in Vector, Leq(Zero, q),
           NEW u \in Thread, NEW p \in Vector, Leq(Zero, p),
           Grantable(AfterGrant(X, t, q), u, p)
    PROVE  Grantable(X, u, p)
<1> DEFINE Y == AfterGrant(X, t, q)
           Z == AfterGrant(X, u, p)
<1>1. /\ Y \in Check!States /\ Check!Nonnegative(Y)
      /\ Z \in Check!States /\ Check!Nonnegative(Z)
  BY SafeIs
<1>2. AfterGrant(Y, u, p) = AfterGrant(Z, t, q)
  BY Notions, Check!GrantsCommute, SizeAssumption
<1>3. Leq(p, X.AVAILABLE)
  <2>1. Leq(p, Y.AVAILABLE)
    BY DEF Grantable
  <2>2. Y.AVAILABLE = Sub(X.AVAILABLE, q)
    BY DEF AfterGrant
  <2>3. X.AVAILABLE \in Vector
    BY Notions DEF Check!States
  <2> HIDE DEF Y
  <2> QED BY <2>1, <2>2, <2>3 DEF Leq, Sub, Zero, Vector
<1>4. ASSUME DLAVOID PROVE is_safe_state(X, u, p)
  <2>1. is_safe_state(Y, u, p)
    BY <1>4 DEF Grantable
  <2> HIDE DEF Y, Z
  <2>2. Check!NoneStuck(AfterGrant(Z, t, q))
    BY <1>1, <1>2, <2>1, SafeIs
  <2>3. ASSUME NEW F \in SUBSET Thread, Check!Stuck(Z, F) PROVE F = Thread
    <3>1. Check!Stuck(Check!AfterGrant(Z, t, q), F)
      BY <1>1, <2>3, Notions, Check!GrantKeepsStuck, SizeAssumption
    <3> QED BY <2>2, <3>1, Notions DEF Check!NoneStuck
  <2>4. Check!NoneStuck(Z)
    BY <2>3, Notions DEF Check!NoneStuck
  <2> QED BY <2>4, SafeIs DEF Z
<1> QED BY <1>3, <1>4 DEF Grantable

(***************************************************************************)
(* Inductive form of NothingGrantableLeft: within a pass, no node that has *)
(* been passed can be granted.  Before the session begins, when NEED is    *)
(* still being written, the queue is empty.                                *)
(***************************************************************************)
Judged ==
    /\ mpc = "bos" => pending_requests = <<>>
    /\ \A t \in Thread : upc[t] \in {"born", "bos"} => mpc = "bos"
    /\ mpc \in {"scan", "signal"} =>
          \A k \in DOMAIN pending_requests :
              k < current => ~CanGrant(pending_requests[k])
    /\ NothingGrantableLeft

(* The matrices the check is asked about. *)
LEMMA MatricesTyped ==
    ASSUME TypeOK
    PROVE  /\ S \in Check!States
           /\ WithinClaim => Check!Nonnegative(S)
BY Notions DEF TypeOK, S, Check!States, WithinClaim, Within, Check!Nonnegative

(* What a step that leaves the matrices and the queue alone must respect. *)
LEMMA JudgedUntouched ==
    ASSUME Judged, UNCHANGED <<matrix, queue>>,
           \/ mpc' = mpc
           \/ mpc # "bos" /\ mpc' \notin {"bos", "scan", "signal", "reqb"},
           \A t \in Thread : upc'[t] \in {"born", "bos"} => upc[t] \in {"born", "bos"}
    PROVE  Judged'
<1>1. \A k : CanGrant(pending_requests[k])' <=> CanGrant(pending_requests[k])
  BY DEF CanGrant, S, matrix, queue
<1> QED BY <1>1 DEF Judged, NothingGrantableLeft, matrix, queue

(* Every step of the program keeps what the pass has judged. *)
LEMMA StepJudged ==
    ASSUME TypeOK, TypeOK', LedgerInv, Judged, [Next]_vars
    PROVE  Judged'
<1> DEFINE Early(t) == upc[t] \in {"born", "bos"}
           Later == \A t \in Thread : Early(t)' => Early(t)
<1> USE DEF comms, users
<1>1. CASE UNCHANGED vars
  <2>1. UNCHANGED <<matrix, queue>> /\ mpc' = mpc /\ upc' = upc  BY <1>1 DEF vars
  <2> QED BY <2>1, JudgedUntouched
<1>2. CASE BeginSession
  BY <1>2 DEF BeginSession, Judged, NothingGrantableLeft, queue
<1>3. ASSUME NEW t \in Thread, ReadMaxNeeds(t) PROVE Judged'
  <2>1. mpc = "bos" /\ mpc' = mpc /\ pending_requests' = pending_requests
    BY <1>3 DEF ReadMaxNeeds, Judged, queue
  <2> QED BY <2>1 DEF Judged, NothingGrantableLeft
<1>4. ASSUME NEW t \in Thread, NEW kind, NEW q, Prepare(t, kind, q)
      PROVE  Judged'
  <2>1. Later  BY <1>4 DEF Prepare, TypeOK
  <2> QED BY <1>4, <2>1, JudgedUntouched DEF Prepare
<1>5. ASSUME NEW t \in Thread, SendRequest(t) \/ SendQuit(t) PROVE Judged'
  BY <1>4, <1>5 DEF SendRequest, SendQuit
<1>6. ASSUME NEW t \in Thread,
             \/ Announce(t) \/ PrintReleased(t) \/ PrintGranted(t)
             \/ PrintQuit(t)
      PROVE  Judged'
  <2>1. Later /\ mpc' = mpc /\ UNCHANGED <<matrix, queue>>
    BY <1>6 DEF Announce, PrintReleased, PrintGranted, PrintQuit, PrintLine, TypeOK
  <2> QED BY <2>1, JudgedUntouched
<1>7. ASSUME NEW t \in Thread, NEW p \in Thread \cup {TheMaster},
             RequestBarrier(t, p)
      PROVE  Judged'
  <2>1. Later  BY <1>7 DEF RequestBarrier
  <2>2. mpc' = mpc \/ (mpc = "reqb" /\ mpc' = "extract")
    BY <1>7 DEF RequestBarrier
  <2> QED BY <1>7, <2>1, <2>2, JudgedUntouched DEF RequestBarrier
<1>8. ASSUME NEW t \in Thread, AckBarrier(t) PROVE Judged'
  <2>1. Later  BY <1>8 DEF AckBarrier, TypeOK
  <2> QED BY <1>8, <2>1, JudgedUntouched DEF AckBarrier
<1>9. ASSUME NEW t \in Thread, Unlock(t) PROVE Judged'
  <2>1. upc'[t] \in {"quitting", "released", "block"}
    BY <1>9 DEF Unlock, TypeOK, Kinds
  <2>2. \A u \in Thread : u # t => upc'[u] = upc[u]  BY <1>9 DEF Unlock
  <2> QED BY <1>9, <2>1, <2>2, JudgedUntouched DEF Unlock
<1>10. ASSUME NEW t \in Thread, Wait(t) \/ SpuriousWakeup(t) PROVE Judged'
  <2>1. Later  BY <1>10 DEF Wait, SpuriousWakeup, TypeOK
  <2> QED BY <1>10, <2>1, JudgedUntouched DEF Wait, SpuriousWakeup
<1>11. CASE Extract
  BY <1>11, JudgedUntouched DEF Extract
<1>12. ASSUME NEW kind, Handle(kind) PROVE Judged'
  <2>1. /\ mpc = "handle" /\ mpc' = "scan" /\ current' = 1 /\ upc' = upc
        /\ \A k \in DOMAIN pending_requests' : k >= 1
    BY <1>12 DEF Handle, TypeOK
  <2>2. \A k \in DOMAIN pending_requests' : ~(k < current')
    BY <2>1 DEF TypeOK
  <2> QED BY <2>1, <2>2 DEF Judged, NothingGrantableLeft
<1>13. CASE HandleRelease \/ HandleQuit \/ HandleAdditional
  BY <1>12, <1>13 DEF HandleRelease, HandleQuit, HandleAdditional
<1>14. CASE Skip
  <2>1. /\ mpc = "scan" /\ mpc' = "scan" /\ current' = current + 1 /\ upc' = upc
        /\ pending_requests' = pending_requests
        /\ ~CanGrant(pending_requests[current])
    BY <1>14 DEF Skip, Scanning
  <2>2. \A k : CanGrant(pending_requests[k])' <=> CanGrant(pending_requests[k])
    BY <1>14 DEF Skip, CanGrant, S, matrix
  <2>3. \A k \in DOMAIN pending_requests : k < current + 1 => k < current \/ k = current
    BY DEF TypeOK
  <2> QED BY <2>1, <2>2, <2>3 DEF Judged, NothingGrantableLeft
<1>15. CASE Grant
  <2> DEFINE node == pending_requests[current]
             t == node.thread_id
             q == node.request
  <2>1. /\ mpc = "scan" /\ mpc' = "signal" /\ upc' = upc /\ UNCHANGED queue
        /\ S' = AfterGrant(S, t, q)
        /\ current \in DOMAIN pending_requests
    <3>1. current \in DOMAIN pending_requests
      BY <1>15 DEF Grant, Scanning, PassDone, TypeOK
    <3>2. S' = AfterGrant(S, t, q)
      BY <1>15 DEF Grant, S, AfterGrant
    <3> QED BY <1>15, <3>1, <3>2 DEF Grant, Scanning
  <2>2. \A k \in DOMAIN pending_requests :
            /\ pending_requests[k].thread_id \in Thread
            /\ pending_requests[k].request \in Vector
            /\ Leq(Zero, pending_requests[k].request)
    <3>1. \A k \in DOMAIN pending_requests : pending_requests[k] \in Node
      BY ElementOfSeq DEF TypeOK
    <3> QED BY <3>1 DEF Node, LedgerInv
  <2>3. S \in Check!States /\ Check!Nonnegative(S)
    BY MatricesTyped DEF LedgerInv
  <2>4. \A k \in DOMAIN pending_requests :
            /\ CanGrant(pending_requests[k]) <=>
                  Grantable(S, pending_requests[k].thread_id, pending_requests[k].request)
            /\ CanGrant(pending_requests[k])' <=>
                  Grantable(S', pending_requests[k].thread_id, pending_requests[k].request)
    <3>1. AVAILABLE = S.AVAILABLE /\ AVAILABLE' = S'.AVAILABLE  BY DEF S
    <3> QED BY <2>1, <3>1 DEF CanGrant, Grantable, queue
  <2> HIDE DEF node, t, q
  <2>5. t \in Thread /\ q \in Vector /\ Leq(Zero, q)  BY <2>1, <2>2 DEF node, t, q
  <2>6. \A k \in DOMAIN pending_requests :
            CanGrant(pending_requests[k])' => CanGrant(pending_requests[k])
    BY <2>1, <2>2, <2>3, <2>4, <2>5, GrantHelpsNobody
  <2> QED BY <2>1, <2>6 DEF Judged, NothingGrantableLeft, queue
<1>16. CASE Signal
  <2>1. /\ mpc = "signal" /\ mpc' = "scan" /\ current' = current
        /\ pending_requests' = RemoveAt(pending_requests, current)
        /\ UNCHANGED matrix
    BY <1>16 DEF Signal, Unlink
  <2>2. \A u \in Thread : upc'[u] \in {upc[u], "granted"}
    BY <1>16 DEF Signal, Wake, TypeOK
  <2>3. current \in 1 .. Len(pending_requests) /\ pending_requests \in Seq(Node)
    BY <2>1 DEF TypeOK
  <2>4. \A k \in DOMAIN pending_requests' :
            k < current => /\ k \in DOMAIN pending_requests
                           /\ pending_requests'[k] = pending_requests[k]
    <3>1. /\ RemoveAt(pending_requests, current) \in Seq(Node)
          /\ Len(RemoveAt(pending_requests, current)) = Len(pending_requests) - 1
      BY <2>3, Unlinked
    <3>2. \A j \in 1 .. Len(pending_requests) - 1 :
             RemoveAt(pending_requests, current)[j] =
                IF j < current THEN pending_requests[j] ELSE pending_requests[j + 1]
      BY <2>3, Unlinked
    <3>3. Len(pending_requests) \in Nat  BY <2>3
    <3> QED BY <2>1, <2>3, <3>1, <3>2, <3>3
  <2>5. \A k \in DOMAIN pending_requests' : k < current =>
            (CanGrant(pending_requests[k])' <=> CanGrant(pending_requests[k]))
    BY <2>1, <2>4 DEF CanGrant, S, matrix
  <2> QED BY <2>1, <2>2, <2>4, <2>5 DEF Judged, NothingGrantableLeft
<1>17. CASE EndOfPass
  <2>1. /\ mpc = "scan" /\ mpc' \in {"join", "reqb"} /\ upc' = upc
        /\ pending_requests' = pending_requests /\ UNCHANGED matrix
        /\ current > Len(pending_requests)
    BY <1>17 DEF EndOfPass, PassDone
  <2>2. \A k : CanGrant(pending_requests[k])' <=> CanGrant(pending_requests[k])
    BY <2>1 DEF CanGrant, S, matrix
  <2>3. \A k \in DOMAIN pending_requests : k < current
    BY <2>1 DEF TypeOK
  <2> QED BY <2>1, <2>2, <2>3 DEF Judged, NothingGrantableLeft
<1>18. CASE Return
  BY <1>18, JudgedUntouched DEF Return
<1>19. CASE Master
  BY <1>11, <1>13, <1>14, <1>15, <1>16, <1>17, <1>18, <1>19 DEF Master
<1>20. ASSUME NEW t \in Thread, User(t) \/ Rendezvous(t) \/ SpuriousWakeup(t)
       PROVE  Judged'
  BY <1>3, <1>5, <1>6, <1>7, <1>8, <1>9, <1>10, <1>20 DEF User, Rendezvous
<1> QED BY <1>1, <1>2, <1>19, <1>20 DEF Next

(* Hence the pass never leaves behind what it could grant. *)
LEMMA JudgedHolds == ASSUME ~SpuriousWakeups  PROVE Spec => []Judged
<1>1. Init => Judged
  BY DEF Init, Judged, NothingGrantableLeft
<1>2. TypeOK /\ TypeOK' /\ LedgerInv /\ Judged /\ [Next]_vars => Judged'
  BY StepJudged
<1> QED BY <1>1, <1>2, LedgerHolds, PTL DEF Spec

(***************************************************************************)
(* If condition waits only return when signalled, one pass over the queue  *)
(* is enough: whatever the requests, the switches and the order of events, *)
(* the master leaves nothing pending that it could grant.                  *)
(***************************************************************************)
THEOREM PassCorrect ==
    ASSUME ~SpuriousWakeups  PROVE Spec => []NothingGrantableLeft
<1>1. Judged => NothingGrantableLeft  BY DEF Judged
<1> QED BY <1>1, JudgedHolds, PTL

-----------------------------------------------------------------------------
(* Nothing is created or lost                                              *)

(* An amount q (negative when it comes back) goes from what is free to t. *)
Moves(t, q) ==
    /\ AVAILABLE' = Sub(AVAILABLE, q)
    /\ ALLOCATION' = [ALLOCATION EXCEPT ![t] = Add(@, q)]

(* No step does anything else to what is free and what the threads hold. *)
LEMMA StepMoves ==
    ASSUME TypeOK, [Next]_vars
    PROVE  \/ UNCHANGED <<AVAILABLE, ALLOCATION>>
           \/ \E t \in Thread, q \in Vector : Moves(t, q)
<1> DEFINE Kept == UNCHANGED <<AVAILABLE, ALLOCATION>>
           Moved == \E t \in Thread, q \in Vector : Moves(t, q)
<1> USE DEF matrix
<1>1. CASE UNCHANGED vars \/ BeginSession
  BY <1>1 DEF vars, BeginSession
<1>2. ASSUME NEW t \in Thread, User(t) PROVE Kept
  BY <1>2 DEF User, ReadMaxNeeds, SendRequest, SendQuit, Prepare, Announce,
              PrintReleased, PrintGranted, PrintQuit, PrintLine, Unlock, Wait
<1>3. ASSUME NEW t \in Thread, Rendezvous(t) \/ SpuriousWakeup(t) PROVE Kept
  BY <1>3 DEF Rendezvous, RequestBarrier, AckBarrier, SpuriousWakeup
<1>4. CASE Extract \/ Skip \/ Signal \/ EndOfPass \/ Return
  BY <1>4 DEF Extract, Skip, Signal, EndOfPass, Return
<1>5. request.thread_id \in Thread /\ request.request \in Vector  BY DEF TypeOK
<1>6. CASE HandleRelease
  <2>1. Moves(request.thread_id, request.request)
    BY <1>6 DEF HandleRelease, GiveBack, Moves
  <2> QED BY <1>5, <2>1
<1>7. CASE HandleAdditional
  <2>1. Moves(request.thread_id, NegativePart(request.request))
    BY <1>7 DEF HandleAdditional, GiveBack, Moves
  <2> QED BY <1>5, <2>1, VectorOps
<1>8. CASE HandleQuit
  <2> DEFINE t == request.thread_id
             q == Sub(Zero, ALLOCATION[t])
  <2>1. t \in Thread /\ ALLOCATION[t] \in Vector /\ AVAILABLE \in Vector
        /\ ALLOCATION \in [Thread -> Vector]
    BY <1>5 DEF TypeOK
  <2>2. /\ q \in Vector /\ Sub(AVAILABLE, q) = Add(AVAILABLE, ALLOCATION[t])
        /\ Add(ALLOCATION[t], q) = Zero
    BY <2>1 DEF Vector, Sub, Add, Zero
  <2>3. Moves(t, q)
    BY <1>8, <2>1, <2>2 DEF HandleQuit, Cleared, Moves
  <2> QED BY <2>1, <2>2, <2>3
<1>9. CASE Grant
  <2> DEFINE node == pending_requests[current]
  <2>1. node \in Node
    BY <1>9, ElementOfSeq DEF Grant, Scanning, PassDone, TypeOK
  <2>2. Moves(node.thread_id, node.request)
    BY <1>9 DEF Grant, AfterGrant, S, Moves
  <2> QED BY <2>1, <2>2 DEF Node
<1>10. CASE Master
  BY <1>4, <1>6, <1>7, <1>8, <1>9, <1>10 DEF Master
<1> QED BY <1>1, <1>2, <1>3, <1>10 DEF Next

(* WorkMoves of BankerLoopProofs, for the work of all threads. *)
LEMMA WorkDiffers ==
    ASSUME NEW X \in Check!States, NEW Y \in Check!States, NEW t \in Thread,
           NEW r \in Resource, Check!SameBut(t, X, Thread, Y, Thread)
    PROVE  Check!WorkAfter(Y, Thread)[r] =
              Check!WorkAfter(X, Thread)[r] + (Y.AVAILABLE[r] - X.AVAILABLE[r])
              + (Y.ALLOCATION[t][r] - X.ALLOCATION[t][r])
<1>1. t \in Check!Thread /\ r \in Check!Resource  BY Notions
<1> QED BY <1>1, Notions, Check!WorkMoves, SizeAssumption

(* An amount that moves between a thread and what is free stays in the work. *)
LEMMA MoveKeepsWork ==
    ASSUME NEW X \in Check!States, NEW Y \in Check!States, NEW t \in Thread,
           NEW q \in Vector, Y.AVAILABLE = Sub(X.AVAILABLE, q),
           Y.ALLOCATION = [X.ALLOCATION EXCEPT ![t] = Add(@, q)],
           NEW r \in Resource
    PROVE  WorkAfter(Y, Thread)[r] = WorkAfter(X, Thread)[r]
<1>1. /\ X.AVAILABLE \in Vector /\ X.ALLOCATION \in [Thread -> Vector]
  BY Notions DEF Check!States
<1>2. Check!SameBut(t, X, Thread, Y, Thread)
  BY <1>1, Notions DEF Check!SameBut
<1>3. Check!WorkAfter(Y, Thread)[r] =
         Check!WorkAfter(X, Thread)[r] + (Y.AVAILABLE[r] - X.AVAILABLE[r])
         + (Y.ALLOCATION[t][r] - X.ALLOCATION[t][r])
  <2>1. X \in Check!States /\ Y \in Check!States /\ t \in Thread /\ r \in Resource
    OBVIOUS
  <2> QED BY ONLY <1>2, <2>1, WorkDiffers
<1>4. /\ Y.AVAILABLE[r] = X.AVAILABLE[r] - q[r]
      /\ Y.ALLOCATION[t][r] = X.ALLOCATION[t][r] + q[r]
  BY <1>1 DEF Sub, Add
<1>5. /\ X.AVAILABLE[r] \in Int /\ X.ALLOCATION[t][r] \in Int /\ q[r] \in Int
  BY <1>1 DEF Vector
<1>6. WorkAfter(X, Thread)[r] \in Int
  BY Notions, Check!WorkTyped, SizeAssumption DEF Vector
<1>7. /\ WorkAfter(X, Thread)[r] = Check!WorkAfter(X, Thread)[r]
      /\ WorkAfter(Y, Thread)[r] = Check!WorkAfter(Y, Thread)[r]
  BY Notions
<1> QED BY ONLY <1>3, <1>4, <1>5, <1>6, <1>7

(* When all have finished, the work is the total of the system. *)
TotalKept == \A r \in Resource : WorkAfter(S, Thread)[r] = Total[r]

LEMMA InitTotal == Init => TotalKept
<1> SUFFICES ASSUME Init, NEW r \in Resource
             PROVE  WorkAfter(S, Thread)[r] = Total[r]
  BY DEF TotalKept
<1>1. S \in Check!States  BY InitTypes, MatricesTyped
<1>2. \A j \in Thread : S.ALLOCATION[j] = Zero  BY DEF Init, S
<1>3. Check!WorkAfter(S, Thread) = Check!WorkAfter(S, {})
  BY <1>1, <1>2, Notions, Check!WorkOfHolders, SizeAssumption
<1>4. Check!WorkAfter(S, {}) = S.AVAILABLE
  BY <1>1, Check!WorkNone, SizeAssumption
<1>5. S.AVAILABLE = Total  BY DEF Init, S
<1> QED BY <1>3, <1>4, <1>5, Notions

(* No step changes the total. *)
LEMMA TotalHolds == Spec => []TotalKept
<1>1. TypeOK /\ TypeOK' /\ TotalKept /\ [Next]_vars => TotalKept'
  <2> SUFFICES ASSUME TypeOK, TypeOK', TotalKept, [Next]_vars,
                      NEW r \in Resource
               PROVE  WorkAfter(S', Thread)[r] = Total[r]
    BY DEF TotalKept
  <2> DEFINE Y == S'
  <2>1. S \in Check!States /\ Y \in Check!States
    <3>1. Y \in Check!States  BY Notions DEF TypeOK, S, Check!States
    <3> QED BY <3>1, MatricesTyped
  <2>2. /\ S.AVAILABLE = AVAILABLE /\ S.ALLOCATION = ALLOCATION
        /\ Y.AVAILABLE = AVAILABLE' /\ Y.ALLOCATION = ALLOCATION'
    BY DEF S
  <2>3. WorkAfter(S, Thread)[r] = Total[r]  BY DEF TotalKept
  <2> HIDE DEF Y
  <2>4. CASE UNCHANGED <<AVAILABLE, ALLOCATION>>
    <3>1. Check!WorkAfter(S, Thread) = Check!WorkAfter(Y, Thread)
      BY <2>1, <2>2, <2>4, Check!WorkOfHolders, SizeAssumption
    <3> QED BY <2>3, <3>1, Notions DEF Y
  <2>5. ASSUME NEW t \in Thread, NEW q \in Vector, Moves(t, q)
        PROVE  WorkAfter(Y, Thread)[r] = Total[r]
    <3>1. /\ Y.AVAILABLE = Sub(S.AVAILABLE, q)
          /\ Y.ALLOCATION = [S.ALLOCATION EXCEPT ![t] = Add(@, q)]
      BY <2>2, <2>5 DEF Moves
    <3>2. WorkAfter(Y, Thread)[r] = WorkAfter(S, Thread)[r]
      BY <2>1, <3>1, MoveKeepsWork
    <3> QED BY <2>3, <3>2
  <2> QED BY <2>4, <2>5, StepMoves DEF Y
<1> QED BY <1>1, InitTotal, TypeCorrect, PTL DEF Spec

(***************************************************************************)
(* What is free and what the threads hold always adds up to the total of   *)
(* the system, with nothing assumed about wakeups, the time a signal takes *)
(* or what the scripts ask for.                                            *)
(***************************************************************************)
THEOREM ConservationCorrect == Spec => []Conservation
<1>1. TypeOK /\ TotalKept => Conservation
  <2> SUFFICES ASSUME TypeOK, TotalKept, NEW r \in Resource
               PROVE  AVAILABLE[r] + SumFunction([t \in Thread |-> ALLOCATION[t][r]])
                         = Total[r]
    BY DEF Conservation
  <2>1. S \in Check!States  BY MatricesTyped
  <2>2. S.AVAILABLE[r] + Check!SumFunction([t \in Thread |-> S.ALLOCATION[t][r]])
           = Check!WorkAfter(S, Thread)[r]
    BY <2>1, Notions, Check!SumIsWork, SizeAssumption
  <2> QED BY <2>2, Notions DEF TotalKept, S
<1> QED BY <1>1, TotalHolds, TypeCorrect, PTL

-----------------------------------------------------------------------------
(* Safe states                                                             *)

(* The matrices with the needs the threads really declared. *)
Declared == [S EXCEPT !.NEED = [t \in Thread |-> Sub(MaxNeed[t], ALLOCATION[t])]]

(* NEED says what t may still ask for, until t has quit. *)
NeedKnown(t) ==
    \/ upc[t] = "born"
    \/ QuitDone(t)
    \/ NEED[t] = Sub(MaxNeed[t], ALLOCATION[t])

(***************************************************************************)
(* Inductive form of SafeStateKept, where nothing is released before a     *)
(* thread quits and the first column is the only one.  Only then NEED is   *)
(* what was declared less what is held: releases do not raise it again,    *)
(* and every column is read from the first.                                *)
(***************************************************************************)
SafeInv ==
    /\ mpc = "bos" => \A t \in Thread : ALLOCATION[t] = Zero
    /\ \A t \in Thread : NeedKnown(t)
    /\ Leq(Zero, request_data.request) /\ Leq(Zero, request.request)
    /\ DLAVOID => Check!NoneStuck(Declared)

(* Requests ask for nothing negative when no script releases. *)
LEMMA StepAsks ==
    ASSUME ~Releases, TypeOK, SafeInv, [Next]_vars
    PROVE  (Leq(Zero, request_data.request) /\ Leq(Zero, request.request))'
<1> USE DEF SafeInv, comms, users
<1>1. ASSUME NEW t \in Thread, SendRequest(t) PROVE Leq(Zero, request_data'.request)
  <2>1. PICK q \in ScriptLines(t) : Prepare(t, get_request_type(q), q)
    BY <1>1 DEF SendRequest
  <2>2. Leq(Zero, q)  BY DEF ScriptLines, Leq, Zero
  <2> QED BY <2>1, <2>2 DEF Prepare
<1>2. ASSUME NEW t \in Thread, SendQuit(t) PROVE Leq(Zero, request_data'.request)
  BY <1>2 DEF SendQuit, Prepare
<1>3. ASSUME NEW t \in Thread, SendRequest(t) \/ SendQuit(t) PROVE request' = request
  BY <1>3 DEF SendRequest, SendQuit, Prepare
<1>4. CASE UNCHANGED vars \/ BeginSession
  BY <1>4 DEF vars, BeginSession
<1>5. ASSUME NEW t \in Thread, User(t) \/ Rendezvous(t) \/ SpuriousWakeup(t),
             ~SendRequest(t), ~SendQuit(t)
      PROVE  request' = request /\ request_data' = request_data
  BY <1>5 DEF User, Rendezvous, ReadMaxNeeds, Announce, PrintReleased, PrintGranted,
              PrintQuit, PrintLine, Unlock, Wait, RequestBarrier, AckBarrier,
              SpuriousWakeup
<1>6. CASE Master
  BY <1>6 DEF Master, Extract, HandleRelease, HandleQuit, HandleAdditional, Handle,
              Skip, Grant, Signal, EndOfPass, Return
<1> QED BY <1>1, <1>2, <1>3, <1>4, <1>5, <1>6 DEF Next

(* So no request gives anything back before its thread quits. *)
LEMMA NothingComesBack ==
    ASSUME TypeOK, LedgerInv, SafeInv, HandleRelease \/ HandleAdditional
    PROVE  UNCHANGED <<AVAILABLE, ALLOCATION, NEED>>
<1>1. ASSUME NEW v \in Vector, Leq(Zero, v)
      PROVE  NegativePart(v) = Zero /\ (Leq(v, Zero) => v = Zero)
  BY <1>1 DEF Vector, Leq, Zero, NegativePart
<1>2. request.request \in Vector /\ Leq(Zero, request.request)
      /\ request.thread_id \in Thread
  BY DEF TypeOK, SafeInv
<1>3. ASSUME GiveBack(request.thread_id, Zero)
      PROVE  UNCHANGED <<AVAILABLE, ALLOCATION>>
  <2>1. AVAILABLE \in Vector /\ ALLOCATION \in [Thread -> Vector]  BY DEF TypeOK
  <2>2. Sub(AVAILABLE, Zero) = AVAILABLE  BY <2>1 DEF Sub, Zero, Vector
  <2>3. Add(ALLOCATION[request.thread_id], Zero) = ALLOCATION[request.thread_id]
    BY <1>2, <2>1, VectorSums
  <2> QED BY <1>2, <1>3, <2>1, <2>2, <2>3 DEF GiveBack
<1>4. CASE HandleRelease
  <2>1. request.kind = "RELEASE"  BY <1>4 DEF HandleRelease, Handle
  <2>2. request.request = Zero  BY <1>1, <1>2, <2>1 DEF LedgerInv
  <2> QED BY <1>3, <1>4, <2>2 DEF HandleRelease, Handle
<1>5. CASE HandleAdditional
  <2>1. NegativePart(request.request) = Zero  BY <1>1, <1>2
  <2> QED BY <1>3, <1>5, <2>1 DEF HandleAdditional, Handle
<1> QED BY <1>4, <1>5

(* What a step that leaves the matrices alone must respect. *)
LEMMA NeedsUntouched ==
    ASSUME SafeInv, UNCHANGED <<ALLOCATION, NEED>>,
           \A t \in Thread : upc[t] = "born" => upc'[t] = "born",
           \A t \in Thread : Quitting(t) => Quitting(t)',
           \A t \in Thread : AtMaster(t)' => AtMaster(t) \/ ~Quitting(t)
    PROVE  \A t \in Thread : NeedKnown(t)'
BY DEF SafeInv, NeedKnown, QuitDone

(* NEED keeps saying what the threads may still ask for. *)
LEMMA StepNeeds ==
    ASSUME M = 1, TypeOK, RequestHandedOver, QueueInv, LedgerInv, Judged, SafeInv,
           [Next]_vars
    PROVE  \A t \in Thread : NeedKnown(t)'
<1> DEFINE Kept == \A u \in Thread :
                      /\ upc[u] = "born" => upc'[u] = "born"
                      /\ Quitting(u) => Quitting(u)'
                      /\ AtMaster(u)' => AtMaster(u) \/ ~Quitting(u)
           Goal == \A u \in Thread : NeedKnown(u)'
<1>0. ASSUME Kept, UNCHANGED <<ALLOCATION, NEED>> PROVE Goal
  BY <1>0, NeedsUntouched
<1> SUFFICES Goal  OBVIOUS
<1> HIDE DEF Goal
<1> USE DEF comms, users, matrix
<1>1. CASE UNCHANGED vars
  <2>1. Kept  BY <1>1 DEF vars, Quitting, AtMaster
  <2> QED BY <1>0, <1>1, <2>1 DEF vars
<1>2. CASE BeginSession
  <2>1. Kept  BY <1>2 DEF BeginSession, Quitting, AtMaster
  <2> QED BY <1>0, <1>2, <2>1 DEF BeginSession
<1>3. ASSUME NEW t \in Thread, ReadMaxNeeds(t) PROVE Goal
  <2>1. mpc = "bos"  BY <1>3 DEF ReadMaxNeeds, Judged
  <2>2. ALLOCATION' = ALLOCATION /\ ALLOCATION[t] = Zero /\ UNCHANGED <<mpc, request, request_data>>
    BY <1>3, <2>1 DEF ReadMaxNeeds, SafeInv
  <2>3. NEED'[t] = [r \in Resource |-> MaxNeed[t][0]]
    BY <1>3 DEF ReadMaxNeeds, TypeOK
  <2>4. [r \in Resource |-> MaxNeed[t][0]] = Sub(MaxNeed[t], Zero)
    <3>1. Resource = {0}  BY DEF Resource
    <3>2. MaxNeed[t][0] \in Nat  BY <3>1, InputAssumption
    <3> QED BY <3>1, <3>2 DEF Sub, Zero
  <2>5. ASSUME NEW u \in Thread, u # t PROVE NeedKnown(u)'
    <3>1. upc'[u] = upc[u] /\ NEED'[u] = NEED[u]
      BY <1>3, <2>5 DEF ReadMaxNeeds
    <3>2. NeedKnown(u)  BY DEF SafeInv
    <3> QED BY <2>2, <3>1, <3>2 DEF NeedKnown, QuitDone, Quitting, AtMaster
  <2>6. NeedKnown(t)'  BY <2>2, <2>3, <2>4 DEF NeedKnown
  <2> QED BY <2>5, <2>6 DEF Goal
<1>4. ASSUME NEW t \in Thread, NEW kind, NEW q, Prepare(t, kind, q) PROVE Goal
  <2>1. \A u \in Thread : upc[u] # "acked"
    BY <1>4 DEF Prepare, RmtxFree, RequestHandedOver, InTransit, Nobody, Thread
  <2>2. Kept  BY <1>4, <2>1 DEF Prepare, Quitting, AtMaster, TypeOK
  <2> QED BY <1>0, <1>4, <2>2 DEF Prepare
<1>5. ASSUME NEW t \in Thread, SendRequest(t) \/ SendQuit(t) PROVE Goal
  BY <1>4, <1>5 DEF SendRequest, SendQuit
<1>6. ASSUME NEW t \in Thread,
             \/ Announce(t) \/ PrintReleased(t) \/ PrintGranted(t)
             \/ PrintQuit(t)
      PROVE  Goal
  <2>1. Kept
    BY <1>6 DEF Announce, PrintReleased, PrintGranted, PrintQuit, PrintLine,
                Quitting, AtMaster, TypeOK
  <2> QED BY <1>0, <1>6, <2>1
          DEF Announce, PrintReleased, PrintGranted, PrintQuit, PrintLine
<1>7. ASSUME NEW t \in Thread, NEW p \in Thread \cup {TheMaster},
             RequestBarrier(t, p)
      PROVE  Goal
  <2>1. \A u \in Thread : upc'[u] # upc[u] => upc[u] = "reqb"
    BY <1>7 DEF RequestBarrier, TheMaster, Thread
  <2>2. Kept  BY <1>7, <2>1 DEF RequestBarrier, Quitting, AtMaster
  <2> QED BY <1>0, <1>7, <2>2 DEF RequestBarrier
<1>8. ASSUME NEW t \in Thread, AckBarrier(t) PROVE Goal
  <2>1. Kept  BY <1>8 DEF AckBarrier, Quitting, AtMaster, TypeOK
  <2> QED BY <1>0, <1>8, <2>1 DEF AckBarrier
<1>9. ASSUME NEW t \in Thread, Unlock(t) PROVE Goal
  <2>1. upc[t] = "acked" /\ (request_data.kind = "QUIT" => upc'[t] = "quitting")
    BY <1>9 DEF Unlock, TypeOK
  <2>2. \A u \in Thread : u # t => upc'[u] = upc[u]  BY <1>9 DEF Unlock
  <2>3. Kept  BY <1>9, <2>1, <2>2 DEF Unlock, Quitting, AtMaster
  <2> QED BY <1>0, <1>9, <2>3 DEF Unlock
<1>10. ASSUME NEW t \in Thread, Wait(t) \/ SpuriousWakeup(t) PROVE Goal
  <2>1. Kept  BY <1>10 DEF Wait, SpuriousWakeup, Quitting, AtMaster, TypeOK
  <2> QED BY <1>0, <1>10, <2>1 DEF Wait, SpuriousWakeup
<1>11. CASE Extract \/ Skip \/ EndOfPass \/ Return
  <2>1. Kept
    BY <1>11 DEF Extract, Skip, EndOfPass, Return, Quitting, AtMaster
  <2> QED BY <1>0, <1>11, <2>1 DEF Extract, Skip, EndOfPass, Return
<1>12. CASE HandleRelease \/ HandleAdditional
  <2>1. Kept
    BY <1>12 DEF HandleRelease, HandleAdditional, Handle, Quitting, AtMaster
  <2> QED BY <1>0, <1>12, <2>1, NothingComesBack
<1>13. CASE HandleQuit
  <2> DEFINE t == request.thread_id
  <2>1. /\ Handle("QUIT") /\ t \in Thread /\ Quitting(t)
        /\ ALLOCATION' = [ALLOCATION EXCEPT ![t] = Zero] /\ NEED' = NEED
    BY <1>13 DEF HandleQuit, Handle, Cleared, LedgerInv, AtMaster, HandleOK, TypeOK
  <2>2. Kept /\ \A u \in Thread : ~AtMaster(u)'
    BY <2>1 DEF Handle, Quitting, AtMaster
  <2>3. ASSUME NEW u \in Thread, u = t PROVE NeedKnown(u)'
    BY <2>1, <2>2, <2>3 DEF NeedKnown, QuitDone
  <2>4. ASSUME NEW u \in Thread, u # t PROVE NeedKnown(u)'
    <3>1. ALLOCATION'[u] = ALLOCATION[u]  BY <2>1, <2>4 DEF TypeOK
    <3>2. NeedKnown(u)  BY DEF SafeInv
    <3> QED BY <2>1, <2>2, <3>1, <3>2 DEF NeedKnown, QuitDone
  <2> QED BY <2>3, <2>4 DEF Goal
<1>14. CASE Grant
  <2> DEFINE node == pending_requests[current]
             t == node.thread_id
             q == node.request
  <2>1. /\ current \in DOMAIN pending_requests /\ mpc = "scan" /\ mpc' = "signal"
        /\ UNCHANGED <<upc, request, request_data>>
    BY <1>14 DEF Grant, Scanning, PassDone, TypeOK
  <2>2. node \in Node  BY <2>1, ElementOfSeq DEF TypeOK
  <2>3. t \in Thread /\ q \in Vector  BY <2>2 DEF Node
  <2>4. /\ ALLOCATION' = [ALLOCATION EXCEPT ![t] = Add(@, q)]
        /\ NEED' = [NEED EXCEPT ![t] = Sub(@, q)]
    BY <1>14 DEF Grant, AfterGrant, S
  <2>5. Blocked(t)  BY <2>1 DEF QueueInv, QueuedThreadsBlocked
  <2> HIDE DEF node, t, q
  <2>6. \A u \in Thread : QuitDone(u) <=> QuitDone(u)'
    BY <2>1 DEF QuitDone, Quitting, AtMaster
  <2>7. ASSUME NEW u \in Thread, u = t PROVE NeedKnown(u)'
    <3>1. upc[t] # "born" /\ ~QuitDone(t)
      BY <2>5 DEF Blocked, QuitDone, Quitting
    <3>2. NEED[t] = Sub(MaxNeed[t], ALLOCATION[t])
      BY <2>3, <3>1 DEF SafeInv, NeedKnown
    <3>3. /\ ALLOCATION[t] \in Vector /\ MaxNeed[t] \in [Resource -> Nat]
          /\ NEED'[t] = Sub(NEED[t], q) /\ ALLOCATION'[t] = Add(ALLOCATION[t], q)
      BY <2>3, <2>4, InputAssumption DEF TypeOK
    <3>4. Sub(Sub(MaxNeed[t], ALLOCATION[t]), q) = Sub(MaxNeed[t], Add(ALLOCATION[t], q))
      <4>1. \A r \in Resource : /\ MaxNeed[t][r] \in Int /\ ALLOCATION[t][r] \in Int
                                /\ q[r] \in Int
        BY <2>3, <3>3 DEF Vector
      <4> QED BY <4>1 DEF Sub, Add
    <3> QED BY <2>7, <3>2, <3>3, <3>4 DEF NeedKnown
  <2>8. ASSUME NEW u \in Thread, u # t PROVE NeedKnown(u)'
    <3>1. ALLOCATION'[u] = ALLOCATION[u] /\ NEED'[u] = NEED[u]
      BY <2>4, <2>8 DEF TypeOK
    <3>2. NeedKnown(u)  BY DEF SafeInv
    <3> QED BY <2>1, <2>6, <3>1, <3>2 DEF NeedKnown
  <2> QED BY <2>7, <2>8 DEF Goal
<1>15. CASE Signal
  <2>1. \A u \in Thread : upc'[u] = upc[u] \/ (upc[u] = "waiting" /\ upc'[u] = "granted")
    BY <1>15 DEF Signal, Wake
  <2>2. Kept  BY <1>15, <2>1 DEF Signal, Quitting, AtMaster
  <2> QED BY <1>0, <1>15, <2>2 DEF Signal
<1>16. CASE Master
  BY <1>11, <1>12, <1>13, <1>14, <1>15, <1>16 DEF Master
<1>17. ASSUME NEW t \in Thread, User(t) \/ Rendezvous(t) \/ SpuriousWakeup(t)
       PROVE  Goal
  BY <1>3, <1>5, <1>6, <1>7, <1>8, <1>9, <1>10, <1>17 DEF User, Rendezvous
<1> QED BY <1>1, <1>2, <1>16, <1>17 DEF Next, Goal

(* The declared matrices are a banker's, whatever the step that led to them. *)
LEMMA DeclaredIs ==
    ASSUME NEW X \in Check!States
    PROVE  LET D == [X EXCEPT !.NEED = [t \in Thread |-> Sub(MaxNeed[t], X.ALLOCATION[t])]]
           IN  /\ D \in Check!States
               /\ D.AVAILABLE = X.AVAILABLE /\ D.ALLOCATION = X.ALLOCATION
               /\ \A t \in Thread : D.NEED[t] = Sub(MaxNeed[t], X.ALLOCATION[t])
<1> DEFINE need == [t \in Thread |-> Sub(MaxNeed[t], X.ALLOCATION[t])]
           D == [X EXCEPT !.NEED = need]
<1>1. /\ X.AVAILABLE \in Vector /\ X.ALLOCATION \in [Thread -> Vector]
      /\ X = [AVAILABLE |-> X.AVAILABLE, ALLOCATION |-> X.ALLOCATION, NEED |-> X.NEED]
  BY Notions DEF Check!States
<1>2. need \in [Thread -> Vector]
  <2>1. ASSUME NEW t \in Thread PROVE Sub(MaxNeed[t], X.ALLOCATION[t]) \in Vector
    <3>1. \A r \in Resource : MaxNeed[t][r] \in Int /\ X.ALLOCATION[t][r] \in Int
      BY <1>1, InputAssumption DEF Vector
    <3> QED BY <3>1 DEF Sub, Vector
  <2> QED BY <2>1
<1> HIDE DEF need
<1>3. D = [AVAILABLE |-> X.AVAILABLE, ALLOCATION |-> X.ALLOCATION, NEED |-> need]
  BY <1>1
<1>4. D \in Check!States
  BY <1>1, <1>2, <1>3, Notions DEF Check!States
<1>5. \A t \in Thread : need[t] = Sub(MaxNeed[t], X.ALLOCATION[t])
  BY DEF need
<1>6. /\ D.AVAILABLE = X.AVAILABLE /\ D.ALLOCATION = X.ALLOCATION /\ D.NEED = need
  BY <1>3
<1> QED BY <1>4, <1>5, <1>6 DEF need

(* A grant that passes the check, and a quit, lead from safe to safe. *)
LEMMA StepSafe ==
    ASSUME DLAVOID, TypeOK, TypeOK', LedgerInv, LedgerInv', Judged, SafeInv,
           TotalKept, TotalKept', \A t \in Thread : NeedKnown(t)', [Next]_vars
    PROVE  Check!NoneStuck(Declared')
<1> DEFINE Y == Declared'
<1>1. S \in Check!States /\ S' \in Check!States
  <2>1. S' \in Check!States  BY Notions DEF TypeOK, S, Check!States
  <2> QED BY <2>1, MatricesTyped
<1>2. /\ Declared \in Check!States
      /\ Declared.AVAILABLE = AVAILABLE /\ Declared.ALLOCATION = ALLOCATION
      /\ \A t \in Thread : Declared.NEED[t] = Sub(MaxNeed[t], ALLOCATION[t])
  <2>1. S.AVAILABLE = AVAILABLE /\ S.ALLOCATION = ALLOCATION  BY DEF S
  <2> QED BY <1>1, <2>1, DeclaredIs DEF Declared
<1>3. /\ Y \in Check!States
      /\ Y.AVAILABLE = AVAILABLE' /\ Y.ALLOCATION = ALLOCATION'
      /\ \A t \in Thread : Y.NEED[t] = Sub(MaxNeed[t], ALLOCATION'[t])
  <2>1. S'.AVAILABLE = AVAILABLE' /\ S'.ALLOCATION = ALLOCATION'  BY DEF S
  <2> QED BY <1>1, <2>1, DeclaredIs DEF Declared
<1>4. Check!NoneStuck(Declared)  BY DEF SafeInv
<1>5. /\ ALLOCATION \in [Thread -> Vector] /\ ALLOCATION' \in [Thread -> Vector]
      /\ AVAILABLE \in Vector
  BY DEF TypeOK
<1>6. ASSUME NEW t \in Thread PROVE Sub(MaxNeed[t], Zero) = MaxNeed[t] /\ Leq(MaxNeed[t], Total)
  <2>1. MaxNeed[t] \in [Resource -> Nat]  BY InputAssumption
  <2> QED BY <2>1, InputAssumption DEF Sub, Zero
<1> SUFFICES Check!NoneStuck(Y)  OBVIOUS
<1> HIDE DEF Y
<1>7. CASE UNCHANGED <<AVAILABLE, ALLOCATION>>
  <2>1. Declared' = Declared  BY <1>7 DEF Declared, S
  <2> QED BY <1>4, <2>1 DEF Y
<1>8. CASE HandleQuit
  <2> DEFINE t == request.thread_id
  <2>1. /\ t \in Thread /\ AVAILABLE' = Add(AVAILABLE, ALLOCATION[t])
        /\ ALLOCATION' = [ALLOCATION EXCEPT ![t] = Zero]
    BY <1>8 DEF HandleQuit, Cleared, TypeOK
  <2> HIDE DEF t
  <2>2. Y.NEED[t] = MaxNeed[t]
    BY <1>3, <1>5, <1>6, <2>1
  <2>3. \A j \in Thread : j # t => Y.NEED[j] = Declared.NEED[j]
    BY <1>2, <1>3, <1>5, <2>1
  <2>4. Check!Ends(Declared, Y, t)
    BY <1>2, <1>3, <2>1, <2>3, Notions DEF Check!Ends
  <2>5. Check!WorkAfter(Declared, Thread) = Check!WorkAfter(S, Thread)
    <3>1. Declared.AVAILABLE = S.AVAILABLE /\ Declared.ALLOCATION = S.ALLOCATION
      BY <1>2 DEF S
    <3> QED BY <1>1, <1>2, <3>1, Check!WorkOfHolders, SizeAssumption
  <2>6. Leq(Y.NEED[t], Check!WorkAfter(Declared, Thread))
    BY <1>6, <2>1, <2>2, <2>5, Notions DEF TotalKept, Leq
  <2> QED BY <1>2, <1>3, <1>4, <2>1, <2>4, <2>6, Notions, Check!EndKeepsSafe, SizeAssumption
<1>9. CASE Grant
  <2> DEFINE node == pending_requests[current]
             t == node.thread_id
             q == node.request
             X == AfterGrant(S, t, q)
  <2>1. /\ current \in DOMAIN pending_requests /\ mpc = "scan" /\ mpc' = "signal"
        /\ is_safe_state(S, t, q) /\ S' = X /\ upc' = upc
    BY <1>9 DEF Grant, Scanning, PassDone, CanGrant, S, AfterGrant, TypeOK, users
  <2>2. t \in Thread /\ q \in Vector /\ Leq(Zero, q)
    <3>1. node \in Node  BY <2>1, ElementOfSeq DEF TypeOK
    <3> QED BY <2>1, <3>1 DEF Node, LedgerInv
  <2>3. S' \in Check!States /\ Check!NoneStuck(S')
    <3>1. Check!Nonnegative(S)  BY MatricesTyped DEF LedgerInv
    <3> HIDE DEF node, t, q
    <3> QED BY <1>1, <2>1, <2>2, <3>1, SafeIs
  <2> HIDE DEF node, t, q, X
  <2>4. ASSUME NEW j \in Thread
        PROVE  \/ Y.NEED[j] = S'.NEED[j]
               \/ /\ S'.ALLOCATION[j] = Zero
                  /\ Leq(Y.NEED[j], Check!WorkAfter(S', Thread))
    <3>1. S'.NEED[j] = NEED'[j] /\ S'.ALLOCATION[j] = ALLOCATION'[j]  BY DEF S
    <3>2. upc'[j] # "born"  BY <2>1 DEF Judged
    <3>3. CASE NEED'[j] = Sub(MaxNeed[j], ALLOCATION'[j])
      BY <1>3, <3>1, <3>3
    <3>4. CASE QuitDone(j)'
      <4>1. ALLOCATION'[j] = Zero  BY <3>4 DEF LedgerInv, LedgerAgrees, Ledger
      <4>2. Y.NEED[j] = MaxNeed[j]  BY <1>3, <1>6, <4>1
      <4>3. Leq(MaxNeed[j], Check!WorkAfter(S', Thread))
        BY <1>6, Notions DEF TotalKept, Leq
      <4> QED BY <3>1, <4>1, <4>2, <4>3
    <3> QED BY <3>2, <3>3, <3>4 DEF NeedKnown
  <2>5. S'.AVAILABLE = Y.AVAILABLE /\ S'.ALLOCATION = Y.ALLOCATION  BY <1>3 DEF S
  <2> DEFINE Z == S'
  <2>6. /\ Z \in Check!States /\ Check!NoneStuck(Z)
        /\ Z.AVAILABLE = Y.AVAILABLE /\ Z.ALLOCATION = Y.ALLOCATION
    BY <2>3, <2>5
  <2>7. \A j \in Check!Thread : \/ Y.NEED[j] = Z.NEED[j]
                                \/ /\ Z.ALLOCATION[j] = Check!Zero
                                   /\ Check!Leq(Y.NEED[j], Check!WorkAfter(Z, Check!Thread))
    BY <2>4, Notions
  <2> HIDE DEF Z
  <2> QED BY <1>3, <2>6, <2>7, Check!IdleKeepsSafe, SizeAssumption
<1>10. CASE HandleRelease \/ HandleAdditional
  BY <1>7, <1>10, NothingComesBack
<1>11. CASE Extract \/ Skip \/ Signal \/ EndOfPass \/ Return
  BY <1>7, <1>11 DEF Extract, Skip, Signal, EndOfPass, Return, matrix
<1>12. CASE Master
  BY <1>8, <1>9, <1>10, <1>11, <1>12 DEF Master
<1>13. ASSUME NEW t \in Thread, User(t) \/ Rendezvous(t) \/ SpuriousWakeup(t)
       PROVE  UNCHANGED <<AVAILABLE, ALLOCATION>>
  BY <1>13 DEF User, ReadMaxNeeds, SendRequest, SendQuit, Prepare, Announce,
               PrintReleased, PrintGranted, PrintQuit, PrintLine, Unlock, Wait,
               Rendezvous, RequestBarrier, AckBarrier, SpuriousWakeup, matrix
<1>14. CASE UNCHANGED vars \/ BeginSession
  BY <1>7, <1>14 DEF vars, BeginSession, matrix
<1> QED BY <1>7, <1>12, <1>13, <1>14 DEF Next

(* No thread holds anything before the session begins. *)
LEMMA StepFresh ==
    ASSUME TypeOK, SafeInv, [Next]_vars
    PROVE  (mpc = "bos" => \A t \in Thread : ALLOCATION[t] = Zero)'
<1> USE DEF SafeInv, matrix, comms, users, queue
<1>1. ASSUME NEW t \in Thread, User(t) \/ SpuriousWakeup(t)
      PROVE  UNCHANGED <<mpc, ALLOCATION>>
  BY <1>1 DEF User, ReadMaxNeeds, SendRequest, SendQuit, Prepare, Announce,
              PrintReleased, PrintGranted, PrintQuit, PrintLine, Unlock, Wait,
              SpuriousWakeup
<1>2. ASSUME NEW t \in Thread, Rendezvous(t)
      PROVE  mpc' # "bos" \/ UNCHANGED <<mpc, ALLOCATION>>
  BY <1>2 DEF Rendezvous, RequestBarrier, AckBarrier
<1>3. CASE Master
  <2>1. mpc' # "bos"
    BY <1>3 DEF Master, Extract, HandleRelease, HandleQuit, HandleAdditional, Handle,
                Skip, Scanning, Grant, Signal, EndOfPass, Return
  <2> QED BY <2>1
<1>4. CASE UNCHANGED vars \/ BeginSession
  BY <1>4 DEF vars, BeginSession
<1> QED BY <1>1, <1>2, <1>3, <1>4 DEF Next

(* Where nobody holds anything yet, every declared need can be met. *)
LEMMA InitSafe == Init => SafeInv
<1> SUFFICES ASSUME Init PROVE SafeInv  OBVIOUS
<1>1. S \in Check!States  BY InitTypes, MatricesTyped
<1>2. /\ S.AVAILABLE = Total /\ \A j \in Thread : S.ALLOCATION[j] = Zero
      /\ \A j \in Thread : ALLOCATION[j] = Zero
  BY DEF Init, S
<1>3. /\ Declared \in Check!States /\ Declared.AVAILABLE = S.AVAILABLE
      /\ Declared.ALLOCATION = S.ALLOCATION
      /\ \A t \in Thread : Declared.NEED[t] = Sub(MaxNeed[t], Zero)
  BY <1>1, <1>2, DeclaredIs DEF Declared, S
<1>4. \A t \in Thread : Sub(MaxNeed[t], Zero) = MaxNeed[t] /\ Leq(MaxNeed[t], Total)
  <2> SUFFICES ASSUME NEW t \in Thread
               PROVE  Sub(MaxNeed[t], Zero) = MaxNeed[t] /\ Leq(MaxNeed[t], Total)
    OBVIOUS
  <2>1. MaxNeed[t] \in [Resource -> Nat]  BY InputAssumption
  <2> QED BY <2>1, InputAssumption DEF Sub, Zero
<1>5. Check!NoneStuck(Declared)
  BY <1>2, <1>3, <1>4, Notions, Check!AllFreeIsSafe, SizeAssumption
<1>6. Leq(Zero, request_data.request) /\ Leq(Zero, request.request)
  BY DEF Init, Leq, Zero
<1> QED BY <1>2, <1>5, <1>6 DEF SafeInv, NeedKnown, Init

(***************************************************************************)
(* With -D_DLAVOID the system stays in a safe state, as far as the code    *)
(* goes: with one resource type, since every column of NEED is read from   *)
(* the first, and scripts that release nothing before they quit, since a   *)
(* release does not raise NEED again.                                      *)
(***************************************************************************)
THEOREM AvoidanceCorrect ==
    ASSUME M = 1, ~Releases, ~SpuriousWakeups
    PROVE  Spec => []SafeStateKept
<1>1. TypeOK /\ TypeOK' /\ RequestHandedOver /\ QueueInv /\ LedgerInv /\ LedgerInv'
      /\ Judged /\ TotalKept /\ TotalKept' /\ SafeInv /\ [Next]_vars => SafeInv'
  <2> SUFFICES ASSUME TypeOK, TypeOK', RequestHandedOver, QueueInv, LedgerInv, LedgerInv',
                      Judged, TotalKept, TotalKept', SafeInv, [Next]_vars
               PROVE  SafeInv'
    OBVIOUS
  <2>1. (mpc = "bos" => \A t \in Thread : ALLOCATION[t] = Zero)'
    BY StepFresh
  <2>2. \A t \in Thread : NeedKnown(t)'
    BY StepNeeds
  <2>3. (Leq(Zero, request_data.request) /\ Leq(Zero, request.request))'
    BY StepAsks
  <2>4. DLAVOID => Check!NoneStuck(Declared')
    BY <2>2, StepSafe
  <2> QED BY <2>1, <2>2, <2>3, <2>4 DEF SafeInv
<1>2. TypeOK /\ LedgerInv /\ SafeInv => SafeStateKept
  <2> SUFFICES ASSUME TypeOK, LedgerInv, SafeInv, DLAVOID
               PROVE  SafeInSomeOrder(Declared)
    BY DEF SafeStateKept, Declared
  <2>1. Declared \in Check!States /\ Declared.ALLOCATION = ALLOCATION
    <3>1. S.ALLOCATION = ALLOCATION  BY DEF S
    <3> QED BY <3>1, MatricesTyped, DeclaredIs DEF Declared
  <2>2. Check!Nonnegative(Declared)
    BY <2>1, Notions DEF LedgerInv, WithinClaim, Within, Check!Nonnegative
  <2>3. Check!NoneStuck(Declared)  BY DEF SafeInv
  <2> QED BY <2>1, <2>2, <2>3, Notions, Check!SomeOrderIsSafe, SizeAssumption
<1> QED BY <1>1, <1>2, InitSafe, LedgerHolds, JudgedHolds, TotalHolds, PTL DEF Spec
=============================================================================
