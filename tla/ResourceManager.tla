--------------------------- MODULE ResourceManager ---------------------------
(***************************************************************************)
(* LA8's resource.c: N user threads send the lines of their scripts to one *)
(* master thread, which keeps the banker's matrices and a queue of pending *)
(* requests.  A request travels through the shared array request_data,     *)
(* guarded by rmtx and by two rendezvous (REQB, then ACKB of the sender).  *)
(* A user with an additional request then waits on its own condition       *)
(* variable; the master signals it when the request is granted.            *)
(***************************************************************************)
EXTENDS Banker, SequencesExt

CONSTANTS
    Total,              \* third line of system.txt
    MaxNeed,            \* first line of each threadNN.txt
    MaxRequests,        \* bound: `R' lines in a script
    Releases,           \* do the scripts have negative components?
    DLAVOID,            \* compiled with -D_DLAVOID
    TimelyWait,         \* does the sleep(1) before a signal let the user wait?
    SpuriousWakeups     \* may pthread_cond_wait return unsignalled?

ASSUME InputAssumption ==
    /\ Total \in [Resource -> Nat]
    /\ MaxNeed \in [Thread -> [Resource -> Nat]]
    /\ \A t \in Thread : Leq(MaxNeed[t], Total)
    /\ MaxRequests \in Nat
    /\ {Releases, DLAVOID, TimelyWait, SpuriousWakeups} \subseteq BOOLEAN

VARIABLES
    \* shared by everybody
    rmtx,               \* holder of the request lock, or Nobody
    pmtx,               \* holder of the print lock: TheMaster or Nobody
    request_data,       \* the request in transit
    \* the user threads
    upc,                \* where each user thread is
    lines,              \* `R' lines each has sent
    held,               \* what each script has asked for and not given back
    \* the master thread
    mpc,                \* where the master is
    request,            \* its private copy of request_data
    active_threads,
    AVAILABLE, ALLOCATION, NEED,
    pending_requests,   \* the queue: thread_id and request of each node
    current             \* node process_pending_requests is looking at

comms  == <<rmtx, request_data>>
users  == <<upc, lines, held>>
matrix == <<AVAILABLE, ALLOCATION, NEED>>
queue  == <<pending_requests, current>>
vars   == <<comms, pmtx, users, mpc, request, active_threads, matrix, queue>>

Nobody    == -1      \* no holder of rmtx
TheMaster == N       \* as a party of REQB
Kinds  == {"QUIT", "RELEASE", "ADDITIONAL"}
Node   == [thread_id : Thread, request : Vector]

S == [AVAILABLE |-> AVAILABLE, ALLOCATION |-> ALLOCATION, NEED |-> NEED]

-----------------------------------------------------------------------------
(* Start: read_system_configuration, then one thread per script.           *)

Init ==
    /\ rmtx = Nobody /\ pmtx = Nobody
    /\ request_data = [thread_id |-> 0, kind |-> "QUIT", request |-> Zero]
    /\ request = request_data
    /\ upc = [t \in Thread |-> "born"]
    /\ lines = [t \in Thread |-> 0]
    /\ held = [t \in Thread |-> Zero]
    /\ mpc = "bos"
    /\ active_threads = N
    /\ AVAILABLE = Total
    /\ ALLOCATION = [t \in Thread |-> Zero]
    /\ NEED = [t \in Thread |-> Zero]
    /\ pending_requests = <<>> /\ current = 1

(***************************************************************************)
(* read_thread_max_needs never moves to the next token of the line, so     *)
(* every column of NEED gets the first one.                                *)
(***************************************************************************)
ReadMaxNeeds(t) ==
    /\ upc[t] = "born"
    /\ NEED' = [NEED EXCEPT ![t] = [r \in Resource |-> MaxNeed[t][0]]]
    /\ upc' = [upc EXCEPT ![t] = "bos"]
    /\ UNCHANGED <<comms, pmtx, lines, held, mpc, request, active_threads,
                   AVAILABLE, ALLOCATION, queue>>

(* The BOS barrier has n + 1 parties. *)
BeginSession ==
    /\ mpc = "bos" /\ \A t \in Thread : upc[t] = "bos"
    /\ mpc' = "reqb"
    /\ upc' = [t \in Thread |-> "script"]
    /\ UNCHANGED <<comms, pmtx, lines, held, request, active_threads, matrix,
                   queue>>

-----------------------------------------------------------------------------
(* A user thread                                                           *)

(***************************************************************************)
(* The lines a script may hold next: geninput keeps every component        *)
(* between giving back all that is held and asking up to the maximum need. *)
(***************************************************************************)
ScriptLines(t) ==
    {q \in [Resource -> UNION {-MaxNeed[t][r] .. MaxNeed[t][r] : r \in Resource}] :
        \A r \in Resource :
            /\ q[r] >= IF Releases THEN -held[t][r] ELSE 0
            /\ q[r] <= MaxNeed[t][r] - held[t][r]}

get_request_type(q) ==
    IF \E r \in Resource : q[r] > 0 THEN "ADDITIONAL" ELSE "RELEASE"

(* Variant with a fault: rmtx is not waited for. *)
RmtxIgnored == TRUE

RmtxFree == rmtx = Nobody

Prepare(t, kind, q) ==
    /\ upc[t] = "script" /\ RmtxFree
    /\ rmtx' = t
    /\ request_data' = [thread_id |-> t, kind |-> kind, request |-> q]
    /\ upc' = [upc EXCEPT ![t] = "announce"]
    /\ UNCHANGED <<pmtx, mpc, request, active_threads, matrix, queue>>

SendRequest(t) ==
    /\ lines[t] < MaxRequests
    /\ \E q \in ScriptLines(t) :
          /\ Prepare(t, get_request_type(q), q)
          /\ held' = [held EXCEPT ![t] = Add(@, q)]
    /\ lines' = [lines EXCEPT ![t] = @ + 1]

(***************************************************************************)
(* A quit leaves the amounts of the previous request in request_data; the  *)
(* master copies them and does not use them.                               *)
(***************************************************************************)
SendQuit(t) ==
    /\ Prepare(t, "QUIT", request_data.request)
    /\ UNCHANGED <<lines, held>>

(* A line printed under pmtx, between two places of the script. *)
PrintLine(t, from, to) ==
    /\ upc[t] = from /\ pmtx = Nobody
    /\ upc' = [upc EXCEPT ![t] = to]
    /\ UNCHANGED <<comms, pmtx, lines, held, mpc, request, active_threads,
                   matrix, queue>>

Announce(t)     == PrintLine(t, "announce", "reqb")
PrintReleased(t) == PrintLine(t, "released", "script")
PrintGranted(t) == PrintLine(t, "granted", "script")
PrintQuit(t)    == PrintLine(t, "quitting", "gone")

(***************************************************************************)
(* REQB has two parties: user t and p, the master or another user that got *)
(* there too.  Whoever they are, they pass together.                       *)
(***************************************************************************)
RequestBarrier(t, p) ==
    /\ upc[t] = "reqb"
    /\ IF p = TheMaster THEN mpc = "reqb" ELSE p # t /\ upc[p] = "reqb"
    /\ upc' = [u \in Thread |-> IF u \in {t, p} THEN "ackb" ELSE upc[u]]
    /\ mpc' = IF p = TheMaster THEN "extract" ELSE mpc
    /\ UNCHANGED <<comms, pmtx, lines, held, request, active_threads, matrix,
                   queue>>

AckBarrier(t) ==
    /\ upc[t] = "ackb" /\ mpc = "ackb" /\ request.thread_id = t
    /\ upc' = [upc EXCEPT ![t] = "acked"]
    /\ mpc' = "handle"
    /\ UNCHANGED <<comms, pmtx, lines, held, request, active_threads, matrix,
                   queue>>

(***************************************************************************)
(* The sender's own request_type decides where it goes once it has         *)
(* released rmtx: request_data still holds its request then.               *)
(***************************************************************************)
Unlock(t) ==
    /\ upc[t] = "acked"
    /\ rmtx' = Nobody
    /\ upc' = [upc EXCEPT ![t] =
                  CASE request_data.kind = "QUIT"       -> "quitting"
                    [] request_data.kind = "RELEASE"    -> "released"
                    [] request_data.kind = "ADDITIONAL" -> "block"]
    /\ UNCHANGED <<request_data, pmtx, lines, held, mpc, request,
                   active_threads, matrix, queue>>

(* pthread_cond_wait: from here on a signal reaches the thread. *)
Wait(t) ==
    /\ upc[t] = "block"
    /\ upc' = [upc EXCEPT ![t] = "waiting"]
    /\ UNCHANGED <<comms, pmtx, lines, held, mpc, request, active_threads,
                   matrix, queue>>

(* The wait is not in a loop: any return is taken for the grant. *)
SpuriousWakeup(t) ==
    /\ SpuriousWakeups /\ upc[t] = "waiting"
    /\ upc' = [upc EXCEPT ![t] = "granted"]
    /\ UNCHANGED <<comms, pmtx, lines, held, mpc, request, active_threads,
                   matrix, queue>>

-----------------------------------------------------------------------------
(* The master thread                                                       *)

Extract ==
    /\ mpc = "extract"
    /\ request' = request_data
    /\ mpc' = "ackb"
    /\ UNCHANGED <<comms, pmtx, users, active_threads, matrix, queue>>

NegativePart(q) == [r \in Resource |-> IF q[r] < 0 THEN q[r] ELSE 0]

(* Variant with a fault: released components stay in the queued request. *)
WholeRequest(q) == q

PositivePart(q) == [r \in Resource |-> IF q[r] < 0 THEN 0 ELSE q[r]]

(* Resources of thread t with a (non-positive) change q come back. *)
GiveBack(t, q) ==
    /\ AVAILABLE' = Sub(AVAILABLE, q)
    /\ ALLOCATION' = [ALLOCATION EXCEPT ![t] = Add(@, q)]

(* Every handler runs under pmtx and ends in a pass over the queue. *)
Handle(kind) ==
    /\ mpc = "handle" /\ request.kind = kind /\ pmtx = Nobody
    /\ pmtx' = TheMaster
    /\ mpc' = "scan" /\ current' = 1
    /\ UNCHANGED <<comms, users, request, NEED>>

HandleRelease ==
    /\ Handle("RELEASE")
    /\ GiveBack(request.thread_id, request.request)
    /\ UNCHANGED <<active_threads, pending_requests>>

(* Variant with a fault: the quitting thread's allocation is not cleared. *)
NotCleared(t) == ALLOCATION

Cleared(t) == [ALLOCATION EXCEPT ![t] = Zero]

HandleQuit ==
    /\ Handle("QUIT")
    /\ AVAILABLE' = Add(AVAILABLE, ALLOCATION[request.thread_id])
    /\ ALLOCATION' = Cleared(request.thread_id)
    /\ active_threads' = active_threads - 1
    /\ UNCHANGED pending_requests

(* Variant with a fault: the new node becomes the only one. *)
EnqueueAlone(t, q) == <<[thread_id |-> t, request |-> q]>>

enqueue_request(t, q) ==
    Append(pending_requests, [thread_id |-> t, request |-> q])

HandleAdditional ==
    /\ Handle("ADDITIONAL")
    /\ GiveBack(request.thread_id, NegativePart(request.request))
    /\ pending_requests' =
          enqueue_request(request.thread_id, PositivePart(request.request))
    /\ UNCHANGED active_threads

(* Variant with a fault: no safety check. *)
CanGrantUnchecked(node) == Leq(node.request, AVAILABLE)

CanGrant(node) ==
    /\ Leq(node.request, AVAILABLE)
    /\ DLAVOID => is_safe_state(S, node.thread_id, node.request)

(* Variant with a fault: the last node is not looked at. *)
AtLastNode == current >= Len(pending_requests)

PassDone == current > Len(pending_requests)

Scanning == mpc = "scan" /\ ~PassDone

Skip ==
    /\ Scanning /\ ~CanGrant(pending_requests[current])
    /\ current' = current + 1
    /\ UNCHANGED <<comms, pmtx, users, mpc, request, active_threads, matrix,
                   pending_requests>>

Grant ==
    /\ Scanning /\ CanGrant(pending_requests[current])
    /\ LET node  == pending_requests[current]
           after == AfterGrant(S, node.thread_id, node.request)
       IN  /\ AVAILABLE'  = after.AVAILABLE
           /\ ALLOCATION' = after.ALLOCATION
           /\ NEED'       = after.NEED
    /\ mpc' = "signal"
    /\ UNCHANGED <<comms, pmtx, users, request, active_threads, queue>>

(* Variants with a fault: nobody is woken; the node stays in the queue. *)
WakeNobody(t)      == upc
UnlinkNothing(q, k) == q

(* A signal is lost when the thread does not wait. *)
Wake(t) == IF upc[t] = "waiting" THEN [upc EXCEPT ![t] = "granted"] ELSE upc

Unlink(q, k) == RemoveAt(q, k)

(***************************************************************************)
(* sleep(1), pthread_cond_signal, unlink the node.  The signal is sent     *)
(* without cmtx: it is lost when the thread does not wait yet, which only  *)
(* the sleep makes unlikely.  TimelyWait says that it is long enough.      *)
(***************************************************************************)
Signal ==
    LET t == pending_requests[current].thread_id IN
    /\ mpc = "signal"
    /\ TimelyWait => upc[t] \notin {"acked", "block"}
    /\ upc' = Wake(t)
    /\ pending_requests' = Unlink(pending_requests, current)
    /\ mpc' = "scan"
    /\ UNCHANGED <<comms, pmtx, lines, held, request, active_threads, matrix,
                   current>>

(* Variant with a fault: the master stops while one thread is active. *)
OneActive == active_threads <= 1

SessionOver == active_threads <= 0

EndOfPass ==
    /\ mpc = "scan" /\ PassDone
    /\ pmtx' = Nobody
    /\ mpc' = IF SessionOver THEN "join" ELSE "reqb"
    /\ current' = 1
    /\ UNCHANGED <<comms, users, request, active_threads, matrix,
                   pending_requests>>

(* main joins the user threads, frees everything and returns. *)
Return ==
    /\ mpc = "join" /\ \A t \in Thread : upc[t] = "gone"
    /\ mpc' = "exit"
    /\ UNCHANGED <<comms, pmtx, users, request, active_threads, matrix, queue>>

-----------------------------------------------------------------------------
User(t) ==
    \/ ReadMaxNeeds(t) \/ SendRequest(t) \/ SendQuit(t) \/ Announce(t)
    \/ Unlock(t) \/ PrintReleased(t) \/ PrintQuit(t) \/ Wait(t)
    \/ PrintGranted(t)

Rendezvous(t) ==
    \/ \E p \in Thread \cup {TheMaster} : RequestBarrier(t, p)
    \/ AckBarrier(t)

Master ==
    \/ Extract \/ HandleRelease \/ HandleQuit \/ HandleAdditional
    \/ Skip \/ Grant \/ Signal \/ EndOfPass \/ Return

Next ==
    \/ BeginSession \/ Master
    \/ \E t \in Thread : User(t) \/ Rendezvous(t) \/ SpuriousWakeup(t)

Spec == Init /\ [][Next]_vars

(***************************************************************************)
(* The machine runs some thread as long as one can run.  No more is needed *)
(* since scripts are finite; nobody is made to send another line rather    *)
(* than quit, and no wakeup is spurious by obligation.                     *)
(***************************************************************************)
FairSpec == Spec /\ WF_vars(Next)
-----------------------------------------------------------------------------
(* Properties                                                              *)

(* The type of every variable, and that a node is being signalled only     *)
(* while it is in the queue.                                               *)
TypeOK ==
    /\ rmtx \in Thread \cup {Nobody} /\ pmtx \in {TheMaster, Nobody}
    /\ request_data \in [thread_id : Thread, kind : Kinds, request : Vector]
    /\ request \in [thread_id : Thread, kind : Kinds, request : Vector]
    /\ upc \in [Thread -> {"born", "bos", "script", "announce", "reqb", "ackb",
                           "acked", "block", "waiting", "granted", "released",
                           "quitting", "gone"}]
    /\ lines \in [Thread -> 0 .. MaxRequests]
    /\ held \in [Thread -> Vector]
    /\ mpc \in {"bos", "reqb", "extract", "ackb", "handle", "scan", "signal",
                "join", "exit"}
    /\ active_threads \in Int
    /\ AVAILABLE \in Vector /\ ALLOCATION \in [Thread -> Vector]
    /\ NEED \in [Thread -> Vector]
    /\ pending_requests \in Seq(Node)
    /\ current \in Nat \ {0}
    /\ mpc = "signal" => current \in DOMAIN pending_requests

(* A thread's request is, or will be, in request_data. *)
InTransit(t) == upc[t] \in {"announce", "reqb", "ackb", "acked"}

(* The master has acknowledged t's request and not carried it out yet. *)
AtMaster(t) == mpc = "handle" /\ request.thread_id = t

(* The node being signalled is granted, if not yet unlinked. *)
Ungranted(k) == ~(mpc = "signal" /\ k = current)

(***************************************************************************)
(* A request in transit is its sender's alone: whoever is between taking   *)
(* rmtx and giving it back owns request_data, and what the master extracts *)
(* belongs to the thread it will acknowledge (resource.c:161-173, 314-334).*)
(***************************************************************************)
RequestHandedOver ==
    /\ \A t \in Thread :
          InTransit(t) => rmtx = t /\ request_data.thread_id = t
    /\ \A t \in Thread : upc[t] = "ackb" => mpc \in {"extract", "ackb"}
    /\ mpc \in {"extract", "ackb"} => rmtx \in Thread /\ upc[rmtx] = "ackb"
    /\ mpc = "ackb" => request = request_data

(***************************************************************************)
(* Nothing is created or lost: what is free and what the threads hold add  *)
(* up to the system's total (resource.c:187-203, 485-489, 545-551).        *)
(***************************************************************************)
Conservation ==
    \A r \in Resource :
        AVAILABLE[r] + SumFunction([t \in Thread |-> ALLOCATION[t][r]]) = Total[r]

(***************************************************************************)
(* What thread t's requests outside the queue will still change: one may   *)
(* be with the master while the thread, its release acknowledged, has      *)
(* already written the next.  A quit brings no amounts of its own.         *)
(***************************************************************************)
Sent(t) ==
    IF upc[t] \in {"announce", "reqb", "ackb"} /\ request_data.kind # "QUIT"
    THEN request_data.request ELSE Zero

BeingHandled(t) ==
    IF AtMaster(t) /\ request.kind # "QUIT" THEN request.request ELSE Zero

(* The quit of thread t has been acknowledged, and has been carried out. *)
Quitting(t) == \/ upc[t] \in {"quitting", "gone"}
               \/ upc[t] = "acked" /\ request_data.kind = "QUIT"

QuitDone(t) == Quitting(t) /\ ~AtMaster(t)

Nodes(t) == {k \in DOMAIN pending_requests :
                pending_requests[k].thread_id = t /\ Ungranted(k)}

(***************************************************************************)
(* Master and scripts agree on what each thread holds: what the script has *)
(* asked for is what ALLOCATION records, plus the one request of its that  *)
(* is pending (its releases already given back), or else plus what is in   *)
(* transit and at the master.  After its quit a thread holds nothing.      *)
(***************************************************************************)
Ledger(t) ==
    IF QuitDone(t) THEN ALLOCATION[t] = Zero
    ELSE IF Nodes(t) = {}
         THEN held[t] = Add(Add(ALLOCATION[t], BeingHandled(t)), Sent(t))
         ELSE \A k \in Nodes(t) :
                held[t] = Add(ALLOCATION[t], pending_requests[k].request)

LedgerAgrees == \A t \in Thread : Ledger(t)

(***************************************************************************)
(* No thread ever holds a negative amount or more than its declared need,  *)
(* and the master never hands out what it has not got.                     *)
(***************************************************************************)
Within(v, t) == Leq(Zero, v) /\ Leq(v, MaxNeed[t])

WithinClaim ==
    Leq(Zero, AVAILABLE) /\ \A t \in Thread : Within(ALLOCATION[t], t)

(* Acknowledged as an additional request, t waits or is about to. *)
Blocked(t) == \/ upc[t] \in {"block", "waiting"}
              \/ upc[t] = "acked" /\ request_data.kind = "ADDITIONAL"

(***************************************************************************)
(* A thread with a request in the queue has gone to wait for it and no     *)
(* further, and it has one request there at most (resource.c:342-345).     *)
(***************************************************************************)
QueuedThreadsBlocked ==
    \A k \in DOMAIN pending_requests :
        /\ Blocked(pending_requests[k].thread_id)
        /\ \A j \in DOMAIN pending_requests :
              pending_requests[j].thread_id = pending_requests[k].thread_id
                => j = k

(***************************************************************************)
(* A thread that waits has something to wait for: its request is with the  *)
(* master or in the queue, so some later grant will signal it              *)
(* (resource.c:343-345 against 494-496).                                   *)
(***************************************************************************)
WaitersHaveRequests ==
    \A t \in Thread : Blocked(t) =>
        \/ AtMaster(t) /\ request.kind = "ADDITIONAL"
        \/ \E k \in DOMAIN pending_requests : pending_requests[k].thread_id = t

(***************************************************************************)
(* One pass over the queue is enough: when the master goes back to REQB,   *)
(* nothing it leaves pending could have been granted, although a grant     *)
(* late in the pass changes the matrices the earlier nodes were judged by  *)
(* (resource.c:459-523, README:50 "retry on every state change").          *)
(***************************************************************************)
NothingGrantableLeft ==
    mpc = "reqb" => \A k \in DOMAIN pending_requests :
                        ~CanGrant(pending_requests[k])

(***************************************************************************)
(* With -D_DLAVOID the system is in a safe state at every moment, judged   *)
(* by the needs the threads really declared.                               *)
(***************************************************************************)
SafeStateKept ==
    DLAVOID => SafeInSomeOrder(
        [S EXCEPT !.NEED = [t \in Thread |-> Sub(MaxNeed[t], ALLOCATION[t])]])

(***************************************************************************)
(* A request that has been written is acknowledged, even while every other *)
(* thread is deadlocked in the queue: the master never waits for a user it *)
(* has not met.                                                            *)
(***************************************************************************)
EveryRequestAcknowledged ==
    \A t \in Thread : upc[t] = "announce" ~> ~InTransit(t)

(***************************************************************************)
(* With -D_DLAVOID every script runs to its end and the program returns.   *)
(***************************************************************************)
EverybodyQuits == <>(mpc = "exit")
=============================================================================
