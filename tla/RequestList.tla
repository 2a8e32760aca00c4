------------------------------ MODULE RequestList ------------------------------
(***************************************************************************)
(* The queue of pending requests in LA8's resource.c as the linked list it *)
(* is.  ResourceManager has it as a sequence and the node that a pass has  *)
(* come to as a position in it; here the sequence and the position are     *)
(* history, and the program goes by its pointers.  Only the master touches *)
(* the list, under pmtx.                                                   *)
(***************************************************************************)
EXTENDS Integers, SequencesExt

CONSTANT max_nodes      \* bound: no more requests wait at a time than threads

Node == 1 .. max_nodes
NULL == 0

VARIABLES
    pending_requests,   \* head and tail
    next,               \* of each node, freed ones included
    current, prev,      \* the locals of process_pending_requests
    pc,                 \* "handle" or "scan"
    order, at           \* history: what ResourceManager calls pending_requests
                        \* and current

vars == <<pending_requests, next, current, prev, pc, order, at>>

initialize_queue ==
    /\ pending_requests = [head |-> NULL, tail |-> NULL]
    /\ next = [node \in Node |-> NULL]
    /\ order = <<>>

Init ==
    /\ initialize_queue
    /\ current = NULL /\ prev = NULL /\ at = 1
    /\ pc = "handle"

(* Whatever was handled, a pass over the list follows. *)
BeginPass ==
    /\ pc = "handle" /\ pc' = "scan"
    /\ current' = pending_requests'.head /\ prev' = NULL
    /\ at' = 1

(* malloc gives any node that is not in use. *)
enqueue_request(node) ==
    /\ next' = IF pending_requests.tail = NULL
               THEN [next EXCEPT ![node] = NULL]
               ELSE [next EXCEPT ![node] = NULL, ![pending_requests.tail] = node]
    /\ pending_requests' =
          [head |-> IF pending_requests.tail = NULL THEN node ELSE pending_requests.head,
           tail |-> node]
    /\ order' = Append(order, node)

HandleAdditional ==
    /\ \E node \in Node \ Range(order) : enqueue_request(node)
    /\ BeginPass

HandleOther ==
    /\ UNCHANGED <<pending_requests, next, order>>
    /\ BeginPass

(* A request that cannot be granted stays. *)
Skip ==
    /\ pc = "scan" /\ current # NULL
    /\ prev' = current /\ current' = next[current] /\ at' = at + 1
    /\ UNCHANGED <<pending_requests, next, pc, order>>

(* Variant with a fault: tail stays at the node that is freed. *)
TailLeft == pending_requests.tail

TailBehind == IF current = pending_requests.tail THEN prev ELSE pending_requests.tail

(* One that is granted is unlinked and freed. *)
Unlink ==
    /\ pc = "scan" /\ current # NULL
    /\ pending_requests' =
          [head |-> IF prev = NULL THEN next[current] ELSE pending_requests.head,
           tail |-> TailBehind]
    /\ next' = IF prev = NULL THEN next ELSE [next EXCEPT ![prev] = next[current]]
    /\ current' = next[current]
    /\ order' = RemoveAt(order, at)
    /\ UNCHANGED <<prev, pc, at>>

EndOfPass ==
    /\ pc = "scan" /\ current = NULL
    /\ pc' = "handle"
    /\ UNCHANGED <<pending_requests, next, current, prev, order, at>>

Next == HandleAdditional \/ HandleOther \/ Skip \/ Unlink \/ EndOfPass

Spec == Init /\ [][Next]_vars
-----------------------------------------------------------------------------
(***************************************************************************)
(* The pointers are the sequence, wherever nodes are taken out of it: from *)
(* head along next the list has the nodes of the sequence and ends, tail   *)
(* is the last of them, so that the next request is linked behind it, and  *)
(* a pass stands at the node of its position with prev one behind, and     *)
(* ends where the sequence does (resource.c:450-456, 464, 499-512, 517).   *)
(***************************************************************************)
ListIsQueue ==
    LET length == Len(order) IN
    /\ pending_requests = IF order = <<>> THEN [head |-> NULL, tail |-> NULL]
                          ELSE [head |-> order[1], tail |-> order[length]]
    /\ \A k \in 1 .. length :
          next[order[k]] = IF k = length THEN NULL ELSE order[k + 1]
    /\ pc = "scan" =>
          /\ current = IF at = length + 1 THEN NULL ELSE order[at]
          /\ prev    = IF at = 1 THEN NULL ELSE order[at - 1]
=============================================================================
