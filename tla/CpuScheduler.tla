----------------------------- MODULE CpuScheduler -----------------------------
(***************************************************************************)
(* LA3's schedule.c: an event-driven simulation of one CPU.  A step takes  *)
(* the next event from the heap and handles it.  The model follows the     *)
(* code where it departs from FCFS and round robin: an arrival passes over *)
(* the first burst, and the end of an I/O burst is posted for the index    *)
(* that equals the process's id, one too far (schedule.c:234, 281).        *)
(* The statistics, which decide nothing, are left out.                     *)
(***************************************************************************)
EXTENDS Integers, SequencesExt

CONSTANTS
    num_processes,
    MAX_BURSTS,     \* the size of a process's array of bursts
    Bursts,         \* the burst sequences proc.txt may give to a process
    Gaps,           \* the times between two arrivals
    Quanta          \* the quanta the user may choose, INF among them

(* What is assumed of the constants. *)
ScheduleAssumption ==
    /\ num_processes \in Nat \ {0} /\ MAX_BURSTS \in Nat
    /\ Gaps \subseteq Nat /\ Gaps # {} /\ IsFiniteSet(Gaps)
    /\ Quanta \subseteq Nat \ {0}
    /\ \A b \in Bursts : b \in Seq(Nat) /\ Len(b) < MAX_BURSTS

VARIABLES
    quantum,
    num_bursts, bursts, current_burst,  \* of each process
    events,         \* the heap event_queue: event k is above 2k and 2k+1
    ready_queue,
    cpu_busy,       \* the process that runs, or -1
    handled,        \* history: the time of the last event handled
    exits           \* history: the processes "exits" was printed for

vars == <<quantum, num_bursts, bursts, current_burst, events, ready_queue,
          cpu_busy, handled, exits>>

(* Ids are 1 .. n; the entry behind the last one is all zero, id included. *)
Process == 0 .. num_processes - 1
Entry   == 0 .. num_processes
id(p)   == IF p \in Process THEN p + 1 ELSE 0

-----------------------------------------------------------------------------
(* The heap of events *)

compare_events(a, b) ==
    IF a.time # b.time THEN a.time - b.time
    ELSE id(a.process_idx) - id(b.process_idx)

swap_events(heap, i, j) == [heap EXCEPT ![i] = heap[j], ![j] = heap[i]]

Event == [time : Nat, process_idx : Entry,
          type : {"ARRIVAL", "CPU_COMPLETION", "IO_COMPLETION", "CPU_TIMEOUT"}]

(* Where one of the two loops stands. *)
Place == [heap : Seq(Event), i : Nat]

(* One turn of the loop of add_event: s.heap[s.i] goes up, or stays for good. *)
Rise[s \in Place] ==
    IF s.i > 1 /\ compare_events(s.heap[s.i], s.heap[s.i \div 2]) < 0
    THEN [heap |-> swap_events(s.heap, s.i, s.i \div 2), i |-> s.i \div 2]
    ELSE s

(* Variant with a fault: the right child is never looked at. *)
LeftChildOnly(heap, i) ==
    IF 2 * i <= Len(heap) /\ compare_events(heap[2 * i], heap[i]) < 0
    THEN 2 * i ELSE i

Smallest(heap, i) ==
    LET left == IF 2 * i <= Len(heap) /\ compare_events(heap[2 * i], heap[i]) < 0
                THEN 2 * i ELSE i
    IN  IF 2 * i + 1 <= Len(heap) /\ compare_events(heap[2 * i + 1], heap[left]) < 0
        THEN 2 * i + 1 ELSE left

(* One turn of the loop of get_next_event: down, past the smaller child. *)
Sink[s \in Place] ==
    LET smallest == Smallest(s.heap, s.i)
    IN  IF smallest = s.i THEN s
        ELSE [heap |-> swap_events(s.heap, s.i, smallest), i |-> smallest]

(* Neither loop makes more turns than there are places. *)
SiftUp(heap) ==
    LET loop[turn \in 0 .. Len(heap)] ==
            IF turn = 0 THEN [heap |-> heap, i |-> Len(heap)] ELSE Rise[loop[turn - 1]]
    IN  loop[Len(heap)].heap

SiftDown(heap) ==
    LET loop[turn \in 0 .. Len(heap)] ==
            IF turn = 0 THEN [heap |-> heap, i |-> 1] ELSE Sink[loop[turn - 1]]
    IN  loop[Len(heap)].heap

add_event(heap, time, process_idx, type) ==
    SiftUp(Append(heap, [time |-> time, process_idx |-> process_idx, type |-> type]))

(* What the heap is without its first event. *)
get_next_event(heap) ==
    IF Len(heap) = 1 THEN <<>>
    ELSE SiftDown([SubSeq(heap, 1, Len(heap) - 1) EXCEPT ![1] = heap[Len(heap)]])

-----------------------------------------------------------------------------
(* The ring ready_queue is never full: an arrival has one place at a time. *)

enqueue(queue, p) == Append(queue, p)
First(queue)      == Head(queue)
Dequeued(queue)   == Tail(queue)

(* The processes stand in proc.txt in the order of their arrival. *)
Arrivals == {a \in [Process -> 0 .. num_processes * Max(Gaps)] :
                /\ a[0] = 0
                /\ \A p \in Process \ {0} : a[p] - a[p - 1] \in Gaps}

AllArrive(arrival_time) ==
    LET first[k \in 0 .. num_processes] ==
            IF k = 0 THEN <<>>
            ELSE add_event(first[k - 1], arrival_time[k - 1], k - 1, "ARRIVAL")
    IN  first[num_processes]

Starts(b, arrival_time, q) ==
    /\ quantum = q
    /\ bursts = [p \in Entry |-> [j \in 0 .. MAX_BURSTS - 1 |->
                    IF p \in Process /\ j < Len(b[p]) THEN b[p][j + 1] ELSE 0]]
    /\ num_bursts = [p \in Entry |-> IF p \in Process THEN Len(b[p]) ELSE 0]
    /\ current_burst = [p \in Entry |-> 0]
    /\ events = AllArrive(arrival_time)
    /\ ready_queue = <<>>
    /\ cpu_busy = -1
    /\ handled = 0
    /\ exits = <<>>

Init == \E b \in [Process -> Bursts], a \in Arrivals, q \in Quanta : Starts(b, a, q)

-----------------------------------------------------------------------------
(* The last part of every handler: an idle CPU gets the next process. *)

(* Variant with a fault: the next process is started on a CPU that works. *)
NobodyAsked(busy) == TRUE

CpuFree(busy) == busy = -1

Dispatch(now, heap, ready, burst_of, busy) ==
    IF CpuFree(busy) /\ ready # <<>>
    THEN LET next == First(ready)
             left == bursts[next][burst_of[next]]
         IN  /\ burst_of[next] < MAX_BURSTS
             /\ ready_queue' = Dequeued(ready)
             /\ cpu_busy' = next
             /\ IF quantum >= left
                THEN /\ events' = add_event(heap, now + left, next, "CPU_COMPLETION")
                     /\ UNCHANGED bursts
                ELSE /\ events' = add_event(heap, now + quantum, next, "CPU_TIMEOUT")
                     /\ bursts' = [bursts EXCEPT ![next][burst_of[next]] = @ - quantum]
    ELSE /\ ready_queue' = ready
         /\ cpu_busy' = busy
         /\ events' = heap
         /\ UNCHANGED bursts

NextIs(types) == events # <<>> /\ Head(events).type \in types

Take == handled' = Head(events).time

(* The clock is moved on by the burst passed over, here and below only: it *)
(* goes back with the next event.                                          *)
JoinReady ==
    /\ NextIs({"ARRIVAL", "IO_COMPLETION"}) /\ Take
    /\ LET p == Head(events).process_idx
       IN  /\ current_burst[p] < MAX_BURSTS
           /\ current_burst' = [current_burst EXCEPT ![p] = @ + 1]
           /\ Dispatch(Head(events).time + bursts[p][current_burst[p]],
                       get_next_event(events), enqueue(ready_queue, p),
                       current_burst', cpu_busy)
    /\ UNCHANGED <<quantum, num_bursts, exits>>

LastBurst(p) == current_burst[p] = num_bursts[p]

Exit ==
    /\ NextIs({"CPU_COMPLETION"}) /\ Take
    /\ LastBurst(Head(events).process_idx)
    /\ exits' = Append(exits, Head(events).process_idx)
    /\ Dispatch(Head(events).time, get_next_event(events), ready_queue,
                current_burst, -1)
    /\ UNCHANGED <<quantum, num_bursts, current_burst>>

(* The I/O takes no time, and ends for the process with the next index. *)
StartIO ==
    /\ NextIs({"CPU_COMPLETION"}) /\ Take
    /\ LET p == Head(events).process_idx
       IN  /\ ~LastBurst(p)
           /\ current_burst' = [current_burst EXCEPT ![p] = @ + 1]
           /\ Dispatch(handled',
                       add_event(get_next_event(events), handled', id(p), "IO_COMPLETION"),
                       ready_queue, current_burst', -1)
    /\ UNCHANGED <<quantum, num_bursts, exits>>

(* Variant with a fault: a process that is preempted is forgotten. *)
DropPreempted(p) == ready_queue

Requeued(p) == enqueue(ready_queue, p)

Preempt ==
    /\ NextIs({"CPU_TIMEOUT"}) /\ Take
    /\ Dispatch(Head(events).time, get_next_event(events),
                Requeued(Head(events).process_idx), current_burst, -1)
    /\ UNCHANGED <<quantum, num_bursts, current_burst, exits>>

Next == JoinReady \/ Exit \/ StartIO \/ Preempt

Spec == Init /\ [][Next]_vars
-----------------------------------------------------------------------------
(* Properties, as far as no burst behind the array is read *)

(***************************************************************************)
(* Events are handled in the order of their times: whatever is posted by   *)
(* handlers that move current_time on, no event left in the heap is        *)
(* earlier than the one just handled (schedule.c:177-199, 234, 281, 322,   *)
(* 327).  current_time itself does step back, from line 234 to line 223.   *)
(***************************************************************************)
EarliestFirst == \A k \in DOMAIN events : handled <= events[k].time

(* The events that stop the process that runs. *)
CpuEvents ==
    {k \in DOMAIN events : events[k].type \in {"CPU_COMPLETION", "CPU_TIMEOUT"}}

(***************************************************************************)
(* However the events are mixed up between processes, the CPU is idle only *)
(* when nobody is ready, and one event tells when the process that runs    *)
(* will stop: a handler posts that event with the process it starts and no *)
(* other.  The handlers neither lose nor make events: those in the heap,   *)
(* the entries of the ready queue and the exits printed are together as    *)
(* many as the processes.  So it is known how many exits are printed, and  *)
(* that none of them is for the empty entry behind the last process, to    *)
(* which line 281 posts events too and whose running time of 0 line 250    *)
(* would divide by; for which processes, EveryProcessReported is about     *)
(* (schedule.c:235-237, 241-258, 281-285, 292-293, 304-329).               *)
(***************************************************************************)
WorkConserved ==
    /\ cpu_busy = -1 => ready_queue = <<>> /\ CpuEvents = {}
    /\ cpu_busy # -1 => \E k \in CpuEvents :
                            CpuEvents = {k} /\ events[k].process_idx = cpu_busy
    /\ Len(events) + Len(ready_queue) + Len(exits) = num_processes
    /\ Range(exits) \subseteq Process

(***************************************************************************)
(* When the statistics are printed, turnaround and wait times have been    *)
(* reported for every process, as LA3's README.md:12 says.  The code does  *)
(* not keep to it: the index of line 281 makes one process take the steps  *)
(* of another, past the test for equality of line 241.                     *)
(***************************************************************************)
EveryProcessReported == events = <<>> => Process \subseteq Range(exits)
=============================================================================
