----------------------------- MODULE MCSequential -----------------------------
(* One run for what is sequential, and shares nothing: the rebuild of LA1, *)
(* the simulators of LA9 and LA3, and the list of requests of LA8, which   *)
(* the master alone touches.  The first state says which program runs; the *)
(* others stay at some input of theirs.                                    *)
EXTENDS Rebuild

CONSTANTS               \* of DemandPaging, CpuScheduler and RequestList
    num_processes, num_searches, USABLE_FRAMES, TOTAL_PAGES, ESSENTIAL_PAGES,
    ItemsPerPage, ArraySizes, Keys,
    MAX_BURSTS, Bursts, Gaps, Quanta,
    max_nodes

VARIABLES program,
    array_size, search_indices, page_table, frames_allocated,
    current_search, is_completed, is_swapped_out, free_frames,
    ready_queue, swapped_out_queue,
    total_page_accesses, total_page_faults, total_swaps,
    min_active_processes, completed_processes,
    pc, running, searching, L, R,
    quantum, num_bursts, bursts, current_burst, events, cpu_ready_queue,
    cpu_busy, handled, exits,
    request_list, next_node, this_node, prev_node, master_pc,
    waiting_order, pass_at

paging == <<array_size, search_indices, page_table, frames_allocated,
            current_search, is_completed, is_swapped_out, free_frames,
            ready_queue, swapped_out_queue,
            total_page_accesses, total_page_faults, total_swaps,
            min_active_processes, completed_processes,
            pc, running, searching, L, R>>
schedule == <<quantum, num_bursts, bursts, current_burst, events,
              cpu_ready_queue, cpu_busy, handled, exits>>
requests == <<request_list, next_node, this_node, prev_node, master_pc,
              waiting_order, pass_at>>
allVars  == <<program, vars, paging, schedule, requests>>

Generator == INSTANCE Gendep
Paging    == INSTANCE DemandPaging
Scheduler == INSTANCE CpuScheduler WITH ready_queue <- cpu_ready_queue
Requests  == INSTANCE RequestList
                 WITH pending_requests <- request_list, next <- next_node,
                      current <- this_node, prev <- prev_node, pc <- master_pc,
                      order <- waiting_order, at <- pass_at

ASSUME InputAssumption ==
    GraphAssumption /\ Paging!MemoryAssumption /\ Scheduler!ScheduleAssumption

MCGraphs     == Generator!Written
MCArraySizes == {1, 3, 4}
MCKeys       == {0, 2}
MCBursts     == {<<3>>, <<1, 3, 1>>, <<2, 1, 3, 1, 2>>}
\* Three that genproc.c can write (lines 16-26): two IO-bound, one CPU-bound.
GenprocBursts == {<<2, 50, 15, 60, 4, 70, 8>>, <<1, 50, 15, 60, 1, 90, 8>>,
                  <<100, 50, 300, 60, 200>>}

(* The input of a program that does not run. *)
NoRebuild  == Starts([u \in Foodule |-> <<>>], 1, {})
NoPaging   == Paging!Starts([p \in Paging!Process |->
                 [size |-> 1, indices |-> [i \in 0 .. num_searches - 1 |-> 0]]])
NoSchedule == Scheduler!Starts([p \in Scheduler!Process |-> <<3>>],
                               [p \in Scheduler!Process |-> 0], 2)

MCInit ==
    /\ Requests!Init
    /\ \/ program = "rebuild" /\ Init /\ NoPaging /\ NoSchedule
       \/ program = "demandpaging" /\ Paging!Init /\ NoRebuild /\ NoSchedule
       \/ program = "schedule" /\ Scheduler!Init /\ NoRebuild /\ NoPaging
       \/ program = "resource" /\ NoRebuild /\ NoPaging /\ NoSchedule

MCNext ==
    /\ UNCHANGED program
    /\ \/ program = "rebuild" /\ Next /\ UNCHANGED <<paging, schedule, requests>>
       \/ program = "demandpaging" /\ Paging!Next /\ UNCHANGED <<vars, schedule, requests>>
       \/ program = "schedule" /\ Scheduler!Next /\ UNCHANGED <<vars, paging, requests>>
       \/ program = "resource" /\ Requests!Next /\ UNCHANGED <<vars, paging, schedule>>

MCSpec == MCInit /\ [][MCNext]_allVars /\ WF_allVars(MCNext)
-----------------------------------------------------------------------------
(* The properties of the programs, each stated and explained in its module; *)
(* LA1's InOrder needs no more than Rebuild.                                *)

(* LA1: the rebuild ends with exactly what the target needs. *)
RebuildEnds == program = "rebuild" => RebuildsAll

(* LA9: a frame is free once or holds one page of one process. *)
FramesPartition == Paging!FramesPartition

(* LA9: no process is lost or scheduled twice. *)
OnePlace == Paging!OnePlace

(* LA9: everybody makes all searches, or the simulation waits for nobody. *)
PagingCompletes == program = "demandpaging" => Paging!EverybodyCompletes

(* LA3: no event is left behind or posted into the past. *)
EarliestFirst == Scheduler!EarliestFirst

(* LA3: the CPU idles only if nobody is ready, and the events keep their number. *)
WorkConserved == Scheduler!WorkConserved

(* LA3: an exit is printed for every process. *)
EveryProcessReported == Scheduler!EveryProcessReported

(* LA8: the linked list of requests is the queue ResourceManager has. *)
ListIsQueue == Requests!ListIsQueue
===============================================================================
