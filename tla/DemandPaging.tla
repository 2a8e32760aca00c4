----------------------------- MODULE DemandPaging -----------------------------
(***************************************************************************)
(* LA9's demandpaging.c: n processes make m binary searches each, in turns *)
(* of one search.  A search loads the pages it probes; when no frame is    *)
(* free its process gives all its frames back and is swapped out.  When a  *)
(* process has made all its searches, the longest swapped-out one comes    *)
(* back with its essential pages and makes its interrupted search at once. *)
(***************************************************************************)
EXTENDS FifoQueue, SequencesExt

CONSTANTS
    num_processes, num_searches,
    USABLE_FRAMES, TOTAL_PAGES, ESSENTIAL_PAGES,
    ItemsPerPage,       \* PAGE_SIZE / sizeof(int)
    ArraySizes, Keys    \* the array sizes and the indices in search.txt

(* What is assumed of the constants. *)
MemoryAssumption ==
    /\ num_processes \in Nat \ {0} /\ num_searches \in Nat \ {0}
    /\ USABLE_FRAMES \in Nat /\ TOTAL_PAGES \in Nat
    /\ ESSENTIAL_PAGES \in Nat \ {0} /\ ItemsPerPage \in Nat \ {0}
    /\ ArraySizes \subseteq Nat \ {0} /\ Keys \subseteq Nat
    \* every array fits into the pages, and a process alone into the frames
    /\ \A s \in ArraySizes :
          LET pages == s \div ItemsPerPage + ESSENTIAL_PAGES
          IN  pages < TOTAL_PAGES /\ pages <= USABLE_FRAMES
    /\ num_processes * ESSENTIAL_PAGES <= USABLE_FRAMES
    /\ USABLE_FRAMES <= 2 ^ 15

VARIABLES
    array_size, search_indices,                 \* the input
    page_table, frames_allocated,
    current_search, is_completed, is_swapped_out,
    free_frames,    \* the first num_free_frames entries of the array
    ready_queue, swapped_out_queue,
    total_page_accesses, total_page_faults, total_swaps,
    min_active_processes, completed_processes,
    pc,             \* in run_simulation or in perform_binary_search
    running,        \* the process of this turn, p in run_simulation
    searching,      \* the process that searches: it, or the swapped in q
    L, R            \* where its index may be

input    == <<array_size, search_indices>>
memory   == <<page_table, frames_allocated, free_frames>>
progress == <<current_search, is_completed>>
queues   == <<is_swapped_out, ready_queue, swapped_out_queue>>
counts   == <<total_page_accesses, total_page_faults, total_swaps,
              min_active_processes>>
search   == <<searching, L, R>>
vars     == <<input, memory, progress, queues, counts, completed_processes,
              pc, running, search>>

Process == 0 .. num_processes - 1
Page    == 0 .. TOTAL_PAGES - 1
Frame   == 0 .. USABLE_FRAMES - 1
NoFrame == -1       \* in an entry whose valid bit is clear

Essential == 0 .. ESSENTIAL_PAGES - 1

-----------------------------------------------------------------------------
(* Reading the input: each process gets essential pages and its turn.      *)

(* What search.txt says of a process: its indices are in its array. *)
Job ==
    UNION {[size : {s}, indices : [0 .. num_searches - 1 -> Keys \cap 0 .. s - 1]] :
              s \in ArraySizes}

(* Everybody in the order of the file. *)
AllReady ==
    LET queue[k \in 0 .. num_processes] ==
            IF k = 0 THEN create_queue(num_processes)
            ELSE enqueue(queue[k - 1], k - 1)
    IN  queue[num_processes]

(* Frames leave the pool from its end. *)
Starts(job) ==
    /\ array_size = [p \in Process |-> job[p].size]
    /\ search_indices = [p \in Process |-> job[p].indices]
    /\ free_frames = [i \in 1 .. USABLE_FRAMES - num_processes * ESSENTIAL_PAGES |-> i - 1]
    /\ page_table = [p \in Process |-> [i \in Page |->
                        IF i \in Essential
                        THEN USABLE_FRAMES - 1 - (p * ESSENTIAL_PAGES + i)
                        ELSE NoFrame]]
    /\ frames_allocated = [p \in Process |-> ESSENTIAL_PAGES]
    /\ current_search = [p \in Process |-> 0]
    /\ is_completed = [p \in Process |-> FALSE]
    /\ is_swapped_out = [p \in Process |-> FALSE]
    /\ ready_queue = AllReady
    /\ swapped_out_queue = create_queue(num_processes)
    /\ total_page_accesses = 0 /\ total_page_faults = 0 /\ total_swaps = 0
    /\ min_active_processes = num_processes
    /\ completed_processes = 0
    /\ pc = "turn" /\ running = 0 /\ searching = 0 /\ L = 0 /\ R = 0

Init == \E job \in [Process -> Job] : Starts(job)

-----------------------------------------------------------------------------
(* Memory management                                                       *)

num_free_frames == Len(free_frames)

(* Process p gives all its frames back, in the order of its pages. *)
FramesOf(p) ==
    LET frames[i \in 0 .. TOTAL_PAGES] ==
            IF i = 0 THEN <<>>
            ELSE IF page_table[p][i - 1] = NoFrame THEN frames[i - 1]
            ELSE Append(frames[i - 1], page_table[p][i - 1])
    IN  frames[TOTAL_PAGES]

(* Variant with a fault: the essential pages stay loaded. *)
EssentialKept(p) ==
    /\ free_frames' = free_frames \o FramesOf(p)
    /\ page_table' = [page_table EXCEPT ![p] =
                         [i \in Page |-> IF i \in Essential THEN @[i] ELSE NoFrame]]
    /\ frames_allocated' = [frames_allocated EXCEPT ![p] = 0]

free_process_frames(p) ==
    /\ free_frames' = free_frames \o FramesOf(p)
    /\ page_table' = [page_table EXCEPT ![p] = [i \in Page |-> NoFrame]]
    /\ frames_allocated' = [frames_allocated EXCEPT ![p] = 0]

-----------------------------------------------------------------------------
(* perform_binary_search, of the process `searching'                       *)

StartSearch(p) ==
    /\ searching' = p
    /\ L' = 0 /\ R' = array_size[p] - 1
    /\ pc' = "search"

Middle == (L + R) \div 2
ProbedPage == Middle \div ItemsPerPage + ESSENTIAL_PAGES
Loaded == page_table[searching][ProbedPage] # NoFrame

Target == search_indices[searching][current_search[searching]]

TargetAhead == ~(Target <= Middle)

Narrow ==
    /\ L' = IF TargetAhead THEN Middle + 1 ELSE L
    /\ R' = IF TargetAhead THEN R ELSE Middle

Probing == pc = "search" /\ L < R

(* A probe of a page that is loaded, or that a free frame is found for. *)
Probe ==
    /\ Probing /\ Loaded
    /\ Narrow
    /\ total_page_accesses' = total_page_accesses + 1
    /\ UNCHANGED <<input, memory, progress, queues, total_page_faults,
                   total_swaps, min_active_processes, completed_processes, pc,
                   running, searching>>

PageFault ==
    /\ Probing /\ ~Loaded /\ num_free_frames > 0
    /\ page_table' = [page_table EXCEPT ![searching][ProbedPage] = Last(free_frames)]
    /\ free_frames' = Front(free_frames)
    /\ frames_allocated' = [frames_allocated EXCEPT ![searching] = @ + 1]
    /\ Narrow
    /\ total_page_accesses' = total_page_accesses + 1
    /\ total_page_faults' = total_page_faults + 1
    /\ UNCHANGED <<input, progress, queues, total_swaps, min_active_processes,
                   completed_processes, pc, running, searching>>

SwapOut ==
    /\ Probing /\ ~Loaded /\ num_free_frames = 0
    /\ free_process_frames(searching)
    /\ is_swapped_out' = [is_swapped_out EXCEPT ![searching] = TRUE]
    /\ swapped_out_queue' = enqueue(swapped_out_queue, searching)
    /\ total_page_accesses' = total_page_accesses + 1
    /\ total_page_faults' = total_page_faults + 1
    /\ total_swaps' = total_swaps + 1
    /\ min_active_processes' =
          IF total_swaps' = 1 \/ ready_queue.size < min_active_processes
          THEN ready_queue.size ELSE min_active_processes
    /\ pc' = "return"
    /\ UNCHANGED <<input, progress, ready_queue, completed_processes, running,
                   search>>

EndSearch ==
    /\ pc = "search" /\ ~(L < R)
    /\ current_search' = [current_search EXCEPT ![searching] = @ + 1]
    /\ IF current_search'[searching] >= num_searches
       THEN /\ is_completed' = [is_completed EXCEPT ![searching] = TRUE]
            /\ free_process_frames(searching)
       ELSE UNCHANGED <<is_completed, memory>>
    /\ pc' = "return"
    /\ UNCHANGED <<input, queues, counts, completed_processes, running, search>>

-----------------------------------------------------------------------------
(* run_simulation.  When nobody is ready but somebody is swapped out it    *)
(* goes round its loop without changing anything, which takes no action.   *)

(* Variant with a fault: the last process is not waited for. *)
AllButOne == completed_processes >= num_processes - 1

AllCompleted == ~(completed_processes < num_processes)

Turn ==
    /\ pc = "turn" /\ ~AllCompleted /\ ~is_empty(ready_queue)
    /\ running' = First(ready_queue)
    /\ ready_queue' = Dequeued(ready_queue)
    /\ IF is_completed[running'] \/ is_swapped_out[running']
       THEN UNCHANGED <<pc, search>>
       ELSE StartSearch(running')
    /\ UNCHANGED <<input, memory, progress, is_swapped_out, swapped_out_queue,
                   counts, completed_processes>>

LeaveLoop ==
    /\ pc = "turn"
    /\ \/ AllCompleted
       \/ is_empty(ready_queue) /\ is_empty(swapped_out_queue)
    /\ pc' = "statistics"
    /\ UNCHANGED <<input, memory, progress, queues, counts, completed_processes,
                   running, search>>

(* A search has returned in the turn of p, or in the one p made room for.  *)
Returned == pc = "return" /\ searching = running
SwappedInReturned == pc = "return" /\ searching # running

(* The next turn; process p waits for another unless it has no use for it. *)
NextTurn(p) ==
    /\ ready_queue' = IF is_completed[p] \/ is_swapped_out[p] THEN ready_queue
                      ELSE enqueue(ready_queue, p)
    /\ pc' = "turn"
    /\ UNCHANGED <<input, memory, progress, is_swapped_out, swapped_out_queue,
                   counts, running, search>>

EndTurn ==
    /\ Returned /\ ~is_completed[running]
    /\ NextTurn(running)
    /\ UNCHANGED completed_processes

CanSwapIn == ~is_empty(swapped_out_queue) /\ num_free_frames >= ESSENTIAL_PAGES

LastTurn ==
    /\ Returned /\ is_completed[running] /\ ~CanSwapIn
    /\ completed_processes' = completed_processes + 1
    /\ NextTurn(running)

SwapIn ==
    LET q == First(swapped_out_queue) IN
    /\ Returned /\ is_completed[running] /\ CanSwapIn
    /\ completed_processes' = completed_processes + 1
    /\ swapped_out_queue' = Dequeued(swapped_out_queue)
    /\ page_table' = [page_table EXCEPT ![q] =
                         [i \in Page |-> IF i \in Essential
                                         THEN free_frames[num_free_frames - i]
                                         ELSE @[i]]]
    /\ free_frames' = SubSeq(free_frames, 1, num_free_frames - ESSENTIAL_PAGES)
    /\ frames_allocated' = [frames_allocated EXCEPT ![q] = @ + ESSENTIAL_PAGES]
    /\ is_swapped_out' = [is_swapped_out EXCEPT ![q] = FALSE]
    /\ StartSearch(q)
    /\ UNCHANGED <<input, progress, ready_queue, counts, running>>

(* The process that was swapped in is not counted as completed here. *)
EndSwapIn ==
    /\ SwappedInReturned
    /\ NextTurn(searching)
    /\ UNCHANGED completed_processes

Next ==
    \/ Turn \/ LeaveLoop \/ Probe \/ PageFault \/ SwapOut \/ EndSearch
    \/ EndTurn \/ LastTurn \/ SwapIn \/ EndSwapIn

Spec == Init /\ [][Next]_vars

(* A sequential program: it takes its next step. *)
FairSpec == Spec /\ WF_vars(Next)
-----------------------------------------------------------------------------
(* Properties                                                              *)

(***************************************************************************)
(* Every usable frame is free once or holds one page of one process, and   *)
(* frames_allocated counts the pages a process has loaded                  *)
(* (demandpaging.c:116-141, 253-258).                                      *)
(***************************************************************************)
PagesIn(frame) ==
    {e \in Process \X Page : page_table[e[1]][e[2]] = frame}

FramesPartition ==
    /\ \A frame \in Frame :
          Cardinality(PagesIn(frame))
            + Cardinality({i \in DOMAIN free_frames : free_frames[i] = frame}) = 1
    /\ \A p \in Process : frames_allocated[p]
          = Cardinality({i \in Page : page_table[p][i] # NoFrame})

(***************************************************************************)
(* No process is lost or scheduled twice: each is in one place, which is   *)
(* the ready queue, the swapped-out queue, the turn that is under way, or  *)
(* among the completed (demandpaging.c:160, 235, 250, 265-270).            *)
(***************************************************************************)
Places(p) ==
    Cardinality({i \in DOMAIN Items(ready_queue) : Items(ready_queue)[i] = p})
      + Cardinality({i \in DOMAIN Items(swapped_out_queue) :
                        Items(swapped_out_queue)[i] = p})

InTurn(p) == pc \in {"search", "return"} /\ searching = p

OnePlace ==
    \A p \in Process :
        /\ Places(p) = IF is_completed[p] \/ (InTurn(p) /\ ~is_swapped_out[p])
                       THEN 0 ELSE 1
        /\ is_swapped_out[p] <=> Contains(Items(swapped_out_queue), p)

(* The loop goes round for ever, nobody being ready. *)
WaitsForNobody ==
    pc = "turn" /\ ~AllCompleted /\ is_empty(ready_queue)
                /\ ~is_empty(swapped_out_queue)

(***************************************************************************)
(* Every process makes all its searches, however often it is swapped out,  *)
(* unless the simulation comes to wait for nobody; it does not swap for    *)
(* ever (demandpaging.c:234-273).                                          *)
(***************************************************************************)
EverybodyCompletes ==
    \/ <>(pc = "statistics" /\ \A p \in Process : is_completed[p])
    \/ <>WaitsForNobody
=============================================================================
