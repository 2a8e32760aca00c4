----------------------------- MODULE Restaurant -----------------------------
(***************************************************************************)
(* LA6: cooks, waiters and customers, a process each, over one shared      *)
(* array M and System V semaphores.  M[0] is the time, M[1] the empty      *)
(* tables, M[2] the next waiter, M[3] the length of the cooks' queue; then *)
(* a region per waiter (front, back, queue, PO, FR) and the cooks' queue.  *)
(* All of it is memory: M[kitchen] and M[kitchen + 1] are the front and    *)
(* the back of the cooks' queue and also the first cells of the queue, so  *)
(* the first order overwrites them and the cooks read from elsewhere.      *)
(* A section under sem_mutex is a step, with the wait for a token before   *)
(* it; a semaphore signalled after it and a clock read outside are steps   *)
(* of their own.                                                           *)
(***************************************************************************)
EXTENDS Integers, FiniteSets

CONSTANTS
    Cooks, Waiters,     \* how many: 2 and 5 in the code
    Tables,             \* 10 in the code
    Globals, Stride,    \* the layout of M: 100 and 200 in the code
    Cells,              \* the cells of M, to the end of its last page
    Guests              \* customers.txt: arrival and count of each customer

Cook     == 0 .. Cooks - 1
Waiter   == 0 .. Waiters - 1
Customer == DOMAIN Guests

ASSUME RestaurantAssumption ==
    /\ {Cooks, Waiters, Tables, Globals, Stride, Cells} \subseteq Nat \ {0}
    /\ Globals > 3 /\ Stride > 4
    /\ IsFiniteSet(Customer) /\ Customer = 1 .. Cardinality(Customer)
    /\ 2 * Cardinality(Customer) + 4 <= Stride
    /\ Cells > Globals + Waiters * Stride + 1
    /\ Cells > Globals + Waiters * Stride + 3 * Cardinality(Customer)
    /\ \A c \in Customer : Guests[c] \in [arrival : Nat, count : 1 .. 4]

VARIABLES
    M,
    jammed,             \* has a cook died with sem_mutex in its hands?
    sem_cook, sem_waiter, sem_customer,
    cpc, wpc, upc,      \* where cooks, waiters and customers are
    order,              \* what a cook has read from the queue
    taken,              \* a waiter's customer: to order or to be served
    waiter_id,          \* a customer's waiter
    curr_time,          \* the clock as each process last read it
    passed              \* history: customers whose order was passed on

semaphores == <<sem_cook, sem_waiter, sem_customer>>
cooks      == <<cpc, order>>
waiters    == <<wpc, taken, passed>>
customers  == <<upc, waiter_id>>
vars == <<M, jammed, semaphores, cooks, waiters, customers, curr_time>>

base(w) == Globals + w * Stride         \* front; the back is behind it
PO(w)   == base(w) + Stride - 2
FR(w)   == base(w) + Stride - 1
kitchen == Globals + Waiters * Stride

Processes == ({"cook"} \X Cook) \cup ({"waiter"} \X Waiter)
                 \cup ({"customer"} \X Customer)

(* Variant with a fault: the customers come before the waiters are ready. *)
IndicesUnset(i) ==
    CASE i = 1                               -> Tables
      [] i \in {kitchen, kitchen + 1}        -> kitchen
      [] OTHER                               -> 0

InitialCell(i) ==
    CASE i = 1                               -> Tables
      [] i \in {kitchen, kitchen + 1}        -> kitchen
      [] i \in {base(w) : w \in Waiter}      -> i + 2
      [] i \in {base(w) + 1 : w \in Waiter}  -> i + 1
      [] OTHER                               -> 0

(***************************************************************************)
(* The programs are started in the order the README gives: M is set up and *)
(* the waiters have set their indices when the first customer comes.       *)
(***************************************************************************)
Init ==
    /\ M = [i \in 0 .. Cells - 1 |-> InitialCell(i)]
    /\ jammed = FALSE
    /\ sem_cook = 0
    /\ sem_waiter = [w \in Waiter |-> 0]
    /\ sem_customer = [c \in Customer |-> 0]
    /\ cpc = [i \in Cook |-> "wait"] /\ wpc = [w \in Waiter |-> "wait"]
    /\ upc = [c \in Customer |-> "coming"]
    /\ order = [i \in Cook |-> [waiter |-> 0, cust |-> 0, count |-> 0]]
    /\ taken = [w \in Waiter |-> [cust |-> 0, count |-> 0]]
    /\ waiter_id = [c \in Customer |-> 0]
    /\ curr_time = [p \in Processes |-> 0]
    /\ passed = {}

-----------------------------------------------------------------------------
Closing == 240
Section == ~jammed

(* Variant with a fault: a semaphore that remembers one signal only. *)
SetToOne(sem, i) == [sem EXCEPT ![i] = 1]

Up(sem, i)   == [sem EXCEPT ![i] = @ + 1]
Down(sem, i) == sem[i] > 0 /\ sem' = [sem EXCEPT ![i] = @ - 1]

ReadClock(p)          == curr_time' = [curr_time EXCEPT ![p] = M[0]]
update_time(p, delay) ==
    /\ Section
    /\ M' = [M EXCEPT ![0] = IF curr_time[p] + delay < @ THEN @
                                                         ELSE curr_time[p] + delay]

CookGoes(i, from, to)     == cpc[i] = from /\ cpc' = [cpc EXCEPT ![i] = to]
WaiterGoes(w, from, to)   == wpc[w] = from /\ wpc' = [wpc EXCEPT ![w] = to]
CustomerGoes(c, from, to) == upc[c] = from /\ upc' = [upc EXCEPT ![c] = to]

-----------------------------------------------------------------------------
(* A cook                                                                  *)

(* Variant with a fault: the length of the queue is not looked at. *)
AfterHours == M[0] >= Closing

NoMoreOrders == M[0] >= Closing /\ M[3] = 0

CookTakes(i) ==
    /\ Section /\ sem_cook > 0 /\ sem_cook' = sem_cook - 1
    /\ IF NoMoreOrders
       THEN /\ CookGoes(i, "wait", "gone")
            /\ sem_waiter' = IF i = 1 THEN [w \in Waiter |-> sem_waiter[w] + 1]
                                      ELSE sem_waiter
            /\ UNCHANGED <<M, order>>
       ELSE /\ CookGoes(i, "wait", "preparing")
            /\ LET front == M[kitchen]
               IN  /\ order' = [order EXCEPT ![i] =
                          [waiter |-> M[front], cust |-> M[front + 1],
                           count |-> M[front + 2]]]
                   /\ M' = [M EXCEPT ![kitchen] = front + 3, ![3] = @ - 1]
            /\ UNCHANGED sem_waiter
    /\ UNCHANGED <<jammed, sem_customer, waiters, customers, curr_time>>

CookPrepares(i) ==
    /\ \/ CookGoes(i, "preparing", "cooking")
          /\ ReadClock(<<"cook", i>>) /\ UNCHANGED M
       \/ CookGoes(i, "cooking", "prepared")
          /\ update_time(<<"cook", i>>, 5 * order[i].count) /\ UNCHANGED curr_time
    /\ UNCHANGED <<jammed, semaphores, order, waiters, customers>>

(* Behind the last page the store kills the cook, which holds sem_mutex. *)
SetFoodReady(i) ==
    /\ Section
    /\ IF FR(order[i].waiter) \in DOMAIN M
       THEN /\ CookGoes(i, "prepared", "notify")
            /\ M' = [M EXCEPT ![FR(order[i].waiter)] = order[i].cust]
            /\ UNCHANGED jammed
       ELSE /\ CookGoes(i, "prepared", "dead")
            /\ jammed' = TRUE /\ UNCHANGED M
    /\ UNCHANGED <<semaphores, order, waiters, customers, curr_time>>

(***************************************************************************)
(* Behind the array of waiters' semaphores lies that of the customers, as  *)
(* a compiler that keeps the order of the declarations places it; or there *)
(* is no semaphore.                                                        *)
(***************************************************************************)
NotifyWaiter(i) ==
    /\ CookGoes(i, "notify", "wait")
    /\ IF order[i].waiter \in Waiter
       THEN sem_waiter' = Up(sem_waiter, order[i].waiter) /\ UNCHANGED sem_customer
       ELSE /\ sem_customer' \in {sem_customer, Up(sem_customer, 1)}
            /\ UNCHANGED sem_waiter
    /\ UNCHANGED <<M, jammed, sem_cook, order, waiters, customers, curr_time>>

-----------------------------------------------------------------------------
(* A waiter                                                                *)

WaiterWakes(w) ==
    /\ Section /\ Down(sem_waiter, w)
    /\ CASE M[0] >= Closing /\ M[PO(w)] = 0 ->
                WaiterGoes(w, "wait", "gone") /\ UNCHANGED <<M, taken>>
         [] M[FR(w)] # 0 /\ ~(M[0] >= Closing /\ M[PO(w)] = 0) ->
                /\ WaiterGoes(w, "wait", "serving")
                /\ taken' = [taken EXCEPT ![w].cust = M[FR(w)]]
                /\ M' = [M EXCEPT ![FR(w)] = 0]
         [] M[FR(w)] = 0 /\ M[PO(w)] # 0 ->
                LET front == M[base(w)]
                IN  /\ WaiterGoes(w, "wait", "listening")
                    /\ taken' = [taken EXCEPT ![w] =
                                    [cust |-> M[front], count |-> M[front + 1]]]
                    /\ M' = [M EXCEPT ![base(w)] = front + 2, ![PO(w)] = @ - 1]
         [] OTHER -> WaiterGoes(w, "wait", "wait") /\ UNCHANGED <<M, taken>>
    /\ UNCHANGED <<jammed, sem_cook, sem_customer, cooks, passed, customers, curr_time>>

(* The set has 200 semaphores; only those of customers are waited for. *)
ServeFood(w) ==
    /\ WaiterGoes(w, "serving", "wait")
    /\ sem_customer' = IF taken[w].cust \in Customer
                       THEN Up(sem_customer, taken[w].cust) ELSE sem_customer
    /\ UNCHANGED <<M, jammed, sem_cook, sem_waiter, cooks, taken, passed,
                   customers, curr_time>>

TakeOrder(w) ==
    /\ \/ WaiterGoes(w, "listening", "writing")
          /\ ReadClock(<<"waiter", w>>) /\ UNCHANGED M
       \/ WaiterGoes(w, "writing", "ordering")
          /\ update_time(<<"waiter", w>>, 1) /\ UNCHANGED curr_time
    /\ UNCHANGED <<jammed, semaphores, cooks, taken, passed, customers>>

(* The back is written last, over the customer where they share a cell. *)
PassOn(w) ==
    LET back == M[kitchen + 1]
    IN  M' = [M EXCEPT ![back] = w, ![back + 1] = taken[w].cust,
                       ![back + 2] = taken[w].count,
                       ![kitchen + 1] = back + 3, ![3] = @ + 1]

QueueOrder(w) ==
    /\ Section /\ WaiterGoes(w, "ordering", "notify")
    /\ PassOn(w)
    /\ passed' = passed \cup {taken[w].cust}
    /\ UNCHANGED <<jammed, semaphores, cooks, taken, customers, curr_time>>

NotifyCook(w) ==
    /\ WaiterGoes(w, "notify", "wait")
    /\ sem_cook' = sem_cook + 1
    /\ UNCHANGED <<M, jammed, sem_waiter, sem_customer, cooks, taken, passed,
                   customers, curr_time>>

-----------------------------------------------------------------------------
(* A customer                                                              *)

TurnedAway(c) == Guests[c].arrival >= Closing \/ M[1] = 0

Arrive(c) ==
    /\ Section
    /\ IF TurnedAway(c)
       THEN CustomerGoes(c, "coming", "gone") /\ UNCHANGED <<M, waiter_id>>
       ELSE /\ CustomerGoes(c, "coming", "seated")
            /\ waiter_id' = [waiter_id EXCEPT ![c] = M[2]]
            /\ M' = [M EXCEPT ![0] = IF @ < Guests[c].arrival
                                     THEN Guests[c].arrival ELSE @,
                              ![1] = @ - 1, ![2] = (@ + 1) % Waiters]
    /\ UNCHANGED <<jammed, semaphores, cooks, waiters, curr_time>>

PlaceOrder(c) ==
    /\ Section /\ CustomerGoes(c, "seated", "placed")
    /\ LET w == waiter_id[c]
           back == M[base(w) + 1]
       IN  M' = [M EXCEPT ![back] = c, ![back + 1] = Guests[c].count,
                          ![base(w) + 1] = back + 2, ![PO(w)] = @ + 1]
    /\ UNCHANGED <<jammed, semaphores, cooks, waiters, waiter_id, curr_time>>

CallWaiter(c) ==
    /\ CustomerGoes(c, "placed", "hungry")
    /\ sem_waiter' = Up(sem_waiter, waiter_id[c])
    /\ UNCHANGED <<M, jammed, sem_cook, sem_customer, cooks, waiters,
                   waiter_id, curr_time>>

GetFood(c) ==
    /\ Down(sem_customer, c) /\ CustomerGoes(c, "hungry", "served")
    /\ UNCHANGED <<M, jammed, sem_cook, sem_waiter, cooks, waiters,
                   waiter_id, curr_time>>

Eat(c) ==
    /\ \/ CustomerGoes(c, "served", "eating")
          /\ ReadClock(<<"customer", c>>) /\ UNCHANGED M
       \/ CustomerGoes(c, "eating", "finished")
          /\ update_time(<<"customer", c>>, 30) /\ UNCHANGED curr_time
    /\ UNCHANGED <<jammed, semaphores, cooks, waiters, waiter_id>>

FreeTable(c) ==
    /\ Section /\ CustomerGoes(c, "finished", "gone")
    /\ M' = [M EXCEPT ![1] = @ + 1]
    /\ UNCHANGED <<jammed, semaphores, cooks, waiters, waiter_id, curr_time>>

-----------------------------------------------------------------------------
CookRuns(i) == CookTakes(i) \/ CookPrepares(i) \/ SetFoodReady(i) \/ NotifyWaiter(i)
WaiterRuns(w) ==
    WaiterWakes(w) \/ ServeFood(w) \/ TakeOrder(w) \/ QueueOrder(w) \/ NotifyCook(w)
CustomerRuns(c) ==
    \/ Arrive(c) \/ PlaceOrder(c) \/ CallWaiter(c)
    \/ GetFood(c) \/ Eat(c) \/ FreeTable(c)

Next ==
    \/ \E i \in Cook : CookRuns(i)
    \/ \E w \in Waiter : WaiterRuns(w)
    \/ \E c \in Customer : CustomerRuns(c)

(* Some process runs as long as one can; nobody polls. *)
FairSpec == Init /\ [][Next]_vars /\ WF_vars(Next)

-----------------------------------------------------------------------------
(***************************************************************************)
(* Tables are neither lost nor made: the empty ones and those of seated    *)
(* customers are all, whatever cell the cooks write to (customer.c:50-59,  *)
(* 86; cook.c:92).                                                         *)
(***************************************************************************)
TablesKept ==
    M[1] + Cardinality({c \in Customer : upc[c] \notin {"coming", "gone"}})
        = Tables

(***************************************************************************)
(* Until it leaves, a waiter never sleeps on work: its tokens, with those  *)
(* about to come, are at least its pending orders and the food that is     *)
(* ready, although a token sent for an order may be spent on food, one     *)
(* sent for food on an order, and food overwrites food (waiter.c:48-86).   *)
(***************************************************************************)
NoWorkAsleep ==
    \A w \in Waiter : wpc[w] # "gone" =>
        sem_waiter[w]
            + Cardinality({c \in Customer : upc[c] = "placed" /\ waiter_id[c] = w})
            + Cardinality({i \in Cook : cpc[i] = "notify" /\ order[i].waiter = w})
        >= M[PO(w)] + (IF M[FR(w)] # 0 THEN 1 ELSE 0)

(***************************************************************************)
(* The cooks' tokens and the length of their queue agree (waiter.c:77-83,  *)
(* cook.c:65-78).  So a cook that has a token never finds the queue empty, *)
(* and the way out of line 67 is never taken.                              *)
(***************************************************************************)
KitchenTokens ==
    sem_cook + Cardinality({w \in Waiter : wpc[w] = "notify"}) = M[3]

(***************************************************************************)
(* Every order is passed on to the kitchen before closing time, unless a   *)
(* cook dies (waiter.c:63-83).                                             *)
(***************************************************************************)
OrdersPassedOn ==
    \A c \in Customer :
        upc[c] = "hungry" ~> c \in passed \/ M[0] >= Closing \/ jammed
=============================================================================
