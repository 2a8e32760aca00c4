------------------------------- MODULE Rebuild -------------------------------
(***************************************************************************)
(* LA1's rebuild.c: a process rebuilds a foodule after it has started a    *)
(* process, and waited for it, for each dependency that the file done.txt  *)
(* does not show as rebuilt.  One process runs at a time; the others wait, *)
(* each for the next.                                                      *)
(***************************************************************************)
EXTENDS Integers, SequencesExt

CONSTANTS
    n,          \* the number of foodules
    Graphs      \* the dependencies that foodep.txt may give

(* Of each foodule, the file lists the dependencies in some order. *)
GraphAssumption == Graphs \subseteq [1 .. n -> Seq(1 .. n)]

Foodule == 1 .. n

VARIABLES
    dependencies,   \* what foodep.txt lists for each foodule
    target,         \* the foodule on the command line
    processes,      \* those that run, each the child of the one before it
    done,           \* the foodules that done.txt marks
    rebuilt,        \* history: what was printed as rebuilt, in this order
    exited          \* whether the first process has returned

vars == <<dependencies, target, processes, done, rebuilt, exited>>

Starts(deps, foodule, file) ==
    /\ dependencies = deps
    /\ target = foodule
    /\ processes = <<>>
    /\ done = file
    /\ rebuilt = <<>>
    /\ exited = FALSE

(* An earlier rebuild may have left a file. *)
Init ==
    \E deps \in Graphs, foodule \in Foodule, file \in SUBSET Foodule :
        Starts(deps, foodule, file)

-----------------------------------------------------------------------------
(* A process reads the file into its own array when it starts. *)
Begins(foodule, file) ==
    [foodule |-> foodule, remaining |-> dependencies[foodule], done |-> file]

(* Variants with a fault: every process clears the file, or none does. *)
AnyProcess == TRUE
NoProcess  == FALSE

FirstProcess == processes = <<>>

initialize_done == IF FirstProcess THEN {} ELSE done

Start(foodule) ==
    /\ done' = initialize_done
    /\ processes' = Append(processes, Begins(foodule, done'))

Main ==
    /\ processes = <<>> /\ ~exited
    /\ Start(target)
    /\ UNCHANGED <<dependencies, target, rebuilt, exited>>

Running == Last(processes)
Dependency == Head(Running.remaining)

(* strtok moves on to the next dependency. *)
MovedOn(p) == [p EXCEPT !.remaining = Tail(@)]

AlreadyRebuilt ==
    /\ processes # <<>> /\ Running.remaining # <<>>
    /\ Dependency \in Running.done
    /\ processes' = [processes EXCEPT ![Len(processes)] = MovedOn(@)]
    /\ UNCHANGED <<dependencies, target, done, rebuilt, exited>>

Fork ==
    /\ processes # <<>> /\ Running.remaining # <<>>
    /\ Dependency \notin Running.done
    /\ Start(Dependency)
    /\ UNCHANGED <<dependencies, target, rebuilt, exited>>

(* The process that waited reads the file again and moves on. *)
Woken(p, file) == [MovedOn(p) EXCEPT !.done = file]

Waked(rest, file) ==
    IF rest = <<>> THEN rest ELSE [rest EXCEPT ![Len(rest)] = Woken(@, file)]

update_done(foodule) == done \cup {foodule}

Finish ==
    /\ processes # <<>> /\ Running.remaining = <<>>
    /\ IF Running.foodule \in Running.done
       THEN UNCHANGED <<done, rebuilt>>
       ELSE /\ done' = update_done(Running.foodule)
            /\ rebuilt' = Append(rebuilt, Running.foodule)
    /\ processes' = Waked(Front(processes), done')
    /\ exited' = (Front(processes) = <<>>)
    /\ UNCHANGED <<dependencies, target>>

Next == Main \/ AlreadyRebuilt \/ Fork \/ Finish

Spec     == Init /\ [][Next]_vars
FairSpec == Spec /\ WF_vars(Next)
-----------------------------------------------------------------------------
(* The foodules that the rebuild of the target takes. *)
Needed ==
    LET Needs[S \in SUBSET Foodule] ==
            LET more == S \cup UNION {Range(dependencies[u]) : u \in S}
            IN  IF more = S THEN S ELSE Needs[more]
    IN  Needs[{target}]

(***************************************************************************)
(* A foodule is rebuilt once and after all it depends on, also when        *)
(* several share a dependency and a grandchild has rebuilt it (README:21   *)
(* "so shared dependencies are not rebuilt twice"; rebuild.c:87-99, 129).  *)
(***************************************************************************)
InOrder ==
    /\ IsInjective(rebuilt)
    /\ \A k \in DOMAIN rebuilt :
          Range(dependencies[rebuilt[k]]) \subseteq {rebuilt[j] : j \in 1 .. k - 1}

(***************************************************************************)
(* The rebuild ends with exactly what the target needs rebuilt, whatever   *)
(* an earlier one has left in done.txt (rebuild.c:84-124, 157-158).        *)
(***************************************************************************)
RebuildsAll == <>(exited /\ Range(rebuilt) = Needed)
=============================================================================
