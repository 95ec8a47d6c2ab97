------------------------------ MODULE Ordering ------------------------------
(***************************************************************************)
(* pkg/runner/ordering.go: topologicalSort, Kahn's algorithm over the      *)
(* services registered with a Runner and the names each one depends on.    *)
(*                                                                         *)
(* The function runs under the Runner's lock, so nothing interleaves with  *)
(* it: one step is the graph construction, one step each turn of the loop. *)
(* Go iterates over a map in an arbitrary order; every such order is a     *)
(* choice below.  DependsOn is a slice: a name may occur in it twice       *)
(* (WithDependsOn appends), and then it counts twice in inDegree.          *)
(***************************************************************************)
EXTENDS Naturals, Sequences, FiniteSets

CONSTANTS
    Names,      \* the names a service or a dependency may have
    MaxDeps     \* bound on the length of one service's DependsOn

ASSUME NamesFinite == IsFiniteSet(Names)
ASSUME MaxDepsNat == MaxDeps \in Nat

VARIABLES
    registered, \* the names registered, keys of the map the function gets
    dependsOn,  \* dependsOn[n]: the DependsOn slice of service n
    stage,      \* where the function is, or what it returned
    inDegree,   \* inDegree[n]: dependencies of n that are not sorted yet
    queue,      \* services whose dependencies are all sorted
    sorted      \* the start order built so far

sortVars == <<registered, dependsOn, stage, inDegree, queue, sorted>>

-----------------------------------------------------------------------------
Elements(seq) == {seq[i] : i \in DOMAIN seq}

(* The orders in which a range over a map may visit the members of S. *)
Visits(S) ==
    {v \in [1 .. Cardinality(S) -> S] : Elements(v) = S}

(* How often n lists one of the names of D. *)
Occurrences(n, D) ==
    Cardinality({i \in DOMAIN dependsOn[n] : dependsOn[n][i] \in D})

DependencySlices == UNION {[1 .. k -> Names] : k \in 0 .. MaxDeps}

SortTypeOK ==
    /\ registered \subseteq Names
    /\ dependsOn \in [registered -> DependencySlices]
    /\ stage \in {"build", "sort", "sorted", "missing", "cycle"}
    /\ inDegree \in [registered -> Nat]
    /\ queue \in Seq(registered)
    /\ sorted \in Seq(registered)

SortInit ==
    /\ registered \in (SUBSET Names) \ {{}}
    /\ dependsOn \in [registered -> DependencySlices]
    /\ stage = "build"
    /\ inDegree = [n \in registered |-> 0]
    /\ queue = <<>>
    /\ sorted = <<>>

-----------------------------------------------------------------------------
(* Verify that every dependency is registered. *)
MissingDependency ==
    /\ stage = "build"
    /\ \E n \in registered : ~ (Elements(dependsOn[n]) \subseteq registered)
    /\ stage' = "missing"
    /\ UNCHANGED <<registered, dependsOn, inDegree, queue, sorted>>

WaitsFor(n) == Occurrences(n, registered)

(* Count each service's dependencies; the ones without any are the queue. *)
BuildGraph ==
    /\ stage = "build"
    /\ \A n \in registered : Elements(dependsOn[n]) \subseteq registered
    /\ inDegree' = [n \in registered |-> WaitsFor(n)]
    /\ queue' \in Visits({n \in registered : WaitsFor(n) = 0})
    /\ stage' = "sort"
    /\ UNCHANGED <<registered, dependsOn, sorted>>

(* What n still waits for once current is sorted: adjList[current] holds n *)
(* once for each time n lists current.                                     *)
RemainingOnce(n, current) ==        \* mutant: a repeated listing leaves only once
    inDegree[n] - (IF Occurrences(n, {current}) > 0 THEN 1 ELSE 0)

RemainingNone(n, current) ==        \* mutant: the first dependency frees n
    IF Occurrences(n, {current}) > 0 THEN 0 ELSE inDegree[n]

Remaining(n, current) == inDegree[n] - Occurrences(n, {current})

(* One turn of the loop: the head of the queue is next in the order, and    *)
(* the services that waited for nothing else join the queue.                *)
Dequeue ==
    LET current == Head(queue)
        freed == {n \in registered : inDegree[n] > 0 /\ Remaining(n, current) = 0}
    IN  /\ stage = "sort"
        /\ queue # <<>>
        /\ sorted' = Append(sorted, current)
        /\ inDegree' = [n \in registered |-> Remaining(n, current)]
        /\ \E v \in Visits(freed) : queue' = Tail(queue) \o v
        /\ UNCHANGED <<registered, dependsOn, stage>>

(* The queue is empty: a cycle exactly if some service was never sorted. *)
Finish ==
    /\ stage = "sort"
    /\ queue = <<>>
    /\ stage' = IF Len(sorted) = Cardinality(registered) THEN "sorted" ELSE "cycle"
    /\ UNCHANGED <<registered, dependsOn, inDegree, queue, sorted>>

SortNext == MissingDependency \/ BuildGraph \/ Dequeue \/ Finish

SortSpec == SortInit /\ [][SortNext]_sortVars

-----------------------------------------------------------------------------
(* The order returned is a start order: it names every service exactly     *)
(* once, and a service only after every name its DependsOn slice lists,    *)
(* whatever order the maps are ranged over and however often a name is     *)
(* listed (ordering.go:42-60).                                             *)
DependenciesFirst ==
    stage = "sorted" =>
        /\ Elements(sorted) = registered
        /\ \A i, j \in DOMAIN sorted : sorted[i] = sorted[j] => i = j
        /\ \A i \in DOMAIN sorted : \A d \in Elements(dependsOn[sorted[i]]) :
               \E j \in DOMAIN sorted : j < i /\ sorted[j] = d

(* Some services wait for each other: each lists another one of them. *)
WaitsInCircle(C) == \A n \in C : \E d \in Elements(dependsOn[n]) : d \in C

Cyclic == \E C \in (SUBSET registered) \ {{}} : WaitsInCircle(C)

(* The error for a circular dependency is returned exactly when there is   *)
(* one: a graph that could be started is never refused, not even when a    *)
(* dependency is listed twice, and a cycle is never started                *)
(* (ordering.go:58-61).                                                    *)
CycleExactlyReported ==
    /\ stage = "cycle" => Cyclic
    /\ stage = "sorted" => ~ Cyclic

=============================================================================
