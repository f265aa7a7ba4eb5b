-------------------------- MODULE DownloadService --------------------------
(***************************************************************************)
(* What HTTPDownloader promises its callers, without threads or flags.     *)
(* A request accepted at a priority waits behind the older requests of     *)
(* that priority, is started in that order, is reported to its requester   *)
(* once, and only then is its HttpItem released.  At most Capacity         *)
(* requests are between start and release.                                 *)
(*                                                                         *)
(* HttpDownloader implements this specification (Implements, there).       *)
(***************************************************************************)
EXTENDS Naturals, Sequences, FiniteSets

CONSTANTS Item,       \* the requests (HttpItem objects)
          Priority,   \* the priorities, 0 the most urgent
          PriorityOf, \* the priority each request was given
          Capacity    \* how many requests may be started and not released

VARIABLES pending,    \* pending[p]: the accepted requests of priority p, oldest first
          active,     \* started, and not yet released
          reports,    \* how often DownloadCompleted was called for each request
          released    \* these HttpItems were deleted

svars == <<pending, active, reports, released>>

Waiting == UNION {{pending[p][k] : k \in 1 .. Len(pending[p])} : p \in Priority}
Known   == Waiting \cup active \cup released

Init == /\ pending = [p \in Priority |-> << >>]
        /\ active = {}
        /\ reports = [i \in Item |-> 0]
        /\ released = {}

Accept(i) ==
    /\ i \notin Known
    /\ pending' = [pending EXCEPT ![PriorityOf[i]] = Append(@, i)]
    /\ UNCHANGED <<active, reports, released>>

Start(p) ==
    /\ pending[p] # << >>
    /\ Cardinality(active) < Capacity
    /\ pending' = [pending EXCEPT ![p] = Tail(@)]
    /\ active' = active \cup {Head(pending[p])}
    /\ UNCHANGED <<reports, released>>

Report(i) ==
    /\ i \in active /\ reports[i] = 0
    /\ reports' = [reports EXCEPT ![i] = 1]
    /\ UNCHANGED <<pending, active, released>>

Release(i) ==
    /\ i \in active /\ reports[i] = 1
    /\ active' = active \ {i}
    /\ released' = released \cup {i}
    /\ UNCHANGED <<pending, reports>>

Next == \/ \E i \in Item : Accept(i) \/ Report(i) \/ Release(i)
        \/ \E p \in Priority : Start(p)

Spec == Init /\ [][Next]_svars

=============================================================================
