--------------------------- MODULE PageAllocator ---------------------------
(***************************************************************************)
(* What the rest of the kernel expects of its physical page allocator:     *)
(* a pool of free page frames from which contiguous runs are handed out    *)
(* and to which they come back.  Nothing is said here about bitmaps,       *)
(* rovers or scan order; module PMM shows that kernel/mm/pmm.c implements  *)
(* this.                                                                   *)
(***************************************************************************)
EXTENDS Integers

CONSTANTS
  Pages,       \* the page frame numbers there are
  RunLengths   \* the lengths a caller may ask for

VARIABLES
  free,        \* the frames nobody owns
  runs,        \* the runs handed out and not yet returned
  up           \* whether the allocator has been initialised

vars == <<free, runs, up>>

Run == [first : Pages, count : RunLengths \ {0}]

PagesIn(run) == run.first .. (run.first + run.count - 1)

TypeOK ==
  /\ free \subseteq Pages
  /\ runs \subseteq Run
  /\ up \in BOOLEAN

Init ==
  /\ free = {}
  /\ runs = {}
  /\ up = FALSE

Open ==
  /\ ~up
  /\ up' = TRUE
  /\ free' \in SUBSET Pages
  /\ UNCHANGED runs

Alloc(run) ==
  /\ up
  /\ PagesIn(run) \subseteq free
  /\ free' = free \ PagesIn(run)
  /\ runs' = runs \union {run}
  /\ up' = up

Release(run) ==
  /\ run \in runs
  /\ free' = free \union PagesIn(run)
  /\ runs' = runs \ {run}
  /\ up' = up

Next ==
  \/ Open
  \/ \E run \in Run : Alloc(run) \/ Release(run)

Spec == Init /\ [][Next]_vars

(***************************************************************************)
(* No frame belongs to two owners: two runs that are both out share no     *)
(* frame, and no frame of a run that is out is in the pool (the promise    *)
(* that pmm_alloc and pmm_free make to heap.c, vmm.c and sched.c).         *)
(***************************************************************************)
Exclusive ==
  /\ \A r \in runs : PagesIn(r) \intersect free = {}
  /\ \A r, s \in runs : r # s => PagesIn(r) \intersect PagesIn(s) = {}
=============================================================================
