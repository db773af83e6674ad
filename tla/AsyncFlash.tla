----------------------------- MODULE AsyncFlash -----------------------------
(***************************************************************************)
(* What include/dfu_flash.h promises, with no state machine and no         *)
(* registers: a memory and at most one job.  Start returns immediately;    *)
(* the job then changes the memory, only where it was asked to and only    *)
(* towards what was asked; it is over ("not busy") when all of it is in    *)
(* the memory, and not before.                                             *)
(***************************************************************************)
CONSTANTS Addr, Cell, Junk

VARIABLES
  mem,   \* [Addr -> Cell]
  job    \* from the addresses of the job to the contents they shall get

NoJob == [a \in {} |-> Junk]

Range == DOMAIN job

Busy == Range # {}

\* The memory with the cells of S replaced by new.
Update(S, new) == mem' = [a \in Addr |-> IF a \in S THEN new[a] ELSE mem[a]]

Init == mem \in [Addr -> Cell] /\ job = NoJob

\* A request is taken only when there is none.
Start ==
  /\ ~Busy
  /\ \E range \in (SUBSET Addr) \ {{}} : job' \in [range -> Cell]
  /\ UNCHANGED mem

Work ==
  /\ \E S \in SUBSET Range : Update(S, job)
  /\ UNCHANGED job

Finish ==
  /\ Busy
  /\ \A a \in Range : mem[a] = job[a]
  /\ job' = NoJob
  /\ UNCHANGED mem

\* Power is cut: the job is forgotten, what it was changing may be destroyed.
PowerLoss ==
  /\ \E S \in SUBSET Range : Update(S, [a \in S |-> Junk])
  /\ job' = NoJob

Next == Start \/ Work \/ Finish \/ PowerLoss

vars == <<mem, job>>

Safety == Init /\ [][Next]_vars

Spec == Safety /\ WF_vars(Work \/ Finish)
============================================================================
