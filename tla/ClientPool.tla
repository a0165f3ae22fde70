----------------------------- MODULE ClientPool ------------------------------
(***************************************************************************)
(* loop_client_fork (client/client_lib.cpp): the main process of ts forks  *)
(* one child for each device and limits how many there are at a time.      *)
(* What a child does on its connection is Terminal; here it runs until it  *)
(* ends, or until the SIGHUP it asked for when its parent dies.            *)
(***************************************************************************)
EXTENDS Naturals, FiniteSets

CONSTANTS kNumProcess,  \* the limit of client_lib.hpp
          n_devid,      \* how many devices to emulate
          ForkMayFail   \* may fork() return -1?

ASSUME PoolAssumption == /\ kNumProcess \in Nat
                         /\ n_devid \in Nat
                         /\ ForkMayFail \in BOOLEAN

VARIABLES pc,     \* the loop of loop_client_fork
          i,      \* its index
          child   \* child[c]: the process of device begin_dev_id + c

vars == <<pc, i, child>>

Device == 0..(n_devid - 1)

(* A zombie has ended and holds its place in the process table. *)
ChildState == {"unborn", "forked", "talking", "zombie", "reaped", "killed"}

Coexists(s) == s \in {"forked", "talking", "zombie"}

coexisting == {c \in Device : Coexists(child[c])}

Init == /\ pc = "fork"
        /\ i = 0
        /\ child = [c \in Device |-> "unborn"]

Fork ==
  /\ pc = "fork"
  /\ i < n_devid
  /\ child' = [child EXCEPT ![i] = "forked"]
  /\ pc' = "limit"
  /\ UNCHANGED i

(* graceful() exits the main process: the kernel sends SIGHUP to every     *)
(* child that has made its prctl() call, and nothing handles it.           *)
ForkFails ==
  /\ ForkMayFail
  /\ pc = "fork"
  /\ i < n_devid
  /\ pc' = "exited"
  /\ child' = [c \in Device |-> IF child[c] = "talking" THEN "killed" ELSE child[c]]
  /\ UNCHANGED i

(* Variant for the checks: the limit is tested one process late. *)
OverLimitByOne == i > kNumProcess

AtLimit == i >= kNumProcess

NextDevice ==
  /\ pc = "limit"
  /\ ~AtLimit
  /\ i' = i + 1
  /\ pc' = "fork"
  /\ UNCHANGED child

(* Variant for the checks: waitpid(pid, ...) for the oldest process. *)
ReapOldest == \E c \in Device : /\ child[c] = "zombie"
                                /\ \A d \in 0..c : d # c => ~Coexists(child[d])
                                /\ child' = [child EXCEPT ![c] = "reaped"]

(* waitpid(-1, NULL, 0): whichever child has ended; it blocks until one has. *)
Reap == \E c \in Device : /\ child[c] = "zombie"
                          /\ child' = [child EXCEPT ![c] = "reaped"]

WaitForOne ==
  /\ pc = "limit"
  /\ AtLimit
  /\ Reap
  /\ i' = i + 1
  /\ pc' = "fork"

(* Variant for the checks: only kNumProcess children are left to wait for. *)
FewerWaits == n_devid - kNumProcess

(* Variant for the checks: <= for <. *)
OneMoreWait == n_devid + 1

(* max(n_devid - kNumProcess, n_devid). *)
Waits == n_devid

AllForked ==
  /\ pc = "fork"
  /\ i = n_devid
  /\ pc' = "reap"
  /\ i' = 0
  /\ UNCHANGED child

(* Variant for the checks: every round takes a child. *)
WaitForEach ==
  /\ pc = "reap"
  /\ i < Waits
  /\ Reap
  /\ i' = i + 1
  /\ UNCHANGED pc

(* waitpid(-1) returns at once when no child is left. *)
WaitForRest ==
  /\ pc = "reap"
  /\ i < Waits
  /\ \/ Reap
     \/ coexisting = {} /\ UNCHANGED child
  /\ i' = i + 1
  /\ UNCHANGED pc

Return ==
  /\ pc = "reap"
  /\ i >= Waits
  /\ pc' = "returned"
  /\ UNCHANGED <<i, child>>

-----------------------------------------------------------------------------
(* The child has called prctl(PR_SET_PDEATHSIG, SIGHUP). *)
Begin(c) ==
  /\ child[c] = "forked"
  /\ child' = [child EXCEPT ![c] = "talking"]
  /\ UNCHANGED <<pc, i>>

(* exit(0) after the session, or the end of an orphan that init reaps. *)
End(c) ==
  /\ child[c] = "talking"
  /\ child' = [child EXCEPT ![c] = IF pc = "exited" THEN "reaped" ELSE "zombie"]
  /\ UNCHANGED <<pc, i>>

Parent == Fork \/ ForkFails \/ NextDevice \/ WaitForOne \/ AllForked \/ WaitForRest \/ Return

Next == Parent \/ \E c \in Device : Begin(c) \/ End(c)

Spec == Init /\ [][Next]_vars

(* The kernel schedules every process.  A session may take for ever, and   *)
(* the one of device 0 may be such a session.                              *)
Fairness == /\ WF_vars(Parent)
            /\ \A c \in Device : WF_vars(Begin(c))
            /\ \A c \in Device \ {0} : WF_vars(End(c))

FairSpec == Spec /\ Fairness

-----------------------------------------------------------------------------
TypeOK == /\ pc \in {"fork", "limit", "reap", "returned", "exited"}
          /\ i \in 0..n_devid
          /\ child \in [Device -> ChildState]

(* The processes of the pool, zombies included, are never more than one    *)
(* above kNumProcess: the limit is looked at after the fork.               *)
PoolBounded == Cardinality(coexisting) <= kNumProcess + 1

(* loop_client_fork returns, and ts writes the duration of the whole work  *)
(* to its log, when the process of every device has ended and was reaped.  *)
AllReaped == pc = "returned" => \A c \in Device : child[c] = "reaped"

(* When no session lasts for ever, the main process does not wait for ever *)
(* either: it makes n_devid waits although most children are gone by then. *)
Returns == (child[0] = "talking" ~> child[0] # "talking") => <>(pc \in {"returned", "exited"})

(* One session that never ends keeps one place of the pool and no other    *)
(* device from being served: every other child gets its turn and ends.     *)
OthersServed == <>(pc = "exited" \/ \A c \in Device \ {0} : child[c] \in {"zombie", "reaped"})

=============================================================================
