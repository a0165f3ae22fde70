-------------------------- MODULE ClientPoolProofs ---------------------------
(***************************************************************************)
(* For every kNumProcess and every number of devices: the state is well    *)
(* typed, the pool never holds more than kNumProcess + 1 processes, and    *)
(* loop_client_fork returns only when every child was reaped.              *)
(*                                                                         *)
(* PoolBounded is not inductive: that a waitpid was done for every fork    *)
(* above the limit shows in no variable.  Counted gives the bound at each  *)
(* place of the two loops; Order says who has been forked at all.          *)
(***************************************************************************)
EXTENDS ClientPool, FiniteSetTheorems, TLAPS

(* Devices are forked in order. *)
Order ==
  /\ pc = "fork"     => \A c \in Device : c >= i <=> child[c] = "unborn"
  /\ pc = "limit"    => i < n_devid /\ \A c \in Device : c > i <=> child[c] = "unborn"
  /\ pc \in {"reap", "returned"} => \A c \in Device : child[c] # "unborn"
  /\ pc # "exited"   => \A c \in Device : child[c] # "killed"

(* How many processes there may be at each place. *)
Counted ==
  LET n == Cardinality(coexisting)
  IN  /\ pc = "fork"     => n <= i /\ n <= kNumProcess
      /\ pc = "limit"    => n <= i + 1 /\ n <= kNumProcess + 1
      /\ pc = "reap"     => n <= n_devid - i /\ n <= kNumProcess
      /\ pc = "returned" => coexisting = {}
      /\ pc = "exited"   => n <= kNumProcess

IInv == TypeOK /\ Order /\ Counted

-----------------------------------------------------------------------------
(* There are finitely many devices. *)
LEMMA DeviceFinite == IsFiniteSet(Device)
<1>1. n_devid - 1 \in Int
  BY PoolAssumption
<1> QED
  BY <1>1, FS_Interval DEF Device

(* The pool is finite before and after a step, so its size is a number. *)
LEMMA PoolFinite ==
  /\ IsFiniteSet(coexisting) /\ Cardinality(coexisting) \in Nat
  /\ IsFiniteSet(coexisting') /\ Cardinality(coexisting') \in Nat
<1>1. coexisting \subseteq Device /\ coexisting' \subseteq Device
  BY DEF coexisting
<1> QED
  BY <1>1, DeviceFinite, FS_Subset, FS_CardinalityType

(* Reaping makes the pool smaller by one. *)
LEMMA ReapShrinks ==
  ASSUME TypeOK, Reap
  PROVE  /\ Cardinality(coexisting') = Cardinality(coexisting) - 1
         /\ Cardinality(coexisting) >= 1
<1>1. PICK c \in Device : child[c] = "zombie" /\ child' = [child EXCEPT ![c] = "reaped"]
  BY DEF Reap
<1>2. c \in coexisting
  BY <1>1 DEF coexisting, Coexists
<1>3. coexisting' = coexisting \ {c}
  BY <1>1 DEF coexisting, Coexists, TypeOK
<1>4. Cardinality(coexisting') = Cardinality(coexisting) - 1
  BY <1>2, <1>3, PoolFinite, FS_RemoveElement
<1>5. Cardinality(coexisting) >= 1
  BY <1>4, PoolFinite
<1> QED
  BY <1>4, <1>5

(* Reaping takes the child out of the pool for good and no other. *)
LEMMA ReapTypes ==
  ASSUME TypeOK, Reap
  PROVE  /\ child' \in [Device -> ChildState]
         /\ \A c \in Device : child'[c] = "unborn" <=> child[c] = "unborn"
         /\ \A c \in Device : child'[c] = "killed" <=> child[c] = "killed"
BY DEF TypeOK, Reap, ChildState

(* The initial state: nothing forked. *)
LEMMA InitIInv == Init => IInv
<1> SUFFICES ASSUME Init PROVE IInv
  OBVIOUS
<1>1. TypeOK
  BY PoolAssumption DEF Init, TypeOK, ChildState
<1>2. Order
  BY DEF Init, Order, Device
<1>3. coexisting = {}
  BY DEF Init, coexisting, Coexists
<1>4. Counted
  BY <1>3, FS_EmptySet, PoolAssumption DEF Counted, Init
<1> QED
  BY <1>1, <1>2, <1>4 DEF IInv

(* A fork adds the process of device i. *)
LEMMA ForkIInv ==
  ASSUME IInv, Fork
  PROVE  IInv'
<1> USE DEF IInv
<1>1. TypeOK'
  BY DEF TypeOK, Fork, ChildState
<1>2. i \in Device
  BY PoolAssumption DEF Fork, TypeOK, Device
<1>3. Order'
  BY <1>2, PoolAssumption DEF Order, Fork, TypeOK, Device
<1>4. coexisting' = coexisting \cup {i}
  BY <1>2 DEF coexisting, Coexists, Fork, TypeOK
<1>5. Cardinality(coexisting') <= Cardinality(coexisting) + 1
  BY <1>4, PoolFinite, FS_AddElement
<1>6. Counted'
  BY <1>5, PoolFinite, PoolAssumption DEF Counted, Fork, TypeOK
<1> QED
  BY <1>1, <1>3, <1>6

(* A failed fork ends the main process; the pool does not grow. *)
LEMMA ForkFailsIInv ==
  ASSUME IInv, ForkFails
  PROVE  IInv'
<1> USE DEF IInv
<1>1. TypeOK'
  BY DEF TypeOK, ForkFails, ChildState
<1>2. Order'
  BY DEF Order, ForkFails
<1>3. coexisting' \in SUBSET coexisting
  BY DEF coexisting, Coexists, ForkFails
<1>4. Cardinality(coexisting') <= Cardinality(coexisting)
  BY <1>3, PoolFinite, FS_Subset
<1>5. Counted'
  BY <1>4, PoolFinite, PoolAssumption DEF Counted, ForkFails
<1> QED
  BY <1>1, <1>2, <1>5

(* The steps of the main process around the limit. *)
LEMMA LimitIInv ==
  ASSUME IInv, NextDevice \/ WaitForOne
  PROVE  IInv'
<1> USE DEF IInv
<1>1. CASE NextDevice
  <2>1. TypeOK'
    BY <1>1, PoolAssumption DEF TypeOK, NextDevice, Order
  <2>2. Order'
    BY <1>1, PoolAssumption DEF TypeOK, NextDevice, Order, Device
  <2>3. coexisting' = coexisting
    BY <1>1 DEF coexisting, NextDevice
  <2>4. Counted'
    BY <1>1, <2>3, PoolFinite, PoolAssumption DEF Counted, NextDevice, AtLimit, TypeOK
  <2> QED
    BY <2>1, <2>2, <2>4
<1>2. CASE WaitForOne
  <2>1. TypeOK'
    BY <1>2, ReapTypes, PoolAssumption DEF TypeOK, WaitForOne, Order
  <2>2. Order'
    BY <1>2, ReapTypes, PoolAssumption DEF TypeOK, WaitForOne, Order, Device
  <2>3. Counted'
    BY <1>2, ReapShrinks, PoolFinite, PoolAssumption DEF Counted, WaitForOne, AtLimit, TypeOK
  <2> QED
    BY <2>1, <2>2, <2>3
<1> QED
  BY <1>1, <1>2

(* The second loop of the main process, which waits n_devid times. *)
LEMMA RestIInv ==
  ASSUME IInv, AllForked \/ WaitForRest \/ Return
  PROVE  IInv'
<1> USE DEF IInv
<1>1. CASE AllForked
  <2>1. coexisting' = coexisting
    BY <1>1 DEF coexisting, AllForked
  <2>2. TypeOK' /\ Order'
    BY <1>1, PoolAssumption DEF TypeOK, Order, AllForked, Device
  <2>3. Counted'
    BY <1>1, <2>1, PoolFinite, PoolAssumption DEF Counted, AllForked, TypeOK
  <2> QED
    BY <2>2, <2>3
<1>2. CASE WaitForRest
  <2>1. TypeOK'
    BY <1>2, ReapTypes, PoolAssumption DEF TypeOK, WaitForRest, Waits
  <2>2. Order'
    BY <1>2, ReapTypes DEF Order, WaitForRest
  <2>3. CASE Reap
    BY <1>2, <2>1, <2>2, <2>3, ReapShrinks, PoolFinite, PoolAssumption DEF Counted, WaitForRest, TypeOK, Waits
  <2>4. CASE coexisting = {} /\ UNCHANGED child
    <3>1. Cardinality(coexisting') = 0
      BY <2>4, FS_EmptySet DEF coexisting
    <3> QED
      BY <1>2, <2>1, <2>2, <3>1, PoolAssumption DEF Counted, WaitForRest, TypeOK, Waits
  <2> QED
    BY <1>2, <2>1, <2>2, <2>3, <2>4 DEF WaitForRest
<1>3. CASE Return
  <2>1. TypeOK' /\ Order'
    BY <1>3 DEF TypeOK, Order, Return
  <2>2. Cardinality(coexisting) = 0
    BY <1>3, PoolFinite, PoolAssumption DEF Counted, Return, TypeOK, Waits
  <2>3. coexisting' = {}
    BY <1>3, <2>2, PoolFinite, FS_EmptySet DEF coexisting, Return
  <2> QED
    BY <1>3, <2>1, <2>3 DEF Counted, Return
<1> QED
  BY <1>1, <1>2, <1>3

(* The steps of a child. *)
LEMMA ChildIInv ==
  ASSUME IInv, NEW c \in Device, Begin(c) \/ End(c)
  PROVE  IInv'
<1> USE DEF IInv
<1>1. TypeOK'
  BY DEF TypeOK, Begin, End, ChildState
<1>2. Order'
  BY DEF Order, TypeOK, Begin, End
<1>3. coexisting' \in SUBSET coexisting
  BY DEF coexisting, Coexists, Begin, End, TypeOK
<1>4. Cardinality(coexisting') <= Cardinality(coexisting)
  BY <1>3, PoolFinite, FS_Subset
<1>5. Counted'
  BY <1>3, <1>4, PoolFinite, PoolAssumption DEF Counted, Begin, End, TypeOK
<1> QED
  BY <1>1, <1>2, <1>5

(* Every step keeps the invariant. *)
LEMMA NextIInv == IInv /\ [Next]_vars => IInv'
<1> SUFFICES ASSUME IInv, [Next]_vars PROVE IInv'
  OBVIOUS
<1>1. CASE Parent
  BY <1>1, ForkIInv, ForkFailsIInv, LimitIInv, RestIInv DEF Parent
<1>2. CASE \E c \in Device : Begin(c) \/ End(c)
  BY <1>2, ChildIInv
<1>3. CASE UNCHANGED vars
  BY <1>3 DEF IInv, TypeOK, Order, Counted, coexisting, vars
<1> QED
  BY <1>1, <1>2, <1>3 DEF Next

-----------------------------------------------------------------------------
(* The variables of loop_client_fork keep their types, and its index never *)
(* leaves 0..n_devid in either loop.                                       *)
THEOREM PoolTyped == Spec => []TypeOK
<1>1. IInv => TypeOK
  BY DEF IInv
<1> QED
  BY InitIInv, NextIInv, <1>1, PTL DEF Spec

(* Never more than kNumProcess + 1 children, zombies included. *)
THEOREM Bounded == Spec => []PoolBounded
<1>1. IInv => PoolBounded
  <2> SUFFICES ASSUME IInv PROVE PoolBounded
    OBVIOUS
  <2>1. coexisting = {} => Cardinality(coexisting) = 0
    BY FS_EmptySet
  <2> QED
    BY <2>1, PoolFinite, PoolAssumption DEF IInv, Counted, PoolBounded, TypeOK
<1> QED
  BY InitIInv, NextIInv, <1>1, PTL DEF Spec

(* loop_client_fork returns only when every child has ended and was reaped. *)
THEOREM Complete == Spec => []AllReaped
<1>1. IInv => AllReaped
  BY DEF IInv, TypeOK, Order, Counted, AllReaped, coexisting, Coexists, ChildState
<1> QED
  BY InitIInv, NextIInv, <1>1, PTL DEF Spec

=============================================================================
