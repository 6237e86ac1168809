---------------------- MODULE RealTimeControlUnit_proofs ----------------------
(***************************************************************************)
(* What holds of the real-time control unit for any set of values and any  *)
(* number of requests at once.                                             *)
(***************************************************************************)
EXTENDS RealTimeControlUnit, SequenceTheorems, TLAPS

\* A thread waits at most once in the queue of the driver.
QueueInv ==
  /\ \A i \in 1..Len(queue) : at[queue[i]] = "wait"
  /\ \A i, j \in 1..Len(queue) : i # j => queue[i] # queue[j]

\* While the requests do not overlap there is at most one at work; it has
\* its change listed until the driver has read in_1.  Overlapping requests
\* that all found their change listed leave the driver with in_1 unless one
\* of them has its message still to be executed.  Both hold once a message was
\* executed since the driver was initialised: before that it holds the seed.
Pending == \E s \in Setters : at[s] \in {"called", "send", "wait"}

RequestInv ==
  /\ ~overlapped =>
       /\ \A s, t \in Setters : s # t => at[s] = "idle" \/ at[t] = "idle"
       /\ \A s \in Setters : at[s] \in {"called", "send", "wait"} => changed
       /\ \A s \in Setters : applied /\ at[s] = "answered" => channel = in1
  /\ ~missed /\ applied => channel = in1 \/ Pending

RInv == TypeOK /\ QueueInv /\ RequestInv /\ SetpointApplied /\ SeedUntilSet /\ ListCleared

\* A unit that was just defined is in the invariant.
LEMMA InitRInv == Init => RInv
<1> SUFFICES ASSUME Init PROVE RInv
  OBVIOUS
<1>1. TypeOK
  <2>1. queue \in Seq(Threads)
    BY DEF Init
  <2>2. at \in [Threads -> {"idle", "called", "send", "wait", "answered"}]
    BY DEF Init
  <2>3. QED
    BY <2>1, <2>2 DEF Init, TypeOK
<1>2. QueueInv
  BY DEF Init, QueueInv
<1>3. RequestInv /\ SetpointApplied /\ SeedUntilSet /\ ListCleared
  BY DEF Init, RequestInv, SetpointApplied, SeedUntilSet, ListCleared, Quiescent, Threads
<1>4. QED
  BY <1>1, <1>2, <1>3 DEF RInv

\* Appending a thread that is not waiting, removing the first one.
LEMMA QueueSend ==
  ASSUME TypeOK, QueueInv, NEW t \in Threads, at[t] # "wait",
         queue' = Append(queue, t), at' = [at EXCEPT ![t] = "wait"]
  PROVE  QueueInv' /\ queue' \in Seq(Threads)
<1>1. /\ Len(queue') = Len(queue) + 1 /\ Len(queue) \in Nat
      /\ queue'[Len(queue) + 1] = t
      /\ \A i \in 1..Len(queue) : queue'[i] = queue[i] /\ queue[i] \in Threads
  BY DEF TypeOK
<1>2. \A i \in 1..Len(queue) : queue[i] # t
  BY DEF QueueInv
<1>3. QED
  BY <1>1, <1>2 DEF QueueInv, TypeOK

\* Executing the message at the head keeps one message per waiting thread.
LEMMA QueueExec ==
  ASSUME TypeOK, QueueInv, queue # <<>>, queue' = Tail(queue),
         at' = [at EXCEPT ![Head(queue)] = "answered"]
  PROVE  QueueInv' /\ queue' \in Seq(Threads) /\ Head(queue) \in Threads
         /\ at[Head(queue)] = "wait"
<1>1. /\ Len(queue) \in Nat \ {0} /\ Len(queue') = Len(queue) - 1
      /\ \A i \in 1..Len(queue') : queue'[i] = queue[i + 1]
      /\ Head(queue) = queue[1] /\ queue' \in Seq(Threads)
      /\ \A i \in 1..Len(queue) : queue[i] \in Threads
  BY DEF TypeOK
<1>2. \A i \in 1..Len(queue') : queue'[i] # Head(queue)
  BY <1>1 DEF QueueInv
<1>3. QED
  BY <1>1, <1>2 DEF QueueInv, TypeOK

\* Every action of the unit, its requests and its driver keeps the invariant.
LEMMA StepRInv == RInv /\ [Next]_vars => RInv'
<1> SUFFICES ASSUME RInv, [Next]_vars PROVE RInv'
  OBVIOUS
<1> USE SettersAssumption
    DEF RInv, TypeOK, RequestInv, SetpointApplied, SeedUntilSet, ListCleared, Quiescent,
        Pending, Lost, history, Threads
<1>1. CASE UnitInit \/ UnitStart \/ UnitStop \/ UnitDeinit
  <2>1. CASE UnitInit
    BY <1>1, <2>1 DEF UnitInit, Readable, Seeded, QueueInv
  <2>2. CASE UnitStart
    BY <1>1, <2>2 DEF UnitStart, QueueInv
  <2>3. CASE UnitStop
    BY <1>1, <2>3 DEF UnitStop, QueueInv
  <2>4. CASE UnitDeinit
    BY <1>1, <2>4 DEF UnitDeinit, QueueInv
  <2>5. QED
    BY <1>1, <2>1, <2>2, <2>3, <2>4
<1>2. ASSUME NEW s \in Setters, SetInput(s) PROVE RInv'
  BY <1>2 DEF SetInput, QueueInv
<1>3. ASSUME NEW s \in Setters, GetChanged(s) PROVE RInv'
  BY <1>3 DEF GetChanged, QueueInv
<1>4. ASSUME NEW s \in Setters, SendSet(s) PROVE RInv'
  <2>1. QueueInv' /\ queue' \in Seq(Threads)
    BY <1>4, QueueSend DEF SendSet
  <2>2. QED
    BY <1>4, <2>1 DEF SendSet
<1>5. ASSUME NEW s \in Setters, ResetChanged(s) PROVE RInv'
  <2>1. TypeOK' /\ ListCleared' /\ SetpointApplied' /\ SeedUntilSet'
    BY <1>5 DEF ResetChanged, Cleared
  <2>2. QueueInv'
    BY <1>5 DEF ResetChanged, QueueInv
  <2>3. RequestInv'
    BY <1>5 DEF ResetChanged
  <2>4. QED
    BY <2>1, <2>2, <2>3
<1>6. CASE RunSend
  <2>1. QueueInv' /\ queue' \in Seq(Threads)
    BY <1>6, QueueSend DEF RunSend
  <2>2. QED
    BY <1>6, <2>1 DEF RunSend
<1>7. CASE RunReturn
  BY <1>7 DEF RunReturn, QueueInv
<1>8. CASE DriverExec
  <2>1. /\ QueueInv' /\ queue' \in Seq(Threads)
        /\ Head(queue) \in Threads /\ at[Head(queue)] = "wait"
    BY <1>8, QueueExec DEF DriverExec
  <2>2. CASE ExecSet
    BY <1>8, <2>1, <2>2 DEF DriverExec, ExecSet
  <2>3. CASE ExecGet
    <3>1. /\ at' = [at EXCEPT ![Run] = "answered"]
          /\ \A s \in Setters : at'[s] = at[s]
      BY <1>8, <2>1, <2>3 DEF DriverExec, ExecGet
    <3>2. RequestInv' /\ SetpointApplied' /\ SeedUntilSet' /\ ListCleared'
      BY <1>8, <2>1, <2>3, <3>1 DEF DriverExec, ExecGet
    <3>3. QED
      BY <1>8, <2>1, <2>3, <3>2 DEF DriverExec, ExecGet
  <2>4. QED
    BY <1>8, <2>2, <2>3 DEF DriverExec
<1>9. CASE UNCHANGED vars
  BY <1>9 DEF vars, QueueInv
<1>10. QED
  BY <1>1, <1>2, <1>3, <1>4, <1>5, <1>6, <1>7, <1>8, <1>9 DEF Next, Handler, RunThread

\* The inductive invariant of the unit.
THEOREM RInvariance == Spec => []RInv
  BY InitRInv, StepRInv, PTL DEF Spec

\* The driver holds the set point when no request is at work, for any number
\* of request threads, unless the last request met another one and a request
\* found its change cleared; a unit that was initialised again meanwhile is no
\* exception once the driver has executed a message.
THEOREM SetpointHeld == Spec => []SetpointApplied
<1>1. RInv => SetpointApplied
  BY DEF RInv
<1>2. QED
  BY <1>1, RInvariance, PTL

\* The driver of a unit that was initialised again holds its seed until it has
\* executed the message of a request, for any number of request threads at any
\* position of their handlers.
THEOREM SeedHeld == Spec => []SeedUntilSet
<1>1. RInv => SeedUntilSet
  BY DEF RInv
<1>2. QED
  BY <1>1, RInvariance, PTL

\* The list of changes is empty when no request is at work, overlap or not.
THEOREM ListAlwaysCleared == Spec => []ListCleared
<1>1. RInv => ListCleared
  BY DEF RInv
<1>2. QED
  BY <1>1, RInvariance, PTL

\* Every variable keeps its type.
THEOREM RTypeCorrect == Spec => []TypeOK
<1>1. RInv => TypeOK
  BY DEF RInv
<1>2. QED
  BY <1>1, RInvariance, PTL
=============================================================================
