------------------------ MODULE SlowControlUnit_proofs ------------------------
(***************************************************************************)
(* What holds of the slow control unit for every width of the ints, every  *)
(* set of parameters and attribute values, every heap and queue bound.     *)
(***************************************************************************)
EXTENDS SlowControlUnit, FiniteSetTheorems, TLAPS

-----------------------------------------------------------------------------
(* The arithmetic of the handlers. *)

\* The ints are integers, and 0, the initial value of everything, is one.
LEMMA IntsFacts == Ints \subseteq Int /\ 0 \in Ints
  BY ConstantsAssumption DEF Ints

\* Two's complement wrapping stays in the range of an int.
LEMMA WrapType == \A n \in Int : Wrap(n) \in Ints
<1> SUFFICES ASSUME NEW n \in Int PROVE Wrap(n) \in Ints
  OBVIOUS
<1> DEFINE width == IntMax - IntMin + 1
<1>1. width \in Nat \ {0}
  BY ConstantsAssumption
<1>2. (n - IntMin) % width \in 0..(width - 1)
  BY <1>1, ConstantsAssumption
<1>3. QED
  BY <1>2, ConstantsAssumption DEF Wrap, Ints

\* A truncated rand_max is an int.
LEMMA TruncType == \A r \in RandMaxes : Trunc(r) \in Ints
  BY ConstantsAssumption DEF Trunc, Ints

\* What OP_2 draws is an int between 0 and its parameter.
LEMMA DrawnRange ==
  \A n \in Ints : Drawn(n) \subseteq Ints /\ Drawn(n) \subseteq 0..n \cup n..0
  BY ConstantsAssumption DEF Drawn, Ints

\* The cast of a timeout to an unsigned type is a natural number.
LEMMA UnsignedType == \A t \in Timeouts : Unsigned(t) \in Nat
<1> SUFFICES ASSUME NEW t \in Timeouts PROVE Unsigned(t) \in Nat
  OBVIOUS
<1>1. t \in Int /\ UintModulus \in Nat \ {0}
  BY ConstantsAssumption DEF Ints
<1>2. t % UintModulus \in 0..(UintModulus - 1)
  BY <1>1
<1>3. QED
  BY <1>2 DEF Unsigned

\* The heap is finite, so its size is a number.
LEMMA LiveFinite ==
  ASSUME TypeOK
  PROVE  IsFiniteSet(live) /\ Cardinality(live) \in Nat
  BY FS_Subset, FS_CardinalityType, ConstantsAssumption DEF TypeOK

\* Two distinct blocks more, two blocks less.
LEMMA TwoBlocksMore ==
  ASSUME NEW S, IsFiniteSet(S), NEW i, i \notin S, NEW o, o \notin S \cup {i}
  PROVE  Cardinality(S \cup {i, o}) = Cardinality(S) + 2
<1>1. Cardinality(S) \in Nat
  BY FS_CardinalityType
<1>2. IsFiniteSet(S \cup {i}) /\ Cardinality(S \cup {i}) = Cardinality(S) + 1
  BY FS_AddElement
<1>3. Cardinality((S \cup {i}) \cup {o}) = Cardinality(S \cup {i}) + 1
  BY <1>2, FS_AddElement
<1>4. (S \cup {i}) \cup {o} = S \cup {i, o}
  OBVIOUS
<1>5. QED
  BY <1>1, <1>2, <1>3, <1>4

\* The two frees of op2 take two buffers away.
LEMMA TwoBlocksLess ==
  ASSUME NEW S, IsFiniteSet(S), NEW i \in S, NEW o \in S \ {i}
  PROVE  Cardinality(S \ {i, o}) = Cardinality(S) - 2
<1>1. Cardinality(S) \in Nat
  BY FS_CardinalityType
<1>2. IsFiniteSet(S \ {i}) /\ Cardinality(S \ {i}) = Cardinality(S) - 1
  BY FS_RemoveElement
<1>3. Cardinality((S \ {i}) \ {o}) = Cardinality(S \ {i}) - 1
  BY <1>2, FS_RemoveElement
<1>4. (S \ {i}) \ {o} = S \ {i, o}
  OBVIOUS
<1>5. QED
  BY <1>1, <1>2, <1>3, <1>4

-----------------------------------------------------------------------------
(* The inductive invariant, one lemma per thread. *)

\* A unit that was just defined is in the invariant.
LEMMA InitInv == Init => IInv
<1> SUFFICES ASSUME Init PROVE IInv
  OBVIOUS
<1>1. TypeOK
  BY IntsFacts DEF Init, TypeOK, NoFire, Fire, NoMessage, Message
<1>2. LifeCycleInv /\ PositionInv /\ NoNullDriver
  BY DEF Init, LifeCycleInv, PositionInv, NoNullDriver, NoFire
<1>3. SendInv
  BY ConstantsAssumption DEF Init, SendInv, Commands
<1>4. HeapInv
  BY FS_EmptySet DEF Init, HeapInv, Held
<1>5. QED
  BY <1>1, <1>2, <1>3, <1>4 DEF IInv

\* The RPC thread never touches what a handler in progress relies on.
LEMMA RpcInv == IInv /\ Rpc => IInv'
<1> SUFFICES ASSUME IInv, Rpc PROVE IInv'
  OBVIOUS
<1> USE ConstantsAssumption
    DEF IInv, TypeOK, LifeCycleInv, PositionInv, SendInv, HeapInv, Held,
        NoNullDriver, heap, attributes, Commands
<1>1. CASE UnitInit
  BY <1>1 DEF UnitInit, Acceptable
<1>2. CASE UnitStart
  BY <1>2 DEF UnitStart, NewDefault, NoMessage, Message
<1>3. CASE UnitStop
  <2>1. fire' \in Fire
    BY <1>3, IntsFacts DEF UnitStop, NoFire, Fire
  <2>2. QED
    BY <1>3, <2>1 DEF UnitStop, NoFire
<1>4. CASE UnitDeinit
  BY <1>4 DEF UnitDeinit
<1>5. CASE SetAttribute
  BY <1>5 DEF SetAttribute
<1>6. CASE Submit
  <2>1. pending' \in Seq(Ints \cup {NoParm})
    BY <1>6 DEF Submit
  <2>2. QED
    BY <1>6, <2>1 DEF Submit
<1>7. QED
  BY <1>1, <1>2, <1>3, <1>4, <1>5, <1>6 DEF Rpc

\* The driver writes a result only where its waiting sender expects one.
LEMMA DriverInv == IInv /\ DriverExec => IInv'
<1> SUFFICES ASSUME IInv, DriverExec PROVE IInv'
  OBVIOUS
<1> USE ConstantsAssumption
    DEF DriverExec, IInv, TypeOK, LifeCycleInv, PositionInv, SendInv, HeapInv,
        Held, NoNullDriver, heap, attributes, Commands
<1>1. CASE sent = "fire"
  BY <1>1
<1>2. CASE sent = "default"
  <2> DEFINE m == message["default"]
  <2>1. PICK x \in Drawn(mem[m.inputData]) : mem' = [mem EXCEPT ![m.resultData] = x]
    BY <1>2
  <2>2. mem[m.inputData] \in Ints /\ m.resultData # m.inputData
    BY <1>2
  <2>3. x \in Ints
    BY <2>1, <2>2, DrawnRange
  <2>4. mem'[m.resultData] = x /\ mem'[m.inputData] = mem[m.inputData]
    BY <1>2, <2>1, <2>2
  <2>5. QED
    BY <1>2, <2>1, <2>3, <2>4
<1>3. QED
  BY <1>1, <1>2

-----------------------------------------------------------------------------
(* The default command. *)

\* op2 allocates two buffers that are neither in use nor the same one.
LEMMA Op2SendInv ==
  ASSUME IInv, DefaultAcquire,
         NEW i \in Block \ live, NEW o \in Block \ (live \cup {i}), Op2Send(i, o)
  PROVE  IInv'
<1>1. Cardinality(live') = Cardinality(live) + 2
  <2>1. live' = live \cup {i, o} /\ i \notin live /\ o \notin live \cup {i}
    BY DEF Op2Send
  <2>2. QED
    BY <2>1, LiveFinite, TwoBlocksMore DEF IInv
<1>2. HeapInv'
  BY <1>1 DEF DefaultAcquire, Op2Send, HeapInv, Held, IInv, TypeOK
<1>3. TypeOK'
  BY TruncType, ConstantsAssumption
     DEF DefaultAcquire, Op2Send, Op2Message, IInv, TypeOK, Message, Commands, attributes
<1>4. QED
  BY <1>2, <1>3, TruncType, ConstantsAssumption
     DEF DefaultAcquire, Op2Send, Op2Message, IInv, LifeCycleInv, PositionInv,
         SendInv, NoNullDriver, TypeOK, Message, Commands, attributes

\* When a malloc fails, the block that leaks is the one that is counted.
LEMMA Op2NoMemoryInv ==
  ASSUME IInv, DefaultAcquire, Op2NoMemory
  PROVE  IInv'
<1>1. HeapInv'
  <2>1. CASE UNCHANGED heap
    BY <2>1 DEF DefaultAcquire, Op2NoMemory, NewDefault, HeapInv, Held, IInv, heap
  <2>2. ASSUME NEW i \in Block \ live, live' = live \cup {i}, lost' = lost + 1
        PROVE  HeapInv'
    <3>1. Cardinality(live') = Cardinality(live) + 1
      BY <2>2, LiveFinite, FS_AddElement DEF IInv
    <3>2. QED
      BY <2>2, <3>1 DEF DefaultAcquire, Op2NoMemory, NewDefault, HeapInv, Held, IInv, TypeOK
  <2>3. QED
    BY <2>1, <2>2 DEF Op2NoMemory
<1>2. TypeOK'
  BY DEF DefaultAcquire, Op2NoMemory, NewDefault, NoMessage, IInv, TypeOK, Message,
         Commands, attributes, heap
<1>3. QED
  BY <1>1, <1>2, ConstantsAssumption
     DEF DefaultAcquire, Op2NoMemory, NewDefault, IInv, LifeCycleInv, PositionInv,
         SendInv, NoNullDriver, TypeOK, heap, Commands, attributes

\* acquireHandler of the default command up to the send, or up to a failed malloc.
LEMMA DefaultAcquireInv == IInv /\ DefaultAcquire => IInv'
  BY Op2SendInv, Op2NoMemoryInv DEF DefaultAcquire

\* Both buffers are given back, and the result that is published was written.
LEMMA DefaultReturnInv == IInv /\ DefaultReturn => IInv'
<1> SUFFICES ASSUME IInv, DefaultReturn PROVE IInv'
  OBVIOUS
<1> DEFINE m == message["default"]
<1>1. HeapInv'
  <2>1. /\ m.inputData \in live /\ m.resultData \in live \ {m.inputData}
        /\ Cardinality(live) = lost + 2
    BY DEF DefaultReturn, IInv, SendInv, HeapInv, Held
  <2>2. live' = live \ {m.inputData, m.resultData}
    BY DEF DefaultReturn, Free
  <2>3. Cardinality(live') = Cardinality(live) - 2
    BY <2>1, <2>2, LiveFinite, TwoBlocksLess DEF IInv
  <2>4. Cardinality(live') = lost
    BY <2>1, <2>3 DEF IInv, TypeOK
  <2>5. QED
    BY <2>4 DEF DefaultReturn, HeapInv, Held, IInv, TypeOK
<1>2. TypeOK'
  BY DrawnRange DEF DefaultReturn, Free, IInv, TypeOK, SendInv, attributes
<1>3. QED
  BY <1>1, <1>2, ConstantsAssumption
     DEF DefaultReturn, Free, IInv, LifeCycleInv, PositionInv, SendInv,
         NoNullDriver, TypeOK, heap, attributes, Commands

-----------------------------------------------------------------------------
(* The fire command. *)

\* The scheduler takes a fire command from the sandbox.
LEMMA StartFireInv == IInv /\ StartFire => IInv'
<1> SUFFICES ASSUME IInv, StartFire PROVE IInv'
  OBVIOUS
<1>1. /\ pending' \in Seq(Ints \cup {NoParm})
      /\ Head(pending) \in Ints \cup {NoParm}
  BY DEF StartFire, IInv, TypeOK
<1>2. \A p \in Ints \cup {NoParm} : [NoFire EXCEPT !.parm = p] \in Fire
  BY IntsFacts DEF Fire, NoFire
<1>3. fire' \in Fire
  BY <1>1, <1>2 DEF StartFire
<1>4. QED
  BY <1>1, <1>3, ConstantsAssumption
     DEF StartFire, NoMessage, Message, NoFire, IInv, TypeOK, LifeCycleInv,
         PositionInv, SendInv, HeapInv, Held, NoNullDriver, heap, attributes, Commands

\* op1 sends the parameter of a well formed command in a fresh buffer.
LEMMA Op1SendInv ==
  ASSUME IInv, FireOp1, NEW i \in Block \ live,
         live' = live \cup {i},
         mem' = [mem EXCEPT ![i] = fire.parm],
         message' = [message EXCEPT !["fire"] = Op1Message(i)],
         sent' = "fire", pc' = "fireWait", UNCHANGED <<fire, lost>>
  PROVE  IInv'
<1>1. HeapInv'
  <2>1. Cardinality(live') = Cardinality(live) + 1
    BY LiveFinite, FS_AddElement DEF IInv
  <2>2. QED
    BY <2>1 DEF FireOp1, HeapInv, Held, IInv, TypeOK
<1>2. /\ message' \in [Commands -> Message]
      /\ message'["fire"].opcode = "OP_1" /\ message'["fire"].inputData = i
  <2>1. message["fire"] \in Message
    BY DEF IInv, TypeOK, Commands
  <2>2. /\ Op1Message(i) \in Message
        /\ Op1Message(i).opcode = "OP_1" /\ Op1Message(i).inputData = i
    BY <2>1 DEF Op1Message, Message
  <2>3. QED
    BY <2>2 DEF IInv, TypeOK, Commands
<1>3. TypeOK'
  BY <1>2, ConstantsAssumption
     DEF FireOp1, IInv, TypeOK, PositionInv, Fire, Commands, attributes
<1>4. QED
  BY <1>1, <1>2, <1>3, ConstantsAssumption
     DEF FireOp1, IInv, LifeCycleInv, PositionInv, SendInv, NoNullDriver, TypeOK,
         heap, attributes, Commands

\* setHandler of fire: op1 up to the send, or up to a failed malloc.
LEMMA FireOp1Inv == IInv /\ FireOp1 => IInv'
<1> SUFFICES ASSUME IInv, FireOp1 PROVE IInv'
  OBVIOUS
<1>1. CASE /\ pc' = "idle"
           /\ fire' = [fire EXCEPT !.property = "fault"]
           /\ UNCHANGED <<message, sent, heap>>
  BY <1>1, ConstantsAssumption
     DEF FireOp1, Fire, IInv, TypeOK, LifeCycleInv, PositionInv, SendInv, HeapInv,
         Held, NoNullDriver, heap, attributes, Commands
<1>2. QED
  BY <1>1, Op1SendInv DEF FireOp1

\* setHandler of fire after the driver has answered: the buffer is freed.
LEMMA FireOp1ReturnInv == IInv /\ FireOp1Return => IInv'
<1> SUFFICES ASSUME IInv, FireOp1Return PROVE IInv'
  OBVIOUS
<1>1. HeapInv'
  <2>1. message["fire"].inputData \in live /\ Cardinality(live) = lost + 1
    BY DEF FireOp1Return, IInv, SendInv, HeapInv, Held
  <2>2. Cardinality(live') = Cardinality(live) - 1
    BY <2>1, LiveFinite, FS_RemoveElement DEF IInv, FireOp1Return, Free, Op1Buffers
  <2>3. QED
    BY <2>1, <2>2 DEF FireOp1Return, HeapInv, Held, IInv, TypeOK
<1>2. fire' \in Fire
  <2>1. fire.parm \in Ints
    BY DEF FireOp1Return, IInv, PositionInv, TypeOK, Fire
  <2>2. Wrap(fire.parm + 1) \in Ints
    <3>1. fire.parm \in Int
      BY <2>1, IntsFacts
    <3>2. fire.parm + 1 \in Int
      BY <3>1
    <3>3. QED
      BY <3>2, WrapType
  <2>3. QED
    BY <2>2 DEF FireOp1Return, IInv, TypeOK, Fire
<1>3. TypeOK'
  BY <1>2 DEF FireOp1Return, Free, IInv, TypeOK, attributes
<1>4. QED
  BY <1>1, <1>3, ConstantsAssumption
     DEF FireOp1Return, Free, IInv, LifeCycleInv, PositionInv, SendInv,
         NoNullDriver, TypeOK, Fire, heap, attributes, Commands

\* acquireHandler of fire counts one up, wrapping at the end of the ints.
LEMMA FireAcquireInv == IInv /\ FireAcquire => IInv'
<1> SUFFICES ASSUME IInv, FireAcquire PROVE IInv'
  OBVIOUS
<1> DEFINE next == CountUp(fire.cnt)
<1> DEFINE age == IF fire.limit = NULL THEN 0 ELSE fire.elapsed + 1
<1>1. next \in Ints
  <2>1. fire.cnt + 1 \in Int
    <3>1. fire.cnt \in Ints
      BY DEF IInv, TypeOK, Fire
    <3>2. fire.cnt \in Int
      BY <3>1, IntsFacts
    <3>3. QED
      BY <3>2
  <2>2. QED
    BY <2>1, WrapType DEF CountUp
<1>2. age \in Nat
  BY DEF IInv, TypeOK, Fire
<1>3. fire' = [fire EXCEPT !.cnt = next, !.elapsed = age]
  BY DEF FireAcquire
<1>4. fire' \in Fire
  <2> HIDE DEF next, age
  <2> QED
    BY <1>1, <1>2, <1>3 DEF IInv, TypeOK, Fire
<1>5. QED
  BY <1>4, ConstantsAssumption
     DEF FireAcquire, Fire, IInv, TypeOK, LifeCycleInv, PositionInv, SendInv,
         HeapInv, Held, NoNullDriver, heap, attributes, Commands

-----------------------------------------------------------------------------
(* All the handlers, and the invariant. *)

\* Every handler of the two commands keeps the invariant.
LEMMA HandlerInv == IInv /\ Handler => IInv'
<1> SUFFICES ASSUME IInv, Handler PROVE IInv'
  OBVIOUS
<1> USE ConstantsAssumption
<1>1. CASE DefaultSet
  BY <1>1 DEF DefaultSet, IInv, TypeOK, LifeCycleInv, PositionInv, SendInv,
              HeapInv, Held, NoNullDriver, heap, attributes, Commands
<1>2. CASE FireSet
  <2>1. fire' \in Fire
    BY <1>2 DEF FireSet, Fire, IInv, TypeOK
  <2>2. TypeOK'
    BY <1>2, <2>1 DEF FireSet, IInv, TypeOK, heap, attributes, Commands
  <2>3. QED
    BY <1>2, <2>2 DEF FireSet, Fire, IInv, TypeOK, LifeCycleInv, PositionInv,
         SendInv, HeapInv, Held, NoNullDriver, heap, attributes, Commands
<1>3. CASE FireSetTimeout
  <2>1. fire' \in Fire
    BY <1>3, UnsignedType DEF FireSetTimeout, Fire, IInv, TypeOK
  <2>2. TypeOK'
    BY <1>3, <2>1 DEF FireSetTimeout, IInv, TypeOK, heap, attributes
  <2>3. QED
    BY <1>3, <2>2 DEF FireSetTimeout, Fire, IInv, TypeOK, LifeCycleInv, PositionInv,
         SendInv, HeapInv, Held, NoNullDriver, heap, attributes, Commands
<1>4. CASE FireCc
  <2>1. fire' \in Fire /\ out2' \in Ints
    BY <1>4 DEF FireCc, Fire, IInv, TypeOK
  <2>2. TypeOK'
    BY <1>4, <2>1 DEF FireCc, IInv, TypeOK, heap, attributes
  <2>3. QED
    BY <1>4, <2>2 DEF FireCc, Fire, IInv, TypeOK, LifeCycleInv, PositionInv,
         SendInv, HeapInv, Held, NoNullDriver, heap, attributes
<1>5. CASE FireTimeout
  <2>1. fire' \in Fire
    BY <1>5 DEF FireTimeout, Fire, IInv, TypeOK
  <2>2. TypeOK'
    BY <1>5, <2>1 DEF FireTimeout, IInv, TypeOK, heap, attributes
  <2>3. QED
    BY <1>5, <2>2 DEF FireTimeout, Fire, IInv, TypeOK, LifeCycleInv, PositionInv,
         SendInv, HeapInv, Held, NoNullDriver, heap, attributes
<1>6. CASE Retire
  BY <1>6, IntsFacts
     DEF Retire, Fire, NoFire, IInv, TypeOK, LifeCycleInv, PositionInv, SendInv,
         HeapInv, Held, NoNullDriver, heap, attributes, Commands
<1>7. QED
  BY <1>1, <1>2, <1>3, <1>4, <1>5, <1>6, DefaultAcquireInv, DefaultReturnInv, FireOp1Inv,
     FireOp1ReturnInv, FireAcquireInv DEF Handler

\* Every step of the three threads keeps the invariant.
LEMMA StepInv == IInv /\ [Next]_vars => IInv'
<1>1. IInv /\ UNCHANGED vars => IInv'
  BY DEF vars, heap, attributes, IInv, TypeOK, LifeCycleInv, PositionInv, SendInv,
         HeapInv, Held, NoNullDriver
<1>2. QED
  BY <1>1, RpcInv, DriverInv, StartFireInv, HandlerInv DEF Next

\* The inductive invariant holds in every state of every unit: the positions
\* of the three threads always fit together.
THEOREM Invariance == Spec => []IInv
  BY InitInv, StepInv, PTL DEF Spec

\* Every variable keeps its type; in particular out1 is never a value that
\* nobody wrote, although op2 reads it from a buffer malloc returned.
THEOREM TypeCorrect == Spec => []TypeOK
<1>1. IInv => TypeOK
  BY DEF IInv
<1>2. QED
  BY <1>1, Invariance, PTL

\* No handler calls its driver through a null pointer (setHandler, op1, op2).
THEOREM NoNullCalls == Spec => []NoNullDriver
<1>1. IInv => NoNullDriver
  BY DEF IInv
<1>2. QED
  BY <1>1, Invariance, PTL

\* execOpcode touches only allocated buffers, and never one through both of
\* its pointers.
THEOREM MemorySafe == Spec => []DriverTouchesLiveMemory
<1>1. IInv => DriverTouchesLiveMemory
  BY DEF IInv, TypeOK, SendInv, DriverTouchesLiveMemory, Commands
<1>2. QED
  BY <1>1, Invariance, PTL

\* The only buffers that are never given back are those op2 drops when its
\* second malloc fails.
THEOREM LeaksAccounted == Spec => []OnlyOp2Leaks
<1>1. IInv => OnlyOp2Leaks
  BY DEF IInv, TypeOK, HeapInv, Held, OnlyOp2Leaks
<1>2. QED
  BY <1>1, Invariance, PTL

\* Only the default command after its answer writes out1, and the buffer it reads
\* was written by the driver for the limit in the other one.
LEMMA SampleStep ==
  ASSUME IInv, [Next]_vars, out1' # out1
  PROVE  LET n == mem[message["default"].inputData] IN out1' \in 0..n \cup n..0
<1>1. DefaultReturn
  BY DEF Next, Rpc, Handler, vars, UnitInit, UnitStart, NewDefault, UnitStop, UnitDeinit,
         SetAttribute, Submit, DriverExec, StartFire, DefaultSet, DefaultAcquire,
         FireSet, FireSetTimeout, FireOp1, FireOp1Return, FireAcquire, FireCc,
         FireTimeout, Retire
<1> DEFINE m == message["default"]
<1>2. mem[m.inputData] \in Ints /\ mem[m.resultData] \in Drawn(mem[m.inputData])
  BY <1>1 DEF DefaultReturn, IInv, SendInv
<1>3. out1' = mem[m.resultData]
  BY <1>1 DEF DefaultReturn
<1>4. QED
  BY <1>2, <1>3, DrawnRange

\* What op2 hands to out1 was drawn by the driver for the limit of the same call,
\* whatever was allocated, leaked or left in the message before.
THEOREM SamplesDrawn == Spec => SampleIsDrawn
<1>1. IInv /\ [Next]_vars =>
        [out1' # out1 =>
           LET n == mem[message["default"].inputData] IN out1' \in 0..n \cup n..0]_vars
  BY SampleStep
<1>2. QED
  BY <1>1, Invariance, PTL DEF Spec, SampleIsDrawn

-----------------------------------------------------------------------------
(* The handlers implement the contract of the fire command. *)

\* Wrapping leaves an int alone, and counting back undoes counting.
LEMMA WrapIdentity == \A n \in Ints : Wrap(n) = n
<1> SUFFICES ASSUME NEW n \in Ints PROVE Wrap(n) = n
  OBVIOUS
<1> DEFINE width == IntMax - IntMin + 1
<1>1. width \in Nat \ {0} /\ n - IntMin \in 0..(width - 1)
  BY ConstantsAssumption DEF Ints
<1>2. (n - IntMin) % width = n - IntMin
  BY <1>1
<1>3. QED
  BY <1>2, ConstantsAssumption DEF Wrap, Ints

\* The two ends of the ints are neighbours.
LEMMA WrapEnds == Wrap(IntMax + 1) = IntMin /\ Wrap(IntMin - 1) = IntMax
<1> DEFINE width == IntMax - IntMin + 1
<1>1. width \in Nat \ {0}
  BY ConstantsAssumption
<1>2. width % width = 0 /\ (-1) % width = width - 1
  BY <1>1
<1>3. QED
  BY <1>2, ConstantsAssumption DEF Wrap

\* Counting down undoes counting up, also across the end of the ints.
LEMMA WrapInverse ==
  \A n \in Ints : Wrap(Wrap(n + 1) - 1) = n /\ Wrap(Wrap(n - 1) + 1) = n
<1> SUFFICES ASSUME NEW n \in Ints
             PROVE  Wrap(Wrap(n + 1) - 1) = n /\ Wrap(Wrap(n - 1) + 1) = n
  OBVIOUS
<1>1. Wrap(Wrap(n + 1) - 1) = n
  <2>1. CASE n = IntMax
    BY <2>1, WrapEnds
  <2>2. CASE n # IntMax
    <3>1. n + 1 \in Ints /\ (n + 1) - 1 = n
      BY <2>2, ConstantsAssumption DEF Ints
    <3>2. QED
      BY <3>1, WrapIdentity
  <2>3. QED
    BY <2>1, <2>2
<1>2. Wrap(Wrap(n - 1) + 1) = n
  <2>1. CASE n = IntMin
    BY <2>1, WrapEnds
  <2>2. CASE n # IntMin
    <3>1. n - 1 \in Ints /\ (n - 1) + 1 = n
      BY <2>2, ConstantsAssumption DEF Ints
    <3>2. QED
      BY <3>1, WrapIdentity
  <2>3. QED
    BY <2>1, <2>2
<1>3. QED
  BY <1>1, <1>2

\* What the client sees of a unit before anything happened.
LEMMA ContractInit == Init => Contract!Init
  BY DEF Init, NoFire, contractPhase, contractCount, Contract!Init

\* Only four steps are visible to the client: the command is accepted when
\* op1 returns, ccHandler shows a count, and the command leaves on a timeout,
\* by being retired, or with the unit.
LEMMA ContractStep == IInv /\ [Next]_vars => [Contract!Next]_(Contract!vars)
<1> SUFFICES ASSUME IInv, [Next]_vars PROVE [Contract!Next]_(Contract!vars)
  OBVIOUS
<1> USE DEF contractPhase, contractCount
<1>0. /\ fire \in Fire
      /\ pc = "fireCc" => fire.property = "exec"
      /\ pc \in {"fireSet", "fireTimeout", "fireOp1", "fireWait"} => fire.property = "none"
      /\ cmd # "fire" => fire.property = "none"
      /\ unit # "start" => cmd = "none"
  BY DEF IInv, TypeOK, PositionInv, LifeCycleInv
<1>1. CASE FireOp1Return
  <2>1. fire.parm \in Ints /\ fire.property = "none"
    BY <1>1, <1>0 DEF FireOp1Return, IInv, PositionInv, Fire
  <2>2. Contract!Accept(fire.parm)
    BY <1>1, <1>0, <2>1 DEF FireOp1Return, Fire, Contract!Accept, Contract!Wrap, Wrap
  <2>3. QED
    BY <2>1, <2>2 DEF Contract!Next, Ints
<1>2. CASE FireCc
  <2>1. fire.cnt \in Ints /\ fire.property = "exec"
    BY <1>2, <1>0 DEF FireCc, Fire
  <2>2. Wrap(Wrap(fire.cnt - 1) + 1) = fire.cnt
    BY <2>1, WrapInverse
  <2>3. Contract!Wrap(contractCount + 1) = fire.cnt
    BY <1>2, <2>1, <2>2 DEF FireCc, Contract!Wrap, Wrap
  <2>4. contractCount' = fire.cnt /\ out2' = fire.cnt
    BY <1>2, <1>0, <2>1 DEF FireCc, Fire
  <2>5. Contract!Show
    BY <1>2, <1>0, <2>1, <2>3, <2>4 DEF FireCc, Fire, Finished, Contract!Show
  <2>6. QED
    BY <2>5 DEF Contract!Next
<1>3. CASE FireAcquire
  <2>1. fire.cnt \in Ints /\ pc # "fireCc"
    BY <1>3, <1>0 DEF FireAcquire, Fire
  <2>2. Wrap(Wrap(fire.cnt + 1) - 1) = fire.cnt
    BY <2>1, WrapInverse
  <2>3. fire'.property = "exec" /\ fire'.cnt = Wrap(fire.cnt + 1)
    BY <1>3, <1>0 DEF FireAcquire, CountUp, Fire
  <2>4. UNCHANGED Contract!vars
    BY <1>3, <2>1, <2>2, <2>3 DEF FireAcquire, Contract!vars
  <2>5. QED
    BY <2>4
<1>4. CASE FireTimeout
  BY <1>4, <1>0 DEF FireTimeout, Fire, Contract!Next, Contract!Leave
<1>5. CASE Retire
  BY <1>5, <1>0 DEF Retire, NoFire, Contract!Next, Contract!Leave, Contract!vars
<1>6. CASE UnitStop
  BY <1>6, <1>0 DEF UnitStop, NoFire, Contract!Next, Contract!Leave, Contract!vars
<1>7. CASE UnitInit \/ UnitStart \/ UnitDeinit \/ SetAttribute \/ Submit \/ DriverExec
  BY <1>7, <1>0 DEF UnitInit, UnitStart, NewDefault, UnitDeinit, SetAttribute, Submit,
                    DriverExec, Contract!vars
<1>8. CASE DefaultSet \/ DefaultAcquire \/ DefaultReturn
  BY <1>8, <1>0 DEF DefaultSet, DefaultAcquire, Op2Send, Op2NoMemory, NewDefault,
                    DefaultReturn, Contract!vars
<1>9. CASE StartFire \/ FireSet \/ FireSetTimeout \/ FireOp1
  BY <1>9, <1>0 DEF StartFire, NoFire, FireSet, FireSetTimeout, FireOp1, Fire,
                    Contract!vars
<1>10. CASE UNCHANGED vars
  BY <1>10 DEF vars, Contract!vars
<1>11. QED
  BY <1>1, <1>2, <1>3, <1>4, <1>5, <1>6, <1>7, <1>8, <1>9, <1>10
     DEF Next, Rpc, Handler

\* For every parameter, every interleaving of the three threads and every
\* failure of malloc, the unit does to out2 and to the command only what the
\* contract allows: the count goes up by one, and the command is over
\* exactly when it has shown a count above EndCount.
THEOREM ContractHonoured == Spec => HonoursContract
  BY ContractInit, ContractStep, Invariance, PTL
     DEF Spec, HonoursContract, Contract!Spec
=============================================================================
