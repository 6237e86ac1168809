--------------------------- MODULE SlowControlUnit ---------------------------
(***************************************************************************)
(* The slow control unit template (project_template/sccu.tmpl): the unit   *)
(* and its life cycle, the default command that samples a random value     *)
(* into out1, the "fire" command that counts in out2, the interface that   *)
(* talks to the driver, and the driver.                                    *)
(*                                                                         *)
(* Three threads meet here.  The RPC thread of the framework drives the    *)
(* life cycle, sets the input attributes and submits commands.  The        *)
(* scheduler thread runs the handlers of one command at a time; pc is its  *)
(* position.  The driver thread executes the message a handler has sent    *)
(* while that handler waits.  Only the handlers and the driver are code of *)
(* this repository: the framework around them (!CHAOS) is modelled from    *)
(* how they use it.                                                        *)
(***************************************************************************)
EXTENDS Integers, Sequences, FiniteSets

CONSTANTS
  EndCount,     \* a fire command ends above this count, 100 in the source
  IntMin,       \* the range of a C++ int
  IntMax,
  UintModulus,  \* 2^64: a timeout is cast to uint64_t
  Parms,        \* values of "parm1" a client may send
  NoParm,       \* a fire command without its "parm1"
  RandMaxes,    \* values of the attribute rand_max, a double, in halves
  Timeouts,     \* values of the attribute timeout, in scheduler steps
  MaxPending,   \* bound: commands waiting in the sandbox
  Block,        \* addresses malloc can return
  NULL

Commands == {"default", "fire"}
Ints == IntMin..IntMax

ASSUME ConstantsAssumption ==
  /\ IntMin \in Int /\ IntMax \in Int /\ IntMin < 0 /\ 0 < IntMax
  /\ EndCount \in Ints
  /\ UintModulus \in Nat /\ IntMax < UintModulus
  /\ Parms \subseteq Ints
  /\ NoParm \notin Int
  /\ RandMaxes \subseteq Int
  /\ \A r \in RandMaxes : 2 * IntMin <= r /\ r <= 2 * IntMax + 1
  /\ Timeouts \subseteq Ints
  /\ MaxPending \in Nat
  /\ IsFiniteSet(Block)
  /\ NULL \notin Block /\ NULL \notin Int /\ NULL \notin Commands

VARIABLES
  unit,       \* life cycle of the control unit: "deinit", "init", "start"
  accessor,   \* TRUE iff the configuration names a driver at index 0
  randMax,    \* input attribute rand_max
  timeout,    \* input attribute timeout
  out1,       \* output attribute out1
  out2,       \* output attribute out2
  pending,    \* parameters of the fire commands not yet started
  cmd,        \* the command the scheduler runs, or "none"
  pc,         \* position of the scheduler thread, "idle" between handlers
  driver,     \* driver[c]: the command instance c has its Interface
  fire,       \* members of the running fire instance
  message,    \* message[c]: the DrvMsg member of the Interface of c
  sent,       \* the command whose message is at the driver, or NULL
  live,       \* blocks malloc has returned and free has not seen
  mem,        \* the int in each block, NULL where it is indeterminate
  lost        \* blocks whose address no variable holds any more (history)

vars == <<unit, accessor, randMax, timeout, out1, out2, pending, cmd, pc,
          driver, fire, message, sent, live, mem, lost>>
attributes == <<randMax, timeout>>
heap == <<live, mem, lost>>

NoMessage == [opcode |-> NULL, inputData |-> NULL, resultData |-> NULL]
NoFire == [parm |-> 0, cnt |-> 0, limit |-> NULL, elapsed |-> 0, property |-> "none"]

-----------------------------------------------------------------------------
\* C++ arithmetic.

Wrap(n) == ((n - IntMin) % (IntMax - IntMin + 1)) + IntMin
Unsigned(n) == n % UintModulus

\* A double, in halves, passed as an int: truncated towards zero.
Trunc(halves) == IF halves >= 0 THEN halves \div 2 ELSE -((-halves) \div 2)

\* free(): the contents of a block that is not allocated are indeterminate,
\* and so are those of a block malloc has just returned.
Free(blocks) ==
  /\ live' = live \ blocks
  /\ mem' = [b \in Block |-> IF b \in blocks THEN NULL ELSE mem[b]]

Init ==
  /\ unit = "deinit"
  /\ accessor \in BOOLEAN
  /\ randMax \in RandMaxes
  /\ timeout \in Timeouts
  /\ out1 = 0 /\ out2 = 0
  /\ pending = <<>>
  /\ cmd = "none" /\ pc = "idle"
  /\ driver = [c \in Commands |-> FALSE]
  /\ fire = NoFire
  /\ message = [c \in Commands |-> NoMessage]
  /\ sent = NULL
  /\ live = {} /\ mem = [b \in Block |-> NULL] /\ lost = 0

-----------------------------------------------------------------------------
(* The RPC thread: life cycle, attributes, submission. *)

\* unitInit refuses a unit without driver and a rand_max that is not positive.
NoDriverCheck == randMax > 0             \* mutant: the first test is missing
Acceptable == accessor /\ randMax > 0

UnitInit ==
  /\ unit = "deinit"
  /\ Acceptable
  /\ unit' = "init"
  /\ UNCHANGED <<accessor, attributes, out1, out2, pending, cmd, pc, driver,
                 fire, message, sent, heap>>

\* A fresh instance of the default command is installed; its constructor
\* clears the driver pointer.
NewDefault ==
  /\ cmd' = "default"
  /\ pc' = "defaultSet"
  /\ driver' = [driver EXCEPT !["default"] = FALSE]
  /\ message' = [message EXCEPT !["default"] = NoMessage]

UnitStart ==
  /\ unit = "init"
  /\ unit' = "start"
  /\ NewDefault
  /\ UNCHANGED <<accessor, attributes, out1, out2, pending, fire, sent, heap>>

\* The framework joins the scheduler between two handlers and drops the
\* commands it still holds.
UnitStop ==
  /\ unit = "start"
  /\ pc = "idle"
  /\ unit' = "init"
  /\ pending' = <<>>
  /\ cmd' = "none"
  /\ fire' = NoFire
  /\ UNCHANGED <<accessor, attributes, out1, out2, pc, driver, message, sent, heap>>

UnitDeinit ==
  /\ unit = "init"
  /\ unit' = "deinit"
  /\ UNCHANGED <<accessor, attributes, out1, out2, pending, cmd, pc, driver,
                 fire, message, sent, heap>>

\* An input attribute is a cell of the shared cache: the RPC thread writes
\* it at any time, also in the middle of a handler.
SetAttribute ==
  /\ \/ /\ randMax' \in RandMaxes \ {randMax}
        /\ UNCHANGED timeout
     \/ /\ timeout' \in Timeouts \ {timeout}
        /\ UNCHANGED randMax
  /\ UNCHANGED <<unit, accessor, out1, out2, pending, cmd, pc, driver, fire,
                 message, sent, heap>>

Submit ==
  /\ unit = "start"
  /\ Len(pending) < MaxPending
  /\ \E p \in Parms \cup {NoParm} : pending' = Append(pending, p)
  /\ UNCHANGED <<unit, accessor, attributes, out1, out2, cmd, pc, driver, fire,
                 message, sent, heap>>

-----------------------------------------------------------------------------
(* The driver thread. *)

\* What OP_2 may leave in drv_out when it is called with parm1 = n.
NoResult(n) == {NULL}                    \* mutant: drv_out is not written
Above(n) == IF n >= 0 THEN 0..Wrap(n + 1) ELSE n..0  \* mutant: off by one
Drawn(n) == IF n >= 0 THEN 0..n ELSE n..0

\* execOpcode: OP_1 seeds the generator, OP_2 writes a random value scaled
\* by the parameter.  Both read the input buffer through the message, and the
\* answer is MMR_EXECUTED always.  The framework's send, whose result op1 and
\* op2 do not look at, returns when this is done and is taken not to fail.
DriverExec ==
  /\ sent # NULL
  /\ sent' = NULL
  /\ LET m == message[sent] IN
     \/ /\ m.opcode = "OP_1"
        /\ UNCHANGED mem
     \/ /\ m.opcode = "OP_2"
        /\ \E x \in Drawn(mem[m.inputData]) :
             mem' = [mem EXCEPT ![m.resultData] = x]
  /\ UNCHANGED <<unit, accessor, attributes, out1, out2, pending, cmd, pc,
                 driver, fire, message, live, lost>>

-----------------------------------------------------------------------------
(* The scheduler thread: the default command. *)

DefaultSet ==
  /\ pc = "defaultSet"
  /\ pc' = "idle"
  /\ driver' = [driver EXCEPT !["default"] = @ \/ accessor]
  /\ UNCHANGED <<unit, accessor, attributes, out1, out2, pending, cmd, fire,
                 message, sent, heap>>

\* The message op2 sends; the message of the previous call is overwritten.
StaleResult(i, o) ==                     \* mutant: resultData is not set again
  [message["default"] EXCEPT !.opcode = "OP_2", !.inputData = i]
Op2Message(i, o) == [opcode |-> "OP_2", inputData |-> i, resultData |-> o]

\* op2 with both buffers: rand_max is read here, once, and truncated.
Op2Send(i, o) ==
  /\ live' = live \cup {i, o}
  /\ mem' = [mem EXCEPT ![i] = Trunc(randMax)]
  /\ message' = [message EXCEPT !["default"] = Op2Message(i, o)]
  /\ sent' = "default"
  /\ pc' = "defaultWait"
  /\ UNCHANGED <<cmd, driver, lost>>

\* op2 throws when a malloc fails; when it is the second one, the first
\* buffer stays allocated.  The framework replaces the faulted command.
Op2NoMemory ==
  /\ \/ UNCHANGED heap
     \/ \E i \in Block \ live :
          /\ live' = live \cup {i}
          /\ lost' = lost + 1
          /\ UNCHANGED mem
  /\ NewDefault
  /\ UNCHANGED sent

DefaultAcquire ==
  /\ pc = "idle" /\ cmd = "default"
  /\ driver["default"]
  /\ \/ \E i \in Block \ live : \E o \in Block \ (live \cup {i}) : Op2Send(i, o)
     \/ Op2NoMemory
  /\ UNCHANGED <<unit, accessor, attributes, out1, out2, pending, fire>>

\* op2 after the send: read the result, free both buffers; out1 is written.
DefaultReturn ==
  /\ pc = "defaultWait" /\ sent = NULL
  /\ LET m == message["default"] IN
     /\ out1' = mem[m.resultData]
     /\ Free({m.inputData, m.resultData})
  /\ pc' = "idle"
  /\ UNCHANGED <<unit, accessor, attributes, out2, pending, cmd, driver, fire,
                 message, sent, lost>>

-----------------------------------------------------------------------------
(* The scheduler thread: the fire command. *)

\* A new instance takes the place of the default command, which is paused.
StartFire ==
  /\ pc = "idle" /\ cmd = "default"
  /\ pending # <<>>
  /\ pending' = Tail(pending)
  /\ fire' = [NoFire EXCEPT !.parm = Head(pending)]
  /\ driver' = [driver EXCEPT !["fire"] = FALSE]
  /\ message' = [message EXCEPT !["fire"] = NoMessage]
  /\ cmd' = "fire" /\ pc' = "fireSet"
  /\ UNCHANGED <<unit, accessor, attributes, out1, out2, sent, heap>>

\* setHandler up to the test of the timeout.  An exception of a handler
\* ends the command as a fault.
FireSet ==
  /\ pc = "fireSet"
  /\ driver' = [driver EXCEPT !["fire"] = @ \/ accessor]
  /\ \/ /\ fire.parm = NoParm
        /\ pc' = "idle"
        /\ fire' = [fire EXCEPT !.property = "fault"]
     \/ /\ fire.parm # NoParm
        /\ pc' = IF timeout > 0 THEN "fireTimeout" ELSE "fireOp1"
        /\ UNCHANGED fire
  /\ UNCHANGED <<unit, accessor, attributes, out1, out2, pending, cmd, message,
                 sent, heap>>

\* The timeout is read a second time to be stored, through the same pointer
\* into the cache: it need not be the value that was tested.
FireSetTimeout ==
  /\ pc = "fireTimeout"
  /\ pc' = "fireOp1"
  /\ fire' = [fire EXCEPT !.limit = Unsigned(timeout)]
  /\ UNCHANGED <<unit, accessor, attributes, out1, out2, pending, cmd, driver,
                 message, sent, heap>>

\* op1: one buffer, no result; resultData keeps whatever it held.
Op1Message(i) == [message["fire"] EXCEPT !.opcode = "OP_1", !.inputData = i]

FireOp1 ==
  /\ pc = "fireOp1"
  /\ \/ \E i \in Block \ live :
          /\ live' = live \cup {i}
          /\ mem' = [mem EXCEPT ![i] = fire.parm]
          /\ message' = [message EXCEPT !["fire"] = Op1Message(i)]
          /\ sent' = "fire"
          /\ pc' = "fireWait"
          /\ UNCHANGED <<fire, lost>>
     \/ /\ pc' = "idle"
        /\ fire' = [fire EXCEPT !.property = "fault"]
        /\ UNCHANGED <<message, sent, heap>>
  /\ UNCHANGED <<unit, accessor, attributes, out1, out2, pending, cmd, driver>>

NothingFreed == {}                       \* mutant: free(idata) is missing
Op1Buffers == {message["fire"].inputData}

FireOp1Return ==
  /\ pc = "fireWait" /\ sent = NULL
  /\ Free(Op1Buffers)
  /\ fire' = [fire EXCEPT !.cnt = Wrap(fire.parm + 1), !.property = "exec"]
  /\ pc' = "idle"
  /\ UNCHANGED <<unit, accessor, attributes, out1, out2, pending, cmd, driver,
                 message, sent, lost>>

TimedOut == fire.limit # NULL /\ fire.elapsed >= fire.limit

Unchanged(n) == n                        \* mutant: the cycle does not count
CountUp(n) == Wrap(n + 1)

\* One scheduler step passes per cycle of the command.
FireAcquire ==
  /\ pc = "idle" /\ fire.property = "exec"
  /\ ~TimedOut
  /\ fire' = [fire EXCEPT !.cnt = CountUp(@),
                          !.elapsed = IF fire.limit = NULL THEN 0 ELSE @ + 1]
  /\ pc' = "fireCc"
  /\ UNCHANGED <<unit, accessor, attributes, out1, out2, pending, cmd, driver,
                 message, sent, heap>>

EarlyEnd(n) == n >= EndCount             \* mutant: off by one
Finished(n) == n > EndCount

FireCc ==
  /\ pc = "fireCc"
  /\ out2' = fire.cnt
  /\ fire' = IF Finished(fire.cnt) THEN [fire EXCEPT !.property = "end"] ELSE fire
  /\ pc' = "idle"
  /\ UNCHANGED <<unit, accessor, attributes, out1, pending, cmd, driver,
                 message, sent, heap>>

FireTimeout ==
  /\ pc = "idle" /\ fire.property = "exec"
  /\ TimedOut
  /\ fire' = [fire EXCEPT !.property = "fault"]
  /\ UNCHANGED <<unit, accessor, attributes, out1, out2, pending, cmd, pc,
                 driver, message, sent, heap>>

\* The framework removes a command that has ended or failed and resumes the
\* default command.
Retire ==
  /\ pc = "idle" /\ fire.property \in {"end", "fault"}
  /\ fire' = NoFire
  /\ cmd' = "default"
  /\ UNCHANGED <<unit, accessor, attributes, out1, out2, pending, pc, driver,
                 message, sent, heap>>

-----------------------------------------------------------------------------
Rpc == UnitInit \/ UnitStart \/ UnitStop \/ UnitDeinit \/ SetAttribute \/ Submit

Handler ==
  \/ DefaultSet \/ DefaultAcquire \/ DefaultReturn
  \/ FireSet \/ FireSetTimeout \/ FireOp1 \/ FireOp1Return
  \/ FireAcquire \/ FireCc \/ FireTimeout \/ Retire

Next == Rpc \/ DriverExec \/ StartFire \/ Handler

\* The threads of the framework keep running.  Between two cycles of the
\* default command the scheduler looks at its queue over and over, so a
\* command that waits is taken in the end.  Nobody has to call the unit.
Fairness == WF_vars(Handler) /\ WF_vars(DriverExec) /\ SF_vars(StartFire)

Spec == Init /\ [][Next]_vars /\ Fairness

-----------------------------------------------------------------------------
(* Properties. *)

Message == [opcode : {"OP_1", "OP_2", NULL},
            inputData : Block \cup {NULL}, resultData : Block \cup {NULL}]

Fire == [parm : Ints \cup {NoParm}, cnt : Ints, limit : Nat \cup {NULL},
         elapsed : Nat, property : {"none", "exec", "end", "fault"}]

\* Every variable has its type (the members declared in the headers).
TypeOK ==
  /\ unit \in {"deinit", "init", "start"}
  /\ accessor \in BOOLEAN
  /\ randMax \in RandMaxes /\ timeout \in Timeouts
  /\ out1 \in Ints /\ out2 \in Ints
  /\ pending \in Seq(Ints \cup {NoParm})
  /\ cmd \in Commands \cup {"none"}
  /\ pc \in {"idle", "defaultSet", "defaultWait", "fireSet", "fireTimeout",
             "fireOp1", "fireWait", "fireCc"}
  /\ driver \in [Commands -> BOOLEAN]
  /\ fire \in Fire
  /\ message \in [Commands -> Message]
  /\ sent \in Commands \cup {NULL}
  /\ live \subseteq Block
  /\ mem \in [Block -> Ints \cup {NULL}]
  /\ lost \in Nat

\* setHandler calls driver->op1 without a test of driver, although it only
\* creates the Interface when the unit has an accessor: no sequence of
\* life-cycle calls, submissions and faults reaches that call, or a send of
\* either command, with a null pointer.
NoNullDriver ==
  /\ pc \in {"fireTimeout", "fireOp1", "fireWait"} => driver["fire"]
  /\ pc = "defaultWait" => driver["default"]

\* While a message is at the driver, the buffers execOpcode touches through
\* it are allocated and distinct, whatever was freed, leaked or left behind
\* in the message by an earlier call.
DriverTouchesLiveMemory ==
  sent # NULL =>
    LET m == message[sent] IN
    /\ m.inputData \in live
    /\ m.opcode = "OP_2" => m.resultData \in live /\ m.resultData # m.inputData

\* Between two calls of the driver every buffer is given back, but for the
\* input buffers op2 drops when its second malloc fails, one each time:
\* timeouts, faults and stops leak nothing.
OnlyOp2Leaks ==
  pc \notin {"defaultWait", "fireWait"} => Cardinality(live) = lost

\* out1 takes no value but one between 0 and the limit this very call of op2 has
\* sent: never what malloc left in odata, what an earlier call was answered, or
\* what fits the rand_max of another moment.
SampleIsDrawn ==
  [][out1' # out1 =>
       LET n == mem[message["default"].inputData] IN out1' \in 0..n \cup n..0]_vars

\* Where the threads may be, together: what makes the properties above
\* inductive.  Handlers run only in a started unit, which has an accessor;
\* a message is at the driver only while its sender waits for it, with the
\* buffers it names allocated; each position holds the buffers it has to
\* give back.
LifeCycleInv ==
  /\ unit # "deinit" => accessor
  /\ unit = "start" <=> cmd # "none"
  /\ cmd = "none" => pc = "idle"

PositionInv ==
  /\ pc \in {"defaultSet", "defaultWait"} => cmd = "default"
  /\ pc \in {"fireSet", "fireTimeout", "fireOp1", "fireWait", "fireCc"} => cmd = "fire"
  /\ pc \in {"fireSet", "fireTimeout", "fireOp1", "fireWait"} => fire.property = "none"
  /\ pc \in {"fireTimeout", "fireOp1", "fireWait"} => fire.parm # NoParm
  /\ pc = "fireCc" => fire.property = "exec"
  /\ cmd # "fire" => fire.property = "none"

SendInv ==
  /\ sent = "default" => pc = "defaultWait"
  /\ sent = "fire" => pc = "fireWait"
  /\ pc = "fireWait" => /\ message["fire"].opcode = "OP_1"
                       /\ message["fire"].inputData \in live
  /\ pc = "defaultWait" =>
       LET m == message["default"] IN
       /\ m.opcode = "OP_2"
       /\ m.inputData \in live /\ m.resultData \in live
       /\ m.inputData # m.resultData
       /\ mem[m.inputData] \in Ints
       /\ sent = NULL => mem[m.resultData] \in Drawn(mem[m.inputData])

Held == IF pc = "defaultWait" THEN 2 ELSE IF pc = "fireWait" THEN 1 ELSE 0
HeapInv == Cardinality(live) = lost + Held

IInv == TypeOK /\ LifeCycleInv /\ PositionInv /\ SendInv /\ HeapInv /\ NoNullDriver

\* A command that waits behind others is given back to its client: the
\* fire command in the scheduler leaves it, whatever its parameter, also
\* when the count overflows.
FireLeaves == cmd = "fire" ~> cmd # "fire"

\* A sandbox that is full makes room again: the command at its head gets its
\* turn however long the ones before it count, or the unit is stopped.
SubmittedStarts == Len(pending) = MaxPending ~> Len(pending) < MaxPending

\* unitInit throws "BAD rand_max value" unless the interval of the random
\* value is positive: so is the interval the driver is asked for.
AsksPositiveInterval ==
  sent = "default" => mem[message["default"].inputData] > 0

\* The client's view of fire: what the handlers do, with the threads, the
\* memory and the timeout in between, is an execution of the contract.  The
\* count the contract knows is the one ccHandler has shown.
contractPhase == IF fire.property = "exec" THEN "running"
                 ELSE IF fire.property = "end" THEN "over" ELSE "idle"
contractCount == IF fire.property \notin {"exec", "end"} THEN 0
                 ELSE IF pc = "fireCc" THEN Wrap(fire.cnt - 1) ELSE fire.cnt

Contract == INSTANCE FireContract
              WITH phase <- contractPhase, count <- contractCount, shown <- out2

HonoursContract == Contract!Spec
=============================================================================
