------------------------ MODULE HostedSession_proofs ------------------------
(***************************************************************************)
(* What is proved of the clients and of the process holds of the two put   *)
(* together: the process keeps its invariant whatever the clients ask of   *)
(* it, the unit in it is to them the unit of ClientSession, and they leave *)
(* nothing initialised in it.                                              *)
(***************************************************************************)
EXTENDS HostedSession, UnitServer_proofs

\* A request of a client is a request of the process or leaves it as it is.
LEMMA HandleStep ==
  ASSUME NEW op, NEW answer, Handle(op, answer)
  PROVE  Request(Driven) \/ UNCHANGED vars
  BY DEF Handle, Request

\* Put together with its clients the process takes no step it would not take.
LEMMA ProcessStep == [HostedNext]_hostedVars => [Next]_vars
<1> SUFFICES ASSUME [HostedNext]_hostedVars PROVE [Next]_vars
  OBVIOUS
<1>1. CASE Server
  BY <1>1, DrivenAssumption DEF Server, Next, Request
<1>2. CASE Clients
  BY <1>2 DEF Clients
<1>3. ASSUME NEW c \in Session!Clients, Answer(c) PROVE [Next]_vars
  BY <1>3, HandleStep, DrivenAssumption DEF Answer, Next
<1>4. CASE Delayed
  BY <1>4, HandleStep, DrivenAssumption DEF Delayed, Next
<1>5. CASE Automatic
  BY <1>5, DrivenAssumption DEF Automatic, Next, Request
<1>6. CASE UNCHANGED hostedVars
  BY <1>6 DEF hostedVars
<1>7. QED
  BY <1>1, <1>2, <1>3, <1>4, <1>5, <1>6 DEF HostedNext

\* The invariant of the process is one of the composition.
THEOREM ProcessInvariance == HostedSpec => []IInv
<1>1. HostedInit => IInv
  BY InitInv DEF HostedInit
<1>2. IInv /\ [HostedNext]_hostedVars => IInv'
  BY ProcessStep, Inductive
<1>3. QED
  BY <1>1, <1>2, PTL DEF HostedSpec

-----------------------------------------------------------------------------
(* The refinement of ClientSession. *)

\* Before start the unit is, to its clients and in the process, at most
\* constructed.
LEMMA NotServed ==
  ASSUME IInv, state # "serving"
  PROVE  Life = "deinit" /\ life[Driven] \in {"none", "deinit"}
<1>1. life = NoUnits \/ life = OnlyNamed
  BY DEF IInv, TypeOK, UnitsInv
<1>2. QED
  BY <1>1, DrivenAssumption DEF Life, NoUnits, OnlyNamed

\* A process that ends takes the unit to where it starts.
LEMMA EndOfLife ==
  ASSUME NEW how, End(how)
  PROVE  Life' = "deinit"
  BY DEF End, Life

\* What main does before start, and the launch, leave the unit alone.
LEMMA MainLeavesLife ==
  ASSUME IInv, Launch \/ Step
  PROVE  Life' \in {Life, "deinit"}
<1>1. CASE Launch
  BY <1>1 DEF Launch, Life
<1>2. CASE Start
  <2>1. life' = life /\ state = "main"
    BY <1>2 DEF Start, At, units
  <2>2. life[Driven] \in {"none", "deinit"}
    BY <2>1, NotServed
  <2>3. QED
    BY <2>1, <2>2 DEF Life
<1>3. CASE AddOption \/ RegisterDriver \/ RegisterUnit \/ ToolkitInit \/ AddUnit \/ RequireDevice
  <2>1. state' = "main"
    BY <1>3 DEF AddOption, RegisterDriver, RegisterUnit, ToolkitInit, AddUnit, RequireDevice,
                At, GoOn
  <2>2. QED
    BY <2>1 DEF Life
<1>4. CASE Throw \/ Return
  BY <1>4, EndOfLife DEF Throw, Return
<1>5. CASE Parse \/ Help
  <2>1. CASE At("parse") \/ At("help")
    <3>1. CASE GoOn
      BY <2>1, <3>1 DEF At, GoOn, Life
    <3>2. CASE End("abort") \/ End("one")
      BY <3>2, EndOfLife
    <3>3. QED
      BY <1>5, <3>1, <3>2 DEF Parse, Help
  <2>2. QED
    BY <1>5, <2>1 DEF Parse, Help
<1>6. QED
  BY <1>1, <1>2, <1>3, <1>4, <1>5 DEF Step

\* A request for another unit changes nothing of this one.
LEMMA OthersLeaveLife ==
  ASSUME IInv, NEW u \in Unit \ {Driven}, Request(u)
  PROVE  Life' = Life
<1>1. state' = state
  BY DEF Request, Load, Unload, UnitInit, UnitStart, UnitStop, UnitDeinit, Unchanged
<1>2. life'[Driven] = life[Driven]
  BY DrivenAssumption
     DEF Request, Load, Unload, UnitInit, UnitStart, UnitStop, UnitDeinit, IInv, TypeOK
<1>3. QED
  BY <1>1, <1>2 DEF Life

\* A step of the process alone is a relaunch to its clients, or nothing.
LEMMA ServerStep ==
  ASSUME IInv, Server
  PROVE  [Session!Next]_(Session!vars)
<1>1. Life' \in {Life, "deinit"}
  <2>1. CASE Launch \/ Step
    BY <2>1, MainLeavesLife
  <2>2. CASE Close \/ Kill
    BY <2>2, EndOfLife DEF Close, Kill
  <2>3. CASE \E l \in Links : Load(Driven, l)
    BY <2>3, DrivenAssumption DEF Load, Unchanged, Life, IInv, TypeOK
  <2>4. CASE Unload(Driven)
    BY <2>4, DrivenAssumption DEF Unload, Unchanged, Life, IInv, TypeOK
  <2>5. ASSUME NEW u \in Unit \ {Driven}, Request(u) PROVE Life' \in {Life, "deinit"}
    BY <2>5, OthersLeaveLife
  <2>6. ASSUME NEW u \in Unit, NullCall(u) PROVE Life' \in {Life, "deinit"}
    BY <2>6, EndOfLife DEF NullCall
  <2>7. QED
    BY <2>1, <2>2, <2>3, <2>4, <2>5, <2>6 DEF Server
<1>2. UNCHANGED <<at, phase, late, spoiled>>
  BY DEF Server, clients
<1>3. CASE Life' = Life
  BY <1>2, <1>3 DEF Session!vars
<1>4. CASE Life' = "deinit"
  BY <1>2, <1>4 DEF Session!Next, Session!Relaunch
<1>5. QED
  BY <1>1, <1>3, <1>4

\* What the metadata server does to the unit is an automatic step of its session.
LEMMA AutomaticStep ==
  ASSUME IInv, Automatic
  PROVE  Session!Automatic
<1> USE DEF Session!Automatic, Session!Accepts, Session!Target, Unchanged
<1>1. life \in [Unit -> {"none", "deinit", "init", "start"}]
  BY DEF IInv, TypeOK
<1>2. CASE "init" \in AutoCalls /\ UnitInit(Driven)
  BY <1>1, <1>2, DrivenAssumption DEF Automatic, UnitInit, Life
<1>3. CASE "start" \in AutoCalls /\ UnitStart(Driven)
  BY <1>1, <1>3, DrivenAssumption DEF Automatic, UnitStart, Life
<1>4. QED
  BY <1>2, <1>3 DEF Automatic

\* The process answers a request as the unit of ClientSession serves it.
LEMMA HandleServes ==
  ASSUME IInv, state = "serving", NEW op, NEW answer, Handle(op, answer)
  PROVE  Session!Serve(op, answer)
<1> USE DEF Session!Serve, Session!Accepts, Session!Target, Session!LifeCycle, Unchanged
<1>1. life \in [Unit -> {"none", "deinit", "init", "start"}]
  BY DEF IInv, TypeOK
<1>2. CASE op = "init" /\ answer = "ok" /\ UnitInit(Driven)
  BY <1>1, <1>2, DrivenAssumption DEF UnitInit, Life
<1>3. CASE op = "start" /\ answer = "ok" /\ UnitStart(Driven)
  BY <1>1, <1>3, DrivenAssumption DEF UnitStart, Life
<1>4. CASE op = "stop" /\ answer = "ok" /\ UnitStop(Driven)
  BY <1>1, <1>4, DrivenAssumption DEF UnitStop, Life
<1>5. CASE op = "deinit" /\ answer = "ok" /\ UnitDeinit(Driven)
  BY <1>1, <1>5, DrivenAssumption DEF UnitDeinit, Life
<1>6. CASE UNCHANGED vars
  <2>1. Life' = Life
    BY <1>6 DEF vars, units, Life
  <2>2. CASE answer = "ok" /\ op \notin Session!LifeCycle /\ Session!Accepts(op)
    BY <2>1, <2>2
  <2>3. CASE answer = "error" /\ (~Session!Accepts(op) \/ op \in Fails \/ op \notin Session!LifeCycle)
    <3>1. Session!Refuses(op)
      BY <2>3 DEF Session!Refuses, Fails
    <3>2. QED
      BY <2>1, <2>3, <3>1
  <2>4. CASE ~(\/ answer = "ok" /\ op \notin Session!LifeCycle /\ Session!Accepts(op)
               \/ /\ answer = "error"
                  /\ ~Session!Accepts(op) \/ op \in Fails \/ op \notin Session!LifeCycle)
    BY <1>2, <1>3, <1>4, <1>5, <2>4 DEF Handle
  <2>5. QED
    BY <2>2, <2>3, <2>4
<1>7. QED
  BY <1>2, <1>3, <1>4, <1>5, <1>6 DEF Handle

LEMMA SessionStep == IInv /\ [HostedNext]_hostedVars => [Session!Next]_(Session!vars)
<1> SUFFICES ASSUME IInv, [HostedNext]_hostedVars PROVE [Session!Next]_(Session!vars)
  OBVIOUS
<1>1. CASE Server
  BY <1>1, ServerStep
<1>2. CASE Clients
  BY <1>2 DEF Clients, Session!Next
<1>3. ASSUME NEW c \in Session!Clients, Answer(c) PROVE Session!Execute(c)
  BY <1>3, HandleServes DEF Answer, Session!Execute
<1>4. CASE Delayed
  <2>1. Session!LateCall
    BY <1>4, HandleServes DEF Delayed, Session!LateCall
  <2>2. QED
    BY <2>1 DEF Session!Next
<1>5. CASE Automatic
  BY <1>5, AutomaticStep DEF Session!Next
<1>6. CASE UNCHANGED hostedVars
  BY <1>6 DEF hostedVars, vars, units, clients, Session!vars, Life
<1>7. QED
  BY <1>1, <1>2, <1>3, <1>4, <1>5, <1>6 DEF HostedNext, Session!Next

\* The clients and the unit in its process implement ClientSession, for any
\* number of clients and of units in the process.
THEOREM SessionHonoured == HostedSpec => HonoursSession
<1>1. HostedInit => Session!Init
  BY DEF HostedInit
<1>2. QED
  BY <1>1, SessionStep, ProcessInvariance, PTL DEF HostedSpec, HonoursSession, Session!Spec

-----------------------------------------------------------------------------
(* What ClientSession_proofs says of every session, of this one. *)

P == INSTANCE ClientSession_proofs WITH unit <- Life, pc <- at

\* The instance of the proofs and that of the module are the same session.
LEMMA SameStep == [Session!Next]_(Session!vars) => [P!Next]_(P!vars)
<1>1. /\ Session!Clients = P!Clients /\ Session!Calls = P!Calls
      /\ Session!LifeCycle = P!LifeCycle /\ Session!Checks = P!Checks
  BY DEF Session!Clients, P!Clients, Session!Calls, P!Calls, Session!LifeCycle, P!LifeCycle,
         Session!Checks, P!Checks
<1>2. ASSUME NEW op, NEW answer
      PROVE  Session!Serve(op, answer) = P!Serve(op, answer)
  BY DEF Session!Serve, P!Serve, Session!Accepts, P!Accepts, Session!Refuses, P!Refuses,
         Session!Target, P!Target
<1>3. ASSUME NEW c \in Session!Clients
      PROVE  Session!Client(c) = P!Client(c)
  BY <1>1 DEF Session!Client, P!Client, Session!Call, P!Call, Session!Return, P!Return,
              Session!Timeout, P!Timeout, Session!Prompt, P!Prompt, Session!Advance, P!Advance,
              Session!Order, P!Order, Session!Goto, P!Goto, Session!AfterSetup, P!AfterSetup,
              Session!AfterStop, P!AfterStop, Session!Abandons, P!Abandons,
              Session!Accepts, P!Accepts
<1>4. ASSUME NEW c \in Session!Clients
      PROVE  Session!Execute(c) = P!Execute(c)
  BY <1>2 DEF Session!Execute, P!Execute
<1>5. Session!LateCall = P!LateCall /\ Session!Relaunch = P!Relaunch
  BY <1>2 DEF Session!LateCall, P!LateCall, Session!Relaunch, P!Relaunch
<1>6. Session!Automatic = P!Automatic
  BY <1>1 DEF Session!Automatic, P!Automatic, Session!Unasked, P!Unasked,
              Session!Accepts, P!Accepts, Session!Target, P!Target
<1>7. QED
  BY <1>1, <1>3, <1>4, <1>5, <1>6 DEF Session!Next, P!Next, Session!vars, P!vars

\* The clients leave the unit de-initialised or gone, in whatever process it
\* ends up, however many they are and whatever else runs in that process.
THEOREM NothingLeft == HostedSpec => []UnitLeft
<1>1. Session!Init => P!Init
  BY DEF Session!Init, P!Init, Session!Clients, P!Clients
<1>2. HostedSpec => P!Spec
  BY <1>1, SameStep, SessionHonoured, PTL DEF HonoursSession, Session!Spec, P!Spec
<1>3. P!ClientsAssumption /\ P!AutoAssumption
  BY ClientsApart, AutoOfDriven DEF P!ClientsAssumption, P!AutoAssumption
<1>4. P!Spec => []P!UnitReleased
  BY <1>3, P!Released, PTL DEF P!Released
<1>5. IInv /\ P!UnitReleased => UnitLeft
  <2> SUFFICES ASSUME IInv, P!UnitReleased, Session!Clients # {}, ~spoiled,
                      \A c \in Session!Clients : at[c] \in Session!Ends
               PROVE  life[Driven] \in {"none", "deinit"}
    BY DEF UnitLeft
  <2>1. Life = "deinit"
    BY DEF P!UnitReleased, P!Clients, Session!Clients, P!Ends, Session!Ends
  <2>2. CASE state = "serving"
    BY <2>1, <2>2 DEF Life
  <2>3. CASE state # "serving"
    BY <2>3, NotServed
  <2>4. QED
    BY <2>2, <2>3
<1>6. QED
  BY <1>2, <1>4, <1>5, ProcessInvariance, PTL
=============================================================================
