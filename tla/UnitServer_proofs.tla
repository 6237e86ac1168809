-------------------------- MODULE UnitServer_proofs --------------------------
(***************************************************************************)
(* The properties of the unit server for every set of units: what a        *)
(* serving process has registered, which units may run in it, and which    *)
(* program can fault.                                                      *)
(***************************************************************************)
EXTENDS UnitServer, TLAPS

\* The call c lies behind pc.
Done(c) == \E i \in 1..(pc - 1) : Main[program][i] = c

\* The registry holds what the calls behind pc have put there, and a process
\* serves only in start.
RegistryInv ==
  /\ state # "off" => /\ drivers <=> Done("registerDriver")
                      /\ classes <=> Done("registerUnit")
  /\ state = "serving" => Main[program][pc] = "start"

OnlyNamed == [NoUnits EXCEPT ![Named] = "deinit"]

\* Where there may be units: none in a process that is off, at most the one of
\* the command line before start, and never one of a program without a class.
UnitsInv ==
  /\ state = "off" => life = NoUnits
  /\ state = "main" => life = NoUnits \/ (life = OnlyNamed /\ program \in Publishers)
  /\ state # "serving" => link = NoLinks
  /\ \A u \in Unit : life[u] # "none" => program \in Publishers

IInv == TypeOK /\ RegistryInv /\ UnitsInv /\ InitialisedHasDriver /\ OnlyRealTimeFaults

-----------------------------------------------------------------------------
\* What the four sequences are, call by call.
LEMMA MainOf ==
  /\ Main["sccu"] = SccuMain /\ Main["rtcu"] = RtcuMain
  /\ Main["driver"] = DriverMain /\ Main["common"] = CommonMain
  BY DEF Main

LEMMA SccuCalls ==
  /\ Len(SccuMain) = 6
  /\ SccuMain[1] = "addOption" /\ SccuMain[2] = "registerDriver"
  /\ SccuMain[3] = "registerUnit" /\ SccuMain[4] = "init"
  /\ SccuMain[5] = "addUnit" /\ SccuMain[6] = "start"
  BY DEF SccuMain

LEMMA RtcuCalls ==
  /\ Len(RtcuMain) = 4
  /\ RtcuMain[1] = "registerDriver" /\ RtcuMain[2] = "init"
  /\ RtcuMain[3] = "registerUnit" /\ RtcuMain[4] = "start"
  BY DEF RtcuMain

LEMMA DriverCalls ==
  /\ Len(DriverMain) = 5
  /\ DriverMain[1] = "addOption" /\ DriverMain[2] = "init"
  /\ DriverMain[3] = "requireDevice" /\ DriverMain[4] = "registerDriver"
  /\ DriverMain[5] = "start"
  BY DEF DriverMain

LEMMA CommonCalls ==
  /\ Len(CommonMain) = 3
  /\ CommonMain[1] = "parse" /\ CommonMain[2] = "help" /\ CommonMain[3] = "return"
  BY DEF CommonMain

LEMMA MainLength ==
  ASSUME program \in Programs
  PROVE  Len(Main[program]) \in Nat /\ Len(Main[program]) >= 3
<1>1. CASE program = "sccu"
  BY <1>1, MainOf, SccuCalls
<1>2. CASE program = "rtcu"
  BY <1>2, MainOf, RtcuCalls
<1>3. CASE program = "driver"
  BY <1>3, MainOf, DriverCalls
<1>4. CASE program = "common"
  BY <1>4, MainOf, CommonCalls
<1>5. QED
  BY <1>1, <1>2, <1>3, <1>4 DEF Programs

\* Where each call is: all that the proofs below need of the sequences.
LEMMA Position ==
  ASSUME program \in Programs, NEW i \in 1..Len(Main[program])
  PROVE  /\ Main[program][i] \in {"start", "return"} <=> i = Len(Main[program])
         /\ Main[program][i] = "start" => program \in Toolkit
         /\ Main[program][i] = "addUnit" => program = "sccu"
         /\ Main[program][i] = "start" =>
              /\ \E j \in 1..(i - 1) : Main[program][j] = "registerDriver"
              /\ (\E j \in 1..(i - 1) : Main[program][j] = "registerUnit")
                   <=> program \in Publishers
<1>1. CASE program = "sccu"
  BY <1>1, MainOf, SccuCalls DEF Toolkit, Programs, Publishers
<1>2. CASE program = "rtcu"
  BY <1>2, MainOf, RtcuCalls DEF Toolkit, Programs, Publishers
<1>3. CASE program = "driver"
  BY <1>3, MainOf, DriverCalls DEF Toolkit, Programs, Publishers
<1>4. CASE program = "common"
  BY <1>4, MainOf, CommonCalls DEF Toolkit, Programs, Publishers
<1>5. QED
  BY <1>1, <1>2, <1>3, <1>4 DEF Programs

\* A process that is off and has no units is in the invariant.
LEMMA InitInv == Init => IInv
<1> SUFFICES ASSUME Init PROVE IInv
  OBVIOUS
<1>1. 1 \in 1..Len(Main[program])
  BY MainLength DEF Init
<1>2. TypeOK
  BY <1>1 DEF Init, TypeOK, NoUnits, NoLinks, Exits, Links
<1>3. QED
  BY <1>2 DEF Init, IInv, RegistryInv, UnitsInv, InitialisedHasDriver, OnlyRealTimeFaults,
              NoUnits, NoLinks

-----------------------------------------------------------------------------
\* A call that returns leaves pc inside main and itself behind pc.
LEMMA Onward ==
  ASSUME TypeOK, NEW call, call \notin {"start", "return"}, At(call), GoOn
  PROVE  /\ pc' \in 1..Len(Main[program])
         /\ \A c : Done(c)' <=> Done(c) \/ c = call
<1>1. pc \in Nat /\ pc # Len(Main[program]) /\ pc <= Len(Main[program]) /\ pc >= 1
  <2>1. pc \in 1..Len(Main[program]) /\ Main[program][pc] = call /\ program \in Programs
    BY DEF TypeOK, At
  <2>2. pc # Len(Main[program])
    BY <2>1, Position
  <2>3. QED
    BY <2>1, <2>2
<1>2. pc' = pc + 1 /\ program' = program
  BY DEF GoOn
<1>3. Len(Main[program]) \in Nat
  BY MainLength DEF TypeOK
<1>4. 1..(pc' - 1) = 1..(pc - 1) \cup {pc}
  BY <1>1, <1>2
<1>5. Main[program][pc] = call
  BY DEF At
<1>6. QED
  BY <1>1, <1>2, <1>3, <1>4, <1>5 DEF Done

\* The calls of main that return and go on to the next one.
Returns(call) == At(call) /\ GoOn

LEMMA ReturnStep ==
  ASSUME IInv, NEW call, call \notin {"start", "return"}, Returns(call),
         \/ call = "addOption" /\ option' = TRUE /\ UNCHANGED <<drivers, classes, units>>
         \/ call = "registerDriver" /\ drivers' = TRUE /\ UNCHANGED <<option, classes, units>>
         \/ call = "registerUnit" /\ classes' = TRUE /\ UNCHANGED <<option, drivers, units>>
         \/ call = "addUnit" /\ AddUnit
         \/ /\ call \in {"init", "requireDevice", "parse", "help"}
            /\ UNCHANGED <<registry, units>>
  PROVE  IInv'
<1> USE DEF IInv, units, registry
<1>1. /\ pc' \in 1..Len(Main[program])
      /\ \A c : Done(c)' <=> Done(c) \/ c = call
  BY Onward DEF Returns
<1>2. UNCHANGED <<program, argv, state, exit>> /\ state = "main"
  BY DEF Returns, GoOn, At
<1>3. life' = life \/ (call = "addUnit" /\ life' = [life EXCEPT ![Named] = "deinit"])
  BY DEF AddUnit
<1>4. link' = link
  BY DEF AddUnit
<1>5. call = "addUnit" => program = "sccu"
  BY Position DEF Returns, At, TypeOK
<1>6. life' = NoUnits \/ (life' = OnlyNamed /\ program \in Publishers)
  BY <1>2, <1>3, <1>5, NamedAssumption DEF UnitsInv, OnlyNamed, Publishers, NoUnits
<1>7. \A u \in Unit : life'[u] = "none" \/ (life'[u] = "deinit" /\ program \in Publishers)
  BY <1>6 DEF NoUnits, OnlyNamed
<1>8. TypeOK'
  <2>1. life' \in [Unit -> {"none", "deinit", "init", "start"}]
    BY <1>6 DEF NoUnits, OnlyNamed
  <2>2. option' \in BOOLEAN /\ drivers' \in BOOLEAN /\ classes' \in BOOLEAN
    BY DEF TypeOK, AddUnit
  <2>3. QED
    BY <1>1, <1>2, <1>4, <2>1, <2>2 DEF TypeOK
<1>9. RegistryInv'
  <2>1. (drivers' <=> Done("registerDriver")') /\ (classes' <=> Done("registerUnit")')
    BY <1>1, <1>2 DEF RegistryInv, AddUnit
  <2>2. QED
    BY <1>2, <2>1 DEF RegistryInv
<1>10. UnitsInv'
  BY <1>2, <1>4, <1>6, <1>7 DEF UnitsInv
<1>11. InitialisedHasDriver' /\ OnlyRealTimeFaults'
  BY <1>2, <1>7 DEF InitialisedHasDriver, OnlyRealTimeFaults
<1>12. QED
  BY <1>8, <1>9, <1>10, <1>11

\* A process that ends leaves nothing behind but the way it ended.
LEMMA EndStep ==
  ASSUME IInv, NEW how \in Exits, End(how), how = "fault" => program = "rtcu"
  PROVE  IInv'
<1> USE DEF IInv, End, UnitsGone, registry
<1>1. TypeOK'
  BY DEF TypeOK, NoUnits, NoLinks, Links
<1>2. RegistryInv' /\ UnitsInv'
  BY DEF RegistryInv, UnitsInv, NoUnits
<1>3. InitialisedHasDriver' /\ OnlyRealTimeFaults'
  BY DEF InitialisedHasDriver, OnlyRealTimeFaults, NoUnits
<1>4. QED
  BY <1>1, <1>2, <1>3

\* Registration is complete when start is reached.
LEMMA Complete ==
  ASSUME TypeOK, RegistryInv, state # "off", Main[program][pc] = "start"
  PROVE  drivers /\ (classes <=> program \in Publishers)
<1>1. pc \in 1..Len(Main[program]) /\ program \in Programs
  BY DEF TypeOK
<1>2. Done("registerDriver") /\ (Done("registerUnit") <=> program \in Publishers)
  BY <1>1, Position DEF Done
<1>3. QED
  BY <1>2 DEF RegistryInv

LEMMA MainStep == IInv /\ Step => IInv'
<1> SUFFICES ASSUME IInv, Step PROVE IInv'
  OBVIOUS
<1>1. CASE AddOption
  BY <1>1, ReturnStep DEF AddOption, Returns
<1>2. CASE RegisterDriver
  BY <1>2, ReturnStep DEF RegisterDriver, Returns
<1>3. CASE RegisterUnit
  BY <1>3, ReturnStep DEF RegisterUnit, Returns
<1>4. CASE ToolkitInit \/ RequireDevice
  BY <1>4, ReturnStep DEF ToolkitInit, RequireDevice, Returns
<1>5. CASE AddUnit
  BY <1>5, ReturnStep DEF AddUnit, Returns
<1>6. CASE Start
  <2> USE <1>6 DEF Start, At, IInv, registry, units
  <2>1. UnitsInv' /\ TypeOK'
    <3>1. \A u \in Unit : life[u] # "none" => program \in Publishers
      BY DEF UnitsInv
    <3>2. QED
      BY <3>1 DEF UnitsInv, TypeOK
  <2>2. RegistryInv'
    BY DEF RegistryInv, Done
  <2>3. InitialisedHasDriver' /\ OnlyRealTimeFaults'
    BY DEF InitialisedHasDriver, OnlyRealTimeFaults
  <2>4. QED
    BY <2>1, <2>2, <2>3
<1>7. CASE Throw \/ Return
  BY <1>7, EndStep DEF Throw, Return, Exits
<1>8. CASE Parse
  BY <1>8, EndStep, ReturnStep DEF Parse, Returns, Exits
<1>9. CASE Help
  BY <1>9, EndStep, ReturnStep DEF Help, Returns, Exits
<1>10. QED
  BY <1>1, <1>2, <1>3, <1>4, <1>5, <1>6, <1>7, <1>8, <1>9 DEF Step

\* A request changes one unit of a serving process.
LEMMA RequestStep ==
  ASSUME IInv, NEW u \in Unit, Request(u)
  PROVE  IInv'
<1> USE DEF IInv, Unchanged, registry
<1>1. UNCHANGED <<program, argv, state, pc, exit, option, drivers, classes>> /\ state = "serving"
  BY DEF Request, Load, Unload, UnitInit, UnitStart, UnitStop, UnitDeinit
<1>2. /\ life' \in [Unit -> {"none", "deinit", "init", "start"}]
      /\ link' \in [Unit -> Links]
  BY DEF Request, Load, Unload, UnitInit, UnitStart, UnitStop, UnitDeinit, TypeOK, Links
<1>3. RegistryInv' /\ OnlyRealTimeFaults' /\ TypeOK'
  BY <1>1, <1>2 DEF RegistryInv, Done, OnlyRealTimeFaults, TypeOK
<1>4. program \in Publishers
  <2>1. CASE \E l \in Links : Load(u, l)
    BY <1>1, <2>1, Complete DEF Load, RegistryInv
  <2>2. CASE life[u] # "none"
    BY <2>2 DEF UnitsInv
  <2>3. QED
    BY <2>1, <2>2 DEF Request, Unload, UnitInit, UnitStart, UnitStop, UnitDeinit
<1>5. UnitsInv'
  BY <1>1, <1>4 DEF UnitsInv
<1>6. InitialisedHasDriver'
  <2>1. CASE UnitInit(u)
    <3>1. UnitClass["sccu"] = SlowUnit /\ DriverClass["rtcu"] = RealTimeDriver
      BY DEF UnitClass, DriverClass
    <3>2. link[u] \in Links /\ (program = "sccu" \/ program = "rtcu")
      BY <1>4 DEF TypeOK, Publishers
    <3>3. \/ drivers /\ link[u] = "own"
          \/ drivers /\ link[u] = "unreadable" /\ program = "sccu"
          \/ link[u] = "none" /\ program = "rtcu"
      BY <2>1, <3>1, <3>2 DEF UnitInit, Linked, SlowUnit, RealTimeDriver, Links
    <3>4. QED
      BY <1>1, <2>1, <3>3 DEF UnitInit, InitialisedHasDriver, TypeOK
  <2>2. CASE \E l \in Links : Load(u, l)
    BY <1>1, <2>2 DEF Load, InitialisedHasDriver, TypeOK
  <2>3. CASE Unload(u) \/ UnitStart(u) \/ UnitStop(u) \/ UnitDeinit(u)
    BY <1>1, <2>3 DEF Unload, UnitStart, UnitStop, UnitDeinit, InitialisedHasDriver, TypeOK
  <2>4. QED
    BY <2>1, <2>2, <2>3 DEF Request
<1>7. QED
  BY <1>3, <1>5, <1>6

\* A null call is one of a real-time unit: the slow unit has its driver, and a
\* program without a class of units has no units.
LEMMA NullCallStep ==
  ASSUME IInv, NEW u \in Unit, NullCall(u)
  PROVE  IInv'
<1>1. UnitClass["sccu"].calls = {"start"} /\ life[u] \in {"none", "deinit", "init", "start"}
  BY DEF UnitClass, SlowUnit, IInv, TypeOK
<1>2. UnitClass["rtcu"].calls = {"init", "start"}
  BY DEF UnitClass, RealTimeUnit
<1>3. life[u] # "none"
  <2>1. UnitClass["driver"].calls = {} /\ UnitClass["common"].calls = {}
    BY DEF UnitClass, TemplateUnit
  <2>2. QED
    BY <1>1, <1>2, <2>1 DEF NullCall, IInv, TypeOK, Programs
<1>4. program = "sccu" \/ program = "rtcu"
  BY <1>3 DEF IInv, UnitsInv, Publishers
<1>5. program # "sccu"
  BY <1>1 DEF NullCall, IInv, InitialisedHasDriver
<1>6. QED
  BY <1>4, <1>5, EndStep DEF NullCall, Exits

LEMMA Inductive == IInv /\ [Next]_vars => IInv'
<1> SUFFICES ASSUME IInv, [Next]_vars PROVE IInv'
  OBVIOUS
<1>1. CASE Launch
  <2> USE <1>1 DEF Launch, IInv, units, registry
  <2>1. 1 \in 1..Len(Main[program])
    BY MainLength DEF TypeOK
  <2>2. TypeOK'
    BY <2>1 DEF TypeOK, Exits
  <2>3. RegistryInv' /\ UnitsInv'
    BY DEF RegistryInv, UnitsInv, Done
  <2>4. InitialisedHasDriver' /\ OnlyRealTimeFaults'
    BY DEF UnitsInv, NoUnits, InitialisedHasDriver, OnlyRealTimeFaults
  <2>5. QED
    BY <2>2, <2>3, <2>4
<1>2. CASE Step
  BY <1>2, MainStep
<1>3. CASE Close \/ Kill
  BY <1>3, EndStep DEF Close, Kill, Exits
<1>4. ASSUME NEW u \in Unit, Request(u) PROVE IInv'
  BY <1>4, RequestStep
<1>5. ASSUME NEW u \in Unit, NullCall(u) PROVE IInv'
  BY <1>5, NullCallStep
<1>6. CASE UNCHANGED vars
  BY <1>6 DEF vars, registry, units, IInv, TypeOK, RegistryInv, Done, UnitsInv,
              InitialisedHasDriver, OnlyRealTimeFaults
<1>7. QED
  BY <1>1, <1>2, <1>3, <1>4, <1>5, <1>6 DEF Next

\* The inductive invariant holds of every program and every set of units.
THEOREM Invariance == Spec => []IInv
  BY InitInv, Inductive, PTL DEF Spec

\* Every variable of the unit server keeps its type, and pc stays inside main.
THEOREM TypeCorrect == Spec => []TypeOK
<1>1. IInv => TypeOK
  BY DEF IInv
<1>2. QED
  BY <1>1, Invariance, PTL

\* A serving process has registered its driver, and its class of units if it
\* publishes one.
THEOREM RegisteredBeforeServing == Spec => []ServesAll
<1>1. IInv => ServesAll
  BY Complete DEF IInv, ServesAll, RegistryInv
<1>2. QED
  BY <1>1, Invariance, PTL

\* A unit past unitInit has the driver it is entitled to.
THEOREM InitialisedUnits == Spec => []InitialisedHasDriver
<1>1. IInv => InitialisedHasDriver
  BY DEF IInv
<1>2. QED
  BY <1>1, Invariance, PTL

\* Only the process of the real-time template can die of a null driver.
THEOREM FaultsOfRealTime == Spec => []OnlyRealTimeFaults
<1>1. IInv => OnlyRealTimeFaults
  BY DEF IInv
<1>2. QED
  BY <1>1, Invariance, PTL
=============================================================================
