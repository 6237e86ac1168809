------------------------- MODULE ClientSession_proofs -------------------------
(***************************************************************************)
(* The clients release the unit, however many they are.                    *)
(***************************************************************************)
EXTENDS ClientSession, TLAPS

IInv == TypeOK /\ SessionInv

\* The clients and the unit begin in the invariant: every client will still stop the unit.
LEMMA InitInv == Init => IInv
<1> SUFFICES ASSUME Init PROVE IInv
  OBVIOUS
<1>1. TypeOK
  BY ClientsAssumption DEF Init, TypeOK, Clients, Calls, LifeCycle, Checks
<1>2. ASSUME Clients # {}
      PROVE  \E c \in Clients : WillStop(c) /\ WillLeaveInit(c)
  <2>1. PICK c \in Clients : TRUE
    BY <1>2
  <2>2. WillStop(c) /\ WillLeaveInit(c)
    BY <2>1 DEF Init, WillStop, WillLeaveInit
  <2>3. QED
    BY <2>1, <2>2
<1>3. SessionInv
  BY <1>2 DEF SessionInv, Init
<1>4. QED
  BY <1>1, <1>3 DEF IInv

\* What a call that is answered leaves the unit in, and where it found it.
LEMMA ServeCases ==
  ASSUME NEW op \in Calls, NEW answer \in {"ok", "error"}, Serve(op, answer),
         unit \in {"deinit", "init", "start"}
  PROVE  /\ unit' \in {"deinit", "init", "start"}
         /\ unit' = "start" => \/ unit = "start" /\ op # "stop"
                               \/ unit = "init" /\ op = "start"
         /\ unit' = "init" => \/ unit = "init" /\ op \notin {"start", "deinit"}
                              \/ unit = "deinit" /\ op = "init"
                              \/ unit = "start" /\ op = "stop"
  BY DEF Serve, Accepts, Refuses, Target, Calls, LifeCycle, Checks

\* Every step of the order goes to a call of that kind of client.
LEMMA OrderType ==
  ASSUME NEW c \in Clients, NEW step \in Order(c)
  PROVE  /\ step[2] \in Calls \cup {"prompt"} \cup Ends
         /\ c \in RealTimeClients /\ step[1] \notin {"prompt", "submit", "query"}
              => step[2] \notin {"prompt", "submit", "query"}
  BY ClientsAssumption
     DEF Order, AfterSetup, AfterStop, Calls, LifeCycle, Checks, Ends, Clients

\* A client that goes on to a position of its own keeps the types.
LEMMA GotoType ==
  ASSUME TypeOK, NEW c \in Clients, NEW there \in Calls \cup {"prompt"} \cup Ends,
         c \in RealTimeClients => there \notin {"prompt", "submit", "query"},
         Goto(c, there),
         UNCHANGED unit, late' \subseteq Clients \X LifeCycle, spoiled' \in BOOLEAN
  PROVE  TypeOK'
  BY DEF Goto, TypeOK

\* So does one that goes on to the next call of main.
LEMMA AdvanceType ==
  ASSUME TypeOK, NEW c \in Clients, Advance(c),
         UNCHANGED unit, late' \subseteq Clients \X LifeCycle, spoiled' \in BOOLEAN
  PROVE  TypeOK'
<1>1. PICK step \in Order(c) : step[1] = pc[c] /\ Goto(c, step[2])
  BY DEF Advance
<1>2. c \in RealTimeClients => pc[c] \notin {"prompt", "submit", "query"}
  BY DEF TypeOK
<1>3. QED
  BY <1>1, <1>2, OrderType, GotoType

\* Where a client is after it went on to the next call of main.
LEMMA AdvanceSteps ==
  ASSUME TypeOK, NEW c \in Clients, Advance(c)
  PROVE  /\ phase'[c] = "ready"
         /\ <<pc[c], pc'[c]>> \in
               {<<"init", "check1">>, <<"check1", "start">>, <<"start", "check2">>,
                <<"check2", "schedule">>, <<"schedule", "prompt">>,
                <<"schedule", "setInput">>, <<"submit", "query">>,
                <<"query", "prompt">>, <<"setInput", "stop">>, <<"stop", "check3">>,
                <<"check3", "deinit">>, <<"deinit", "check4">>, <<"check4", "done">>}
         /\ \A d \in Clients \ {c} : pc'[d] = pc[d] /\ phase'[d] = phase[d]
<1>1. PICK step \in Order(c) : step[1] = pc[c] /\ Goto(c, step[2])
  BY DEF Advance
<1>2. /\ pc'[c] = step[2] /\ phase'[c] = "ready"
      /\ \A d \in Clients \ {c} : pc'[d] = pc[d] /\ phase'[d] = phase[d]
  BY <1>1 DEF Goto, TypeOK
<1>3. QED
  BY <1>1, <1>2 DEF Order, AfterSetup, AfterStop

\* The type invariant, action by action.
LEMMA TypeStep == TypeOK /\ [Next]_vars => TypeOK'
<1> SUFFICES ASSUME TypeOK, [Next]_vars PROVE TypeOK'
  OBVIOUS
<1>1. CASE UNCHANGED vars
  BY <1>1 DEF vars, TypeOK
<1>2. ASSUME NEW c \in Clients, Call(c) PROVE TypeOK'
  BY <1>2 DEF Call, TypeOK
<1>3. ASSUME NEW c \in Clients, Execute(c) PROVE TypeOK'
  BY <1>3 DEF Execute, Serve, Target, TypeOK
<1>4. ASSUME NEW c \in Clients, Return(c) PROVE TypeOK'
  <2>1. UNCHANGED unit /\ late' \subseteq Clients \X LifeCycle /\ spoiled' \in BOOLEAN
    BY <1>4 DEF Return, TypeOK
  <2>2. CASE pc[c] = "submit" /\ phase[c] = "error"
    BY <1>4, <2>1, <2>2, GotoType DEF Return, Ends
  <2>3. CASE ~(pc[c] = "submit" /\ phase[c] = "error")
    BY <1>4, <2>1, <2>3, AdvanceType DEF Return
  <2>4. QED
    BY <2>2, <2>3
<1>5. ASSUME NEW c \in Clients, Timeout(c) PROVE TypeOK'
  <2>1. UNCHANGED unit /\ late' \subseteq Clients \X LifeCycle /\ spoiled' \in BOOLEAN
    <3>1. UNCHANGED unit /\ late' \subseteq Clients \X LifeCycle
      BY <1>5 DEF Timeout, TypeOK
    <3>2. spoiled' \in BOOLEAN
      BY <1>5 DEF Timeout, Abandons, TypeOK
    <3>3. QED
      BY <3>1, <3>2
  <2>2. CASE pc[c] \in Checks \cup {"init"}
    BY <1>5, <2>1, <2>2, GotoType DEF Timeout, Ends
  <2>3. CASE pc[c] \notin Checks \cup {"init"} /\ pc[c] = "submit"
    BY <1>5, <2>1, <2>3, GotoType DEF Timeout, Ends
  <2>4. CASE pc[c] \notin Checks \cup {"init"} /\ pc[c] # "submit"
    BY <1>5, <2>1, <2>4, AdvanceType DEF Timeout
  <2>5. QED
    BY <2>2, <2>3, <2>4
<1>6. ASSUME NEW c \in Clients, Prompt(c) PROVE TypeOK'
  <2>1. c \notin RealTimeClients
    BY <1>6 DEF Prompt, TypeOK
  <2>2. UNCHANGED unit /\ late' \subseteq Clients \X LifeCycle /\ spoiled' \in BOOLEAN
    BY <1>6 DEF Prompt, TypeOK
  <2>3. QED
    BY <1>6, <2>1, <2>2, GotoType DEF Prompt, Calls, LifeCycle
<1>7. CASE LateCall
  BY <1>7 DEF LateCall, Serve, Target, TypeOK
<1>8. CASE Relaunch
  BY <1>8 DEF Relaunch, TypeOK
<1>9. CASE Automatic
  BY <1>9, AutoAssumption DEF Automatic, Unasked, Target, TypeOK
<1>10. QED
  BY <1>1, <1>2, <1>3, <1>4, <1>5, <1>6, <1>7, <1>8, <1>9 DEF Next, Client

\* A client that steps on, away from nothing it still owes the unit, leaves
\* what the others owe as it was.
LEMMA SessionStep == IInv /\ [Next]_vars => SessionInv'
<1> SUFFICES ASSUME IInv, [Next]_vars, Clients # {}, ~spoiled'
             PROVE  /\ late' = {}
                    /\ unit' = "start" => \E c \in Clients : WillStop(c)'
                    /\ unit' = "init" => \E c \in Clients : WillLeaveInit(c)'
  BY DEF SessionInv
<1> USE DEF IInv
<1>1. ~spoiled
  BY DEF Next, vars, Client, Call, Execute, Return, Timeout, LateCall, Relaunch, Automatic,
         Prompt, TypeOK
<1>2. /\ late = {}
      /\ unit = "start" => \E c \in Clients : WillStop(c)
      /\ unit = "init" => \E c \in Clients : WillLeaveInit(c)
  BY <1>1 DEF SessionInv
<1>3. ASSUME NEW c \in Clients, NEW d \in Clients, d # c,
             pc'[d] = pc[d], phase'[d] = phase[d]
      PROVE  (WillStop(d) => WillStop(d)') /\ (WillLeaveInit(d) => WillLeaveInit(d)')
  BY <1>3 DEF WillStop, WillLeaveInit, Executed
<1>4. CASE UNCHANGED vars
  BY <1>2, <1>4 DEF vars, WillStop, WillLeaveInit, Executed
<1>5. ASSUME NEW c \in Clients, Call(c) \/ Return(c) \/ Prompt(c)
      PROVE  /\ late' = {} /\ unit' = unit
             /\ \A d \in Clients : (WillStop(d) => WillStop(d)')
                                   /\ (WillLeaveInit(d) => WillLeaveInit(d)')
  <2>1. late' = {} /\ unit' = unit
    BY <1>2, <1>5 DEF Call, Return, Prompt
  <2>2. \A d \in Clients \ {c} : pc'[d] = pc[d] /\ phase'[d] = phase[d]
    BY <1>5 DEF Call, Return, Prompt, Advance, Goto, TypeOK
  <2>3. (WillStop(c) => WillStop(c)') /\ (WillLeaveInit(c) => WillLeaveInit(c)')
    <3>1. CASE Call(c)
      BY <3>1 DEF Call, WillStop, WillLeaveInit, Executed, TypeOK
    <3>2. CASE Prompt(c)
      BY <3>2 DEF Prompt, Goto, WillStop, WillLeaveInit, Executed, TypeOK
    <3>3. CASE Return(c) /\ pc[c] = "submit" /\ phase[c] = "error"
      BY <3>3 DEF Return, Goto, WillStop, WillLeaveInit, Executed, TypeOK
    <3>4. CASE Return(c) /\ ~(pc[c] = "submit" /\ phase[c] = "error")
      BY <3>4, AdvanceSteps DEF Return, WillStop, WillLeaveInit, Executed
    <3>5. QED
      BY <1>5, <3>1, <3>2, <3>3, <3>4
  <2>4. QED
    BY <2>1, <2>2, <2>3, <1>3
<1>6. ASSUME NEW c \in Clients, Execute(c)
      PROVE  /\ late' = {}
             /\ unit' = "start" => \E d \in Clients : WillStop(d)'
             /\ unit' = "init" => \E d \in Clients : WillLeaveInit(d)'
  <2>1. PICK answer \in {"ok", "error"} :
          /\ Serve(pc[c], answer) /\ phase' = [phase EXCEPT ![c] = answer]
          /\ spoiled' = (spoiled \/ (pc[c] = "submit" /\ answer = "error" /\ unit = "start"))
    BY <1>6 DEF Execute
  <2>2. /\ pc' = pc /\ late' = {} /\ phase'[c] = answer /\ phase[c] = "sent"
        /\ \A d \in Clients \ {c} : pc'[d] = pc[d] /\ phase'[d] = phase[d]
        /\ ~(pc[c] = "submit" /\ answer = "error" /\ unit = "start")
    BY <1>2, <1>6, <2>1 DEF Execute, TypeOK
  <2>3. pc[c] \in Calls
    BY <2>2 DEF TypeOK
  <2>4. ASSUME unit' = "start" PROVE \E d \in Clients : WillStop(d)'
    <3>1. CASE unit = "start" /\ pc[c] # "stop"
      <4>1. PICK d \in Clients : WillStop(d)
        BY <1>2, <3>1
      <4>2. CASE d # c
        BY <4>1, <4>2, <2>2, <1>3
      <4>3. CASE d = c
        BY <4>1, <4>3, <2>1, <2>2, <3>1 DEF WillStop, Executed
      <4>4. QED
        BY <4>2, <4>3
    <3>2. CASE pc[c] = "start"
      BY <2>2, <3>2 DEF WillStop
    <3>3. QED
      BY <2>1, <2>3, <2>4, <3>1, <3>2, ServeCases DEF TypeOK
  <2>5. ASSUME unit' = "init" PROVE \E d \in Clients : WillLeaveInit(d)'
    <3>1. CASE unit = "init" /\ pc[c] \notin {"start", "deinit"}
      <4>1. PICK d \in Clients : WillLeaveInit(d)
        BY <1>2, <3>1
      <4>2. CASE d # c
        BY <4>1, <4>2, <2>2, <1>3
      <4>3. CASE d = c
        BY <4>1, <4>3, <2>2, <3>1 DEF WillLeaveInit, Executed
      <4>4. QED
        BY <4>2, <4>3
    <3>2. CASE pc[c] \in {"init", "stop"}
      BY <2>1, <2>2, <3>2 DEF WillLeaveInit, Executed
    <3>3. QED
      BY <2>1, <2>3, <2>5, <3>1, <3>2, ServeCases DEF TypeOK
  <2>6. QED
    BY <2>2, <2>4, <2>5
\* A call that is given up abandons nothing the unit needs in the state it is in.
<1>7. ASSUME NEW c \in Clients, Timeout(c)
      PROVE  /\ late' = {} /\ unit' = unit
             /\ \A d \in Clients :
                  /\ unit = "start" /\ WillStop(d) => WillStop(d)'
                  /\ unit = "init" /\ WillLeaveInit(d) => WillLeaveInit(d)'
  <2>1. late' = {} /\ unit' = unit /\ phase[c] # "ready" /\ ~Abandons(c)
    BY <1>2, <1>7 DEF Timeout
  <2>2. \A d \in Clients \ {c} : pc'[d] = pc[d] /\ phase'[d] = phase[d]
    BY <1>7, AdvanceSteps DEF Timeout, Goto, TypeOK
  <2>3. /\ unit = "start" /\ WillStop(c) => WillStop(c)'
        /\ unit = "init" /\ WillLeaveInit(c) => WillLeaveInit(c)'
    <3>1. CASE pc[c] \in Checks \cup {"init"}
      BY <2>1, <3>1 DEF Abandons, WillStop, WillLeaveInit, Checks
    <3>2. CASE pc[c] = "submit"
      BY <2>1, <3>2 DEF Abandons, WillStop, WillLeaveInit
    <3>3. CASE pc[c] \notin Checks \cup {"init", "submit"}
      <4>1. Advance(c)
        BY <1>7, <3>3 DEF Timeout
      <4>2. phase[c] \in {"sent", "ok", "error"}
        BY <2>1 DEF TypeOK
      <4>3. QED
        BY <2>1, <3>3, <4>1, <4>2, AdvanceSteps
           DEF Abandons, Accepts, WillStop, WillLeaveInit, Executed, Checks
    <3>4. QED
      BY <3>1, <3>2, <3>3
  <2>4. QED
    BY <2>1, <2>2, <2>3, <1>3
<1>8. CASE LateCall
  BY <1>2, <1>8 DEF LateCall
<1>9. CASE Relaunch
  BY <1>2, <1>9 DEF Relaunch
\* A unit that the metadata server takes up has a client that is to start it.
<1>10. CASE Automatic
  <2>1. late' = {} /\ UNCHANGED <<pc, phase>>
    BY <1>2, <1>10 DEF Automatic
  <2>2. PICK c \in Clients : pc[c] \in {"init", "check1"}
    BY <1>10 DEF Automatic, Unasked
  <2>3. WillStop(c)' /\ WillLeaveInit(c)'
    BY <2>1, <2>2 DEF WillStop, WillLeaveInit
  <2>4. QED
    BY <2>1, <2>3
<1>11. QED
  BY <1>2, <1>4, <1>5, <1>6, <1>7, <1>8, <1>9, <1>10 DEF Next, Client

\* What each client still owes the unit is an invariant.
THEOREM Invariance == Spec => []IInv
<1>1. IInv /\ [Next]_vars => IInv'
  BY TypeStep, SessionStep DEF IInv
<1>2. QED
  BY InitInv, <1>1, PTL DEF Spec

\* Any number of clients, of both kinds, release the unit: when all of them
\* have ended it is de-initialised, unless a call that was given up left
\* something undone or on its way, a started unit refused a submission, or the
\* metadata server took the unit up when no client was to start it any more.
THEOREM Released == Spec => []UnitReleased
<1>1. IInv => UnitReleased
  BY DEF IInv, TypeOK, SessionInv, UnitReleased, WillStop, WillLeaveInit, Ends
<1>2. QED
  BY <1>1, Invariance, PTL

\* Every variable keeps its type, and a real-time client never submits.
THEOREM TypeCorrect == Spec => []TypeOK
<1>1. IInv => TypeOK
  BY DEF IInv
<1>2. QED
  BY <1>1, Invariance, PTL
=============================================================================
