------------------------- MODULE UnitLauncher_proofs -------------------------
(***************************************************************************)
(* One server per name, and none lost, for every number of runs of the     *)
(* launcher and every set of pids.                                         *)
(***************************************************************************)
EXTENDS UnitLauncher, TLAPS

IInv == TypeOK /\ LauncherInv /\ OneServer /\ NoneLost

\* A host without a server is in the invariant.
LEMMA InitInv == Init => IInv
  BY DEF Init, IInv, TypeOK, LauncherInv, OneServer, NoneLost, Replaces

\* Every command of the script and every event of the host keeps the types.
LEMMA TypeStep == TypeOK /\ [Next]_vars => TypeOK'
<1> SUFFICES ASSUME TypeOK, [Next]_vars PROVE TypeOK'
  OBVIOUS
<1> USE DEF TypeOK, history
<1>1. CASE UNCHANGED vars
  BY <1>1 DEF vars
<1>2. ASSUME NEW l \in Launchers, Script(l) PROVE TypeOK'
  <2> USE DEF Goto
  <2>1. CASE Begin(l) \/ Finish(l) \/ Report(l) \/ Interrupt(l)
    BY <2>1 DEF Begin, Finish, Report, Interrupt
  <2>2. CASE Test(l) \/ Cat(l) \/ Remove(l) \/ Write(l)
    BY <2>2 DEF Test, Otherwise, Cat, Remove, Write, Written
  <2>3. CASE Kill(l)
    BY <2>3 DEF Kill, Victims
  <2>4. CASE Launch(l)
    BY <2>4 DEF Launch
  <2>5. QED
    BY <1>2, <2>1, <2>2, <2>3, <2>4 DEF Script
<1>3. ASSUME NEW p \in Pid, Exit(p) \/ Fork(p) PROVE TypeOK'
  BY <1>3 DEF Exit, Fork
<1>4. QED
  BY <1>1, <1>2, <1>3 DEF Next

\* What a step of the script does to the runs that do not take it, when none has
\* looked for the file too early: if the step replaces the server, or begins to,
\* no other run does.
LEMMA Alone ==
  ASSUME IInv, NEW l \in Launchers, Script(l), ~overlapped', ~cut'
  PROVE  /\ ~overlapped /\ ~cut
         /\ \A k \in Launchers \ {l} : pc'[k] = pc[k]
         /\ Replaces(l) \/ Test(l) => \A k \in Launchers \ {l} : ~Replaces(k)
<1>1. ~overlapped /\ ~cut
  BY DEF IInv, TypeOK, Script, Begin, Test, Cat, Remove, Kill, Launch, Write, Report,
         Finish, Interrupt, history
<1>2. \A k \in Launchers \ {l} : pc'[k] = pc[k]
  BY DEF IInv, TypeOK, Script, Begin, Test, Cat, Remove, Kill, Launch, Write, Report,
         Finish, Interrupt, Goto
<1>3. CASE Replaces(l)
  BY <1>1, <1>2, <1>3 DEF IInv, LauncherInv
<1>4. CASE Test(l)
  BY <1>1, <1>2, <1>4 DEF Test
<1>5. QED
  BY <1>1, <1>2, <1>3, <1>4

\* The commands that do not touch the server or the file, beside a run that may.
LEMMA AsideStep ==
  ASSUME IInv, NEW l \in Launchers, Begin(l) \/ Report(l) \/ Finish(l),
         ~overlapped', ~cut'
  PROVE  (LauncherInv /\ OneServer /\ NoneLost)'
<1>1. /\ UNCHANGED <<proc, pidfile, ptokill, ppid, history>>
      /\ pc[l] \in {"off", "sleep", "reported"} /\ pc'[l] \in {"test", "reported", "off"}
      /\ \A k \in Launchers \ {l} : pc'[k] = pc[k]
  BY DEF Begin, Report, Finish, Goto, IInv, TypeOK
<1>2. QED
  BY <1>1 DEF IInv, TypeOK, LauncherInv, OneServer, NoneLost, Known, Replaces, history

\* The invariant of the runs, step by step.
LEMMA ScriptStep ==
  ASSUME IInv, TypeOK', NEW l \in Launchers, Script(l), ~overlapped', ~cut'
  PROVE  (LauncherInv /\ OneServer /\ NoneLost)'
<1>1. /\ ~overlapped /\ ~cut
      /\ \A k \in Launchers \ {l} : pc'[k] = pc[k]
      /\ Replaces(l) \/ Test(l) => \A k \in Launchers \ {l} : ~Replaces(k)
  BY Alone
<1> USE DEF IInv, TypeOK, Goto, history
<1>a. CASE Begin(l) \/ Report(l) \/ Finish(l)
  BY <1>a, AsideStep
<1>b. CASE Interrupt(l) /\ ~Replaces(l)
  <2>1. /\ UNCHANGED <<proc, pidfile, ptokill, ppid, history>>
        /\ pc[l] \in {"test", "sleep", "reported"} /\ pc'[l] = "off"
    BY <1>1, <1>b DEF Interrupt, Replaces
  <2>2. QED
    BY <1>1, <2>1 DEF LauncherInv, OneServer, NoneLost, Known, Replaces
<1>c. SUFFICES ASSUME \A k \in Launchers \ {l} : ~Replaces(k) /\ ~Replaces(k)',
                      Replaces(l) \/ Test(l)
               PROVE  (LauncherInv /\ OneServer /\ NoneLost)'
  BY <1>1, <1>a, <1>b
     DEF Script, Cat, Remove, Kill, Launch, Write, Interrupt, Replaces
<1>2. \A p \in Pid : proc[p] = "unit" =>
        \/ pidfile = p
        \/ pc[l] \in {"rm", "kill"} /\ ptokill[l] = p
        \/ pc[l] = "write" /\ ppid[l] = p
  BY <1>1, <1>c DEF NoneLost, Known, Replaces
<1>3. /\ \A p, q \in Pid : proc[p] = "unit" /\ proc[q] = "unit" => p = q
      /\ pc[l] = "launch" => pidfile = None /\ \A p \in Pid : proc[p] # "unit"
      /\ pc[l] = "rm" => ptokill[l] = pidfile
      /\ pc[l] \in {"kill", "write"} => pidfile = None
  BY <1>1 DEF LauncherInv, OneServer
<1>4. ASSUME /\ \A p, q \in Pid : proc'[p] = "unit" /\ proc'[q] = "unit" => p = q
             /\ \A p \in Pid : proc'[p] = "unit" =>
                  \/ pidfile' = p
                  \/ pc'[l] \in {"rm", "kill"} /\ ptokill'[l] = p
                  \/ pc'[l] = "write" /\ ppid'[l] = p
             /\ pc'[l] = "launch" => pidfile' = None /\ \A p \in Pid : proc'[p] # "unit"
             /\ pc'[l] = "rm" => ptokill'[l] = pidfile'
             /\ pc'[l] \in {"kill", "write"} => pidfile' = None
      PROVE  (LauncherInv /\ OneServer /\ NoneLost)'
  BY <1>1, <1>c, <1>4 DEF LauncherInv, OneServer, NoneLost, Known, Replaces
<1>6. CASE Test(l)
  BY <1>2, <1>3, <1>4, <1>6, NoneAssumption DEF Test, Otherwise
<1>7. CASE Cat(l)
  BY <1>2, <1>3, <1>4, <1>7 DEF Cat
<1>8. CASE Remove(l)
  BY <1>2, <1>3, <1>4, <1>8 DEF Remove
<1>9. CASE Kill(l)
  BY <1>2, <1>3, <1>4, <1>9, NoneAssumption DEF Kill, Victims
<1>10. CASE Launch(l)
  BY <1>2, <1>3, <1>4, <1>10 DEF Launch
<1>11. CASE Write(l)
  BY <1>2, <1>3, <1>4, <1>11, NoneAssumption DEF Write, Written
<1>12. CASE Interrupt(l)
  BY <1>1, <1>2, <1>3, <1>4, <1>12, NoneAssumption DEF Interrupt
<1>13. QED
  BY <1>a, <1>6, <1>7, <1>8, <1>9, <1>10, <1>11, <1>12 DEF Script

\* The host takes processes away and adds foreign ones.
LEMMA HostStep ==
  ASSUME IInv, NEW p \in Pid, Exit(p) \/ Fork(p)
  PROVE  (LauncherInv /\ OneServer /\ NoneLost)'
<1>1. /\ \A q \in Pid : proc'[q] = "unit" => proc[q] = "unit"
      /\ UNCHANGED <<pidfile, pc, ptokill, ppid, history>>
  BY DEF Exit, Fork, IInv, TypeOK
<1>2. QED
  BY <1>1 DEF IInv, LauncherInv, OneServer, NoneLost, Known, Replaces, history

\* Every step keeps the invariant.
LEMMA StepInv == IInv /\ [Next]_vars => IInv'
<1> SUFFICES ASSUME IInv, [Next]_vars PROVE IInv'
  OBVIOUS
<1>1. TypeOK'
  BY TypeStep DEF IInv
<1>2. CASE UNCHANGED vars
  BY <1>2 DEF vars, IInv, TypeOK, LauncherInv, OneServer, NoneLost, Known, Replaces
<1>3. CASE \E l \in Launchers : Script(l)
  <2>1. CASE overlapped' \/ cut'
    BY <1>1, <2>1 DEF IInv, LauncherInv, OneServer, NoneLost
  <2>2. CASE ~overlapped' /\ ~cut'
    BY <1>1, <1>3, <2>2, ScriptStep DEF IInv
  <2>3. QED
    BY <2>1, <2>2
<1>4. CASE \E p \in Pid : Exit(p) \/ Fork(p)
  BY <1>1, <1>4, HostStep DEF IInv
<1>5. QED
  BY <1>2, <1>3, <1>4 DEF Next

\* The inductive invariant: at most one server, known by the file or by the one
\* run that replaces it.
THEOREM Invariance == Spec => []IInv
  BY InitInv, StepInv, PTL DEF Spec

\* A name has at most one server, for every number of pids and of runs of the
\* script that do not meet while one replaces the server, whatever dies and
\* whatever pids are given out again.
THEOREM AtMostOne == Spec => []OneServer
<1>1. IInv => OneServer
  BY DEF IInv
<1>2. QED
  BY <1>1, Invariance, PTL

\* The next run of the script can always find that server.
THEOREM AlwaysFound == Spec => []NoneLost
<1>1. IInv => NoneLost
  BY DEF IInv
<1>2. QED
  BY <1>1, Invariance, PTL

\* Every variable of the launcher and its host keeps its type.
THEOREM TypeCorrect == Spec => []TypeOK
<1>1. IInv => TypeOK
  BY DEF IInv
<1>2. QED
  BY Invariance, <1>1, PTL
=============================================================================
