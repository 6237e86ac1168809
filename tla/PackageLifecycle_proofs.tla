----------------------- MODULE PackageLifecycle_proofs -----------------------
(***************************************************************************)
(* The properties of the package for every set of answers.                 *)
(*                                                                         *)
(* The argument: a service that was asked for runs only while its job is   *)
(* there (JobsInv), so prerm, which stops what has a job, stops all of     *)
(* them (ScriptInv), and none starts again before the files are deleted    *)
(* (QuietInv).                                                             *)
(***************************************************************************)
EXTENDS PackageLifecycle, TLAPS

InUse == up \cap enabled

\* The files of the new package, as they were unpacked.
Complete == jobs = Services /\ base /\ dist

\* What is known of the files and the services between two parts of dpkg.
JobsInv ==
  /\ dpkg = "none" => Idle /\ jobs = {}
  /\ jobs = {} \/ InUse \subseteq jobs
  /\ dpkg \in {"configurable", "installed"} => Complete \/ (InUse = {} /\ ~base)
  /\ dpkg = "installed" => Complete \/ enabled = {}

\* What a script has done to the services it has treated.
ScriptInv ==
  /\ script = "prerm" => InUse \subseteq jobs /\ \A s \in enabled \ step : s \notin jobs
  /\ script = "preinst" => \A s \in OldJobs \ step : s \notin jobs
  /\ script = "postinst" => dpkg = "configurable" /\ (Complete \/ enabled \ step = {})
  /\ script \notin {"postinst", "end"} => dpkg = "broken"

\* Between prerm and postinst no service that was asked for runs.
QuietInv ==
  /\ operation = "upgrade" /\ script \in {"preinst", "unpack", "postrm"} => InUse = {}
  /\ operation = "remove" /\ script \in {"delete", "postrm"} => InUse = {}
  /\ operation = "remove" /\ script = "postrm" => jobs = {}

IInv == TypeOK /\ JobsInv /\ ScriptInv /\ QuietInv

\* The services of each script.
LEMMA Tables ==
  /\ Treated("prerm") = Services /\ Treated("postinst") = Services
  /\ Treated("preinst") = OldJobs /\ OldJobs = Services \ {"wan"}
  /\ \A part \in {"unpack", "delete", "postrm", "end"} : Treated(part) = {}
  BY DEF Treated, Order, StopOrder, StartOrder, PreinstOrder, OldJobs, Services

\* prerm and preinst have the metadata server last.
LEMMA MdsRank ==
  /\ \A s \in Services \ {"mds"} : ~(Order["prerm"]["mds"] <= Order["prerm"][s])
  /\ \A s \in OldJobs \ {"mds"} : ~(Order["preinst"]["mds"] <= Order["preinst"][s])
<1>1. Order["prerm"] = StopOrder /\ Order["preinst"] = PreinstOrder
  BY DEF Order
<1>2. \A s \in Services \ {"mds"} : ~(StopOrder["mds"] <= StopOrder[s])
  BY DEF StopOrder, Services
<1>3. \A s \in OldJobs \ {"mds"} : ~(PreinstOrder["mds"] <= PreinstOrder[s])
  BY DEF PreinstOrder, OldJobs
<1>4. QED
  BY <1>1, <1>2, <1>3

\* The parts of each operation.
LEMMA Sequence ==
  /\ DOMAIN Parts = {"install", "upgrade", "remove"}
  /\ DOMAIN Parts["install"] = {"preinst", "unpack", "postinst"}
  /\ DOMAIN Parts["upgrade"] = {"prerm", "preinst", "unpack", "postrm", "postinst"}
  /\ DOMAIN Parts["remove"] = {"prerm", "delete", "postrm"}
  /\ Parts["install"]["preinst"] = "unpack" /\ Parts["install"]["unpack"] = "postinst"
  /\ Parts["install"]["postinst"] = "end"
  /\ Parts["upgrade"]["prerm"] = "preinst" /\ Parts["upgrade"]["preinst"] = "unpack"
  /\ Parts["upgrade"]["unpack"] = "postrm" /\ Parts["upgrade"]["postrm"] = "postinst"
  /\ Parts["upgrade"]["postinst"] = "end"
  /\ Parts["remove"]["prerm"] = "delete" /\ Parts["remove"]["delete"] = "postrm"
  /\ Parts["remove"]["postrm"] = "end"
  BY DEF Parts

\* A host without the package is in the invariant.
LEMMA InitInv == Init => IInv
  BY Tables DEF Init, IInv, TypeOK, JobsInv, ScriptInv, QuietInv, Idle, InUse, Complete

\* dpkg begins an operation.
LEMMA BeginStep ==
  ASSUME IInv, Install \/ Upgrade \/ Uninstall \/ Configure
  PROVE  IInv'
<1> USE Tables, Sequence, AskSetsAssumption
    DEF IInv, TypeOK, JobsInv, ScriptInv, QuietInv, Idle, InUse, Complete, Runs, Begin, files
<1>1. CASE Install
  BY <1>1 DEF Install
<1>2. CASE Upgrade
  BY <1>2 DEF Upgrade
<1>3. CASE Uninstall
  BY <1>3 DEF Uninstall
<1>4. CASE Configure
  BY <1>4 DEF Configure
<1>5. QED
  BY <1>1, <1>2, <1>3, <1>4

\* A part of an operation ends and dpkg goes on to the next.
LEMMA PartStep ==
  ASSUME IInv, Unpack \/ Delete \/ EndOfPrerm \/ EndOfPreinst \/ EndOfPostinst \/ Postrm
  PROVE  IInv'
<1> USE Tables, Sequence, AskSetsAssumption
    DEF IInv, TypeOK, JobsInv, ScriptInv, QuietInv, Idle, InUse, Complete, Runs, Stopped, Proceed, files
<1>1. CASE Unpack
  BY <1>1 DEF Unpack
<1>2. CASE Delete
  BY <1>2 DEF Delete
<1>3. CASE EndOfPrerm
  BY <1>3 DEF EndOfPrerm
<1>4. CASE EndOfPreinst
  BY <1>4 DEF EndOfPreinst
<1>5. CASE EndOfPostinst
  <2>1. Parts[operation][script] = "end"
    BY <1>5 DEF EndOfPostinst
  <2>2. Stopped /\ dpkg' = "installed" /\ UNCHANGED <<enabled, files, up>>
    BY <1>5, <2>1 DEF EndOfPostinst
  <2>3. dpkg = "configurable" /\ (Complete \/ enabled = {})
    BY <1>5 DEF EndOfPostinst
  <2>4. TypeOK'
    BY <2>2
  <2>5. JobsInv'
    BY <2>2, <2>3
  <2>6. ScriptInv' /\ QuietInv'
    BY <2>2
  <2>7. QED
    BY <2>4, <2>5, <2>6
<1>6. CASE Postrm
  <2>1. CASE operation = "upgrade"
    <3>1. Runs("upgrade", "postinst") /\ dpkg' = "configurable"
      BY <1>6, <2>1 DEF Postrm
    <3>2. InUse = {} /\ UNCHANGED <<enabled, up>>
      BY <1>6, <2>1 DEF Postrm
    <3>3. ~base' /\ dist' = FALSE /\ jobs' \subseteq Services
      BY <1>6 DEF Postrm
    <3>4. TypeOK'
      <4>1. operation' \in DOMAIN Parts /\ script' \in DOMAIN Parts[operation']
        BY <3>1
      <4>2. step' \subseteq Treated(script')
        BY <3>1
      <4>3. base' \in BOOLEAN /\ dist' \in BOOLEAN
        BY <1>6 DEF Postrm
      <4>4. QED
        BY <3>1, <3>2, <3>3, <4>1, <4>2, <4>3
    <3>5. enabled \ Services = {}
      OBVIOUS
    <3>6. JobsInv' /\ ScriptInv' /\ QuietInv'
      BY <3>1, <3>2, <3>3, <3>5
    <3>7. QED
      BY <3>4, <3>6
  <2>2. CASE operation = "remove"
    <3>1. Stopped /\ dpkg' = "none" /\ jobs' = {}
      BY <1>6, <2>2 DEF Postrm
    <3>2. QED
      BY <1>6, <3>1 DEF Postrm
  <2>3. QED
    BY <1>6, <2>1, <2>2 DEF Postrm
<1>7. QED
  BY <1>1, <1>2, <1>3, <1>4, <1>5, <1>6

\* A script treats one service.
LEMMA ServiceStep ==
  ASSUME IInv, NEW s \in Services,
         PrermService(s) \/ PreinstService(s) \/ PostinstService(s) \/ StartFails(s)
  PROVE  IInv'
<1> USE Tables, AskSetsAssumption
    DEF IInv, TypeOK, JobsInv, ScriptInv, QuietInv, Idle, InUse, Complete, Treat, NextService, files
<1>1. CASE PrermService(s)
  BY <1>1 DEF PrermService
<1>2. CASE PreinstService(s)
  BY <1>2 DEF PreinstService, StoppedFirst
<1>3. CASE PostinstService(s)
  BY <1>3 DEF PostinstService, Startable, Started
<1>4. CASE StartFails(s)
  BY <1>4 DEF StartFails, Stopped
<1>5. QED
  BY <1>1, <1>2, <1>3, <1>4

\* The administrator answers, a service dies, the host is rebooted.
LEMMA HostStep ==
  ASSUME IInv, Answer \/ Boot \/ \E s \in Services : Die(s)
  PROVE  IInv'
<1> USE Tables, AskSetsAssumption
    DEF IInv, TypeOK, JobsInv, ScriptInv, QuietInv, Idle, InUse, Complete, Stopped, files
<1>1. CASE Answer
  BY <1>1 DEF Answer
<1>2. CASE Boot
  BY <1>2 DEF Boot
<1>3. CASE \E s \in Services : Die(s)
  BY <1>3 DEF Die
<1>4. QED
  BY <1>1, <1>2, <1>3

\* Every step of dpkg, its scripts and the host keeps the invariant.
LEMMA InductiveStep == IInv /\ [Next]_vars => IInv'
<1> SUFFICES ASSUME IInv, [Next]_vars PROVE IInv'
  OBVIOUS
<1>1. CASE UNCHANGED vars
  BY <1>1 DEF IInv, TypeOK, JobsInv, ScriptInv, QuietInv, Idle, InUse, Complete, vars
<1>2. CASE Next
  BY <1>2, BeginStep, PartStep, ServiceStep, HostStep DEF Next, Dpkg, Script
<1>3. QED
  BY <1>1, <1>2

\* The inductive invariant, for every set of answers and any sequence of
\* operations, interruptions and boots.
THEOREM Invariance == Spec => []IInv
  BY InitInv, InductiveStep, PTL DEF Spec

\* Every variable of the package keeps its type.
THEOREM TypeCorrect == Spec => []TypeOK
<1>1. IInv => TypeOK
  BY DEF IInv
<1>2. QED
  BY Invariance, <1>1, PTL

\* The programs are never deleted under a service that was asked for.
THEOREM DeletionSafe == Spec => DeletesNothingInUse
<1>1. IInv /\ [Next]_vars => [dist /\ ~dist' => up \cap enabled = {}]_vars
  <2> SUFFICES ASSUME IInv, Next, dist, ~dist' PROVE InUse = {}
    BY DEF InUse
  <2>1. Delete \/ Postrm
    BY DEF Next, Dpkg, Script, Install, Upgrade, Uninstall, Configure, Begin, Unpack, Answer, Boot,
           Die, PrermService, PreinstService, PostinstService, StartFails, Treat,
           EndOfPrerm, EndOfPreinst, EndOfPostinst, files
  <2>2. operation \in {"upgrade", "remove"} /\ script \in {"delete", "postrm"}
    BY <2>1, Sequence DEF IInv, TypeOK, Delete, Postrm
  <2>3. QED
    BY <2>2, Sequence DEF IInv, TypeOK, QuietInv
<1>2. QED
  BY Invariance, <1>1, PTL DEF Spec, DeletesNothingInUse

\* The end of a removal leaves no job, no program and no service that was asked
\* for, for every set of answers and whatever was cut off before.
THEOREM RemovalsComplete == Spec => RemovalComplete
<1> DEFINE A == dpkg # "none" /\ dpkg' = "none"
                  => jobs' = {} /\ ~base' /\ ~dist' /\ up' \cap enabled' = {}
<1>1. IInv /\ [Next]_vars => [A]_vars
  <2> SUFFICES ASSUME IInv, Next, dpkg # "none", dpkg' = "none"
               PROVE  jobs' = {} /\ ~base' /\ ~dist' /\ up' \cap enabled' = {}
    OBVIOUS
  <2>1. Postrm
    BY DEF Next, Dpkg, Script, Install, Upgrade, Uninstall, Configure, Begin, Unpack, Delete,
           Answer, Boot, Die, PrermService, PreinstService, PostinstService, StartFails, Treat,
           EndOfPrerm, EndOfPreinst, EndOfPostinst, Proceed
  <2>2. operation = "remove" /\ script = "postrm"
    BY <2>1, Sequence DEF IInv, TypeOK, Postrm, Proceed
  <2>3. InUse = {} /\ jobs = {}
    BY <2>2 DEF IInv, QuietInv
  <2>4. QED
    BY <2>1, <2>3 DEF Postrm, InUse
<1>2. QED
  BY Invariance, <1>1, PTL DEF Spec, RemovalComplete

\* A service that was asked for is stopped when its job is deleted.
THEOREM NoOrphans == Spec => NoOrphan
<1> DEFINE A == \A s \in enabled : s \in jobs \cap up /\ s \notin jobs' => s \notin up'
<1>1. IInv /\ [Next]_vars => [A]_vars
  <2> SUFFICES ASSUME IInv, Next, NEW s \in enabled, s \in jobs \cap up, s \notin jobs', s \in up'
               PROVE  FALSE
    OBVIOUS
  <2>1. \/ \E t \in Services : PrermService(t) \/ PreinstService(t)
        \/ Delete \/ Postrm
    BY DEF Next, Dpkg, Script, Install, Upgrade, Uninstall, Configure, Begin, Unpack, Answer, Boot,
           Die, PostinstService, StartFails, EndOfPrerm, EndOfPreinst, EndOfPostinst, files,
           IInv, TypeOK
  <2>2. ~ \E t \in Services : PrermService(t) \/ PreinstService(t)
    BY DEF PrermService, PreinstService, StoppedFirst
  <2>3. operation \in {"upgrade", "remove"} /\ script \in {"delete", "postrm"}
    BY <2>1, <2>2, Sequence DEF IInv, TypeOK, Delete, Postrm
  <2>4. QED
    BY <2>3, Sequence DEF IInv, TypeOK, QuietInv, InUse
<1>2. QED
  BY Invariance, <1>1, PTL DEF Spec, NoOrphan

\* What dpkg notes as installed has all the files its services are started from.
THEOREM Installed == Spec => []InstalledCanStart
<1>1. IInv => InstalledCanStart
  BY AskSetsAssumption DEF IInv, TypeOK, JobsInv, Complete, InstalledCanStart
<1>2. QED
  BY Invariance, <1>1, PTL

\* The scripts stop the metadata server last.
THEOREM MdsLast == Spec => MdsStopsLast
<1> DEFINE A == \A s \in enabled :
                  step \ step' = {"mds"} /\ script' = script /\ "mds" \in up \ up'
                    => s \notin up' \/ (s = "wan" /\ script = "preinst")
<1>1. IInv /\ [Next]_vars => [A]_vars
  <2> SUFFICES ASSUME IInv, Next, NEW s \in enabled, step \ step' = {"mds"}, script' = script,
                      "mds" \in up \ up', s \in up'
               PROVE  s = "wan" /\ script = "preinst"
    OBVIOUS
  <2> USE DEF IInv, TypeOK
  <2>1. PICK t \in Services : PrermService(t) \/ PreinstService(t)
    BY Tables, Sequence
       DEF Next, Dpkg, Script, Install, Upgrade, Uninstall, Configure, Begin, Idle, Runs, Unpack,
           Delete, Postrm, Answer, Boot, Die, PostinstService, Started, StartFails, Treat,
           EndOfPrerm, EndOfPreinst, EndOfPostinst, Proceed, Stopped
  <2>2. t = "mds"
    BY <2>1 DEF PrermService, PreinstService, Treat
  <2>3. CASE PrermService(t)
    <3>1. step = {"mds"}
      BY <2>2, <2>3, Tables, MdsRank DEF PrermService, Treat, NextService
    <3>2. s \in enabled \ step
      BY <2>2, <2>3, <3>1 DEF PrermService
    <3>3. QED
      BY <2>3, <3>2 DEF PrermService, Treat, ScriptInv, InUse
  <2>4. CASE PreinstService(t)
    <3>1. step = {"mds"}
      BY <2>2, <2>4, Tables, MdsRank DEF PreinstService, Treat, NextService
    <3>2. "mds" \in jobs /\ InUse \subseteq jobs
      BY <2>2, <2>4 DEF PreinstService, StoppedFirst, JobsInv
    <3>3. s \notin OldJobs \ step
      BY <2>4, <3>2 DEF PreinstService, Treat, ScriptInv, InUse, StoppedFirst
    <3>4. s # "mds"
      BY <2>2, <2>4, <3>2 DEF PreinstService, StoppedFirst
    <3>5. QED
      BY <2>4, <3>1, <3>3, <3>4, Tables, AskSetsAssumption DEF PreinstService, Treat
  <2>5. QED
    BY <2>1, <2>3, <2>4
<1>2. QED
  BY Invariance, <1>1, PTL DEF Spec, MdsStopsLast
=============================================================================
