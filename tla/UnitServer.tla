----------------------------- MODULE UnitServer -----------------------------
(***************************************************************************)
(* The programs the templates build (the main.cpp of sccu.tmpl, rtcu.tmpl, *)
(* driver.tmpl and common.tmpl) as one process that is launched, runs its  *)
(* main, hosts units while it is started, ends or dies, and is launched    *)
(* again.                                                                  *)
(*                                                                         *)
(* A main is a sequence of calls; pc is the call it is at.  The last call  *)
(* of the toolkit programs, start, only returns when the process is closed *)
(* and meanwhile the metadata server loads units into it and drives their  *)
(* life cycle.  All units of a process share its memory: a null pointer    *)
(* that one of them follows ends them all.                                 *)
(***************************************************************************)
EXTENDS Naturals, Sequences

CONSTANTS
  Unit,      \* names of units
  Named      \* the name the command line gives with --device_id

ASSUME NamedAssumption == Named \in Unit

Programs == {"sccu", "rtcu", "driver", "common"}

VARIABLES
  program,   \* the program this process runs
  argv,      \* its command line: is it valid, names it a device, asks it for help
  state,     \* "off", "main" (before start) or "serving" (in start)
  pc,        \* the call of main, an index
  exit,      \* how the last process ended
  option,    \* the option device_id is declared
  drivers,   \* the program's driver is registered
  classes,   \* the program's class of units is registered
  life,      \* life[u]: "none", "deinit", "init" or "start"
  link       \* link[u]: the driver the unit was constructed with

vars == <<program, argv, state, pc, exit, option, drivers, classes, life, link>>
registry == <<option, drivers, classes>>
units == <<life, link>>

\* What the configuration of a unit may say of its driver: there is none, the
\* program's own with a good or with an unreadable parameter, another one.
Links == {"none", "own", "unreadable", "foreign"}

CommandLines == [valid : BOOLEAN, device : BOOLEAN, help : BOOLEAN]

-----------------------------------------------------------------------------
(* The programs. *)

LateRegistration ==                      \* mutant: started before registration
  <<"addOption", "init", "registerUnit", "start", "registerDriver">>

SccuMain ==
  <<"addOption", "registerDriver", "registerUnit", "init", "addUnit", "start">>
RtcuMain == <<"registerDriver", "init", "registerUnit", "start">>
NeverStarted ==                          \* mutant: main ends without start
  <<"addOption", "init", "requireDevice", "registerDriver">>
\* Its class of units is never registered.
DriverMain == <<"addOption", "init", "requireDevice", "registerDriver", "start">>
CommonMain == <<"parse", "help", "return">>

Main == [sccu |-> SccuMain, rtcu |-> RtcuMain, driver |-> DriverMain, common |-> CommonMain]
Toolkit == Programs \ {"common"}
Publishers == {"sccu", "rtcu"}

\* Of each class of units: the links its unitInit refuses, and the steps of the
\* life cycle in which a handler calls the driver without looking at the accessor.
Careless == [refuses |-> {}, calls |-> {"start"}]   \* mutant: NULL is not refused
SlowUnit == [refuses |-> {"none"}, calls |-> {"start"}]
RealTimeUnit == [refuses |-> {}, calls |-> {"init", "start"}]
TemplateUnit == [refuses |-> {}, calls |-> {}]

UnitClass == [sccu |-> SlowUnit, rtcu |-> RealTimeUnit,
              driver |-> TemplateUnit, common |-> TemplateUnit]

\* Of each driver: the links with which its driverInit throws.
SlowDriver == {}
AnySeed == {}                            \* mutant: lexical_cast is not checked
RealTimeDriver == {"unreadable"}
TemplateDriver == {}

DriverClass == [sccu |-> SlowDriver, rtcu |-> RealTimeDriver,
                driver |-> TemplateDriver, common |-> {}]

NoUnits == [u \in Unit |-> "none"]
NoLinks == [u \in Unit |-> "none"]

Init ==
  /\ program \in Programs
  /\ argv \in CommandLines
  /\ state = "off" /\ pc = 1 /\ exit = "none"
  /\ option = FALSE /\ drivers = FALSE /\ classes = FALSE
  /\ life = NoUnits /\ link = NoLinks

\* The process is gone, and its memory with it.
UnitsGone == life' = NoUnits /\ link' = NoLinks

End(how) ==
  /\ state' = "off"
  /\ exit' = how
  /\ UnitsGone
  /\ UNCHANGED <<program, argv, pc, registry>>

-----------------------------------------------------------------------------
(* main. *)

\* Someone launches the program, again if it has ended, with new arguments.
Launch ==
  /\ state = "off"
  /\ argv' \in CommandLines
  /\ state' = "main" /\ pc' = 1 /\ exit' = "none"
  /\ option' = FALSE /\ drivers' = FALSE /\ classes' = FALSE
  /\ UNCHANGED <<program, units>>

At(call) == state = "main" /\ Main[program][pc] = call

GoOn == pc' = pc + 1 /\ UNCHANGED <<program, argv, state, exit>>

AddOption ==
  /\ At("addOption")
  /\ option' = TRUE
  /\ GoOn /\ UNCHANGED <<drivers, classes, units>>

RegisterDriver ==
  /\ At("registerDriver")
  /\ drivers' = TRUE
  /\ GoOn /\ UNCHANGED <<option, classes, units>>

RegisterUnit ==
  /\ At("registerUnit")
  /\ classes' = TRUE
  /\ GoOn /\ UNCHANGED <<option, drivers, units>>

\* The toolkit parses the command line.
ToolkitInit ==
  /\ At("init")
  /\ argv.valid
  /\ GoOn /\ UNCHANGED <<registry, units>>

HasDevice == option /\ argv.device

\* The unit named on the command line is constructed with an empty driver list.
AddUnit ==
  /\ At("addUnit")
  /\ life' = IF HasDevice THEN [life EXCEPT ![Named] = "deinit"] ELSE life
  /\ GoOn /\ UNCHANGED <<registry, link>>

RequireDevice ==
  /\ At("requireDevice")
  /\ HasDevice
  /\ GoOn /\ UNCHANGED <<registry, units>>

\* start blocks; pc stays at it.
Start ==
  /\ At("start")
  /\ state' = "serving"
  /\ UNCHANGED <<program, argv, pc, exit, registry, units>>

\* Every call of the toolkit may throw, and does for a command line that is
\* not valid or lacks a device; main catches everything and returns 0.
Throw ==
  /\ state = "main" /\ program \in Toolkit
  /\ End("zero")

\* The program of the common template tests a library and has no handler: the
\* exception of the parser ends it with abort.
Parse ==
  /\ At("parse")
  /\ IF argv.valid THEN GoOn /\ UNCHANGED <<registry, units>> ELSE End("abort")

Help ==
  /\ At("help")
  /\ IF argv.help THEN End("one") ELSE GoOn /\ UNCHANGED <<registry, units>>

Return == At("return") /\ End("zero")

\* One call of main, which either returns or throws.
Step ==
  \/ AddOption \/ RegisterDriver \/ RegisterUnit \/ ToolkitInit
  \/ AddUnit \/ RequireDevice \/ Start \/ Throw
  \/ Parse \/ Help \/ Return

-----------------------------------------------------------------------------
(* While the process is started: requests of the metadata server. *)

Unchanged == UNCHANGED <<program, argv, state, pc, exit, registry>>

Load(u, l) ==
  /\ state = "serving" /\ classes
  /\ life[u] = "none"
  /\ life' = [life EXCEPT ![u] = "deinit"]
  /\ link' = [link EXCEPT ![u] = l]
  /\ Unchanged

Unload(u) ==
  /\ state = "serving"
  /\ life[u] = "deinit"
  /\ life' = [life EXCEPT ![u] = "none"]
  /\ link' = [link EXCEPT ![u] = "none"]
  /\ Unchanged

\* The framework looks the driver up and initialises it, then the unit.
Linked(u) ==
  \/ link[u] = "none"
  \/ drivers /\ link[u] # "foreign" /\ link[u] \notin DriverClass[program]

\* unitInit of the slow unit also refuses a bad rand_max: nothing changes then.
UnitInit(u) ==
  /\ state = "serving"
  /\ life[u] = "deinit"
  /\ Linked(u) /\ link[u] \notin UnitClass[program].refuses
  /\ life' = [life EXCEPT ![u] = "init"]
  /\ UNCHANGED link /\ Unchanged

UnitStart(u) ==
  /\ state = "serving"
  /\ life[u] = "init"
  /\ life' = [life EXCEPT ![u] = "start"]
  /\ UNCHANGED link /\ Unchanged

UnitStop(u) ==
  /\ state = "serving"
  /\ life[u] = "start"
  /\ life' = [life EXCEPT ![u] = "init"]
  /\ UNCHANGED link /\ Unchanged

UnitDeinit(u) ==
  /\ state = "serving"
  /\ life[u] = "init"
  /\ life' = [life EXCEPT ![u] = "deinit"]
  /\ UNCHANGED link /\ Unchanged

\* A handler calls the driver through an accessor that is not there.
NullCall(u) ==
  /\ state = "serving"
  /\ life[u] \in UnitClass[program].calls
  /\ link[u] = "none"
  /\ End("fault")

\* start returns when the process is closed, and main after it.
Close == state = "serving" /\ End("zero")

\* chaos_launch_unit.sh kills the server it replaces, in main or after.
Kill == state # "off" /\ End("kill")

Request(u) ==
  \/ \E l \in Links : Load(u, l)
  \/ Unload(u) \/ UnitInit(u) \/ UnitStart(u) \/ UnitStop(u) \/ UnitDeinit(u)

Next ==
  \/ Launch \/ Step \/ Close \/ Kill
  \/ \E u \in Unit : Request(u) \/ NullCall(u)

Spec == Init /\ [][Next]_vars

-----------------------------------------------------------------------------
(* Properties. *)

Exits == {"none", "zero", "one", "abort", "fault", "kill"}

\* Every variable keeps its type, and pc stays inside the main of the program.
TypeOK ==
  /\ program \in Programs
  /\ argv \in CommandLines
  /\ state \in {"off", "main", "serving"}
  /\ pc \in 1..Len(Main[program])
  /\ exit \in Exits
  /\ option \in BOOLEAN /\ drivers \in BOOLEAN /\ classes \in BOOLEAN
  /\ life \in [Unit -> {"none", "deinit", "init", "start"}]
  /\ link \in [Unit -> Links]

\* What is not registered before start is never served: a process that serves
\* knows its driver and, where the program publishes one, its class of units.
ServesAll ==
  state = "serving" => drivers /\ (classes <=> program \in Publishers)

\* A unit past unitInit has a driver that was found and initialised: the unit a
\* slow program adds for --device_id, with an empty driver list, never gets that
\* far.  Only the real-time unit may have none, and only the driver of the slow
\* unit takes a parameter that cannot be read.
InitialisedHasDriver ==
  \A u \in Unit : life[u] \in {"init", "start"} =>
    \/ drivers /\ link[u] = "own"
    \/ drivers /\ link[u] = "unreadable" /\ program = "sccu"
    \/ link[u] = "none" /\ program = "rtcu"

\* No unit but a real-time one brings down its process and the units beside it.
OnlyRealTimeFaults == exit = "fault" => program = "rtcu"
=============================================================================
