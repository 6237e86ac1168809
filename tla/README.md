# Formal models of chaos_bundle_tools

chaos_bundle_tools holds what surrounds the !CHAOS control framework: templates
of control units and their drivers, programs that drive such units, scripts that
launch, install and maintain services, and a Debian package. This directory
models the parts that have a state worth checking, in TLA+. Each model is
translated from the code, its instances are checked with TLC, and the central
properties are proved for every value of the constants with TLAPS.

`PROJECT.json` is the index: which definition models which lines (`map`), which
run checks what (`runs`), a plausible bug for each property that must make it
fail (`mutants`), places where code and text disagree (`findings`), what is hard
to test (`hazards`), and the theorems.

    tlc -workers 2 -config MCSlowControlUnit.cfg MCSlowControlUnit.tla
    tlapm SlowControlUnit_proofs.tla

All paths below are relative to the repository.

## 1. Inventory

| Component | State | Operations | Module |
|---|---|---|---|
| slow control unit template, `project_template/sccu.tmpl/source` | life cycle, attributes `rand_max`, `timeout`, `out1`, `out2`, command instances, one message per interface, malloc'ed buffers | `unitInit/Start/Stop/Deinit`, the handlers of the default command and of `fire`, `op1`, `op2`, `execOpcode` | `SlowControlUnit`, `FireContract` |
| real-time unit template, `project_template/rtcu.tmpl/source` | `in_1`, `out_1`, list of changed attributes, the driver's channel | life cycle, `unitRun`, `unitInputAttributeChangedHandler`, `driverInit`, `execOpcode` | `RealTimeControlUnit` |
| test clients, `*/test/__template_name__Client.cpp` | position in `main`, life cycle of the unit, requests on their way | init, start, use, stop, deinit, prompt, timeouts | `ClientSession` |
| start-up programs `main.cpp` of the four templates | command line, registered drivers and classes, units of the process | the calls of `main`, load, unload, life cycle, end, relaunch | `UnitServer`, `HostedSession` |
| driver and common library templates | none | empty handlers | `UnitServer` (their part of it) |
| `wait-for.sh` | tries, verdict | try, give up | `WaitFor`, `DbInit` |
| `dbinit.sh` | mongo's collections, `/tmp/dbinit`, working directories | wait, set up, remove, clone, drop, create | `DbInit`, `WaitFor` |
| `chaos_launch_unit.sh` | pid file, processes, shell variables | read and remove the file, kill, launch, write | `UnitLauncher` |
| `package_template` | dpkg's state, answers, jobs, programs, running services | preinst, postinst, prerm, postrm, jobs at boot | `PackageLifecycle` |
| command and driver skeletons | none | empty handlers | not modelled |
| `CMakeChaos.txt` | tree `external/` | clone, check out, build | not modelled |
| `cu*.sh`, `chaos_run_configuration.sh` | launched processes | launch each, monitor | not modelled |
| `mds_keep_alive.sh` | log, MDS | poll, restart | not modelled |
| `accept_merge_request.sh` | merge requests | query, merge, delete | not modelled |
| tests of services, bandwidth benchmark | services, unit servers | start, test, clean up | not modelled |
| deployment to hosts | files and services per host | copy, restart | not modelled |
| `webgui_install.sh`, `csvaverage.sh` | a directory; none | install; averages | not modelled |
| kafka and IO scripts, generators, build options, data, docker, editor files | none | calls in a line | not modelled |

How the parts meet:

* A unit runs inside the framework. The RPC thread calls the life cycle,
  sets attributes and submits commands; the scheduler (or run) thread calls the
  handlers; a driver thread executes messages that point into memory of the
  caller. They share the attribute cache and the buffers.
* The start-up programs register a driver and a class of units and then host the
  units that the metadata server loads. All units of a process share its memory
  and its end.
* The clients call the life cycle of a unit over the network, with timeouts.
  When the process of the unit is relaunched, the unit is back where it began. A
  unit whose configuration says `auto_init` and `auto_start`
  (`config/localhost/MDSConfig-lite.json`) is initialised and started by the
  metadata server too.
* `chaos_launch_unit.sh` starts the unit servers units live in, and kills those
  it replaces. Two runs of it communicate through a pid file only.
* `dbinit.sh` calls `wait-for.sh` twice; its runs share a directory. The
  package's scripts are called by dpkg and call upstart.

What is hard here: threads that share live pointers (A reads an attribute twice, B
writes it in between), C++ ints that wrap, a second allocation that fails,
messages used again with old pointers, requests that overlap or outlive the life
of the unit they were made in, calls given up that are executed later, servers
that are relaunched under their clients, pids that are given out again, a
directory that is removed under a running script, and operations of dpkg that are
cut off between two scripts. What should hold of each component is section 3; the
list with lines is `hazards` in `PROJECT.json`.

## 2. Modules and their correspondence to the code

### SlowControlUnit and FireContract

`pc` is the position of the scheduler thread inside a handler. A handler that
calls the driver is two actions, up to the send and after the answer
(`DefaultAcquire`/`DefaultReturn`, `FireOp1`/`FireOp1Return`), with `DriverExec`
of the driver thread between; `setHandler` of `fire` is also split between its
two reads of `timeout` (`FireSet`, `FireSetTimeout`), because `SetAttribute` may
come between. `live`, `mem` and `message` are the heap and the `DrvMsg` of each
interface: a freed or fresh block holds `NULL`, an indeterminate value. `malloc`
may fail at any time. `lost` is a history variable: how often `op2` threw at its
second `malloc`.

Abstractions: `rand_max` is a double counted in halves, which keeps the
truncation to int; the random value may be any the formula of `execOpcode`
yields; the ints have a constant width, with two's complement wrapping.

`FireContract` is the abstract specification: what a client is promised of
`fire`, without threads, memory or driver. A command counts from the value after
its parameter, shows every count in `out2` and is over exactly when it has shown
one above `EndCount`; before that it may be given up and shows nothing more.
`HonoursContract` says that `SlowControlUnit` implements it, under the mapping
at the end of that module.

### RealTimeControlUnit

Each request that sets `in_1` runs its own copy of the handler (`SetInput`,
`GetChanged`, `SendSet`, `ResetChanged`), the run thread has `RunSend` and
`RunReturn`, and `queue` is the driver's. A message carries a pointer into the
cache, so `ExecSet` reads `in1` when it executes, not when the request was made.
The unit's `unitDeinit` is empty and waits for nobody: a request may be at any
position while the unit is de-initialised and initialised again, and its message
is then executed by the driver of the new life. `applied`, `overlapped` and
`missed` are history: the driver has executed the message of a request since it
was initialised, the last request met another one, and a request found the list of
changes already cleared.

### ClientSession

`pc[c]` is the call in `main` (or `sendCmd`) client `c` is at, `phase[c]` whether
it has been sent and answered. `Timeout` is the client that gives up; the request
is then lost or stays in `late` and is executed by `LateCall`. An error that is
not a timeout is overlooked as in the code, where each result is overwritten by
the next, and only `sendCmd` throws. The unit is the framework's life cycle, as
the clients use it; it refuses a submission when it is not started, and may when
it is (the alias typed may be unknown). Parameters typed at the prompt are assumed
to be well-formed JSON. `Relaunch` is the end and the relaunch of the unit's
server at any moment: the unit is de-initialised again, and what the old server
left unanswered is a call given up (see `UnitServer` for the server's side).
`Automatic` is the metadata server that initialises or starts the unit by itself,
at any moment, if its configuration says so (`AutoCalls`, after `auto_init` and
`auto_start`). `spoiled` is history: a started unit refused a submission, a
request that was given up is still on its way, the metadata server took the unit
up when every client was past the call that starts it (`Unasked`), or a call was
given up that leaves something undone (`Abandons`): a start, stop or deinit the
unit would have served, a submission to a started unit, and an init or getState,
after which the client ends, while the unit is not de-initialised. A call given up
anywhere else is not an exception. A client that ends before its first call (no
argument, no controller, a toolkit that does not start) is left out: it asks
nothing of the unit.

### UnitServer

Each `main.cpp` is a sequence of calls (`SccuMain`, `RtcuMain`, `DriverMain`,
`CommonMain`) and `pc` the call the process is at; there is one action per call.
Every call of the toolkit may throw, and then `main` returns 0 (`Throw`); the
program of the common template has no handler and aborts. `start` blocks: the
process is `"serving"`, and the metadata server loads and unloads units and
drives their life cycle. `link[u]` is the driver the unit's configuration names:
none, the program's own with a good or an unreadable parameter, or a foreign one.
`UnitClass` and `DriverClass` say what the handlers of each template refuse and
where they call the driver without a test. `NullCall` is such a call without an
accessor: it ends the process and all its units. `Kill` is the launcher's
`kill -9`, `Launch` a launch with any command line. The registrations and options
are kept across a `Throw` and start afresh at `Launch`.

### HostedSession

`HostedSession` puts the clients and the process together. `ClientSession` has
one variable for the unit, which a relaunch may reset at any moment; here the unit
is one of those `UnitServer` runs (`Driven`), and `Life` is what its clients see of
it. The client's side is that of `ClientSession` (`Session!Client`), the server's
that of `UnitServer`, and where they meet, at the execution of a request
(`Answer`, `Delayed`), one step belongs to both: `Handle` is `UnitInit`,
`UnitStart`, `UnitStop` or `UnitDeinit` of the process, or an answer that leaves it
alone, for a handler that may throw (`Fails`) among others. A process that is not
serving answers nothing. What the metadata server does to the unit by itself, after
its configuration, is `Automatic`. The other units of the
process run on beside it, and may take it down. `HonoursSession` says that this
implements `ClientSession`, with `Life` for its unit: the clients see nothing of the
process but what `Execute`, `LateCall`, `Automatic` and `Relaunch` there stand for.

### WaitFor and DbInit

`WaitFor` has one action per round of the loop; the server behind the port comes
and goes. `TIMEOUT` counts rounds, as in the code: how long a round takes (a second
of sleep and as long as `nc` needs) is not modelled, nor is `-q`.

`DbInit` is `dbinit.sh`, any number of runs at once. Each run is at a command
(`pc`, `Follows`), and at its two waits it runs a `wait-for.sh` of its own:
`Wait(r)` is an instance of `WaitFor` whose timeout, port, tries and verdict are
those of the run, and `Round` takes its steps from there. The runs share
`/tmp/dbinit`: `tmp` is the directory of that name, called after the run that
made it, `cwd` the directory each run works in, which stays its directory after
another run has removed it, and `cloned` the directories that have the scripts. A
`git clone` or `mongo` may fail and nobody looks at the result; `Interrupt` is a
signal. `spoiled` is history: one of these happened since the last `rm` of any
run. The four requests to
couchbase are one command (`setup`), because no later step depends on them.

### UnitLauncher

One action per command of the script that reads or writes something shared. The
kernel gives out pids again (`Launch` and `Fork` take any free one), processes
end by themselves, and `Interrupt` ends the script between any two commands.
All runs belong to one user. `cut` and `overlapped` are history: a run was cut off
where only its variables know a server, and a run looked for the pid file while
another one was between its own look and its `echo`.

### PackageLifecycle

`operation` is what dpkg does, `script` the part of it that runs, and `Parts` says
which part follows which. `step` is the set of services the script has still to
treat, in the order of its rank in `Order`: one action per service, because a
service may die, a start may fail and the host may be rebooted between any two.
An upgrade runs prerm and postrm of the old version, the latter after the new
files were unpacked. `Boot` cuts off dpkg and starts some of the jobs there are.
`service chaos-x start` needs the job's file and `chaos-service.conf`; it may
succeed without a process, since `chaos-service` ends quietly when its program or
configuration is missing. Left out: the copies of the apache site, the upload of
the MDS configuration, the template docker, respawn.

### What is taken of the environment

The framework, dpkg, upstart, the kernel and the network are not in the
repository; they are modelled from how the code uses them and marked external in
`map`:

* the sandbox runs one handler at a time, and joins it before `unitStop`;
* a handler that throws ends its command (the default command is replaced);
* an attribute pointer is live: it shows what was written last;
* requests that set an attribute may be handled at once, and are taken only by a
  unit that is initialised; the run thread is joined before `unitStop`, requests
  under way are not waited for by `unitStop` or `unitDeinit`;
* a driver executes messages one at a time, in order, while the sender waits, in
  whatever state the unit is by then; `send` returns when that is done and does not
  fail (the drivers modelled take every opcode their units send and answer
  `MMR_EXECUTED`; `op1` and `op2` do not look at the result of `send`);
* the life cycle is deinit, init, start, and a call out of place is refused;
* the metadata server loads and unloads units at any moment, and initialises and
  starts those that are configured so by itself;
* the framework looks a unit's driver up and initialises it before `unitInit`;
* a removed directory stays the working directory of those in it, and nothing is
  found or cloned there any more.

## 3. Runs

Passing runs (`expect: pass`):

| Run | Instance | Checks |
|---|---|---|
| `slow_control_unit` | ints of three bits, `EndCount` 1, parameters 2 and 3, two blocks, `rand_max` -1 and 2, timeouts -1, 0, 2, one waiting command | `TypeOK`, `NoNullDriver`, `DriverTouchesLiveMemory`, `OnlyOp2Leaks`, `SampleIsDrawn`, `HonoursContract`, `FireLeaves`, `SubmittedStarts` |
| `real_time_unit` | three requests that may overlap, two values | `TypeOK`, `SetpointApplied`, `SeedUntilSet`, `ListCleared`, `ReadBack` |
| `client_session` | a client with a prompt and two real-time ones on one unit, whose server may be relaunched and which may be initialised and started by the metadata server | `TypeOK`, `UnitReleased` |
| `hosted_session` | the four programs, any command line, two units, any driver configuration; a client with a prompt on the unit of the command line, with `auto_init` and `auto_start` | `TypeOK`, `ServesAll`, `InitialisedHasDriver`, `OnlyRealTimeFaults` of `UnitServer`, `UnitLeft`, `HonoursSession` |
| `db_init` | two runs, one try for couchbase, two for mongo | `TypeOK`, `DatabaseComplete`, `UpIsFound`, `Ends` |
| `unit_launcher` | two places to launch from, three pids | `TypeOK`, `OneServer`, `NoneLost` |
| `package` | five sets of answers over all five services | `TypeOK`, `DeletesNothingInUse`, `NoOrphan`, `MdsStopsLast`, `RemovalComplete`, `InstalledCanStart` |

What they show, and why the bounds are enough:

* **Slow unit.** With ints of three bits parameter 3 overflows in `parm1 + 1`
  and parameter 2 in the first `cnt++`, so both wraps of the source happen; a
  wrapped count starts from -4, the other end. Two blocks are what `op2` needs;
  `malloc` may also fail with a block free, so a leak happens with one block left
  and the unit runs on until a second leak makes every later `malloc` fail. One
  waiting command fills the sandbox while another runs. `fire` keeps its contract
  although its timeout changes, a `malloc` fails or the unit is stopped in the
  middle, and the only leak is the documented one. `out1` shows only what was drawn
  for the limit of the very call that is answered, not what `malloc` left in the
  buffer nor what fits an earlier `rand_max`. A `rand_max` of 0.5 is in the
  run `rand_max`.
* **Liveness of the slow unit.** A `fire` whose count wraps starts at the bottom
  of the range and still leaves; a full sandbox makes room. With a 32-bit int
  and a cycle of half a second "leaves" takes decades: the model
  says that it ends, not when.
* **Real-time unit.** Three requests are what it takes for one to clear the
  change of a second while a third is waiting. The property excludes one thing: a
  last request that met another, when one of them found the list cleared, where the
  code can indeed lose a set point. Meeting without that does no harm, in whatever
  order the driver executes the messages. Requests may be at any position when the
  unit is de-initialised and initialised again, so a handler whose message was
  answered in the earlier life clears the list in the new one, while the driver holds
  the seed again and `in_1` still shows the old set point: until a message is
  executed the driver holds the seed (`SeedUntilSet`), and only from then on is it
  claimed to hold `in_1` (`SetpointApplied`, `ReadBack`).
* **Unit server.** It is checked with its client beside it, in `hosted_session`: one
  step of the composition is one of the process or leaves it alone. Two units: the
  one of the command line, which its client drives and the metadata server may
  unload and load again, and one beside it that anything may be asked of; either
  may take the other down. (Three units were tried and show nothing else.) The
  unit that a slow program adds for `--device_id` has a driver list that nothing
  fills: it is never initialised, and so never harms the others. A real-time unit
  without a driver does (`OnlyRealTimeFaults` allows it to that program only,
  since its `unitInit` looks at nothing). The driver program registers no
  class and never hosts a unit.
* **Clients.** Three clients: one stops what the second just started, while a
  third is at its prompt. When all have ended, from the end of `main`, through the
  exception of `sendCmd` or by giving up, the unit is de-initialised. The
  exception that `sendCmd` throws because another client has stopped the unit does
  no harm, and neither does a call that is given up where others, or this client
  itself, will still do what it was for, nor a metadata server that initialises
  and starts the unit while one of them is still before its own start. The
  exceptions are those of `spoiled`; each one was tried: without any of them TLC
  finds an execution that leaves the unit initialised. A stop or deinit that timed
  out is one of them (run `client_alone`, where only the client initialises the
  unit).
* **Hosted clients.** One client is enough to see every way the
  process can move the unit under it: loaded, constructed by the command
  line, refused its driver, unloaded, taken down by itself or by the unit beside it,
  closed, killed, relaunched, before `start` and in it, initialised and started by
  the metadata server. That other clients do not
  change this is what the theorems say, for any number of both.
* **Database.** Two runs are what it takes to remove a directory under the other
  between any two of its commands, and one that is started late can meet the
  other at each of them. Two tries have a first and a last one, one try is both:
  the loop treats all tries alike. (The 120 and 60 of the script only repeat the
  middle; three runs were tried and show nothing else.) A database that was
  complete before the runs and one that was empty are both tried. What a failed run
  leaves behind is repaired by running the script again: the exception ends with
  the next `rm`, also if the failed run goes on.
* **Launcher.** Three pids: a server, its successor, a foreign process. The
  properties hold if no run looks for the file while another is between its look
  and its `echo`, and none is interrupted between `rm` and `kill` or between the
  launch and the `echo`: everywhere else a meeting or an interruption is harmless.
* **Package.** Every sequence of operations, cut off anywhere, for the sets of
  answers of a full node, a server, a unit server, one with wan, and none. The
  answers are given before the package is installed. If they change while it is
  there `NoOrphan` fails: every job starts at a boot, so a service may run that
  was not asked for, and the postrm of an upgrade, which reads no answers,
  deletes its job without stopping it. `InstalledCanStart` is the other side of
  `package_jobs` below: an upgrade whose jobs were deleted stops at postinst and is
  not noted as installed, unless nothing was asked for. A removal that dpkg notes
  as done has left nothing that runs or could be started (`RemovalComplete`), also
  after upgrades that failed in between.

Deadlock is checked except where the system really stops: clients and
`wait-for.sh` end, and a real-time unit whose seed is unreadable never
initialises.

Runs that find a disagreement (`expect: violation`), quoted in `findings`:

| Run | What happens |
|---|---|
| `rand_max` | `unitInit` refuses `rand_max <= 0` once, as a double; 0.5, or a value set later, makes the driver draw from an empty or negative interval |
| `client_alone` | a stop or deinit that timed out is overlooked, the client returns 0 |
| `wait_for_zero` | the usage text says "zero for no timeout"; with 0 the script gives up at once |
| `unit_launcher_report` | success is reported of a server that died at once |
| `package_jobs` | in an upgrade the old postrm deletes the new jobs, postinst fails |

## 4. Fairness

* Slow unit: weak fairness of the handlers and of the driver thread (threads
  that are ready run), strong fairness of `StartFire`: between two cycles of the
  default command the scheduler looks at its queue again and again, though
  `StartFire` is disabled inside each cycle. Nothing is assumed of the RPC
  thread: nobody has to submit, start or stop.
* Real-time unit: weak fairness of every request's handler, of the run thread
  and of the driver. Nobody has to call the unit.
* `dbinit.sh`: a run that was launched runs on, the waits in it included (weak
  fairness of each run's `Step`); so does `wait-for.sh` alone. Nothing is assumed of
  the servers, which may come and go for ever, nor that a run is launched or
  interrupted.
* The other modules have safety properties only and no fairness.

## 5. Proofs

| Module | Theorems |
|---|---|
| `SlowControlUnit_proofs` | `TypeCorrect`, `NoNullCalls`, `MemorySafe`, `LeaksAccounted`, `SamplesDrawn`, `ContractHonoured` |
| `RealTimeControlUnit_proofs` | `RTypeCorrect`, `SetpointHeld`, `SeedHeld`, `ListAlwaysCleared` |
| `ClientSession_proofs` | `TypeCorrect`, `Released` |
| `UnitLauncher_proofs` | `TypeCorrect`, `AtMostOne`, `AlwaysFound` |
| `UnitServer_proofs` | `TypeCorrect`, `RegisteredBeforeServing`, `InitialisedUnits`, `FaultsOfRealTime` |
| `HostedSession_proofs` | `ProcessInvariance`, `SessionHonoured`, `NothingLeft` |
| `PackageLifecycle_proofs` | `TypeCorrect`, `DeletionSafe`, `NoOrphans`, `Installed`, `MdsLast`, `RemovalsComplete` |
| `DbInit_proofs` | `TypeCorrect`, `Complete` |

They assume only the named ASSUMEs of the modules: that the ints contain 0 and
their parameters, that the heap is finite, that the special values are not members
of the sets they stand outside of, that slow and real-time clients are different,
that a unit is at most configured to be initialised and started, that the unit of
the command line and the one the clients drive are units, that the sets of answers
name services and the tries are integers. Number of clients, requests, launchers,
pids, blocks, units, runs, tries, sets of answers, width of the ints, end count
and queue length are arbitrary.

**Slow unit.** No property of it is inductive alone: that the driver touches live
memory depends on who waits for which message, that depends on where the
scheduler is, and that nothing else is leaked depends on how many buffers each
position holds. `IInv` says all of it at once: `LifeCycleInv` (handlers run only
in a started unit, which has an accessor), `PositionInv` (what each position
implies of the command), `SendInv` (a message is at the driver only while its
sender waits, naming allocated, distinct buffers), `HeapInv` (the number of
live buffers is what was lost plus what the position holds). There is one lemma
per action and a few of arithmetic and cardinality. `ContractHonoured` then
shows the refinement: the initial states map to initial states and, given
`IInv`, every step is a step of `FireContract` or a stutter; the count the
contract knows lags behind by one between `acquireHandler` and `ccHandler`,
which is where `WrapInverse` is needed.

`SamplesDrawn` is an action property: what `out1` is set to was
drawn for the limit in the message at the moment it is set. `SendInv` carries the
fact from the driver to the handler, since the buffers of a message are touched by
nobody else between the send and the answer.

**Real-time unit.** `RInv` adds to the types that each waiting thread has exactly
one message in the queue, whichever life of the unit it is from, that a set point
of which the driver has executed something since it was initialised, but which is
not there yet, has a request that will still bring it there (`Pending`), or else was
missed, and that the driver holds the seed until it has executed a message. Nothing
relates the requests to the life cycle: they may be anywhere when it moves on.

**Clients.** `SessionInv`: a started unit has a client that will still stop it, an
initialised one has a client that will still start it or de-initialise it. When all
have ended there is no such client, so the unit is neither. A client that gives up
a call keeps what it owes, because what it abandons is not what the unit needs in
the state it is in, or the call is an exception. A unit that the metadata server
takes up has a client that will still start it, and so stop it, or it is one.

**Hosted clients.** Every step of the composition is one of the process or leaves it
alone (`ProcessStep`), so `IInv` of `UnitServer_proofs` carries over
(`ProcessInvariance`). With `IInv` every step is one of `ClientSession` for the
clients (`SessionStep`): a step of the process alone leaves `Life` as it is or puts
it to "deinit" (`ServerStep`; `start` needs that before it a unit is at most
constructed, which is `UnitsInv`), what the metadata server does by itself is
`Automatic` there (`AutomaticStep`), and an answer of the process is an answer of the
abstract unit (`HandleServes`). `NothingLeft` is then `Released` of
`ClientSession_proofs`, instantiated with `Life` for the unit: nothing about the
clients is proved twice.

**Launcher.** `LauncherInv`: one run at a time, no server between kill and launch,
and what each position knows of the file. `OneServer` follows from `NoneLost`
only together with it.

**Unit server.** `IInv` ties what is registered to the calls `main` has passed
(`RegistryInv`), and says where there can be units: none before `start` but the one
of the command line, none ever in a program without a class (`UnitsInv`).

**Package.** Why is nothing deleted in use? Because between prerm and the deletion
no service that was asked for runs (`QuietInv`), which holds because prerm stops
each one while its job is still there, which holds because jobs are either all
gone or contain those of the running services (`JobsInv`), also after an operation
was cut off in the middle of a script (`ScriptInv`: what a script has done to the
services it has treated). `MdsLast` needs the order of the ranks besides.
`RemovalsComplete` is `QuietInv` again, at the last step of a removal.

**Database.** `MakerInv`: once a run is past its `rm`, whatever is missing from the
database is still to be made by some run that is in a directory where it will
find the scripts, or has still to enter and clone one. A run whose directory was
removed was overtaken by the run that removed it, which makes what the first
cannot make any more. A failure is forgotten at the next `rm`: the run that does it
has everything still to make. When no run is at work nothing can be missing.

Only model-checked: liveness (`FireLeaves`, `SubmittedStarts`, `ReadBack`,
`UpIsFound`, `Ends`), which is out of this prover's reach, as
ENABLED is. All other properties of the passing runs are proved. No module
declares a RECURSIVE operator.

## 6. Not modelled

* `cu*.sh`, `chaos_run_configuration.sh`, the tests of the services and the
  bandwidth benchmark: each step that starts, stops or looks at a process is a
  function of `common_util.sh`, which is not in the repository. What is left is a
  list of calls.
* `mds_keep_alive.sh`: a loop around `chaos_services.sh`, which is not in the
  repository either; what a restart does to the MDS and to its log would have to
  be invented.
* `accept_merge_request.sh`: whether a merge was done is decided by the server.
* `CMakeChaos.txt`: a line of steps, each of which ends the configuration when it
  fails.
* Deployment, `webgui_install.sh`, kafka and IO scripts: copies, questions and
  calls in a line whose results are not looked at.
* `csvaverage.sh`: text handed to `bc` and `sed`; its result is a matter of their
  number formats. `images2html.sh`, the generators and build options only write
  text.
* `DefaultCommand`, `DummyDriver`, the library class of the common template, the
  `execOpcode` of the driver template: empty handlers.
* Inside modelled parts: the copies of the apache site, the upload of the MDS
  configuration, the docker template and respawn of the package; the
  command after `--` of `wait-for.sh`; JSON parsing at the prompt; printed text.

What could be added with the code there is: a composition of `ClientSession` with
the sandbox of `SlowControlUnit`, so that what a client submits is the `fire` that
runs.
