----------------------------- MODULE UnitLauncher -----------------------------
(***************************************************************************)
(* chaos_launch_unit.sh: replace the running unit server of a name by a    *)
(* new one.  The only link between two runs of the script is the pid file  *)
(* /tmp/<executable>-<name>.pid.  The kernel gives out pids again, so the  *)
(* process a file names need not be the one it was written for; processes  *)
(* die by themselves, and the script may be interrupted between any two of *)
(* its commands.  All the runs belong to one user, so that none is refused *)
(* the file or the signal by the others.                                   *)
(***************************************************************************)
CONSTANTS
  Launchers,   \* places the script may be run from, for the same name
  Pid,         \* pids of the host
  None         \* no file, or a file without a pid

ASSUME NoneAssumption == None \notin Pid

VARIABLES
  proc,        \* proc[p]: "free", "unit" (a server of that name) or "other"
  pidfile,     \* pid in the file, None if there is no file
  pc,          \* pc[l]: next command of the script, "off" when it does not run
  ptokill,     \* ptokill[l]: variable of the script
  ppid,        \* ppid[l]: variable of the script
  overlapped,  \* history: a run looked for the file while another one was
               \* between its own look and its echo
  cut          \* history: a run was interrupted where it must not be

vars == <<proc, pidfile, pc, ptokill, ppid, overlapped, cut>>
history == <<overlapped, cut>>

Init ==
  /\ proc \in [Pid -> {"free", "other"}]
  /\ pidfile = None
  /\ pc = [l \in Launchers |-> "off"]
  /\ ptokill = [l \in Launchers |-> None]
  /\ ppid = [l \in Launchers |-> None]
  /\ overlapped = FALSE /\ cut = FALSE

Goto(l, there) == pc' = [pc EXCEPT ![l] = there]

-----------------------------------------------------------------------------
(* The script, command by command. *)

\* The executable and the name are checked; nothing is done without them.
Begin(l) ==
  /\ pc[l] = "off"
  /\ Goto(l, "test")
  /\ UNCHANGED <<proc, pidfile, ptokill, ppid, history>>

NotLaunched == "write"                   \* mutant: the launch is skipped
Otherwise == "launch"

\* A run replaces the server from its look at the file to its echo.
Replaces(l) == pc[l] \in {"cat", "rm", "kill", "launch", "write"}

Test(l) ==
  /\ pc[l] = "test"
  /\ Goto(l, IF pidfile # None THEN "cat" ELSE Otherwise)
  /\ overlapped' = (overlapped \/ \E k \in Launchers \ {l} : Replaces(k))
  /\ UNCHANGED <<proc, pidfile, ptokill, ppid, cut>>

Cat(l) ==
  /\ pc[l] = "cat"
  /\ ptokill' = [ptokill EXCEPT ![l] = pidfile]
  /\ Goto(l, "rm")
  /\ UNCHANGED <<proc, pidfile, ppid, history>>

Remove(l) ==
  /\ pc[l] = "rm"
  /\ pidfile' = None
  /\ Goto(l, "kill")
  /\ UNCHANGED <<proc, ptokill, ppid, history>>

\* kill -9: a process of another user is spared.
NoVictim(l) == {}                        \* mutant: the kill is missing
Victims(l) == {ptokill[l]}

Kill(l) ==
  /\ pc[l] = "kill"
  /\ \/ proc' = [p \in Pid |-> IF p \in Victims(l) THEN "free" ELSE proc[p]]
     \/ /\ \A p \in Victims(l) \cap Pid : proc[p] = "other"
        /\ UNCHANGED proc
  /\ Goto(l, "launch")
  /\ UNCHANGED <<pidfile, ptokill, ppid, history>>

Launch(l) ==
  /\ pc[l] = "launch"
  /\ \E p \in Pid : /\ proc[p] = "free"
                    /\ proc' = [proc EXCEPT ![p] = "unit"]
                    /\ ppid' = [ppid EXCEPT ![l] = p]
  /\ Goto(l, "write")
  /\ UNCHANGED <<pidfile, ptokill, history>>

\* $! is never empty: the pid is always written, and after a second the
\* launch is reported as a success.
NotWritten(l) == None                    \* mutant: the echo is missing
Written(l) == ppid[l]

Write(l) ==
  /\ pc[l] = "write"
  /\ pidfile' = Written(l)
  /\ Goto(l, "sleep")
  /\ UNCHANGED <<proc, ptokill, ppid, history>>

Report(l) ==
  /\ pc[l] = "sleep"
  /\ Goto(l, "reported")
  /\ UNCHANGED <<proc, pidfile, ptokill, ppid, history>>

Finish(l) ==
  /\ pc[l] = "reported"
  /\ Goto(l, "off")
  /\ UNCHANGED <<proc, pidfile, ptokill, ppid, history>>

\* Between rm and kill, and between the launch and the echo, the script is
\* the only one to know a server.
Interrupt(l) ==
  /\ pc[l] # "off"
  /\ Goto(l, "off")
  /\ cut' = (cut \/ pc[l] \in {"kill", "write"})
  /\ UNCHANGED <<proc, pidfile, ptokill, ppid, overlapped>>

-----------------------------------------------------------------------------
(* The host. *)

Exit(p) ==
  /\ proc[p] # "free"
  /\ proc' = [proc EXCEPT ![p] = "free"]
  /\ UNCHANGED <<pidfile, pc, ptokill, ppid, history>>

Fork(p) ==
  /\ proc[p] = "free"
  /\ proc' = [proc EXCEPT ![p] = "other"]
  /\ UNCHANGED <<pidfile, pc, ptokill, ppid, history>>

-----------------------------------------------------------------------------
Script(l) == \/ Begin(l) \/ Test(l) \/ Cat(l) \/ Remove(l) \/ Kill(l)
             \/ Launch(l) \/ Write(l) \/ Report(l) \/ Finish(l) \/ Interrupt(l)

Next == (\E l \in Launchers : Script(l)) \/ (\E p \in Pid : Exit(p) \/ Fork(p))

Spec == Init /\ [][Next]_vars

-----------------------------------------------------------------------------
(* Properties. *)

\* Every variable has its type; a pid that is about to be written is one.
TypeOK ==
  /\ proc \in [Pid -> {"free", "unit", "other"}]
  /\ pidfile \in Pid \cup {None}
  /\ pc \in [Launchers -> {"off", "test", "cat", "rm", "kill", "launch", "write",
                           "sleep", "reported"}]
  /\ ptokill \in [Launchers -> Pid \cup {None}]
  /\ ppid \in [Launchers -> Pid \cup {None}]
  /\ \A l \in Launchers : pc[l] = "write" => ppid[l] \in Pid
  /\ overlapped \in BOOLEAN /\ cut \in BOOLEAN

\* A name has one server: whatever dies and whatever pids are given out
\* again, and although runs meet where they check their arguments or wait to
\* report.  The exceptions are a run that looks for the file while another one
\* is replacing the server, and an interruption in the two places where only
\* the variables of the script know a server.
OneServer ==
  (~overlapped /\ ~cut) =>
    \A p, q \in Pid : proc[p] = "unit" /\ proc[q] = "unit" => p = q

\* A server can be found again: by the file, or by the run that replaces it.
Known(p) ==
  \/ pidfile = p
  \/ \E l \in Launchers : \/ pc[l] \in {"rm", "kill"} /\ ptokill[l] = p
                          \/ pc[l] = "write" /\ ppid[l] = p

NoneLost == (~overlapped /\ ~cut) => \A p \in Pid : proc[p] = "unit" => Known(p)

\* Why: one run at a time replaces the server, and what each position knows.
LauncherInv ==
  (~overlapped /\ ~cut) =>
    /\ \A k, l \in Launchers : Replaces(k) /\ Replaces(l) => k = l
    /\ \A l \in Launchers :
         /\ pc[l] = "launch" => pidfile = None /\ \A p \in Pid : proc[p] # "unit"
         /\ pc[l] = "rm" => ptokill[l] = pidfile
         /\ pc[l] = "kill" => pidfile = None
         /\ pc[l] = "write" => pidfile = None

\* When the script says "* launched successfully", the server runs.
LaunchedRuns ==
  [][\A l \in Launchers :
       pc[l] = "sleep" /\ pc'[l] = "reported" => proc[ppid[l]] = "unit"]_vars
=============================================================================
