------------------------------- MODULE DbInit -------------------------------
(***************************************************************************)
(* dbinit.sh: wait for the couchbase server and configure it, then wait    *)
(* for the mongo server, clone the scripts into /tmp/dbinit and run them.  *)
(* Several runs may be at work at once and share /tmp/dbinit; no result    *)
(* but that of the two waits is looked at.                                 *)
(*                                                                         *)
(* External, modelled from how the script uses it: the servers, the        *)
(* scripts that mongo runs (named for what they do; to do it again does no *)
(* harm), git, and the file system: a directory that was removed stays the *)
(* working directory of the runs in it, where nothing is found or cloned   *)
(* any more.  A removal and a clone are one step each, and all runs belong *)
(* to one user and were started in one directory.                          *)
(***************************************************************************)
EXTENDS Integers

CONSTANTS
  Run,      \* bound: the runs of the script
  Attempts,   \* Attempts[s]: tries wait-for.sh is given for server s
  Home,     \* the directory the runs were started in
  None      \* no directory

Servers == {"couchbase", "mongo"}

ASSUME DirectoryAssumption == Home \notin Run /\ None \notin Run \cup {Home}
ASSUME AttemptsAssumption == Attempts \in [Servers -> Int]

VARIABLES
  pc,        \* pc[r]: the command run r is at, or how it ended
  open,      \* open[s]: server s answers
  tries,     \* tries[r], verdict[r]: the wait-for.sh that r runs
  verdict,
  mongo,     \* what there is in the mongo database
  tmp,       \* the directory /tmp/dbinit, named for the run that made it
  cwd,       \* cwd[r]: the working directory of r
  cloned,    \* the directories that have the scripts
  spoiled    \* history: since the last rm a clone or a mongo failed, or a run
             \* past its own rm was cut off

vars == <<pc, open, tries, verdict, mongo, tmp, cwd, cloned, spoiled>>
waits == <<open, tries, verdict>>
files == <<tmp, cwd, cloned>>

Things == {"users", "collections", "index"}

-----------------------------------------------------------------------------
(* The script. *)

CleanUpLast ==                                 \* mutant: of Follows
  [couchbase |-> "setup", setup |-> "mongo", mongo |-> "mkdir",
   mkdir |-> "cd", cd |-> "clone", clone |-> "drop", drop |-> "users",
   users |-> "collections", collections |-> "index", index |-> "rm", rm |-> "done"]
\* What comes after each command; setup stands for the requests to couchbase.
Follows ==
  [couchbase |-> "setup", setup |-> "mongo", mongo |-> "rm", rm |-> "mkdir",
   mkdir |-> "cd", cd |-> "clone", clone |-> "drop", drop |-> "users",
   users |-> "collections", collections |-> "index", index |-> "done"]

Commands == DOMAIN Follows
Over == {"ready", "done", "failed", "cut"}
AtWork(r) == pc[r] \in Commands

Goto(r, command) == pc' = [pc EXCEPT ![r] = command]
Advance(r) == Goto(r, Follows[pc[r]])

Init ==
  /\ pc = [r \in Run |-> "ready"]
  /\ open \in [Servers -> BOOLEAN]
  /\ tries = [r \in Run |-> 0]
  /\ verdict = [r \in Run |-> "waiting"]
  /\ mongo \in {{}, Things}
  /\ tmp = None
  /\ cwd = [r \in Run |-> Home]
  /\ cloned = {}
  /\ spoiled = FALSE

Launch(r) ==
  /\ pc[r] = "ready"
  /\ Goto(r, "couchbase")
  /\ UNCHANGED <<waits, mongo, files, spoiled>>

-----------------------------------------------------------------------------
(* The two waits: each runs wait-for.sh. *)

Waits(r) == pc[r] \in Servers
Limit(r) == IF Waits(r) THEN Attempts[pc[r]] ELSE 0
Answers(r) == Waits(r) /\ open[pc[r]]

Wait(r) == INSTANCE WaitFor WITH
  Timeouts <- Int, timeout <- Limit(r), open <- Answers(r),
  tries <- tries[r], verdict <- verdict[r]

\* One round of the loop, or its end.
Round(r) ==
  /\ Waits(r)
  /\ \E n \in {tries[r], tries[r] + 1} : tries' = [tries EXCEPT ![r] = n]
  /\ \E v \in {"waiting", "connected", "timedOut"} : verdict' = [verdict EXCEPT ![r] = v]
  /\ UNCHANGED <<pc, open, mongo, files, spoiled>>
  /\ Wait(r)!Try \/ Wait(r)!GiveUp

KeepWait(r) == UNCHANGED <<tries, verdict>>    \* mutant: of ResetWait
ResetWait(r) ==
  /\ tries' = [tries EXCEPT ![r] = 0]
  /\ verdict' = [verdict EXCEPT ![r] = "waiting"]

\* The script goes on if the port was found open and ends with 1 if not.
AfterWait(r) ==
  /\ Waits(r) /\ verdict[r] # "waiting"
  /\ IF verdict[r] = "connected" THEN Advance(r) ELSE Goto(r, "failed")
  /\ ResetWait(r)
  /\ UNCHANGED <<open, mongo, files, spoiled>>

-----------------------------------------------------------------------------
(* The commands after each wait; a failure is overlooked. *)

Setup(r) ==
  /\ pc[r] = "setup"
  /\ Advance(r)
  /\ UNCHANGED <<waits, mongo, files, spoiled>>

\* rm -rf: the runs in the directory keep it, without its contents.
Remove(r) ==
  /\ pc[r] = "rm"
  /\ tmp' = None
  /\ cloned' = cloned \ {tmp}
  /\ spoiled' = FALSE
  /\ Advance(r)
  /\ UNCHANGED <<waits, mongo, cwd>>

\* mkdir -p is content with a directory that is there.
MakeDir(r) ==
  /\ pc[r] = "mkdir"
  /\ tmp' = IF tmp = None THEN r ELSE tmp
  /\ Advance(r)
  /\ UNCHANGED <<waits, mongo, cwd, cloned, spoiled>>

\* A cd that fails, another run having removed the directory, leaves it at home.
Enter(r) ==
  /\ pc[r] = "cd"
  /\ cwd' = IF tmp = None THEN cwd ELSE [cwd EXCEPT ![r] = tmp]
  /\ Advance(r)
  /\ UNCHANGED <<waits, mongo, tmp, cloned, spoiled>>

\* git clone does nothing where a clone or no directory is.
Clones(r) == cwd[r] \in {Home, tmp} \ cloned

Clone(r) ==
  /\ pc[r] = "clone"
  /\ \/ Clones(r) /\ cloned' = cloned \cup {cwd[r]} /\ UNCHANGED spoiled
     \/ Clones(r) /\ spoiled' = TRUE /\ UNCHANGED cloned
     \/ ~Clones(r) /\ UNCHANGED <<cloned, spoiled>>
  /\ Advance(r)
  /\ UNCHANGED <<waits, mongo, tmp, cwd>>

\* mongo runs one of the four scripts, if it finds it.
Effect(script) ==
  IF script = "drop" THEN mongo \ {"collections", "index"} ELSE mongo \cup {script}

Mongo(r) ==
  /\ pc[r] \in Things \cup {"drop"}
  /\ IF cwd[r] \in cloned
       THEN \/ mongo' = Effect(pc[r]) /\ UNCHANGED spoiled
            \/ spoiled' = TRUE /\ UNCHANGED mongo
       ELSE UNCHANGED <<mongo, spoiled>>
  /\ Advance(r)
  /\ UNCHANGED <<waits, files>>

Step(r) ==
  \/ Round(r) \/ AfterWait(r) \/ Setup(r)
  \/ Remove(r) \/ MakeDir(r) \/ Enter(r) \/ Clone(r) \/ Mongo(r)

-----------------------------------------------------------------------------
(* What happens around it. *)

\* A signal ends the run.
Interrupt(r) ==
  /\ AtWork(r)
  /\ Goto(r, "cut")
  /\ spoiled' = IF pc[r] \in Servers \cup {"setup", "rm"} THEN spoiled ELSE TRUE
  /\ ResetWait(r)
  /\ UNCHANGED <<open, mongo, files>>

\* A server comes or goes.
Toggle(s) ==
  /\ open' = [open EXCEPT ![s] = ~open[s]]
  /\ UNCHANGED <<pc, tries, verdict, mongo, files, spoiled>>

Next ==
  \/ \E r \in Run : Launch(r) \/ Step(r) \/ Interrupt(r)
  \/ \E s \in Servers : Toggle(s)

\* A run that was launched runs on, whatever the servers do.
Spec == Init /\ [][Next]_vars /\ \A r \in Run : WF_vars(Step(r))

-----------------------------------------------------------------------------
(* Properties. *)

\* Every variable keeps its type; each wait makes at most the tries it is given.
TypeOK ==
  /\ pc \in [Run -> Commands \cup Over]
  /\ open \in [Servers -> BOOLEAN]
  /\ tries \in [Run -> Nat] /\ \A r \in Run : tries[r] = 0 \/ tries[r] <= Limit(r)
  /\ verdict \in [Run -> {"waiting", "connected", "timedOut"}]
  /\ mongo \subseteq Things
  /\ tmp \in Run \cup {None}
  /\ cwd \in [Run -> Run \cup {Home}]
  /\ cloned \subseteq Run \cup {Home}
  /\ spoiled \in BOOLEAN

\* Runs that meet take /tmp/dbinit away from each other, between the drop of
\* the collections and their creation too: the last of them still leaves the
\* database complete, unless a clone, a mongo or a signal failed one after the
\* last rm.  What failed before it, with the collections dropped and not made
\* again, is repaired by running the script again, also while the failed run
\* goes on.
DatabaseComplete ==
  (\A r \in Run : ~AtWork(r)) /\ (\E r \in Run : pc[r] = "done") /\ ~spoiled
    => mongo = Things

\* A server that is up while a try is left is found, unless it goes down
\* again before the next try or the run is cut off: the last round counts.
UpIsFound ==
  \A r \in Run, s \in Servers :
    (pc[r] = s /\ verdict[r] = "waiting" /\ open[s] /\ tries[r] < Attempts[s])
      ~> (verdict[r] = "connected" \/ ~open[s] \/ pc[r] = "cut")

\* Every run ends, also when no server ever comes up or another run takes its
\* directory away.
Ends == \A r \in Run : AtWork(r) ~> ~AtWork(r)
=============================================================================
