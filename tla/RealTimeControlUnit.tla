------------------------- MODULE RealTimeControlUnit -------------------------
(***************************************************************************)
(* The real-time control unit template (project_template/rtcu.tmpl): a     *)
(* client sets the input attribute in_1, the attribute-changed handler     *)
(* sends it to the driver (SET_CH_1), and the unit's own thread reads the  *)
(* channel back into the output attribute out_1 at every run (GET_CH_1).   *)
(*                                                                         *)
(* Handlers run in the thread of the request that set the attribute, so    *)
(* several may be at work; all of them and the run thread share one        *)
(* driver, which executes its messages one at a time and in order.         *)
(***************************************************************************)
EXTENDS Integers, Sequences

CONSTANTS
  Setters,    \* request threads of the framework that may set in_1
  Values,     \* int32_t values of the channel
  BadSeed,    \* an initialization string that is not an int32_t
  Run         \* the thread of the unit

ASSUME SettersAssumption == Run \notin Setters /\ BadSeed \notin Values

Threads == Setters \cup {Run}

VARIABLES
  unit,       \* life cycle: "deinit", "init", "start"
  seed,       \* initialization string of the driver, from the configuration
  in1,        \* input attribute in_1, a cell of the shared attribute cache
  changed,    \* TRUE iff the cache lists in_1 as changed
  out1,       \* output attribute out_1
  channel,    \* i32_out_1_value of the driver
  queue,      \* messages the driver has not executed, by sender
  at,         \* at[t]: position of thread t, "idle" outside its handler
  applied,    \* history: the driver has executed the message of a request since
              \* it was initialized
  overlapped, \* history: the last request to set in_1 met another one
  missed      \* history: a request found the list of changes cleared, and no
              \* value has reached the driver since

history == <<overlapped, missed>>
vars == <<unit, seed, in1, changed, out1, channel, queue, at, applied, history>>

Init ==
  /\ unit = "deinit"
  /\ seed \in Values \cup {BadSeed}
  /\ in1 \in Values /\ out1 \in Values /\ channel \in Values
  /\ changed = FALSE
  /\ queue = <<>>
  /\ at = [t \in Threads |-> "idle"]
  /\ applied = FALSE /\ overlapped = FALSE /\ missed = FALSE

-----------------------------------------------------------------------------
(* Life cycle. *)

\* driverInit throws unless the initialization string is an int32_t.
AnySeed(string) == TRUE                  \* mutant: lexical_cast is not checked
Readable(string) == string # BadSeed

Kept == channel                          \* mutant: the seed is not stored
Seeded == seed

\* The unit's own unitInit does nothing with in_1: the attribute keeps what it
\* was set to in an earlier life of the unit.
UnitInit ==
  /\ unit = "deinit"
  /\ Readable(seed)
  /\ unit' = "init"
  /\ channel' = Seeded
  /\ applied' = FALSE
  /\ UNCHANGED <<seed, in1, changed, out1, queue, at, history>>

UnitStart ==
  /\ unit = "init"
  /\ unit' = "start"
  /\ UNCHANGED <<seed, in1, changed, out1, channel, queue, at, applied, history>>

\* The framework joins the run thread.  Nobody waits for the requests: they
\* may be under way while the unit is de-initialised and initialised again.
UnitStop ==
  /\ unit = "start"
  /\ at[Run] = "idle"
  /\ unit' = "init"
  /\ UNCHANGED <<seed, in1, changed, out1, channel, queue, at, applied, history>>

UnitDeinit ==
  /\ unit = "init"
  /\ unit' = "deinit"
  /\ UNCHANGED <<seed, in1, changed, out1, channel, queue, at, applied, history>>

-----------------------------------------------------------------------------
(* A request that sets in_1, and unitInputAttributeChangedHandler. *)

\* The framework writes the cell, marks it as changed and calls the handler.
SetInput(s) ==
  /\ unit # "deinit"
  /\ at[s] = "idle"
  /\ in1' \in Values
  /\ changed' = TRUE
  /\ at' = [at EXCEPT ![s] = "called"]
  /\ overlapped' = \E t \in Setters \ {s} : at[t] # "idle"
  /\ UNCHANGED <<unit, seed, out1, channel, queue, applied, missed>>

\* The handler asks once which attributes have changed.
GetChanged(s) ==
  /\ at[s] = "called"
  /\ at' = [at EXCEPT ![s] = IF changed THEN "send" ELSE "idle"]
  /\ missed' = (missed \/ ~changed)
  /\ UNCHANGED <<unit, seed, in1, changed, out1, channel, queue, applied, overlapped>>

SendSet(s) ==
  /\ at[s] = "send"
  /\ queue' = Append(queue, s)
  /\ at' = [at EXCEPT ![s] = "wait"]
  /\ UNCHANGED <<unit, seed, in1, changed, out1, channel, applied, history>>

\* After its messages the handler clears the list, whatever is in it by now.
NotCleared == changed                    \* mutant: the list is not reset
Cleared == FALSE

ResetChanged(s) ==
  /\ at[s] = "answered"
  /\ changed' = Cleared
  /\ at' = [at EXCEPT ![s] = "idle"]
  /\ UNCHANGED <<unit, seed, in1, out1, channel, queue, applied, history>>

-----------------------------------------------------------------------------
(* unitRun. *)

RunSend ==
  /\ unit = "start"
  /\ at[Run] = "idle"
  /\ queue' = Append(queue, Run)
  /\ at' = [at EXCEPT ![Run] = "wait"]
  /\ UNCHANGED <<unit, seed, in1, changed, out1, channel, applied, history>>

RunReturn ==
  /\ at[Run] = "answered"
  /\ at' = [at EXCEPT ![Run] = "idle"]
  /\ UNCHANGED <<unit, seed, in1, changed, out1, channel, queue, applied, history>>

-----------------------------------------------------------------------------
(* The driver thread: execOpcode. *)

\* The message of a setter points into the cache: SET_CH_1 reads the value
\* in_1 has now.
SetIgnored ==                            \* mutant: the length test is inverted
  /\ Head(queue) \in Setters
  /\ applied' = TRUE
  /\ missed' = FALSE
  /\ UNCHANGED <<channel, out1>>
ExecSet ==
  /\ Head(queue) \in Setters
  /\ channel' = in1
  /\ applied' = TRUE
  /\ missed' = FALSE
  /\ UNCHANGED out1

\* The message of the run thread points to out_1.
GetIgnored ==                            \* mutant: the case is missing
  Head(queue) = Run /\ UNCHANGED <<channel, out1, applied, missed>>
ExecGet ==
  /\ Head(queue) = Run
  /\ out1' = channel
  /\ UNCHANGED <<channel, applied, missed>>

DriverExec ==
  /\ queue # <<>>
  /\ ExecSet \/ ExecGet
  /\ queue' = Tail(queue)
  /\ at' = [at EXCEPT ![Head(queue)] = "answered"]
  /\ UNCHANGED <<unit, seed, in1, changed, overlapped>>

-----------------------------------------------------------------------------
Handler(s) == GetChanged(s) \/ SendSet(s) \/ ResetChanged(s)
RunThread == RunSend \/ RunReturn

Next ==
  \/ UnitInit \/ UnitStart \/ UnitStop \/ UnitDeinit
  \/ \E s \in Setters : SetInput(s) \/ Handler(s)
  \/ RunThread
  \/ DriverExec

\* The threads of a started unit and of a request keep running, and so does
\* the driver; nobody has to call the unit.
Fairness ==
  /\ \A s \in Setters : WF_vars(Handler(s))
  /\ WF_vars(RunThread)
  /\ WF_vars(DriverExec)

Spec == Init /\ [][Next]_vars /\ Fairness

-----------------------------------------------------------------------------
(* Properties. *)

\* Every variable has its type (dataset of the unit, member of the driver).
TypeOK ==
  /\ unit \in {"deinit", "init", "start"}
  /\ seed \in Values \cup {BadSeed}
  /\ in1 \in Values /\ out1 \in Values /\ channel \in Values
  /\ changed \in BOOLEAN
  /\ queue \in Seq(Threads)
  /\ at \in [Threads -> {"idle", "called", "send", "wait", "answered"}]
  /\ applied \in BOOLEAN /\ overlapped \in BOOLEAN /\ missed \in BOOLEAN

Quiescent == \A s \in Setters : at[s] = "idle"

\* Once the requests to set in_1 have been served, the driver holds what the
\* attribute shows, whatever the run thread did in between, although the
\* handler sends a pointer into the live cache instead of a value, and also if
\* the unit was initialised again in the middle of a request, from the first
\* message on that is executed after it.  A set point is lost only to a request
\* that met another one, whose reset cleared the list of changes before this
\* one had looked at it; meeting alone does no harm, in whatever order the
\* messages are executed.
Lost == overlapped /\ missed

SetpointApplied == Quiescent /\ applied /\ ~Lost => channel = in1

\* A unit that is initialised again starts from its seed: until the driver has
\* executed the message of a request it holds that and nothing of the unit's
\* earlier life, although in_1 still shows the old set point and requests of
\* the earlier life may be at any position, also between answer and reset.
SeedUntilSet == unit # "deinit" /\ ~applied => channel = seed

\* No handler leaves a change behind for the next one to send again, also
\* when requests overlap.
ListCleared == Quiescent => ~changed

\* The set point comes back: in a started unit that nobody disturbs, out_1
\* ends up showing in_1.
ReadBack ==
  (unit = "start" /\ Quiescent /\ applied /\ ~Lost)
    ~> (out1 = in1 \/ ~Quiescent \/ unit # "start")
=============================================================================
