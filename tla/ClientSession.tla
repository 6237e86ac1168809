---------------------------- MODULE ClientSession ----------------------------
(***************************************************************************)
(* The test clients of the slow and the real-time unit                     *)
(* (sccu.tmpl/test, rtcu.tmpl/test) and the life cycle of the unit they    *)
(* drive.  Every client initialises the unit, starts it, uses it, stops it *)
(* and de-initialises it; the slow one submits commands from a prompt.     *)
(* Several clients may drive the same unit.                                *)
(*                                                                         *)
(* A call is a request over the network with a timeout: it is executed and *)
(* answered, or the client gives up, and then the request is lost or it    *)
(* reaches the unit later.                                                 *)
(***************************************************************************)
EXTENDS Integers

CONSTANTS
  SlowClients,      \* clients with a prompt
  RealTimeClients,  \* clients that set in_1 once
  AutoCalls         \* what the configuration of the unit has the metadata server
                    \* do by itself: auto_init, auto_start

ASSUME ClientsAssumption == SlowClients \cap RealTimeClients = {}
ASSUME AutoAssumption == AutoCalls \subseteq {"init", "start"}

Clients == SlowClients \cup RealTimeClients

VARIABLES
  unit,     \* life cycle of the unit: "deinit", "init", "start"
  pc,       \* pc[c]: the call client c is at, or how it ended
  phase,    \* phase[c]: that call is "ready", "sent", or answered: "ok", "error"
  late,     \* life-cycle requests on their way whose client has given up
  spoiled   \* history: a call that was given up left something undone or on
            \* its way, a started unit refused a submission, or the metadata
            \* server took the unit up when no client was to start it any more

vars == <<unit, pc, phase, late, spoiled>>

LifeCycle == {"init", "start", "stop", "deinit"}
Checks == {"check1", "check2", "check3", "check4"}     \* calls of getState
Calls == LifeCycle \cup Checks \cup {"schedule", "setInput", "submit", "query"}

\* "done" and "fault", an exception, return 0; "gaveUp" returns -1.
Ends == {"done", "fault", "gaveUp"}

\* A client that has no argument, finds no controller or whose toolkit does not
\* start ends before its first call and is none of those here.
Init ==
  /\ unit \in {"deinit", "init", "start"}
  /\ pc = [c \in Clients |-> "init"]
  /\ phase = [c \in Clients |-> "ready"]
  /\ late = {}
  /\ spoiled = FALSE

-----------------------------------------------------------------------------
(* The unit, as the framework lets the clients drive it. *)

Accepts(op) ==
  /\ op = "init" => unit = "deinit"
  /\ op \in {"start", "deinit"} => unit = "init"
  /\ op \in {"stop", "submit"} => unit = "start"

Target(op) == IF op \in {"init", "stop"} THEN "init"
              ELSE IF op = "start" THEN "start"
              ELSE IF op = "deinit" THEN "deinit" ELSE unit

\* unitInit may throw, an alias typed at the prompt may be unknown, and what is
\* asked of a unit that is not loaded is an error; the handlers of start, stop and
\* deinit refuse nothing.
Refuses(op) == ~Accepts(op) \/ op \notin {"start", "stop", "deinit"}

Serve(op, answer) ==
  \/ Accepts(op) /\ unit' = Target(op) /\ answer = "ok"
  \/ Refuses(op) /\ UNCHANGED unit /\ answer = "error"

\* The server of the unit ends or dies, is launched again, and the metadata
\* server loads the unit into it: see UnitServer.  What was sent to the old
\* server and not answered is a call given up, see Timeout.
Relaunch ==
  /\ unit' = "deinit"
  /\ UNCHANGED <<pc, phase, late, spoiled>>

\* A unit whose configuration says auto_init or auto_start is initialised or
\* started by the metadata server, at a moment the clients do not know.  This
\* does no harm while one of them is still to start the unit.
Unasked == \A c \in Clients : pc[c] \notin {"init", "check1"}

Automatic ==
  /\ \E op \in AutoCalls : Accepts(op) /\ unit' = Target(op)
  /\ spoiled' = (spoiled \/ Unasked)
  /\ UNCHANGED <<pc, phase, late>>

-----------------------------------------------------------------------------
(* A client. *)

PromptForAll(c) == "prompt"              \* mutant: no client sets in_1
AfterSetup(c) == IF c \in SlowClients THEN "prompt" ELSE "setInput"

NoDeinit == "done"                       \* mutant: deinitDevice is forgotten
AfterStop == "deinit"

\* The order of the calls in main, and of those in sendCmd.
Order(c) == {<<"init", "check1">>, <<"check1", "start">>, <<"start", "check2">>,
             <<"check2", "schedule">>, <<"schedule", AfterSetup(c)>>,
             <<"submit", "query">>, <<"query", "prompt">>,
             <<"setInput", "stop">>, <<"stop", "check3">>, <<"check3", AfterStop>>,
             <<"deinit", "check4">>, <<"check4", "done">>}

Goto(c, there) ==
  /\ pc' = [pc EXCEPT ![c] = there]
  /\ phase' = [phase EXCEPT ![c] = "ready"]

Advance(c) == \E step \in Order(c) : step[1] = pc[c] /\ Goto(c, step[2])

Call(c) ==
  /\ pc[c] \in Calls
  /\ phase[c] = "ready"
  /\ phase' = [phase EXCEPT ![c] = "sent"]
  /\ UNCHANGED <<unit, pc, late, spoiled>>

Execute(c) ==
  /\ phase[c] = "sent"
  /\ \E answer \in {"ok", "error"} :
       /\ Serve(pc[c], answer)
       /\ phase' = [phase EXCEPT ![c] = answer]
       /\ spoiled' = (spoiled \/ (pc[c] = "submit" /\ answer = "error" /\ unit = "start"))
  /\ UNCHANGED <<pc, late>>

\* sendCmd throws when the submission is refused; every other error that is
\* not a timeout is overlooked.
Return(c) ==
  /\ phase[c] \in {"ok", "error"}
  /\ IF pc[c] = "submit" /\ phase[c] = "error" THEN Goto(c, "fault") ELSE Advance(c)
  /\ UNCHANGED <<unit, late, spoiled>>

\* What is left undone when c gives up its call: a request that the unit, as it
\* is now, would have served; or, where the client then ends, the calls that
\* stop and de-initialise the unit.
Abandons(c) ==
  \/ pc[c] \in {"start", "stop", "deinit"} /\ phase[c] = "sent" /\ Accepts(pc[c])
  \/ pc[c] = "submit" /\ phase[c] # "error" /\ unit = "start"
  \/ pc[c] \in {"init", "check1", "check2", "check3"} /\ unit # "deinit"

\* A timeout is looked at after initDevice and getState only; in sendCmd it
\* is an error like another.
Timeout(c) ==
  /\ phase[c] # "ready"
  /\ \/ /\ UNCHANGED late
        /\ spoiled' = (spoiled \/ Abandons(c))
     \/ /\ phase[c] = "sent" /\ pc[c] \in LifeCycle
        /\ late' = late \cup {<<c, pc[c]>>}
        /\ spoiled' = TRUE
  /\ IF pc[c] \in Checks \cup {"init"} THEN Goto(c, "gaveUp")
     ELSE IF pc[c] = "submit" THEN Goto(c, "fault") ELSE Advance(c)
  /\ UNCHANGED unit

LateCall ==
  /\ \E m \in late : /\ \E answer \in {"ok", "error"} : Serve(m[2], answer)
                     /\ late' = late \ {m}
  /\ UNCHANGED <<pc, phase, spoiled>>

\* The prompt: an alias and its parameters, or "quit".
Prompt(c) ==
  /\ pc[c] = "prompt"
  /\ \E there \in {"submit", "stop"} : Goto(c, there)
  /\ UNCHANGED <<unit, late, spoiled>>

-----------------------------------------------------------------------------
Client(c) == Call(c) \/ Return(c) \/ Timeout(c) \/ Prompt(c)

Next ==
  \/ \E c \in Clients : Client(c) \/ Execute(c)
  \/ LateCall \/ Relaunch \/ Automatic

Spec == Init /\ [][Next]_vars

-----------------------------------------------------------------------------
(* Properties. *)

\* Every variable has its type; only a slow client has a prompt, and only a
\* client at a call has one on its way.
TypeOK ==
  /\ unit \in {"deinit", "init", "start"}
  /\ pc \in [Clients -> Calls \cup {"prompt"} \cup Ends]
  /\ \A c \in RealTimeClients : pc[c] \notin {"prompt", "submit", "query"}
  /\ phase \in [Clients -> {"ready", "sent", "ok", "error"}]
  /\ \A c \in Clients : phase[c] # "ready" => pc[c] \in Calls
  /\ late \subseteq Clients \X LifeCycle
  /\ spoiled \in BOOLEAN

\* The clients release the unit: when each has ended, from the prompt, from the
\* end of its script, through an exception or by giving up, the unit is
\* de-initialised, in whatever state they found it, however their calls mixed,
\* and also if its server was replaced under them or the metadata server took the
\* unit up before them.  An exception skips the calls
\* that stop the unit, a client may stop the unit that another has just started,
\* and answers are lost.  The exceptions are a request that was given up and is
\* executed later or would have been served, a client that ends by giving up
\* while the unit is not de-initialised, a submission that a started unit
\* refuses, and a metadata server that takes the unit up when every client is past
\* its start.
UnitReleased ==
  (Clients # {} /\ ~spoiled /\ \A c \in Clients : pc[c] \in Ends) => unit = "deinit"

\* Why: a started unit has a client that will still stop it, and one that is
\* initialised has a client that will still start it or de-initialise it.
Executed(c) == phase[c] \in {"ok", "error"}
WillStop(c) == \/ pc[c] \in {"init", "check1", "start", "check2", "schedule",
                             "setInput", "prompt", "query"}
               \/ pc[c] = "submit" /\ phase[c] # "error"
               \/ pc[c] = "stop" /\ ~Executed(c)
WillLeaveInit(c) ==
  \/ pc[c] \in {"init", "check1", "check3"}
  \/ pc[c] = "start" /\ ~Executed(c)
  \/ pc[c] = "stop" /\ Executed(c)
  \/ pc[c] = "deinit" /\ ~Executed(c)

SessionInv ==
  (Clients # {} /\ ~spoiled) =>
    /\ late = {}
    /\ unit = "start" => \E c \in Clients : WillStop(c)
    /\ unit = "init" => \E c \in Clients : WillLeaveInit(c)

\* The clients end with "//! deinit the device": one that reaches its end,
\* alone on the unit and with no request left behind, has done so.
EndsDeinitialised ==
  (late = {} /\ \A c \in Clients : pc[c] = "done") => unit = "deinit"
=============================================================================
