---------------------------- MODULE HostedSession ----------------------------
(***************************************************************************)
(* The clients of a unit and the process that hosts it, put together.      *)
(* ClientSession takes the unit for a variable that starts de-initialised  *)
(* again whenever its server is replaced; here the unit is one of those    *)
(* that UnitServer runs, which must be loaded before it can be driven, may *)
(* be refused its driver, and goes down with a process that is closed,     *)
(* killed, or ended by the null pointer of any unit in it.                 *)
(*                                                                         *)
(* The clients are those of ClientSession; a request of theirs is a step   *)
(* of the process, and every other step of the process is one the clients  *)
(* do not see.                                                             *)
(***************************************************************************)
EXTENDS UnitServer

CONSTANTS
  SlowClients,      \* clients with a prompt
  RealTimeClients,  \* clients that set in_1 once
  Driven,           \* the unit they drive
  AutoCalls         \* its auto_init, auto_start, as in ClientSession

ASSUME DrivenAssumption == Driven \in Unit
ASSUME AutoOfDriven == AutoCalls \subseteq {"init", "start"}
ASSUME ClientsApart == SlowClients \cap RealTimeClients = {}

VARIABLES
  at,       \* at[c]: the call client c is at, or how it ended
  phase, late, spoiled     \* as in ClientSession

clients == <<at, phase, late, spoiled>>
hostedVars == <<vars, clients>>

\* What the clients make of the unit: one that is not loaded, or whose process
\* takes no requests, is not initialised.
Life == IF state = "serving" /\ life[Driven] # "none" THEN life[Driven] ELSE "deinit"

Session == INSTANCE ClientSession WITH unit <- Life, pc <- at

HostedInit == Init /\ Session!Init

\* Which handlers of the life cycle may throw in a unit that accepts the call:
\* the empty ones of start, stop and deinit cannot.
StopFails == {"init", "stop"}            \* mutant: unitStop refuses
Fails == {"init"}

\* The process answers a request for the unit: a step of its life cycle, or an
\* answer from its cache.  A unit that is not loaded answers nothing with ok.
Handle(op, answer) ==
  \/ /\ answer = "ok"
     /\ \/ op = "init" /\ UnitInit(Driven)
        \/ op = "start" /\ UnitStart(Driven)
        \/ op = "stop" /\ UnitStop(Driven)
        \/ op = "deinit" /\ UnitDeinit(Driven)
        \/ /\ op \notin Session!LifeCycle
           /\ life[Driven] # "none" /\ Session!Accepts(op)
           /\ UNCHANGED vars
  \/ /\ answer = "error"
     /\ ~Session!Accepts(op) \/ op \in Fails \/ op \notin Session!LifeCycle
     /\ UNCHANGED vars

Answer(c) ==
  /\ state = "serving"
  /\ phase[c] = "sent"
  /\ \E answer \in {"ok", "error"} :
       /\ Handle(at[c], answer)
       /\ phase' = [phase EXCEPT ![c] = answer]
       /\ spoiled' = (spoiled \/ (at[c] = "submit" /\ answer = "error" /\ Life = "start"))
  /\ UNCHANGED <<at, late>>

\* A request whose client has given up reaches the process.
Delayed ==
  /\ state = "serving"
  /\ \E m \in late : /\ \E answer \in {"ok", "error"} : Handle(m[2], answer)
                     /\ late' = late \ {m}
  /\ UNCHANGED <<at, phase, spoiled>>

\* What the process does on its own or for others than the clients.
Server ==
  /\ \/ Launch \/ Step \/ Close \/ Kill
     \/ \E l \in Links : Load(Driven, l)
     \/ Unload(Driven)
     \/ \E u \in Unit \ {Driven} : Request(u)
     \/ \E u \in Unit : NullCall(u)
  /\ UNCHANGED clients

\* What the metadata server does to the unit it has loaded, as its configuration
\* says.
Automatic ==
  /\ \/ "init" \in AutoCalls /\ UnitInit(Driven)
     \/ "start" \in AutoCalls /\ UnitStart(Driven)
  /\ spoiled' = (spoiled \/ Session!Unasked)
  /\ UNCHANGED <<at, phase, late>>

Clients == UNCHANGED vars /\ \E c \in Session!Clients : Session!Client(c)

HostedNext ==
  \/ Server
  \/ Automatic
  \/ Clients
  \/ \E c \in Session!Clients : Answer(c)
  \/ Delayed

HostedSpec == HostedInit /\ [][HostedNext]_hostedVars

-----------------------------------------------------------------------------
(* Properties. *)

\* What the clients see of a unit in a process is the unit of ClientSession: it
\* moves when it answers them or when the metadata server takes it up as its
\* configuration says, and whatever happens to the process otherwise,
\* registration, loading, the other units, its end, a relaunch, either leaves it
\* where it is or puts it back to where it starts.
HonoursSession == Session!Spec

\* The clients leave no initialised unit behind in the process, with the
\* exceptions of ClientSession: the unit they drove is gone or de-initialised,
\* also if its process was ended under them and it was loaded again.
UnitLeft ==
  (Session!Clients # {} /\ ~spoiled /\ \A c \in Session!Clients : at[c] \in Session!Ends)
    => life[Driven] \in {"none", "deinit"}
=============================================================================
