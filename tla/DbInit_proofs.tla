---------------------------- MODULE DbInit_proofs ----------------------------
(***************************************************************************)
(* Any number of runs of dbinit.sh that meet leave the database complete.  *)
(*                                                                         *)
(* The argument: a run past rm that has lost its directory lost it to a    *)
(* run that is behind it in the script, and that one makes what it did not.*)
(***************************************************************************)
EXTENDS DbInit, TLAPS

\* The commands from mkdir on at which a run will still make x.
Before ==
  [users       |-> {"mkdir", "cd", "clone", "drop", "users"},
   collections |-> {"mkdir", "cd", "clone", "drop", "users", "collections"},
   index       |-> {"mkdir", "cd", "clone", "drop", "users", "collections", "index"}]

PastRemove == Before["index"] \cup {"done"}

\* Run r finds the scripts, or will clone them.
Live(r) ==
  \/ pc[r] \in {"mkdir", "cd"}
  \/ pc[r] = "clone" /\ cwd[r] \in {Home, tmp}
  \/ pc[r] \in Things \cup {"drop"} /\ cwd[r] \in cloned

WillMake(r, x) == pc[r] \in Before[x] /\ Live(r)

HomeInv == \A r \in Run : pc[r] \in {"ready", "couchbase", "setup", "mongo", "rm", "mkdir", "cd"}
                            => cwd[r] = Home

MakerInv ==
  ~spoiled /\ (\E r \in Run : pc[r] \in PastRemove)
    => \A x \in Things \ mongo : \E r \in Run : WillMake(r, x)

IInv == TypeOK /\ HomeInv /\ MakerInv

\* What the commands are, and what follows each.
LEMMA Script ==
  /\ Commands = {"couchbase", "setup", "mongo", "rm"} \cup Before["index"]
  /\ \A c \in Commands : Follows[c] \in Commands \cup {"done"}
  /\ Follows["couchbase"] = "setup" /\ Follows["setup"] = "mongo"
  /\ Follows["mongo"] = "rm" /\ Follows["rm"] = "mkdir"
  /\ Follows["mkdir"] = "cd" /\ Follows["cd"] = "clone" /\ Follows["clone"] = "drop"
  /\ Follows["drop"] = "users" /\ Follows["users"] = "collections"
  /\ Follows["collections"] = "index" /\ Follows["index"] = "done"
  BY DEF Commands, Follows, Before

\* Before any run is launched the invariant holds.
LEMMA InitInv == Init => IInv
<1> SUFFICES ASSUME Init PROVE IInv
  OBVIOUS
<1> USE DEF Init
<1>1. TypeOK
  BY DEF TypeOK, Over, Things, Limit, Waits, Servers
<1>2. HomeInv /\ MakerInv
  BY DEF HomeInv, MakerInv, PastRemove, Before
<1>3. QED
  BY <1>1, <1>2 DEF IInv

\* A step of one run after which it has made no tries keeps the tries bounded.
LEMMA WaitTypes ==
  ASSUME TypeOK, NEW r \in Run,
         tries' \in [Run -> Nat],
         \A q \in Run \ {r} : pc'[q] = pc[q] /\ tries'[q] = tries[q],
         tries'[r] = 0
  PROVE  \A q \in Run : tries'[q] = 0 \/ tries'[q] <= Limit(q)'
  BY DEF TypeOK, Limit, Waits

\* At a command that is no wait there are no tries.
LEMMA NoTries ==
  ASSUME TypeOK, NEW r \in Run, pc[r] \notin Servers
  PROVE  tries[r] = 0
  BY DEF TypeOK, Limit, Waits

\* Every step keeps the types.
LEMMA TypeStep == TypeOK /\ [Next]_vars => TypeOK'
<1> SUFFICES ASSUME TypeOK, [Next]_vars PROVE TypeOK'
  OBVIOUS
<1> DEFINE Others == /\ pc' \in [Run -> Commands \cup Over]
                     /\ tries' \in [Run -> Nat]
                     /\ open' \in [Servers -> BOOLEAN]
                     /\ verdict' \in [Run -> {"waiting", "connected", "timedOut"}]
                     /\ mongo' \subseteq Things
                     /\ tmp' \in Run \cup {None}
                     /\ cwd' \in [Run -> Run \cup {Home}]
                     /\ cloned' \subseteq Run \cup {Home}
                     /\ spoiled' \in BOOLEAN
<1> USE DEF TypeOK, Servers, Things, waits, files, Goto, Advance
<1>1. CASE UNCHANGED vars
  BY <1>1 DEF vars, Limit, Waits
<1>2. ASSUME NEW r \in Run, Round(r) PROVE TypeOK'
  BY <1>2, AttemptsAssumption
     DEF Round, Wait!Try, Wait!GiveUp, Wait!Rounds, Wait!Counted, Limit, Waits
<1>3. ASSUME NEW r \in Run, AfterWait(r) PROVE TypeOK'
  <2>1. Others
    BY <1>3, Script DEF AfterWait, Waits, Over, ResetWait
  <2>2. QED
    BY <1>3, <2>1, WaitTypes DEF AfterWait, ResetWait
<1>4. ASSUME NEW r \in Run, Launch(r) \/ Setup(r) PROVE TypeOK'
  <2>1. Others
    BY <1>4, Script DEF Launch, Setup, Over
  <2>2. tries'[r] = 0
    BY <1>4, NoTries DEF Launch, Setup
  <2>3. QED
    BY <1>4, <2>1, <2>2, WaitTypes DEF Launch, Setup
<1>5. ASSUME NEW r \in Run, Remove(r) \/ MakeDir(r) \/ Enter(r) PROVE TypeOK'
  <2>1. Others
    <3>1. pc' \in [Run -> Commands \cup Over]
      BY <1>5, Script DEF Remove, MakeDir, Enter, Over
    <3>2. CASE Remove(r) \/ MakeDir(r)
      BY <3>1, <3>2 DEF Remove, MakeDir
    <3>3. CASE Enter(r)
      BY <3>1, <3>3 DEF Enter
    <3>4. QED
      BY <1>5, <3>2, <3>3
  <2>2. tries'[r] = 0
    BY <1>5, NoTries DEF Remove, MakeDir, Enter
  <2>3. QED
    BY <1>5, <2>1, <2>2, WaitTypes DEF Remove, MakeDir, Enter
<1>6. ASSUME NEW r \in Run, Clone(r) \/ Mongo(r) PROVE TypeOK'
  <2>1. Others
    <3>1. pc' \in [Run -> Commands \cup Over]
      BY <1>6, Script DEF Clone, Mongo, Before, Over
    <3>2. CASE Clone(r)
      <4>1. cloned' \subseteq Run \cup {Home}
        BY <3>2 DEF Clone
      <4>2. spoiled' \in BOOLEAN
        BY <3>2 DEF Clone
      <4>3. QED
        BY <3>1, <3>2, <4>1, <4>2 DEF Clone
    <3>3. CASE Mongo(r)
      <4>1. mongo' \subseteq Things
        BY <3>3 DEF Mongo, Effect
      <4>2. spoiled' \in BOOLEAN
        BY <3>3 DEF Mongo
      <4>3. QED
        BY <3>1, <3>3, <4>1, <4>2 DEF Mongo
    <3>4. QED
      BY <1>6, <3>2, <3>3
  <2>2. tries'[r] = 0
    BY <1>6, NoTries DEF Clone, Mongo
  <2>3. QED
    BY <1>6, <2>1, <2>2, WaitTypes DEF Clone, Mongo
<1>7. ASSUME NEW r \in Run, Interrupt(r) PROVE TypeOK'
  <2>1. Others
    BY <1>7 DEF Interrupt, ResetWait, Over
  <2>2. QED
    BY <1>7, <2>1, WaitTypes DEF Interrupt, ResetWait
<1>8. ASSUME NEW s \in Servers, Toggle(s) PROVE TypeOK'
  BY <1>8 DEF Toggle, Limit, Waits
<1>9. QED
  BY <1>1, <1>2, <1>3, <1>4, <1>5, <1>6, <1>7, <1>8 DEF Next, Step

\* A run is where it was started until it has left cd.
LEMMA HomeStep == TypeOK /\ HomeInv /\ [Next]_vars => HomeInv'
<1> SUFFICES ASSUME TypeOK, HomeInv, [Next]_vars PROVE HomeInv'
  OBVIOUS
<1> USE DEF HomeInv, TypeOK, Servers, Things, files, Goto, Advance
<1>1. CASE UNCHANGED vars
  BY <1>1 DEF vars
<1>2. ASSUME NEW r \in Run,
             Launch(r) \/ Round(r) \/ AfterWait(r) \/ Setup(r) \/ Remove(r) \/ MakeDir(r)
      PROVE  HomeInv'
  BY <1>2, Script DEF Launch, Round, AfterWait, Waits, Setup, Remove, MakeDir
<1>3. ASSUME NEW r \in Run, Enter(r) \/ Clone(r) PROVE HomeInv'
  BY <1>3, Script DEF Enter, Clone
<1>4. ASSUME NEW r \in Run, Mongo(r) \/ Interrupt(r) PROVE HomeInv'
  <2>1. UNCHANGED cwd
    BY <1>4 DEF Mongo, Interrupt
  <2>2. CASE Mongo(r)
    BY <2>1, <2>2, Script DEF Mongo
  <2>3. CASE Interrupt(r)
    BY <2>1, <2>3 DEF Interrupt
  <2>4. QED
    BY <1>4, <2>2, <2>3
<1>5. ASSUME NEW s \in Servers, Toggle(s) PROVE HomeInv'
  BY <1>5 DEF Toggle
<1>6. QED
  BY <1>1, <1>2, <1>3, <1>4, <1>5 DEF Next, Step

\* What is missing still has a run that makes it.
LEMMA MakerStep == IInv /\ [Next]_vars => MakerInv'
<1> SUFFICES ASSUME IInv, [Next]_vars,
                    ~spoiled', \E r \in Run : pc'[r] \in PastRemove,
                    NEW x \in Things, x \notin mongo'
             PROVE  \E r \in Run : WillMake(r, x)'
  BY DEF MakerInv
<1> USE DEF IInv, TypeOK, PastRemove, Before, Things, WillMake, Live, Follows, Goto, Advance, files
\* A step that moves none past rm, adds nothing, takes nothing: the maker stays.
<1>1. ASSUME ~spoiled, x \notin mongo, \E r \in Run : pc[r] \in PastRemove
      PROVE  \E r \in Run : WillMake(r, x)
  BY <1>1 DEF MakerInv
<1>2. CASE UNCHANGED vars
  BY <1>1, <1>2 DEF vars
<1>3. ASSUME NEW r \in Run, Launch(r) \/ Round(r) \/ AfterWait(r) \/ Setup(r)
      PROVE  \E q \in Run : WillMake(q, x)'
  <2>1. \A q \in Run : pc'[q] \in PastRemove => q # r /\ pc'[q] = pc[q]
    BY <1>3 DEF Launch, Round, AfterWait, Waits, Setup, Servers
  <2>2. UNCHANGED <<mongo, tmp, cwd, cloned, spoiled>>
    BY <1>3 DEF Launch, Round, AfterWait, Setup
  <2>3. PICK q \in Run : WillMake(q, x)
    BY <1>1, <2>1, <2>2
  <2>4. pc'[q] = pc[q]
    BY <1>3, <2>3 DEF Launch, Round, AfterWait, Waits, Setup, Servers
  <2>5. QED
    BY <2>2, <2>3, <2>4
\* Who removes the directory makes everything, whatever failed before.
<1>4. ASSUME NEW r \in Run, Remove(r) PROVE \E q \in Run : WillMake(q, x)'
  BY <1>4 DEF Remove
<1>5. ASSUME NEW r \in Run, MakeDir(r) PROVE \E q \in Run : WillMake(q, x)'
  BY <1>5 DEF MakeDir
<1>6. ASSUME NEW r \in Run, Enter(r) PROVE \E q \in Run : WillMake(q, x)'
  BY <1>6 DEF Enter, HomeInv
<1>7. ASSUME NEW r \in Run, Clone(r) PROVE \E q \in Run : WillMake(q, x)'
  <2>1. PICK q \in Run : WillMake(q, x)
    BY <1>1, <1>7 DEF Clone
  <2>2. CASE q = r
    BY <1>7, <2>1, <2>2 DEF Clone, Clones
  <2>3. CASE q # r
    BY <1>7, <2>1, <2>3 DEF Clone
  <2>4. QED
    BY <2>2, <2>3
<1>8. ASSUME NEW r \in Run, Mongo(r) PROVE \E q \in Run : WillMake(q, x)'
  <2> USE DEF Mongo, Effect
  <2>1. CASE pc[r] = "drop" /\ cwd[r] \in cloned /\ x \in mongo
    BY <1>8, <2>1
  <2>2. CASE x \notin mongo
    <3>1. PICK q \in Run : WillMake(q, x)
      BY <1>1, <1>8, <2>2
    <3>2. CASE q = r
      BY <1>8, <2>2, <3>1, <3>2
    <3>3. CASE q # r
      BY <1>8, <3>1, <3>3
    <3>4. QED
      BY <3>2, <3>3
  <2>3. QED
    BY <1>8, <2>1, <2>2
<1>9. ASSUME NEW r \in Run, Interrupt(r) PROVE \E q \in Run : WillMake(q, x)'
  BY <1>1, <1>9 DEF Interrupt, AtWork, Commands, Servers
<1>10. ASSUME NEW s \in Servers, Toggle(s) PROVE \E q \in Run : WillMake(q, x)'
  BY <1>1, <1>10 DEF Toggle
<1>11. QED
  BY <1>2, <1>3, <1>4, <1>5, <1>6, <1>7, <1>8, <1>9, <1>10 DEF Next, Step

\* The inductive invariant of any number of runs of dbinit.sh.
THEOREM Invariance == Spec => []IInv
<1>1. IInv /\ [Next]_vars => IInv'
  BY TypeStep, HomeStep, MakerStep DEF IInv
<1>2. QED
  BY InitInv, <1>1, PTL DEF Spec

\* Every variable keeps its type, whatever the servers and the other runs do,
\* and no wait makes more tries than dbinit.sh gives it.
THEOREM TypeCorrect == Spec => []TypeOK
<1>1. IInv => TypeOK
  BY DEF IInv
<1>2. QED
  BY Invariance, <1>1, PTL

\* Overlapping runs of dbinit.sh leave the database complete when the last of
\* them ends, if no clone, mongo or signal failed one after the last rm; what
\* failed before is repaired.
THEOREM Complete == Spec => []DatabaseComplete
<1>1. IInv => DatabaseComplete
  BY DEF IInv, TypeOK, MakerInv, DatabaseComplete, PastRemove, Before, Things, WillMake, Live,
         AtWork, Commands, Follows, Over
<1>2. QED
  BY Invariance, <1>1, PTL
=============================================================================
