-------------------------- MODULE BridgePoolProofs --------------------------
(***************************************************************************)
(* Proofs about the calls through the bridge, for any number of sessions,   *)
(* callers, processes and calls.                                            *)
(***************************************************************************)
EXTENDS BridgePool, TLAPS

USE DEF Life, Request, CallerPc

-----------------------------------------------------------------------------
(* The callers                                                              *)

\* The task of one caller is replaced by a legal one; the lock follows it.
LEMMA TaskStep ==
  ASSUME TypeOK, NEW c \in Callers, NEW t \in Task, HasLocals(t),
         task' = [task EXCEPT ![c] = t],
         \/ lock' = lock /\ (lock = c <=> t.at \in {"send", "wait", "signal"})
         \/ lock' = c /\ lock = None /\ t.at \in {"send", "wait", "signal"}
         \/ lock' = None /\ lock = c /\ t.at \notin {"send", "wait", "signal"}
  PROVE  /\ task' \in [Callers -> Task] /\ \A d \in Callers : HasLocals(task'[d])
         /\ \A d \in Callers : lock' = d <=> task'[d].at \in {"send", "wait", "signal"}
         /\ lock' \in Callers \cup {None}
<1>1. task \in [Callers -> Task] /\ task'[c] = t
  BY DEF TypeOK
<1>2. \A d \in Callers : d # c => task'[d] = task[d]
  BY <1>1
<1>3. task' \in [Callers -> Task] /\ \A d \in Callers : HasLocals(task'[d])
  BY <1>1, <1>2 DEF TypeOK
<1>4. \A d \in Callers : lock' = d <=> task'[d].at \in {"send", "wait", "signal"}
  BY <1>1, <1>2, PoolAssumption DEF TypeOK
<1> QED BY <1>3, <1>4 DEF TypeOK

LEMMA IdleTask == Idle \in Task /\ HasLocals(Idle) /\ Idle.at = "idle"
  BY DEF Idle, Task, HasLocals

\* Going somewhere else without new locals.
LEMMA GotoTask ==
  ASSUME TypeOK, NEW c \in Callers, NEW l \in CallerPc, Goto(c, l),
         l \notin {"send", "wait", "signal", "insert"},
         l \in {"lock", "again"} => task[c].then = "again",
         l = "remove" => task[c].then = "again",
         l # "idle" => task[c].at # "idle"
  PROVE  \E t \in Task : /\ HasLocals(t) /\ t.at = l
                         /\ task' = [task EXCEPT ![c] = t]
<1>1. CASE l = "idle"
  BY <1>1, IdleTask DEF Goto
<1>2. CASE l # "idle"
  <2> DEFINE t == [task[c] EXCEPT !.at = l]
  <2>1. task[c] \in Task /\ HasLocals(task[c])
    BY DEF TypeOK
  <2>2. t \in Task /\ t.at = l /\ t.sess = task[c].sess /\ t.then = task[c].then
          /\ t.call = task[c].call
    BY <2>1 DEF Task
  <2>3. HasLocals(t)
    BY <1>2, <2>1, <2>2 DEF HasLocals
  <2>4. task' = [task EXCEPT ![c] = t]
    BY <1>2 DEF Goto
  <2> QED BY <2>2, <2>3, <2>4
<1> QED BY <1>1, <1>2

\* What the invariant says of the callers and the lock, and of the rest.
TasksOK ==
  /\ task \in [Callers -> Task] /\ \A c \in Callers : HasLocals(task[c])
  /\ \A c \in Callers : lock = c <=> task[c].at \in {"send", "wait", "signal"}
  /\ lock \in Callers \cup {None}

PoolOK ==
  /\ pool \in [Sessions -> Pids \cup {None}] /\ permits \in Nat
  /\ calls \in 0 .. MaxCalls /\ got \in [Calls -> Calls \cup {None}]
  /\ alarms \in SUBSET Pids

ProcsOK ==
  /\ life \in [Pids -> Life]
  /\ stdin \in [Pids -> BOOLEAN] /\ expected \in [Pids -> BOOLEAN]
  /\ reading \in [Pids -> BOOLEAN]
  /\ nextId \in [Pids -> Nat]
  /\ channels \in [Pids -> SUBSET Request]
  /\ inbox \in [Pids -> SUBSET Request] /\ out \in [Pids -> SUBSET Request]

LEMMA Parts == TypeOK <=> TasksOK /\ PoolOK /\ ProcsOK
  BY DEF TypeOK, TasksOK, PoolOK, ProcsOK

LEMMA Together ==
  ASSUME TasksOK', PoolOK', ProcsOK'
  PROVE  TypeOK'
  BY DEF TypeOK, TasksOK, PoolOK, ProcsOK

LEMMA SameTasks ==
  ASSUME TypeOK, UNCHANGED <<task, lock>>
  PROVE  TasksOK'
  BY Parts DEF TasksOK

\* A caller that holds no lock goes to a place where it holds none.
LEMMA GoOn ==
  ASSUME TypeOK, NEW c \in Callers, NEW l \in CallerPc, Goto(c, l), UNCHANGED lock,
         task[c].at \notin {"send", "wait", "signal"},
         l \notin {"send", "wait", "signal", "insert"},
         l \in {"lock", "again"} => task[c].then = "again",
         l = "remove" => task[c].then = "again",
         l # "idle" => task[c].at # "idle"
  PROVE  TasksOK'
<1>1. PICK t \in Task : HasLocals(t) /\ t.at = l /\ task' = [task EXCEPT ![c] = t]
  BY GotoTask
<1>2. lock # c
  BY DEF TypeOK
<1> QED BY <1>1, <1>2, TaskStep DEF TasksOK

\* A caller that holds the lock gives it back.
LEMMA GiveBack ==
  ASSUME TypeOK, NEW c \in Callers, NEW l \in {"idle", "check"}, Goto(c, l), lock' = None,
         task[c].at \in {"send", "wait", "signal"}
  PROVE  TasksOK'
<1>1. PICK t \in Task : HasLocals(t) /\ t.at = l /\ task' = [task EXCEPT ![c] = t]
  BY GotoTask
<1>2. lock = c
  BY DEF TypeOK
<1> QED BY <1>1, <1>2, TaskStep DEF TasksOK

-----------------------------------------------------------------------------
(* One lemma per kind of step                                               *)

LEMMA CallTypes ==
  ASSUME TypeOK, NEW c \in Callers, CallStep(c)
  PROVE  TypeOK'
<1>1. PICK s \in Sessions : CallSpawn(c, s) \/ CallKill(c, s) \/ CallRequest(c, s)
  BY DEF CallStep
<1>2. PICK l \in {"check", "kill", "lock"}, k \in Calls \cup {None} :
        /\ Begin(c, s, l, k) /\ calls' \in 0 .. MaxCalls
        /\ l = "lock" => k \in Calls
  <2>1. CASE CallSpawn(c, s)
    BY <2>1 DEF CallSpawn, TypeOK
  <2>2. CASE CallKill(c, s)
    BY <2>2 DEF CallKill, TypeOK
  <2>3. CASE CallRequest(c, s)
    BY <2>3, PoolAssumption DEF CallRequest, TypeOK, Calls
  <2> QED BY <1>1, <2>1, <2>2, <2>3
<1> DEFINE t == [task[c] EXCEPT !.at = l, !.sess = s, !.call = k]
<1>3. task[c] \in Task /\ HasLocals(task[c]) /\ task[c].at = "idle" /\ lock # c
  BY <1>2 DEF Begin, TypeOK
<1>4. t \in Task /\ t.at = l /\ t.sess = s /\ t.call = k /\ t.then = task[c].then
  BY <1>3 DEF Task
<1>5. HasLocals(t)
  BY <1>2, <1>3, <1>4 DEF HasLocals
<1>6. task' = [task EXCEPT ![c] = t] /\ UNCHANGED <<pool, lock, permits, procVars, got, alarms>>
  BY <1>2 DEF Begin
<1>7. TasksOK'
  BY <1>2, <1>3, <1>4, <1>5, <1>6, TaskStep DEF TasksOK
<1>8. PoolOK' /\ ProcsOK'
  BY <1>2, <1>6, Parts DEF PoolOK, ProcsOK, procVars, rpcVars
<1> QED BY <1>7, <1>8, Together

\* A step that only waits for the lock and goes on.
LEMMA WaitTypes ==
  ASSUME TypeOK, NEW c \in Callers,
         AlreadyExists(c) \/ SpawnFails(c) \/ NotFound(c) \/ NothingToKill(c)
  PROVE  TypeOK'
<1>1. task[c] \in Task /\ HasLocals(task[c])
  BY DEF TypeOK
<1>2. TasksOK'
  <2>1. CASE AlreadyExists(c)
    BY <2>1, <1>1, GoOn DEF AlreadyExists, Task
  <2>2. CASE SpawnFails(c) \/ NotFound(c)
    BY <2>2, <1>1, GoOn DEF SpawnFails, NotFound
  <2>3. CASE NothingToKill(c)
    BY <2>3, <1>1, GoOn DEF NothingToKill
  <2> QED BY <2>1, <2>2, <2>3
<1>3. PoolOK' /\ ProcsOK'
  BY Parts DEF PoolOK, ProcsOK, procVars, rpcVars, AlreadyExists, SpawnFails, NotFound,
     NothingToKill
<1> QED BY <1>2, <1>3, Together

LEMMA SpawnTypes ==
  ASSUME TypeOK, NEW c \in Callers, SpawnChild(c) \/ Insert(c)
  PROVE  TypeOK'
<1>1. task[c] \in Task /\ HasLocals(task[c])
  BY DEF TypeOK
<1>2. CASE SpawnChild(c)
  <2>1. PICK p \in Pids :
          /\ life' = [life EXCEPT ![p] = "running"]
          /\ stdin' = [stdin EXCEPT ![p] = TRUE]
          /\ reading' = [reading EXCEPT ![p] = TRUE]
          /\ task' = [task EXCEPT ![c].at = "insert", ![c].proc = p]
    BY <1>2 DEF SpawnChild
  <2> DEFINE t == [task[c] EXCEPT !.at = "insert", !.proc = p]
  <2>2. t \in Task /\ t.at = "insert" /\ t.proc = p /\ t.sess = task[c].sess
          /\ t.then = task[c].then /\ t.call = task[c].call
    BY <1>1 DEF Task
  <2>3. HasLocals(t)
    BY <1>1, <1>2, <2>2 DEF HasLocals, SpawnChild
  <2>4. task' = [task EXCEPT ![c] = t]
    BY <2>1
  <2>5. TasksOK'
    BY <1>2, <2>2, <2>3, <2>4, TaskStep DEF TasksOK, SpawnChild, Unlocked, TypeOK
  <2>6. PoolOK' /\ ProcsOK'
    BY <1>2, <2>1, Parts DEF PoolOK, ProcsOK, rpcVars, SpawnChild
  <2> QED BY <2>5, <2>6, Together
<1>3. CASE Insert(c)
  <2>1. TasksOK'
    BY <1>1, <1>3, GoOn DEF Insert, HasLocals, Task
  <2>2. PoolOK' /\ ProcsOK'
    BY <1>1, <1>3, Parts DEF PoolOK, ProcsOK, rpcVars, Insert, HasLocals
  <2> QED BY <2>1, <2>2, Together
<1> QED BY <1>2, <1>3

LEMMA FindTypes ==
  ASSUME TypeOK, NEW c \in Callers, Found(c) \/ FoundDead(c)
  PROVE  TypeOK'
<1>1. task[c] \in Task /\ HasLocals(task[c])
  BY DEF TypeOK
<1>2. CASE Found(c)
  <2> DEFINE t == [task[c] EXCEPT !.at = "send", !.proc = Entry(c)]
  <2>1. Entry(c) \in Pids
    BY <1>1, <1>2 DEF Found, Entry, HasLocals, TypeOK
  <2>2. t \in Task /\ t.at = "send" /\ t.proc = Entry(c) /\ t.sess = task[c].sess
          /\ t.then = task[c].then /\ t.call = task[c].call
    BY <1>1, <2>1 DEF Task
  <2>3. HasLocals(t)
    BY <1>1, <1>2, <2>1, <2>2 DEF HasLocals, Found
  <2>4. task' = [task EXCEPT ![c] = t]
    BY <1>2 DEF Found
  <2>5. TasksOK'
    BY <1>2, <2>2, <2>3, <2>4, TaskStep DEF TasksOK, Found, Hold, Unlocked, TypeOK
  <2>6. PoolOK' /\ ProcsOK'
    BY <1>2, Parts DEF PoolOK, ProcsOK, procVars, rpcVars, Found
  <2> QED BY <2>5, <2>6, Together
<1>3. CASE FoundDead(c)
  <2> DEFINE t == [task[c] EXCEPT !.at = "remove", !.then = "again"]
  <2>1. t \in Task /\ t.at = "remove" /\ t.then = "again" /\ t.sess = task[c].sess
          /\ t.call = task[c].call
    BY <1>1 DEF Task
  <2>2. HasLocals(t)
    BY <1>1, <1>3, <2>1 DEF HasLocals, FoundDead
  <2>3. task' = [task EXCEPT ![c] = t]
    BY <1>3 DEF FoundDead
  <2>4. TasksOK'
    BY <1>3, <2>1, <2>2, <2>3, TaskStep DEF TasksOK, FoundDead, TypeOK
  <2>5. PoolOK' /\ ProcsOK'
    BY <1>3, Parts DEF PoolOK, ProcsOK, procVars, rpcVars, FoundDead
  <2> QED BY <2>4, <2>5, Together
<1> QED BY <1>2, <1>3

LEMMA KillTypes ==
  ASSUME TypeOK, NEW c \in Callers, Remove(c) \/ Signal(c)
  PROVE  TypeOK'
<1>1. task[c] \in Task /\ HasLocals(task[c])
  BY DEF TypeOK
<1>2. CASE Remove(c)
  <2> DEFINE t == [task[c] EXCEPT !.at = "signal", !.proc = Entry(c)]
  <2>1. Entry(c) \in Pids
    BY <1>1, <1>2 DEF Remove, Entry, HasLocals, TypeOK
  <2>2. t \in Task /\ t.at = "signal" /\ t.proc = Entry(c) /\ t.sess = task[c].sess
          /\ t.then = task[c].then /\ t.call = task[c].call
    BY <1>1, <2>1 DEF Task
  <2>3. HasLocals(t)
    BY <1>1, <1>2, <2>1, <2>2 DEF HasLocals, Remove
  <2>4. task' = [task EXCEPT ![c] = t]
    BY <1>2 DEF Remove
  <2>5. TasksOK'
    BY <1>2, <2>2, <2>3, <2>4, TaskStep DEF TasksOK, Remove, Unlocked, TypeOK
  <2>6. PoolOK' /\ ProcsOK'
    BY <1>1, <1>2, <2>1, Parts DEF PoolOK, ProcsOK, rpcVars, Remove, Expect, HasLocals
  <2> QED BY <2>5, <2>6, Together
<1>3. CASE Signal(c)
  <2>1. TasksOK'
    BY <1>1, <1>3, GiveBack DEF Signal
  <2>2. task[c].proc \in Pids
    BY <1>1, <1>3 DEF Signal, HasLocals
  <2>3. PoolOK' /\ ProcsOK'
    BY <1>3, <2>2, Parts DEF PoolOK, ProcsOK, Signal
  <2> QED BY <2>1, <2>3, Together
<1> QED BY <1>2, <1>3

LEMMA RequestTypes ==
  ASSUME TypeOK, NEW c \in Callers, Send(c) \/ SendBroken(c) \/ Receive(c) \/ Timeout(c)
  PROVE  TypeOK'
<1> DEFINE p == task[c].proc
           k == task[c].call
<1>1. task[c] \in Task /\ HasLocals(task[c]) /\ task[c].at \in {"send", "wait"}
  BY DEF TypeOK, Send, SendBroken, Receive, Timeout, Late
<1>2. p \in Pids /\ k \in Calls
  BY <1>1 DEF HasLocals
<1>3. nextId[p] \in Nat /\ nextId \in [Pids -> Nat] /\ channels \in [Pids -> SUBSET Request]
        /\ inbox \in [Pids -> SUBSET Request]
  BY <1>2 DEF TypeOK
<1>4. [id |-> nextId[p], call |-> k] \in Request
  BY <1>2, <1>3
<1>5. ASSUME Register(p, k)
      PROVE  nextId' \in [Pids -> Nat] /\ channels' \in [Pids -> SUBSET Request]
  BY <1>2, <1>3, <1>4, <1>5 DEF Register, NewId
<1>6. CASE Send(c)
  <2> DEFINE t == [task[c] EXCEPT !.at = "wait", !.id = nextId[p]]
  <2>1. t \in Task /\ t.at = "wait" /\ t.proc = p /\ t.sess = task[c].sess
          /\ t.then = task[c].then /\ t.call = k
    BY <1>1, <1>3 DEF Task
  <2>2. HasLocals(t)
    BY <1>1, <1>2, <1>6, <2>1 DEF HasLocals, Send
  <2>3. task' = [task EXCEPT ![c] = t]
    BY <1>6 DEF Send
  <2>4. TasksOK'
    BY <1>6, <1>1, <2>1, <2>2, <2>3, TaskStep DEF TasksOK, Send, TypeOK
  <2>5. inbox' \in [Pids -> SUBSET Request]
    BY <1>2, <1>3, <1>4, <1>6 DEF Send
  <2>6. PoolOK' /\ ProcsOK'
    BY <1>5, <1>6, <2>5, Parts DEF PoolOK, ProcsOK, Send
  <2> QED BY <2>4, <2>6, Together
<1>7. CASE SendBroken(c)
  <2>1. TasksOK'
    BY <1>1, <1>7, GiveBack DEF SendBroken
  <2>2. PoolOK' /\ ProcsOK'
    BY <1>5, <1>7, Parts DEF PoolOK, ProcsOK, SendBroken
  <2> QED BY <2>1, <2>2, Together
<1>8. CASE Receive(c) \/ Timeout(c)
  <2>1. TasksOK'
    BY <1>1, <1>8, GiveBack DEF Receive, Timeout
  <2>2. PoolOK' /\ ProcsOK'
    BY <1>2, <1>3, <1>8, Parts DEF PoolOK, ProcsOK, Receive, Timeout, procVars, rpcVars
  <2> QED BY <2>1, <2>2, Together
<1> QED BY <1>6, <1>7, <1>8

LEMMA CancelTypes ==
  ASSUME TypeOK, NEW c \in Callers, Cancel(c)
  PROVE  TypeOK'
<1>1. task' = [task EXCEPT ![c] = Idle] /\ lock' = IF lock = c THEN None ELSE lock
  BY DEF Cancel, Goto
<1>2. TasksOK'
  BY <1>1, IdleTask, TaskStep DEF TasksOK
<1>3. PoolOK' /\ ProcsOK'
  BY Parts DEF PoolOK, ProcsOK, Cancel, rpcVars
<1> QED BY <1>2, <1>3, Together

LEMMA ProcessTypes ==
  ASSUME TypeOK, NEW p \in Pids,
         Answer(p) \/ StdinClosed(p) \/ CrashProcess(p) \/ ReaderStep(p)
  PROVE  TypeOK'
<1>1. CASE Answer(p)
  BY <1>1, SameTasks, Parts, Together DEF PoolOK, ProcsOK, Answer
<1>2. CASE StdinClosed(p) \/ CrashProcess(p)
  BY <1>2, SameTasks, Parts, Together DEF PoolOK, ProcsOK, StdinClosed, CrashProcess, Exit
<1>3. CASE Route(p)
  <2>1. PICK r \in out[p] :
          /\ out' = [out EXCEPT ![p] = @ \ {r}]
          /\ channels' = [channels EXCEPT ![p] = @ \ {ch \in channels[p] : ch.id = r.id}]
          /\ got' = [k \in Calls |->
               IF \E ch \in {ch \in channels[p] : ch.id = r.id} : ch.call = k
               THEN r.call ELSE got[k]]
    BY <1>3 DEF Route
  <2>2. r.call \in Calls
    BY <2>1 DEF TypeOK
  <2>3. got' \in [Calls -> Calls \cup {None}]
    BY <2>1, <2>2 DEF TypeOK
  <2> QED BY <1>3, <2>1, <2>3, SameTasks, Parts, Together DEF PoolOK, ProcsOK, Route
<1>4. CASE StreamEnds(p)
  BY <1>4, SameTasks, Parts, Together DEF PoolOK, ProcsOK, StreamEnds, rpcVars
<1> QED BY <1>1, <1>2, <1>3, <1>4 DEF ReaderStep

-----------------------------------------------------------------------------
\* Type correctness: the lock is held exactly by a caller between finding its
\* process and the end of its request, or between the removal of a process and
\* its signal, and a caller has the session, process and call it uses.
THEOREM BridgeTypes == Spec => []TypeOK
<1>1. Init => TypeOK
  BY PoolAssumption, IdleTask DEF Init, TypeOK, Calls
<1>2. TypeOK /\ [Next]_vars => TypeOK'
  <2> SUFFICES ASSUME TypeOK, [Next]_vars
               PROVE  TypeOK'
    OBVIOUS
  <2>1. CASE UNCHANGED vars
    BY <2>1, SameTasks, Parts, Together DEF vars, procVars, rpcVars, PoolOK, ProcsOK
  <2>2. ASSUME NEW c \in Callers, CallStep(c) \/ LockStep(c) \/ OwnStep(c) \/ Cancel(c)
        PROVE  TypeOK'
    BY <2>2, CallTypes, WaitTypes, SpawnTypes, FindTypes, KillTypes, RequestTypes,
       CancelTypes DEF LockStep, OwnStep
  <2>3. ASSUME NEW p \in Pids,
               Answer(p) \/ StdinClosed(p) \/ CrashProcess(p) \/ ReaderStep(p)
        PROVE  TypeOK'
    BY <2>3, ProcessTypes
  <2> QED BY <2>1, <2>2, <2>3 DEF Next
<1> QED BY <1>1, <1>2, PTL DEF Spec

-----------------------------------------------------------------------------
(* Answers                                                                  *)

\* A request id is never used again by its process, so an id that comes back
\* finds either the channel of its own call or none.
Fresh ==
  \A p \in Pids : \A x \in channels[p] \cup inbox[p] \cup out[p] : x.id < nextId[p]

Matched ==
  \A p \in Pids : \A ch \in channels[p], r \in inbox[p] \cup out[p] :
    ch.id = r.id => ch.call = r.call

AnswerInv == TypeOK /\ Fresh /\ Matched /\ OwnAnswer

\* Dropping channels, requests and answers, or moving a request to the answers,
\* keeps the invariant.
LEMMA Shrinking ==
  ASSUME TypeOK, Fresh, Matched, UNCHANGED nextId,
         \A p \in Pids : channels'[p] \subseteq channels[p],
         \A p \in Pids : inbox'[p] \cup out'[p] \subseteq inbox[p] \cup out[p]
  PROVE  Fresh' /\ Matched'
  BY DEF Fresh, Matched

LEMMA Registering ==
  ASSUME TypeOK, Fresh, Matched, NEW p \in Pids, NEW k \in Calls, Register(p, k),
         UNCHANGED out,
         \/ UNCHANGED inbox
         \/ inbox' = [inbox EXCEPT ![p] = @ \cup {[id |-> nextId[p], call |-> k]}]
  PROVE  Fresh' /\ Matched'
<1> DEFINE new == [id |-> nextId[p], call |-> k]
<1>1. /\ nextId \in [Pids -> Nat] /\ channels \in [Pids -> SUBSET Request]
      /\ inbox \in [Pids -> SUBSET Request] /\ out \in [Pids -> SUBSET Request]
  BY DEF TypeOK
<1>2. /\ nextId' = [nextId EXCEPT ![p] = @ + 1]
      /\ channels'[p] \subseteq channels[p] \cup {new}
      /\ \A q \in Pids \ {p} : channels'[q] = channels[q]
  BY <1>1 DEF Register, NewId
<1>3. /\ inbox'[p] \subseteq inbox[p] \cup {new}
      /\ \A q \in Pids \ {p} : inbox'[q] = inbox[q]
  BY <1>1
<1>4. new.id = nextId[p] /\ new.call = k
  OBVIOUS
<1>5. \A x \in channels[p] \cup inbox[p] \cup out[p] : x.id < nextId[p] /\ x.id \in Nat
  BY <1>1 DEF Fresh
<1>6. nextId'[p] = nextId[p] + 1 /\ nextId[p] \in Nat
        /\ \A q \in Pids \ {p} : nextId'[q] = nextId[q]
  BY <1>1, <1>2
<1>7. Fresh'
  <2> SUFFICES ASSUME NEW q \in Pids, NEW x \in channels'[q] \cup inbox'[q] \cup out'[q]
               PROVE  x.id < nextId'[q]
    BY DEF Fresh
  <2>1. CASE q = p /\ x = new
    BY <2>1, <1>4, <1>6
  <2>2. CASE q = p /\ x # new
    <3>1. x \in channels[p] \cup inbox[p] \cup out[p]
      BY <2>2, <1>2, <1>3
    <3> QED BY <3>1, <2>2, <1>5, <1>6
  <2>3. CASE q # p
    BY <2>3, <1>2, <1>3, <1>6 DEF Fresh
  <2> QED BY <2>1, <2>2, <2>3
<1>8. Matched'
  <2> SUFFICES ASSUME NEW q \in Pids, NEW ch \in channels'[q],
                      NEW r \in inbox'[q] \cup out'[q], ch.id = r.id
               PROVE  ch.call = r.call
    BY DEF Matched
  <2>1. CASE q = p /\ ch = new /\ r = new
    BY <2>1
  <2>2. CASE q = p /\ ch # r /\ (ch = new \/ r = new)
    <3>1. \E x \in channels[p] \cup inbox[p] \cup out[p] : x.id = nextId[p]
      BY <2>2, <1>2, <1>3, <1>4
    <3> QED BY <3>1, <1>5, <1>6
  <2>3. CASE q = p /\ ch # new /\ r # new
    BY <2>3, <1>2, <1>3 DEF Matched
  <2>4. CASE q # p
    BY <2>4, <1>2, <1>3 DEF Matched
  <2> QED BY <2>1, <2>2, <2>3, <2>4
<1> QED BY <1>7, <1>8

\* No call receives the answer to another one, however late the answers of calls
\* that gave up or were dropped arrive and whichever process gives them.
THEOREM AnswersMatch == Spec => []OwnAnswer
<1>1. Init => AnswerInv
  <2> SUFFICES ASSUME Init
               PROVE  Fresh /\ Matched /\ OwnAnswer
    BY PoolAssumption, IdleTask DEF Init, TypeOK, Calls, AnswerInv
  <2> QED BY DEF Init, Fresh, Matched, OwnAnswer
<1>2. TypeOK' /\ AnswerInv /\ [Next]_vars => AnswerInv'
  <2> SUFFICES ASSUME TypeOK', TypeOK, Fresh, Matched, OwnAnswer, [Next]_vars
               PROVE  Fresh' /\ Matched' /\ OwnAnswer'
    BY DEF AnswerInv
  <2>1. ASSUME UNCHANGED <<rpcVars, got>>
        PROVE  Fresh' /\ Matched' /\ OwnAnswer'
    BY <2>1 DEF rpcVars, Fresh, Matched, OwnAnswer
  <2>2. CASE UNCHANGED vars
    BY <2>1, <2>2 DEF vars, procVars
  <2>3. ASSUME NEW c \in Callers, CallStep(c) \/ LockStep(c) \/ Cancel(c) \/ Receive(c)
        PROVE  UNCHANGED <<rpcVars, got>>
    BY <2>3 DEF CallStep, CallSpawn, CallKill, CallRequest, Begin, LockStep, AlreadyExists,
       SpawnFails, SpawnChild, Insert, NotFound, Found, FoundDead, NothingToKill, Remove,
       Cancel, Receive, procVars
  <2>4. ASSUME NEW c \in Callers, Send(c) \/ SendBroken(c)
        PROVE  Fresh' /\ Matched' /\ OwnAnswer'
    <3>1. HasLocals(task[c]) /\ task[c].at = "send"
      BY <2>4 DEF TypeOK, Send, SendBroken
    <3>2. task[c].proc \in Pids /\ task[c].call \in Calls
      BY <3>1 DEF HasLocals
    <3> QED BY <2>4, <3>2, Registering DEF Send, SendBroken, OwnAnswer
  <2>5. ASSUME NEW c \in Callers, Timeout(c) \/ Signal(c)
        PROVE  Fresh' /\ Matched' /\ OwnAnswer'
    <3>1. /\ UNCHANGED <<nextId, out, got>>
          /\ \A p \in Pids : channels'[p] \subseteq channels[p] /\ inbox'[p] \subseteq inbox[p]
      BY <2>5 DEF Timeout, Signal, TypeOK
    <3> QED BY <3>1, Shrinking DEF OwnAnswer
  <2>6. ASSUME NEW p \in Pids, Answer(p) \/ StdinClosed(p) \/ CrashProcess(p)
        PROVE  Fresh' /\ Matched' /\ OwnAnswer'
    <3>1. /\ UNCHANGED <<nextId, channels, got>>
          /\ \A q \in Pids : inbox'[q] \cup out'[q] \subseteq inbox[q] \cup out[q]
      BY <2>6 DEF Answer, StdinClosed, CrashProcess, Exit, TypeOK
    <3> QED BY <3>1, Shrinking DEF OwnAnswer
  <2>7. ASSUME NEW p \in Pids, Route(p)
        PROVE  Fresh' /\ Matched' /\ OwnAnswer'
    <3>1. PICK r \in out[p] :
            /\ out' = [out EXCEPT ![p] = @ \ {r}]
            /\ channels' = [channels EXCEPT ![p] = @ \ {ch \in channels[p] : ch.id = r.id}]
            /\ got' = [k \in Calls |->
                 IF \E ch \in {ch \in channels[p] : ch.id = r.id} : ch.call = k
                 THEN r.call ELSE got[k]]
            /\ UNCHANGED <<nextId, inbox>>
      BY <2>7 DEF Route
    <3>2. \A q \in Pids : /\ channels'[q] \subseteq channels[q]
                          /\ inbox'[q] \cup out'[q] \subseteq inbox[q] \cup out[q]
      BY <3>1 DEF TypeOK
    <3>3. \A ch \in channels[p] : ch.id = r.id => ch.call = r.call
      BY DEF Matched
    <3>4. OwnAnswer'
      BY <3>1, <3>3 DEF OwnAnswer
    <3> QED BY <3>1, <3>2, <3>4, Shrinking
  <2>8. ASSUME NEW p \in Pids, StreamEnds(p)
        PROVE  UNCHANGED <<rpcVars, got>>
    BY <2>8 DEF StreamEnds
  <2> QED
    BY <2>1, <2>2, <2>3, <2>4, <2>5, <2>6, <2>7, <2>8 DEF Next, OwnStep, ReaderStep
<1>3. AnswerInv => OwnAnswer
  BY DEF AnswerInv
<1> QED BY <1>1, <1>2, <1>3, BridgeTypes, PTL DEF Spec

-----------------------------------------------------------------------------
(* Alarms                                                                   *)

\* A killed process is expected to go, and so is one that is about to be killed;
\* a reported one has exited by itself.
AlarmInv ==
  /\ TypeOK
  /\ \A p \in Pids : life[p] = "killed" => expected[p]
  /\ \A c \in Callers : task[c].at = "signal" => expected[task[c].proc]
  /\ \A p \in alarms : life[p] = "exited"

\* The flag is set before the signal, so the reader of a killed process never
\* takes its end for a crash.
THEOREM KilledIsNoCrash == Spec => []NoFalseAlarm
<1>1. Init => AlarmInv
  <2>1. Init => TypeOK
    BY PoolAssumption, IdleTask DEF Init, TypeOK, Calls
  <2> QED BY <2>1, IdleTask DEF Init, AlarmInv
<1>2. TypeOK' /\ AlarmInv /\ [Next]_vars => AlarmInv'
  <2> SUFFICES ASSUME TypeOK', AlarmInv, [Next]_vars
               PROVE  AlarmInv'
    OBVIOUS
  <2>1. TypeOK /\ task \in [Callers -> Task] /\ alarms \subseteq Pids
          /\ life \in [Pids -> Life] /\ expected \in [Pids -> BOOLEAN]
          /\ \A c \in Callers : task[c].at = "signal" => task[c].proc \in Pids
    BY DEF AlarmInv, TypeOK, HasLocals
  <2>2. ASSUME UNCHANGED <<life, expected, alarms>>,
               \A c \in Callers : task'[c].at = "signal" => task'[c] = task[c]
        PROVE  AlarmInv'
    BY <2>1, <2>2 DEF AlarmInv
  <2>3. CASE UNCHANGED vars
    BY <2>2, <2>3 DEF vars, procVars
  <2>4. ASSUME NEW c \in Callers, CallStep(c) \/ Cancel(c)
        PROVE  AlarmInv'
    <3>1. PICK l \in {"check", "kill", "lock", "idle"} :
            task'[c].at = l /\ \A d \in Callers : d # c => task'[d] = task[d]
      <4>1. CASE CallStep(c)
        <5>1. PICK s \in Sessions, k \in Calls \cup Nat \cup {None}, l \in {"check", "kill", "lock"} :
                Begin(c, s, l, k)
          BY <4>1, <2>1 DEF CallStep, CallSpawn, CallKill, CallRequest, TypeOK
        <5> QED BY <5>1, <2>1 DEF Begin, Task
      <4>2. CASE Cancel(c)
        BY <4>2, <2>1 DEF Cancel, Goto, Idle
      <4> QED BY <2>4, <4>1, <4>2
    <3>2. UNCHANGED <<life, expected, alarms>>
      BY <2>4 DEF CallStep, CallSpawn, CallKill, CallRequest, Begin, Cancel, procVars
    <3> QED BY <3>1, <3>2, <2>2
  <2>5. ASSUME NEW c \in Callers, LockStep(c) \/ OwnStep(c),
               ~SpawnChild(c), ~Remove(c), ~Signal(c)
        PROVE  AlarmInv'
    <3>1. /\ \A d \in Callers : task'[d].at = "signal" => task'[d] = task[d]
          /\ UNCHANGED <<life, expected, alarms>>
      BY <2>1, <2>5 DEF LockStep, OwnStep, AlreadyExists, SpawnFails, Insert, NotFound, Found,
         FoundDead, NothingToKill, Send, SendBroken, Receive, Timeout, Goto, Idle, procVars,
         Task
    <3> QED BY <3>1, <2>2
  <2>6. ASSUME NEW c \in Callers, SpawnChild(c)
        PROVE  AlarmInv'
    BY <2>1, <2>6 DEF SpawnChild, AlarmInv, Task
  <2>7. ASSUME NEW c \in Callers, Remove(c)
        PROVE  AlarmInv'
    BY <2>1, <2>7 DEF Remove, Expect, AlarmInv, TypeOK, HasLocals, Task
  <2>8. ASSUME NEW c \in Callers, Signal(c)
        PROVE  AlarmInv'
    BY <2>1, <2>8 DEF Signal, AlarmInv, Goto, Idle, Task
  <2>9. ASSUME NEW p \in Pids, Answer(p) \/ Route(p)
         PROVE  AlarmInv'
    BY <2>2, <2>9 DEF Answer, Route
  <2>10. ASSUME NEW p \in Pids, StdinClosed(p) \/ CrashProcess(p) \/ StreamEnds(p)
         PROVE  AlarmInv'
    BY <2>1, <2>10 DEF StdinClosed, CrashProcess, Exit, StreamEnds, Running, AlarmInv
  <2> QED
    BY <2>3, <2>4, <2>5, <2>6, <2>7, <2>8, <2>9, <2>10 DEF Next, LockStep, OwnStep, ReaderStep
<1>3. AlarmInv => NoFalseAlarm
  BY DEF AlarmInv, NoFalseAlarm
<1> QED BY <1>1, <1>2, <1>3, BridgeTypes, PTL DEF Spec
=============================================================================
