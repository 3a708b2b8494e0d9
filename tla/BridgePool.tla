----------------------------- MODULE BridgePool -----------------------------
(***************************************************************************)
(* The pool of Node.js processes of BridgeClient and the JSON-RPC calls     *)
(* through it.  A caller is a task inside spawn_process, send_request or    *)
(* kill_process; the pool is one map behind one RwLock, whose write half a  *)
(* request keeps until it is answered or times out.                         *)
(*                                                                          *)
(* What a request asks is abstracted to the number of the call it belongs   *)
(* to, and an answer to the number of the call it answers.  The request     *)
(* handlers of the process (index.js) are only there to answer in any order,*)
(* late or never.  read_stdout's I/O errors and the notifications it        *)
(* forwards are left out.                                                   *)
(***************************************************************************)
EXTENDS Naturals, FiniteSets

CONSTANTS
  Sessions,     \* session ids
  Callers,      \* tasks that use the client
  Pids,         \* processes that are ever started: a bound
  MaxProcesses, \* MAX_CONCURRENT_PROCESSES
  MaxCalls,     \* requests that are ever begun: a bound
  None

ASSUME PoolAssumption ==
  /\ MaxProcesses \in Nat /\ MaxCalls \in Nat
  /\ None \notin Pids \cup Callers \cup Nat

VARIABLES
  pool,     \* processes: the process of each session
  lock,     \* who holds the write half of its RwLock
  permits,  \* free permits of process_semaphore
  life,     \* what the operating system knows of a process
  stdin,    \* whether our end of its stdin is open
  expected, \* expected_shutdown
  reading,  \* whether its read_stdout task is in the loop
  nextId,   \* next_request_id
  channels, \* response_channels: request ids and the calls that wait for them
  inbox,    \* requests the process has been sent and not answered
  out,      \* answers in its stdout
  task,     \* where each caller is, and its local variables
  calls,    \* calls begun so far
  got,      \* what the oneshot of each call has received
  alarms    \* processes a process_crashed event was sent for

rpcVars == <<nextId, channels, inbox, out>>
procVars == <<life, stdin, expected, reading, rpcVars>>
vars == <<pool, lock, permits, procVars, task, calls, got, alarms>>

Calls == 1 .. MaxCalls

CallerPc == {"idle", "check", "insert", "lock", "send", "wait", "remove", "again",
             "kill", "signal"}

\* then is where spawn_process returns to, proc the process at hand, and id the
\* request_id of the caller's call.
Task == [at : CallerPc, sess : Sessions \cup {None}, then : {"idle", "again"},
         proc : Pids \cup {None}, call : Calls \cup {None}, id : Nat]

Idle == [at |-> "idle", sess |-> None, then |-> "idle", proc |-> None, call |-> None,
         id |-> 0]

\* A killed process is told from one that exited.
Life == {"unborn", "running", "exited", "killed"}

Request == [id : Nat, call : Calls]

Running(p) == life[p] = "running"
Unlocked   == lock = None
Entry(c)   == pool[task[c].sess]
Goto(c, l) == task' = [task EXCEPT ![c] = IF l = "idle" THEN Idle ELSE [@ EXCEPT !.at = l]]

Init ==
  /\ pool = [s \in Sessions |-> None]
  /\ lock = None
  /\ permits = MaxProcesses
  /\ life = [p \in Pids |-> "unborn"]
  /\ stdin = [p \in Pids |-> FALSE]
  /\ expected = [p \in Pids |-> FALSE]
  /\ reading = [p \in Pids |-> FALSE]
  /\ nextId = [p \in Pids |-> 1]
  /\ channels = [p \in Pids |-> {}]
  /\ inbox = [p \in Pids |-> {}]
  /\ out = [p \in Pids |-> {}]
  /\ task = [c \in Callers |-> Idle]
  /\ calls = 0
  /\ got = [k \in Calls |-> None]
  /\ alarms = {}

-----------------------------------------------------------------------------
(* The callers                                                              *)

Begin(c, s, l, k) ==
  /\ task[c].at = "idle"
  /\ task' = [task EXCEPT ![c] = [@ EXCEPT !.at = l, !.sess = s, !.call = k]]
  /\ UNCHANGED <<pool, lock, permits, procVars, got, alarms>>

CallSpawn(c, s) == Begin(c, s, "check", None) /\ UNCHANGED calls
CallKill(c, s)  == Begin(c, s, "kill", None) /\ UNCHANGED calls

CallRequest(c, s) ==
  /\ calls < MaxCalls /\ calls' = calls + 1
  /\ Begin(c, s, "lock", calls + 1)

-----------------------------------------------------------------------------
(* spawn_process                                                            *)

\* The read half of the lock is enough to look, and it is given back at once.
AlreadyExists(c) ==
  /\ task[c].at = "check" /\ Unlocked /\ Entry(c) # None
  /\ Goto(c, task[c].then)
  /\ UNCHANGED <<pool, lock, permits, procVars, calls, got, alarms>>

\* No permit is left, or the command cannot be run and its permit is dropped.
SpawnFails(c) ==
  /\ task[c].at = "check" /\ Unlocked /\ Entry(c) = None
  /\ Goto(c, "idle")
  /\ UNCHANGED <<pool, lock, permits, procVars, calls, got, alarms>>

SpawnChild(c) ==
  /\ task[c].at = "check" /\ Unlocked /\ Entry(c) = None
  /\ permits > 0 /\ permits' = permits - 1
  /\ \E p \in Pids :
       /\ life[p] = "unborn"
       /\ life' = [life EXCEPT ![p] = "running"]
       /\ stdin' = [stdin EXCEPT ![p] = TRUE]
       /\ reading' = [reading EXCEPT ![p] = TRUE]
       /\ task' = [task EXCEPT ![c].at = "insert", ![c].proc = p]
  /\ UNCHANGED <<pool, lock, expected, rpcVars, calls, got, alarms>>

\* An entry another caller has made in the meantime is overwritten: its handle
\* is dropped, which closes the stdin of its process.  The permit is forgotten.
Insert(c) ==
  /\ task[c].at = "insert" /\ Unlocked
  /\ pool' = [pool EXCEPT ![task[c].sess] = task[c].proc]
  /\ stdin' = [p \in Pids |-> stdin[p] /\ p # Entry(c)]
  /\ Goto(c, task[c].then)
  /\ UNCHANGED <<lock, permits, life, expected, reading, rpcVars, calls, got, alarms>>

-----------------------------------------------------------------------------
(* send_request_with_timeout                                                *)

NotFound(c) ==
  /\ task[c].at \in {"lock", "again"} /\ Unlocked /\ Entry(c) = None
  /\ Goto(c, "idle")
  /\ UNCHANGED <<pool, lock, permits, procVars, calls, got, alarms>>

\* Mutant of Hold: the lock is not kept for the request.
HoldNothing(c) == UNCHANGED lock

Hold(c) == lock' = c

\* After a restart the process is not looked at again.
Found(c) ==
  /\ task[c].at \in {"lock", "again"} /\ Unlocked /\ Entry(c) # None
  /\ task[c].at = "lock" => Running(Entry(c))
  /\ Hold(c)
  /\ task' = [task EXCEPT ![c].at = "send", ![c].proc = Entry(c)]
  /\ UNCHANGED <<pool, permits, procVars, calls, got, alarms>>

FoundDead(c) ==
  /\ task[c].at = "lock" /\ Unlocked /\ Entry(c) # None /\ ~Running(Entry(c))
  /\ task' = [task EXCEPT ![c].at = "remove", ![c].then = "again"]
  /\ UNCHANGED <<pool, lock, permits, procVars, calls, got, alarms>>

\* Mutant of NewId: the ids of a process start over with every request.
SameId(p) == UNCHANGED nextId

NewId(p) == nextId' = [nextId EXCEPT ![p] = @ + 1]

\* The channel is registered under the next id before the request is written.
Register(p, k) ==
  /\ NewId(p)
  /\ channels' = [channels EXCEPT ![p] =
       {ch \in @ : ch.id # nextId[p]} \cup {[id |-> nextId[p], call |-> k]}]

Send(c) ==
  LET p == task[c].proc
      k == task[c].call
  IN
  /\ task[c].at = "send" /\ Running(p)
  /\ Register(p, k)
  /\ inbox' = [inbox EXCEPT ![p] = @ \cup {[id |-> nextId[p], call |-> k]}]
  /\ task' = [task EXCEPT ![c].at = "wait", ![c].id = nextId[p]]
  /\ UNCHANGED <<pool, lock, permits, life, stdin, expected, reading, out, calls, got, alarms>>

\* Nobody reads the pipe any more.  The channel stays registered.
SendBroken(c) ==
  LET p == task[c].proc IN
  /\ task[c].at = "send" /\ ~Running(p)
  /\ Register(p, task[c].call)
  /\ lock' = None
  /\ Goto(c, "idle")
  /\ UNCHANGED <<pool, permits, life, stdin, expected, reading, inbox, out, calls, got, alarms>>

\* timeout looks for the answer first and at the clock then.
Answered(c) == got[task[c].call] # None

Receive(c) ==
  /\ task[c].at = "wait" /\ Answered(c)
  /\ lock' = None
  /\ Goto(c, "idle")
  /\ UNCHANGED <<pool, permits, procVars, calls, got, alarms>>

\* Mutant of Late: only a process that is there can be late.
LateAlive(c) == task[c].at = "wait" /\ ~Answered(c) /\ Running(task[c].proc)

Late(c) == task[c].at = "wait" /\ ~Answered(c)

Timeout(c) ==
  /\ Late(c)
  /\ channels' = [channels EXCEPT ![task[c].proc] = {ch \in @ : ch.id # task[c].id}]
  /\ lock' = None
  /\ Goto(c, "idle")
  /\ UNCHANGED <<pool, permits, life, stdin, expected, reading, nextId, inbox, out, calls, got,
                 alarms>>

-----------------------------------------------------------------------------
(* restart_process and kill_process                                         *)

NothingToKill(c) ==
  /\ task[c].at \in {"remove", "kill"} /\ Unlocked /\ Entry(c) = None
  /\ Goto(c, IF task[c].at = "remove" THEN "check" ELSE "idle")
  /\ UNCHANGED <<pool, lock, permits, procVars, calls, got, alarms>>

\* Mutant of Expect: the flag is forgotten.
ExpectNothing(p) == UNCHANGED expected

Expect(p) == expected' = [expected EXCEPT ![p] = TRUE]

\* Whatever process the session has by now is removed.
Remove(c) ==
  /\ task[c].at \in {"remove", "kill"} /\ Unlocked /\ Entry(c) # None
  /\ lock' = c
  /\ pool' = [pool EXCEPT ![task[c].sess] = None]
  /\ Expect(Entry(c))
  /\ task' = [task EXCEPT ![c].at = "signal", ![c].proc = Entry(c)]
  /\ UNCHANGED <<permits, life, stdin, reading, rpcVars, calls, got, alarms>>

\* The signal and the end of the handle.  The permit is not given back.
Signal(c) ==
  LET p == task[c].proc IN
  /\ task[c].at = "signal"
  /\ life' = [life EXCEPT ![p] = IF @ = "running" THEN "killed" ELSE @]
  /\ stdin' = [stdin EXCEPT ![p] = FALSE]
  /\ inbox' = [inbox EXCEPT ![p] = {}]
  /\ lock' = None
  /\ Goto(c, IF task[c].then = "again" THEN "check" ELSE "idle")
  /\ UNCHANGED <<pool, permits, expected, reading, nextId, channels, out, calls, got, alarms>>

-----------------------------------------------------------------------------
\* A handler's client goes away and its future is dropped at an await, with
\* what it holds: the lock, and a process that is not in the pool yet together
\* with its permit.  Its channel stays registered.
Cancel(c) ==
  LET fresh == task[c].at = "insert" IN
  /\ task[c].at \notin {"idle", "send", "signal"}
  /\ lock' = IF lock = c THEN None ELSE lock
  /\ permits' = IF fresh THEN permits + 1 ELSE permits
  /\ stdin' = [p \in Pids |-> stdin[p] /\ ~(fresh /\ p = task[c].proc)]
  /\ Goto(c, "idle")
  /\ UNCHANGED <<pool, life, expected, reading, rpcVars, calls, got, alarms>>

-----------------------------------------------------------------------------
(* The processes and their readers                                          *)

Answer(p) ==
  /\ Running(p)
  /\ \E r \in inbox[p] :
       /\ inbox' = [inbox EXCEPT ![p] = @ \ {r}]
       /\ out' = [out EXCEPT ![p] = @ \cup {r}]
  /\ UNCHANGED <<pool, lock, permits, life, stdin, expected, reading, nextId, channels, task,
                 calls, got, alarms>>

Exit(p) ==
  /\ Running(p)
  /\ life' = [life EXCEPT ![p] = "exited"]
  /\ inbox' = [inbox EXCEPT ![p] = {}]
  /\ UNCHANGED <<pool, lock, permits, stdin, expected, reading, nextId, channels, out, task,
                 calls, got, alarms>>

\* A process leaves by itself when its stdin is closed, and may crash before.
StdinClosed(p)  == ~stdin[p] /\ Exit(p)
CrashProcess(p) == stdin[p] /\ Exit(p)

\* An answer goes to the call its id is registered for, or is dropped.
Route(p) ==
  /\ reading[p]
  /\ \E r \in out[p] :
       LET waiting == {ch \in channels[p] : ch.id = r.id} IN
       /\ out' = [out EXCEPT ![p] = @ \ {r}]
       /\ channels' = [channels EXCEPT ![p] = @ \ waiting]
       /\ got' = [k \in Calls |->
            IF \E ch \in waiting : ch.call = k THEN r.call ELSE got[k]]
  /\ UNCHANGED <<pool, lock, permits, life, stdin, expected, reading, nextId, inbox, task,
                 calls, alarms>>

StreamEnds(p) ==
  /\ reading[p] /\ life[p] \in {"exited", "killed"} /\ out[p] = {}
  /\ reading' = [reading EXCEPT ![p] = FALSE]
  /\ alarms' = IF expected[p] THEN alarms ELSE alarms \cup {p}
  /\ UNCHANGED <<pool, lock, permits, life, stdin, expected, rpcVars, task, calls, got>>

-----------------------------------------------------------------------------
\* Steps that wait for the lock, and the others of a caller.
LockStep(c) ==
  \/ AlreadyExists(c) \/ SpawnFails(c) \/ SpawnChild(c) \/ Insert(c)
  \/ NotFound(c) \/ Found(c) \/ FoundDead(c) \/ NothingToKill(c) \/ Remove(c)

OwnStep(c) == Send(c) \/ SendBroken(c) \/ Receive(c) \/ Timeout(c) \/ Signal(c)

CallStep(c) == \E s \in Sessions : CallSpawn(c, s) \/ CallKill(c, s) \/ CallRequest(c, s)

ReaderStep(p) == Route(p) \/ StreamEnds(p)

Next ==
  \/ \E c \in Callers : CallStep(c) \/ LockStep(c) \/ OwnStep(c) \/ Cancel(c)
  \/ \E p \in Pids : Answer(p) \/ StdinClosed(p) \/ CrashProcess(p) \/ ReaderStep(p)

Spec == Init /\ [][Next]_vars

\* The runtime polls every task that can go on, and tokio's RwLock is served in
\* the order of arrival, so whoever waits for it gets it.  A process need not
\* answer.
Fairness ==
  /\ \A c \in Callers : SF_vars(LockStep(c)) /\ WF_vars(OwnStep(c))
  /\ \A p \in Pids : WF_vars(ReaderStep(p))

FairSpec == Spec /\ Fairness

-----------------------------------------------------------------------------
(* Correctness                                                              *)

\* A caller has the session, process and call it uses next.
HasLocals(t) ==
  /\ IF t.at = "idle" THEN t.then = "idle" ELSE t.sess \in Sessions
  /\ t.at \in {"insert", "send", "wait", "signal"} => t.proc \in Pids
  /\ t.at \in {"lock", "send", "wait", "again"} \/ t.then = "again" => t.call \in Calls
  /\ t.at = "remove" => t.then = "again"

\* The types, and the lock is held exactly where the code holds it.
TypeOK ==
  /\ pool \in [Sessions -> Pids \cup {None}]
  /\ lock \in Callers \cup {None}
  /\ permits \in Nat
  /\ life \in [Pids -> Life]
  /\ stdin \in [Pids -> BOOLEAN] /\ expected \in [Pids -> BOOLEAN]
  /\ reading \in [Pids -> BOOLEAN]
  /\ nextId \in [Pids -> Nat]
  /\ channels \in [Pids -> SUBSET Request]
  /\ inbox \in [Pids -> SUBSET Request] /\ out \in [Pids -> SUBSET Request]
  /\ task \in [Callers -> Task] /\ \A c \in Callers : HasLocals(task[c])
  /\ \A c \in Callers : lock = c <=> task[c].at \in {"send", "wait", "signal"}
  /\ calls \in 0 .. MaxCalls /\ got \in [Calls -> Calls \cup {None}]
  /\ alarms \in SUBSET Pids

\* The answer a call receives is the answer to its own request, however late the
\* answers of calls that gave up arrive.
OwnAnswer == \A k \in Calls : got[k] \in {k, None}

\* A process the client has killed is not reported as crashed.
NoFalseAlarm == \A p \in alarms : life[p] # "killed"

\* Every call returns, whatever the processes do: a process that hangs or dies
\* delays the callers that queue for the lock, and no more.
EveryCallReturns == \A c \in Callers : task[c].at # "idle" ~> task[c].at = "idle"
=============================================================================
