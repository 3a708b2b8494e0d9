------------------------- MODULE CampaignBlastProofs -------------------------
(***************************************************************************)
(* What holds of CampaignBlast for any number of recipients, accounts,      *)
(* workers, requests and retries: type correctness first, then the safety   *)
(* properties, each from an inductive invariant of its own.                 *)
(***************************************************************************)
EXTENDS CampaignBlast, FiniteSetTheorems, TLAPS

\* Where a worker has no message in its slot.
Slotless == {"idle", "fetch", "unlink", "next", "moveAccount"}

-----------------------------------------------------------------------------
(* Type correctness                                                         *)

\* What every step does that leaves a whole group of variables alone.
LEMMA MysqlFrame == ASSUME MysqlOK, UNCHANGED mysql PROVE MysqlOK'
BY DEF MysqlOK, mysql

LEMMA RedisFrame == ASSUME RedisOK, UNCHANGED redis PROVE RedisOK'
BY DEF RedisOK, redis

LEMMA EngineFrame == ASSUME EngineOK, UNCHANGED engine PROVE EngineOK'
BY DEF EngineOK, engine

LEMMA JobsFrame == ASSUME JobsOK, UNCHANGED jobs PROVE JobsOK'
BY DEF JobsOK, jobs

\* The three ways a worker moves on: with its slot as it is, with a slot that
\* it empties, and to the next of its batch.
LEMMA WorkerMoves ==
  ASSUME EngineOK, NEW w \in Workers, NEW l \in WorkerPc, WGoto(w, l),
         l \in Slotless <=> wpc[w] \in Slotless,
         batch' \in [Workers -> SUBSET Message], cur' = cur
  PROVE  EngineOK'
BY DEF EngineOK, WGoto, Slotless

LEMMA FinishKeeps ==
  ASSUME EngineOK, NEW w \in Workers, Finish(w), batch' \in [Workers -> SUBSET Message]
  PROVE  EngineOK'
BY DEF EngineOK, Finish, WGoto, WorkerPc

LEMMA RequestMoves ==
  ASSUME JobsOK, NEW j \in Jobs, NEW l \in JobPc, JGoto(j, l),
         jpc[j] # "enqueueGlobal", l # "enqueueGlobal",
         UNCHANGED <<known, scanned, todo, adding>>
  PROVE  JobsOK'
BY DEF JobsOK, JGoto

LEMMA JResetKeeps ==
  ASSUME JobsOK, NEW j \in Jobs, JReset(j)
  PROVE  JobsOK'
BY DEF JobsOK, JReset, JGoto, JobPc

LEMMA NextRowKeeps ==
  ASSUME JobsOK, NEW j \in Jobs, NEW R \in SUBSET Recipients, NextRow(j, R)
  PROVE  JobsOK'
<1>1. CASE R = {} /\ scanned[j] % PageSize # 0
  BY <1>1, JResetKeeps DEF NextRow
<1>2. CASE ~(R = {} /\ scanned[j] % PageSize # 0)
  BY <1>2 DEF NextRow, JobsOK, JGoto, JobPc
<1>. QED BY <1>1, <1>2

\* A page is a finite set of rows, so the OFFSET stays a number.
LEMMA PageSizes ==
  ASSUME TypeOK, NEW j \in Jobs, NEW p \in Pages(j)
  PROVE  p \subseteq Recipients /\ Cardinality(p) \in Nat
<1>1. p \subseteq Recipients
  BY DEF Pages, Pending
<1>2. IsFiniteSet(p)
  BY <1>1, RecipientAssumption, FS_Subset
<1>. QED BY <1>1, <1>2, FS_CardinalityType

LEMMA RequestTypeOK ==
  ASSUME TypeOK, NEW c \in Clients, Request(c)
  PROVE  TypeOK'
<1>. c \in Jobs
  BY DEF Jobs
<1>1. CASE StartRead(c) \/ PauseRead(c) \/ ResetRead(c)
  <2>1. JobsOK'
    BY <1>1, RequestMoves DEF TypeOK, StartRead, PauseRead, ResetRead, JobPc
  <2>. QED BY <1>1, <2>1, MysqlFrame, RedisFrame, EngineFrame
           DEF TypeOK, StartRead, PauseRead, ResetRead
<1>2. CASE EditStatus(c) \/ AddRecipient(c)
  <2>1. MysqlOK'
    BY <1>2 DEF TypeOK, MysqlOK, EditStatus, AddRecipient, RowStatus, CampaignStatus
  <2>. QED BY <1>2, <2>1, RedisFrame, EngineFrame, JobsFrame
           DEF TypeOK, EditStatus, AddRecipient
<1>3. CASE DeleteRecipient(c) \/ DeleteAllRows(c)
  <2>1. MysqlOK'
    BY <1>3 DEF TypeOK, MysqlOK, DeleteRecipient, DeleteAllRows, DeleteRows, RowStatus
  <2>2. JobsOK'
    BY <1>3 DEF TypeOK, JobsOK, DeleteRecipient, DeleteAllRows, DeleteRows, JGoto, JobPc
  <2>. QED BY <1>3, <2>1, <2>2, RedisFrame, EngineFrame
           DEF TypeOK, DeleteRecipient, DeleteAllRows, DeleteRows
<1>. QED BY <1>1, <1>2, <1>3 DEF Request

LEMMA EnqueueTypeOK ==
  ASSUME TypeOK, NEW j \in Jobs, EnqueueCampaign(j) \/ PageFails(j) \/ EnqueueFails(j)
  PROVE  TypeOK'
<1>1. CASE ScanAccount(j) \/ ScanGlobal(j) \/ ScanRetry(j)
  <2>1. JobsOK'
    BY <1>1 DEF TypeOK, JobsOK, RedisOK, ScanAccount, ScanGlobal, ScanRetry,
                ScanKeys, JGoto, JobPc, Message
  <2>. QED BY <1>1, <2>1, MysqlFrame, RedisFrame, EngineFrame
           DEF TypeOK, ScanAccount, ScanGlobal, ScanRetry, ScanKeys
<1>2. CASE ReadPage(j)
  <2>1. PICK p \in Pages(j) :
          IF p = {} THEN JReset(j)
          ELSE /\ todo' = [todo EXCEPT ![j] = p \ known[j]]
               /\ scanned' = [scanned EXCEPT ![j] = @ + Cardinality(p)]
               /\ JGoto(j, "enqueue")
               /\ UNCHANGED <<known, adding>>
    BY <1>2 DEF ReadPage
  <2>2. p \subseteq Recipients /\ Cardinality(p) \in Nat
    BY PageSizes
  <2>3. JobsOK'
    BY <1>2, <2>1, <2>2, JResetKeeps DEF TypeOK, JobsOK, ReadPage, JGoto, JobPc
  <2>. QED BY <1>2, <2>3, MysqlFrame, RedisFrame, EngineFrame DEF TypeOK, ReadPage
<1>3. CASE EnqueueAccount(j)
  <2>1. PICK r \in todo[j], a \in Accounts :
          LET m == [id |-> CHOOSE i \in FreeIds : TRUE, rcp |-> r, acct |-> a,
                    tries |-> 0] IN
          /\ accountQ' = accountQ \cup {m}
          /\ adding' = [adding EXCEPT ![j] = m]
          /\ todo' = [todo EXCEPT ![j] = @ \ {r}]
    BY <1>3 DEF EnqueueAccount
  <2>. DEFINE m == [id |-> CHOOSE i \in FreeIds : TRUE, rcp |-> r, acct |-> a,
                    tries |-> 0]
  <2>2. (CHOOSE i \in FreeIds : TRUE) \in Ids
    BY <1>3 DEF EnqueueAccount, FreeIds
  <2>3. m \in Message /\ m # NoMessage
    <3>1. r \in Recipients
      BY DEF TypeOK, JobsOK
    <3>2. 0 \in 0 .. MaxRetries
      BY BoundAssumption
    <3>3. m \in Message
      BY <2>2, <3>1, <3>2 DEF Message
    <3>. QED BY <3>3, MessageAssumption
  <2>4. RedisOK'
    BY <1>3, <2>1, <2>3 DEF TypeOK, RedisOK, EnqueueAccount
  <2>5. JobsOK'
    <3>. HIDE DEF m
    <3>. QED BY <1>3, <2>1, <2>3 DEF TypeOK, JobsOK, EnqueueAccount, JGoto, JobPc, m
  <2>6. UNCHANGED <<mysql, engine, delivered, crashes>>
    BY <1>3 DEF EnqueueAccount
  <2>. HIDE DEF m
  <2>. QED BY <2>4, <2>5, <2>6, MysqlFrame, EngineFrame DEF TypeOK
<1>4. CASE EnqueueGlobal(j)
  <2>1. JobsOK'
    BY <1>4, NextRowKeeps DEF TypeOK, JobsOK, EnqueueGlobal
  <2>2. RedisOK'
    BY <1>4 DEF TypeOK, RedisOK, JobsOK, EnqueueGlobal
  <2>. QED BY <1>4, <2>1, <2>2, MysqlFrame, EngineFrame DEF TypeOK, EnqueueGlobal
<1>5. CASE EnqueueNothing(j) \/ EnqueueFails(j)
  <2>1. PICK R \in SUBSET Recipients : NextRow(j, R)
    BY <1>5 DEF TypeOK, JobsOK, EnqueueNothing, EnqueueFails
  <2>2. JobsOK'
    BY <2>1, NextRowKeeps DEF TypeOK
  <2>. QED BY <1>5, <2>2, MysqlFrame, RedisFrame, EngineFrame
           DEF TypeOK, EnqueueNothing, EnqueueFails
<1>6. CASE PageFails(j)
  BY <1>6, JResetKeeps, MysqlFrame, RedisFrame, EngineFrame DEF TypeOK, PageFails
<1>. QED BY <1>1, <1>2, <1>3, <1>4, <1>5, <1>6 DEF EnqueueCampaign

LEMMA HandlerTypeOK ==
  ASSUME TypeOK, NEW c \in Clients, Handler(c) \/ Abandon(c)
  PROVE  TypeOK'
<1>. c \in Jobs
  BY DEF Jobs
<1>1. CASE Restore(c) \/ Launch(c) \/ PauseTx(c) \/ ResetRows(c) \/ ResetStatus(c)
  <2>1. MysqlOK'
    BY <1>1 DEF TypeOK, MysqlOK, Restore, Launch, PauseTx, ResetRows, ResetStatus,
                RowStatus, CampaignStatus
  <2>2. JobsOK'
    BY <1>1, RequestMoves
       DEF TypeOK, Restore, Launch, PauseTx, ResetRows, ResetStatus, JobPc
  <2>. QED BY <1>1, <2>1, <2>2, RedisFrame, EngineFrame
           DEF TypeOK, Restore, Launch, PauseTx, ResetRows, ResetStatus
<1>2. CASE Validate(c)
  <2>1. JobsOK'
    BY <1>2, RequestMoves DEF TypeOK, Validate, JobPc
  <2>. QED BY <1>2, <2>1, MysqlFrame, RedisFrame, EngineFrame DEF TypeOK, Validate
<1>3. CASE PurgeAccount(c) \/ PurgeGlobal(c) \/ PurgeRetry(c)
  <2>1. JobsOK'
    BY <1>3, RequestMoves DEF TypeOK, PurgeAccount, PurgeGlobal, PurgeRetry, JobPc
  <2>2. RedisOK'
    BY <1>3 DEF TypeOK, RedisOK, PurgeAccount, PurgeGlobal, PurgeRetry
  <2>. QED BY <1>3, <2>1, <2>2, MysqlFrame, EngineFrame
           DEF TypeOK, PurgeAccount, PurgeGlobal, PurgeRetry
<1>4. CASE DeleteCampaign(c)
  <2>1. MysqlOK'
    BY <1>4 DEF TypeOK, MysqlOK, DeleteCampaign, DeleteRows, RowStatus, CampaignStatus
  <2>2. JobsOK'
    BY <1>4, RequestMoves DEF TypeOK, DeleteCampaign, DeleteRows, JobPc
  <2>. QED BY <1>4, <2>1, <2>2, RedisFrame, EngineFrame
           DEF TypeOK, DeleteCampaign, DeleteRows
<1>5. CASE EnqueueCampaign(c)
  BY <1>5, EnqueueTypeOK
<1>6. CASE Abandon(c)
  BY <1>6, JResetKeeps, MysqlFrame, RedisFrame, EngineFrame DEF TypeOK, Abandon
<1>. QED BY <1>1, <1>2, <1>3, <1>4, <1>5, <1>6 DEF Handler

LEMMA QueueingTypeOK ==
  ASSUME TypeOK, NEW w \in Workers, Queueing(w) \/ MoveFails(w)
  PROVE  TypeOK'
<1>1. CASE MoveAccount(w)
  <2>1. RedisOK'
    BY <1>1 DEF TypeOK, RedisOK, EngineOK, MoveAccount
  <2>2. EngineOK'
    BY <1>1, MessageAssumption DEF TypeOK, EngineOK, MoveAccount, WGoto, WorkerPc, Moving
  <2>. QED BY <1>1, <2>1, <2>2, MysqlFrame, JobsFrame DEF TypeOK, MoveAccount
<1>2. CASE MoveGlobal(w)
  <2>1. RedisOK'
    BY <1>2 DEF TypeOK, RedisOK, EngineOK, MoveGlobal
  <2>2. EngineOK'
    BY <1>2, WorkerMoves DEF TypeOK, EngineOK, MoveGlobal, WorkerPc, Moving, Slotless
  <2>. QED BY <1>2, <2>1, <2>2, MysqlFrame, JobsFrame DEF TypeOK, MoveGlobal
<1>3. CASE MoveDone(w)
  <2>1. RedisOK'
    BY <1>3 DEF TypeOK, RedisOK, MoveDone
  <2>2. EngineOK'
    BY <1>3 DEF TypeOK, EngineOK, MoveDone, WGoto, WorkerPc, Moving
  <2>. QED BY <1>3, <2>1, <2>2, MysqlFrame, JobsFrame DEF TypeOK, MoveDone
<1>4. CASE FetchPop(w)
  <2>1. RedisOK'
    BY <1>4 DEF TypeOK, RedisOK, FetchPop
  <2>2. EngineOK'
    BY <1>4 DEF TypeOK, EngineOK, RedisOK, FetchPop, WGoto, WorkerPc
  <2>. QED BY <1>4, <2>1, <2>2, MysqlFrame, JobsFrame DEF TypeOK, FetchPop
<1>5. CASE FetchNothing(w)
  <2>1. EngineOK'
    BY <1>5, WorkerMoves DEF TypeOK, EngineOK, FetchNothing, WorkerPc, Slotless
  <2>. QED BY <1>5, <2>1, MysqlFrame, RedisFrame, JobsFrame DEF TypeOK, FetchNothing
<1>6. CASE Unlink(w)
  <2>1. RedisOK'
    BY <1>6 DEF TypeOK, RedisOK, Unlink
  <2>2. EngineOK'
    BY <1>6, WorkerMoves DEF TypeOK, EngineOK, Unlink, WorkerPc, Slotless
  <2>. QED BY <1>6, <2>1, <2>2, MysqlFrame, JobsFrame DEF TypeOK, Unlink
<1>7. CASE MoveFails(w)
  <2>1. batch' \in [Workers -> SUBSET Message]
    BY <1>7 DEF TypeOK, EngineOK, MoveFails
  <2>2. EngineOK'
    BY <1>7, <2>1 DEF TypeOK, EngineOK, MoveFails, WGoto, WorkerPc, Moving
  <2>. QED BY <1>7, <2>2, MysqlFrame, RedisFrame, JobsFrame DEF TypeOK, MoveFails
<1>. QED BY <1>1, <1>2, <1>3, <1>4, <1>5, <1>6, <1>7 DEF Queueing

LEMMA ProcessTypeOK ==
  ASSUME TypeOK, NEW w \in Workers,
         Process(w) \/ AcquirePermit(w) \/ Send(w) \/ LimitDrop(w) \/ MediaError(w)
           \/ Drop(w)
  PROVE  TypeOK'
<1>. USE DEF TypeOK, Target
<1>1. CASE CheckCampaign(w)
  <2>1. EngineOK'
    BY <1>1, MessageAssumption DEF EngineOK, CheckCampaign, WGoto, WorkerPc
  <2>. QED BY <1>1, <2>1, MysqlFrame, RedisFrame, JobsFrame DEF CheckCampaign
<1>2. CASE \/ CheckHistory(w) \/ CheckRow(w) \/ Gate(w) \/ GateRow(w) \/ ErrorGate(w)
           \/ ErrorRow(w) \/ Settle(w) \/ Count(w)
  <2>1. batch' \in [Workers -> SUBSET Message]
    BY <1>2 DEF EngineOK, CheckHistory, CheckRow, Gate, GateRow, ErrorGate, ErrorRow,
                Settle, Count, Check
  <2>2. EngineOK'
    BY <1>2, <2>1, WorkerMoves, FinishKeeps
       DEF CheckHistory, CheckRow, Gate, GateRow, ErrorGate, ErrorRow, Settle, Count,
           Check, WorkerPc, WithPermit, Slotless
  <2>. QED BY <1>2, <2>2, MysqlFrame, RedisFrame, JobsFrame
           DEF CheckHistory, CheckRow, Gate, GateRow, ErrorGate, ErrorRow, Settle, Count,
               Check
<1>3. CASE AcquirePermit(w) \/ SendOk(w) \/ SendError(w) \/ SendLate(w)
  <2>1. EngineOK'
    BY <1>3, WorkerMoves
       DEF EngineOK, AcquirePermit, SendOk, SendError, SendLate, WorkerPc, WithPermit,
           Slotless
  <2>2. delivered' \in [Recipients -> Nat]
    BY <1>3, BoundAssumption DEF AcquirePermit, SendOk, SendError, SendLate, Deliver
  <2>. QED BY <1>3, <2>1, <2>2, MysqlFrame, RedisFrame, JobsFrame
           DEF AcquirePermit, SendOk, SendError, SendLate
<1>4. CASE MarkSent(w) \/ LogSuccess(w)
  <2>1. EngineOK'
    BY <1>4, WorkerMoves
       DEF EngineOK, MarkSent, LogSuccess, WorkerPc, WithPermit, Slotless
  <2>2. Target(w) \in Recipients
    BY <1>4 DEF EngineOK, MarkSent, LogSuccess, Message
  <2>3. MysqlOK'
    BY <1>4, <2>2 DEF MysqlOK, MarkSent, LogSuccess, SetRow, RowStatus
  <2>. QED BY <1>4, <2>1, <2>3, RedisFrame, JobsFrame DEF MarkSent, LogSuccess
<1>5. CASE Requeue(w)
  <2>1. cur[w] \in Message /\ cur[w].tries + 1 \in 0 .. MaxRetries
    BY <1>5, BoundAssumption DEF EngineOK, Requeue, MayRetry, Message
  <2>2. RedisOK'
    BY <1>5, <2>1 DEF RedisOK, Requeue, Message
  <2>3. batch' \in [Workers -> SUBSET Message]
    BY <1>5 DEF EngineOK, Requeue
  <2>. QED BY <1>5, <2>2, <2>3, FinishKeeps, MysqlFrame, JobsFrame DEF Requeue
<1>6. CASE Fail(w)
  <2>1. EngineOK'
    BY <1>6, WorkerMoves DEF EngineOK, Fail, WorkerPc, WithPermit, Slotless
  <2>2. MysqlOK'
    BY <1>6 DEF MysqlOK, Fail, SetRow, RowStatus
  <2>. QED BY <1>6, <2>1, <2>2, RedisFrame, JobsFrame DEF Fail
<1>7. CASE Complete(w) \/ MediaError(w)
  <2>1. batch' \in [Workers -> SUBSET Message]
    BY <1>7 DEF EngineOK, Complete, MediaError
  <2>2. MysqlOK'
    BY <1>7 DEF MysqlOK, Complete, MediaError, SetRow, RowStatus, CampaignStatus
  <2>. QED BY <1>7, <2>1, <2>2, FinishKeeps, RedisFrame, JobsFrame
           DEF Complete, MediaError
<1>8. CASE LimitDrop(w) \/ Drop(w)
  <2>1. Finish(w) /\ UNCHANGED <<mysql, redis, batch, jobs, delivered, crashes>>
    BY <1>8 DEF LimitDrop, Drop, GiveUp
  <2>2. batch' \in [Workers -> SUBSET Message]
    BY <2>1 DEF EngineOK
  <2>. QED BY <2>1, <2>2, FinishKeeps, MysqlFrame, RedisFrame, JobsFrame
<1>. QED BY <1>1, <1>2, <1>3, <1>4, <1>5, <1>6, <1>7, <1>8 DEF Process, Send

LEMMA CrashTypeOK == ASSUME TypeOK, Crash PROVE TypeOK'
<1>1. EngineOK'
  BY DEF TypeOK, EngineOK, Crash, WorkerPc
<1>2. JobsOK'
  BY DEF TypeOK, JobsOK, Crash, JobPc
<1>. QED BY <1>1, <1>2, MysqlFrame, RedisFrame DEF TypeOK, Crash

LEMMA RecoverTypeOK ==
  ASSUME TypeOK, RecoverTick \/ EnqueueCampaign(Recovery)
  PROVE  TypeOK'
<1>. Recovery \in Jobs
  BY DEF Jobs
<1>1. CASE RecoverTick
  <2>1. JobsOK'
    BY <1>1, RequestMoves DEF TypeOK, RecoverTick, JobPc
  <2>. QED BY <1>1, <2>1, MysqlFrame, RedisFrame, EngineFrame DEF TypeOK, RecoverTick
<1>. QED BY <1>1, EnqueueTypeOK

LEMMA RetryScanTypeOK == ASSUME TypeOK, ScanRetryQueue PROVE TypeOK'
<1>1. batch' \in [Workers -> SUBSET Message]
  BY DEF TypeOK, EngineOK, RedisOK, ScanRetryQueue
<1>2. EngineOK'
  BY <1>1, WorkerAssumption, WorkerMoves
     DEF TypeOK, ScanRetryQueue, WorkerPc, Moving, Slotless
<1>. QED BY <1>2, MysqlFrame, RedisFrame, JobsFrame DEF TypeOK, ScanRetryQueue

LEMMA InitTypeOK == Init => TypeOK
<1>. SUFFICES ASSUME Init PROVE TypeOK
  OBVIOUS
<1>1. MysqlOK /\ RedisOK
  BY SwitchAssumption DEF Init, MysqlOK, RedisOK, CampaignStatus, RowStatus
<1>2. EngineOK
  BY DEF Init, EngineOK, WorkerPc
<1>3. JobsOK
  BY DEF Init, JobsOK, JobPc
<1>. QED BY <1>1, <1>2, <1>3 DEF Init, TypeOK

LEMMA NextTypeOK == ASSUME TypeOK, [Next]_vars PROVE TypeOK'
<1>1. ASSUME NEW c \in Clients, Request(c) \/ Handler(c) \/ Abandon(c) PROVE TypeOK'
  BY <1>1, RequestTypeOK, HandlerTypeOK
<1>2. ASSUME NEW j \in Jobs, PageFails(j) \/ EnqueueFails(j) PROVE TypeOK'
  BY <1>2, EnqueueTypeOK
<1>3. CASE RecoverTick \/ EnqueueCampaign(Recovery) \/ ScanRetryQueue \/ Crash
  BY <1>3, RecoverTypeOK, RetryScanTypeOK, CrashTypeOK
<1>4. ASSUME NEW w \in Workers,
             Queueing(w) \/ Process(w) \/ AcquirePermit(w) \/ Send(w) \/ Disturb(w)
      PROVE  TypeOK'
  BY <1>4, QueueingTypeOK, ProcessTypeOK DEF Disturb
<1>5. CASE UNCHANGED vars
  BY <1>5, MysqlFrame, RedisFrame, EngineFrame, JobsFrame
     DEF TypeOK, vars, mysql, redis, engine, jobs
<1>. QED BY <1>1, <1>2, <1>3, <1>4, <1>5 DEF Next

\* In every reachable state each variable has the shape the schema, the Redis
\* values and the tasks' local variables give it; in particular no worker is at
\* a step that needs a message without having one, and no retry carries more
\* tries than MAX_RETRIES (process_single_message, requeue_with_retry).
THEOREM TypeCorrect == Spec => []TypeOK
BY InitTypeOK, NextTypeOK, PTL DEF Spec

-----------------------------------------------------------------------------
(* Nothing is reported sent that was not delivered                          *)

\* Between the answer of the bridge and the two writes that report it only the
\* worker knows of the delivery: SentWasDelivered needs this to be inductive.
Reported == \A w \in Workers : wpc[w] \in {"sent", "log"} => delivered[cur[w].rcp] > 0

SentInv == TypeOK /\ SentWasDelivered /\ Reported

\* A step that delivers nothing, reports no recipient anew and takes no worker to
\* the two writes keeps the invariant.
LEMMA SentQuiet ==
  ASSUME SentInv, TypeOK', delivered' = delivered,
         \A r \in Recipients : AlreadySent(r)' => AlreadySent(r),
         \A w \in Workers : wpc'[w] \in {"sent", "log"}
                              => wpc[w] \in {"sent", "log"} /\ cur'[w] = cur[w]
  PROVE  SentInv'
BY DEF SentInv, SentWasDelivered, Reported

\* What another worker's step, or one that only touches the queues, leaves alone.
LEMMA SentRows ==
  ASSUME UNCHANGED <<rcp, logged>>
  PROVE  \A r \in Recipients : AlreadySent(r)' => AlreadySent(r)
BY DEF AlreadySent

LEMMA DeliverGrows ==
  ASSUME TypeOK, NEW r \in Recipients, Deliver(r)
  PROVE  /\ delivered'[r] > 0
         /\ \A q \in Recipients : delivered[q] > 0 => delivered'[q] > 0
BY BoundAssumption DEF TypeOK, Deliver

LEMMA RequestSent ==
  ASSUME SentInv, TypeOK',
         \/ \E c \in Clients : Request(c) \/ Handler(c) \/ Abandon(c)
         \/ \E j \in Jobs : PageFails(j) \/ EnqueueFails(j)
         \/ RecoverTick \/ EnqueueCampaign(Recovery)
  PROVE  SentInv'
<1>1. UNCHANGED <<engine, delivered>>
  BY DEF Request, Handler, Abandon, EnqueueCampaign, StartRead, PauseRead, ResetRead,
         EditStatus, AddRecipient, DeleteRecipient, DeleteAllRows, DeleteRows, Restore,
         Validate, Launch, PauseTx, PurgeAccount, PurgeGlobal, PurgeRetry, ResetRows,
         ResetStatus, DeleteCampaign, ScanAccount, ScanGlobal, ScanRetry, ScanKeys,
         ReadPage, EnqueueAccount, EnqueueGlobal, EnqueueNothing, PageFails,
         EnqueueFails, RecoverTick
<1>2. \A r \in Recipients : AlreadySent(r)' => AlreadySent(r)
  BY DEF SentInv, TypeOK, MysqlOK, AlreadySent, Exists, mysql,
         Request, Handler, Abandon, EnqueueCampaign, StartRead, PauseRead, ResetRead,
         EditStatus, AddRecipient, DeleteRecipient, DeleteAllRows, DeleteRows, Restore,
         Validate, Launch, PauseTx, PurgeAccount, PurgeGlobal, PurgeRetry, ResetRows,
         ResetStatus, DeleteCampaign, ScanAccount, ScanGlobal, ScanRetry, ScanKeys,
         ReadPage, EnqueueAccount, EnqueueGlobal, EnqueueNothing, PageFails,
         EnqueueFails, RecoverTick
<1>. QED BY <1>1, <1>2, SentQuiet DEF engine

LEMMA WorkerSent ==
  ASSUME SentInv, TypeOK', NEW w \in Workers,
         Queueing(w) \/ Process(w) \/ AcquirePermit(w) \/ Send(w) \/ Disturb(w)
  PROVE  SentInv'
<1>. USE DEF SentInv, Target
<1>. DEFINE NotReporting ==
       \A v \in Workers : wpc'[v] \in {"sent", "log"}
                            => wpc[v] \in {"sent", "log"} /\ cur'[v] = cur[v]
<1>1. CASE Queueing(w) \/ MoveFails(w) \/ CheckCampaign(w)
  <2>1. UNCHANGED <<mysql, delivered>>
    BY <1>1 DEF Queueing, MoveAccount, MoveGlobal, MoveDone, FetchPop, FetchNothing,
                Unlink, MoveFails, CheckCampaign
  <2>2. NotReporting
    BY <1>1 DEF TypeOK, EngineOK, WGoto, Queueing, MoveAccount, MoveGlobal, MoveDone,
                FetchPop, FetchNothing, Unlink, MoveFails, CheckCampaign
  <2>. QED BY <2>1, <2>2, SentRows, SentQuiet DEF mysql
<1>2. CASE \/ CheckHistory(w) \/ CheckRow(w) \/ Gate(w) \/ GateRow(w) \/ ErrorGate(w)
           \/ ErrorRow(w) \/ Settle(w) \/ Count(w) \/ AcquirePermit(w) \/ SendError(w)
  <2>1. UNCHANGED <<mysql, delivered>>
    BY <1>2 DEF CheckHistory, CheckRow, Gate, GateRow, ErrorGate, ErrorRow, Settle,
                Count, Check, AcquirePermit, SendError
  <2>2. NotReporting
    BY <1>2 DEF TypeOK, EngineOK, WGoto, Finish, CheckHistory, CheckRow, Gate, GateRow,
                ErrorGate, ErrorRow, Settle, Count, Check, AcquirePermit, SendError
  <2>. QED BY <2>1, <2>2, SentRows, SentQuiet DEF mysql
<1>3. CASE Requeue(w) \/ LimitDrop(w) \/ Drop(w)
  <2>1. UNCHANGED <<mysql, delivered>> /\ Finish(w)
    BY <1>3 DEF Requeue, LimitDrop, Drop, GiveUp
  <2>2. NotReporting
    BY <2>1 DEF TypeOK, EngineOK, Finish, WGoto
  <2>. QED BY <2>1, <2>2, SentRows, SentQuiet DEF mysql
<1>4. CASE Fail(w) \/ Complete(w) \/ MediaError(w)
  <2>1. \A r \in Recipients : AlreadySent(r)' => AlreadySent(r)
    BY <1>4 DEF TypeOK, MysqlOK, AlreadySent, SetRow, Fail, Complete, MediaError
  <2>2. NotReporting
    BY <1>4 DEF TypeOK, EngineOK, Finish, WGoto, Fail, Complete, MediaError
  <2>3. delivered' = delivered
    BY <1>4 DEF Fail, Complete, MediaError
  <2>. QED BY <2>1, <2>2, <2>3, SentQuiet
<1>5. CASE SendOk(w) \/ SendLate(w)
  <2>1. Deliver(Target(w)) /\ UNCHANGED <<mysql, cur>>
    BY <1>5 DEF SendOk, SendLate
  <2>2. Target(w) \in Recipients
    BY <1>5 DEF TypeOK, EngineOK, Message, SendOk, SendLate
  <2>3. /\ delivered'[Target(w)] > 0
        /\ \A q \in Recipients : delivered[q] > 0 => delivered'[q] > 0
    BY <2>1, <2>2, DeliverGrows
  <2>4. \A v \in Workers : wpc'[v] \in {"sent", "log"} => cur[v].rcp \in Recipients
    BY <2>1 DEF TypeOK, EngineOK, Message
  <2>5. Reported'
    BY <1>5, <2>1, <2>3, <2>4 DEF TypeOK, EngineOK, Reported, SendOk, SendLate, WGoto
  <2>6. SentWasDelivered'
    BY <2>1, <2>3, SentRows DEF mysql, SentWasDelivered
  <2>. QED BY <2>5, <2>6
<1>6. CASE MarkSent(w) \/ LogSuccess(w)
  <2>1. delivered' = delivered /\ cur' = cur /\ delivered[Target(w)] > 0
    BY <1>6 DEF MarkSent, LogSuccess, Reported
  <2>2. Reported'
    BY <1>6, <2>1 DEF TypeOK, EngineOK, Reported, MarkSent, LogSuccess, WGoto
  <2>3. \A r \in Recipients : AlreadySent(r)' => AlreadySent(r) \/ r = Target(w)
    BY <1>6 DEF TypeOK, MysqlOK, AlreadySent, MarkSent, LogSuccess, SetRow
  <2>4. SentWasDelivered'
    BY <2>1, <2>3 DEF SentWasDelivered
  <2>. QED BY <2>2, <2>4
<1>. QED BY <1>1, <1>2, <1>3, <1>4, <1>5, <1>6 DEF Process, Send, Disturb

LEMMA NextSent == ASSUME SentInv, [Next]_vars PROVE SentInv'
<1>. TypeOK'
  BY NextTypeOK DEF SentInv
<1>1. CASE ScanRetryQueue \/ Crash \/ UNCHANGED vars
  <2>1. UNCHANGED <<mysql, delivered>>
    BY <1>1 DEF ScanRetryQueue, Crash, vars, mysql
  <2>2. \A w \in Workers : wpc'[w] \in {"sent", "log"}
                              => wpc[w] \in {"sent", "log"} /\ cur'[w] = cur[w]
    BY <1>1, WorkerAssumption
       DEF SentInv, TypeOK, EngineOK, ScanRetryQueue, Crash, vars, WGoto
  <2>. QED BY <2>1, <2>2, SentRows, SentQuiet DEF mysql
<1>. QED BY <1>1, RequestSent, WorkerSent DEF Next

\* Whatever number of workers, requests, restarts and failed writes there is: a
\* row marked 'sent' and a 'success' in wa_dispatch_logs belong to a recipient
\* whose phone got the message (process_single_message).
THEOREM SentIsDelivered == Spec => []SentWasDelivered
<1>1. Init => SentInv
  BY InitTypeOK DEF Init, SentInv, SentWasDelivered, AlreadySent, Reported
<1>2. SentInv => SentWasDelivered
  BY DEF SentInv
<1>. QED BY <1>1, <1>2, NextSent, PTL DEF Spec

-----------------------------------------------------------------------------
(* A pause shuts the gate                                                   *)

\* While the campaign is paused no row is pending, unless a start or a reset has
\* already given the rows back and is about to overwrite the status.
PausedRows == campaign = "paused" => Resuming \/ Pending = {}

PauseInv == TypeOK /\ PausedRows

\* What the theorem is about: no handler dies between two of its writes, none
\* turns the client down half way, and nobody adds rows to a paused campaign or
\* writes its status by hand.
UndisturbedPause ==
  Faults \cap {"offline", "cancel", "crash"} = {} /\ Ops \cap {"add", "edit"} = {}

\* A step that makes no row pending, pauses nothing and takes no handler away
\* from where it resumes the campaign.
LEMMA PauseQuiet ==
  ASSUME PausedRows, Pending' \subseteq Pending, campaign' = campaign,
         \A c \in Clients : jpc[c] \in {"validate", "launch", "resetStatus"}
                              => jpc'[c] = jpc[c]
  PROVE  PausedRows'
BY DEF PausedRows, Resuming

LEMMA RequestPause ==
  ASSUME PauseInv, UndisturbedPause, NEW c \in Clients,
         Request(c) \/ Handler(c) \/ Abandon(c)
  PROVE  PausedRows'
<1>. c \in Jobs /\ Clients \subseteq Jobs
  BY DEF Jobs
<1>. USE DEF PauseInv, TypeOK, MysqlOK, JobsOK, JGoto
<1>1. CASE Restore(c) \/ ResetRows(c)
  <2>1. jpc'[c] \in {"validate", "resetStatus"}
    BY <1>1 DEF Restore, ResetRows
  <2>. QED BY <2>1 DEF PausedRows, Resuming
<1>2. CASE PauseTx(c)
  <2>1. Pending' = {}
    BY <1>2 DEF PauseTx, Pending
  <2>. QED BY <2>1 DEF PausedRows
<1>3. CASE Launch(c) \/ ResetStatus(c) \/ DeleteCampaign(c)
  <2>1. campaign' # "paused"
    BY <1>3 DEF Launch, ResetStatus, DeleteCampaign
  <2>. QED BY <2>1 DEF PausedRows
<1>4. CASE Validate(c)
  <2>1. CASE Pending = {}
    BY <1>4, <2>1 DEF Validate, PausedRows, Pending, mysql
  <2>2. CASE jpc'[c] = "launch"
    BY <1>4, <2>2 DEF Validate, PausedRows, Resuming, Pending, mysql
  <2>. QED BY <1>4, <2>1, <2>2 DEF Validate, UndisturbedPause
<1>5. CASE StartRead(c) \/ PauseRead(c) \/ ResetRead(c)
  <2>1. UNCHANGED mysql
    BY <1>5 DEF StartRead, PauseRead, ResetRead
  <2>2. \A d \in Clients : jpc[d] \in {"validate", "launch", "resetStatus"}
                              => jpc'[d] = jpc[d]
    BY <1>5 DEF StartRead, PauseRead, ResetRead
  <2>. QED BY <2>1, <2>2, PauseQuiet DEF mysql, Pending
<1>6. CASE DeleteRecipient(c) \/ DeleteAllRows(c)
  <2>1. Pending' \subseteq Pending
    BY <1>6 DEF DeleteRecipient, DeleteAllRows, DeleteRows, Pending
  <2>2. \A d \in Clients : jpc[d] \in {"validate", "launch", "resetStatus"}
                              => jpc'[d] = jpc[d]
    BY <1>6 DEF DeleteRecipient, DeleteAllRows
  <2>. QED BY <1>6, <2>1, <2>2, PauseQuiet DEF DeleteRecipient, DeleteAllRows
<1>7. CASE PurgeAccount(c) \/ PurgeGlobal(c) \/ PurgeRetry(c)
  <2>1. UNCHANGED mysql
    BY <1>7 DEF PurgeAccount, PurgeGlobal, PurgeRetry
  <2>2. \A d \in Clients : jpc[d] \in {"validate", "launch", "resetStatus"}
                              => jpc'[d] = jpc[d]
    BY <1>7 DEF PurgeAccount, PurgeGlobal, PurgeRetry
  <2>. QED BY <2>1, <2>2, PauseQuiet DEF mysql, Pending
<1>8. CASE EditStatus(c) \/ AddRecipient(c) \/ Abandon(c)
  BY <1>8 DEF UndisturbedPause, EditStatus, AddRecipient, Abandon
<1>9. ASSUME EnqueueCampaign(c) PROVE PausedRows'
  <2>1. UNCHANGED mysql
    BY <1>9 DEF EnqueueCampaign, ScanAccount, ScanGlobal, ScanRetry, ScanKeys, ReadPage,
                EnqueueAccount, EnqueueGlobal, EnqueueNothing
  <2>2. \A d \in Clients : jpc[d] \in {"validate", "launch", "resetStatus"}
                              => jpc'[d] = jpc[d]
    BY <1>9 DEF EnqueueCampaign, ScanAccount, ScanGlobal, ScanRetry, ScanKeys, ReadPage,
                EnqueueAccount, EnqueueGlobal, EnqueueNothing, NextRow, JReset
  <2>. QED BY <2>1, <2>2, PauseQuiet DEF mysql, Pending
<1>. QED BY <1>1, <1>2, <1>3, <1>4, <1>5, <1>6, <1>7, <1>8, <1>9 DEF Request, Handler

LEMMA TaskPause ==
  ASSUME PauseInv, UndisturbedPause,
         \/ \E j \in Jobs : PageFails(j) \/ EnqueueFails(j)
         \/ RecoverTick \/ EnqueueCampaign(Recovery) \/ ScanRetryQueue \/ Crash
         \/ UNCHANGED vars
  PROVE  PausedRows'
<1>1. UNCHANGED mysql
  BY DEF EnqueueCampaign, ScanAccount, ScanGlobal, ScanRetry, ScanKeys, ReadPage,
         EnqueueAccount, EnqueueGlobal, EnqueueNothing, PageFails, EnqueueFails,
         RecoverTick, ScanRetryQueue, Crash, vars, mysql
<1>2. \A d \in Clients : jpc[d] \in {"validate", "launch", "resetStatus"}
                            => jpc'[d] = jpc[d]
  BY JobAssumption
     DEF PauseInv, TypeOK, JobsOK, JGoto, Jobs, UndisturbedPause, EnqueueCampaign,
         ScanAccount, ScanGlobal, ScanRetry, ScanKeys, ReadPage, EnqueueAccount,
         EnqueueGlobal, EnqueueNothing, NextRow, JReset, PageFails, EnqueueFails,
         RecoverTick, ScanRetryQueue, Crash, vars, jobs
<1>. QED BY <1>1, <1>2, PauseQuiet DEF PauseInv, mysql, Pending

\* No worker makes a row pending or pauses the campaign.
LEMMA WorkerRows ==
  ASSUME TypeOK, NEW w \in Workers,
         Queueing(w) \/ Process(w) \/ AcquirePermit(w) \/ Send(w) \/ Disturb(w)
  PROVE  /\ \A r \in Recipients : rcp'[r] \in {rcp[r], "sent", "failed"}
         /\ campaign' = campaign \/ (Complete(w) /\ campaign' = "completed")
         /\ jpc' = jpc
BY DEF TypeOK, MysqlOK, mysql, jobs, Target, SetRow, Check, GiveUp, Queueing, Process,
       Send, Disturb, Drop, MoveAccount, MoveGlobal, MoveDone, FetchPop, FetchNothing,
       Unlink, MoveFails, CheckCampaign, CheckHistory, CheckRow, Gate, GateRow,
       ErrorGate, ErrorRow, Settle, Count, AcquirePermit, SendOk, SendError, SendLate,
       MarkSent, LogSuccess, Requeue, Fail, Complete, MediaError, LimitDrop

LEMMA WorkerPause ==
  ASSUME PauseInv, NEW w \in Workers,
         Queueing(w) \/ Process(w) \/ AcquirePermit(w) \/ Send(w) \/ Disturb(w)
  PROVE  PausedRows'
<1>1. /\ \A r \in Recipients : rcp'[r] \in {rcp[r], "sent", "failed"}
      /\ campaign' = campaign \/ campaign' = "completed"
      /\ jpc' = jpc
  BY WorkerRows DEF PauseInv
<1>. QED BY <1>1 DEF PauseInv, PausedRows, Pending, Resuming

LEMMA NextPause == ASSUME PauseInv, UndisturbedPause, [Next]_vars PROVE PauseInv'
BY NextTypeOK, RequestPause, TaskPause, WorkerPause DEF PauseInv, Next

\* Only the second query of message_can_continue lets a worker through.
LEMMA OnlyGateRow ==
  ASSUME TypeOK, [Next]_vars, NEW w \in Workers,
         wpc[w] = "gateRow", wpc'[w] = "ready"
  PROVE  GateRow(w)
<1>1. ASSUME NEW v \in Workers,
             Queueing(v) \/ Process(v) \/ AcquirePermit(v) \/ Send(v) \/ Disturb(v)
      PROVE  GateRow(w)
  <2>1. CASE Queueing(v) \/ MoveFails(v)
    BY <2>1 DEF TypeOK, EngineOK, WGoto, Queueing, MoveAccount, MoveGlobal, MoveDone,
                FetchPop, FetchNothing, Unlink, MoveFails
  <2>2. CASE Process(v)
    BY <2>2 DEF TypeOK, EngineOK, WGoto, Finish, Check, Process, CheckCampaign,
                CheckHistory, CheckRow, Gate, GateRow, ErrorGate, ErrorRow, Settle,
                Count, MarkSent, LogSuccess, Requeue, Fail, Complete
  <2>3. CASE \/ AcquirePermit(v) \/ Send(v) \/ LimitDrop(v) \/ MediaError(v) \/ Drop(v)
    BY <2>3 DEF TypeOK, EngineOK, WGoto, Finish, GiveUp, AcquirePermit, Send, SendOk,
                SendError, SendLate, LimitDrop, MediaError, Drop
  <2>. QED BY <1>1, <2>1, <2>2, <2>3 DEF Disturb
<1>2. CASE \/ \E c \in Clients : Request(c) \/ Handler(c) \/ Abandon(c)
           \/ \E j \in Jobs : PageFails(j) \/ EnqueueFails(j)
           \/ RecoverTick \/ EnqueueCampaign(Recovery)
  <2>1. wpc' = wpc
    BY <1>2 DEF engine, Request, Handler, Abandon, EnqueueCampaign, StartRead, PauseRead,
         ResetRead, EditStatus, AddRecipient, DeleteRecipient, DeleteAllRows, DeleteRows,
         Restore, Validate, Launch, PauseTx, PurgeAccount, PurgeGlobal, PurgeRetry,
         ResetRows, ResetStatus, DeleteCampaign, ScanAccount, ScanGlobal, ScanRetry,
         ScanKeys, ReadPage, EnqueueAccount, EnqueueGlobal, EnqueueNothing, PageFails,
         EnqueueFails, RecoverTick
  <2>. QED BY <2>1
<1>3. CASE ScanRetryQueue \/ Crash \/ UNCHANGED vars
  BY <1>3 DEF TypeOK, EngineOK, WGoto, ScanRetryQueue, Crash, vars
<1>. QED BY <1>1, <1>2, <1>3 DEF Next

LEMMA GateStep ==
  ASSUME PauseInv, [Next]_vars
  PROVE  [\A w \in Workers :
            (wpc[w] = "gateRow" /\ wpc'[w] = "ready")
              => (campaign = "paused" => Resuming)]_vars
<1>. SUFFICES ASSUME NEW w \in Workers, wpc[w] = "gateRow", wpc'[w] = "ready",
                     campaign = "paused"
              PROVE  Resuming
  OBVIOUS
<1>1. GateRow(w)
  BY OnlyGateRow DEF PauseInv
<1>2. cur[w].rcp \in Recipients
  BY <1>1 DEF PauseInv, TypeOK, EngineOK, Message, GateRow, Check
<1>3. rcp[cur[w].rcp] = "pending"
  BY <1>1 DEF PauseInv, TypeOK, EngineOK, GateRow, Check, Target, Finish, WGoto
<1>. QED BY <1>2, <1>3 DEF PauseInv, PausedRows, Pending

\* pause_wa_campaign holds back every message that has not passed the last gate,
\* though the gate is two queries: the transaction takes the rows with it.  The
\* assumption names what can undo that.
THEOREM PauseShutsTheGate == ASSUME UndisturbedPause PROVE Spec => GateShut
<1>1. Init => PauseInv
  BY InitTypeOK DEF Init, PauseInv, PausedRows
<1>2. PauseInv /\ [Next]_vars => PauseInv'
  BY NextPause
<1>3. PauseInv /\ [Next]_vars
        => [\A w \in Workers :
              (wpc[w] = "gateRow" /\ wpc'[w] = "ready")
                => (campaign = "paused" => Resuming)]_vars
  BY GateStep
<1>. QED BY <1>1, <1>2, <1>3, PTL DEF Spec, GateShut

-----------------------------------------------------------------------------
(* A completed campaign is settled                                          *)

\* What the theorem is about: nobody pauses, resets, extends or edits the
\* campaign.  It may be started by several requests, deleted, and recovered, and
\* everything may fail.
LeftAlone == Ops \cap {"pause", "reset", "add", "edit"} = {}

\* No row can become pending again, so once a worker has counted none, none is.
NobodyReturns ==
  /\ \A r \in Recipients : rcp[r] # "paused"
  /\ \A c \in Clients : jpc[c] \notin {"pauseTx", "resetRows", "resetStatus"}

CountedNone ==
  (campaign = "completed" \/ \E w \in Workers : wpc[w] = "complete") => Pending = {}

SettledInv == TypeOK /\ NobodyReturns /\ CountedNone

LEMMA RequestSettled ==
  ASSUME SettledInv, LeftAlone, NEW c \in Clients,
         Request(c) \/ Handler(c) \/ Abandon(c)
  PROVE  NobodyReturns' /\ CountedNone'
<1>. c \in Jobs /\ Clients \subseteq Jobs
  BY DEF Jobs
<1>. USE DEF SettledInv, TypeOK, MysqlOK, JobsOK
<1>1. wpc' = wpc
  BY DEF engine, Request, Handler, Abandon, EnqueueCampaign, StartRead, PauseRead,
         ResetRead, EditStatus, AddRecipient, DeleteRecipient, DeleteAllRows, DeleteRows,
         Restore, Validate, Launch, PauseTx, PurgeAccount, PurgeGlobal, PurgeRetry,
         ResetRows, ResetStatus, DeleteCampaign, ScanAccount, ScanGlobal, ScanRetry,
         ScanKeys, ReadPage, EnqueueAccount, EnqueueGlobal, EnqueueNothing
<1>2. /\ \A r \in Recipients : rcp'[r] \in {rcp[r], "deleted"}
      /\ campaign' \in {campaign, "running", "deleted"}
  BY DEF LeftAlone, NobodyReturns, mysql, Request, Handler, Abandon, EnqueueCampaign,
         StartRead, PauseRead, ResetRead, EditStatus, AddRecipient, DeleteRecipient,
         DeleteAllRows, DeleteRows, Restore, Validate, Launch, PauseTx, PurgeAccount,
         PurgeGlobal, PurgeRetry, ResetRows, ResetStatus, DeleteCampaign, ScanAccount,
         ScanGlobal, ScanRetry, ScanKeys, ReadPage, EnqueueAccount, EnqueueGlobal,
         EnqueueNothing
<1>3. \A d \in Clients : jpc'[d] \notin {"pauseTx", "resetRows", "resetStatus"}
  <2>1. CASE Request(c)
    BY <2>1 DEF LeftAlone, NobodyReturns, JGoto, jobs, Request, StartRead, PauseRead,
         ResetRead, EditStatus, AddRecipient, DeleteRecipient, DeleteAllRows
  <2>2. CASE EnqueueCampaign(c) \/ Abandon(c)
    BY <2>2 DEF NobodyReturns, JGoto, JReset, NextRow, EnqueueCampaign, Abandon,
         ScanAccount, ScanGlobal, ScanRetry, ScanKeys, ReadPage, EnqueueAccount,
         EnqueueGlobal, EnqueueNothing
  <2>3. CASE Handler(c) /\ ~EnqueueCampaign(c)
    BY <2>3 DEF NobodyReturns, JGoto, Handler, Restore, Validate, Launch, PauseTx,
         PurgeAccount, PurgeGlobal, PurgeRetry, ResetRows, ResetStatus, DeleteCampaign
  <2>. QED BY <2>1, <2>2, <2>3
<1>. QED BY <1>1, <1>2, <1>3 DEF NobodyReturns, CountedNone, Pending

LEMMA TaskSettled ==
  ASSUME SettledInv,
         \/ \E j \in Jobs : PageFails(j) \/ EnqueueFails(j)
         \/ RecoverTick \/ EnqueueCampaign(Recovery) \/ ScanRetryQueue \/ Crash
         \/ UNCHANGED vars
  PROVE  NobodyReturns' /\ CountedNone'
<1>. USE DEF SettledInv, TypeOK, EngineOK, JobsOK
<1>1. UNCHANGED mysql
  BY DEF EnqueueCampaign, ScanAccount, ScanGlobal, ScanRetry, ScanKeys, ReadPage,
         EnqueueAccount, EnqueueGlobal, EnqueueNothing, PageFails, EnqueueFails,
         RecoverTick, ScanRetryQueue, Crash, vars, mysql
<1>2. \A w \in Workers : wpc'[w] = "complete" => wpc[w] = "complete"
  BY DEF engine, WGoto, EnqueueCampaign, ScanAccount, ScanGlobal, ScanRetry, ScanKeys,
         ReadPage, EnqueueAccount, EnqueueGlobal, EnqueueNothing, PageFails,
         EnqueueFails, RecoverTick, ScanRetryQueue, Crash, vars
<1>3. \A c \in Clients : jpc'[c] \notin {"pauseTx", "resetRows", "resetStatus"}
  BY DEF NobodyReturns, JGoto, jobs, Jobs, EnqueueCampaign, ScanAccount, ScanGlobal,
         ScanRetry, ScanKeys, ReadPage, EnqueueAccount, EnqueueGlobal, EnqueueNothing,
         NextRow, JReset, PageFails, EnqueueFails, RecoverTick, ScanRetryQueue, Crash,
         vars
<1>. QED BY <1>1, <1>2, <1>3 DEF NobodyReturns, CountedNone, Pending, mysql

LEMMA WorkerSettled ==
  ASSUME SettledInv, NEW w \in Workers,
         Queueing(w) \/ Process(w) \/ AcquirePermit(w) \/ Send(w) \/ Disturb(w)
  PROVE  NobodyReturns' /\ CountedNone'
<1>1. /\ \A r \in Recipients : rcp'[r] \in {rcp[r], "sent", "failed"}
      /\ campaign' = campaign \/ (Complete(w) /\ campaign' = "completed")
      /\ jpc' = jpc
  BY WorkerRows DEF SettledInv
<1>2. \A v \in Workers : wpc'[v] = "complete" => wpc[v] = "complete" \/ Pending = {}
  <2>. USE DEF SettledInv, TypeOK, EngineOK, WGoto
  <2>1. CASE Queueing(w) \/ MoveFails(w)
    BY <2>1 DEF Queueing, MoveAccount, MoveGlobal, MoveDone, FetchPop, FetchNothing,
                Unlink, MoveFails
  <2>2. CASE Process(w)
    BY <2>2 DEF Finish, Check, Process, CheckCampaign, CheckHistory, CheckRow, Gate,
                GateRow, ErrorGate, ErrorRow, Settle, Count, MarkSent, LogSuccess,
                Requeue, Fail, Complete
  <2>3. CASE \/ AcquirePermit(w) \/ Send(w) \/ LimitDrop(w) \/ MediaError(w) \/ Drop(w)
    BY <2>3 DEF Finish, GiveUp, AcquirePermit, Send, SendOk, SendError, SendLate,
                LimitDrop, MediaError, Drop
  <2>. QED BY <2>1, <2>2, <2>3 DEF Disturb
<1>3. campaign' = "completed" => campaign = "completed" \/ Pending = {}
  BY <1>1 DEF SettledInv, CountedNone, Complete
<1>. QED BY <1>1, <1>2, <1>3 DEF SettledInv, NobodyReturns, CountedNone, Pending

\* check_and_update_campaign_completion reads the status, counts the pending rows
\* and writes "completed" in three queries.  As long as no row can become pending
\* in between that is safe, whatever fails and whoever else sends; a pause in between
\* is enough to break it.
THEOREM CompletionIsSafe == ASSUME LeftAlone PROVE Spec => []CompletedIsSettled
<1>1. Init => SettledInv
  BY InitTypeOK DEF Init, SettledInv, NobodyReturns, CountedNone, Jobs
<1>2. SettledInv /\ [Next]_vars => SettledInv'
  BY NextTypeOK, RequestSettled, TaskSettled, WorkerSettled DEF SettledInv, Next
<1>3. SettledInv => CompletedIsSettled
  BY DEF SettledInv, NobodyReturns, CountedNone, CompletedIsSettled, Pending
<1>. QED BY <1>1, <1>2, <1>3, PTL DEF Spec

-----------------------------------------------------------------------------
(* No message is left where nobody looks                                    *)

\* What the theorem is about: Redis answers, no task dies between two commands,
\* and nobody pauses, so that nothing is purged while it is being enqueued.
UndisturbedQueues ==
  Faults \cap {"redis", "cancel", "crash"} = {} /\ "pause" \notin Ops

NoPurge == \A c \in Clients :
  jpc[c] \notin {"pauseTx", "purgeAccount", "purgeGlobal", "purgeRetry"}

GhostInv == TypeOK /\ NoPurge /\ NoGhost

\* A step that adds nothing to the accounts' queues, takes nothing from the global
\* one and leaves every half-done transfer as it is, or completes it.
LEMMA GhostQuiet ==
  ASSUME TypeOK, NoGhost, accountQ' \subseteq accountQ, globalQ \subseteq globalQ',
         \A j \in Jobs : \/ adding'[j] = adding[j]
                         \/ adding[j] \in globalQ' \cup {NoMessage},
         \A v \in Workers : wpc[v] \in {"moveGlobal", "unlink"}
           => wpc'[v] = wpc[v] /\ cur'[v] = cur[v] /\ batch'[v] = batch[v]
  PROVE  NoGhost'
BY MessageAssumption DEF TypeOK, RedisOK, NoGhost

\* The queueing steps of a job.
LEMMA EnqueueGhost ==
  ASSUME GhostInv, UndisturbedQueues, NEW j \in Jobs,
         EnqueueCampaign(j) \/ PageFails(j) \/ EnqueueFails(j)
  PROVE  NoGhost'
<1>. USE DEF GhostInv, TypeOK, JobsOK
<1>1. CASE EnqueueAccount(j)
  <2>1. PICK m : accountQ' = accountQ \cup {m} /\ adding' = [adding EXCEPT ![j] = m]
    BY <1>1 DEF EnqueueAccount
  <2>2. adding[j] = NoMessage
    BY <1>1 DEF EnqueueAccount
  <2>3. UNCHANGED <<globalQ, engine>>
    BY <1>1 DEF EnqueueAccount
  <2>. QED BY <2>1, <2>2, <2>3, MessageAssumption DEF RedisOK, NoGhost, engine
<1>2. CASE EnqueueGlobal(j)
  <2>1. UNCHANGED <<accountQ, engine>> /\ globalQ' = globalQ \cup {adding[j]}
    BY <1>2 DEF EnqueueGlobal
  <2>2. \A i \in Jobs : adding'[i] = adding[i] \/ adding[i] \in globalQ' \cup {NoMessage}
    BY <1>2, <2>1 DEF EnqueueGlobal, NextRow, JReset
  <2>. QED BY <2>1, <2>2, GhostQuiet DEF engine
<1>3. CASE \/ ScanAccount(j) \/ ScanGlobal(j) \/ ScanRetry(j) \/ ReadPage(j)
           \/ EnqueueNothing(j) \/ PageFails(j)
  <2>1. UNCHANGED <<redis, engine>>
    BY <1>3 DEF ScanAccount, ScanGlobal, ScanRetry, ScanKeys, ReadPage, EnqueueNothing,
                PageFails
  <2>2. \A i \in Jobs : adding'[i] = adding[i] \/ adding[i] = NoMessage
    BY <1>3 DEF ScanAccount, ScanGlobal, ScanRetry, ScanKeys, ReadPage, EnqueueNothing,
                PageFails, NextRow, JReset
  <2>. QED BY <2>1, <2>2, GhostQuiet DEF redis, engine
<1>. QED BY <1>1, <1>2, <1>3 DEF EnqueueCampaign, EnqueueFails, UndisturbedQueues

LEMMA RequestGhost ==
  ASSUME GhostInv, UndisturbedQueues, NEW c \in Clients,
         Request(c) \/ Handler(c) \/ Abandon(c)
  PROVE  NoGhost' /\ NoPurge'
<1>. c \in Jobs /\ Clients \subseteq Jobs
  BY DEF Jobs
<1>. USE DEF GhostInv, TypeOK, JobsOK, UndisturbedQueues
<1>1. CASE EnqueueCampaign(c)
  <2>1. NoPurge'
    BY <1>1 DEF NoPurge, JGoto, JReset, NextRow, EnqueueCampaign, ScanAccount,
         ScanGlobal, ScanRetry, ScanKeys, ReadPage, EnqueueAccount, EnqueueGlobal,
         EnqueueNothing
  <2>. QED BY <1>1, <2>1, EnqueueGhost
<1>2. CASE Request(c)
  <2>1. UNCHANGED <<redis, engine, adding>>
    BY <1>2 DEF jobs, Request, StartRead, PauseRead, ResetRead, EditStatus, AddRecipient,
         DeleteRecipient, DeleteAllRows, DeleteRows, engine
  <2>2. NoPurge'
    BY <1>2 DEF NoPurge, JGoto, jobs, Request, StartRead, PauseRead, ResetRead,
         EditStatus, AddRecipient, DeleteRecipient, DeleteAllRows
  <2>. QED BY <2>1, <2>2, GhostQuiet DEF redis, engine
<1>3. CASE Handler(c) /\ ~EnqueueCampaign(c)
  <2>1. UNCHANGED <<redis, engine, adding>>
    BY <1>3 DEF NoPurge, Handler, Restore, Validate, Launch, PauseTx, PurgeAccount,
         PurgeGlobal, PurgeRetry, ResetRows, ResetStatus, DeleteCampaign, DeleteRows
  <2>2. NoPurge'
    BY <1>3 DEF NoPurge, JGoto, Handler, Restore, Validate, Launch, PauseTx,
         PurgeAccount, PurgeGlobal, PurgeRetry, ResetRows, ResetStatus, DeleteCampaign
  <2>. QED BY <2>1, <2>2, GhostQuiet DEF redis, engine
<1>4. ~Abandon(c)
  BY DEF Abandon
<1>. QED BY <1>1, <1>2, <1>3, <1>4

LEMMA TaskGhost ==
  ASSUME GhostInv, UndisturbedQueues,
         \/ \E j \in Jobs : PageFails(j) \/ EnqueueFails(j)
         \/ RecoverTick \/ EnqueueCampaign(Recovery) \/ ScanRetryQueue \/ Crash
         \/ UNCHANGED vars
  PROVE  NoGhost' /\ NoPurge'
<1>. USE DEF GhostInv, TypeOK, JobsOK
<1>1. NoPurge'
  BY DEF NoPurge, JGoto, jobs, Jobs, EnqueueCampaign, ScanAccount, ScanGlobal,
         ScanRetry, ScanKeys, ReadPage, EnqueueAccount, EnqueueGlobal, EnqueueNothing,
         NextRow, JReset, PageFails, EnqueueFails, RecoverTick, ScanRetryQueue, Crash,
         vars
<1>2. CASE RecoverTick \/ ScanRetryQueue \/ UNCHANGED vars
  <2>1. UNCHANGED <<redis, adding>>
    BY <1>2 DEF RecoverTick, ScanRetryQueue, jobs, vars, redis
  <2>2. \A v \in Workers : wpc[v] \in {"moveGlobal", "unlink"}
          => wpc'[v] = wpc[v] /\ cur'[v] = cur[v] /\ batch'[v] = batch[v]
    BY <1>2 DEF EngineOK, WGoto, RecoverTick, ScanRetryQueue, engine, vars
  <2>. QED BY <1>1, <2>1, <2>2, GhostQuiet DEF redis
<1>3. ~Crash
  BY DEF Crash, UndisturbedQueues
<1>4. Recovery \in Jobs
  BY DEF Jobs
<1>. QED BY <1>1, <1>2, <1>3, <1>4, EnqueueGhost

LEMMA WorkerGhost ==
  ASSUME GhostInv, UndisturbedQueues, NEW w \in Workers,
         Queueing(w) \/ Process(w) \/ AcquirePermit(w) \/ Send(w) \/ Disturb(w)
  PROVE  NoGhost' /\ NoPurge'
<1>. USE DEF GhostInv, TypeOK, EngineOK, WGoto
<1>1. NoPurge' /\ adding' = adding
  BY WorkerRows DEF NoPurge, jobs, Target, Check, GiveUp, Queueing, Process, Send,
     Disturb, Drop, MoveAccount, MoveGlobal, MoveDone, FetchPop, FetchNothing, Unlink,
     MoveFails, CheckCampaign, CheckHistory, CheckRow, Gate, GateRow, ErrorGate,
     ErrorRow, Settle, Count, AcquirePermit, SendOk, SendError, SendLate, MarkSent,
     LogSuccess, Requeue, Fail, Complete, MediaError, LimitDrop
<1>2. CASE MoveAccount(w)
  <2>1. PICK m \in batch[w] : accountQ' = accountQ \cup {m} /\ cur' = [cur EXCEPT ![w] = m]
                               /\ batch' = [batch EXCEPT ![w] = @ \ {m}]
    BY <1>2 DEF MoveAccount
  <2>2. wpc'[w] = "moveGlobal" /\ cur'[w] = m
    BY <1>2, <2>1 DEF MoveAccount
  <2>3. \A v \in Workers : wpc[v] \in {"moveGlobal", "unlink"}
          => wpc'[v] = wpc[v] /\ cur'[v] = cur[v] /\ batch'[v] = batch[v]
    BY <1>2, <2>1 DEF MoveAccount
  <2>4. globalQ' = globalQ
    BY <1>2 DEF MoveAccount
  <2>. QED BY <1>1, <2>1, <2>2, <2>3, <2>4 DEF NoGhost
<1>3. CASE MoveGlobal(w)
  BY <1>1, <1>3 DEF NoGhost, MoveGlobal
<1>4. CASE FetchPop(w)
  <2>1. PICK S \in SUBSET globalQ : globalQ' = globalQ \ S /\ batch' = [batch EXCEPT ![w] = S]
    BY <1>4 DEF FetchPop
  <2>2. wpc'[w] = "unlink" /\ batch'[w] = S /\ UNCHANGED <<accountQ, cur>>
    BY <1>4, <2>1 DEF FetchPop
  <2>3. \A v \in Workers : wpc[v] \in {"moveGlobal", "unlink"}
          => wpc'[v] = wpc[v] /\ batch'[v] = batch[v]
    BY <1>4, <2>1 DEF FetchPop
  <2>. QED BY <1>1, <2>1, <2>2, <2>3 DEF NoGhost
<1>5. CASE Unlink(w)
  <2>1. accountQ' = accountQ \ batch[w] /\ UNCHANGED <<globalQ, batch, cur>>
    BY <1>5 DEF Unlink, UndisturbedQueues
  <2>2. \A v \in Workers : v # w => wpc'[v] = wpc[v]
    BY <1>5 DEF Unlink
  <2>. QED BY <1>1, <1>5, <2>1, <2>2 DEF NoGhost, Unlink
<1>6. CASE \/ MoveDone(w) \/ FetchNothing(w) \/ Process(w) \/ AcquirePermit(w)
           \/ Send(w) \/ Disturb(w)
  <2>1. UNCHANGED <<accountQ, globalQ>>
    BY <1>6 DEF redis, Check, GiveUp, MoveDone, FetchNothing, Process, Send, Disturb,
       Drop, MoveFails, CheckCampaign, CheckHistory, CheckRow, Gate, GateRow, ErrorGate,
       ErrorRow, Settle, Count, AcquirePermit, SendOk, SendError, SendLate, MarkSent,
       LogSuccess, Requeue, Fail, Complete, MediaError, LimitDrop
  <2>. DEFINE Kept == \A v \in Workers : wpc[v] \in {"moveGlobal", "unlink"}
                        => wpc'[v] = wpc[v] /\ cur'[v] = cur[v] /\ batch'[v] = batch[v]
  <2>2. CASE Process(w)
    <3>1. Kept
      BY <2>2 DEF Finish, Check, Process, CheckCampaign, CheckHistory, CheckRow, Gate,
                  GateRow, ErrorGate, ErrorRow, Settle, Count, MarkSent, LogSuccess,
                  Requeue, Fail, Complete
    <3>. QED BY <1>1, <2>1, <3>1, GhostQuiet
  <2>3. CASE \/ MoveDone(w) \/ FetchNothing(w) \/ AcquirePermit(w) \/ Send(w) \/ Disturb(w)
    <3>1. Kept
      BY <2>3 DEF UndisturbedQueues, Finish, GiveUp, MoveDone, FetchNothing,
                  AcquirePermit, Send, SendOk, SendError, SendLate, Disturb, MoveFails,
                  LimitDrop, MediaError, Drop
    <3>. QED BY <1>1, <2>1, <3>1, GhostQuiet
  <2>. QED BY <1>6, <2>2, <2>3
<1>. QED BY <1>2, <1>1, <1>3, <1>4, <1>5, <1>6 DEF Queueing

\* RedisManager::enqueue writes a message to two sorted sets and a worker pops it
\* from one and then removes it from the other.  Interleave as they may, no message
\* stays in an account's queue alone, where queued_recipient_ids_for_campaign would
\* find it for ever and no worker would.
THEOREM NothingStranded == ASSUME UndisturbedQueues PROVE Spec => []NoGhost
<1>1. Init => GhostInv
  BY InitTypeOK DEF Init, GhostInv, NoPurge, NoGhost, Jobs
<1>2. GhostInv /\ [Next]_vars => GhostInv'
  BY NextTypeOK, RequestGhost, EnqueueGhost, TaskGhost, WorkerGhost DEF GhostInv, Next
<1>3. GhostInv => NoGhost
  BY DEF GhostInv
<1>. QED BY <1>1, <1>2, <1>3, PTL DEF Spec

-----------------------------------------------------------------------------
(* One holder per message                                                   *)

\* What the theorem is about: nothing fails or dies between the ZADD that puts a
\* retried message back and the ZREM that takes it off the retry queue; after a
\* crash there the message is in both, and is processed twice.
WholeMoves == Faults \cap {"redis", "crash"} = {}

\* No two messages share an id: of two sets, and of one.
Apart(S, T) == \A m \in S, n \in T : m.id # n.id
Alone(S)    == \A m, n \in S : m.id = n.id => m = n

\* What worker 0 has read and not moved yet.
Unmoved ==
  IF wpc[RetryWorker] \in Moving \ {"moveDone"}
  THEN batch[RetryWorker] \cup ({cur[RetryWorker]} \ {NoMessage})
  ELSE IF wpc[RetryWorker] = "moveDone" THEN batch[RetryWorker] ELSE {}

\* What waits for its retry.  Between its ZADD and its ZREM a moved message is on
\* the retry queue still, but no longer waits there.
Parked ==
  Unmoved \cup {m \in retryQ : wpc[RetryWorker] = "moveDone" => m # cur[RetryWorker]}

\* What a job has put into one of the two queues only.
Added(j) == {adding[j]} \ {NoMessage}

\* Only worker 0 moves messages; a worker that looks for work has none; what it
\* works on has left its batch.
WorkersTidy ==
  \A w \in Workers : /\ wpc[w] \in Moving => w = RetryWorker
                     /\ wpc[w] \in {"idle", "fetch"} => batch[w] = {}
                     /\ cur[w] \notin batch[w]

\* OneHolder for all the places a message can be at: it is global, parked, between
\* the two ZADDs of one job or in the hands of one worker.
IdsOnce ==
  /\ Alone(globalQ) /\ Alone(Parked) /\ Apart(globalQ, Parked)
  /\ \A w \in Workers : /\ Alone(InHand(w))
                        /\ Apart(InHand(w), globalQ) /\ Apart(InHand(w), Parked)
  /\ \A v, w \in Workers : v # w => Apart(InHand(v), InHand(w))
  /\ \A j \in Jobs : /\ Apart(Added(j), globalQ) /\ Apart(Added(j), Parked)
                     /\ \A w \in Workers : Apart(Added(j), InHand(w))
  /\ \A i, j \in Jobs : i # j => Apart(Added(i), Added(j))

HoldInv == TypeOK /\ WorkersTidy /\ IdsOnce

\* A step after which there is nothing anywhere that was not there before.
LEMMA HoldQuiet ==
  ASSUME IdsOnce, globalQ' \subseteq globalQ, Parked' \subseteq Parked,
         \A w \in Workers : InHand(w)' \subseteq InHand(w),
         \A j \in Jobs : Added(j)' \subseteq Added(j)
  PROVE  IdsOnce'
BY DEF IdsOnce, Alone, Apart

\* A step after which worker w may hold S, which nobody else may hold any more.
LEMMA HoldTaken ==
  ASSUME IdsOnce, NEW w \in Workers, NEW S, S \subseteq globalQ, globalQ' = globalQ \ S,
         Parked' \subseteq Parked, InHand(w)' \subseteq S,
         \A v \in Workers : v # w => InHand(v)' \subseteq InHand(v),
         \A j \in Jobs : Added(j)' \subseteq Added(j)
  PROVE  IdsOnce'
<1>1. \A T \in {globalQ', S} : Alone(T) /\ Apart(T, Parked')
  BY DEF IdsOnce, Alone, Apart
<1>2. Alone(Parked)' /\ Apart(S, globalQ') /\ Apart(globalQ', Parked')
  BY DEF IdsOnce, Alone, Apart
<1>3. \A v \in Workers : v # w => /\ Alone(InHand(v)') /\ Apart(InHand(v)', globalQ')
                                 /\ Apart(InHand(v)', Parked') /\ Apart(InHand(v)', S)
                                 /\ Apart(S, InHand(v)')
  BY DEF IdsOnce, Alone, Apart
<1>4. \A u, v \in Workers : u # v /\ u # w /\ v # w => Apart(InHand(u)', InHand(v)')
  BY DEF IdsOnce, Apart
<1>5. \A j \in Jobs : /\ Apart(Added(j)', globalQ') /\ Apart(Added(j)', Parked')
                      /\ Apart(Added(j)', S)
                      /\ \A v \in Workers : v # w => Apart(Added(j)', InHand(v)')
  BY DEF IdsOnce, Apart
<1>6. \A i, j \in Jobs : i # j => Apart(Added(i)', Added(j)')
  BY DEF IdsOnce, Apart
<1>7. /\ Alone(InHand(w)') /\ Apart(InHand(w)', globalQ') /\ Apart(InHand(w)', Parked')
      /\ \A v \in Workers : v # w => /\ Apart(InHand(v)', InHand(w)')
                                    /\ Apart(InHand(w)', InHand(v)')
      /\ \A j \in Jobs : Apart(Added(j)', InHand(w)')
  BY <1>1, <1>2, <1>3, <1>5 DEF Alone, Apart
<1>. QED BY <1>1, <1>2, <1>3, <1>4, <1>5, <1>6, <1>7 DEF IdsOnce

\* A step after which m, that w held, is parked under the same id.
LEMMA HoldParked ==
  ASSUME IdsOnce, NEW w \in Workers, NEW m \in InHand(w), NEW n, n.id = m.id,
         globalQ' = globalQ, Parked' \subseteq Parked \cup {n},
         InHand(w)' \subseteq InHand(w) \ {m},
         \A v \in Workers : v # w => InHand(v)' \subseteq InHand(v),
         \A j \in Jobs : Added(j)' \subseteq Added(j)
  PROVE  IdsOnce'
<1>1. Alone(Parked') /\ Apart(globalQ', Parked') /\ Alone(globalQ')
  BY DEF IdsOnce, Alone, Apart
<1>2. \A v \in Workers : /\ Alone(InHand(v)') /\ Apart(InHand(v)', globalQ')
  BY DEF IdsOnce, Alone, Apart
<1>3. \A v \in Workers : v # w => Apart(InHand(v)', Parked')
  BY DEF IdsOnce, Apart
<1>4. Apart(InHand(w)', Parked')
  BY DEF IdsOnce, Alone, Apart
<1>5. \A u, v \in Workers : u # v => Apart(InHand(u)', InHand(v)')
  BY DEF IdsOnce, Apart
<1>6. \A j \in Jobs : /\ Apart(Added(j)', globalQ') /\ Apart(Added(j)', Parked')
                      /\ \A v \in Workers : Apart(Added(j)', InHand(v)')
  BY DEF IdsOnce, Apart
<1>7. \A i, j \in Jobs : i # j => Apart(Added(i)', Added(j)')
  BY DEF IdsOnce, Apart
<1>. QED BY <1>1, <1>2, <1>3, <1>4, <1>5, <1>6, <1>7 DEF IdsOnce

\* Everything that is held has its id taken.
LEMMA HeldIsLive ==
  ASSUME TypeOK, WorkersTidy
  PROVE  /\ globalQ \subseteq Live /\ Parked \subseteq Live
         /\ \A w \in Workers : InHand(w) \subseteq Live
         /\ \A j \in Jobs : Added(j) \subseteq Live
<1>1. /\ globalQ \subseteq Live /\ retryQ \subseteq Live
      /\ \A w \in Workers : batch[w] \cup ({cur[w]} \ {NoMessage}) \subseteq Live
      /\ \A j \in Jobs : {adding[j]} \ {NoMessage} \subseteq Live
  BY DEF Live, Slots
<1>2. Parked \subseteq Live
  BY <1>1, WorkerAssumption DEF Parked, Unmoved
<1>. QED BY <1>1, <1>2 DEF InHand, Added

\* A step that leaves the workers where they are and queues no retry.
LEMMA EngineStays ==
  ASSUME UNCHANGED engine, retryQ' \subseteq retryQ
  PROVE  /\ Parked' \subseteq Parked
         /\ \A w \in Workers : InHand(w)' = InHand(w)
         /\ WorkersTidy => WorkersTidy'
BY DEF engine, Parked, Unmoved, InHand, WorkersTidy

LEMMA EnqueueHold ==
  ASSUME HoldInv, TypeOK', NEW j \in Jobs,
         EnqueueCampaign(j) \/ PageFails(j) \/ EnqueueFails(j)
  PROVE  HoldInv'
<1>. USE DEF HoldInv, TypeOK, JobsOK
<1>1. UNCHANGED <<engine, retryQ>>
  BY DEF EnqueueCampaign, ScanAccount, ScanGlobal, ScanRetry, ScanKeys, ReadPage,
         EnqueueAccount, EnqueueGlobal, EnqueueNothing, PageFails, EnqueueFails, redis
<1>2. /\ Parked' \subseteq Parked /\ WorkersTidy'
      /\ \A w \in Workers : InHand(w)' = InHand(w)
  BY <1>1, EngineStays
<1>3. CASE EnqueueAccount(j)
  <2>1. PICK m : /\ m.id = CHOOSE i \in FreeIds : TRUE
                 /\ adding' = [adding EXCEPT ![j] = m]
    BY <1>3 DEF EnqueueAccount
  <2>2. m.id \in FreeIds
    BY <1>3, <2>1 DEF EnqueueAccount
  <2>3. \A n \in Live : n.id # m.id
    BY <2>2 DEF FreeIds
  <2>4. \A i \in Jobs : Added(i)' \subseteq IF i = j THEN {m} ELSE Added(i)
    BY <2>1 DEF Added
  <2>5. globalQ' = globalQ
    BY <1>3 DEF EnqueueAccount
  <2>. QED BY <1>2, <2>3, <2>4, <2>5, HeldIsLive DEF IdsOnce, Alone, Apart
<1>4. CASE EnqueueGlobal(j)
  <2>1. Added(j) = {adding[j]} /\ globalQ' = globalQ \cup Added(j)
    BY <1>4 DEF EnqueueGlobal, Added
  <2>2. \A i \in Jobs : Added(i)' = IF i = j THEN {} ELSE Added(i)
    BY <1>4 DEF EnqueueGlobal, NextRow, JReset, Added
  <2>. QED BY <1>2, <2>1, <2>2 DEF IdsOnce, Alone, Apart
<1>5. CASE ~EnqueueAccount(j) /\ ~EnqueueGlobal(j)
  <2>1. globalQ' = globalQ
    BY <1>5 DEF EnqueueCampaign, ScanAccount, ScanGlobal, ScanRetry, ScanKeys, ReadPage,
                EnqueueNothing, PageFails, EnqueueFails, redis
  <2>2. \A i \in Jobs : Added(i)' \subseteq Added(i)
    BY <1>5 DEF EnqueueCampaign, ScanAccount, ScanGlobal, ScanRetry, ScanKeys, ReadPage,
                EnqueueNothing, PageFails, EnqueueFails, NextRow, JReset, Added
  <2>. QED BY <1>2, <2>1, <2>2, HoldQuiet
<1>. QED BY <1>3, <1>4, <1>5

LEMMA RequestHold ==
  ASSUME HoldInv, TypeOK', NEW c \in Clients, Request(c) \/ Handler(c) \/ Abandon(c)
  PROVE  HoldInv'
<1>. c \in Jobs
  BY DEF Jobs
<1>. USE DEF HoldInv, TypeOK, JobsOK
<1>1. CASE EnqueueCampaign(c)
  BY <1>1, EnqueueHold
<1>2. CASE Request(c) \/ Abandon(c) \/ (Handler(c) /\ ~EnqueueCampaign(c))
  <2>1. UNCHANGED engine /\ globalQ' \subseteq globalQ /\ retryQ' \subseteq retryQ
    BY <1>2 DEF redis, Request, Handler, Abandon, StartRead, PauseRead, ResetRead,
         EditStatus, AddRecipient, DeleteRecipient, DeleteAllRows, DeleteRows, Restore,
         Validate, Launch, PauseTx, PurgeAccount, PurgeGlobal, PurgeRetry, ResetRows,
         ResetStatus, DeleteCampaign
  <2>2. adding' = adding \/ adding' = [adding EXCEPT ![c] = NoMessage]
    BY <1>2 DEF jobs, Request, Handler, Abandon, StartRead, PauseRead, ResetRead,
         EditStatus, AddRecipient, DeleteRecipient, DeleteAllRows, DeleteRows, Restore,
         Validate, Launch, PauseTx, PurgeAccount, PurgeGlobal, PurgeRetry, ResetRows,
         ResetStatus, DeleteCampaign, JReset
  <2>3. \A i \in Jobs : Added(i)' \subseteq Added(i)
    BY <2>2 DEF Added
  <2>. QED BY <2>1, <2>3, EngineStays, HoldQuiet
<1>. QED BY <1>1, <1>2

\* A worker that is not moving messages goes on, with its message or without it.
LEMMA StepHold ==
  ASSUME HoldInv, TypeOK', NEW w \in Workers, NEW l \in WorkerPc \ Moving, WGoto(w, l),
         wpc[w] \notin Moving, UNCHANGED <<globalQ, retryQ, batch, adding>>,
         cur' = cur \/ cur' = [cur EXCEPT ![w] = NoMessage],
         l \in {"idle", "fetch"} => batch[w] = {}
  PROVE  HoldInv' /\ Parked' \subseteq Parked /\ \A j \in Jobs : Added(j)' = Added(j)
<1>. USE DEF HoldInv, TypeOK, EngineOK
<1>1. WorkersTidy'
  BY MessageAssumption DEF WorkersTidy, WGoto
<1>2. Parked' \subseteq Parked
  BY WorkerAssumption DEF Parked, Unmoved, WGoto, Moving
<1>3. \A v \in Workers : InHand(v)' \subseteq InHand(v)
  BY DEF InHand, WGoto
<1>4. \A j \in Jobs : Added(j)' = Added(j)
  BY DEF Added
<1>. QED BY <1>1, <1>2, <1>3, <1>4, HoldQuiet

LEMMA FinishHold ==
  ASSUME HoldInv, TypeOK', NEW w \in Workers, Finish(w), wpc[w] \notin Moving,
         UNCHANGED <<globalQ, retryQ, batch, adding>>
  PROVE  HoldInv' /\ Parked' \subseteq Parked /\ \A j \in Jobs : Added(j)' = Added(j)
<1>1. CASE batch[w] = {}
  BY <1>1, StepHold DEF Finish, WorkerPc, Moving
<1>2. CASE batch[w] # {}
  BY <1>2, StepHold DEF Finish, WorkerPc, Moving
<1>. QED BY <1>1, <1>2

\* A moved message goes from the retry queue to the global one: the two together
\* never hold more.
LEMMA MovingPlaces ==
  ASSUME HoldInv, TypeOK', WholeMoves, NEW w \in Workers,
         MoveAccount(w) \/ MoveGlobal(w) \/ MoveDone(w)
  PROVE  /\ WorkersTidy'
         /\ \A v \in Workers : InHand(v)' \subseteq InHand(v)
         /\ \A j \in Jobs : Added(j)' = Added(j)
         /\ \/ Parked' \subseteq Parked /\ globalQ' = globalQ
            \/ \E m \in Parked : Parked' \subseteq Parked \ {m} /\ globalQ' = globalQ \cup {m}
<1>. USE DEF HoldInv, TypeOK, EngineOK, JobsOK, WGoto, Moving
<1>1. w = RetryWorker
  BY DEF WorkersTidy, MoveAccount, MoveGlobal, MoveDone
<1>2. \A j \in Jobs : Added(j)' = Added(j)
  BY DEF MoveAccount, MoveGlobal, MoveDone, jobs, Added
<1>3. \A v \in Workers : InHand(v)' \subseteq InHand(v)
  BY DEF MoveAccount, MoveGlobal, MoveDone, InHand, WorkerPc
<1>4. WorkersTidy'
  BY MessageAssumption, <1>1 DEF WorkersTidy, MoveAccount, MoveGlobal, MoveDone
<1>5. CASE MoveAccount(w)
  <2>1. Parked' \subseteq Parked /\ globalQ' = globalQ
    BY <1>1, <1>5, MessageAssumption DEF MoveAccount, Parked, Unmoved
  <2>. QED BY <1>2, <1>3, <1>4, <2>1
<1>6. CASE MoveGlobal(w)
  <2>1. cur[w] # NoMessage /\ cur[w] \notin batch[w]
    BY <1>6 DEF MoveGlobal, WorkersTidy
  <2>2. Parked' \subseteq Parked \ {cur[w]} /\ cur[w] \in Parked
    BY <1>1, <1>6, <2>1 DEF MoveGlobal, Parked, Unmoved
  <2>3. globalQ' = globalQ \cup {cur[w]}
    BY <1>6 DEF MoveGlobal
  <2>. QED BY <1>2, <1>3, <1>4, <2>2, <2>3
<1>7. CASE MoveDone(w)
  <2>1. Parked' \subseteq Parked /\ globalQ' = globalQ
    BY <1>1, <1>7, MessageAssumption DEF MoveDone, Parked, Unmoved, WholeMoves
  <2>. QED BY <1>2, <1>3, <1>4, <2>1
<1>. QED BY <1>5, <1>6, <1>7

LEMMA MovingHold ==
  ASSUME HoldInv, TypeOK', WholeMoves, NEW w \in Workers,
         MoveAccount(w) \/ MoveGlobal(w) \/ MoveDone(w)
  PROVE  HoldInv'
<1>1. /\ WorkersTidy'
      /\ \A v \in Workers : InHand(v)' \subseteq InHand(v)
      /\ \A j \in Jobs : Added(j)' = Added(j)
  BY MovingPlaces
<1>2. CASE Parked' \subseteq Parked /\ globalQ' = globalQ
  BY <1>1, <1>2, HoldQuiet DEF HoldInv
<1>3. ASSUME NEW m \in Parked, Parked' \subseteq Parked \ {m}, globalQ' = globalQ \cup {m}
      PROVE  HoldInv'
  BY <1>1, <1>3 DEF HoldInv, IdsOnce, Alone, Apart
<1>. QED BY <1>2, <1>3, MovingPlaces

\* The Lua script: what a worker pops nobody else can pop.
LEMMA PopHold ==
  ASSUME HoldInv, TypeOK', NEW w \in Workers, FetchPop(w)
  PROVE  /\ HoldInv' /\ Parked' \subseteq Parked /\ globalQ' \subseteq globalQ
         /\ \A v \in Workers : InHand(v)' \subseteq InHand(v) \cup globalQ
         /\ \A v \in Workers : v # w => InHand(v)' \subseteq InHand(v)
         /\ \A j \in Jobs : Added(j)' = Added(j)
<1>. USE DEF HoldInv, TypeOK, EngineOK, JobsOK, WGoto
<1>1. PICK S \in SUBSET globalQ :
        globalQ' = globalQ \ S /\ batch' = [batch EXCEPT ![w] = S]
  BY DEF FetchPop
<1>2. wpc' = [wpc EXCEPT ![w] = "unlink"] /\ wpc[w] \in {"idle", "fetch"}
      /\ UNCHANGED <<retryQ, cur, adding>>
  BY DEF FetchPop, jobs
<1>3. WorkersTidy'
  BY <1>1, <1>2, MessageAssumption DEF WorkersTidy, Moving, RedisOK
<1>4. Parked' \subseteq Parked
  BY <1>1, <1>2, WorkerAssumption DEF Parked, Unmoved, Moving
<1>5. \A v \in Workers : InHand(v)' \subseteq IF v = w THEN S ELSE InHand(v)
  BY <1>1, <1>2 DEF InHand
<1>6. \A j \in Jobs : Added(j)' = Added(j)
  BY <1>2 DEF Added
<1>. QED BY <1>1, <1>3, <1>4, <1>5, <1>6, HoldTaken

LEMMA RequeueHold ==
  ASSUME HoldInv, TypeOK', NEW w \in Workers, Requeue(w)
  PROVE  /\ HoldInv' /\ cur[w] \in InHand(w) /\ globalQ' = globalQ
         /\ Parked' \subseteq Parked \cup {[cur[w] EXCEPT !.tries = @ + 1]}
         /\ \A v \in Workers : InHand(v)' \subseteq InHand(v)
         /\ \A j \in Jobs : Added(j)' = Added(j)
<1>. USE DEF HoldInv, TypeOK, EngineOK, JobsOK, WGoto
<1>. DEFINE again == [cur[w] EXCEPT !.tries = @ + 1]
<1>1. /\ cur[w] \in Message /\ cur[w] \in InHand(w) /\ wpc[w] = "retry"
      /\ cur[w] # NoMessage /\ cur[w] \notin batch[w]
  BY MessageAssumption DEF Requeue, InHand, WorkersTidy, Moving
<1>2. again.id = cur[w].id
  BY <1>1 DEF Message
<1>3. retryQ' = retryQ \cup {again} /\ UNCHANGED <<globalQ, batch, adding>> /\ Finish(w)
  BY DEF Requeue, jobs
<1>. HIDE DEF again
<1>4. WorkersTidy'
  BY <1>1, <1>3, MessageAssumption DEF WorkersTidy, Moving, Finish
<1>5. Parked' \subseteq Parked \cup {again}
  BY <1>1, <1>3, WorkerAssumption DEF Parked, Unmoved, Moving, Finish
<1>6. \A v \in Workers : InHand(v)' \subseteq IF v = w THEN InHand(w) \ {cur[w]} ELSE InHand(v)
  BY <1>1, <1>3 DEF InHand, Moving, Finish
<1>7. \A j \in Jobs : Added(j)' = Added(j)
  BY <1>3 DEF Added
<1>8. HoldInv'
  BY <1>1, <1>2, <1>3, <1>4, <1>5, <1>6, <1>7, HoldParked
<1>. QED BY <1>1, <1>3, <1>5, <1>6, <1>7, <1>8 DEF again

\* A worker takes the next message of its batch, or leaves it.
LEMMA TakeHold ==
  ASSUME HoldInv, TypeOK', NEW w \in Workers, CheckCampaign(w)
  PROVE  /\ HoldInv' /\ Parked' \subseteq Parked /\ globalQ' = globalQ
         /\ \A v \in Workers : InHand(v)' \subseteq InHand(v)
         /\ \A j \in Jobs : Added(j)' = Added(j)
<1>. USE DEF HoldInv, TypeOK, EngineOK, WGoto
<1>1. PICK m \in batch[w] :
        /\ batch' = [batch EXCEPT ![w] = @ \ {m}]
        /\ \/ cur' = [cur EXCEPT ![w] = m] /\ WGoto(w, "history")
           \/ cur' = cur /\ WGoto(w, IF batch'[w] = {} THEN "idle" ELSE "next")
  BY DEF CheckCampaign, jobs, redis
<1>2. wpc[w] = "next" /\ UNCHANGED <<globalQ, retryQ, adding>>
  BY DEF CheckCampaign, jobs, redis
<1>3. WorkersTidy'
  BY <1>1, <1>2, MessageAssumption DEF WorkersTidy, Moving
<1>4. Parked' \subseteq Parked
  BY <1>1, <1>2, WorkerAssumption DEF Parked, Unmoved, Moving
<1>5. \A v \in Workers : InHand(v)' \subseteq InHand(v)
  BY <1>1, <1>2 DEF InHand, Moving
<1>6. \A j \in Jobs : Added(j)' = Added(j)
  BY <1>2 DEF Added
<1>. QED BY <1>2, <1>3, <1>4, <1>5, <1>6, HoldQuiet

LEMMA WorkerHold ==
  ASSUME HoldInv, TypeOK', WholeMoves, NEW w \in Workers,
         Queueing(w) \/ Process(w) \/ AcquirePermit(w) \/ Send(w) \/ Disturb(w)
  PROVE  HoldInv'
<1>. USE DEF jobs, redis, Target
<1>1. CASE MoveAccount(w) \/ MoveGlobal(w) \/ MoveDone(w) \/ FetchPop(w) \/ Requeue(w)
  BY <1>1, MovingHold, PopHold, RequeueHold
<1>2. CASE FetchNothing(w) \/ Unlink(w)
  BY <1>2, StepHold DEF HoldInv, WorkersTidy, FetchNothing, Unlink, WorkerPc, Moving
<1>3. CASE CheckCampaign(w)
  BY <1>3, TakeHold
<1>4. CASE \/ CheckHistory(w) \/ CheckRow(w) \/ Gate(w) \/ GateRow(w) \/ ErrorGate(w)
           \/ ErrorRow(w) \/ Settle(w) \/ Count(w)
  <2>1. PICK l \in WithPermit \cup {"row", "permit"} :
          Finish(w) \/ (WGoto(w, l) /\ cur' = cur)
    BY <1>4 DEF CheckHistory, CheckRow, Gate, GateRow, ErrorGate, ErrorRow, Settle,
                Count, Check, WithPermit
  <2>2. wpc[w] \notin Moving /\ UNCHANGED <<globalQ, retryQ, batch, adding>>
    BY <1>4 DEF CheckHistory, CheckRow, Gate, GateRow, ErrorGate, ErrorRow, Settle,
                Count, Check, Moving
  <2>3. l \in WorkerPc \ Moving /\ l \notin {"idle", "fetch"}
    BY DEF WorkerPc, WithPermit, Moving
  <2>. QED BY <2>1, <2>2, <2>3, StepHold, FinishHold
<1>5. CASE \/ AcquirePermit(w) \/ Send(w) \/ MarkSent(w) \/ LogSuccess(w) \/ Fail(w)
  BY <1>5, StepHold
     DEF AcquirePermit, Send, SendOk, SendError, SendLate, MarkSent, LogSuccess, Fail,
         WorkerPc, WithPermit, Moving
<1>6. CASE Complete(w) \/ MediaError(w) \/ LimitDrop(w) \/ Drop(w)
  <2>1. wpc[w] \notin Moving /\ Finish(w) /\ UNCHANGED <<globalQ, retryQ, batch, adding>>
    BY <1>6 DEF Complete, MediaError, LimitDrop, Drop, GiveUp, Moving
  <2>. QED BY <2>1, FinishHold
<1>7. ~MoveFails(w)
  BY DEF MoveFails, WholeMoves
<1>. QED BY <1>1, <1>2, <1>3, <1>4, <1>5, <1>6, <1>7 DEF Queueing, Process, Disturb

LEMMA TaskHold ==
  ASSUME HoldInv, TypeOK', WholeMoves,
         RecoverTick \/ ScanRetryQueue \/ Crash \/ UNCHANGED vars
  PROVE  HoldInv'
<1>. USE DEF HoldInv, TypeOK, EngineOK, JobsOK, WGoto
<1>1. CASE RecoverTick \/ UNCHANGED vars
  <2>1. UNCHANGED <<engine, globalQ, retryQ, adding>>
    BY <1>1 DEF RecoverTick, vars, redis, engine
  <2>2. \A j \in Jobs : Added(j)' = Added(j)
    BY <2>1 DEF Added
  <2>. QED BY <2>1, <2>2, EngineStays, HoldQuiet
<1>2. CASE ScanRetryQueue
  <2>. DEFINE z == RetryWorker
  <2>1. PICK R \in SUBSET retryQ : batch' = [batch EXCEPT ![z] = R]
    BY <1>2 DEF ScanRetryQueue
  <2>2. /\ wpc[z] = "idle" /\ wpc' = [wpc EXCEPT ![z] = "moveAccount"]
        /\ UNCHANGED <<globalQ, retryQ, cur, adding>>
    BY <1>2 DEF ScanRetryQueue, redis, jobs
  <2>3. WorkersTidy'
    BY <2>1, <2>2, WorkerAssumption, MessageAssumption DEF WorkersTidy, Moving, RedisOK
  <2>4. Parked' \subseteq Parked
    BY <2>1, <2>2, WorkerAssumption DEF Parked, Unmoved, Moving
  <2>5. \A v \in Workers : InHand(v)' \subseteq InHand(v)
    BY <2>1, <2>2 DEF InHand, Moving
  <2>6. \A j \in Jobs : Added(j)' = Added(j)
    BY <2>2 DEF Added
  <2>. QED BY <2>2, <2>3, <2>4, <2>5, <2>6, HoldQuiet
<1>3. ~Crash
  BY DEF Crash, WholeMoves
<1>. QED BY <1>1, <1>2, <1>3

LEMMA InitHold == ASSUME Init PROVE HoldInv
<1>1. WorkersTidy
  BY DEF Init, WorkersTidy, Moving
<1>2. /\ globalQ = {} /\ Parked = {} /\ \A w \in Workers : InHand(w) = {}
      /\ \A j \in Jobs : Added(j) = {}
  BY WorkerAssumption DEF Init, Parked, Unmoved, InHand, Added, Moving
<1>. QED BY <1>1, <1>2, InitTypeOK DEF HoldInv, IdsOnce, Alone, Apart

LEMMA NextHold == ASSUME HoldInv, WholeMoves, [Next]_vars PROVE HoldInv'
<1>1. TypeOK'
  BY NextTypeOK DEF HoldInv
<1>2. Recovery \in Jobs
  BY DEF Jobs
<1>. QED BY <1>1, <1>2, RequestHold, EnqueueHold, TaskHold, WorkerHold DEF Next

\* However many workers pop from the queues that three tasks fill, and whoever is
\* paused, purged, abandoned or retried meanwhile: a message is in one pair of
\* hands at a time, and nowhere another worker could take it from.
THEOREM MessagesHaveOneHolder == ASSUME WholeMoves PROVE Spec => []OneHolder
<1>1. Init => HoldInv
  BY InitHold
<1>2. HoldInv /\ [Next]_vars => HoldInv'
  BY NextHold
<1>3. HoldInv => OneHolder
  BY DEF HoldInv, IdsOnce, Apart, OneHolder
<1>. QED BY <1>1, <1>2, <1>3, PTL DEF Spec
-----------------------------------------------------------------------------
(* Nobody gets a message twice                                              *)

\* What the theorem is about: one client starts the campaign, and its rows fit
\* into one page; they may be deleted meanwhile, sends, queries and connections
\* may fail and the request may be abandoned.  A second start, the recovery task
\* (recover_inflight) and a second page, whose OFFSET counts rows that are no
\* longer pending, each enqueue a recipient again that a worker has in hand.
OneStart ==
  /\ Ops \subseteq {"start", "delete"} /\ \A c, d \in Clients : c = d
  /\ Faults \cap {"redis", "crash"} = {}
  /\ Cardinality(Recipients) <= PageSize

\* Where a worker is once its send is over: the outcome is not written yet, or it is.
Erred == {"error", "errorRow", "retry"}
Tried == {"sent"} \cup Erred
Done  == {"log", "settle", "count", "complete"}

\* Where a worker is that will not send its message any more.
Past == Done \cup (IF hasMedia THEN Tried ELSE {"sent"})

\* Without the messages whose worker has got to a position in P: what worker w holds,
\* and all there are.  The messages that may still be sent are those without Past.
Left(w, P) == IF wpc[w] \in P THEN InHand(w) \ {cur[w]} ELSE InHand(w)

Msgs(P) == (globalQ \cup Parked) \cup (UNION {Left(w, P) : w \in Workers})
             \cup (UNION {Added(j) : j \in Jobs})

AllUnsent == Msgs(Past)

\* Before the campaign's only enqueue.
Untouched == /\ AllUnsent = {} /\ \A w \in Workers : wpc[w] \notin Past
             /\ \A r \in Recipients : delivered[r] = 0

Scans == {"scanAccount", "scanGlobal", "scanRetry"}
Filling == {"page", "enqueue", "enqueueGlobal"}

\* The one start launches a draft, and its first page is its last one.
JobsTidy ==
  \A j \in Jobs :
    /\ jpc[j] \in {"idle", "validate", "launch", "deleteCampaign"} \cup Scans \cup Filling
    /\ j = Recovery => jpc[j] = "idle"
    /\ jpc[j] \notin {"enqueue", "enqueueGlobal"} => todo[j] = {}
    /\ jpc[j] \notin Filling => scanned[j] = 0
    /\ jpc[j] \in {"enqueue", "enqueueGlobal"} => scanned[j] # 0
    /\ scanned[j] # 0 => Cardinality(Pending) <= scanned[j]
    /\ jpc[j] \in Scans \cup Filling => campaign # "draft"
    /\ jpc[j] = "validate" => campaign \in {"draft", "completed"}
    /\ jpc[j] = "launch" => campaign = "draft"
    /\ jpc[j] \in Scans \/ (jpc[j] = "page" /\ scanned[j] = 0) => Untouched

DraftUntouched == campaign # "paused" /\ (campaign = "draft" => Untouched)

\* A recipient has one message that may still be sent, and if it was sent, none;
\* who is still to be enqueued has had none and has none.
SentOnce ==
  hasMedia \/ "late" \notin Faults =>
    /\ \A m, n \in AllUnsent : m.rcp = n.rcp => m.id = n.id
    /\ \A m \in AllUnsent : delivered[m.rcp] = 0
    /\ \A j \in Jobs : \A r \in todo[j] :
         delivered[r] = 0 /\ \A m \in AllUnsent : m.rcp # r
    /\ \A r \in Recipients : delivered[r] <= 1

OnceInv == SettledInv /\ HoldInv /\ JobsTidy /\ DraftUntouched /\ SentOnce

LEMMA OnceScope == ASSUME OneStart PROVE LeftAlone /\ WholeMoves
BY DEF OneStart, LeftAlone, WholeMoves

LEMMA HeldIsMessage == ASSUME HoldInv PROVE AllUnsent \subseteq Message
<1>. USE DEF HoldInv, TypeOK, RedisOK, EngineOK, JobsOK
<1>1. globalQ \cup Parked \subseteq Message
  BY WorkerAssumption DEF Parked, Unmoved
<1>2. \A w \in Workers : Left(w, Past) \subseteq Message
  BY DEF Left, InHand
<1>3. \A j \in Jobs : Added(j) \subseteq Message
  BY DEF Added
<1>. QED BY <1>1, <1>2, <1>3 DEF AllUnsent, Msgs

LEMMA OnceQuiet ==
  ASSUME SentOnce, UNCHANGED <<hasMedia, delivered>>, AllUnsent' \subseteq AllUnsent,
         \A j \in Jobs : todo'[j] \subseteq todo[j]
  PROVE  SentOnce'
BY DEF SentOnce

\* The ends of process_single_message: a worker that has come to one of them stays
\* there until it is done with its message.
Ends == {Done, Done \cup {"sent"}, Done \cup Tried}

\* Where the messages come from.
LEMMA MsgsFrom ==
  ASSUME NEW P, NEW X, globalQ' \subseteq globalQ \cup Parked, Parked' \subseteq Parked \cup X,
         \A w \in Workers : Left(w, P)' \subseteq Left(w, P) \cup globalQ,
         \A j \in Jobs : Added(j)' \subseteq Added(j)
  PROVE  Msgs(P)' \subseteq Msgs(P) \cup X
BY DEF Msgs

LEMMA HandsLeft ==
  ASSUME NEW P, \A v \in Workers : InHand(v)' \subseteq InHand(v),
         \A v \in Workers : \/ wpc[v] \notin P \/ cur[v] \notin InHand(v)'
                            \/ wpc'[v] \in P /\ cur'[v] = cur[v]
  PROVE  \A v \in Workers : Left(v, P)' \subseteq Left(v, P)
BY DEF Left

\* A worker goes on, or is done with its message.
LEMMA StepMsgs ==
  ASSUME HoldInv, TypeOK', NEW P, NEW w \in Workers, NEW l \in WorkerPc \ Moving, WGoto(w, l),
         wpc[w] \notin Moving, UNCHANGED <<globalQ, retryQ, batch, adding>>,
         \/ cur' = cur /\ (wpc[w] \in P => l \in P)
         \/ cur' = [cur EXCEPT ![w] = NoMessage],
         l \in {"idle", "fetch"} => batch[w] = {}
  PROVE  Msgs(P)' \subseteq Msgs(P)
<1>. USE DEF HoldInv, TypeOK, EngineOK
<1>1. Parked' \subseteq Parked /\ \A j \in Jobs : Added(j)' = Added(j)
  BY StepHold
<1>2. \A v \in Workers : InHand(v)' \subseteq InHand(v)
  BY DEF InHand, WGoto
<1>3. \A v \in Workers : \/ wpc[v] \notin P \/ cur[v] \notin InHand(v)'
                         \/ wpc'[v] \in P /\ cur'[v] = cur[v]
  BY DEF InHand, WGoto, WorkersTidy
<1>4. Msgs(P)' \subseteq Msgs(P) \cup {}
  BY <1>1, <1>2, <1>3, HandsLeft, MsgsFrom
<1>. QED BY <1>4

LEMMA FinishMsgs ==
  ASSUME HoldInv, TypeOK', NEW P, NEW w \in Workers, Finish(w), wpc[w] \notin Moving,
         UNCHANGED <<globalQ, retryQ, batch, adding>>
  PROVE  Msgs(P)' \subseteq Msgs(P)
<1>1. CASE batch[w] = {}
  BY <1>1, StepMsgs DEF Finish, WorkerPc, Moving
<1>2. CASE batch[w] # {}
  BY <1>2, StepMsgs DEF Finish, WorkerPc, Moving
<1>. QED BY <1>1, <1>2

\* Whatever a worker does, it makes no message, but for the retry.
LEMMA WorkerMsgs ==
  ASSUME HoldInv, TypeOK', WholeMoves, NEW P \in Ends, NEW w \in Workers, ~Requeue(w),
         Queueing(w) \/ Process(w) \/ AcquirePermit(w) \/ Send(w) \/ Disturb(w)
  PROVE  Msgs(P)' \subseteq Msgs(P)
<1>. USE DEF jobs, redis, Target
<1>1. P \subseteq Done \cup Tried /\ Done \subseteq P
  BY DEF Ends, Tried
<1>2. CASE MoveAccount(w) \/ MoveGlobal(w) \/ MoveDone(w) \/ CheckCampaign(w)
  <2>1. /\ \A v \in Workers : InHand(v)' \subseteq InHand(v)
        /\ \A j \in Jobs : Added(j)' \subseteq Added(j)
        /\ globalQ' \subseteq globalQ \cup Parked /\ Parked' \subseteq Parked \cup {}
    BY <1>2, MovingPlaces, TakeHold
  <2>2. \A v \in Workers : wpc[v] \notin P \/ (wpc'[v] = wpc[v] /\ cur'[v] = cur[v])
    BY <1>1, <1>2 DEF HoldInv, TypeOK, EngineOK, WGoto, Done, Tried, Erred, MoveAccount,
                      MoveGlobal, MoveDone, CheckCampaign
  <2>3. \A v \in Workers : Left(v, P)' \subseteq Left(v, P)
    BY <2>1, <2>2, HandsLeft
  <2>. QED BY <2>1, <2>3, MsgsFrom
<1>3. CASE FetchPop(w)
  <2>1. /\ \A j \in Jobs : Added(j)' \subseteq Added(j)
        /\ globalQ' \subseteq globalQ \cup Parked /\ Parked' \subseteq Parked \cup {}
        /\ \A v \in Workers : InHand(v)' \subseteq InHand(v) \cup globalQ
    BY <1>3, PopHold
  <2>2. /\ wpc[w] \notin P
        /\ \A v \in Workers : v # w => UNCHANGED <<wpc[v], cur[v], batch[v]>>
    BY <1>1, <1>3 DEF HoldInv, TypeOK, EngineOK, WGoto, Done, Tried, Erred, FetchPop
  <2>3. \A v \in Workers : Left(v, P)' \subseteq Left(v, P) \cup globalQ
    BY <2>1, <2>2 DEF Left, InHand
  <2>. QED BY <2>1, <2>3, MsgsFrom
<1>4. CASE FetchNothing(w) \/ Unlink(w)
  BY <1>1, <1>4, StepMsgs
     DEF HoldInv, WorkersTidy, FetchNothing, Unlink, WorkerPc, Moving, Done, Tried, Erred
<1>5. CASE \/ CheckHistory(w) \/ CheckRow(w) \/ Gate(w) \/ GateRow(w) \/ ErrorGate(w)
           \/ ErrorRow(w) \/ Settle(w) \/ Count(w)
  <2>1. PICK l \in WithPermit \cup {"row", "permit"} :
          Finish(w) \/ (WGoto(w, l) /\ cur' = cur /\ (wpc[w] \in P => l \in P))
    BY <1>5 DEF CheckHistory, CheckRow, Gate, GateRow, ErrorGate, ErrorRow, Settle,
                Count, Check, WithPermit, Ends, Done, Tried, Erred
  <2>2. wpc[w] \notin Moving /\ UNCHANGED <<globalQ, retryQ, batch, adding>>
    BY <1>5 DEF CheckHistory, CheckRow, Gate, GateRow, ErrorGate, ErrorRow, Settle,
                Count, Check, Moving
  <2>3. l \in WorkerPc \ Moving /\ l \notin {"idle", "fetch"}
    BY DEF WorkerPc, WithPermit, Moving
  <2>. QED BY <2>1, <2>2, <2>3, StepMsgs, FinishMsgs
<1>6. CASE AcquirePermit(w) \/ Send(w) \/ MarkSent(w) \/ LogSuccess(w) \/ Fail(w)
  BY <1>1, <1>6, StepMsgs
     DEF AcquirePermit, Send, SendOk, SendError, SendLate, MarkSent, LogSuccess, Fail,
         WorkerPc, WithPermit, Moving, Done, Tried, Erred
<1>7. CASE Complete(w) \/ MediaError(w) \/ LimitDrop(w) \/ Drop(w)
  <2>1. wpc[w] \notin Moving /\ Finish(w) /\ UNCHANGED <<globalQ, retryQ, batch, adding>>
    BY <1>7 DEF Complete, MediaError, LimitDrop, Drop, GiveUp, Moving
  <2>. QED BY <2>1, FinishMsgs
<1>8. ~MoveFails(w)
  BY DEF MoveFails, WholeMoves
<1>. QED BY <1>2, <1>3, <1>4, <1>5, <1>6, <1>7, <1>8 DEF Queueing, Process, Disturb

\* Which positions are past depends on the campaign only.
LEMMA PastEnds ==
  ASSUME TypeOK, UNCHANGED hasMedia
  PROVE  \E P \in Ends : /\ Past = P /\ AllUnsent = Msgs(P)
                         /\ Past' = P /\ AllUnsent' = Msgs(P)'
<1>1. CASE hasMedia
  <2>1. Done \cup Tried \in Ends /\ Past = Done \cup Tried /\ Past' = Done \cup Tried
    BY <1>1 DEF Ends, Past
  <2>. QED BY <2>1 DEF AllUnsent, Msgs
<1>2. CASE ~hasMedia
  <2>1. Done \cup {"sent"} \in Ends /\ Past = Done \cup {"sent"} /\ Past' = Done \cup {"sent"}
    BY <1>2 DEF Ends, Past
  <2>. QED BY <2>1 DEF AllUnsent, Msgs
<1>. QED BY <1>1, <1>2

LEMMA WorkerUnsent ==
  ASSUME HoldInv, TypeOK', WholeMoves, NEW w \in Workers, ~Requeue(w),
         Queueing(w) \/ Process(w) \/ AcquirePermit(w) \/ Send(w) \/ Disturb(w)
  PROVE  AllUnsent' \subseteq AllUnsent /\ UNCHANGED <<hasMedia, jobs>>
<1>1. UNCHANGED <<hasMedia, jobs>>
  BY DEF mysql, Check, GiveUp, Queueing, Process, Send, Disturb, Drop, MoveAccount,
     MoveGlobal, MoveDone, FetchPop, FetchNothing, Unlink, MoveFails, CheckCampaign,
     CheckHistory, CheckRow, Gate, GateRow, ErrorGate, ErrorRow, Settle, Count,
     AcquirePermit, SendOk, SendError, SendLate, MarkSent, LogSuccess, Requeue, Fail,
     Complete, MediaError, LimitDrop
<1>2. \A P \in Ends : Msgs(P)' \subseteq Msgs(P)
  BY WorkerMsgs
<1>. QED BY <1>1, <1>2, PastEnds DEF HoldInv

\* ... which is the message it had, with one try more.
LEMMA RequeueMsgs ==
  ASSUME HoldInv, TypeOK', NEW w \in Workers, Requeue(w), NEW P \in Ends
  PROVE  Msgs(P)' \subseteq Msgs(P) \cup {[cur[w] EXCEPT !.tries = @ + 1]}
<1>. USE DEF HoldInv, TypeOK, EngineOK, WGoto
<1>1. wpc[w] = "retry" /\ Finish(w) /\ UNCHANGED batch
  BY DEF Requeue
<1>2. /\ Parked' \subseteq Parked \cup {[cur[w] EXCEPT !.tries = @ + 1]}
      /\ globalQ' \subseteq globalQ \cup Parked
      /\ \A v \in Workers : InHand(v)' \subseteq InHand(v)
      /\ \A j \in Jobs : Added(j)' \subseteq Added(j)
  BY RequeueHold
<1>3. cur[w] \notin InHand(w)'
  BY <1>1 DEF InHand, Finish, WorkersTidy
<1>4. \A v \in Workers : \/ wpc[v] \notin P \/ cur[v] \notin InHand(v)'
                         \/ wpc'[v] \in P /\ cur'[v] = cur[v]
  BY <1>1, <1>3 DEF Finish
<1>5. \A v \in Workers : Left(v, P)' \subseteq Left(v, P)
  BY <1>2, <1>4, HandsLeft
<1>. QED BY <1>2, <1>5, MsgsFrom

\* A worker that lets its message go, or is past the positions P with it, leaves none
\* of its id in Msgs(P).
LEMMA Gone ==
  ASSUME HoldInv, NEW w \in Workers, cur[w] \in InHand(w), NEW P, cur[w] \notin Left(w, P)',
         globalQ' \subseteq globalQ, Parked' \subseteq Parked,
         \A v \in Workers : InHand(v)' \subseteq InHand(v),
         \A j \in Jobs : Added(j)' \subseteq Added(j)
  PROVE  \A m \in Msgs(P)' : m.id # cur[w].id
<1>1. \A m \in globalQ' \cup Parked' : m.id # cur[w].id
  BY DEF HoldInv, IdsOnce, Apart
<1>2. \A v \in Workers : Left(v, P)' \subseteq InHand(v)
  BY DEF Left
<1>3. \A v \in Workers : v # w => Apart(InHand(v), InHand(w))
  BY DEF HoldInv, IdsOnce
<1>4. \A m \in InHand(w) : m.id = cur[w].id => m = cur[w]
  BY DEF HoldInv, IdsOnce, Alone
<1>5. \A v \in Workers : \A m \in Left(v, P)' : m.id # cur[w].id
  BY <1>2, <1>3, <1>4 DEF Apart
<1>6. \A j \in Jobs : \A m \in Added(j)' : m.id # cur[w].id
  BY DEF HoldInv, IdsOnce, Apart
<1>. QED BY <1>1, <1>5, <1>6 DEF Msgs

\* Who sends has the only message there is for its recipient.
LEMMA SendSentOnce ==
  ASSUME HoldInv, HoldInv', WholeMoves, SentOnce, NEW w \in Workers, Send(w)
  PROVE  SentOnce'
<1>. USE DEF HoldInv, TypeOK, EngineOK, JobsOK, WGoto
<1>. SUFFICES ASSUME hasMedia \/ "late" \notin Faults PROVE SentOnce'
  BY DEF SentOnce, Send, SendOk, SendError, SendLate, mysql
<1>. DEFINE r == cur[w].rcp
<1>1. /\ wpc[w] = "ready" /\ cur[w] # NoMessage /\ UNCHANGED <<hasMedia, todo, cur, batch>>
      /\ \A v \in Workers : v # w => wpc'[v] = wpc[v]
  BY DEF Send, SendOk, SendError, SendLate, mysql, jobs
<1>2. AllUnsent' \subseteq AllUnsent
  BY WorkerUnsent DEF Requeue, Send, SendOk, SendError, SendLate
<1>3. CASE SendError(w)
  <2>1. UNCHANGED delivered
    BY <1>3 DEF SendError
  <2>. QED BY <1>1, <1>2, <2>1, OnceQuiet
<1>4. CASE SendOk(w) \/ SendLate(w)
  <2>1. Deliver(r) /\ wpc'[w] \in Past' /\ wpc'[w] \notin Moving
    BY <1>1, <1>4 DEF SendOk, SendLate, Target, Past, Done, Tried, Erred, Moving
  <2>2. cur[w] \in Left(w, Past) /\ cur[w] \in InHand(w) /\ r \in Recipients
    BY <1>1 DEF Left, InHand, Past, Done, Tried, Erred, Moving, Message
  <2>3. cur[w] \in AllUnsent
    BY <2>2 DEF AllUnsent, Msgs
  <2>4. PICK P \in Ends : AllUnsent' = Msgs(P)' /\ Past' = P
    BY <1>1, PastEnds
  <2>5. \A m \in AllUnsent' : m.id # cur[w].id
    <3>1. cur[w] \notin Left(w, P)'
      BY <1>1, <2>1, <2>4 DEF Left
    <3>2. /\ UNCHANGED <<globalQ, retryQ>> /\ \A j \in Jobs : Added(j)' \subseteq Added(j)
      BY <1>4 DEF SendOk, SendLate, redis, jobs, Added
    <3>3. Parked' \subseteq Parked /\ \A v \in Workers : InHand(v)' \subseteq InHand(v)
      BY <1>1, <2>1, <3>2, WorkerAssumption DEF Parked, Unmoved, InHand, Moving
    <3>. QED BY <2>2, <2>4, <3>1, <3>2, <3>3, Gone
  <2>6. \A m \in AllUnsent' : m.rcp # r
    BY <1>2, <2>3, <2>5 DEF SentOnce
  <2>7. delivered[r] = 0 /\ \A j \in Jobs : r \notin todo[j]
    BY <2>3 DEF SentOnce
  <2>8. delivered' = [delivered EXCEPT ![r] = 1]
    <3>1. delivered[r] < MaxDeliveries /\ delivered[r] + 1 = 1
      BY <2>7, BoundAssumption
    <3>. QED BY <2>1, <3>1 DEF Deliver
  <2>9. \A m \in AllUnsent' : m.rcp \in Recipients => delivered'[m.rcp] = delivered[m.rcp]
    BY <2>6, <2>8
  <2>10. AllUnsent' \subseteq Message
    BY <1>2, HeldIsMessage
  <2>. QED BY <1>1, <1>2, <2>2, <2>6, <2>7, <2>8, <2>9, <2>10 DEF SentOnce, Message
<1>. QED BY <1>3, <1>4 DEF Send

\* A message that is sent again was not delivered: a picture is never sent again,
\* and of a text it is assumed that a send that fails has not arrived.
LEMMA RequeueSentOnce ==
  ASSUME HoldInv, TypeOK', SentOnce, NEW w \in Workers, Requeue(w)
  PROVE  SentOnce'
<1>. USE DEF HoldInv, TypeOK, EngineOK, JobsOK, WGoto
<1>. DEFINE again == [cur[w] EXCEPT !.tries = @ + 1]
<1>1. ~hasMedia /\ wpc[w] = "retry" /\ UNCHANGED <<hasMedia, todo, delivered>> /\ Finish(w)
  BY DEF Requeue, MayRetry, mysql, jobs
<1>2. cur[w] \in Message /\ cur[w] \in Left(w, Past)
  BY <1>1 DEF Left, InHand, Past, Done, Tried, Erred, Moving
<1>3. cur[w] \in AllUnsent /\ again.id = cur[w].id /\ again.rcp = cur[w].rcp
  BY <1>2 DEF AllUnsent, Msgs, Message
<1>4. AllUnsent' \subseteq AllUnsent \cup {again}
  BY <1>1, PastEnds, RequeueMsgs
<1>. HIDE DEF again
<1>. QED BY <1>1, <1>3, <1>4 DEF SentOnce

LEMMA WorkerSentOnce ==
  ASSUME HoldInv, HoldInv', WholeMoves, SentOnce, NEW w \in Workers,
         Queueing(w) \/ Process(w) \/ AcquirePermit(w) \/ Send(w) \/ Disturb(w)
  PROVE  SentOnce'
<1>1. CASE Send(w)
  BY <1>1, SendSentOnce
<1>2. CASE Requeue(w)
  BY <1>2, RequeueSentOnce DEF HoldInv
<1>3. CASE ~Requeue(w) /\ ~Send(w)
  <2>1. AllUnsent' \subseteq AllUnsent /\ UNCHANGED <<hasMedia, todo>>
    BY <1>3, WorkerUnsent DEF HoldInv, jobs
  <2>2. UNCHANGED delivered
    BY <1>3 DEF Check, GiveUp, Queueing, Process, Disturb, Drop, MoveAccount,
       MoveGlobal, MoveDone, FetchPop, FetchNothing, Unlink, MoveFails, CheckCampaign,
       CheckHistory, CheckRow, Gate, GateRow, ErrorGate, ErrorRow, Settle, Count,
       AcquirePermit, MarkSent, LogSuccess, Requeue, Fail, Complete, MediaError, LimitDrop
  <2>. QED BY <2>1, <2>2, OnceQuiet
<1>. QED BY <1>1, <1>2, <1>3

\* Before the enqueue the workers can only look for work.
LEMMA WorkerUntouched ==
  ASSUME HoldInv, TypeOK', WholeMoves, Untouched, NEW w \in Workers,
         Queueing(w) \/ Process(w) \/ AcquirePermit(w) \/ Send(w) \/ Disturb(w)
  PROVE  Untouched' /\ ~Complete(w)
<1>. USE DEF HoldInv, TypeOK, EngineOK, WGoto
<1>1. \A v \in Workers : Left(v, Past) = {} /\ Left(v, Past) = InHand(v)
  BY DEF Untouched, AllUnsent, Msgs, Left
<1>2. \A v \in Workers : wpc[v] \in Moving \/ (cur[v] = NoMessage /\ batch[v] = {})
  <2>. TAKE v \in Workers
  <2>1. CASE wpc[v] \notin Moving
    <3>1. batch[v] \cup ({cur[v]} \ {NoMessage}) = {}
      BY <1>1, <2>1 DEF InHand
    <3>. QED BY <3>1
  <2>. QED BY <2>1
<1>3. wpc[w] \in {"idle", "fetch", "unlink", "next"} \cup Moving
  BY <1>2 DEF Moving
<1>4. globalQ = {}
  BY DEF Untouched, AllUnsent, Msgs
<1>5. CASE Queueing(w)
  <2>1. UNCHANGED <<hasMedia, delivered>>
    BY <1>5 DEF mysql, Queueing, MoveAccount, MoveGlobal, MoveDone, FetchPop,
                FetchNothing, Unlink
  <2>2. \A v \in Workers : wpc'[v] \notin Past'
    BY <1>5, <2>1 DEF Untouched, Past, Done, Tried, Erred, Queueing, MoveAccount,
                      MoveGlobal, MoveDone, FetchPop, FetchNothing, Unlink
  <2>3. AllUnsent' \subseteq AllUnsent
    BY <1>5, <1>3, WorkerUnsent DEF Requeue, Moving
  <2>. QED BY <1>3, <2>1, <2>2, <2>3 DEF Untouched, Complete, Moving
<1>6. ~Process(w) /\ ~AcquirePermit(w) /\ ~Send(w) /\ ~Disturb(w) /\ ~Complete(w)
  BY <1>2, <1>3 DEF Moving, Check, GiveUp, Process, Disturb, Drop, WholeMoves, MoveFails,
     Send, SendOk, SendError, SendLate, CheckCampaign, CheckHistory, CheckRow, Gate,
     GateRow, ErrorGate, ErrorRow, Settle, Count, AcquirePermit, MarkSent, LogSuccess,
     Requeue, Fail, Complete, MediaError, LimitDrop
<1>. QED BY <1>5, <1>6

\* Fewer rows are pending than were.
LEMMA PendingShrinks ==
  ASSUME Pending' \subseteq Pending
  PROVE  /\ Cardinality(Pending) \in Nat /\ Cardinality(Pending') \in Nat
         /\ Cardinality(Pending') <= Cardinality(Pending)
         /\ Cardinality(Pending) <= Cardinality(Recipients)
<1>1. Pending \subseteq Recipients
  BY DEF Pending
<1>2. IsFiniteSet(Pending) /\ IsFiniteSet(Pending')
  BY <1>1, RecipientAssumption, FS_Subset
<1>. QED BY <1>1, <1>2, RecipientAssumption, FS_Subset, FS_CardinalityType

LEMMA WorkerOnce ==
  ASSUME OnceInv, HoldInv', WholeMoves, NEW w \in Workers,
         Queueing(w) \/ Process(w) \/ AcquirePermit(w) \/ Send(w) \/ Disturb(w)
  PROVE  JobsTidy' /\ DraftUntouched'
<1>. USE DEF OnceInv, HoldInv, TypeOK, JobsOK, MysqlOK
<1>1. /\ campaign' = campaign \/ (Complete(w) /\ campaign' = "completed")
      /\ \A r \in Recipients : rcp'[r] \in {rcp[r], "sent", "failed"}
  BY WorkerRows
<1>2. UNCHANGED jobs
  BY WorkerUnsent DEF Requeue
<1>3. Untouched => Untouched' /\ campaign' = campaign
  BY <1>1, WorkerUntouched
<1>4. Pending' \subseteq Pending
  BY <1>1 DEF Pending
<1>5. \A j \in Jobs : scanned[j] # 0 => Cardinality(Pending') <= scanned[j]
  BY <1>4, PendingShrinks DEF JobsTidy
<1>6. campaign' = campaign \/ (campaign # "draft" /\ campaign' = "completed")
  BY <1>1, <1>3 DEF DraftUntouched
<1>7. JobsTidy'
  BY <1>2, <1>3, <1>5, <1>6 DEF JobsTidy, jobs
<1>. QED BY <1>3, <1>6, <1>7 DEF DraftUntouched

\* A job's step other than the first ZADD leaves no message that was not there.
LEMMA JobMsgs ==
  ASSUME NEW P, UNCHANGED <<engine, retryQ>>, globalQ' \subseteq Msgs(P),
         \A j \in Jobs : Added(j)' \subseteq Added(j)
  PROVE  Msgs(P)' \subseteq Msgs(P)
<1>1. Parked' \subseteq Parked /\ \A w \in Workers : InHand(w)' = InHand(w)
  BY EngineStays
<1>2. \A w \in Workers : Left(w, P)' = Left(w, P)
  BY <1>1 DEF Left, engine
<1>. QED BY <1>1, <1>2 DEF Msgs

LEMMA JobQuiet ==
  ASSUME OnceInv, UNCHANGED <<hasMedia, engine, delivered, retryQ>>,
         globalQ' \subseteq AllUnsent, \A j \in Jobs : Added(j)' \subseteq Added(j)
  PROVE  AllUnsent' \subseteq AllUnsent /\ (Untouched => Untouched')
<1>1. PICK P \in Ends : /\ Past = P /\ AllUnsent = Msgs(P)
                        /\ Past' = P /\ AllUnsent' = Msgs(P)'
  BY PastEnds DEF OnceInv, HoldInv
<1>2. AllUnsent' \subseteq AllUnsent
  BY <1>1, JobMsgs
<1>. QED BY <1>1, <1>2 DEF Untouched, engine

\* The first ZADD makes the one new message.
LEMMA EnqueueMsgs ==
  ASSUME NEW j \in Jobs, EnqueueAccount(j)
  PROVE  \E r, m :
           /\ r \in todo[j] /\ m.rcp = r /\ m.tries = 0 /\ adding' = [adding EXCEPT ![j] = m]
           /\ todo' = [todo EXCEPT ![j] = @ \ {r}]
           /\ \A P : Msgs(P)' \subseteq Msgs(P) \cup {m}
<1>1. PICK r, m : /\ r \in todo[j] /\ m.rcp = r /\ m.tries = 0
                  /\ adding' = [adding EXCEPT ![j] = m]
                  /\ todo' = [todo EXCEPT ![j] = @ \ {r}]
  BY DEF EnqueueAccount
<1>2. UNCHANGED <<globalQ, retryQ, engine>>
  BY DEF EnqueueAccount
<1>3. Parked' \subseteq Parked /\ \A w \in Workers : InHand(w)' = InHand(w)
  BY <1>2, EngineStays
<1>4. \A i \in Jobs : Added(i)' \subseteq Added(i) \cup {m}
  BY <1>1 DEF Added
<1>5. ASSUME NEW P PROVE Msgs(P)' \subseteq Msgs(P) \cup {m}
  <2>1. \A w \in Workers : Left(w, P)' = Left(w, P)
    BY <1>2, <1>3 DEF Left, engine
  <2>. QED BY <1>2, <1>3, <1>4, <2>1 DEF Msgs
<1>. QED BY <1>1, <1>5

\* What JobsTidy, DraftUntouched and SentOnce ask of a step of client c, the only
\* job there is, that enqueues nothing.
LEMMA JobOnce ==
  ASSUME OnceInv, HoldInv', OneStart, NEW c \in Clients,
         UNCHANGED <<hasMedia, redis, engine, delivered>>,
         \A j \in Jobs : j # c => /\ jpc'[j] = jpc[j] /\ scanned'[j] = scanned[j]
                                  /\ todo'[j] = todo[j] /\ adding'[j] = adding[j],
         adding'[c] \in {adding[c], NoMessage}, Pending' \subseteq Pending,
         jpc'[c] \in {"idle", "validate", "launch", "deleteCampaign"} \cup Scans \cup Filling,
         jpc'[c] \notin {"enqueue", "enqueueGlobal"} => todo'[c] = {},
         jpc'[c] \notin Filling => scanned'[c] = 0,
         jpc'[c] \in {"enqueue", "enqueueGlobal"} => scanned'[c] # 0,
         scanned'[c] # 0 => scanned'[c] = scanned[c] \/ scanned'[c] = Cardinality(Pending),
         jpc'[c] \in Scans \cup Filling => campaign' # "draft",
         jpc'[c] = "validate" => campaign' \in {"draft", "completed"},
         jpc'[c] = "launch" => campaign' = "draft",
         jpc'[c] \in Scans \/ (jpc'[c] = "page" /\ scanned'[c] = 0) => Untouched,
         campaign' # "paused", campaign' = "draft" => campaign = "draft",
         todo'[c] \subseteq todo[c] \/ Untouched
  PROVE  JobsTidy' /\ DraftUntouched' /\ SentOnce'
<1>. USE DEF OnceInv, HoldInv, TypeOK, JobsOK
<1>1. \A j \in Jobs : j = c \/ (j = Recovery /\ j # c)
  BY JobAssumption DEF OneStart, Jobs
<1>2. \A j \in Jobs : Added(j)' \subseteq Added(j)
  BY DEF Added
<1>3. AllUnsent' \subseteq AllUnsent /\ (Untouched => Untouched')
  <2>1. UNCHANGED <<globalQ, retryQ>> /\ globalQ \subseteq AllUnsent
    BY DEF redis, AllUnsent, Msgs
  <2>. QED BY <1>2, <2>1, JobQuiet
<1>4. c \in Jobs /\ Recovery \in Jobs
  BY DEF Jobs
<1>5. \A j \in Jobs : scanned'[j] # 0 => Cardinality(Pending') <= scanned'[j]
  <2>1. scanned'[c] # 0 => Cardinality(Pending) <= scanned'[c]
    BY <1>4, PendingShrinks DEF JobsTidy
  <2>2. Recovery # c /\ scanned[Recovery] = 0
    BY <1>4, JobAssumption DEF JobsTidy, Filling
  <2>. QED BY <1>1, <1>4, <2>1, <2>2, PendingShrinks
<1>6. JobsTidy'
  <2>1. Recovery # c /\ jpc[Recovery] = "idle" /\ todo[Recovery] = {} /\ scanned[Recovery] = 0
    BY <1>4, JobAssumption DEF JobsTidy, Filling
  <2>2. /\ jpc'[Recovery] = "idle" /\ todo'[Recovery] = {} /\ scanned'[Recovery] = 0
    BY <1>4, <2>1
  <2>. QED BY <1>1, <1>3, <1>5, <2>1, <2>2 DEF JobsTidy, Scans, Filling
<1>7. SentOnce'
  <2>1. CASE \A j \in Jobs : todo'[j] \subseteq todo[j]
    BY <1>3, <2>1, OnceQuiet
  <2>2. CASE Untouched
    BY <1>3, <2>2 DEF SentOnce, Untouched
  <2>. QED BY <1>1, <2>1, <2>2
<1>. QED BY <1>3, <1>6, <1>7 DEF DraftUntouched

\* The request handlers, up to the enqueue.
LEMMA HandlerOnce ==
  ASSUME OnceInv, HoldInv', OneStart, NEW c \in Clients,
         Request(c) \/ (Handler(c) /\ ~EnqueueCampaign(c)) \/ Abandon(c)
  PROVE  JobsTidy' /\ DraftUntouched' /\ SentOnce'
<1>. c \in Jobs
  BY DEF Jobs
<1>. USE DEF OnceInv, HoldInv, TypeOK, JobsOK, JGoto
<1>1. ~PauseRead(c) /\ ~ResetRead(c) /\ ~EditStatus(c) /\ ~AddRecipient(c)
  BY DEF OneStart, PauseRead, ResetRead, EditStatus, AddRecipient
<1>2. /\ ~Restore(c) /\ ~PauseTx(c) /\ ~PurgeAccount(c) /\ ~PurgeGlobal(c)
      /\ ~PurgeRetry(c) /\ ~ResetRows(c) /\ ~ResetStatus(c)
  BY DEF JobsTidy, Scans, Filling, Restore, PauseTx, PurgeAccount, PurgeGlobal,
         PurgeRetry, ResetRows, ResetStatus
<1>3. CASE StartRead(c)
  <2>1. /\ UNCHANGED <<mysql, scanned, todo, adding, redis, engine, delivered>>
        /\ jpc[c] = "idle" /\ jpc' = [jpc EXCEPT ![c] = "validate"]
        /\ campaign \in {"draft", "completed"}
    BY <1>3 DEF StartRead, DraftUntouched, MysqlOK, CampaignStatus
  <2>2. Pending' = Pending /\ UNCHANGED <<hasMedia, campaign>>
    BY <2>1 DEF mysql, Pending
  <2>. QED BY <2>1, <2>2, JobOnce DEF JobsTidy, Scans, Filling, DraftUntouched
<1>4. CASE Validate(c)
  <2>1. /\ UNCHANGED <<mysql, scanned, todo, adding, redis, engine, delivered>>
        /\ jpc[c] = "validate"
        /\ \/ jpc' = [jpc EXCEPT ![c] = "launch"] /\ Pending # {}
           \/ jpc' = [jpc EXCEPT ![c] = "idle"]
    BY <1>4 DEF Validate
  <2>2. Pending' = Pending /\ UNCHANGED <<hasMedia, campaign>>
    BY <2>1 DEF mysql, Pending
  <2>3. jpc'[c] = "launch" => campaign = "draft"
    BY <2>1 DEF JobsTidy, SettledInv, CountedNone
  <2>. QED BY <2>1, <2>2, <2>3, JobOnce DEF JobsTidy, Scans, Filling, DraftUntouched
<1>5. CASE Launch(c)
  <2>1. /\ UNCHANGED <<hasMedia, rcp, scanned, todo, adding, redis, engine, delivered>>
        /\ jpc[c] = "launch" /\ campaign = "draft" /\ campaign' = "running"
        /\ \/ jpc' = [jpc EXCEPT ![c] = "scanAccount"]
           \/ jpc' = [jpc EXCEPT ![c] = "idle"]
    BY <1>5 DEF Launch, JobsTidy
  <2>2. Pending' = Pending
    BY <2>1 DEF Pending
  <2>. QED BY <2>1, <2>2, JobOnce DEF JobsTidy, Scans, Filling, DraftUntouched
<1>6. CASE DeleteRecipient(c) \/ DeleteAllRows(c) \/ DeleteCampaign(c)
  <2>1. /\ UNCHANGED <<hasMedia, scanned, todo, adding, redis, engine, delivered>>
        /\ jpc[c] \in {"idle", "deleteCampaign"}
        /\ \E l \in {"idle", "deleteCampaign"} : jpc' = [jpc EXCEPT ![c] = l]
        /\ campaign' \in {campaign, "deleted"}
    BY <1>6 DEF DeleteRecipient, DeleteAllRows, DeleteCampaign, DeleteRows
  <2>2. Pending' \subseteq Pending
    BY <1>6 DEF DeleteRecipient, DeleteAllRows, DeleteCampaign, DeleteRows, Pending, MysqlOK
  <2>. QED BY <2>1, <2>2, JobOnce DEF JobsTidy, Scans, Filling, DraftUntouched
<1>7. CASE Abandon(c)
  <2>1. JReset(c) /\ UNCHANGED <<mysql, redis, engine, delivered>>
    BY <1>7 DEF Abandon
  <2>2. Pending' = Pending /\ UNCHANGED <<hasMedia, campaign>>
    BY <2>1 DEF mysql, Pending
  <2>. QED BY <2>1, <2>2, JobOnce DEF JReset, Scans, Filling, DraftUntouched
<1>. QED BY <1>1, <1>2, <1>3, <1>4, <1>5, <1>6, <1>7 DEF Request, Handler

\* The only page holds every pending row, and the next one none.
LEMMA OnePage ==
  ASSUME OnceInv, OneStart, NEW j \in Jobs, jpc[j] = "page", NEW p \in Pages(j)
  PROVE  /\ Cardinality(p) \in Nat /\ (Cardinality(p) = 0 <=> p = {})
         /\ IF scanned[j] = 0 THEN Cardinality(p) = Cardinality(Pending) ELSE p = {}
<1>. USE DEF OnceInv, HoldInv, TypeOK, JobsOK
<1>1. p \subseteq Recipients
  BY PageSizes
<1>2. IsFiniteSet(p)
  BY <1>1, RecipientAssumption, FS_Subset
<1>3. Cardinality(p) \in Nat /\ (Cardinality(p) = 0 <=> p = {})
  BY <1>2, FS_CardinalityType, FS_EmptySet
<1>4. /\ Cardinality(Pending) \in Nat /\ Cardinality(Pending) <= Cardinality(Recipients)
      /\ Cardinality(Recipients) \in Nat
  BY RecipientAssumption, FS_CardinalityType, FS_Subset DEF Pending
<1>5. Cardinality(Pending) <= PageSize
  BY <1>4, BoundAssumption DEF OneStart
<1>6. scanned[j] # 0 => Cardinality(Pending) <= scanned[j]
  BY DEF JobsTidy
<1>7. CASE scanned[j] = 0
  BY <1>3, <1>4, <1>5, <1>7, BoundAssumption DEF Pages
<1>8. CASE scanned[j] # 0
  BY <1>3, <1>6, <1>8 DEF Pages
<1>. QED BY <1>3, <1>7, <1>8

LEMMA EnqueueOnce ==
  ASSUME OnceInv, HoldInv', OneStart, NEW j \in Jobs,
         EnqueueCampaign(j) \/ PageFails(j) \/ EnqueueFails(j)
  PROVE  JobsTidy' /\ DraftUntouched' /\ SentOnce'
<1>. USE DEF OnceInv, HoldInv, TypeOK, JobsOK, JGoto
<1>1. jpc[j] \in Scans \cup Filling
  BY DEF EnqueueCampaign, ScanAccount, ScanGlobal, ScanRetry, ScanKeys, ReadPage,
         EnqueueAccount, EnqueueGlobal, EnqueueNothing, PageFails, EnqueueFails, Scans, Filling
<1>2. j \in Clients /\ Recovery # j /\ Recovery \in Jobs /\ \A i \in Jobs : i = j \/ i = Recovery
  BY <1>1 DEF JobsTidy, Scans, Filling, Jobs, OneStart
<1>3. CASE ScanAccount(j) \/ ScanGlobal(j) \/ ScanRetry(j)
  <2>1. /\ UNCHANGED <<mysql, scanned, todo, adding, redis, engine, delivered>>
        /\ jpc[j] \in Scans
        /\ \E l \in Scans \cup {"page"} : jpc' = [jpc EXCEPT ![j] = l]
    BY <1>3 DEF ScanAccount, ScanGlobal, ScanRetry, ScanKeys, Scans
  <2>2. Pending' = Pending /\ UNCHANGED <<hasMedia, campaign>>
    BY <2>1 DEF mysql, Pending
  <2>. QED BY <1>2, <2>1, <2>2, JobOnce DEF JobsTidy, Scans, Filling, DraftUntouched
<1>4. CASE ReadPage(j)
  <2>1. PICK p \in Pages(j) :
          IF p = {} THEN JReset(j)
          ELSE /\ todo' = [todo EXCEPT ![j] = p \ known[j]]
               /\ scanned' = [scanned EXCEPT ![j] = @ + Cardinality(p)]
               /\ JGoto(j, "enqueue")
               /\ UNCHANGED <<known, adding>>
    BY <1>4 DEF ReadPage
  <2>2. jpc[j] = "page" /\ UNCHANGED <<mysql, redis, engine, delivered>>
    BY <1>4 DEF ReadPage
  <2>3. Pending' = Pending /\ UNCHANGED <<hasMedia, campaign>>
    BY <2>2 DEF mysql, Pending
  <2>4. CASE p = {}
    <3>1. JReset(j)
      BY <2>1, <2>4
    <3>. QED BY <1>2, <2>2, <2>3, <3>1, JobOnce DEF JReset, Scans, Filling, DraftUntouched
  <2>5. CASE p # {}
    <3>1. /\ scanned[j] = 0 /\ Cardinality(p) = Cardinality(Pending)
          /\ Cardinality(p) \in Nat \ {0}
      BY <2>2, <2>5, OnePage
    <3>2. Untouched /\ campaign # "draft"
      BY <2>2, <3>1 DEF JobsTidy, Filling
    <3>3. /\ scanned' = [scanned EXCEPT ![j] = Cardinality(Pending)]
          /\ jpc' = [jpc EXCEPT ![j] = "enqueue"] /\ UNCHANGED adding
          /\ \A i \in Jobs : i # j => todo'[i] = todo[i]
      BY <2>1, <2>5, <3>1
    <3>. QED BY <1>2, <2>2, <2>3, <3>1, <3>2, <3>3, JobOnce DEF Scans, Filling, DraftUntouched
  <2>. QED BY <2>4, <2>5
<1>5. CASE EnqueueNothing(j)
  <2>1. /\ jpc[j] = "enqueue" /\ todo[j] = {} /\ NextRow(j, {})
        /\ UNCHANGED <<mysql, redis, engine, delivered>>
    BY <1>5 DEF EnqueueNothing
  <2>2. Pending' = Pending /\ UNCHANGED <<hasMedia, campaign>>
    BY <2>1 DEF mysql, Pending
  <2>. QED BY <1>2, <2>1, <2>2, JobOnce
           DEF JobsTidy, NextRow, JReset, Scans, Filling, DraftUntouched
<1>6. CASE PageFails(j)
  <2>1. JReset(j) /\ UNCHANGED <<mysql, redis, engine, delivered>>
    BY <1>6 DEF PageFails
  <2>2. Pending' = Pending /\ UNCHANGED <<hasMedia, campaign>>
    BY <2>1 DEF mysql, Pending
  <2>. QED BY <1>2, <2>1, <2>2, JobOnce DEF JReset, Scans, Filling, DraftUntouched
<1>7. CASE EnqueueAccount(j)
  <2>1. PICK r, m :
          /\ r \in todo[j] /\ m.rcp = r /\ adding' = [adding EXCEPT ![j] = m]
          /\ todo' = [todo EXCEPT ![j] = @ \ {r}]
          /\ \A P : Msgs(P)' \subseteq Msgs(P) \cup {m}
    BY <1>7, EnqueueMsgs
  <2>2. /\ UNCHANGED <<mysql, scanned, globalQ, retryQ, engine, delivered>>
        /\ jpc[j] = "enqueue" /\ jpc' = [jpc EXCEPT ![j] = "enqueueGlobal"]
    BY <1>7 DEF EnqueueAccount
  <2>3. Pending' = Pending /\ UNCHANGED <<hasMedia, campaign>>
    BY <2>2 DEF mysql, Pending
  <2>4. AllUnsent' \subseteq AllUnsent \cup {m}
    BY <2>1, <2>3, PastEnds
  <2>5. SentOnce'
    <3>. SUFFICES ASSUME hasMedia \/ "late" \notin Faults PROVE SentOnce'
      BY <2>3 DEF SentOnce
    <3>1. delivered[r] = 0 /\ \A n \in AllUnsent : n.rcp # r
      BY <2>1 DEF SentOnce
    <3>2. \A i \in Jobs : todo'[i] \subseteq todo[i] \ {r}
      <4>1. todo[Recovery] = {}
        BY <1>2 DEF JobsTidy
      <4>. QED BY <1>2, <2>1, <4>1
    <3>. QED BY <2>1, <2>2, <2>3, <2>4, <3>1, <3>2 DEF SentOnce
  <2>6. JobsTidy'
    <3>1. jpc[Recovery] = "idle" /\ todo[Recovery] = {} /\ scanned[Recovery] = 0
      BY <1>2 DEF JobsTidy, Filling
    <3>2. jpc'[Recovery] = "idle" /\ todo'[Recovery] = {} /\ scanned'[Recovery] = 0
      BY <1>2, <2>1, <2>2, <3>1
    <3>. QED BY <1>2, <2>2, <2>3, <3>2 DEF JobsTidy, Scans, Filling
  <2>7. DraftUntouched'
    BY <1>1, <2>3 DEF JobsTidy, DraftUntouched
  <2>. QED BY <2>5, <2>6, <2>7
<1>8. CASE EnqueueGlobal(j)
  <2>1. /\ UNCHANGED <<mysql, retryQ, engine, delivered>> /\ jpc[j] = "enqueueGlobal"
        /\ NextRow(j, todo[j]) /\ globalQ' = globalQ \cup {adding[j]}
    BY <1>8 DEF EnqueueGlobal
  <2>2. Pending' = Pending /\ UNCHANGED <<hasMedia, campaign>>
    BY <2>1 DEF mysql, Pending
  <2>3. scanned[j] # 0 /\ campaign # "draft"
    BY <2>1 DEF JobsTidy, Filling
  <2>4. /\ \A i \in Jobs : todo'[i] \subseteq todo[i]
        /\ adding' = [adding EXCEPT ![j] = NoMessage]
        /\ \/ /\ jpc' = [jpc EXCEPT ![j] = "idle"] /\ scanned' = [scanned EXCEPT ![j] = 0]
              /\ todo'[j] = {}
           \/ /\ jpc' = [jpc EXCEPT ![j] = IF todo[j] = {} THEN "page" ELSE "enqueue"]
              /\ UNCHANGED scanned /\ todo' = todo
    BY <2>1 DEF NextRow, JReset
  <2>5. AllUnsent' \subseteq AllUnsent
    <3>1. globalQ' \subseteq AllUnsent
      BY <2>1 DEF AllUnsent, Msgs, Added
    <3>2. \A i \in Jobs : Added(i)' \subseteq Added(i)
      BY <2>4 DEF Added
    <3>. QED BY <2>1, <2>2, <3>1, <3>2, JobQuiet
  <2>6. SentOnce'
    BY <2>1, <2>2, <2>4, <2>5, OnceQuiet
  <2>7. JobsTidy'
    <3>1. jpc[Recovery] = "idle" /\ todo[Recovery] = {} /\ scanned[Recovery] = 0
      BY <1>2 DEF JobsTidy, Filling
    <3>2. jpc'[Recovery] = "idle" /\ todo'[Recovery] = {} /\ scanned'[Recovery] = 0
      BY <1>2, <2>4, <3>1
    <3>. QED BY <1>2, <2>2, <2>3, <2>4, <3>2 DEF JobsTidy, Scans, Filling
  <2>8. DraftUntouched'
    BY <2>2, <2>3 DEF DraftUntouched
  <2>. QED BY <2>6, <2>7, <2>8
<1>9. ~EnqueueFails(j)
  BY DEF EnqueueFails, OneStart
<1>. QED BY <1>3, <1>4, <1>5, <1>6, <1>7, <1>8, <1>9 DEF EnqueueCampaign

\* Worker 0 looks into the retry queue: nothing is moved yet.
LEMMA ScanMsgs ==
  ASSUME HoldInv, ScanRetryQueue
  PROVE  \A P : Msgs(P)' \subseteq Msgs(P)
<1>. TAKE P
<1>. USE DEF HoldInv, TypeOK, EngineOK, WGoto
<1>. DEFINE z == RetryWorker
<1>1. PICK R \in SUBSET retryQ : batch' = [batch EXCEPT ![z] = R]
  BY DEF ScanRetryQueue
<1>2. /\ wpc[z] = "idle" /\ wpc' = [wpc EXCEPT ![z] = "moveAccount"]
      /\ UNCHANGED <<globalQ, retryQ, cur, adding>>
  BY DEF ScanRetryQueue, redis, jobs
<1>3. Parked' \subseteq Parked
  BY <1>1, <1>2, WorkerAssumption DEF Parked, Unmoved, Moving
<1>4. \A v \in Workers : Left(v, P)' \subseteq Left(v, P)
  BY <1>1, <1>2, WorkerAssumption DEF Left, InHand, Moving
<1>5. \A j \in Jobs : Added(j)' = Added(j)
  BY <1>2 DEF Added
<1>. QED BY <1>2, <1>3, <1>4, <1>5 DEF Msgs

LEMMA TaskOnce ==
  ASSUME OnceInv, HoldInv', OneStart,
         \/ RecoverTick \/ EnqueueCampaign(Recovery) \/ ScanRetryQueue \/ Crash
         \/ UNCHANGED vars
  PROVE  JobsTidy' /\ DraftUntouched' /\ SentOnce'
<1>. USE DEF OnceInv, HoldInv, TypeOK, EngineOK, JobsOK, WGoto
<1>. Recovery \in Jobs
  BY DEF Jobs
<1>1. ~RecoverTick /\ ~Crash
  BY DEF RecoverTick, Crash, OneStart
<1>2. CASE EnqueueCampaign(Recovery)
  BY <1>2, EnqueueOnce
<1>3. CASE ScanRetryQueue \/ UNCHANGED vars
  <2>1. UNCHANGED <<mysql, globalQ, retryQ, cur, jobs, delivered>>
    BY <1>3 DEF ScanRetryQueue, vars, mysql, redis, jobs
  <2>2. Pending' = Pending /\ UNCHANGED <<hasMedia, campaign>>
    BY <2>1 DEF mysql, Pending
  <2>3. AllUnsent' \subseteq AllUnsent
    <3>1. CASE ScanRetryQueue
      BY <2>2, <3>1, ScanMsgs, PastEnds
    <3>2. CASE UNCHANGED vars
      BY <3>2 DEF vars, AllUnsent, Past, Msgs, Parked, Unmoved, Left, InHand, Added
    <3>. QED BY <1>3, <3>1, <3>2
  <2>4. Untouched => Untouched'
    <3>1. \A v \in Workers : wpc'[v] \in Past' => wpc[v] \in Past
      BY <1>3, <2>2 DEF ScanRetryQueue, vars, Past, Done, Tried, Erred
    <3>. QED BY <2>1, <2>3, <3>1 DEF Untouched
  <2>5. SentOnce'
    BY <2>1, <2>2, <2>3, OnceQuiet DEF jobs
  <2>. QED BY <2>1, <2>2, <2>4, <2>5 DEF JobsTidy, DraftUntouched, jobs
<1>. QED BY <1>1, <1>2, <1>3

LEMMA InitOnce == ASSUME OneStart, Init PROVE OnceInv
<1>1. SettledInv
  BY InitTypeOK DEF Init, SettledInv, NobodyReturns, CountedNone, Jobs
<1>2. HoldInv
  BY InitHold
<1>3. /\ globalQ = {} /\ Parked = {} /\ \A w \in Workers : Left(w, Past) = {}
      /\ \A j \in Jobs : Added(j) = {}
  BY WorkerAssumption
     DEF Init, Parked, Unmoved, Left, InHand, Added, Moving, Past, Done, Tried, Erred
<1>4. AllUnsent = {}
  BY <1>3 DEF AllUnsent, Msgs
<1>5. Untouched
  BY <1>4 DEF Init, Untouched, Past, Done, Tried, Erred
<1>6. JobsTidy /\ DraftUntouched
  BY <1>5 DEF Init, JobsTidy, DraftUntouched, Scans, Filling
<1>7. SentOnce
  BY <1>4 DEF Init, SentOnce
<1>. QED BY <1>1, <1>2, <1>6, <1>7 DEF OnceInv

LEMMA NextOnce == ASSUME OnceInv, OneStart, [Next]_vars PROVE OnceInv'
<1>1. LeftAlone /\ WholeMoves
  BY OnceScope
<1>2. SettledInv'
  BY <1>1, NextTypeOK, RequestSettled, TaskSettled, WorkerSettled
     DEF OnceInv, SettledInv, Next
<1>3. HoldInv'
  BY <1>1, NextHold DEF OnceInv
<1>4. JobsTidy' /\ DraftUntouched' /\ SentOnce'
  <2>1. ASSUME NEW c \in Clients, Request(c) \/ Handler(c) \/ Abandon(c)
        PROVE  JobsTidy' /\ DraftUntouched' /\ SentOnce'
    BY <1>3, <2>1, HandlerOnce, EnqueueOnce DEF Jobs
  <2>2. ASSUME NEW j \in Jobs, PageFails(j) \/ EnqueueFails(j)
        PROVE  JobsTidy' /\ DraftUntouched' /\ SentOnce'
    BY <1>3, <2>2, EnqueueOnce
  <2>3. ASSUME NEW w \in Workers,
               Queueing(w) \/ Process(w) \/ AcquirePermit(w) \/ Send(w) \/ Disturb(w)
        PROVE  JobsTidy' /\ DraftUntouched' /\ SentOnce'
    BY <1>1, <1>3, <2>3, WorkerOnce, WorkerSentOnce DEF OnceInv
  <2>. QED BY <1>3, <2>1, <2>2, <2>3, TaskOnce DEF Next
<1>. QED BY <1>2, <1>3, <1>4 DEF OnceInv

\* process_single_message checks the row before it sends and writes it after, with
\* any number of workers in between and retries that go through two queues: what
\* keeps a recipient from being written to twice is that there is one message for
\* it, that one worker has it, and that only a send that failed puts it back.
THEOREM NobodyIsWrittenTwice == ASSUME OneStart PROVE Spec => []AtMostOnce
<1>1. Init => OnceInv
  BY InitOnce
<1>2. OnceInv /\ [Next]_vars => OnceInv'
  BY NextOnce
<1>3. OnceInv => AtMostOnce
  BY DEF OnceInv, SentOnce, AtMostOnce
<1>. QED BY <1>1, <1>2, <1>3, PTL DEF Spec

-----------------------------------------------------------------------------
(* The promise is kept                                                      *)

\* The messages whose outcome no row shows yet, and those not sent yet.
Open  == Msgs(Done)
Fresh == Msgs(Done \cup Tried)

\* Rows are pending until they are settled or deleted, the last ones with the campaign.
RowsTidy ==
  /\ \A r \in Recipients : rcp[r] \in {"pending", "sent", "failed", "deleted"}
  /\ campaign = "deleted" => \A r \in Recipients : rcp[r] = "deleted"

\* The row of an open message is nobody else's to settle; who is still to be enqueued
\* has no message yet and has had none.
OpenOnce ==
  /\ \A m \in Open : rcp[m.rcp] \in {"pending", "deleted"}
  /\ \A m, n \in Open : m.rcp = n.rcp => m.id = n.id
  /\ \A j \in Jobs : \A r \in todo[j] :
       /\ rcp[r] \in {"pending", "deleted"} /\ delivered[r] = 0
       /\ \A m \in Open : m.rcp # r

\* A message carries the number of its sends: no more copies than that have arrived.
TriesCount ==
  /\ \A m \in Fresh : delivered[m.rcp] <= m.tries
  /\ \A w \in Workers : wpc[w] \in Tried => delivered[cur[w].rcp] <= cur[w].tries + 1
  /\ "late" \notin Faults =>
       \A w \in Workers : wpc[w] \in Erred => delivered[cur[w].rcp] = 0

KeptInv == OnceInv /\ SentInv /\ RowsTidy /\ OpenOnce /\ TriesCount

LEMMA KeptIsTyped == ASSUME KeptInv PROVE HoldInv /\ TypeOK
BY DEF KeptInv, OnceInv, HoldInv

\* Who has a message that is not settled; and whose message that is.
LEMMA HeldIsOpen ==
  ASSUME HoldInv, NEW w \in Workers, wpc[w] \notin Slotless \cup Moving
  PROVE  /\ cur[w] \in Message /\ cur[w] \in InHand(w) /\ cur[w] \notin batch[w]
         /\ wpc[w] \notin Done => cur[w] \in Open
         /\ wpc[w] \notin Done \cup Tried => cur[w] \in Fresh
         /\ wpc[w] \notin Past => cur[w] \in AllUnsent
<1>1. cur[w] \in Message /\ cur[w] # NoMessage /\ cur[w] \notin batch[w]
  BY DEF HoldInv, TypeOK, EngineOK, Slotless, WorkersTidy
<1>2. cur[w] \in InHand(w)
  BY <1>1 DEF InHand
<1>3. \A P : wpc[w] \notin P => cur[w] \in Msgs(P)
  BY <1>2 DEF Left, Msgs
<1>. QED BY <1>1, <1>2, <1>3 DEF Open, Fresh, AllUnsent

LEMMA OpenIsMessage ==
  ASSUME HoldInv
  PROVE  Fresh \subseteq Open /\ Open \subseteq Message /\ Fresh \subseteq AllUnsent
<1>. USE DEF HoldInv, TypeOK, RedisOK, EngineOK, JobsOK
<1>1. Fresh \subseteq Open /\ Fresh \subseteq AllUnsent
  BY DEF Fresh, Open, AllUnsent, Msgs, Left, Past, Tried
<1>2. globalQ \cup Parked \subseteq Message
  BY WorkerAssumption DEF Parked, Unmoved
<1>3. \A w \in Workers : Left(w, Done) \subseteq Message
  BY DEF Left, InHand
<1>4. \A j \in Jobs : Added(j) \subseteq Message
  BY DEF Added
<1>. QED BY <1>1, <1>2, <1>3, <1>4 DEF Open, Msgs

LEMMA UntouchedOpen == ASSUME Untouched PROVE Open = {}
<1>1. \A w \in Workers : Left(w, Done) = Left(w, Past)
  BY DEF Untouched, Left, Past
<1>2. Open \subseteq AllUnsent
  BY <1>1 DEF Open, AllUnsent, Msgs
<1>. QED BY <1>2 DEF Untouched

\* No two workers are at it for one recipient.
LEMMA OneSender ==
  ASSUME KeptInv, NEW v \in Workers, NEW w \in Workers, v # w,
         wpc[v] \notin Slotless \cup Moving \cup Done,
         wpc[w] \notin Slotless \cup Moving \cup Done
  PROVE  cur[v].rcp # cur[w].rcp
<1>1. /\ cur[v] \in InHand(v) /\ cur[v] \in Open
      /\ cur[w] \in InHand(w) /\ cur[w] \in Open
  BY KeptIsTyped, HeldIsOpen
<1>2. cur[v].id # cur[w].id
  BY <1>1, KeptIsTyped DEF HoldInv, IdsOnce, Apart
<1>. QED BY <1>1, <1>2 DEF KeptInv, OpenOnce

\* A step that sends nothing, makes no message and writes no row but to delete it.
LEMMA KeptQuiet ==
  ASSUME KeptInv, TypeOK', Open' \subseteq Open, Fresh' \subseteq Fresh, UNCHANGED delivered,
         \A r \in Recipients : rcp'[r] \in {rcp[r], "deleted"},
         campaign' = "deleted" => campaign = "deleted" \/ \A r \in Recipients : rcp'[r] = "deleted",
         \A j \in Jobs : todo'[j] \subseteq todo[j],
         \A v \in Workers : /\ wpc'[v] \in Tried => wpc[v] \in Tried /\ cur'[v] = cur[v]
                            /\ wpc'[v] \in Erred => wpc[v] \in Erred
  PROVE  RowsTidy' /\ OpenOnce' /\ TriesCount'
<1>. USE DEF KeptInv
<1>1. RowsTidy'
  BY DEF RowsTidy
<1>2. OpenOnce'
  <2>1. \A m \in Open' : m.rcp \in Recipients
    BY KeptIsTyped, OpenIsMessage DEF Message
  <2>2. \A j \in Jobs : \A r \in todo'[j] : r \in Recipients
    BY KeptIsTyped DEF TypeOK, JobsOK
  <2>. QED BY <2>1, <2>2 DEF OpenOnce
<1>3. TriesCount'
  BY DEF TriesCount, Tried
<1>. QED BY <1>1, <1>2, <1>3

\* What a worker's step does to the others, and where it takes the worker.
LEMMA WorkerGoes ==
  ASSUME TypeOK, NEW w \in Workers,
         Queueing(w) \/ Process(w) \/ AcquirePermit(w) \/ Send(w) \/ Disturb(w)
  PROVE  /\ \A v \in Workers : v # w => UNCHANGED <<wpc[v], cur[v], batch[v]>>
         /\ ~Send(w) => /\ wpc[w] # "ready" /\ (wpc'[w] = "ready" => GateRow(w))
                        /\ wpc'[w] \in Tried => wpc[w] \in Tried /\ cur'[w] = cur[w]
                        /\ wpc'[w] \in Erred => wpc[w] \in Erred
<1>. USE DEF TypeOK, EngineOK, WGoto, Tried, Erred
<1>1. CASE Queueing(w) \/ MoveFails(w)
  BY <1>1 DEF Queueing, MoveAccount, MoveGlobal, MoveDone, FetchPop, FetchNothing,
              Unlink, MoveFails
<1>2. CASE CheckCampaign(w) \/ AcquirePermit(w) \/ MarkSent(w) \/ LogSuccess(w) \/ Fail(w)
  BY <1>2 DEF CheckCampaign, AcquirePermit, MarkSent, LogSuccess, Fail
<1>3. CASE \/ CheckHistory(w) \/ CheckRow(w) \/ Gate(w) \/ GateRow(w) \/ ErrorGate(w)
           \/ ErrorRow(w) \/ Settle(w) \/ Count(w)
  BY <1>3 DEF CheckHistory, CheckRow, Gate, GateRow, ErrorGate, ErrorRow, Settle, Count,
              Check, Finish
<1>4. CASE \/ Requeue(w) \/ Complete(w) \/ LimitDrop(w) \/ MediaError(w) \/ Drop(w)
  BY <1>4 DEF Finish, GiveUp, Requeue, Complete, LimitDrop, MediaError, Drop
<1>5. CASE Send(w)
  BY <1>5 DEF Send, SendOk, SendError, SendLate
<1>. QED BY <1>1, <1>2, <1>3, <1>4, <1>5 DEF Process, Disturb

LEMMA WorkerWrites ==
  ASSUME NEW w \in Workers,
         Queueing(w) \/ Process(w) \/ AcquirePermit(w) \/ Send(w) \/ Disturb(w)
  PROVE  /\ UNCHANGED <<hasMedia, jobs>>
         /\ MarkSent(w) \/ Fail(w) \/ MediaError(w) \/ UNCHANGED rcp
         /\ Complete(w) \/ UNCHANGED campaign
         /\ Send(w) \/ UNCHANGED delivered
BY DEF mysql, Check, GiveUp, Queueing, Process, Send, Disturb, Drop, MoveAccount,
   MoveGlobal, MoveDone, FetchPop, FetchNothing, Unlink, MoveFails, CheckCampaign,
   CheckHistory, CheckRow, Gate, GateRow, ErrorGate, ErrorRow, Settle, Count,
   AcquirePermit, SendOk, SendError, SendLate, MarkSent, LogSuccess, Requeue, Fail,
   Complete, MediaError, LimitDrop

LEMMA SendingStays ==
  ASSUME NEW w \in Workers, wpc[w] # "ready", wpc'[w] # "ready",
         \A v \in Workers : v # w => UNCHANGED <<wpc[v], cur[v]>>
  PROVE  Sending' = Sending
BY DEF Sending

\* A step that the promise does not see.
LEMMA Unseen ==
  ASSUME UNCHANGED <<hasMedia, campaign, rcp, delivered, Sending>>
  PROVE  [Promise!Next]_(Promise!vars)
BY DEF Promise!vars

\* Who sends is the only one who may for its recipient, has sent less often than the
\* promise allows, and is not sending any more.
LEMMA SendKept ==
  ASSUME KeptInv, HoldInv', WholeMoves, NEW w \in Workers, Send(w)
  PROVE  RowsTidy' /\ OpenOnce' /\ TriesCount' /\ [Promise!Next]_(Promise!vars)
<1>. DEFINE r == cur[w].rcp
<1>. USE KeptIsTyped DEF TypeOK
<1>1. /\ wpc[w] = "ready" /\ wpc'[w] \in {"sent", "error"}
      /\ UNCHANGED <<hasMedia, campaign, rcp, redis, cur, batch, todo, adding>>
      /\ \A v \in Workers : v # w => wpc'[v] = wpc[v]
  BY DEF EngineOK, WGoto, Send, SendOk, SendError, SendLate, mysql, jobs
<1>2. /\ cur[w] \in Message /\ cur[w] \in InHand(w) /\ cur[w] \notin batch[w]
      /\ cur[w] \in Open /\ cur[w] \in Fresh /\ cur[w] \in AllUnsent
  BY <1>1, HeldIsOpen DEF Slotless, Moving, Past, Done, Tried, Erred
<1>3. Open' \subseteq Open /\ Fresh' \subseteq Fresh
  BY WorkerMsgs DEF Open, Fresh, Ends, HoldInv, Requeue, Send, SendOk, SendError, SendLate
<1>4. \A m \in Fresh' : m.rcp # r
  <2>1. /\ UNCHANGED <<globalQ, retryQ>> /\ \A j \in Jobs : Added(j)' \subseteq Added(j)
    BY <1>1 DEF redis, Added
  <2>2. Parked' \subseteq Parked /\ \A v \in Workers : InHand(v)' \subseteq InHand(v)
    BY <1>1, <2>1, WorkerAssumption DEF Parked, Unmoved, InHand, Moving
  <2>3. cur[w] \notin Left(w, Done \cup Tried)'
    BY <1>1 DEF Left, Tried, Erred
  <2>4. \A m \in Fresh' : m.id # cur[w].id
    BY <1>2, <2>1, <2>2, <2>3, Gone DEF Fresh
  <2>. QED BY <1>2, <1>3, <2>4, OpenIsMessage DEF KeptInv, OpenOnce
<1>5. r \in Recipients /\ cur[w].tries \in Nat /\ cur[w].tries <= MaxRetries
  BY <1>2, BoundAssumption DEF Message
<1>6. /\ \A q \in Recipients : q # r => delivered'[q] = delivered[q]
      /\ delivered'[r] <= delivered[r] + 1
      /\ SendError(w) => delivered' = delivered
  BY <1>5 DEF Send, SendOk, SendError, SendLate, Deliver, Target
<1>7. \A v \in Workers : v # w /\ wpc[v] \in Tried => cur[v].rcp # r /\ cur[v].rcp \in Recipients
  <2>. SUFFICES ASSUME NEW v \in Workers, v # w, wpc[v] \in Tried
                PROVE  cur[v].rcp # r /\ cur[v].rcp \in Recipients
    OBVIOUS
  <2>1. wpc[v] \notin Slotless \cup Moving \cup Done
    BY DEF Tried, Erred, Slotless, Moving, Done
  <2>2. wpc[w] \notin Slotless \cup Moving \cup Done
    BY <1>1 DEF Slotless, Moving, Done
  <2>3. cur[v] \in Message
    BY <2>1, HeldIsOpen
  <2>. QED BY <2>1, <2>2, <2>3, OneSender DEF Message
<1>8. delivered[r] <= cur[w].tries /\ \A m \in Open : m.rcp = r => m.id = cur[w].id
  BY <1>2 DEF KeptInv, TriesCount, OpenOnce
<1>9. hasMedia \/ "late" \notin Faults => delivered[r] = 0
  BY <1>2 DEF KeptInv, OnceInv, SentOnce
<1>10. RowsTidy'
  BY <1>1 DEF KeptInv, RowsTidy
<1>11. OpenOnce'
  <2>1. \A j \in Jobs : \A q \in todo[j] : q \in Recipients /\ q # r
    BY <1>2 DEF KeptInv, OpenOnce, JobsOK
  <2>. QED BY <1>1, <1>3, <1>6, <2>1 DEF KeptInv, OpenOnce
<1>12. TriesCount'
  <2>1. \A m \in Fresh' : delivered'[m.rcp] <= m.tries
    <3>1. \A m \in Fresh' : m.rcp \in Recipients
      BY <1>3, OpenIsMessage DEF Message
    <3>. QED BY <1>3, <1>4, <1>6, <3>1 DEF KeptInv, TriesCount
  <2>2. \A v \in Workers :
          v # w /\ wpc[v] \in Tried => delivered'[cur[v].rcp] = delivered[cur[v].rcp]
    BY <1>6, <1>7
  <2>3. delivered'[r] <= cur[w].tries + 1
    BY <1>5, <1>6, <1>8 DEF HoldInv
  <2>4. "late" \notin Faults /\ wpc'[w] \in Erred => delivered'[r] = 0
    BY <1>6, <1>9 DEF Send, SendOk, SendLate, Erred, WGoto, EngineOK
  <2>. QED BY <1>1, <2>1, <2>2, <2>3, <2>4 DEF KeptInv, TriesCount, Tried
<1>13. r \in Sending /\ Sending' = Sending \ {r}
  <2>1. \A v \in Workers : v # w /\ wpc[v] = "ready" => cur[v].rcp # r
    BY <1>1, OneSender DEF Slotless, Moving, Done
  <2>. QED BY <1>1, <2>1 DEF Sending
<1>14. CASE SendOk(w) \/ SendLate(w)
  <2>1. delivered' = [delivered EXCEPT ![r] = IF @ < MaxDeliveries THEN @ + 1 ELSE @]
    BY <1>14 DEF SendOk, SendLate, Deliver, Target
  <2>2. delivered[r] < IF hasMedia \/ "late" \notin Faults THEN 1 ELSE MaxRetries + 1
    BY <1>5, <1>8, <1>9, BoundAssumption DEF HoldInv
  <2>3. Promise!Arrive(r)
    BY <1>1, <1>13, <2>1, <2>2 DEF Promise!Arrive, Promise!Allowed
  <2>. QED BY <1>5, <1>10, <1>11, <1>12, <2>3 DEF Promise!Next
<1>15. CASE SendError(w)
  <2>1. Promise!Miss(r)
    BY <1>1, <1>6, <1>13, <1>15 DEF Promise!Miss
  <2>. QED BY <1>5, <1>10, <1>11, <1>12, <2>1 DEF Promise!Next
<1>. QED BY <1>14, <1>15 DEF Send

\* A retry is the message it was, and counts the send that failed.
LEMMA RequeueKept ==
  ASSUME KeptInv, HoldInv', NEW w \in Workers, Requeue(w)
  PROVE  RowsTidy' /\ OpenOnce' /\ TriesCount' /\ [Promise!Next]_(Promise!vars)
<1>. USE KeptIsTyped DEF TypeOK
<1>. DEFINE again == [cur[w] EXCEPT !.tries = @ + 1]
<1>1. /\ wpc[w] = "retry" /\ wpc'[w] \notin Tried \cup {"ready"}
      /\ UNCHANGED <<hasMedia, campaign, rcp, todo, delivered>>
      /\ \A v \in Workers : v # w => UNCHANGED <<wpc[v], cur[v]>>
  BY DEF EngineOK, WGoto, Finish, Requeue, mysql, jobs, Tried, Erred
<1>2. cur[w] \in Message /\ cur[w] \in Open
  BY <1>1, HeldIsOpen DEF Slotless, Moving, Done
<1>3. again.id = cur[w].id /\ again.rcp = cur[w].rcp /\ again.tries = cur[w].tries + 1
  BY <1>2 DEF Message
<1>4. Open' \subseteq Open \cup {again} /\ Fresh' \subseteq Fresh \cup {again}
  BY RequeueMsgs DEF Open, Fresh, Ends, HoldInv
<1>5. delivered[cur[w].rcp] <= cur[w].tries + 1
  BY <1>1 DEF KeptInv, TriesCount, Tried, Erred
<1>. HIDE DEF again
<1>6. RowsTidy'
  BY <1>1 DEF KeptInv, RowsTidy
<1>7. OpenOnce'
  BY <1>1, <1>2, <1>3, <1>4 DEF KeptInv, OpenOnce
<1>8. TriesCount'
  BY <1>1, <1>3, <1>4, <1>5 DEF KeptInv, TriesCount, Tried
<1>9. Sending' = Sending
  BY <1>1, SendingStays
<1>. QED BY <1>1, <1>6, <1>7, <1>8, <1>9, Unseen

\* A row is written by the one worker that has its message, which is settled with it.
LEMMA RowKept ==
  ASSUME KeptInv, HoldInv', NEW w \in Workers, NEW to \in {"sent", "failed"},
         wpc[w] \notin Slotless \cup Moving \cup Done \cup {"ready"},
         wpc'[w] \notin Tried \cup {"ready"}, SetRow(cur[w].rcp, to),
         UNCHANGED <<hasMedia, campaign, globalQ, retryQ, batch, jobs, delivered>>,
         (cur' = cur /\ wpc'[w] \in Done) \/ Finish(w),
         \A v \in Workers : v # w => UNCHANGED <<wpc[v], cur[v]>>,
         Open' \subseteq Open, Fresh' \subseteq Fresh, Parked' \subseteq Parked,
         IF to = "sent" THEN delivered[cur[w].rcp] > 0
                        ELSE "late" \notin Faults => delivered[cur[w].rcp] = 0
  PROVE  RowsTidy' /\ OpenOnce' /\ TriesCount' /\ [Promise!Next]_(Promise!vars)
<1>. USE KeptIsTyped DEF TypeOK, MysqlOK
<1>. DEFINE r == cur[w].rcp
<1>1. /\ cur[w] \in Message /\ cur[w] \in InHand(w) /\ cur[w] \notin batch[w]
      /\ cur[w] \in Open /\ r \in Recipients
  BY HeldIsOpen DEF Message
<1>2. rcp[r] \in {"pending", "deleted"}
  BY <1>1 DEF KeptInv, OpenOnce
<1>3. rcp' = rcp \/ (rcp[r] = "pending" /\ rcp' = [rcp EXCEPT ![r] = to])
  BY <1>1, <1>2 DEF SetRow, Exists
<1>4. \A m \in Open' : m.rcp # r /\ m.rcp \in Recipients
  <2>1. \A v \in Workers : InHand(v)' \subseteq InHand(v)
    <3>1. \A v \in Workers : v # w => InHand(v)' = InHand(v)
      BY DEF InHand
    <3>2. cur'[w] \in {cur[w], NoMessage} /\ wpc[w] \notin Moving
      BY DEF Finish, EngineOK
    <3>3. InHand(w)' \subseteq InHand(w)
      BY <3>2 DEF InHand
    <3>. QED BY <3>1, <3>3
  <2>2. cur[w] \notin Left(w, Done)'
    BY <1>1, MessageAssumption DEF Left, InHand, Finish, EngineOK
  <2>3. \A j \in Jobs : Added(j)' \subseteq Added(j)
    BY DEF Added, jobs
  <2>4. \A m \in Open' : m.id # cur[w].id
    BY <1>1, <2>1, <2>2, <2>3, Gone DEF Open
  <2>. QED BY <1>1, <2>4, OpenIsMessage DEF KeptInv, OpenOnce, Message
<1>5. \A j \in Jobs : \A q \in todo[j] : q \in Recipients /\ q # r
  BY <1>1 DEF KeptInv, OpenOnce, JobsOK
<1>6. RowsTidy'
  BY <1>3 DEF KeptInv, RowsTidy
<1>7. OpenOnce'
  BY <1>3, <1>4, <1>5 DEF KeptInv, OpenOnce, jobs
<1>8. TriesCount'
  BY DEF KeptInv, TriesCount, Tried
<1>9. Sending' = Sending /\ r \notin Sending
  <2>1. \A v \in Workers : wpc[v] = "ready" => cur[v].rcp # r
    BY OneSender DEF Slotless, Moving, Done
  <2>. QED BY <2>1, SendingStays DEF Sending
<1>10. CASE rcp' = rcp
  BY <1>6, <1>7, <1>8, <1>9, <1>10, Unseen
<1>11. CASE rcp[r] = "pending" /\ rcp' = [rcp EXCEPT ![r] = to]
  <2>1. Promise!Settle(r, to)
    BY <1>9, <1>11 DEF Promise!Settle
  <2>2. Promise!Succeed(r) \/ Promise!GiveUp(r)
    BY <2>1 DEF Promise!Succeed, Promise!GiveUp
  <2>. QED BY <1>1, <1>6, <1>7, <1>8, <2>2 DEF Promise!Next
<1>. QED BY <1>3, <1>10, <1>11

\* Everything else a worker does changes a position, a queue or the campaign.
LEMMA WorkerKept ==
  ASSUME KeptInv, OnceInv', WholeMoves, NEW w \in Workers,
         Queueing(w) \/ Process(w) \/ AcquirePermit(w) \/ Send(w) \/ Disturb(w)
  PROVE  RowsTidy' /\ OpenOnce' /\ TriesCount' /\ [Promise!Next]_(Promise!vars)
<1>. USE KeptIsTyped
<1>. HoldInv' /\ TypeOK'
  BY DEF OnceInv, HoldInv
<1>1. CASE Send(w) \/ Requeue(w)
  BY <1>1, SendKept, RequeueKept
<1>2. CASE ~Send(w) /\ ~Requeue(w)
  <2>1. Open' \subseteq Open /\ Fresh' \subseteq Fresh
    BY <1>2, WorkerMsgs DEF Open, Fresh, Ends
  <2>2. /\ UNCHANGED <<hasMedia, jobs, delivered>>
        /\ MarkSent(w) \/ Fail(w) \/ MediaError(w) \/ UNCHANGED rcp
        /\ Complete(w) \/ UNCHANGED campaign
    BY <1>2, WorkerWrites
  <2>3. /\ \A v \in Workers : v # w => UNCHANGED <<wpc[v], cur[v], batch[v]>>
        /\ wpc[w] # "ready" /\ (wpc'[w] = "ready" => GateRow(w))
        /\ wpc'[w] \in Tried => wpc[w] \in Tried /\ cur'[w] = cur[w]
        /\ wpc'[w] \in Erred => wpc[w] \in Erred
    BY <1>2, WorkerGoes
  <2>4. rcp' = rcp /\ (campaign' = campaign \/ campaign' # "deleted")
          => RowsTidy' /\ OpenOnce' /\ TriesCount'
    BY <2>1, <2>2, <2>3, KeptQuiet DEF jobs
  <2>5. CASE GateRow(w)
    <3>1. /\ wpc[w] = "gateRow" /\ rcp' = rcp /\ campaign' = campaign
          /\ \/ wpc'[w] = "ready" /\ cur' = cur /\ rcp[cur[w].rcp] = "pending"
             \/ wpc'[w] # "ready"
      BY <2>5 DEF TypeOK, EngineOK, GateRow, Check, Finish, WGoto, Target, mysql
    <3>2. CASE wpc'[w] # "ready"
      BY <2>2, <2>3, <2>4, <3>1, <3>2, SendingStays, Unseen
    <3>3. CASE wpc'[w] = "ready"
      <4>. DEFINE r == cur[w].rcp
      <4>1. wpc[w] \notin Slotless \cup Moving \cup Done \cup Past
        BY <3>1 DEF Slotless, Moving, Done, Past, Tried, Erred
      <4>2. r \in Recipients /\ cur[w] \in AllUnsent
        BY <4>1, HeldIsOpen DEF Message
      <4>3. r \notin Sending
        <5>1. \A v \in Workers : wpc[v] = "ready" => cur[v].rcp # r
          BY <3>1, OneSender DEF Slotless, Moving, Done
        <5>. QED BY <5>1 DEF Sending
      <4>4. Sending' = Sending \cup {r}
        BY <2>3, <3>1, <3>3 DEF Sending
      <4>5. campaign = "running"
        <5>1. campaign \in CampaignStatus
          BY DEF TypeOK, MysqlOK
        <5>2. campaign # "draft" /\ campaign # "paused"
          BY <4>2 DEF KeptInv, OnceInv, DraftUntouched, Untouched
        <5>3. rcp[r] = "pending"
          BY <3>1, <3>3
        <5>4. campaign # "completed" /\ campaign # "deleted"
          BY <4>2, <5>3 DEF KeptInv, OnceInv, SettledInv, CountedNone, Pending, RowsTidy
        <5>. QED BY <5>1, <5>2, <5>4 DEF CampaignStatus
      <4>6. Promise!Begin(r)
        BY <2>2, <3>1, <3>3, <4>3, <4>4, <4>5 DEF Promise!Begin
      <4>. QED BY <2>4, <3>1, <4>2, <4>6 DEF Promise!Next
    <3>. QED BY <3>1, <3>2, <3>3
  <2>6. CASE Complete(w)
    <3>1. /\ wpc[w] = "complete" /\ rcp' = rcp
          /\ campaign' = IF campaign = "deleted" THEN campaign ELSE "completed"
      BY <2>6 DEF Complete
    <3>2. Sending' = Sending
      BY <2>3, <3>1, SendingStays, <2>6 DEF GateRow, Check
    <3>3. \A r \in Recipients : rcp[r] # "pending"
      BY <3>1 DEF KeptInv, OnceInv, SettledInv, CountedNone, Pending
    <3>4. campaign \in {"running", "completed", "deleted"}
      BY <3>1 DEF KeptInv, OnceInv, DraftUntouched, Untouched, Past, Done, TypeOK, MysqlOK,
                  CampaignStatus
    <3>5. CASE campaign = "running"
      <4>1. Promise!Complete
        BY <2>2, <3>1, <3>2, <3>3, <3>5 DEF Promise!Complete
      <4>. QED BY <2>4, <3>1, <4>1 DEF Promise!Next
    <3>6. CASE campaign # "running"
      BY <2>2, <2>4, <3>1, <3>2, <3>4, <3>6, Unseen
    <3>. QED BY <3>5, <3>6
  <2>7. CASE MarkSent(w) \/ Fail(w) \/ MediaError(w)
    <3>1. /\ UNCHANGED <<campaign, globalQ, retryQ, batch>>
          /\ wpc'[w] \notin Tried \cup {"ready"}
          /\ (cur' = cur /\ wpc'[w] \in Done) \/ Finish(w)
      BY <2>7 DEF TypeOK, EngineOK, MarkSent, Fail, MediaError, Finish, WGoto, redis, Done,
                  Tried, Erred
    <3>2. wpc[w] \notin Slotless \cup Moving \cup Done \cup {"ready"}
      BY <2>7 DEF MarkSent, Fail, MediaError, Slotless, Moving, Done
    <3>3. Sending' = Sending
      BY <2>3, <3>1, SendingStays
    <3>4. CASE rcp' = rcp
      BY <2>2, <2>4, <3>1, <3>3, <3>4, Unseen
    <3>5. CASE rcp' # rcp
      <4>1. Parked' \subseteq Parked
        BY <2>3, <3>1, <3>2, WorkerAssumption
           DEF Parked, Unmoved, Moving, Finish, WGoto, TypeOK, EngineOK, Done
      <4>2. PICK to \in {"sent", "failed"} :
              /\ SetRow(cur[w].rcp, to)
              /\ to = "sent" => wpc[w] = "sent"
              /\ to = "failed" => wpc[w] = "retry" \/ (wpc[w] = "gate" /\ hasMedia)
        BY <2>7, <3>5 DEF MarkSent, Fail, MediaError, Target
      <4>3. to = "sent" => delivered[cur[w].rcp] > 0
        BY <4>2 DEF KeptInv, SentInv, Reported
      <4>4. to = "failed" /\ "late" \notin Faults => delivered[cur[w].rcp] = 0
        <5>1. wpc[w] = "gate" => cur[w] \in AllUnsent
          BY <3>2, HeldIsOpen DEF Past, Done, Tried, Erred
        <5>. QED BY <4>2, <5>1 DEF KeptInv, OnceInv, SentOnce, TriesCount, Erred
      <4>. QED BY <2>1, <2>2, <2>3, <3>1, <3>2, <4>1, <4>2, <4>3, <4>4, RowKept
    <3>. QED BY <3>4, <3>5
  <2>8. CASE ~GateRow(w) /\ ~Complete(w) /\ ~MarkSent(w) /\ ~Fail(w) /\ ~MediaError(w)
    BY <2>2, <2>3, <2>4, <2>8, SendingStays, Unseen
  <2>. QED BY <2>5, <2>6, <2>7, <2>8
<1>. QED BY <1>1, <1>2

\* A step of a handler or of the worker's look into the retry queue that queues
\* nothing new: what the promise may see of it is the campaign and the rows.
LEMMA JobKeptQuiet ==
  ASSUME KeptInv, TypeOK', UNCHANGED <<hasMedia, delivered>>,
         \/ /\ UNCHANGED <<engine, retryQ>> /\ \A j \in Jobs : Added(j)' \subseteq Added(j)
            /\ globalQ' \subseteq globalQ \cup UNION {Added(j) : j \in Jobs}
         \/ ScanRetryQueue,
         \A j \in Jobs : todo'[j] \subseteq todo[j],
         \A r \in Recipients : rcp'[r] \in {rcp[r], "deleted"},
         campaign' = "deleted" => campaign = "deleted" \/ \A r \in Recipients : rcp'[r] = "deleted"
  PROVE  RowsTidy' /\ OpenOnce' /\ TriesCount' /\ Sending' = Sending
<1>. USE KeptIsTyped
<1>1. Open' \subseteq Open /\ Fresh' \subseteq Fresh
  <2>1. CASE ScanRetryQueue
    BY <2>1, ScanMsgs DEF Open, Fresh
  <2>2. CASE ~ScanRetryQueue
    <3>1. globalQ' \subseteq Open /\ globalQ' \subseteq Fresh
      BY <2>2 DEF Open, Fresh, Msgs
    <3>. QED BY <2>2, <3>1, JobMsgs DEF Open, Fresh
  <2>. QED BY <2>1, <2>2
<1>2. \A v \in Workers : /\ cur'[v] = cur[v]
                         /\ wpc'[v] = wpc[v] \/ (wpc[v] = "idle" /\ wpc'[v] = "moveAccount")
  BY DEF engine, ScanRetryQueue, WGoto, TypeOK, EngineOK
<1>3. Sending' = Sending
  BY <1>2 DEF Sending
<1>. QED BY <1>1, <1>2, <1>3, KeptQuiet DEF Tried, Erred

\* The requests and their handlers, up to the enqueue.
LEMMA HandlerKept ==
  ASSUME KeptInv, OnceInv', OneStart, NEW c \in Clients,
         Request(c) \/ (Handler(c) /\ ~EnqueueCampaign(c)) \/ Abandon(c)
  PROVE  RowsTidy' /\ OpenOnce' /\ TriesCount' /\ [Promise!Next]_(Promise!vars)
<1>. c \in Jobs
  BY DEF Jobs
<1>. USE KeptIsTyped DEF TypeOK, JobsOK, JGoto
<1>. HoldInv' /\ TypeOK'
  BY DEF OnceInv, HoldInv
<1>1. ~PauseRead(c) /\ ~ResetRead(c) /\ ~EditStatus(c) /\ ~AddRecipient(c)
  BY DEF OneStart, PauseRead, ResetRead, EditStatus, AddRecipient
<1>2. /\ ~Restore(c) /\ ~PauseTx(c) /\ ~PurgeAccount(c) /\ ~PurgeGlobal(c)
      /\ ~PurgeRetry(c) /\ ~ResetRows(c) /\ ~ResetStatus(c)
  BY DEF KeptInv, OnceInv, JobsTidy, Scans, Filling, Restore, PauseTx, PurgeAccount,
         PurgeGlobal, PurgeRetry, ResetRows, ResetStatus
<1>3. CASE StartRead(c) \/ Validate(c) \/ Abandon(c)
  <2>1. /\ UNCHANGED <<mysql, redis, engine, delivered>>
        /\ \A j \in Jobs : Added(j)' \subseteq Added(j) /\ todo'[j] \subseteq todo[j]
    BY <1>3 DEF StartRead, Validate, Abandon, JReset, Added
  <2>. QED BY <2>1, JobKeptQuiet, Unseen DEF mysql, redis
<1>4. CASE Launch(c)
  <2>1. /\ UNCHANGED <<hasMedia, rcp, redis, engine, todo, adding, delivered>>
        /\ campaign = "draft" /\ campaign' = "running"
    BY <1>4 DEF Launch, KeptInv, OnceInv, JobsTidy
  <2>2. RowsTidy' /\ OpenOnce' /\ TriesCount' /\ Sending' = Sending
    BY <2>1, JobKeptQuiet DEF redis, Added
  <2>3. Promise!Launch
    BY <2>1, <2>2 DEF Promise!Launch
  <2>. QED BY <2>2, <2>3 DEF Promise!Next
<1>5. CASE DeleteRecipient(c) \/ DeleteAllRows(c) \/ DeleteCampaign(c)
  <2>1. PICK R \in SUBSET Recipients :
          /\ DeleteRows(R) /\ UNCHANGED hasMedia
          /\ campaign' = campaign \/ (R = Recipients /\ campaign' = "deleted")
    BY <1>5 DEF DeleteRecipient, DeleteAllRows, DeleteCampaign
  <2>2. rcp' = [r \in Recipients |-> IF r \in R THEN "deleted" ELSE rcp[r]]
    BY <2>1 DEF DeleteRows, Exists, KeptInv, RowsTidy, MysqlOK
  <2>3. UNCHANGED <<redis, engine, todo, adding, delivered>>
    BY <2>1 DEF DeleteRows
  <2>4. RowsTidy' /\ OpenOnce' /\ TriesCount' /\ Sending' = Sending
    BY <2>1, <2>2, <2>3, JobKeptQuiet DEF redis, Added
  <2>5. Promise!Delete
    BY <2>1, <2>2, <2>3, <2>4 DEF Promise!Delete, Promise!DeleteRows
  <2>. QED BY <2>4, <2>5 DEF Promise!Next
<1>. QED BY <1>1, <1>2, <1>3, <1>4, <1>5 DEF Request, Handler

\* The one page is read before there is any message, and each of its rows gets one.
LEMMA EnqueueKept ==
  ASSUME KeptInv, OnceInv', OneStart, NEW j \in Jobs,
         EnqueueCampaign(j) \/ PageFails(j) \/ EnqueueFails(j)
  PROVE  RowsTidy' /\ OpenOnce' /\ TriesCount' /\ [Promise!Next]_(Promise!vars)
<1>. USE KeptIsTyped DEF TypeOK, JobsOK, JGoto
<1>. HoldInv' /\ TypeOK'
  BY DEF OnceInv, HoldInv
<1>1. UNCHANGED <<mysql, retryQ, engine, delivered>>
  BY DEF EnqueueCampaign, ScanAccount, ScanGlobal, ScanRetry, ScanKeys, ReadPage,
         EnqueueAccount, EnqueueGlobal, EnqueueNothing, PageFails, EnqueueFails, redis
<1>2. Sending' = Sending
  BY <1>1 DEF Sending, engine
<1>3. [Promise!Next]_(Promise!vars)
  BY <1>1, <1>2, Unseen DEF mysql
<1>4. RowsTidy'
  BY <1>1 DEF KeptInv, RowsTidy, mysql
<1>5. CASE EnqueueAccount(j)
  <2>1. PICK r, m :
          /\ r \in todo[j] /\ m.rcp = r /\ m.tries = 0 /\ todo' = [todo EXCEPT ![j] = @ \ {r}]
          /\ \A P : Msgs(P)' \subseteq Msgs(P) \cup {m}
    BY <1>5, EnqueueMsgs
  <2>2. Open' \subseteq Open \cup {m} /\ Fresh' \subseteq Fresh \cup {m}
    BY <2>1 DEF Open, Fresh
  <2>3. /\ rcp[r] \in {"pending", "deleted"} /\ delivered[r] = 0
        /\ \A n \in Open : n.rcp # r
    BY <2>1 DEF KeptInv, OpenOnce
  <2>4. \A i \in Jobs : todo'[i] \subseteq todo[i] \ {r}
    <3>1. \A i \in Jobs : i # j => jpc[i] \notin {"enqueue", "enqueueGlobal"}
      BY <1>5 DEF EnqueueAccount, KeptInv, OnceInv, JobsTidy, OneStart, Jobs
    <3>2. \A i \in Jobs : i # j => todo[i] = {}
      BY <3>1 DEF KeptInv, OnceInv, JobsTidy
    <3>. QED BY <2>1, <3>2
  <2>5. OpenOnce'
    BY <1>1, <2>1, <2>2, <2>3, <2>4 DEF KeptInv, OpenOnce, mysql
  <2>6. TriesCount'
    BY <1>1, <2>1, <2>2, <2>3 DEF KeptInv, TriesCount, engine
  <2>. QED BY <1>3, <1>4, <2>5, <2>6
<1>6. CASE ReadPage(j)
  <2>1. PICK p \in Pages(j) :
          IF p = {} THEN JReset(j)
          ELSE /\ todo' = [todo EXCEPT ![j] = p \ known[j]]
               /\ scanned' = [scanned EXCEPT ![j] = @ + Cardinality(p)]
               /\ JGoto(j, "enqueue")
               /\ UNCHANGED <<known, adding>>
    BY <1>6 DEF ReadPage
  <2>2. jpc[j] = "page" /\ UNCHANGED globalQ
    BY <1>6 DEF ReadPage, redis
  <2>3. CASE p = {}
    <3>1. /\ \A i \in Jobs : Added(i)' \subseteq Added(i) /\ todo'[i] \subseteq todo[i]
      BY <2>1, <2>3 DEF JReset, Added
    <3>. QED BY <1>1, <1>3, <2>2, <3>1, JobKeptQuiet DEF mysql
  <2>4. CASE p # {}
    <3>1. Untouched
      <4>1. scanned[j] = 0
        BY <2>2, <2>4, OnePage DEF KeptInv
      <4>. QED BY <2>2, <4>1 DEF KeptInv, OnceInv, JobsTidy
    <3>2. Open = {} /\ Fresh = {} /\ \A r \in Recipients : delivered[r] = 0
      <4>1. Open = {}
        BY <3>1, UntouchedOpen
      <4>2. Fresh \subseteq Open
        BY OpenIsMessage
      <4>. QED BY <3>1, <4>1, <4>2 DEF Untouched
    <3>3. Open' = {} /\ Fresh' = {}
      <4>1. \A i \in Jobs : Added(i)' = Added(i)
        BY <2>1, <2>4 DEF Added
      <4>2. globalQ' \subseteq Open /\ globalQ' \subseteq Fresh
        BY <2>2 DEF Open, Fresh, Msgs
      <4>3. Open' \subseteq Open /\ Fresh' \subseteq Fresh
        BY <1>1, <4>1, <4>2, JobMsgs DEF Open, Fresh
      <4>. QED BY <3>2, <4>3
    <3>4. p \subseteq Pending
      BY DEF Pages
    <3>5. \A i \in Jobs : \A r \in todo'[i] : \/ r \in todo[i]
                                              \/ r \in Recipients /\ rcp[r] = "pending"
      BY <2>1, <2>4, <3>4 DEF Pending
    <3>6. OpenOnce'
      BY <1>1, <3>2, <3>3, <3>5 DEF KeptInv, OpenOnce, mysql
    <3>7. TriesCount'
      BY <1>1, <3>3 DEF KeptInv, TriesCount, engine
    <3>. QED BY <1>3, <1>4, <3>6, <3>7
  <2>. QED BY <2>3, <2>4
<1>7. CASE ~EnqueueAccount(j) /\ ~ReadPage(j)
  <2>1. ~EnqueueFails(j)
    BY DEF EnqueueFails, OneStart
  <2>2. \A i \in Jobs : Added(i)' \subseteq Added(i) /\ todo'[i] \subseteq todo[i]
    BY <1>7, <2>1 DEF EnqueueCampaign, ScanAccount, ScanGlobal, ScanRetry, ScanKeys,
         EnqueueGlobal, EnqueueNothing, PageFails, NextRow, JReset, Added
  <2>3. globalQ' \subseteq globalQ \cup UNION {Added(i) : i \in Jobs}
    BY <1>7, <2>1 DEF EnqueueCampaign, ScanAccount, ScanGlobal, ScanRetry, ScanKeys,
         EnqueueGlobal, EnqueueNothing, PageFails, redis, Added
  <2>. QED BY <1>1, <1>3, <2>2, <2>3, JobKeptQuiet DEF mysql
<1>. QED BY <1>5, <1>6, <1>7

LEMMA TaskKept ==
  ASSUME KeptInv, OnceInv', OneStart,
         \/ RecoverTick \/ EnqueueCampaign(Recovery) \/ ScanRetryQueue \/ Crash
         \/ UNCHANGED vars
  PROVE  RowsTidy' /\ OpenOnce' /\ TriesCount' /\ [Promise!Next]_(Promise!vars)
<1>. Recovery \in Jobs
  BY DEF Jobs
<1>1. ~RecoverTick /\ ~Crash
  BY DEF RecoverTick, Crash, OneStart
<1>2. CASE EnqueueCampaign(Recovery)
  BY <1>2, EnqueueKept
<1>3. CASE ScanRetryQueue
  BY <1>3, KeptIsTyped, JobKeptQuiet, Unseen
     DEF ScanRetryQueue, mysql, jobs, OnceInv, HoldInv, TypeOK, MysqlOK
<1>4. CASE UNCHANGED vars
  BY <1>4, KeptIsTyped, JobKeptQuiet, Unseen
     DEF vars, engine, Added, OnceInv, HoldInv, TypeOK, MysqlOK
<1>. QED BY <1>1, <1>2, <1>3, <1>4

LEMMA InitKept == ASSUME OneStart, Init PROVE KeptInv /\ Promise!Init
<1>1. OnceInv
  BY InitOnce
<1>2. SentInv
  BY InitTypeOK DEF Init, SentInv, SentWasDelivered, AlreadySent, Reported
<1>3. \A r \in Recipients : rcp[r] = "pending"
  BY DEF Init, OneStart
<1>4. Untouched /\ campaign = "draft"
  BY <1>1 DEF Init, OnceInv, DraftUntouched
<1>5. Open = {}
  BY <1>4, UntouchedOpen
<1>6. Fresh = {}
  BY <1>1, <1>5, OpenIsMessage DEF OnceInv
<1>7. Sending = {}
  BY DEF Init, Sending
<1>8. RowsTidy /\ OpenOnce /\ TriesCount
  BY <1>3, <1>5, <1>6 DEF Init, RowsTidy, OpenOnce, TriesCount, Tried, Erred
<1>9. rcp = [r \in Recipients |-> "pending"]
  BY <1>3 DEF Init
<1>10. hasMedia \in BOOLEAN
  BY SwitchAssumption DEF Init
<1>11. Promise!Init
  BY <1>7, <1>9, <1>10 DEF Init, Promise!Init
<1>. QED BY <1>1, <1>2, <1>8, <1>11 DEF KeptInv

LEMMA NextKept ==
  ASSUME KeptInv, OneStart, [Next]_vars
  PROVE  KeptInv' /\ [Promise!Next]_(Promise!vars)
<1>1. LeftAlone /\ WholeMoves
  BY OnceScope
<1>2. OnceInv'
  BY NextOnce DEF KeptInv
<1>3. SentInv'
  BY NextSent DEF KeptInv
<1>4. RowsTidy' /\ OpenOnce' /\ TriesCount' /\ [Promise!Next]_(Promise!vars)
  <2>1. ASSUME NEW c \in Clients, Request(c) \/ Handler(c) \/ Abandon(c)
        PROVE  RowsTidy' /\ OpenOnce' /\ TriesCount' /\ [Promise!Next]_(Promise!vars)
    BY <1>2, <2>1, HandlerKept, EnqueueKept DEF Jobs
  <2>2. ASSUME NEW j \in Jobs, PageFails(j) \/ EnqueueFails(j)
        PROVE  RowsTidy' /\ OpenOnce' /\ TriesCount' /\ [Promise!Next]_(Promise!vars)
    BY <1>2, <2>2, EnqueueKept
  <2>3. ASSUME NEW w \in Workers,
               Queueing(w) \/ Process(w) \/ AcquirePermit(w) \/ Send(w) \/ Disturb(w)
        PROVE  RowsTidy' /\ OpenOnce' /\ TriesCount' /\ [Promise!Next]_(Promise!vars)
    BY <1>1, <1>2, <2>3, WorkerKept
  <2>. QED BY <1>2, <2>1, <2>2, <2>3, TaskKept DEF Next
<1>. QED BY <1>2, <1>3, <1>4 DEF KeptInv

\* Two reads and a send later, with other workers, retries and a deletion in between, a
\* campaign that one user starts does what CampaignPromise says: nobody is written to
\* outside of a running campaign, twice at a time, more often than MAX_RETRIES allows
\* or after the row is settled; a row says "sent" only of who has the message and, where
\* a send that is reported failed has not arrived, "failed" only of who has not, and is
\* written once; and a completed campaign is over (process_single_message,
\* requeue_with_retry, delete_wa_campaign).
THEOREM CampaignKeepsItsPromise == ASSUME OneStart PROVE Spec => PromiseKept
<1>1. Promise!Spec <=> Promise!Init /\ [][Promise!Next]_(Promise!vars)
  BY DEF Promise!Spec
<1>2. Init => KeptInv /\ Promise!Init
  BY InitKept
<1>3. KeptInv /\ [Next]_vars => KeptInv' /\ [Promise!Next]_(Promise!vars)
  BY NextKept
<1>. QED BY <1>1, <1>2, <1>3, PTL DEF Spec, PromiseKept

=============================================================================
