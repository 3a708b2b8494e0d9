---------------------------- MODULE CampaignBlast ----------------------------
(***************************************************************************)
(* One WhatsApp blast campaign: the rows MySQL keeps for it, the three      *)
(* kinds of Redis sorted set its messages travel through, the workers of    *)
(* the BlastEngine, the 30-second recovery task and the HTTP handlers that  *)
(* start, pause, reset, extend and delete it.                               *)
(*                                                                          *)
(* Every SQL statement and every Redis command is one step, because every   *)
(* one of them is awaited and any other task may run in between.  What lies *)
(* between two of them in one task (rate-limit waits, jitter, typing,       *)
(* template expansion) changes nothing here and is not a step.              *)
(***************************************************************************)
EXTENDS Naturals, FiniteSets

CONSTANTS
  Recipients,    \* rows of wa_recipients
  Ids,           \* message ids alive at one time (bound: a free one is reused)
  Accounts,      \* enabled and connected wa_accounts
  Workers,       \* tasks running worker_loop
  RetryWorker,   \* worker 0, the one that also empties the retry queue
  Clients,       \* HTTP requests in progress
  Recovery,      \* the task that calls recover_running_campaigns
  NoMessage,     \* an empty message slot
  BatchSize,     \* BlastEngineConfig.batch_size
  MaxPerAccount, \* BlastEngineConfig.max_concurrent_per_account
  PageSize,      \* WA_ENQUEUE_BATCH_SIZE, the rows read at a time
  MaxRetries,    \* MAX_RETRIES of requeue_with_retry
  MaxDeliveries, \* bound: more copies on one phone are not told apart
  MaxCrashes,    \* bound: restarts of the backend process
  Media,         \* the campaign carries a media_url: a subset of BOOLEAN
  Ops,           \* handlers in use, a subset of AllOps
  Faults         \* failures that may happen, a subset of AllFaults

AllOps == {"start", "pause", "reset", "add", "delete", "edit", "recover"}

AllFaults == {"send", "late", "limit", "db", "redis", "media", "offline",
              "cancel", "crash"}

Message == [id : Ids, rcp : Recipients, acct : Accounts, tries : 0 .. MaxRetries]

Jobs == Clients \cup {Recovery}

ASSUME RecipientAssumption == IsFiniteSet(Recipients)
ASSUME WorkerAssumption    == RetryWorker \in Workers
ASSUME JobAssumption       == Recovery \notin Clients
ASSUME MessageAssumption   == NoMessage \notin Message
ASSUME BoundAssumption     ==
  /\ Ids \subseteq Nat
  /\ BatchSize \in Nat \ {0} /\ PageSize \in Nat \ {0} /\ MaxPerAccount \in Nat \ {0}
  /\ MaxRetries \in Nat /\ MaxDeliveries \in Nat \ {0} /\ MaxCrashes \in Nat
ASSUME SwitchAssumption    ==
  Media \subseteq BOOLEAN /\ Ops \subseteq AllOps /\ Faults \subseteq AllFaults

VARIABLES
  hasMedia,   \* media_url of the campaign's config, copied into each message
  campaign,   \* wa_campaigns.status
  rcp,        \* wa_recipients.status, row by row
  logged,     \* recipients with a 'success' row in wa_dispatch_logs
  accountQ,   \* union of the sorted sets wa:queue:<account>:<priority>
  globalQ,    \* the sorted set wa:queue:global:<priority>
  retryQ,     \* the sorted set wa:queue:retry
  wpc,        \* where each worker is
  batch,      \* what it popped and has not looked at yet
  cur,        \* the message it is processing (or moving)
  jpc,        \* where each handler, and the recovery task, is
  known,      \* its queued_ids snapshot
  scanned,    \* its scanned_count, the OFFSET of the next page
  todo,       \* the rows of the current page it still has to enqueue
  adding,     \* the message between its two ZADDs
  delivered,  \* history: copies that reached the recipient's phone
  crashes

mysql == <<hasMedia, campaign, rcp, logged>>
redis == <<accountQ, globalQ, retryQ>>
engine == <<wpc, batch, cur>>
jobs == <<jpc, known, scanned, todo, adding>>
vars == <<hasMedia, campaign, rcp, logged, accountQ, globalQ, retryQ, wpc, batch, cur,
          jpc, known, scanned, todo, adding, delivered, crashes>>

CampaignStatus == {"draft", "running", "paused", "completed", "deleted"}
RowStatus == {"absent", "pending", "paused", "sent", "failed", "deleted"}

Moving     == {"moveAccount", "moveGlobal", "moveDone"}
WithPermit == {"gate", "gateRow", "ready", "sent", "log", "error", "errorRow",
               "retry", "fail", "settle", "count", "complete"}
WorkerPc   == {"idle", "fetch", "unlink", "next", "history", "row", "permit"}
                \cup Moving \cup WithPermit
JobPc      == {"idle", "restore", "validate", "launch",
               "scanAccount", "scanGlobal", "scanRetry", "page",
               "enqueue", "enqueueGlobal",
               "pauseTx", "purgeAccount", "purgeGlobal", "purgeRetry",
               "resetRows", "resetStatus", "deleteCampaign"}

-----------------------------------------------------------------------------
(* State functions                                                          *)

Pending == {r \in Recipients : rcp[r] = "pending"}

Slots == {cur[w] : w \in Workers} \cup {adding[j] : j \in Jobs}

\* Messages somebody still refers to: their ids are taken.
Live == accountQ \cup globalQ \cup retryQ
          \cup (UNION {batch[w] : w \in Workers}) \cup (Slots \ {NoMessage})

FreeIds == Ids \ {m.id : m \in Live}

\* What worker w took off the queue to process.
InHand(w) == IF wpc[w] \in Moving THEN {}
             ELSE batch[w] \cup ({cur[w]} \ {NoMessage})

PermitsOut(a) == {w \in Workers : wpc[w] \in WithPermit /\ cur[w].acct = a}

WGoto(w, l) == wpc' = [wpc EXCEPT ![w] = l]
JGoto(j, l) == jpc' = [jpc EXCEPT ![j] = l]

\* Mutant of JReset: the snapshot of queued recipients survives the task.
JResetKeepsKnown(j) ==
  /\ JGoto(j, "idle")
  /\ scanned' = [scanned EXCEPT ![j] = 0]
  /\ todo' = [todo EXCEPT ![j] = {}]
  /\ adding' = [adding EXCEPT ![j] = NoMessage]
  /\ UNCHANGED known

\* A task is over, or its future is dropped.
JReset(j) == /\ JGoto(j, "idle")
             /\ known' = [known EXCEPT ![j] = {}]
             /\ scanned' = [scanned EXCEPT ![j] = 0]
             /\ todo' = [todo EXCEPT ![j] = {}]
             /\ adding' = [adding EXCEPT ![j] = NoMessage]

\* process_single_message returns: the permit goes and the next one is taken.
Finish(w) == /\ WGoto(w, IF batch[w] = {} THEN "idle" ELSE "next")
             /\ cur' = [cur EXCEPT ![w] = NoMessage]

-----------------------------------------------------------------------------
Init ==
  /\ hasMedia \in Media
  /\ campaign = "draft"
  /\ rcp \in [Recipients -> {"pending", "absent"}]
  /\ (\E r \in Recipients : rcp[r] = "absent") => "add" \in Ops
  /\ logged = {}
  /\ accountQ = {} /\ globalQ = {} /\ retryQ = {}
  /\ wpc = [w \in Workers |-> "idle"]
  /\ batch = [w \in Workers |-> {}]
  /\ cur = [w \in Workers |-> NoMessage]
  /\ jpc = [j \in Jobs |-> "idle"]
  /\ known = [j \in Jobs |-> {}]
  /\ scanned = [j \in Jobs |-> 0]
  /\ todo = [j \in Jobs |-> {}]
  /\ adding = [j \in Jobs |-> NoMessage]
  /\ delivered = [r \in Recipients |-> 0]
  /\ crashes = 0

-----------------------------------------------------------------------------
(* enqueue_campaign, run by start_wa_campaign and by the recovery task.     *)

\* queued_recipient_ids_for_campaign reads the keys in sorted order: the
\* accounts' queues, then "global", then "retry".  A ZRANGE that fails counts as
\* an empty queue.
ScanKeys(j, from, queue, to) ==
  /\ jpc[j] = from
  /\ \/ known' = [known EXCEPT ![j] = @ \cup {m.rcp : m \in queue}]
     \/ "redis" \in Faults /\ known' = known
  /\ JGoto(j, to)
  /\ UNCHANGED <<mysql, redis, engine, scanned, todo, adding, delivered, crashes>>

ScanAccount(j) == ScanKeys(j, "scanAccount", accountQ, "scanGlobal")
ScanGlobal(j)  == ScanKeys(j, "scanGlobal", globalQ, "scanRetry")
ScanRetry(j)   == ScanKeys(j, "scanRetry", retryQ, "page")

\* The page is left with the rows R still to be enqueued: when there are none a
\* full page is followed by the next one and any other page was the last.
NextRow(j, R) ==
  IF R = {} /\ scanned[j] % PageSize # 0
  THEN JReset(j)
  ELSE /\ JGoto(j, IF R = {} THEN "page" ELSE "enqueue")
       /\ todo' = [todo EXCEPT ![j] = R]
       /\ adding' = [adding EXCEPT ![j] = NoMessage]
       /\ UNCHANGED <<known, scanned>>

\* LIMIT/OFFSET over the rows pending now.  Rows inserted in one second tie on
\* created_at, so the order, and with it the page, is any.
Pages(j) ==
  {p \in SUBSET Pending :
     Cardinality(p) = IF Cardinality(Pending) <= scanned[j] THEN 0
                      ELSE IF Cardinality(Pending) - scanned[j] < PageSize
                           THEN Cardinality(Pending) - scanned[j]
                           ELSE PageSize}

ReadPage(j) ==
  /\ jpc[j] = "page"
  /\ \E p \in Pages(j) :
       IF p = {} THEN JReset(j)
       ELSE /\ todo' = [todo EXCEPT ![j] = p \ known[j]]
            /\ scanned' = [scanned EXCEPT ![j] = @ + Cardinality(p)]
            /\ JGoto(j, "enqueue")
            /\ UNCHANGED <<known, adding>>
  /\ UNCHANGED <<mysql, redis, engine, delivered, crashes>>

PageFails(j) ==
  /\ "db" \in Faults /\ jpc[j] = "page"
  /\ JReset(j)
  /\ UNCHANGED <<mysql, redis, engine, delivered, crashes>>

\* RedisManager::enqueue adds a fresh message to the account's queue first.
EnqueueAccount(j) ==
  /\ jpc[j] = "enqueue" /\ FreeIds # {}
  /\ \E r \in todo[j], a \in Accounts :
       LET m == [id |-> CHOOSE i \in FreeIds : TRUE, rcp |-> r, acct |-> a,
                 tries |-> 0] IN
       /\ accountQ' = accountQ \cup {m}
       /\ adding' = [adding EXCEPT ![j] = m]
       /\ todo' = [todo EXCEPT ![j] = @ \ {r}]
  /\ JGoto(j, "enqueueGlobal")
  /\ UNCHANGED <<mysql, globalQ, retryQ, engine, known, scanned, delivered, crashes>>

\* ... and then to the global one.
EnqueueGlobal(j) ==
  /\ jpc[j] = "enqueueGlobal"
  /\ globalQ' = globalQ \cup {adding[j]}
  /\ NextRow(j, todo[j])
  /\ UNCHANGED <<mysql, accountQ, retryQ, engine, delivered, crashes>>

\* An error of either ZADD is logged and the next row is taken.
EnqueueFails(j) ==
  /\ "redis" \in Faults
  /\ \/ jpc[j] = "enqueue" /\ \E r \in todo[j] : NextRow(j, todo[j] \ {r})
     \/ jpc[j] = "enqueueGlobal" /\ NextRow(j, todo[j])
  /\ UNCHANGED <<mysql, redis, engine, delivered, crashes>>

\* Every row of the page was queued already.
EnqueueNothing(j) ==
  /\ jpc[j] = "enqueue" /\ todo[j] = {}
  /\ NextRow(j, {})
  /\ UNCHANGED <<mysql, redis, engine, delivered, crashes>>

EnqueueCampaign(j) ==
  \/ ScanAccount(j) \/ ScanGlobal(j) \/ ScanRetry(j) \/ ReadPage(j)
  \/ EnqueueAccount(j) \/ EnqueueGlobal(j) \/ EnqueueNothing(j)

\* The 30-second tick: a running campaign with pending rows is enqueued again.
RecoverTick ==
  /\ "recover" \in Ops
  /\ jpc[Recovery] = "idle"
  /\ campaign = "running" /\ Pending # {}
  /\ JGoto(Recovery, "scanAccount")
  /\ UNCHANGED <<mysql, redis, engine, known, scanned, todo, adding, delivered,
                 crashes>>

-----------------------------------------------------------------------------
(* The HTTP handlers.                                                       *)

Exists(r) == rcp[r] \notin {"absent", "deleted"}

\* start_wa_campaign: a campaign that already runs is left alone, a paused one
\* gets its rows back first.
StartRead(c) ==
  /\ "start" \in Ops /\ jpc[c] = "idle"
  /\ campaign \notin {"running", "deleted"}
  /\ JGoto(c, IF campaign = "paused" THEN "restore" ELSE "validate")
  /\ UNCHANGED <<mysql, redis, engine, known, scanned, todo, adding, delivered,
                 crashes>>

Restore(c) ==
  /\ jpc[c] = "restore"
  /\ rcp' = [r \in Recipients |-> IF rcp[r] = "paused" THEN "pending" ELSE rcp[r]]
  /\ JGoto(c, "validate")
  /\ UNCHANGED <<hasMedia, campaign, logged, redis, engine, known, scanned, todo, adding,
                 delivered, crashes>>

\* An error response if nothing is pending or no account is connected; the
\* rows that Restore gave back stay pending.
Validate(c) ==
  /\ jpc[c] = "validate"
  /\ \/ Pending # {} /\ JGoto(c, "launch")
     \/ (Pending = {} \/ "offline" \in Faults) /\ JGoto(c, "idle")
  /\ UNCHANGED <<mysql, redis, engine, known, scanned, todo, adding, delivered,
                 crashes>>

\* The UPDATE does not look at the status it overwrites.
Launch(c) ==
  /\ jpc[c] = "launch"
  /\ campaign' = IF campaign = "deleted" THEN campaign ELSE "running"
  /\ \/ campaign # "deleted" /\ JGoto(c, "scanAccount")
     \/ (campaign = "deleted" \/ "offline" \in Faults) /\ JGoto(c, "idle")
  /\ UNCHANGED <<hasMedia, rcp, logged, redis, engine, known, scanned, todo, adding,
                 delivered, crashes>>

PauseRead(c) ==
  /\ "pause" \in Ops /\ jpc[c] = "idle"
  /\ campaign = "running"
  /\ JGoto(c, "pauseTx")
  /\ UNCHANGED <<mysql, redis, engine, known, scanned, todo, adding, delivered,
                 crashes>>

\* Mutant of PauseTx: only the campaign is paused, not its rows.
PauseCampaignOnly(c) ==
  /\ jpc[c] = "pauseTx"
  /\ campaign' = IF campaign = "deleted" THEN campaign ELSE "paused"
  /\ JGoto(c, "purgeAccount")
  /\ UNCHANGED <<hasMedia, rcp, logged, redis, engine, known, scanned, todo, adding,
                 delivered, crashes>>

\* One transaction; its UPDATE does not look at the campaign's status either.
PauseTx(c) ==
  /\ jpc[c] = "pauseTx"
  /\ campaign' = IF campaign = "deleted" THEN campaign ELSE "paused"
  /\ rcp' = [r \in Recipients |-> IF rcp[r] = "pending" THEN "paused" ELSE rcp[r]]
  /\ JGoto(c, "purgeAccount")
  /\ UNCHANGED <<hasMedia, logged, redis, engine, known, scanned, todo, adding, delivered,
                 crashes>>

\* remove_campaign_messages, key by key; a failed ZREM is ignored.
PurgeAccount(c) ==
  /\ jpc[c] = "purgeAccount"
  /\ \/ accountQ' = {}
     \/ "redis" \in Faults /\ accountQ' = accountQ
  /\ JGoto(c, "purgeGlobal")
  /\ UNCHANGED <<mysql, globalQ, retryQ, engine, known, scanned, todo, adding,
                 delivered, crashes>>

PurgeGlobal(c) ==
  /\ jpc[c] = "purgeGlobal"
  /\ \/ globalQ' = {}
     \/ "redis" \in Faults /\ globalQ' = globalQ
  /\ JGoto(c, "purgeRetry")
  /\ UNCHANGED <<mysql, accountQ, retryQ, engine, known, scanned, todo, adding,
                 delivered, crashes>>

PurgeRetry(c) ==
  /\ jpc[c] = "purgeRetry"
  /\ \/ retryQ' = {}
     \/ "redis" \in Faults /\ retryQ' = retryQ
  /\ JGoto(c, "idle")
  /\ UNCHANGED <<mysql, accountQ, globalQ, engine, known, scanned, todo, adding,
                 delivered, crashes>>

\* reset_wa_campaign touches neither Redis nor wa_dispatch_logs.
ResetRead(c) ==
  /\ "reset" \in Ops /\ jpc[c] = "idle"
  /\ campaign \notin {"running", "deleted"}
  /\ JGoto(c, "resetRows")
  /\ UNCHANGED <<mysql, redis, engine, known, scanned, todo, adding, delivered,
                 crashes>>

ResetRows(c) ==
  /\ jpc[c] = "resetRows"
  /\ rcp' = [r \in Recipients |-> IF Exists(r) THEN "pending" ELSE rcp[r]]
  /\ JGoto(c, "resetStatus")
  /\ UNCHANGED <<hasMedia, campaign, logged, redis, engine, known, scanned, todo, adding,
                 delivered, crashes>>

ResetStatus(c) ==
  /\ jpc[c] = "resetStatus"
  /\ campaign' = IF campaign = "deleted" THEN campaign ELSE "draft"
  /\ JGoto(c, "idle")
  /\ UNCHANGED <<hasMedia, rcp, logged, redis, engine, known, scanned, todo, adding,
                 delivered, crashes>>

\* update_wa_campaign writes whatever status the request names.
EditStatus(c) ==
  /\ "edit" \in Ops /\ jpc[c] = "idle"
  /\ campaign # "deleted"
  /\ campaign' \in CampaignStatus \ {"deleted"}
  /\ UNCHANGED <<hasMedia, rcp, logged, redis, engine, jobs, delivered, crashes>>

\* add_wa_recipients.  Its duplicate check asks for a wa_dispatch_logs row with a
\* recent sent_at; no INSERT sets that column, so it finds none and skips none.
AddRecipient(c) ==
  /\ "add" \in Ops /\ jpc[c] = "idle"
  /\ campaign # "deleted"
  /\ \E r \in Recipients :
       rcp[r] = "absent" /\ rcp' = [rcp EXCEPT ![r] = "pending"]
  /\ UNCHANGED <<hasMedia, campaign, logged, redis, engine, jobs, delivered, crashes>>

\* A deleted row takes its id out of wa_dispatch_logs (ON DELETE SET NULL).
DeleteRows(R) ==
  /\ rcp' = [r \in Recipients |-> IF r \in R /\ Exists(r) THEN "deleted" ELSE rcp[r]]
  /\ logged' = logged \ R
  /\ UNCHANGED <<redis, engine, known, scanned, todo, adding, delivered, crashes>>

DeleteRecipient(c) ==
  /\ "delete" \in Ops /\ jpc[c] = "idle"
  /\ \E r \in Recipients : Exists(r) /\ DeleteRows({r})
  /\ UNCHANGED <<hasMedia, campaign, jpc>>

\* delete_wa_campaign: the rows first, then the campaign.
DeleteAllRows(c) ==
  /\ "delete" \in Ops /\ jpc[c] = "idle"
  /\ campaign # "deleted"
  /\ DeleteRows(Recipients)
  /\ JGoto(c, "deleteCampaign")
  /\ UNCHANGED <<hasMedia, campaign>>

DeleteCampaign(c) ==
  /\ jpc[c] = "deleteCampaign"
  /\ campaign' = "deleted"
  /\ DeleteRows(Recipients)
  /\ JGoto(c, "idle")
  /\ UNCHANGED hasMedia

\* The client hangs up: axum drops the handler at the await it is at.
Abandon(c) ==
  /\ "cancel" \in Faults /\ jpc[c] # "idle"
  /\ JReset(c)
  /\ UNCHANGED <<mysql, redis, engine, delivered, crashes>>

\* A request that has been accepted goes on.
Handler(c) ==
  \/ Restore(c) \/ Validate(c) \/ Launch(c) \/ EnqueueCampaign(c)
  \/ PauseTx(c) \/ PurgeAccount(c) \/ PurgeGlobal(c) \/ PurgeRetry(c)
  \/ ResetRows(c) \/ ResetStatus(c) \/ DeleteCampaign(c)

Request(c) ==
  \/ StartRead(c) \/ PauseRead(c) \/ ResetRead(c) \/ EditStatus(c)
  \/ AddRecipient(c) \/ DeleteRecipient(c) \/ DeleteAllRows(c)

-----------------------------------------------------------------------------
(* worker_loop: the retry queue (worker 0 only), then a batch.              *)

\* process_retry_queue reads the messages whose delay is over.
ScanRetryQueue ==
  /\ wpc[RetryWorker] = "idle"
  /\ \E R \in (SUBSET retryQ) \ {{}} : batch' = [batch EXCEPT ![RetryWorker] = R]
  /\ WGoto(RetryWorker, "moveAccount")
  /\ UNCHANGED <<mysql, redis, cur, jobs, delivered, crashes>>

\* Each is enqueued like a new one, then taken off the retry queue.
MoveAccount(w) ==
  /\ wpc[w] = "moveAccount"
  /\ \E m \in batch[w] :
       /\ accountQ' = accountQ \cup {m}
       /\ cur' = [cur EXCEPT ![w] = m]
       /\ batch' = [batch EXCEPT ![w] = @ \ {m}]
  /\ WGoto(w, "moveGlobal")
  /\ UNCHANGED <<mysql, globalQ, retryQ, jobs, delivered, crashes>>

MoveGlobal(w) ==
  /\ wpc[w] = "moveGlobal"
  /\ globalQ' = globalQ \cup {cur[w]}
  /\ WGoto(w, "moveDone")
  /\ UNCHANGED <<mysql, accountQ, retryQ, batch, cur, jobs, delivered, crashes>>

MoveDone(w) ==
  /\ wpc[w] = "moveDone"
  /\ \/ retryQ' = retryQ \ {cur[w]}
     \/ "redis" \in Faults /\ retryQ' = retryQ
  /\ cur' = [cur EXCEPT ![w] = NoMessage]
  /\ WGoto(w, IF batch[w] = {} THEN "fetch" ELSE "moveAccount")
  /\ UNCHANGED <<mysql, accountQ, globalQ, batch, jobs, delivered, crashes>>

\* An error of either ZADD leaves the message in the retry queue.
MoveFails(w) ==
  /\ "redis" \in Faults /\ wpc[w] \in {"moveAccount", "moveGlobal"}
  /\ IF wpc[w] = "moveAccount"
     THEN \E m \in batch[w] : batch' = [batch EXCEPT ![w] = @ \ {m}]
     ELSE batch' = batch
  /\ cur' = [cur EXCEPT ![w] = NoMessage]
  /\ WGoto(w, IF batch'[w] = {} THEN "fetch" ELSE "moveAccount")
  /\ UNCHANGED <<mysql, redis, jobs, delivered, crashes>>

\* Mutant of FetchPop: ZRANGE without ZREMRANGEBYRANK.
FetchPeek(w) ==
  /\ wpc[w] \in {"idle", "fetch"} /\ globalQ # {}
  /\ \E S \in (SUBSET globalQ) \ {{}} :
       Cardinality(S) <= BatchSize /\ batch' = [batch EXCEPT ![w] = S]
  /\ WGoto(w, "unlink")
  /\ UNCHANGED <<mysql, redis, cur, jobs, delivered, crashes>>

\* dequeue_batch_any: the Lua script pops up to BatchSize messages ...
FetchPop(w) ==
  /\ wpc[w] \in {"idle", "fetch"} /\ globalQ # {}
  /\ \E S \in SUBSET globalQ :
       /\ \/ Cardinality(S) = BatchSize
          \/ Cardinality(S) < BatchSize /\ S = globalQ
       /\ globalQ' = globalQ \ S
       /\ batch' = [batch EXCEPT ![w] = S]
  /\ WGoto(w, "unlink")
  /\ UNCHANGED <<mysql, accountQ, retryQ, cur, jobs, delivered, crashes>>

FetchNothing(w) ==
  /\ wpc[w] = "fetch" /\ globalQ = {}
  /\ WGoto(w, "idle")
  /\ UNCHANGED <<mysql, redis, batch, cur, jobs, delivered, crashes>>

\* Mutant of Unlink: the account's queue is forgotten.
UnlinkForgotten(w) ==
  /\ wpc[w] = "unlink"
  /\ WGoto(w, "next")
  /\ UNCHANGED <<mysql, redis, batch, cur, jobs, delivered, crashes>>

\* ... and a ZREM for each takes them off the accounts' queues.
Unlink(w) ==
  /\ wpc[w] = "unlink"
  /\ \/ accountQ' = accountQ \ batch[w]
     \/ "redis" \in Faults /\ accountQ' = accountQ
  /\ WGoto(w, "next")
  /\ UNCHANGED <<mysql, globalQ, retryQ, batch, cur, jobs, delivered, crashes>>

-----------------------------------------------------------------------------
(* process_single_message                                                   *)

Target(w) == cur[w].rcp

\* A read that decides whether the worker goes on with its message.
Check(w, at, ok, to) ==
  /\ wpc[w] = at
  /\ IF ok THEN WGoto(w, to) /\ cur' = cur ELSE Finish(w)
  /\ UNCHANGED <<mysql, redis, batch, jobs, delivered, crashes>>

GiveUp(w, at) ==
  /\ wpc[w] = at
  /\ Finish(w)
  /\ UNCHANGED <<mysql, redis, batch, jobs, delivered, crashes>>

AlreadySent(r) == rcp[r] = "sent" \/ r \in logged

\* process_batch shuffles the batch and takes one message after the other; the
\* first read asks whether the campaign still runs.
CheckCampaign(w) ==
  /\ wpc[w] = "next"
  /\ \E m \in batch[w] :
       /\ batch' = [batch EXCEPT ![w] = @ \ {m}]
       /\ \/ /\ campaign = "running"
             /\ cur' = [cur EXCEPT ![w] = m]
             /\ WGoto(w, "history")
          \/ /\ campaign # "running" \/ "db" \in Faults
             /\ cur' = cur
             /\ WGoto(w, IF batch'[w] = {} THEN "idle" ELSE "next")
  /\ UNCHANGED <<mysql, redis, jobs, delivered, crashes>>

CheckHistory(w)  == Check(w, "history", ~AlreadySent(Target(w)), "row")
CheckRow(w)      == Check(w, "row", rcp[Target(w)] = "pending", "permit")

\* The account's semaphore (FIFO in tokio).
AcquirePermit(w) ==
  /\ wpc[w] = "permit"
  /\ Cardinality(PermitsOut(cur[w].acct)) < MaxPerAccount
  /\ WGoto(w, "gate")
  /\ UNCHANGED <<mysql, redis, batch, cur, jobs, delivered, crashes>>

\* message_can_continue: two reads.  The code calls it after every wait; only
\* the last call before the send matters to what is sent, so it stands for all.
Gate(w)    == Check(w, "gate", campaign = "running", "gateRow")
GateRow(w) == Check(w, "gateRow", rcp[Target(w)] = "pending", "ready")

\* enforce_rate_limits: the account has used up its day, the message is dropped.
LimitDrop(w) == "limit" \in Faults /\ GiveUp(w, "gate")

\* The UPDATE of a row that was deleted meanwhile changes nothing.
SetRow(r, s) == rcp' = [rcp EXCEPT ![r] = IF Exists(r) THEN s ELSE @]

\* download_and_process_media fails: the row too, and nothing looks whether
\* the campaign is complete.
MediaError(w) ==
  /\ "media" \in Faults /\ hasMedia /\ wpc[w] = "gate"
  /\ SetRow(Target(w), "failed")
  /\ Finish(w)
  /\ UNCHANGED <<hasMedia, campaign, logged, redis, batch, jobs, delivered, crashes>>

Deliver(r) ==
  delivered' = [delivered EXCEPT ![r] = IF @ < MaxDeliveries THEN @ + 1 ELSE @]

\* Mutant of SendError: the error is taken for an answer.
SendErrorIgnored(w) ==
  /\ wpc[w] = "ready" /\ "send" \in Faults /\ WGoto(w, "sent")
  /\ UNCHANGED <<mysql, redis, batch, cur, jobs, delivered, crashes>>

\* The bridge answers, refuses, or does not answer in time.
SendOk(w) ==
  /\ wpc[w] = "ready"
  /\ Deliver(Target(w)) /\ WGoto(w, "sent")
  /\ UNCHANGED <<mysql, redis, batch, cur, jobs, crashes>>

SendError(w) ==
  /\ wpc[w] = "ready" /\ "send" \in Faults
  /\ WGoto(w, "error")
  /\ UNCHANGED <<mysql, redis, batch, cur, jobs, delivered, crashes>>

SendLate(w) ==
  /\ wpc[w] = "ready" /\ "late" \in Faults
  /\ Deliver(Target(w)) /\ WGoto(w, "error")
  /\ UNCHANGED <<mysql, redis, batch, cur, jobs, crashes>>

\* A query that fails is logged; the three writes below are then skipped.
MarkSent(w) ==
  /\ wpc[w] = "sent"
  /\ \/ SetRow(Target(w), "sent")
     \/ "db" \in Faults /\ rcp' = rcp
  /\ WGoto(w, "log")
  /\ UNCHANGED <<hasMedia, campaign, logged, redis, batch, cur, jobs, delivered, crashes>>

LogSuccess(w) ==
  /\ wpc[w] = "log"
  /\ \/ logged' = logged \cup {r \in {Target(w)} : Exists(r)}
     \/ "db" \in Faults /\ logged' = logged
  /\ WGoto(w, "settle")
  /\ UNCHANGED <<hasMedia, campaign, rcp, redis, batch, cur, jobs, delivered, crashes>>

\* A failed send is given up if the campaign or the row was paused meanwhile.
ErrorGate(w) == Check(w, "error", campaign = "running", "errorRow")
ErrorRow(w)  == Check(w, "errorRow", rcp[Target(w)] = "pending", "retry")

\* Mutant of MayRetry: one try too many.
MayRetryOnceMore(w) == ~hasMedia /\ cur[w].tries <= MaxRetries

MayRetry(w) == ~hasMedia /\ cur[w].tries < MaxRetries

\* Mutant of Requeue: the try is not counted.
RequeueUncounted(w) ==
  /\ wpc[w] = "retry" /\ MayRetry(w)
  /\ retryQ' = retryQ \cup {cur[w]}
  /\ Finish(w)
  /\ UNCHANGED <<mysql, accountQ, globalQ, batch, jobs, delivered, crashes>>

Requeue(w) ==
  /\ wpc[w] = "retry" /\ MayRetry(w)
  /\ retryQ' = retryQ \cup {[cur[w] EXCEPT !.tries = @ + 1]}
  /\ Finish(w)
  /\ UNCHANGED <<mysql, accountQ, globalQ, batch, jobs, delivered, crashes>>

\* Mutant of Fail: nobody looks whether the campaign is complete.
FailUnsettled(w) ==
  /\ wpc[w] = "retry" /\ ~MayRetry(w)
  /\ SetRow(Target(w), "failed")
  /\ Finish(w)
  /\ UNCHANGED <<hasMedia, campaign, logged, redis, batch, jobs, delivered, crashes>>

Fail(w) ==
  /\ wpc[w] = "retry" /\ ~MayRetry(w)
  /\ \/ SetRow(Target(w), "failed")
     \/ "db" \in Faults /\ rcp' = rcp
  /\ WGoto(w, "settle")
  /\ UNCHANGED <<hasMedia, campaign, logged, redis, batch, cur, jobs, delivered, crashes>>

\* Mutant of Count: the recipient in hand is counted as pending still.
CountAllButOne(w) == Check(w, "count", Cardinality(Pending) <= 1, "complete")

\* check_and_update_campaign_completion: two reads and a write.
Settle(w) == Check(w, "settle", campaign = "running", "count")
Count(w)  == Check(w, "count", Pending = {}, "complete")

Complete(w) ==
  /\ wpc[w] = "complete"
  /\ campaign' = IF campaign = "deleted" THEN campaign ELSE "completed"
  /\ Finish(w)
  /\ UNCHANGED <<hasMedia, rcp, logged, redis, batch, jobs, delivered, crashes>>

\* A query or a ZADD that fails ends the processing of the message (the "?"
\* operator); update_account_counters is the one at "sent" and "error".
Drop(w) ==
  \/ "db" \in Faults /\
     \E at \in {"history", "row", "gate", "gateRow", "sent", "error",
                "errorRow", "settle", "count", "complete"} : GiveUp(w, at)
  \/ "redis" \in Faults /\ GiveUp(w, "retry") /\ MayRetry(w)

Process(w) ==
  \/ CheckCampaign(w) \/ CheckHistory(w) \/ CheckRow(w)
  \/ Gate(w) \/ GateRow(w)
  \/ MarkSent(w) \/ LogSuccess(w) \/ ErrorGate(w) \/ ErrorRow(w)
  \/ Requeue(w) \/ Fail(w) \/ Settle(w) \/ Count(w) \/ Complete(w)

Send(w) == SendOk(w) \/ SendError(w) \/ SendLate(w)

Queueing(w) ==
  \/ MoveAccount(w) \/ MoveGlobal(w) \/ MoveDone(w)
  \/ FetchPop(w) \/ FetchNothing(w) \/ Unlink(w)

Disturb(w) == LimitDrop(w) \/ MediaError(w) \/ MoveFails(w) \/ Drop(w)

-----------------------------------------------------------------------------
\* The process restarts: what is in MySQL, in Redis and on the phones stays.
Crash ==
  /\ "crash" \in Faults /\ crashes < MaxCrashes
  /\ crashes' = crashes + 1
  /\ wpc' = [w \in Workers |-> "idle"]
  /\ batch' = [w \in Workers |-> {}]
  /\ cur' = [w \in Workers |-> NoMessage]
  /\ jpc' = [j \in Jobs |-> "idle"]
  /\ known' = [j \in Jobs |-> {}]
  /\ scanned' = [j \in Jobs |-> 0]
  /\ todo' = [j \in Jobs |-> {}]
  /\ adding' = [j \in Jobs |-> NoMessage]
  /\ UNCHANGED <<mysql, redis, delivered>>

Next ==
  \/ \E c \in Clients : Request(c) \/ Handler(c) \/ Abandon(c)
  \/ \E j \in Jobs : PageFails(j) \/ EnqueueFails(j)
  \/ RecoverTick \/ EnqueueCampaign(Recovery)
  \/ ScanRetryQueue
  \/ \E w \in Workers : \/ Queueing(w) \/ Process(w) \/ AcquirePermit(w)
                        \/ Send(w) \/ Disturb(w)
  \/ Crash

\* Every task that has started goes on; nobody is obliged to send a request.
\* The semaphore is fair, and a worker is not turned down at the rate limits
\* for ever: they are per minute, hour and day.
Fairness ==
  /\ WF_vars(RecoverTick)
  /\ \A c \in Clients : WF_vars(Handler(c))
  /\ WF_vars(EnqueueCampaign(Recovery))
  /\ WF_vars(ScanRetryQueue)
  /\ \A w \in Workers : /\ WF_vars(Queueing(w)) /\ WF_vars(Process(w))
                        /\ WF_vars(Send(w))
                        /\ SF_vars(AcquirePermit(w)) /\ SF_vars(Gate(w))

Spec == Init /\ [][Next]_vars /\ Fairness

-----------------------------------------------------------------------------
(* Correctness                                                              *)

MysqlOK ==
  /\ hasMedia \in BOOLEAN
  /\ campaign \in CampaignStatus
  /\ rcp \in [Recipients -> RowStatus]
  /\ logged \subseteq Recipients

RedisOK ==
  accountQ \subseteq Message /\ globalQ \subseteq Message /\ retryQ \subseteq Message

EngineOK ==
  /\ wpc \in [Workers -> WorkerPc]
  /\ batch \in [Workers -> SUBSET Message]
  /\ cur \in [Workers -> Message \cup {NoMessage}]
  /\ \A w \in Workers : cur[w] = NoMessage
       <=> wpc[w] \in {"idle", "fetch", "unlink", "next", "moveAccount"}

JobsOK ==
  /\ jpc \in [Jobs -> JobPc]
  /\ known \in [Jobs -> SUBSET Recipients]
  /\ scanned \in [Jobs -> Nat]
  /\ todo \in [Jobs -> SUBSET Recipients]
  /\ adding \in [Jobs -> Message \cup {NoMessage}]
  /\ \A j \in Jobs : adding[j] = NoMessage <=> jpc[j] # "enqueueGlobal"

\* Every variable keeps the shape the SQL schema, the Redis values and the
\* local variables of the tasks give it, and a slot is filled exactly while the
\* task is where it needs it.
TypeOK ==
  /\ MysqlOK /\ RedisOK /\ EngineOK /\ JobsOK
  /\ delivered \in [Recipients -> Nat]
  /\ crashes \in Nat

\* A row is marked sent, and a success is logged, only for a recipient whose
\* phone got the message, whatever crashes, retries and failed writes lie
\* between: process_single_message reports nothing it did not do.
SentWasDelivered ==
  \A r \in Recipients : AlreadySent(r) => delivered[r] > 0

\* A message the Lua script has popped is held by one worker and is in no
\* queue another worker pops from: no message id is processed twice at a time.
OneHolder ==
  \A v, w \in Workers :
    \A m \in InHand(v) :
      /\ \A n \in globalQ : n.id # m.id
      /\ v # w => \A n \in InHand(w) : n.id # m.id

\* A request that is about to take the campaign out of "paused".
Resuming == \E c \in Clients : jpc[c] \in {"validate", "launch", "resetStatus"}

\* No worker gets past the last gate while the campaign is paused, although it
\* reads the campaign and the row in two queries and the pause may fall between
\* them: the transaction pauses the rows as well.
GateShut ==
  [][\A w \in Workers :
       (wpc[w] = "gateRow" /\ wpc'[w] = "ready")
         => (campaign = "paused" => Resuming)]_vars

\* A completed campaign leaves no row behind that was never settled.
CompletedIsSettled ==
  campaign = "completed" => \A r \in Recipients : rcp[r] \notin {"pending", "paused"}

\* Nobody gets a picture twice, and nobody gets a text twice unless a send that
\* was reported as failed had arrived: the retry is the only way to send again,
\* and process_single_message keeps media out of it.
AtMostOnce ==
  hasMedia \/ "late" \notin Faults => \A r \in Recipients : delivered[r] <= 1

\* A message in an account's queue is in the global queue too, from which alone
\* it is ever popped, except between the two ZADDs of an enqueue or a retry and
\* between the pop and its ZREM.
NoGhost ==
  \A m \in accountQ :
    \/ m \in globalQ
    \/ \E j \in Jobs : adding[j] = m
    \/ \E w \in Workers : \/ wpc[w] = "moveGlobal" /\ cur[w] = m
                          \/ wpc[w] = "unlink" /\ m \in batch[w]

\* Every pending recipient of a campaign that runs is settled in the end.
Processed ==
  \A r \in Recipients :
    campaign = "running" /\ rcp[r] = "pending"
      ~> rcp[r] # "pending" \/ campaign # "running"

\* A campaign with nothing left to send does not stay "running".  Deleting recipients is
\* no way to complete it: delete_wa_recipient does not look whether any are left.
CompletionReached ==
  campaign = "running" /\ Pending = {}
    ~> campaign # "running" \/ Pending # {} \/ \E r \in Recipients : ~Exists(r)

-----------------------------------------------------------------------------
(* The promise of a campaign                                                *)

\* Between the last gate and the answer of the bridge.
Sending == {cur[w].rcp : w \in {v \in Workers : wpc[v] = "ready"}}

Promise == INSTANCE CampaignPromise WITH
  Attempts <- MaxRetries + 1,
  Most     <- MaxDeliveries,
  Sure     <- "late" \notin Faults,
  picture  <- hasMedia,
  status   <- campaign,
  row      <- rcp,
  sending  <- Sending,
  copies   <- delivered

\* A campaign that one user starts, and may delete, keeps the promise, whatever the
\* workers, the retries and the deletion do to each other's messages: two reads and a
\* send later a row is still the sender's own, and a row that a worker has settled,
\* or a campaign that is completed, is not taken up again.
PromiseKept == Promise!Spec

=============================================================================
