------------------------------ MODULE RateLimit ------------------------------
(***************************************************************************)
(* The anti-ban limits of one WhatsApp account: the AccountRateLimit record *)
(* behind its RwLock and the senders that hold a permit of the account.     *)
(* Each asks once whether it may send, then sleeps for several seconds, and *)
(* is counted only after the send: CampaignBlast knows these sleeps only as *)
(* places where other tasks run.                                            *)
(*                                                                          *)
(* Time is relative: every Instant is kept as its age in ticks, and an age  *)
(* that no comparison can tell from a greater one stops growing.  A sleep   *)
(* may last longer than asked, since nothing forces a task to run.  The     *)
(* counters live in memory, so a restart of the process is Init again.      *)
(***************************************************************************)
EXTENDS Naturals, FiniteSets

CONSTANTS
  Senders,      \* tasks with a permit: max_concurrent_per_account of them
  MinuteLimit,  \* rate_limit_per_minute
  DailyLimit,   \* daily_limit
  Window,       \* a minute, in ticks
  Day,          \* a day, in ticks
  MinDelay,     \* min_delay_seconds
  MaxDelay,     \* max_delay_seconds
  MinTyping,    \* min_typing_seconds
  MaxTyping     \* max_typing_seconds

ASSUME SenderAssumption == IsFiniteSet(Senders)
ASSUME LimitAssumption  ==
  /\ MinuteLimit \in Nat \ {0} /\ DailyLimit \in Nat \ {0}
  /\ Window \in Nat \ {0} /\ Day \in Nat \ {0} /\ MinDelay \in Nat \ {0}
  /\ MaxDelay \in Nat /\ MinTyping \in Nat /\ MaxTyping \in Nat

VARIABLES
  minuteCount, \* minute_count
  windowAge,   \* age of minute_window_start
  dailyCount,  \* daily_count
  newDay,      \* daily_reset_at is before today's midnight
  lastAge,     \* age of last_send_at; MinDelay if there is none
  clock,       \* the time of day
  pc,          \* where each sender is
  timer,       \* what is left of its sleep
  sentWindow,  \* history: sends since the window was last restarted
  sentDay,     \* history: sends since midnight
  sentAge      \* history: age of each sender's last send, up to Pause

limit == <<minuteCount, windowAge, dailyCount, newDay>>
vars == <<minuteCount, windowAge, dailyCount, newDay, lastAge, clock, pc, timer,
          sentWindow, sentDay, sentAge>>

SenderPc == {"idle", "limit", "reset", "wait", "approved", "smart", "jitter", "typing",
             "sent"}

\* Senders that were let through and are not counted yet.
Approved == {s \in Senders : pc[s] \in {"approved", "smart", "jitter", "typing", "sent"}}

\* Those of them that have sent.
Uncounted == {s \in Senders : pc[s] = "sent"}

\* The smart delay, the jitter and the typing of one message.
Pause == 2 * MinDelay + MinTyping

Goto(s, l) == pc' = [pc EXCEPT ![s] = l]

Init ==
  /\ minuteCount = 0 /\ windowAge = 0
  /\ dailyCount = 0 /\ newDay = FALSE
  /\ lastAge = MinDelay
  /\ clock \in 0 .. Day - 1
  /\ pc = [s \in Senders |-> "idle"]
  /\ timer = [s \in Senders |-> 0]
  /\ sentWindow = 0 /\ sentDay = 0
  /\ sentAge = [s \in Senders |-> Pause]

-----------------------------------------------------------------------------
(* enforce_rate_limits                                                      *)

\* A sender has its permit and has passed its gate.
Begin(s) ==
  /\ pc[s] = "idle"
  /\ Goto(s, "limit")
  /\ UNCHANGED <<limit, lastAge, clock, timer, sentWindow, sentDay, sentAge>>

\* can_send first starts a new day and a new window if their time has come.
Daily   == IF newDay THEN 0 ELSE dailyCount
Expired == windowAge >= Window
Minute  == IF Expired THEN 0 ELSE minuteCount

\* Mutant of CanSend: the limit itself is let through.
CanSendOneMore == Daily <= DailyLimit /\ Minute <= MinuteLimit

CanSend == Daily < DailyLimit /\ Minute < MinuteLimit

NewDay == dailyCount' = Daily /\ newDay' = FALSE

NewWindow ==
  /\ minuteCount' = Minute
  /\ windowAge' = IF Expired THEN 0 ELSE windowAge
  /\ sentWindow' = IF Expired THEN 0 ELSE sentWindow

Approve(s) ==
  /\ pc[s] = "limit" /\ CanSend
  /\ NewDay /\ NewWindow
  /\ Goto(s, "approved")
  /\ UNCHANGED <<lastAge, clock, timer, sentDay, sentAge>>

\* The daily limit is an error, which drops the message; the window is left as
\* it is.
DailyLimitReached(s) ==
  /\ pc[s] = "limit" /\ Daily >= DailyLimit
  /\ NewDay
  /\ Goto(s, "idle")
  /\ UNCHANGED <<minuteCount, windowAge, lastAge, clock, timer, sentWindow, sentDay,
                 sentAge>>

MinuteLimitReached(s) ==
  /\ pc[s] = "limit" /\ ~CanSend /\ Daily < DailyLimit
  /\ NewDay /\ NewWindow
  /\ Goto(s, "reset")
  /\ UNCHANGED <<lastAge, clock, timer, sentDay, sentAge>>

\* time_until_reset is read under a lock of its own.
ReadWait(s) ==
  /\ pc[s] = "reset"
  /\ timer' = [timer EXCEPT ![s] = IF Expired THEN 0 ELSE Window - windowAge]
  /\ Goto(s, "wait")
  /\ UNCHANGED <<limit, lastAge, clock, sentWindow, sentDay, sentAge>>

TryAgain(s) ==
  /\ pc[s] = "wait" /\ timer[s] = 0
  /\ Goto(s, "limit")
  /\ UNCHANGED <<limit, lastAge, clock, timer, sentWindow, sentDay, sentAge>>

-----------------------------------------------------------------------------
(* apply_smart_delay, simulate_typing, the send and record_send             *)

SmartDelay(s) ==
  /\ pc[s] = "approved"
  /\ timer' = [timer EXCEPT ![s] = IF lastAge < MinDelay THEN MinDelay - lastAge ELSE 0]
  /\ Goto(s, "smart")
  /\ UNCHANGED <<limit, lastAge, clock, sentWindow, sentDay, sentAge>>

\* Mutant of Jitter: the delay alone decides.
NoJitter(s) ==
  /\ pc[s] = "smart" /\ timer[s] = 0
  /\ Goto(s, "jitter")
  /\ UNCHANGED <<limit, lastAge, clock, timer, sentWindow, sentDay, sentAge>>

Jitter(s) ==
  /\ pc[s] = "smart" /\ timer[s] = 0
  /\ \E d \in MinDelay .. MaxDelay : timer' = [timer EXCEPT ![s] = d]
  /\ Goto(s, "jitter")
  /\ UNCHANGED <<limit, lastAge, clock, sentWindow, sentDay, sentAge>>

Typing(s) ==
  /\ pc[s] = "jitter" /\ timer[s] = 0
  /\ \E d \in MinTyping .. MaxTyping : timer' = [timer EXCEPT ![s] = d]
  /\ Goto(s, "typing")
  /\ UNCHANGED <<limit, lastAge, clock, sentWindow, sentDay, sentAge>>

Send(s) ==
  /\ pc[s] = "typing" /\ timer[s] = 0
  /\ sentWindow' = sentWindow + 1
  /\ sentDay' = sentDay + 1
  /\ sentAge' = [sentAge EXCEPT ![s] = 0]
  /\ Goto(s, "sent")
  /\ UNCHANGED <<limit, lastAge, clock, timer>>

\* Mutant of RecordSend: only the minute is counted.
RecordMinuteOnly(s) ==
  /\ pc[s] = "sent"
  /\ minuteCount' = minuteCount + 1
  /\ lastAge' = 0
  /\ Goto(s, "idle")
  /\ UNCHANGED <<windowAge, dailyCount, newDay, clock, timer, sentWindow, sentDay, sentAge>>

\* Whether the send succeeded or not.
RecordSend(s) ==
  /\ pc[s] = "sent"
  /\ minuteCount' = minuteCount + 1
  /\ dailyCount' = dailyCount + 1
  /\ lastAge' = 0
  /\ Goto(s, "idle")
  /\ UNCHANGED <<windowAge, newDay, clock, timer, sentWindow, sentDay, sentAge>>

\* pause_aware_sleep, or a gate between the sleeps, finds the campaign paused:
\* the approval was for nothing and is not counted.
Stop(s) ==
  /\ pc[s] \in {"wait", "smart", "jitter", "typing"}
  /\ timer' = [timer EXCEPT ![s] = 0]
  /\ Goto(s, "idle")
  /\ UNCHANGED <<limit, lastAge, clock, sentWindow, sentDay, sentAge>>

-----------------------------------------------------------------------------
\* Mutant of Older: a window never gets old enough to be restarted early.
OlderUnbounded(age, bound) == age + 1

Older(age, bound) == IF age < bound THEN age + 1 ELSE bound

Tick ==
  /\ windowAge' = Older(windowAge, Window)
  /\ lastAge' = Older(lastAge, MinDelay)
  /\ timer' = [s \in Senders |-> IF timer[s] = 0 THEN 0 ELSE timer[s] - 1]
  /\ sentAge' = [s \in Senders |-> Older(sentAge[s], Pause)]
  /\ IF clock + 1 < Day
     THEN clock' = clock + 1 /\ UNCHANGED <<newDay, sentDay>>
     ELSE clock' = 0 /\ newDay' = TRUE /\ sentDay' = 0
  /\ UNCHANGED <<minuteCount, dailyCount, pc, sentWindow>>

Next ==
  \/ \E s \in Senders :
       \/ Begin(s) \/ Approve(s) \/ DailyLimitReached(s) \/ MinuteLimitReached(s)
       \/ ReadWait(s) \/ TryAgain(s) \/ SmartDelay(s) \/ Jitter(s) \/ Typing(s)
       \/ Send(s) \/ RecordSend(s) \/ Stop(s)
  \/ Tick

Spec == Init /\ [][Next]_vars

-----------------------------------------------------------------------------
(* Correctness                                                              *)

\* The counters are numbers, the ages stay within what the comparisons tell
\* apart, and only a sleeping sender has a timer that runs.
TypeOK ==
  /\ minuteCount \in Nat /\ windowAge \in 0 .. Window
  /\ dailyCount \in Nat /\ newDay \in BOOLEAN
  /\ lastAge \in 0 .. MinDelay /\ clock \in 0 .. Day - 1
  /\ pc \in [Senders -> SenderPc]
  /\ timer \in [Senders -> Nat]
  /\ \A s \in Senders : timer[s] > 0 => pc[s] \in {"wait", "smart", "jitter", "typing"}
  /\ sentWindow \in Nat /\ sentDay \in Nat
  /\ sentAge \in [Senders -> 0 .. Pause]

\* The limit is checked before the sleeps and counted after the send, so it can
\* be overshot, but by no more than one message for every other permit.
WindowBound == sentWindow + 1 <= MinuteLimit + Cardinality(Senders)

\* A day can be overshot twice: by the messages that were approved the day
\* before, which the old counter gets, and by those approved at the limit.
DayBound == sentDay + 1 <= DailyLimit + 2 * Cardinality(Senders)

\* The senders of an account do not wait for each other, but each lets the smart
\* delay, the jitter and the typing of a message pass after its last send.
OwnPause ==
  [][\A s \in Senders : pc[s] # "sent" /\ pc'[s] = "sent" => sentAge[s] = Pause]_vars

=============================================================================
