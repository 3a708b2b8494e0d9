-------------------------- MODULE RateLimitProofs --------------------------
(***************************************************************************)
(* How far the limits of an account can be overshot, and how long a permit  *)
(* pauses, for any number of permits, any limits and any lengths of the     *)
(* window, the day and the sleeps.                                          *)
(***************************************************************************)
EXTENDS RateLimit, FiniteSetTheorems, TLAPS

-----------------------------------------------------------------------------
(* Type correctness                                                         *)

LEMMA OlderBounded ==
  ASSUME NEW bound \in Nat, NEW age \in 0 .. bound
  PROVE  Older(age, bound) \in 0 .. bound
BY DEF Older

LEMMA PauseNat == Pause \in Nat
BY LimitAssumption DEF Pause

LEMMA TypeStep == ASSUME TypeOK, [Next]_vars PROVE TypeOK'
<1>. USE LimitAssumption, PauseNat DEF TypeOK, SenderPc
<1>1. ASSUME NEW s \in Senders,
             Begin(s) \/ ReadWait(s) \/ TryAgain(s) \/ SmartDelay(s) \/ Stop(s)
      PROVE  TypeOK'
  BY <1>1 DEF Begin, ReadWait, TryAgain, SmartDelay, Stop, Goto, Expired, limit
<1>2. ASSUME NEW s \in Senders,
             Approve(s) \/ DailyLimitReached(s) \/ MinuteLimitReached(s)
      PROVE  TypeOK'
  <2>1. newDay' \in BOOLEAN
    BY <1>2, Zenon DEF Approve, DailyLimitReached, MinuteLimitReached, NewDay
  <2>2. dailyCount' \in Nat
    BY <1>2 DEF Approve, DailyLimitReached, MinuteLimitReached, NewDay, Daily
  <2>3. minuteCount' \in Nat /\ windowAge' \in 0 .. Window /\ sentWindow' \in Nat
    BY <1>2 DEF Approve, DailyLimitReached, MinuteLimitReached, NewWindow, Minute
  <2>4. /\ pc' \in [Senders -> SenderPc]
        /\ \A r \in Senders : timer'[r] > 0 => pc'[r] \in {"wait", "smart", "jitter", "typing"}
    BY <1>2 DEF Approve, DailyLimitReached, MinuteLimitReached, Goto
  <2>5. UNCHANGED <<lastAge, clock, timer, sentDay, sentAge>>
    BY <1>2 DEF Approve, DailyLimitReached, MinuteLimitReached
  <2>. QED BY <2>1, <2>2, <2>3, <2>4, <2>5
<1>3. ASSUME NEW s \in Senders, Jitter(s) \/ Typing(s) PROVE TypeOK'
  BY <1>3 DEF Jitter, Typing, Goto, limit
<1>4. ASSUME NEW s \in Senders, Send(s) PROVE TypeOK'
  BY <1>4 DEF Send, Goto, limit
<1>5. ASSUME NEW s \in Senders, RecordSend(s) PROVE TypeOK'
  BY <1>5 DEF RecordSend, Goto
<1>6. CASE Tick
  <2>1. windowAge' \in 0 .. Window /\ lastAge' \in 0 .. MinDelay
    BY <1>6, OlderBounded DEF Tick
  <2>2. sentAge' \in [Senders -> 0 .. Pause]
    BY <1>6, OlderBounded DEF Tick
  <2>3. clock' \in 0 .. Day - 1 /\ sentDay' \in Nat
    BY <1>6 DEF Tick
  <2>6. newDay' \in BOOLEAN
    BY <1>6, Zenon DEF Tick
  <2>4. timer' \in [Senders -> Nat]
    BY <1>6 DEF Tick
  <2>5. \A s \in Senders : timer'[s] > 0 => pc'[s] \in {"wait", "smart", "jitter", "typing"}
    BY <1>6 DEF Tick
  <2>. QED BY <1>6, <2>1, <2>2, <2>3, <2>4, <2>5, <2>6 DEF Tick
<1>7. CASE UNCHANGED vars
  BY <1>7 DEF vars
<1>. QED BY <1>1, <1>2, <1>3, <1>4, <1>5, <1>6, <1>7 DEF Next

LEMMA TypeInit == Init => TypeOK
<1>. SUFFICES ASSUME Init PROVE TypeOK
  OBVIOUS
<1>1. newDay \in BOOLEAN
  BY Zenon DEF Init
<1>2. /\ minuteCount = 0 /\ dailyCount = 0 /\ sentWindow = 0 /\ sentDay = 0
      /\ windowAge \in 0 .. Window /\ lastAge \in 0 .. MinDelay /\ clock \in 0 .. Day - 1
  BY LimitAssumption DEF Init
<1>3. /\ pc \in [Senders -> SenderPc] /\ timer \in [Senders -> Nat]
      /\ \A s \in Senders : timer[s] = 0
      /\ sentAge \in [Senders -> 0 .. Pause]
  BY PauseNat DEF Init, SenderPc
<1>. QED BY <1>1, <1>2, <1>3 DEF TypeOK

\* The counters, the ages and the sleeps of an account's senders keep their
\* shape whatever the limits are (AccountRateLimit).
THEOREM LimiterTypes == Spec => []TypeOK
BY TypeInit, TypeStep, PTL DEF Spec

-----------------------------------------------------------------------------
(* The overshoot                                                            *)

C == Cardinality(Senders)

\* Counted and approved messages together exceed no limit by more than the other
\* permits; what was sent is counted, or about to be, except for what an approval
\* of the day before sent after midnight.
Overshoot ==
  /\ minuteCount + Cardinality(Approved) + 1 <= MinuteLimit + C
  /\ sentWindow <= minuteCount + Cardinality(Uncounted)
  /\ dailyCount + Cardinality(Approved) + 1 <= DailyLimit + C
  /\ newDay => sentDay + Cardinality(Approved \ Uncounted) <= C
  /\ ~newDay => sentDay <= C + dailyCount + Cardinality(Uncounted)

LimitInv == TypeOK /\ Overshoot

\* The three sets of senders are finite and no larger than the permits.
LEMMA Sizes ==
  /\ IsFiniteSet(Approved) /\ IsFiniteSet(Uncounted) /\ IsFiniteSet(Approved \ Uncounted)
  /\ C \in Nat /\ Cardinality(Approved) \in 0 .. C /\ Cardinality(Uncounted) \in 0 .. C
  /\ Cardinality(Approved \ Uncounted) \in 0 .. C
  /\ Cardinality(Approved) = Cardinality(Uncounted) + Cardinality(Approved \ Uncounted)
<1>1. /\ Approved \subseteq Senders /\ Uncounted \subseteq Approved
      /\ Approved \ Uncounted \subseteq Senders
  BY DEF Approved, Uncounted
<1>2. IsFiniteSet(Approved) /\ IsFiniteSet(Uncounted) /\ IsFiniteSet(Approved \ Uncounted)
  BY <1>1, SenderAssumption, FS_Subset
<1>3. /\ Cardinality(Approved) <= C /\ Cardinality(Uncounted) <= C
      /\ Cardinality(Approved \ Uncounted) <= C
  BY <1>1, SenderAssumption, FS_Subset DEF C
<1>4. /\ C \in Nat /\ Cardinality(Approved) \in Nat /\ Cardinality(Uncounted) \in Nat
      /\ Cardinality(Approved \ Uncounted) \in Nat
  BY <1>2, SenderAssumption, FS_CardinalityType DEF C
<1>5. Cardinality(Approved \ Uncounted)
        = Cardinality(Approved) - Cardinality(Approved \cap Uncounted)
  BY <1>2, FS_Difference
<1>6. Cardinality(Approved \cap Uncounted) = Cardinality(Uncounted)
  <2>1. Approved \cap Uncounted = Uncounted
    BY <1>1
  <2>. QED BY <2>1
<1>. DEFINE a == Cardinality(Approved)
            u == Cardinality(Uncounted)
            d == Cardinality(Approved \ Uncounted)
<1>7. a = u + d
  <2>1. d = a - u
    BY <1>5, <1>6
  <2>. HIDE DEF a, u, d
  <2>2. a \in Nat /\ u \in Nat /\ d \in Nat
    BY <1>4 DEF a, u, d
  <2>. QED BY <2>1, <2>2
<1>8. a \in 0 .. C /\ u \in 0 .. C /\ d \in 0 .. C
  <2>. HIDE DEF a, u, d
  <2>1. a \in Nat /\ u \in Nat /\ d \in Nat /\ a <= C /\ u <= C /\ d <= C /\ C \in Nat
    BY <1>3, <1>4 DEF a, u, d
  <2>. QED BY <2>1
<1>. QED BY <1>2, <1>4, <1>7, <1>8

\* A sender that is not approved leaves room for itself.
LEMMA Room ==
  ASSUME NEW s \in Senders, s \notin Approved
  PROVE  Cardinality(Approved) + 1 <= C
<1>1. Approved \subseteq Senders \ {s}
  BY DEF Approved
<1>2. IsFiniteSet(Senders \ {s}) /\ Cardinality(Senders \ {s}) = C - 1
  BY SenderAssumption, FS_RemoveElement DEF C
<1>3. Cardinality(Approved) <= Cardinality(Senders \ {s})
  BY <1>1, <1>2, FS_Subset
<1>. QED BY <1>2, <1>3, Sizes

\* An approval adds its sender, a send moves it, a record or a stop removes it.
LEMMA Moves ==
  ASSUME TypeOK, NEW s \in Senders, NEW l \in SenderPc, Goto(s, l)
  PROVE  /\ (l \in {"approved", "smart", "jitter", "typing"})
              => Approved' = Approved \cup {s} /\ Uncounted' = Uncounted \ {s}
         /\ l = "sent" => Approved' = Approved \cup {s} /\ Uncounted' = Uncounted \cup {s}
         /\ (l \in {"idle", "limit", "reset", "wait"})
              => Approved' = Approved \ {s} /\ Uncounted' = Uncounted \ {s}
BY DEF TypeOK, Goto, Approved, Uncounted

LEMMA OvershootInit == Init => Overshoot
<1>. SUFFICES ASSUME Init PROVE Overshoot
  OBVIOUS
<1>1. Approved = {} /\ Uncounted = {}
  BY DEF Init, Approved, Uncounted
<1>2. Cardinality(Approved) = 0 /\ Cardinality(Uncounted) = 0
  BY <1>1, FS_EmptySet
<1>. QED BY <1>2, Sizes, LimitAssumption DEF Init, Overshoot

LEMMA ApproveOvershoot ==
  ASSUME LimitInv, NEW s \in Senders, Approve(s)
  PROVE  Overshoot'
<1>. USE DEF LimitInv, TypeOK
<1>1. s \notin Approved /\ s \notin Uncounted
  BY DEF Approve, Approved, Uncounted
<1>2. Approved' = Approved \cup {s} /\ Uncounted' = Uncounted
  BY <1>1, Moves DEF Approve, SenderPc
<1>3. Cardinality(Approved') = Cardinality(Approved) + 1
  BY <1>1, <1>2, Sizes, FS_AddElement
<1>4. Cardinality(Approved) + 1 <= C
  BY <1>1, Room
<1>5. minuteCount' + Cardinality(Approved') + 1 <= MinuteLimit + C
  BY <1>3, <1>4, Sizes, LimitAssumption DEF Approve, CanSend, NewWindow, Minute
<1>6. dailyCount' + Cardinality(Approved') + 1 <= DailyLimit + C
  BY <1>3, <1>4, Sizes, LimitAssumption DEF Approve, CanSend, NewDay, Daily
<1>7. sentWindow' <= minuteCount' + Cardinality(Uncounted')
  BY <1>2, Sizes DEF Approve, NewWindow, Minute, Overshoot
<1>8. ~newDay' /\ sentDay' <= C + dailyCount' + Cardinality(Uncounted')
  BY <1>2, Sizes DEF Approve, NewDay, Daily, Overshoot
<1>. QED BY <1>5, <1>6, <1>7, <1>8 DEF Overshoot, C

LEMMA RefuseOvershoot ==
  ASSUME LimitInv, NEW s \in Senders, DailyLimitReached(s) \/ MinuteLimitReached(s)
  PROVE  Overshoot'
<1>. USE DEF LimitInv, TypeOK
<1>1. s \notin Approved /\ s \notin Uncounted
  BY DEF DailyLimitReached, MinuteLimitReached, Approved, Uncounted
<1>2. Approved' = Approved /\ Uncounted' = Uncounted
  BY <1>1, Moves DEF DailyLimitReached, MinuteLimitReached, SenderPc
<1>3. Cardinality(Approved) + 1 <= C
  BY <1>1, Room
<1>4. /\ minuteCount' \in {minuteCount, 0} /\ minuteCount' \in Nat
      /\ sentWindow' <= minuteCount' + Cardinality(Uncounted)
  BY Sizes DEF DailyLimitReached, MinuteLimitReached, NewWindow, Minute, Overshoot
<1>5. dailyCount' = Daily /\ ~newDay' /\ sentDay' = sentDay
  BY DEF DailyLimitReached, MinuteLimitReached, NewDay
<1>6. dailyCount' + Cardinality(Approved) + 1 <= DailyLimit + C
  BY <1>3, <1>5, Sizes, LimitAssumption DEF Daily, Overshoot
<1>7. minuteCount' + Cardinality(Approved) + 1 <= MinuteLimit + C
  BY <1>3, <1>4, Sizes, LimitAssumption DEF Overshoot
<1>8. sentDay' <= C + dailyCount' + Cardinality(Uncounted)
  BY <1>5, Sizes DEF Daily, Overshoot
<1>. QED BY <1>2, <1>4, <1>5, <1>6, <1>7, <1>8 DEF Overshoot, C

LEMMA SendOvershoot ==
  ASSUME LimitInv, NEW s \in Senders, Send(s)
  PROVE  Overshoot'
<1>. USE DEF LimitInv, TypeOK
<1>1. s \in Approved /\ s \notin Uncounted
  BY DEF Send, Approved, Uncounted
<1>2. Approved' = Approved /\ Uncounted' = Uncounted \cup {s}
  BY <1>1, Moves DEF Send, SenderPc
<1>3. Cardinality(Uncounted') = Cardinality(Uncounted) + 1
  BY <1>1, <1>2, Sizes, FS_AddElement
<1>4. Cardinality((Approved \ Uncounted)') = Cardinality(Approved \ Uncounted) - 1
  <2>1. (Approved \ Uncounted)' = (Approved \ Uncounted) \ {s}
    BY <1>2
  <2>. QED BY <1>1, <2>1, Sizes, FS_RemoveElement
<1>5. UNCHANGED <<minuteCount, dailyCount, newDay>>
      /\ sentWindow' = sentWindow + 1 /\ sentDay' = sentDay + 1
  BY DEF Send, limit
<1>. QED BY <1>2, <1>3, <1>4, <1>5, Sizes, LimitAssumption DEF Overshoot, C

LEMMA RecordOvershoot ==
  ASSUME LimitInv, NEW s \in Senders, RecordSend(s)
  PROVE  Overshoot'
<1>. USE DEF LimitInv, TypeOK
<1>1. s \in Approved /\ s \in Uncounted
  BY DEF RecordSend, Approved, Uncounted
<1>2. Approved' = Approved \ {s} /\ Uncounted' = Uncounted \ {s}
  BY Moves DEF RecordSend, SenderPc
<1>3. /\ Cardinality(Uncounted') = Cardinality(Uncounted) - 1
      /\ Cardinality(Approved') = Cardinality(Approved) - 1
  BY <1>1, <1>2, Sizes, FS_RemoveElement
<1>4. (Approved \ Uncounted)' = Approved \ Uncounted
  BY <1>1, <1>2
<1>5. UNCHANGED <<newDay, sentWindow, sentDay>>
      /\ minuteCount' = minuteCount + 1 /\ dailyCount' = dailyCount + 1
  BY DEF RecordSend
<1>6. CASE newDay
  BY <1>3, <1>4, <1>5, <1>6, Sizes, LimitAssumption DEF Overshoot, C
<1>7. CASE ~newDay
  BY <1>3, <1>4, <1>5, <1>7, Sizes, LimitAssumption DEF Overshoot, C
<1>. QED BY <1>6, <1>7

\* A sender that moves on to its next sleep, or gives up, sends and counts nothing.
LEMMA SleepOvershoot ==
  ASSUME LimitInv, NEW s \in Senders,
         Begin(s) \/ ReadWait(s) \/ TryAgain(s) \/ SmartDelay(s) \/ Jitter(s) \/ Typing(s)
           \/ Stop(s)
  PROVE  Overshoot'
<1>. USE DEF LimitInv, TypeOK
<1>1. UNCHANGED <<minuteCount, dailyCount, newDay, sentWindow, sentDay>>
  BY DEF Begin, ReadWait, TryAgain, SmartDelay, Jitter, Typing, Stop, limit
<1>2. Uncounted' = Uncounted
  BY DEF Begin, ReadWait, TryAgain, SmartDelay, Jitter, Typing, Stop, Goto, Uncounted
<1>3. Approved' \subseteq Approved
  BY DEF Begin, ReadWait, TryAgain, SmartDelay, Jitter, Typing, Stop, Goto, Approved
<1>4. Cardinality(Approved') <= Cardinality(Approved)
  BY <1>3, Sizes, FS_Subset
<1>5. Cardinality((Approved \ Uncounted)') <= Cardinality(Approved \ Uncounted)
  <2>1. (Approved \ Uncounted)' \subseteq Approved \ Uncounted
    BY <1>2, <1>3
  <2>. QED BY <2>1, Sizes, FS_Subset
<1>6. Cardinality(Approved') \in Nat /\ Cardinality((Approved \ Uncounted)') \in Nat
  <2>1. IsFiniteSet(Approved') /\ IsFiniteSet((Approved \ Uncounted)')
    BY <1>2, <1>3, Sizes, FS_Subset
  <2>. QED BY <2>1, FS_CardinalityType
<1>. QED BY <1>1, <1>2, <1>4, <1>5, <1>6, Sizes, LimitAssumption DEF Overshoot, C

\* Midnight forgets the sends of the day, but not who is approved.
LEMMA TickOvershoot == ASSUME LimitInv, Tick PROVE Overshoot'
<1>. USE DEF LimitInv, TypeOK
<1>1. Approved' = Approved /\ Uncounted' = Uncounted
  BY DEF Tick, Approved, Uncounted
<1>2. UNCHANGED <<minuteCount, dailyCount, sentWindow>>
      /\ (UNCHANGED <<newDay, sentDay>> \/ (newDay' /\ sentDay' = 0))
  BY DEF Tick
<1>. QED BY <1>1, <1>2, Sizes DEF Overshoot, C

LEMMA LimitStep == ASSUME LimitInv, [Next]_vars PROVE LimitInv'
<1>1. TypeOK'
  BY TypeStep DEF LimitInv
<1>2. CASE UNCHANGED vars
  <2>1. Approved' = Approved /\ Uncounted' = Uncounted
    BY <1>2 DEF vars, Approved, Uncounted
  <2>2. /\ minuteCount' = minuteCount /\ dailyCount' = dailyCount /\ newDay' = newDay
        /\ sentWindow' = sentWindow /\ sentDay' = sentDay
    BY <1>2 DEF vars
  <2>. QED BY <1>1, <2>1, <2>2, Zenon DEF LimitInv, Overshoot, C
<1>. QED BY <1>1, <1>2, ApproveOvershoot, RefuseOvershoot, SendOvershoot,
            RecordOvershoot, SleepOvershoot, TickOvershoot DEF Next, LimitInv, Overshoot

LEMMA LimitInit == Init => LimitInv
BY TypeInit, OvershootInit DEF LimitInv

\* An account sends at most max_concurrent_per_account - 1 messages more than
\* rate_limit_per_minute between two restarts of its window.
THEOREM MinuteOvershoot == Spec => []WindowBound
<1>1. LimitInv => WindowBound
  BY Sizes, LimitAssumption DEF LimitInv, TypeOK, Overshoot, WindowBound, C
<1>. QED BY <1>1, LimitInit, LimitStep, PTL DEF Spec

\* An account sends at most 2 * max_concurrent_per_account - 1 messages more than
\* daily_limit between two midnights.
THEOREM DailyOvershoot == Spec => []DayBound
<1>1. LimitInv => DayBound
  BY Sizes, LimitAssumption DEF LimitInv, TypeOK, Overshoot, DayBound, C
<1>. QED BY <1>1, LimitInit, LimitStep, PTL DEF Spec

-----------------------------------------------------------------------------
(* The pause of a sender                                                    *)

\* The last record of the account is not older than the last send of a sender
\* that has recorded it, so what it has slept and what is left of its sleep
\* amount to the sleeps behind it and the one it is in.
PauseInv ==
  \A s \in Senders :
    /\ pc[s] # "sent"   => lastAge <= sentAge[s]
    /\ pc[s] = "smart"  => MinDelay <= timer[s] + sentAge[s]
    /\ pc[s] = "jitter" => 2 * MinDelay <= timer[s] + sentAge[s]
    /\ pc[s] = "typing" => Pause <= timer[s] + sentAge[s]

LEMMA PauseInit == Init => PauseInv
<1>1. MinDelay <= Pause
  BY LimitAssumption DEF Pause
<1>. QED BY <1>1 DEF Init, PauseInv

\* Time takes from a sleep what it adds to the age of the send, if that still grows.
LEMMA TickPause == ASSUME TypeOK, PauseInv, Tick PROVE PauseInv'
<1>. SUFFICES ASSUME NEW s \in Senders
              PROVE  /\ pc[s] # "sent"   => lastAge' <= sentAge'[s]
                     /\ pc[s] = "smart"  => MinDelay <= timer'[s] + sentAge'[s]
                     /\ pc[s] = "jitter" => 2 * MinDelay <= timer'[s] + sentAge'[s]
                     /\ pc[s] = "typing" => Pause <= timer'[s] + sentAge'[s]
  BY DEF PauseInv, Tick
<1>1. /\ lastAge \in 0 .. MinDelay /\ timer[s] \in Nat /\ sentAge[s] \in 0 .. Pause
      /\ Pause = 2 * MinDelay + MinTyping /\ MinDelay \in Nat /\ MinTyping \in Nat
  BY LimitAssumption DEF TypeOK, Pause
<1>2. /\ lastAge' = (IF lastAge < MinDelay THEN lastAge + 1 ELSE MinDelay)
      /\ timer'[s] = (IF timer[s] = 0 THEN 0 ELSE timer[s] - 1)
      /\ sentAge'[s] = (IF sentAge[s] < Pause THEN sentAge[s] + 1 ELSE Pause)
  BY DEF Tick, Older
<1>3. /\ pc[s] # "sent"   => lastAge <= sentAge[s]
      /\ pc[s] = "smart"  => MinDelay <= timer[s] + sentAge[s]
      /\ pc[s] = "jitter" => 2 * MinDelay <= timer[s] + sentAge[s]
      /\ pc[s] = "typing" => Pause <= timer[s] + sentAge[s]
  BY DEF PauseInv
<1>. QED BY <1>1, <1>2, <1>3

\* A step of one sender leaves the others' sleeps alone, and makes the last record
\* younger if anything.
LEMMA OthersPause ==
  ASSUME TypeOK, PauseInv, NEW s \in Senders, lastAge' \in {lastAge, 0},
         \A r \in Senders \ {s} : /\ pc'[r] = pc[r] /\ timer'[r] = timer[r]
                                  /\ sentAge'[r] = sentAge[r],
         /\ pc'[s] # "sent"   => lastAge' <= sentAge'[s]
         /\ pc'[s] = "smart"  => MinDelay <= timer'[s] + sentAge'[s]
         /\ pc'[s] = "jitter" => 2 * MinDelay <= timer'[s] + sentAge'[s]
         /\ pc'[s] = "typing" => Pause <= timer'[s] + sentAge'[s]
  PROVE  PauseInv'
<1>1. \A r \in Senders : sentAge[r] \in Nat
  BY PauseNat DEF TypeOK
<1>. QED BY <1>1 DEF PauseInv

LEMMA SenderPause ==
  ASSUME TypeOK, PauseInv, NEW s \in Senders,
         \/ Begin(s) \/ Approve(s) \/ DailyLimitReached(s) \/ MinuteLimitReached(s)
         \/ ReadWait(s) \/ TryAgain(s) \/ SmartDelay(s) \/ Jitter(s) \/ Typing(s)
         \/ Send(s) \/ RecordSend(s) \/ Stop(s)
  PROVE  PauseInv'
<1>0. /\ lastAge \in 0 .. MinDelay /\ timer[s] \in Nat /\ sentAge[s] \in 0 .. Pause
      /\ Pause = 2 * MinDelay + MinTyping /\ MinDelay \in Nat \ {0}
      /\ MinTyping \in Nat /\ MaxDelay \in Nat /\ MaxTyping \in Nat
      /\ pc \in [Senders -> SenderPc] /\ timer \in [Senders -> Nat]
      /\ sentAge \in [Senders -> 0 .. Pause]
  BY LimitAssumption DEF TypeOK, Pause
<1>1. /\ pc[s] # "sent"   => lastAge <= sentAge[s]
      /\ pc[s] = "smart"  => MinDelay <= timer[s] + sentAge[s]
      /\ pc[s] = "jitter" => 2 * MinDelay <= timer[s] + sentAge[s]
      /\ pc[s] = "typing" => Pause <= timer[s] + sentAge[s]
  BY DEF PauseInv
<1>2. CASE \/ Begin(s) \/ Approve(s) \/ DailyLimitReached(s) \/ MinuteLimitReached(s)
           \/ ReadWait(s) \/ TryAgain(s) \/ Stop(s)
  <2>1. /\ pc[s] # "sent" /\ pc'[s] \in {"idle", "limit", "approved", "reset", "wait"}
        /\ UNCHANGED <<lastAge, sentAge>>
        /\ \A r \in Senders \ {s} : pc'[r] = pc[r] /\ timer'[r] = timer[r]
    BY <1>0, <1>2 DEF Begin, Approve, DailyLimitReached, MinuteLimitReached, ReadWait,
                      TryAgain, Stop, Goto
  <2>. QED BY <1>1, <2>1, OthersPause
<1>3. CASE SmartDelay(s)
  <2>1. /\ pc[s] = "approved" /\ pc'[s] = "smart" /\ UNCHANGED <<lastAge, sentAge>>
        /\ timer'[s] = (IF lastAge < MinDelay THEN MinDelay - lastAge ELSE 0)
        /\ \A r \in Senders \ {s} : pc'[r] = pc[r] /\ timer'[r] = timer[r]
    BY <1>0, <1>3 DEF SmartDelay, Goto
  <2>2. MinDelay <= timer'[s] + sentAge'[s]
    BY <1>0, <1>1, <2>1
  <2>. QED BY <1>1, <2>1, <2>2, OthersPause
<1>4. CASE Jitter(s)
  <2>1. /\ pc[s] = "smart" /\ timer[s] = 0 /\ pc'[s] = "jitter" /\ UNCHANGED <<lastAge, sentAge>>
        /\ timer'[s] \in MinDelay .. MaxDelay
        /\ \A r \in Senders \ {s} : pc'[r] = pc[r] /\ timer'[r] = timer[r]
    BY <1>0, <1>4 DEF Jitter, Goto
  <2>2. 2 * MinDelay <= timer'[s] + sentAge'[s]
    BY <1>0, <1>1, <2>1
  <2>. QED BY <1>1, <2>1, <2>2, OthersPause
<1>5. CASE Typing(s)
  <2>1. /\ pc[s] = "jitter" /\ timer[s] = 0 /\ pc'[s] = "typing" /\ UNCHANGED <<lastAge, sentAge>>
        /\ timer'[s] \in MinTyping .. MaxTyping
        /\ \A r \in Senders \ {s} : pc'[r] = pc[r] /\ timer'[r] = timer[r]
    BY <1>0, <1>5 DEF Typing, Goto
  <2>2. Pause <= timer'[s] + sentAge'[s]
    BY <1>0, <1>1, <2>1
  <2>. QED BY <1>1, <2>1, <2>2, OthersPause
<1>6. CASE Send(s)
  <2>1. /\ pc'[s] = "sent" /\ lastAge' = lastAge
        /\ \A r \in Senders \ {s} : /\ pc'[r] = pc[r] /\ timer'[r] = timer[r]
                                    /\ sentAge'[r] = sentAge[r]
    BY <1>0, <1>6 DEF Send, Goto
  <2>. QED BY <2>1, OthersPause
<1>7. CASE RecordSend(s)
  <2>1. /\ pc'[s] = "idle" /\ lastAge' = 0 /\ UNCHANGED <<timer, sentAge>>
        /\ \A r \in Senders \ {s} : pc'[r] = pc[r]
    BY <1>0, <1>7 DEF RecordSend, Goto
  <2>2. lastAge' <= sentAge'[s]
    BY <1>0, <2>1
  <2>. QED BY <2>1, <2>2, OthersPause
<1>. QED BY <1>2, <1>3, <1>4, <1>5, <1>6, <1>7

\* Between two sends of a permit lie the smart delay, the jitter and the typing,
\* however many permits the account has, whoever records in between and however
\* late a sleeper wakes up.
THEOREM EachPermitPauses == Spec => OwnPause
<1>1. Init => TypeOK /\ PauseInv
  BY TypeInit, PauseInit
<1>2. TypeOK /\ PauseInv /\ [Next]_vars => (TypeOK /\ PauseInv)'
  <2>1. UNCHANGED vars /\ PauseInv => PauseInv'
    BY DEF vars, PauseInv
  <2>. QED BY <2>1, TypeStep, TickPause, SenderPause DEF Next
<1> DEFINE Paused == \A s \in Senders : pc[s] # "sent" /\ pc'[s] = "sent" => sentAge[s] = Pause
<1>3. ASSUME TypeOK, PauseInv, [Next]_vars PROVE [Paused]_vars
  <2>. SUFFICES ASSUME NEW s \in Senders, pc[s] # "sent", pc'[s] = "sent" PROVE sentAge[s] = Pause
    BY DEF vars
  <2>0. /\ pc \in [Senders -> SenderPc] /\ timer[s] \in Nat
        /\ sentAge[s] \in 0 .. Pause /\ Pause \in Nat
    BY <1>3, PauseNat DEF TypeOK
  <2>1. Send(s)
    <3>1. pc' # pc /\ Next
      BY <1>3 DEF vars
    <3>2. PICK r \in Senders :
            \/ Begin(r) \/ Approve(r) \/ DailyLimitReached(r) \/ MinuteLimitReached(r)
            \/ ReadWait(r) \/ TryAgain(r) \/ SmartDelay(r) \/ Jitter(r) \/ Typing(r)
            \/ Send(r) \/ RecordSend(r) \/ Stop(r)
      BY <3>1 DEF Next, Tick
    <3>3. CASE Send(r)
      BY <2>0, <3>3 DEF Send, Goto
    <3>4. CASE ~Send(r)
      BY <2>0, <3>2, <3>4 DEF Begin, Approve, DailyLimitReached, MinuteLimitReached, ReadWait,
        TryAgain, SmartDelay, Jitter, Typing, RecordSend, Stop, Goto
    <3>. QED BY <3>3, <3>4
  <2>2. pc[s] = "typing" /\ timer[s] = 0
    BY <2>1 DEF Send
  <2>3. Pause <= timer[s] + sentAge[s]
    BY <1>3, <2>2 DEF PauseInv
  <2>. QED BY <2>0, <2>2, <2>3
<1>. QED BY <1>1, <1>2, <1>3, PTL DEF Spec, OwnPause

=============================================================================
