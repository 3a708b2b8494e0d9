------------------------- MODULE DashboardFormsProofs -------------------------
(***************************************************************************)
(* Proofs about the pages and their forms, for any pages that make the     *)
(* choices of PageRules and any number of writes, loads and failures.      *)
(***************************************************************************)
EXTENDS DashboardForms, SequenceTheorems, TLAPS

Told   == {"nothing", "success", "failure"}
Stages == {"sent", "done", "refused", "reloading", "over"}
Loads  == [key : Keys, by : 0 .. MaxOps, has : SUBSET (0 .. MaxOps), late : BOOLEAN]
Lists  == [key : Keys, has : SUBSET (1 .. MaxOps)] \cup {Nothing}
Started(p) == [does : Writes(p), at : Stages, told : Told, with : Keys]

Typed ==
  /\ page \in Pages /\ server \subseteq DOMAIN ops /\ shown \in Lists
  /\ key \in Keys /\ query \in Keys
  /\ flying \in Seq(Loads) /\ Len(flying) <= MaxFlying
  /\ loading \in BOOLEAN /\ error \in BOOLEAN /\ behind \in BOOLEAN /\ empty \in BOOLEAN
  /\ ops \in Seq(Started(page)) /\ Len(ops) <= MaxOps /\ fails \in 0 .. MaxFails
  /\ empty => page.eager

\* The server has not read for the load yet, or it has the write.
Awaits(f, i) == f.has = NotYet \/ i \in f.has

\* A load reads what the server has committed; one that a write waits for reads
\* that write too.
Reads(has, by) ==
  /\ has # NotYet => has \subseteq server
  /\ by # 0 => /\ by \in server /\ (has = NotYet \/ by \in has)
               /\ ops[by].at \in {"reloading", "over"}
               /\ ops[by].does.after \in {"reload", "restart"}

Answered ==
  /\ \A i \in DOMAIN ops : /\ ops[i].at \in {"sent", "refused"} => i \notin server
                           /\ ops[i].at \in {"done", "reloading"} => i \in server
  /\ \A k \in DOMAIN flying : Reads(flying[k].has, flying[k].by)

Sound == Typed /\ Answered

-----------------------------------------------------------------------------
(* Sequences of loads and writes *)

LEMMA FunctionIsSeq ==
  ASSUME NEW S, NEW n \in Nat, NEW s, s \in [1 .. n -> S]
  PROVE  s \in Seq(S) /\ Len(s) = n /\ DOMAIN s = 1 .. n
OBVIOUS

LEMMA NewLoad ==
  ASSUME NEW k \in Keys, NEW by \in 0 .. MaxOps
  PROVE  /\ Load(k, by) \in Loads /\ Load(k, by).key = k /\ Load(k, by).by = by
         /\ Load(k, by).has = NotYet
<1>1. NotYet \in SUBSET (0 .. MaxOps)
  BY BoundsAssumption DEF NotYet
<1>. QED BY <1>1 DEF Load, Loads

\* What has been read is not what has not been read.
LEMMA ReadIsRead == ASSUME Typed PROVE server # NotYet /\ server \subseteq 1 .. MaxOps
<1>1. server \subseteq 1 .. Len(ops) /\ Len(ops) \in Nat /\ Len(ops) <= MaxOps
  BY LenProperties DEF Typed
<1>. QED BY <1>1, BoundsAssumption DEF NotYet

\* A load is sent.
LEMMA Sent ==
  ASSUME flying \in Seq(Loads), NEW x \in Loads, flying' = Append(flying, x)
  PROVE  /\ flying' \in Seq(Loads) /\ Len(flying') = Len(flying) + 1
         /\ DOMAIN flying' = 1 .. Len(flying) + 1
         /\ flying'[Len(flying) + 1] = x
         /\ \A k \in DOMAIN flying : k \in DOMAIN flying' /\ flying'[k] = flying[k]
OBVIOUS

\* A load is answered: the others stay, those before it are late.
LEMMA Taken ==
  ASSUME flying \in Seq(Loads), NEW i \in DOMAIN flying
  PROVE  /\ Left(i) \in Seq(Loads) /\ Len(Left(i)) = Len(flying) - 1
         /\ DOMAIN Left(i) = 1 .. Len(flying) - 1
         /\ \A j \in 1 .. Len(flying) - 1 :
              /\ j < i => /\ j \in DOMAIN flying /\ Left(i)[j].late
                          /\ Left(i)[j].key = flying[j].key /\ Left(i)[j].by = flying[j].by
                          /\ Left(i)[j].has = flying[j].has
              /\ j >= i => j + 1 \in DOMAIN flying /\ Left(i)[j] = flying[j + 1]
<1>1. Len(flying) \in Nat /\ DOMAIN flying = 1 .. Len(flying)
      /\ \A j \in 1 .. Len(flying) : flying[j] \in Loads
  OBVIOUS
<1>2. i \in 1 .. Len(flying) /\ Len(flying) - 1 \in Nat
  BY <1>1
<1>3. \A f \in Loads : [f EXCEPT !.late = TRUE] \in Loads
  BY DEF Loads
<1>4. \A j \in 1 .. Len(flying) - 1 :
        /\ j < i => j \in 1 .. Len(flying) /\ Left(i)[j] = [flying[j] EXCEPT !.late = TRUE]
        /\ j >= i => j + 1 \in 1 .. Len(flying) /\ Left(i)[j] = flying[j + 1]
  BY <1>2 DEF Left
<1>5. Left(i) \in [1 .. Len(flying) - 1 -> Loads]
  BY <1>1, <1>2, <1>3 DEF Left
<1>6. Left(i) \in Seq(Loads) /\ Len(Left(i)) = Len(flying) - 1
      /\ DOMAIN Left(i) = 1 .. Len(flying) - 1
  BY <1>2, <1>5, FunctionIsSeq
<1>7. \A f \in Loads : LET g == [f EXCEPT !.late = TRUE] IN
        g.late /\ g.key = f.key /\ g.by = f.by /\ g.has = f.has
  BY DEF Loads
<1>. QED BY <1>1, <1>4, <1>6, <1>7

LEMMA Element ==
  ASSUME Typed, NEW i \in DOMAIN ops
  PROVE  /\ ops[i] \in Started(page) /\ ops[i].does \in Writes(page)
         /\ ops[i].told \in Told /\ ops[i].at \in Stages /\ ops[i].with \in Keys
<1>1. ops[i] \in Started(page)
  BY DEF Typed
<1>. QED BY <1>1 DEF Started

\* The writes are the same and in the same order.
Same ==
  /\ page' = page /\ ops' \in Seq(Started(page)) /\ Len(ops') = Len(ops)
  /\ DOMAIN ops' = DOMAIN ops
  /\ \A j \in DOMAIN ops : ops'[j].does = ops[j].does /\ ops'[j].with = ops[j].with

\* A write gets on.
LEMMA Moved ==
  ASSUME Typed, page' = page, NEW i \in DOMAIN ops, NEW a \in Stages, NEW t \in Told,
         \/ ops' = [ops EXCEPT ![i].at = a, ![i].told = t]
         \/ t = ops[i].told /\ ops' = [ops EXCEPT ![i].at = a]
  PROVE  /\ Same /\ ops'[i].at = a /\ ops'[i].told = t
         /\ \A j \in DOMAIN ops : j # i => ops'[j] = ops[j]
<1>1. /\ Len(ops) \in Nat /\ DOMAIN ops = 1 .. Len(ops)
      /\ \A j \in 1 .. Len(ops) : ops[j] \in Started(page)
  BY DEF Typed
<1>2. \A o \in Started(page) :
        /\ [o EXCEPT !.at = a, !.told = t] \in Started(page)
        /\ o.told = t => [o EXCEPT !.at = a] = [o EXCEPT !.at = a, !.told = t]
  BY DEF Started
<1>3. ops' = [ops EXCEPT ![i] = [ops[i] EXCEPT !.at = a, !.told = t]]
  BY <1>1, <1>2
<1>4. ops' \in [1 .. Len(ops) -> Started(page)]
  BY <1>1, <1>2, <1>3
<1>5. \A o \in Started(page) : LET q == [o EXCEPT !.at = a, !.told = t] IN
        q.at = a /\ q.told = t /\ q.does = o.does /\ q.with = o.with
  BY DEF Started
<1>6. ops' \in Seq(Started(page)) /\ Len(ops') = Len(ops) /\ DOMAIN ops' = DOMAIN ops
  BY <1>1, <1>4, FunctionIsSeq
<1>. QED BY <1>1, <1>3, <1>5, <1>6 DEF Same

LEMMA TellTypes == \A o : Tell(o) \in Told /\ TellRefused(o) \in Told
BY DEF Tell, TellRefused, Told

\* The write that waited for a load is over.
LEMMA Waited ==
  ASSUME Typed, page' = page, NEW by \in 0 .. MaxOps, EndWaiting(by)
  PROVE  /\ Same
         /\ \A j \in DOMAIN ops : j # by => ops'[j] = ops[j]
         /\ \A j \in DOMAIN ops : j = by => ops'[j].at = "over"
<1>1. CASE by \in DOMAIN ops
  <2>1. Len(ops) \in Nat /\ DOMAIN ops = 1 .. Len(ops)
        /\ \A j \in 1 .. Len(ops) : ops[j] \in Started(page)
    BY DEF Typed
  <2>2. ops' = [ops EXCEPT ![by].at = "over", ![by].told = Tell(ops[by].does)]
    BY <1>1, <2>1 DEF EndWaiting
  <2>3. "over" \in Stages /\ Tell(ops[by].does) \in Told
    BY TellTypes DEF Stages
  <2>. QED BY <1>1, <2>2, <2>3, Moved
<1>2. CASE by \notin DOMAIN ops
  <2>1. ops \in [1 .. Len(ops) -> Started(page)] /\ DOMAIN ops = 1 .. Len(ops)
    BY LenProperties DEF Typed
  <2>2. ops' = [i \in DOMAIN ops |-> ops[i]]
    BY <1>2 DEF EndWaiting
  <2>3. ops' = ops
    BY <2>1, <2>2
  <2>. QED BY <1>2, <2>3 DEF Same, Typed
<1>. QED BY <1>1, <1>2

-----------------------------------------------------------------------------
(* The steps, as far as the types and the answers go *)

\* The rest of the page when only loads are sent or answered.
LoadsOnly == UNCHANGED <<page, server, ops, empty>>

\* A load nobody waits for is sent, or none.
LEMMA SendSound ==
  ASSUME Sound, LoadsOnly, NEW k \in Keys,
         \/ flying' = flying
         \/ flying' = Append(flying, Load(k, 0)) /\ Len(flying) < MaxFlying,
         query' \in Keys, loading' \in BOOLEAN, error' \in BOOLEAN, behind' \in BOOLEAN,
         key' \in Keys, shown' \in Lists, fails' \in 0 .. MaxFails
  PROVE  Sound'
<1>1. Started(page)' = Started(page)
  BY DEF LoadsOnly, Started, Writes
<1>2. CASE flying' = flying
  BY <1>1, <1>2 DEF Sound, Typed, Answered, LoadsOnly, Reads
<1>3. CASE flying' = Append(flying, Load(k, 0)) /\ Len(flying) < MaxFlying
  <2>1. Load(k, 0) \in Loads /\ Load(k, 0).by = 0 /\ Load(k, 0).has = NotYet
    BY NewLoad, BoundsAssumption
  <2>2. /\ flying' \in Seq(Loads) /\ Len(flying') = Len(flying) + 1
        /\ DOMAIN flying' = 1 .. Len(flying) + 1 /\ flying'[Len(flying) + 1] = Load(k, 0)
        /\ \A j \in DOMAIN flying : j \in DOMAIN flying' /\ flying'[j] = flying[j]
    BY <1>3, <2>1, Sent DEF Sound, Typed
  <2>3. Len(flying) \in Nat /\ DOMAIN flying = 1 .. Len(flying)
    BY LenProperties DEF Sound, Typed
  <2>4. Typed'
    <3>1. Len(flying') <= MaxFlying
      <4>0. Len(flying) < MaxFlying
        BY <1>3
      <4>1. MaxFlying \in Int /\ Len(flying) \in Int /\ Len(flying) < MaxFlying
        BY <2>3, <4>0, BoundsAssumption
      <4>2. Len(flying) + 1 <= MaxFlying
        BY <4>1
      <4>. QED BY <2>2, <4>2
    <3>. QED BY <1>1, <2>2, <3>1 DEF Sound, Typed, LoadsOnly
  <2>5. \A j \in DOMAIN flying' : j \in DOMAIN flying \/ j = Len(flying) + 1
    BY <2>2, <2>3
  <2>6. Answered'
    BY <2>1, <2>2, <2>5 DEF Sound, Answered, LoadsOnly, Reads
  <2>. QED BY <2>4, <2>6 DEF Sound
<1>. QED BY <1>2, <1>3

LEMMA ServeSound == ASSUME Sound, NEW i \in DOMAIN flying, Serve(i) PROVE Sound'
<1>1. Started(page)' = Started(page)
  BY DEF Serve, Started, Writes
<1>2. Len(flying) \in Nat /\ DOMAIN flying = 1 .. Len(flying)
      /\ \A j \in 1 .. Len(flying) : flying[j] \in Loads
  BY DEF Sound, Typed
<1>3. server \in SUBSET (0 .. MaxOps)
  BY ReadIsRead, BoundsAssumption DEF Sound
<1>4. \A f \in Loads : LET g == [f EXCEPT !.has = server] IN
        /\ g \in Loads /\ g.has = server /\ g.by = f.by
  BY <1>3 DEF Loads
<1>5. /\ flying[i].has = NotYet
      /\ flying' = [flying EXCEPT ![i] = [flying[i] EXCEPT !.has = server]]
  BY <1>2 DEF Serve
<1>6. flying' \in [1 .. Len(flying) -> Loads]
  BY <1>2, <1>4, <1>5
<1>7. flying' \in Seq(Loads) /\ Len(flying') = Len(flying) /\ DOMAIN flying' = DOMAIN flying
  BY <1>2, <1>6, FunctionIsSeq
<1>8. Typed'
  BY <1>1, <1>7 DEF Sound, Typed, Serve
<1>9. Answered'
  <2>1. flying'[i].has = server /\ flying'[i].by = flying[i].by
    BY <1>2, <1>4, <1>5
  <2>2. \A k \in DOMAIN flying' : k # i => flying'[k] = flying[k]
    BY <1>5, <1>7
  <2>. QED BY <1>7, <2>1, <2>2 DEF Sound, Answered, Reads, Serve
<1>. QED BY <1>8, <1>9 DEF Sound

\* A load is answered, or it fails.
LEMMA TakeSound ==
  ASSUME Sound, NEW i \in DOMAIN flying, Answer(i) \/ LoadFails(i) PROVE Sound'
<1>1. /\ flying' = Left(i) /\ EndWaiting(flying[i].by)
      /\ UNCHANGED <<page, server, key, query, empty>>
  BY DEF Answer, LoadFails
<1>2. Started(page)' = Started(page)
  BY <1>1 DEF Started, Writes
<1>3. Len(flying) \in Nat /\ DOMAIN flying = 1 .. Len(flying) /\ flying[i] \in Loads
  BY DEF Sound, Typed
<1>4. /\ flying[i].by \in 0 .. MaxOps /\ flying[i].key \in Keys
      /\ flying[i].has \in SUBSET (0 .. MaxOps)
  BY <1>3 DEF Loads
<1>5. /\ Same /\ \A j \in DOMAIN ops : j # flying[i].by => ops'[j] = ops[j]
      /\ \A j \in DOMAIN ops : j = flying[i].by => ops'[j].at = "over"
  BY <1>1, <1>4, Waited DEF Sound
<1>6. /\ flying' \in Seq(Loads) /\ Len(flying') = Len(flying) - 1
      /\ DOMAIN flying' = 1 .. Len(flying) - 1
      /\ \A j \in DOMAIN flying' : \E k \in DOMAIN flying :
           flying'[j].by = flying[k].by /\ flying'[j].has = flying[k].has
  <2>1. /\ flying' \in Seq(Loads) /\ Len(flying') = Len(flying) - 1
        /\ DOMAIN flying' = 1 .. Len(flying) - 1
    BY <1>1, Taken DEF Sound, Typed
  <2>2. ASSUME NEW j \in DOMAIN flying'
        PROVE  \E k \in DOMAIN flying :
                 flying'[j].by = flying[k].by /\ flying'[j].has = flying[k].has
    <3>1. j \in 1 .. Len(flying) - 1
      BY <2>1, <2>2
    <3>2. CASE j < i
      BY <1>1, <3>1, <3>2, Taken DEF Sound, Typed
    <3>3. CASE ~ (j < i)
      <4>1. j >= i
        BY <1>3, <3>1, <3>3
      <4>2. j + 1 \in DOMAIN flying /\ Left(i)[j] = flying[j + 1]
        BY <3>1, <4>1, Taken DEF Sound, Typed
      <4>. QED BY <1>1, <4>2
    <3>. QED BY <3>2, <3>3
  <2>. QED BY <2>1, <2>2
<1>7. shown' \in Lists /\ behind' \in BOOLEAN /\ loading' \in BOOLEAN /\ error' \in BOOLEAN
      /\ fails' \in 0 .. MaxFails
  <2>1. CASE Answer(i)
    <3>1. flying[i].has \subseteq 1 .. MaxOps
      BY <2>1, ReadIsRead DEF Answer, Sound, Answered, Reads
    <3>2. [key |-> flying[i].key, has |-> flying[i].has] \in Lists
      BY <1>4, <3>1 DEF Lists
    <3>3. Older(flying[i]) \in BOOLEAN
      BY DEF Older
    <3>. QED BY <2>1, <3>2, <3>3 DEF Answer, Sound, Typed
  <2>2. CASE LoadFails(i)
    <3>1. Nothing \in Lists
      BY DEF Lists
    <3>2. fails' \in 0 .. MaxFails
      BY <2>2, BoundsAssumption DEF LoadFails, Sound, Typed
    <3>. QED BY <2>2, <3>1, <3>2 DEF LoadFails, Sound, Typed
  <2>. QED BY <2>1, <2>2
<1>8. Typed'
  BY <1>1, <1>2, <1>3, <1>5, <1>6, <1>7, BoundsAssumption DEF Sound, Typed, Same
<1>9. Answered'
  <2>1. \A j \in DOMAIN ops' :
          /\ ops'[j].at \in {"sent", "refused"} => j \notin server
          /\ ops'[j].at \in {"done", "reloading"} => j \in server
    BY <1>5 DEF Sound, Answered, Same
  <2>3. \A k \in DOMAIN flying : flying[k].by = 0 \/ flying[k].by \in DOMAIN ops
    BY DEF Sound, Typed, Answered, Reads
  <2>4. ASSUME NEW j \in DOMAIN flying' PROVE Reads(flying[j].has, flying[j].by)'
    <3>1. PICK k \in DOMAIN flying : flying'[j].by = flying[k].by /\ flying'[j].has = flying[k].has
      BY <1>6
    <3>2. Reads(flying[k].has, flying[k].by)
      BY DEF Sound, Answered
    <3>. QED BY <1>1, <1>5, <2>3, <3>1, <3>2 DEF Reads, Same
  <2>. QED BY <1>1, <2>1, <2>4 DEF Answered
<1>. QED BY <1>8, <1>9 DEF Sound

\* A write is added to a list that is held.
LEMMA Listing ==
  ASSUME Typed, Held, NEW i \in 1 .. MaxOps
  PROVE  LET l == [shown EXCEPT !.has = @ \cup {i}] IN
         l \in Lists /\ l.key = shown.key /\ l.has = shown.has \cup {i} /\ l # Nothing
BY DEF Typed, Held, Lists, Nothing

\* A write is sent.
LEMMA Begun ==
  ASSUME Typed, NEW o \in Writes(page), Begin(o)
  PROVE  LET n == Len(ops) + 1
             w == [does |-> o, at |-> "sent", told |-> "nothing", with |-> key] IN
         /\ n \in 1 .. MaxOps /\ n \notin DOMAIN ops
         /\ ops' \in Seq(Started(page)) /\ Len(ops') = n
         /\ DOMAIN ops' = DOMAIN ops \cup {n}
         /\ ops'[n] = w /\ \A j \in DOMAIN ops : ops'[j] = ops[j]
<1> DEFINE n == Len(ops) + 1
           w == [does |-> o, at |-> "sent", told |-> "nothing", with |-> key]
<1>1. w \in Started(page)
  BY DEF Typed, Started, Stages, Told
<1>2. ops' = Append(ops, w) /\ Len(ops) < MaxOps
  BY DEF Begin
<1>3. ops \in Seq(Started(page)) /\ Len(ops) \in Nat /\ DOMAIN ops = 1 .. Len(ops)
  BY LenProperties DEF Typed
<1>. HIDE DEF w
<1>4. /\ ops' \in Seq(Started(page)) /\ Len(ops') = n /\ DOMAIN ops' = 1 .. n
      /\ ops'[n] = w /\ \A j \in DOMAIN ops : ops'[j] = ops[j]
  BY <1>1, <1>2, <1>3
<1>5. n \in 1 .. MaxOps
  <2>1. MaxOps \in Nat /\ Len(ops) < MaxOps
    BY <1>2, BoundsAssumption
  <2>. QED BY <1>3, <2>1
<1>6. n \notin DOMAIN ops /\ 1 .. n = DOMAIN ops \cup {n}
  BY <1>3
<1>. QED BY <1>4, <1>5, <1>6 DEF w

LEMMA BeginSound == ASSUME Sound, NEW o \in Writes(page), Begin(o) PROVE Sound'
<1> DEFINE n == Len(ops) + 1
           w == [does |-> o, at |-> "sent", told |-> "nothing", with |-> key]
<1>0. /\ n \in 1 .. MaxOps /\ n \notin DOMAIN ops
      /\ ops' \in Seq(Started(page)) /\ Len(ops') = n /\ DOMAIN ops' = DOMAIN ops \cup {n}
      /\ ops'[n] = w /\ \A j \in DOMAIN ops : ops'[j] = ops[j]
  BY Begun DEF Sound
<1>1. /\ n \in 1 .. MaxOps /\ n \notin DOMAIN ops
      /\ ops' \in Seq(Started(page)) /\ Len(ops') = n /\ DOMAIN ops' = DOMAIN ops \cup {n}
      /\ ops'[n].at = "sent" /\ \A j \in DOMAIN ops : ops'[j] = ops[j]
  BY <1>0
<1>. HIDE DEF n
<1>2. UNCHANGED <<page, server, key, query, flying, fails, behind, empty>>
  BY DEF Begin
<1>3. Started(page)' = Started(page)
  BY <1>2 DEF Started, Writes
<1>4. shown' \in Lists
  <2>1. shown' = shown \/ (Held /\ shown' = [shown EXCEPT !.has = @ \cup {Len(ops) + 1}])
    BY DEF Begin
  <2>. QED BY <1>1, <2>1, Listing DEF Sound, Typed, n
<1>5. loading' \in BOOLEAN /\ error' \in BOOLEAN
  BY DEF Begin
<1>6. Typed'
  BY <1>1, <1>2, <1>3, <1>4, <1>5, BoundsAssumption DEF Sound, Typed
<1>7. Answered'
  BY <1>1, <1>2 DEF Sound, Typed, Answered, Reads
<1>. QED BY <1>6, <1>7 DEF Sound

\* A write gets on and no load is sent.
LEMMA MoveSound ==
  ASSUME Sound, UNCHANGED <<page, key, flying, empty>>, query' \in Keys,
         NEW i \in DOMAIN ops, NEW a \in Stages, NEW t \in Told,
         \/ ops' = [ops EXCEPT ![i].at = a, ![i].told = t]
         \/ t = ops[i].told /\ ops' = [ops EXCEPT ![i].at = a],
         server' = (IF a = "done" THEN server \cup {i} ELSE server),
         ops[i].at \notin {"reloading", "over"},
         a \in {"sent", "refused"} => i \notin server, a # "reloading",
         shown' \in Lists, loading' \in BOOLEAN, error' \in BOOLEAN, behind' \in BOOLEAN,
         fails' \in 0 .. MaxFails
  PROVE  Sound'
<1>1. /\ Same /\ ops'[i].at = a /\ \A j \in DOMAIN ops : j # i => ops'[j] = ops[j]
  BY Moved DEF Sound
<1>2. Started(page)' = Started(page)
  BY DEF Started, Writes
<1>3. Typed'
  BY <1>1, <1>2 DEF Sound, Typed, Same
<1>4. \A j \in DOMAIN ops' :
        /\ ops'[j].at \in {"sent", "refused"} => j \notin server'
        /\ ops'[j].at \in {"done", "reloading"} => j \in server'
  BY <1>1 DEF Sound, Answered, Same
<1>5. ASSUME NEW k \in DOMAIN flying PROVE Reads(flying[k].has, flying[k].by)'
  <2>1. Reads(flying[k].has, flying[k].by)
    BY DEF Sound, Answered
  <2>2. flying[k].by = 0 \/ flying[k].by \in DOMAIN ops
    BY <2>1 DEF Sound, Typed, Reads
  <2>3. flying[k].by # 0 => flying[k].by # i
    BY <2>1 DEF Reads
  <2>. QED BY <1>1, <2>1, <2>2, <2>3 DEF Reads, Same
<1>. QED BY <1>3, <1>4, <1>5 DEF Sound, Answered

Sends(k, by) == Len(flying) < MaxFlying /\ flying' = Append(flying, Load(k, by))

\* A write is answered and a load is sent, which the write waits for or does not.
LEMMA ReloadSound ==
  ASSUME Sound, UNCHANGED <<page, server, key, shown, fails, behind, empty>>,
         NEW i \in DOMAIN ops, ops[i].at = "done", NEW by \in 0 .. MaxOps,
         \/ /\ by = i /\ ops[i].does.after \in {"reload", "restart"}
            /\ ops' = [ops EXCEPT ![i].at = "reloading"]
         \/ by = 0 /\ Finish(i),
         NEW k \in Keys, Sends(k, by),
         query' \in Keys, loading' \in BOOLEAN, error' \in BOOLEAN
  PROVE  Sound'
<1>1. /\ Same /\ \A j \in DOMAIN ops : j # i => ops'[j] = ops[j]
      /\ IF by = i THEN ops'[i].at = "reloading" ELSE ops'[i].at = "over"
  <2>1. ops[i].told \in Told /\ "reloading" \in Stages /\ "over" \in Stages
    BY Element DEF Sound, Stages
  <2>2. i # 0
    BY ReadIsRead DEF Sound, Answered
  <2>3. CASE ops' = [ops EXCEPT ![i].at = "reloading"] /\ by = i
    BY <2>1, <2>3, Moved DEF Sound
  <2>4. CASE Finish(i) /\ by = 0
    BY <2>1, <2>2, <2>4, Moved, TellTypes DEF Sound, Finish
  <2>. QED BY <2>3, <2>4
<1>2. Started(page)' = Started(page)
  BY DEF Started, Writes
<1>3. i \in server /\ i \in 0 .. MaxOps
  BY ReadIsRead DEF Sound, Answered
<1>4. Load(k, by) \in Loads /\ Load(k, by).by = by /\ Load(k, by).has = NotYet
  BY <1>3, NewLoad
<1>5. /\ flying' \in Seq(Loads) /\ Len(flying') = Len(flying) + 1
      /\ DOMAIN flying' = 1 .. Len(flying) + 1 /\ flying'[Len(flying) + 1] = Load(k, by)
      /\ \A j \in DOMAIN flying : j \in DOMAIN flying' /\ flying'[j] = flying[j]
  BY <1>4, Sent DEF Sound, Typed, Sends
<1>6. Len(flying) \in Nat /\ DOMAIN flying = 1 .. Len(flying)
  BY LenProperties DEF Sound, Typed
<1>7. Len(flying') <= MaxFlying
  <2>1. MaxFlying \in Int /\ Len(flying) \in Int /\ Len(flying) < MaxFlying
    BY <1>6, BoundsAssumption DEF Sends
  <2>2. Len(flying) + 1 <= MaxFlying
    BY <2>1
  <2>. QED BY <1>5, <2>2
<1>8. Typed'
  BY <1>1, <1>2, <1>5, <1>7 DEF Sound, Typed, Same
<1>9. \A j \in DOMAIN ops' :
        /\ ops'[j].at \in {"sent", "refused"} => j \notin server'
        /\ ops'[j].at \in {"done", "reloading"} => j \in server'
  BY <1>1, <1>3 DEF Sound, Answered, Same
<1>10. ASSUME NEW j \in DOMAIN flying' PROVE Reads(flying[j].has, flying[j].by)'
  <2>1. CASE j \in DOMAIN flying
    <3>1. Reads(flying[j].has, flying[j].by) /\ flying'[j] = flying[j]
      BY <1>5, <2>1 DEF Sound, Answered
    <3>2. flying[j].by = 0 \/ flying[j].by \in DOMAIN ops
      BY <3>1 DEF Sound, Typed, Reads
    <3>3. flying[j].by # 0 => flying[j].by # i
      BY <3>1 DEF Reads
    <3>. QED BY <1>1, <3>1, <3>2, <3>3 DEF Reads, Same
  <2>2. CASE j = Len(flying) + 1
    BY <1>1, <1>3, <1>4, <1>5, <2>2 DEF Reads, Same
  <2>. QED BY <1>5, <1>6, <2>1, <2>2
<1>. QED BY <1>8, <1>9, <1>10 DEF Sound, Answered

LEMMA Fetching ==
  ASSUME Typed, NEW k \in Keys, NEW by, NEW kind, NEW busy \in BOOLEAN, Fetch(kind, k, by, busy)
  PROVE  /\ query' \in Keys /\ loading' \in BOOLEAN /\ error' \in BOOLEAN
         /\ \/ Dropped(kind, busy) /\ flying' = flying /\ query' = query /\ error' = error
            \/ ~Dropped(kind, busy) /\ Sends(k, by) /\ query' = k /\ error' = FALSE
BY DEF Fetch, Sends, Typed

LEMMA FetchSound ==
  ASSUME Sound, LoadsOnly, NEW k \in Keys, NEW kind, NEW busy \in BOOLEAN,
         Fetch(kind, k, 0, busy), behind' \in BOOLEAN,
         key' \in Keys, shown' \in Lists, fails' \in 0 .. MaxFails
  PROVE  Sound'
BY Fetching, SendSound DEF Sound, Sends

\* What the answer of a committed write does.
LEMMA ReturnCases ==
  ASSUME Typed, NEW i \in DOMAIN ops, Return(i)
  PROVE  LET after == ops[i].does.after
             k == ops[i].with IN
         /\ ops[i].at = "done" /\ UNCHANGED <<page, server, key, fails, behind, empty>>
         /\ query' \in Keys /\ loading' \in BOOLEAN /\ error' \in BOOLEAN
         /\ \/ /\ after \in {"reload", "restart"} /\ shown' = shown
               /\ ops' = [ops EXCEPT ![i].at = "reloading"] /\ Sends(k, i)
            \/ /\ after = "reload" /\ "forced" \in page.store.drops
               /\ shown' = shown /\ flying' = flying /\ Finish(i)
            \/ /\ after = "later" /\ shown' = shown /\ Finish(i)
               /\ Sends(k, 0) \/ (flying' = flying /\ "forced" \in page.store.drops)
            \/ /\ after = "last" /\ shown' = shown /\ Finish(i)
               /\ Sends(query, 0) \/ flying' = flying
            \/ after = "patch" /\ Patch(i) /\ flying' = flying /\ Finish(i)
            \/ /\ after \notin {"reload", "restart", "later", "last", "patch"}
               /\ shown' = shown /\ flying' = flying /\ Finish(i)
<1> DEFINE after == ops[i].does.after
           k == ops[i].with
<1>1. k \in Keys /\ query \in Keys /\ loading \in BOOLEAN /\ error \in BOOLEAN /\ FALSE \in BOOLEAN
  BY Element DEF Typed
<1>2. ops[i].at = "done" /\ UNCHANGED <<page, server, key, fails, behind, empty>> /\ After(i, after)
  BY DEF Return
<1>. HIDE DEF after, k
<1>3. \A busy : Dropped("forced", busy) <=> busy /\ "forced" \in page.store.drops
  BY DEF Dropped
<1>4. CASE after = "reload"
  <2>1. Reload(i, "forced", k, loading)
    BY <1>2, <1>4 DEF After, k
  <2>2. Fetch("forced", k, i, loading)
    BY <2>1 DEF Reload
  <2>3. /\ shown' = shown
        /\ IF Dropped("forced", loading) THEN Finish(i)
           ELSE ops' = [ops EXCEPT ![i].at = "reloading"]
    BY <2>1 DEF Reload
  <2>4. /\ query' \in Keys /\ loading' \in BOOLEAN /\ error' \in BOOLEAN
        /\ \/ Dropped("forced", loading) /\ flying' = flying
           \/ ~Dropped("forced", loading) /\ Sends(k, i)
    BY <1>1, <2>2, Fetching
  <2>. QED BY <1>2, <1>3, <1>4, <2>3, <2>4 DEF after, k
<1>5. CASE after = "restart"
  <2>1. Reload(i, "forced", k, FALSE)
    BY <1>2, <1>5 DEF After, k
  <2>2. Fetch("forced", k, i, FALSE) /\ shown' = shown
        /\ IF Dropped("forced", FALSE) THEN Finish(i) ELSE ops' = [ops EXCEPT ![i].at = "reloading"]
    BY <2>1 DEF Reload
  <2>3. /\ query' \in Keys /\ loading' \in BOOLEAN /\ error' \in BOOLEAN
        /\ \/ Dropped("forced", FALSE) /\ flying' = flying
           \/ ~Dropped("forced", FALSE) /\ Sends(k, i)
    BY <1>1, <2>2, Fetching
  <2>. QED BY <1>2, <1>3, <1>5, <2>2, <2>3 DEF after, k
<1>6. CASE after = "later"
  <2>1. Fetch("forced", k, 0, loading) /\ Finish(i) /\ shown' = shown
    BY <1>2, <1>6 DEF After, k
  <2>2. /\ query' \in Keys /\ loading' \in BOOLEAN /\ error' \in BOOLEAN
        /\ \/ Dropped("forced", loading) /\ flying' = flying
           \/ ~Dropped("forced", loading) /\ Sends(k, 0)
    BY <1>1, <2>1, Fetching
  <2>. QED BY <1>2, <1>3, <1>6, <2>1, <2>2 DEF after, k
<1>7. CASE after = "last"
  <2>1. Fetch("plain", query, 0, FALSE) /\ Finish(i) /\ shown' = shown
    BY <1>2, <1>7 DEF After
  <2>2. /\ query' \in Keys /\ loading' \in BOOLEAN /\ error' \in BOOLEAN
        /\ Sends(query, 0) \/ flying' = flying
    BY <1>1, <2>1, Fetching
  <2>. QED BY <1>2, <1>7, <2>1, <2>2 DEF after, k
<1>8. CASE after = "patch"
  <2>1. Patch(i) /\ Finish(i) /\ UNCHANGED <<query, flying, loading, error>>
    BY <1>2, <1>8 DEF After
  <2>. QED BY <1>1, <1>2, <1>8, <2>1 DEF after, k
<1>9. CASE after \notin {"reload", "restart", "later", "last", "patch"}
  <2>1. Finish(i) /\ UNCHANGED <<shown, query, flying, loading, error>>
    BY <1>2, <1>9 DEF After
  <2>. QED BY <1>1, <1>2, <1>9, <2>1 DEF after, k
<1>. QED BY <1>4, <1>5, <1>6, <1>7, <1>8, <1>9


LEMMA ReturnSound == ASSUME Sound, NEW i \in DOMAIN ops, Return(i) PROVE Sound'
<1> DEFINE after == ops[i].does.after
           k == ops[i].with
<1>0. /\ Typed /\ k \in Keys /\ query \in Keys /\ Tell(ops[i].does) \in Told
      /\ i \in 1 .. MaxOps /\ i # 0
  <2>1. Len(ops) \in Nat /\ Len(ops) <= MaxOps /\ DOMAIN ops = 1 .. Len(ops)
    BY LenProperties DEF Sound, Typed
  <2>. QED BY <2>1, Element, TellTypes, BoundsAssumption DEF Sound, Typed
<1>1. /\ ops[i].at = "done" /\ UNCHANGED <<page, server, key, fails, behind, empty>>
      /\ query' \in Keys /\ loading' \in BOOLEAN /\ error' \in BOOLEAN
      /\ \/ /\ after \in {"reload", "restart"} /\ shown' = shown
            /\ ops' = [ops EXCEPT ![i].at = "reloading"] /\ Sends(k, i)
         \/ shown' = shown /\ flying' = flying /\ Finish(i)
         \/ shown' = shown /\ Finish(i) /\ Sends(k, 0)
         \/ shown' = shown /\ Finish(i) /\ Sends(query, 0)
         \/ Patch(i) /\ flying' = flying /\ Finish(i)
  BY <1>0, ReturnCases
<1>2. fails' \in 0 .. MaxFails /\ behind' \in BOOLEAN /\ shown \in Lists
  BY <1>0, <1>1 DEF Typed
<1>. HIDE DEF after, k
<1>3. CASE /\ after \in {"reload", "restart"} /\ shown' = shown
           /\ ops' = [ops EXCEPT ![i].at = "reloading"] /\ Sends(k, i)
  <2>1. i \in 0 .. MaxOps
    BY <1>0, BoundsAssumption
  <2>2. ops[i].does.after \in {"reload", "restart"} /\ ops' = [ops EXCEPT ![i].at = "reloading"]
        /\ UNCHANGED <<page, server, key, shown, fails, behind, empty>>
    BY <1>1, <1>3 DEF after
  <2>3. Sends(k, i)
    BY <1>3
  <2>. QED BY <1>0, <1>1, <2>1, <2>2, <2>3, ReloadSound
<1>4. CASE flying' = flying /\ Finish(i) /\ shown' \in Lists
  <2>1. ops' = [ops EXCEPT ![i].at = "over", ![i].told = Tell(ops[i].does)]
    BY <1>4 DEF Finish
  <2>. QED BY <1>0, <1>1, <1>2, <1>4, <2>1, MoveSound DEF Stages
<1>5. ASSUME NEW l \in Keys, shown' = shown, Finish(i), Sends(l, 0) PROVE Sound'
  <2>1. 0 \in 0 .. MaxOps
    BY BoundsAssumption
  <2>. QED BY <1>0, <1>1, <1>5, <2>1, ReloadSound
<1>6. Patch(i) => shown' \in Lists
  <2>1. CASE Held
    BY <1>0, <2>1, Listing DEF Patch
  <2>2. CASE ~Held
    BY <1>2, <2>2 DEF Patch
  <2>. QED BY <2>1, <2>2
<1>. QED BY <1>0, <1>1, <1>2, <1>3, <1>4, <1>5, <1>6

\* The other steps of a write.
LEMMA OperationSound == ASSUME Sound, NEW i \in DOMAIN ops, Operation(i) PROVE Sound'
<1>0. Typed /\ ops[i].told \in Told /\ TellRefused(ops[i].does) \in Told
  BY Element, TellTypes DEF Sound
<1>1. CASE Commit(i)
  BY <1>0, <1>1, MoveSound DEF Commit, Typed, Stages
<1>2. CASE Refuse(i)
  <2>1. i \notin server
    BY <1>2 DEF Refuse, Sound, Answered
  <2>2. fails' \in 0 .. MaxFails
    BY <1>0, <1>2, BoundsAssumption DEF Refuse, Typed
  <2>. QED BY <1>0, <1>2, <2>1, <2>2, MoveSound DEF Refuse, Typed, Stages
<1>3. CASE Return(i)
  BY <1>3, ReturnSound
<1>4. CASE ReturnRefused(i)
  <2>1. loading' \in BOOLEAN /\ error' \in BOOLEAN
    BY <1>0, <1>4 DEF ReturnRefused, Typed
  <2>2. ops' = [ops EXCEPT ![i].at = "over", ![i].told = TellRefused(ops[i].does)]
    BY <1>4 DEF ReturnRefused
  <2>3. /\ UNCHANGED <<page, server, shown, key, query, flying, fails, behind, empty>>
        /\ ops[i].at = "refused"
    BY <1>4 DEF ReturnRefused
  <2>. QED BY <1>0, <2>1, <2>2, <2>3, MoveSound DEF Typed, Stages
<1>. QED BY <1>1, <1>2, <1>3, <1>4 DEF Operation

\* The page is asked for its list: by a choice of the filter, a button, the clock
\* or an effect.
Asks(kind, k) ==
  /\ Fetch(kind, k, 0, loading) /\ key' = k
  /\ UNCHANGED <<page, server, shown, ops, fails, behind, empty>>

LEMMA Asked ==
  ASSUME Typed, LoadWhenEmpty \/ Poll \/ (\E k \in Keys : Choose(k)) \/ Retry \/ Refresh
  PROVE  \E kind, k : /\ k \in Keys /\ Asks(kind, k)
                      /\ k = key \/ (page.keyed /\ kind = "plain")
<1>1. key \in Keys
  BY DEF Typed
<1>2. CASE \E k \in Keys : Choose(k)
  BY <1>2 DEF Choose, Asks
<1>3. CASE LoadWhenEmpty
  <2>1. Asks("plain", key)
    BY <1>3 DEF LoadWhenEmpty, Asks
  <2>. QED BY <1>1, <2>1
<1>4. CASE Poll \/ Refresh
  <2>1. Asks("forced", key)
    BY <1>4 DEF Poll, Refresh, Asks
  <2>. QED BY <1>1, <2>1
<1>5. CASE Retry
  <2>1. Asks(page.retry, key)
    BY <1>5 DEF Retry, Asks
  <2>. QED BY <1>1, <2>1
<1>. QED BY <1>2, <1>3, <1>4, <1>5

LEMMA AskSound == ASSUME Sound, NEW kind, NEW k \in Keys, Asks(kind, k) PROVE Sound'
BY FetchSound DEF Asks, LoadsOnly, Sound, Typed

\* The page is left and entered again: a load is sent, or nothing is.
LEMMA Reopened ==
  ASSUME Typed, Reopen
  PROVE  /\ LoadsOnly /\ fails' = fails /\ behind' = behind /\ key' = "all" /\ flying = <<>>
         /\ shown' \in {shown, Nothing} /\ query' \in Keys
         /\ loading' \in BOOLEAN /\ error' \in BOOLEAN
         /\ \/ Sends("all", 0)
            \/ /\ flying' = flying /\ (shown' = Nothing \/ error' = error)
               /\ page.opens \in {"no", "none"} \/ Dropped(page.opens, loading)
<1>1. "all" \in Keys /\ loading \in BOOLEAN /\ FALSE \in BOOLEAN
  BY DEF Typed, Keys
<1>2. /\ LoadsOnly /\ fails' = fails /\ behind' = behind /\ key' = "all" /\ flying = <<>>
      /\ shown' \in {shown, Nothing}
  BY DEF Reopen, LoadsOnly, Settled
<1>3. CASE page.opens \in {"no", "none"}
  BY <1>1, <1>2, <1>3 DEF Reopen, Typed
<1>4. CASE page.opens \notin {"no", "none"} /\ page.store.own
  <2>1. flying' = <<Load("all", 0)>> /\ query' = "all" /\ loading' = TRUE /\ error' = FALSE
    BY <1>4 DEF Reopen
  <2>2. Append(<<>>, Load("all", 0)) = <<Load("all", 0)>> /\ Len(<<>>) < MaxFlying
    BY BoundsAssumption
  <2>3. Sends("all", 0)
    BY <1>2, <2>1, <2>2 DEF Sends
  <2>. QED BY <1>1, <1>2, <2>1, <2>3
<1>5. CASE page.opens \notin {"no", "none"} /\ ~page.store.own
  <2>1. Fetch(page.opens, "all", 0, loading)
    BY <1>5 DEF Reopen
  <2>. QED BY <1>1, <1>2, <2>1, Fetching
<1>. QED BY <1>3, <1>4, <1>5

LEMMA ReopenSound == ASSUME Sound, Reopen PROVE Sound'
<1>1. Typed /\ Nothing \in Lists /\ "all" \in Keys
  BY DEF Sound, Lists, Keys
<1>2. /\ LoadsOnly /\ fails' = fails /\ behind' = behind /\ key' = "all"
      /\ shown' \in {shown, Nothing} /\ query' \in Keys
      /\ loading' \in BOOLEAN /\ error' \in BOOLEAN
      /\ (Sends("all", 0) \/ flying' = flying)
  BY <1>1, Reopened
<1>3. key' \in Keys /\ shown' \in Lists /\ fails' \in 0 .. MaxFails /\ behind' \in BOOLEAN
  BY <1>1, <1>2 DEF Typed
<1>4. flying' = flying \/ (flying' = Append(flying, Load("all", 0)) /\ Len(flying) < MaxFlying)
  BY <1>2 DEF Sends
<1>. QED BY <1>1, <1>2, <1>3, <1>4, SendSound


-----------------------------------------------------------------------------
(* The steps of the page and its form *)

\* What a step does to the page.
LEMMA Steps ==
  ASSUME FormsNext
  PROVE  \/ UNCHANGED pageVars
         \/ \E i \in DOMAIN flying : Serve(i) \/ Answer(i) \/ LoadFails(i)
         \/ \E i \in DOMAIN ops : Operation(i)
         \/ \E o : Begin(o) /\ (o \in page.ops \/ (form.open /\ o = page.form.save))
         \/ LoadWhenEmpty \/ Poll \/ (\E k \in Keys : Choose(k)) \/ Retry \/ Refresh
         \/ Reopen
<1>1. CASE PageStep
  BY <1>1 DEF PageStep
<1>2. CASE Click
  BY <1>2 DEF Click
<1>3. CASE ComeBack
  BY <1>3 DEF ComeBack
<1>4. CASE FormStep \/ UploadDone
  BY <1>4 DEF FormStep, Pick, CloseForm, Type, Upload, Save, UploadDone
<1>. QED BY <1>1, <1>2, <1>3, <1>4 DEF FormsNext

Filled == form.open => page.form.fills # "none"

LEMMA Writing ==
  ASSUME Filled, NEW o, o \in page.ops \/ (form.open /\ o = page.form.save)
  PROVE  o \in Writes(page)
BY DEF Filled, Writes

LEMMA SoundStep == ASSUME Sound, Filled, [FormsNext]_vars PROVE Sound'
<1>1. CASE UNCHANGED pageVars
  <2>1. Started(page)' = Started(page)
    BY <1>1 DEF pageVars, Started, Writes
  <2>. QED BY <1>1, <2>1 DEF pageVars, Sound, Typed, Answered, Reads
<1>2. CASE FormsNext
  <2>1. ASSUME NEW o, Begin(o), o \in page.ops \/ (form.open /\ o = page.form.save) PROVE Sound'
    BY <2>1, Writing, BeginSound
  <2>2. CASE LoadWhenEmpty \/ Poll \/ (\E k \in Keys : Choose(k)) \/ Retry \/ Refresh
    BY <2>2, Asked, AskSound DEF Sound
  <2>. QED BY <1>1, <1>2, <2>1, <2>2, Steps, ServeSound, TakeSound, OperationSound, ReopenSound
<1>. QED BY <1>1, <1>2 DEF vars, pageVars

LEMMA SoundInit == FormsInit => Sound
<1>. SUFFICES ASSUME FormsInit PROVE Sound
  OBVIOUS
<1>1. /\ page \in Pages /\ server = {} /\ shown = Nothing /\ key = "all" /\ query = "all"
      /\ loading \in BOOLEAN /\ error = FALSE /\ ops = <<>> /\ fails = 0 /\ behind = FALSE
      /\ flying = <<>> \/ flying = <<Load("all", 0)>>
  BY DEF FormsInit, Init
<1>2. empty \in BOOLEAN /\ (empty => page.eager)
  BY DEF FormsInit, Init
<1>3. "all" \in Keys /\ Nothing \in Lists
  BY DEF Keys, Lists
<1>4. Load("all", 0) \in Loads /\ Load("all", 0).has = NotYet /\ Load("all", 0).by = 0
  BY <1>3, NewLoad, BoundsAssumption
<1>5. /\ flying \in Seq(Loads) /\ Len(flying) <= MaxFlying
      /\ \A k \in DOMAIN flying : flying[k] = Load("all", 0)
  <2>1. CASE flying = <<>>
    BY <2>1, BoundsAssumption
  <2>2. CASE flying = <<Load("all", 0)>>
    <3>. HIDE DEF Load
    <3>1. 1 <= MaxFlying
      BY BoundsAssumption
    <3>. QED BY <1>4, <2>2, <3>1
  <2>. QED BY <1>1, <2>1, <2>2
<1>6. <<>> \in Seq(Started(page)) /\ Len(<<>>) <= MaxOps /\ DOMAIN <<>> = {} /\ 0 \in 0 .. MaxFails
  BY BoundsAssumption
<1>. QED BY <1>1, <1>2, <1>3, <1>4, <1>5, <1>6 DEF Sound, Typed, Answered, Reads

\* How far a step of a write brings it.
LEMMA OperationMoves ==
  ASSUME Typed, NEW i \in DOMAIN ops, Operation(i)
  PROVE  /\ Same /\ \A j \in DOMAIN ops : j # i => ops'[j] = ops[j]
         /\ \/ /\ Commit(i) /\ ops'[i].at = "done" /\ ops'[i].told = ops[i].told
            \/ /\ Refuse(i) /\ ops'[i].at = "refused" /\ ops'[i].told = ops[i].told
            \/ /\ ReturnRefused(i) /\ ops'[i].at = "over"
               /\ ops'[i].told = TellRefused(ops[i].does)
            \/ /\ Return(i) /\ ops'[i].at = "reloading" /\ ops'[i].told = ops[i].told
               /\ ops' = [ops EXCEPT ![i].at = "reloading"]
            \/ /\ Return(i) /\ Finish(i) /\ ops'[i].at = "over"
               /\ ops'[i].told = Tell(ops[i].does)
<1>0. /\ ops[i].told \in Told /\ TellRefused(ops[i].does) \in Told /\ Tell(ops[i].does) \in Told
      /\ {"sent", "done", "refused", "reloading", "over"} = Stages
  BY Element, TellTypes DEF Stages
<1>1. CASE Commit(i)
  <2>1. page' = page /\ ops' = [ops EXCEPT ![i].at = "done"]
    BY <1>1 DEF Commit
  <2>. QED BY <1>0, <1>1, <2>1, Moved
<1>2. CASE Refuse(i)
  <2>1. page' = page /\ ops' = [ops EXCEPT ![i].at = "refused"]
    BY <1>2 DEF Refuse
  <2>. QED BY <1>0, <1>2, <2>1, Moved
<1>3. CASE ReturnRefused(i)
  <2>1. page' = page /\ ops' = [ops EXCEPT ![i].at = "over", ![i].told = TellRefused(ops[i].does)]
    BY <1>3 DEF ReturnRefused
  <2>. QED BY <1>0, <1>3, <2>1, Moved
<1>4. CASE Return(i)
  <2>1. page' = page /\ (ops' = [ops EXCEPT ![i].at = "reloading"] \/ Finish(i))
    BY <1>4, ReturnCases
  <2>2. CASE ops' = [ops EXCEPT ![i].at = "reloading"]
    BY <1>0, <1>4, <2>1, <2>2, Moved
  <2>3. CASE Finish(i)
    <3>1. ops' = [ops EXCEPT ![i].at = "over", ![i].told = Tell(ops[i].does)]
      BY <2>3 DEF Finish
    <3>. QED BY <1>0, <1>4, <2>1, <2>3, <3>1, Moved
  <2>. QED BY <2>1, <2>2, <2>3
<1>. QED BY <1>1, <1>2, <1>3, <1>4 DEF Operation

Begins(o) == Begin(o) /\ (o \in page.ops \/ (form.open /\ o = page.form.save))

\* A write is begun, or the writes are the same.
LEMMA BeginsOrNot ==
  ASSUME Sound, Filled, [FormsNext]_vars
  PROVE  DOMAIN ops' = DOMAIN ops \/ \E o : Begins(o)
<1>1. \A i \in DOMAIN flying : Answer(i) \/ LoadFails(i) => DOMAIN ops' = DOMAIN ops
  BY DEF Answer, LoadFails, EndWaiting
<1>2. \A i \in DOMAIN ops : Operation(i) => DOMAIN ops' = DOMAIN ops
  BY OperationMoves DEF Sound, Same
<1>3. LoadWhenEmpty \/ Poll \/ (\E k \in Keys : Choose(k)) \/ Retry \/ Refresh => ops' = ops
  BY Asked DEF Asks, Sound
<1>. QED BY <1>1, <1>2, <1>3, Steps DEF Begins, Serve, Reopen, pageVars, vars

\* No step forgets a write, and none that is over begins again.
LEMMA WritesStay ==
  ASSUME Sound, Filled, [FormsNext]_vars
  PROVE  /\ page' = page /\ server \subseteq server' /\ DOMAIN ops \subseteq DOMAIN ops'
         /\ \A i \in DOMAIN ops : /\ ops'[i].does = ops[i].does
                                  /\ Over(i) => ops'[i].at = "over"
<1>1. CASE UNCHANGED <<page, server, ops>>
  BY <1>1 DEF Over
<1>2. ASSUME NEW i \in DOMAIN flying, Answer(i) \/ LoadFails(i)
      PROVE  /\ page' = page /\ server' = server /\ Same
             /\ \A j \in DOMAIN ops : Over(j) => ops'[j].at = "over"
  <2>1. page' = page /\ server' = server /\ EndWaiting(flying[i].by)
    BY <1>2 DEF Answer, LoadFails
  <2>2. flying[i] \in Loads
    BY DEF Sound, Typed
  <2>3. flying[i].by \in 0 .. MaxOps
    BY <2>2 DEF Loads
  <2>4. /\ Same /\ \A j \in DOMAIN ops : j # flying[i].by => ops'[j] = ops[j]
        /\ \A j \in DOMAIN ops : j = flying[i].by => ops'[j].at = "over"
    BY <2>1, <2>3, Waited DEF Sound
  <2>. QED BY <2>1, <2>4 DEF Over
<1>3. ASSUME NEW i \in DOMAIN ops, Operation(i)
      PROVE  /\ page' = page /\ server \subseteq server' /\ Same
             /\ \A j \in DOMAIN ops : Over(j) => ops'[j].at = "over"
  <2>1. Same /\ \A j \in DOMAIN ops : j # i => ops'[j] = ops[j]
    BY <1>3, OperationMoves DEF Sound
  <2>2. ops[i].at # "over" /\ server \subseteq server'
    BY <1>3 DEF Operation, Commit, Refuse, Return, ReturnRefused
  <2>. QED BY <2>1, <2>2 DEF Over, Same
<1>4. ASSUME NEW o, Begins(o)
      PROVE  /\ page' = page /\ server' = server /\ DOMAIN ops \subseteq DOMAIN ops'
             /\ \A i \in DOMAIN ops : ops'[i] = ops[i]
  <2>1. o \in Writes(page)
    BY <1>4, Writing DEF Begins
  <2>2. Begin(o)
    BY <1>4 DEF Begins
  <2>. QED BY <2>1, <2>2, Begun DEF Sound, Begin
<1>5. CASE FormsNext
  <2>1. CASE UNCHANGED pageVars
    BY <1>1, <2>1 DEF pageVars
  <2>2. ASSUME NEW i \in DOMAIN flying, Serve(i) PROVE UNCHANGED <<page, server, ops>>
    BY <2>2 DEF Serve
  <2>3. CASE LoadWhenEmpty \/ Poll \/ (\E k \in Keys : Choose(k)) \/ Retry \/ Refresh
    BY <1>1, <2>3, Asked DEF Asks, Sound
  <2>4. CASE Reopen
    BY <1>1, <2>4 DEF Reopen
  <2>5. CASE \E o : Begins(o)
    BY <1>4, <2>5 DEF Over
  <2>6. CASE \E i \in DOMAIN ops : Operation(i)
    BY <1>3, <2>6 DEF Same
  <2>7. CASE \E i \in DOMAIN flying : Answer(i) \/ LoadFails(i)
    BY <1>2, <2>7 DEF Same
  <2>. QED BY <1>1, <1>5, <2>1, <2>2, <2>3, <2>4, <2>5, <2>6, <2>7, Steps DEF Begins
<1>. QED BY <1>1, <1>5 DEF vars

-----------------------------------------------------------------------------
(* The form *)

Forms == [open : BOOLEAN, rec : Records \cup {0}, of : Records \cup {0},
          pic : Records \cup {0}, typed : BOOLEAN]

FormTyped ==
  /\ form \in Forms /\ up \in Records \cup {0} /\ Filled
  /\ form.open => form.rec \in Records
  /\ sent \subseteq [op : DOMAIN ops, rec : Records, of : Records \cup {0},
                     pic : Records \cup {0}]
  /\ \A s \in sent : page.form.fills # "none" /\ ops[s.op].does = page.form.save

\* What the steps of the page do to the form.
Follows == \E applied : FormFollows(applied)

LEMMA FormSteps ==
  ASSUME [FormsNext]_vars
  PROVE  \/ UNCHANGED vars
         \/ Follows /\ (PageStep \/ Click)
         \/ ComeBack
         \/ \E r \in Records : Pick(r)
         \/ CloseForm \/ Type \/ Upload \/ Save \/ UploadDone
BY DEF FormsNext, PageStep, Click, FormStep, Follows

LEMMA OpenedForm ==
  ASSUME NEW r \in Records, NEW c \in Records \cup {0}
  PROVE  /\ Opened(r, c) \in Forms /\ Opened(r, c).rec = r /\ Opened(r, c).of = c
         /\ Opened(r, c).open /\ Opened(r, c).pic = 0 /\ ~Opened(r, c).typed
BY DEF Opened, Forms

LEMMA ClosedForm == Closed \in Forms /\ ~Closed.open
BY DEF Closed, Forms

LEMMA EnteredForm ==
  ASSUME NEW h
  PROVE  /\ Entered(h) \in Forms
         /\ Entered(h).open => Entered(h).rec = 1 /\ page.form.fills # "none"
<1>. QED BY OpenedForm, ClosedForm DEF Entered, Records

\* A save that ends empties the form, fills it with a whole record, or leaves it.
LEMMA AfterSaveForm ==
  ASSUME FormTyped, NEW s \in sent
  PROVE  \/ AfterSave(s) = Closed
         \/ AfterSave(s) = Opened(s.rec, s.rec)
         \/ AfterSave(s) = Opened(1, 1)
         \/ page.form.done = "next" /\ \E r \in Records : AfterSave(s) = Opened(r, r)
         \/ AfterSave(s) = form
         \/ form.rec = s.rec /\ AfterSave(s) = [form EXCEPT !.typed = FALSE]
<1>1. NextPending(s.rec) \in Records
  <2>1. s.rec \in Records
    BY DEF FormTyped
  <2>2. CASE \A q \in Records : \E t \in sent : t.rec = q
    BY <2>1, <2>2 DEF NextPending
  <2>3. CASE \E q \in Records : \A t \in sent : t.rec # q
    BY <2>3 DEF NextPending
  <2>. QED BY <2>2, <2>3
<1>. QED BY <1>1 DEF AfterSave

LEMMA FollowCases ==
  ASSUME NEW applied, FormFollows(applied)
  PROVE  /\ UNCHANGED <<up, sent>>
         /\ \/ Ended # {} /\ \E s \in Ended : form' = AfterSave(s)
            \/ Ended = {} /\ Refilled(applied) /\ form' = Opened(form.rec, form.rec)
            \/ Ended = {} /\ form' = form
BY DEF FormFollows


\* A save is a write of its own.
LEMMA SaveWrites ==
  ASSUME Sound, FormTyped, Save
  PROVE  LET n == Len(ops) + 1 IN
         /\ form.open /\ page.form.fills # "none" /\ form.rec \in Records
         /\ Begin(page.form.save) /\ page.form.save \in Writes(page)
         /\ n \notin DOMAIN ops /\ DOMAIN ops' = DOMAIN ops \cup {n}
         /\ ops'[n].does = page.form.save /\ ops'[n].at = "sent"
         /\ \A j \in DOMAIN ops : ops'[j] = ops[j]
         /\ sent' = sent \cup {[op |-> n, rec |-> form.rec, of |-> form.of, pic |-> form.pic]}
<1> DEFINE n == Len(ops) + 1
           o == page.form.save
           w == [does |-> o, at |-> "sent", told |-> "nothing", with |-> key]
<1>1. /\ form.open /\ page.form.fills # "none" /\ form.rec \in Records
      /\ page.form.save \in Writes(page) /\ Begin(page.form.save)
  BY DEF Save, FormTyped, Filled, Writes
<1>2. sent' = sent \cup {[op |-> n, rec |-> form.rec, of |-> form.of, pic |-> form.pic]}
  BY DEF Save
<1>. HIDE DEF o
<1>3. o \in Writes(page) /\ Begin(o) /\ w.does = o /\ w.at = "sent"
  BY <1>1 DEF o
<1>4. /\ n \notin DOMAIN ops /\ DOMAIN ops' = DOMAIN ops \cup {n} /\ ops'[n] = w
      /\ \A j \in DOMAIN ops : ops'[j] = ops[j]
  BY <1>3, Begun DEF Sound
<1>. HIDE DEF w, n
<1>. QED BY <1>1, <1>2, <1>3, <1>4 DEF o, n

LEMMA FormTypedStep ==
  ASSUME Sound, FormTyped, [FormsNext]_vars PROVE FormTyped'
<1>0. /\ Filled /\ page' = page /\ DOMAIN ops \subseteq DOMAIN ops'
      /\ \A i \in DOMAIN ops : ops'[i].does = ops[i].does
  BY WritesStay DEF FormTyped
<1>1. ASSUME sent' = sent,
             form' \in Forms, up' \in Records \cup {0},
             form'.open => form'.rec \in Records /\ page.form.fills # "none"
      PROVE  FormTyped'
  <2>. DEFINE S(d) == [op : d, rec : Records, of : Records \cup {0}, pic : Records \cup {0}]
  <2>1. \A s \in sent : s \in S(DOMAIN ops)
    BY DEF FormTyped
  <2>2. \A s \in sent : s \in S(DOMAIN ops') /\ s.op \in DOMAIN ops
    BY <1>0, <2>1
  <2>. QED BY <1>0, <1>1, <2>2 DEF FormTyped, Filled
<1>2. CASE UNCHANGED vars
  BY <1>1, <1>2 DEF vars, FormTyped, Filled
<1>3. CASE Follows
  <2>1. PICK applied : FormFollows(applied)
    BY <1>3 DEF Follows
  <2>2. UNCHANGED <<up, sent>>
    BY <2>1, FollowCases
  <2>3. CASE \E s \in Ended : form' = AfterSave(s)
    <3>1. PICK s \in Ended : form' = AfterSave(s)
      BY <2>3
    <3>2. s \in sent /\ s.rec \in Records /\ page.form.fills # "none"
      BY DEF Ended, FormTyped
    <3>3. form' \in Forms /\ (form'.open => form'.rec \in Records)
      <4>1. 1 \in Records /\ \A r \in Records : r \in Records \cup {0}
        BY DEF Records
      <4>2. [form EXCEPT !.typed = FALSE] \in Forms
            /\ [form EXCEPT !.typed = FALSE].rec = form.rec
        BY DEF FormTyped, Forms
      <4>3. CASE form' = Closed \/ form' = form \/ form' = [form EXCEPT !.typed = FALSE]
        BY <3>2, <4>1, <4>2, <4>3, ClosedForm DEF FormTyped, Forms
      <4>4. CASE \E r \in Records : form' = Opened(r, r)
        BY <4>1, <4>4, OpenedForm
      <4>. QED BY <3>1, <3>2, <4>1, <4>3, <4>4, AfterSaveForm
    <3>. QED BY <1>1, <2>2, <3>2, <3>3 DEF FormTyped
  <2>4. CASE form.open /\ form' = Opened(form.rec, form.rec)
    <3>1. form.rec \in Records /\ page.form.fills # "none"
      BY <2>4 DEF FormTyped, Filled
    <3>. QED BY <1>1, <2>2, <2>4, <3>1, OpenedForm DEF FormTyped
  <2>5. CASE form' = form
    BY <1>1, <2>2, <2>5 DEF FormTyped, Filled
  <2>. QED BY <2>1, <2>3, <2>4, <2>5, FollowCases DEF Refilled
<1>4. CASE ComeBack
  <2>1. 1 \in Records
    BY DEF Records
  <2>. QED BY <1>1, <1>4, <2>1, EnteredForm DEF ComeBack, FormTyped
<1>5. ASSUME NEW r \in Records, Pick(r) PROVE FormTyped'
  <2>1. page.form.fills # "none" /\ form' = Opened(r, r) /\ UNCHANGED <<up, sent>>
    BY <1>5 DEF Pick
  <2>. QED BY <1>1, <2>1, OpenedForm DEF FormTyped
<1>6. CASE CloseForm
  BY <1>1, <1>6, ClosedForm DEF CloseForm, FormTyped
<1>7. CASE Type
  <2>1. form' \in Forms /\ form'.rec = form.rec /\ form.open
    BY <1>7 DEF Type, FormTyped, Forms
  <2>. QED BY <1>1, <1>7, <2>1 DEF Type, FormTyped, Filled
<1>8. CASE Upload
  BY <1>1, <1>8 DEF Upload, FormTyped, Filled
<1>9. CASE UploadDone
  <2>1. form' \in Forms /\ form'.rec = form.rec /\ form'.open = form.open
    BY <1>9 DEF UploadDone, FormTyped, Forms
  <2>2. up' \in Records \cup {0}
    BY <1>9 DEF UploadDone
  <2>. QED BY <1>1, <1>9, <2>1, <2>2 DEF UploadDone, FormTyped, Filled
<1>10. CASE Save
  <2> DEFINE n == Len(ops) + 1
  <2>1. /\ form.open /\ page.form.fills # "none" /\ form.rec \in Records /\ up' = up
        /\ n \notin DOMAIN ops /\ DOMAIN ops' = DOMAIN ops \cup {n}
        /\ ops'[n].does = page.form.save
    BY <1>10, SaveWrites DEF Save
  <2>2. n \in DOMAIN ops'
    BY <2>1
  <2>3. form' \in Forms /\ (form'.open => form'.rec \in Records)
    BY <1>10, <2>1, OpenedForm DEF Save, FormTyped
  <2>. HIDE DEF n
  <2>4. sent' = sent \cup {[op |-> n, rec |-> form.rec, of |-> form.of, pic |-> form.pic]}
    BY <1>10 DEF Save, n
  <2>5. form.of \in Records \cup {0} /\ form.pic \in Records \cup {0}
    BY DEF FormTyped, Forms
  <2>6. \A s \in sent' : /\ s \in [op : DOMAIN ops', rec : Records, of : Records \cup {0},
                                   pic : Records \cup {0}]
                         /\ ops'[s.op].does = page.form.save
    BY <1>0, <2>1, <2>2, <2>4, <2>5 DEF FormTyped
  <2>. QED BY <1>0, <2>1, <2>3, <2>6 DEF FormTyped, Filled
<1>. QED BY <1>2, <1>3, <1>4, <1>5, <1>6, <1>7, <1>8, <1>9, <1>10, FormSteps

LEMMA FormTypedInit == FormsInit => FormTyped
<1>1. /\ Entered(FALSE) \in Forms
      /\ Entered(FALSE).open => Entered(FALSE).rec = 1 /\ page.form.fills # "none"
  BY EnteredForm
<1>. QED BY <1>1 DEF FormsInit, FormTyped, Filled, Records

\* The pages keep their types, and what is told is one of three things.
THEOREM FormsTypes == FormsSpec => []FormsTypeOK
<1>1. FormsInit => Sound /\ FormTyped
  BY SoundInit, FormTypedInit
<1>2. Sound /\ FormTyped /\ [FormsNext]_vars => (Sound /\ FormTyped)'
  BY SoundStep, FormTypedStep DEF FormTyped
<1>3. Sound /\ FormTyped => FormsTypeOK
  <2>. SUFFICES ASSUME Sound, FormTyped PROVE FormsTypeOK
    OBVIOUS
  <2>1. \A i \in DOMAIN ops : ops[i].at \in Stages /\ ops[i].told \in Told
    BY Element DEF Sound
  <2>2. \A i \in DOMAIN flying : flying[i].key \in Keys /\ flying[i].by \in 0 .. MaxOps
    <3>1. \A i \in DOMAIN flying : flying[i] \in Loads
      BY DEF Sound, Typed
    <3>. QED BY <3>1 DEF Loads
  <2>3. shown.key \in Keys \cup {"nothing"} /\ shown.has \subseteq 1 .. MaxOps
    BY DEF Sound, Typed, Lists, Nothing
  <2>4. TypeOK
    BY <2>1, <2>2, <2>3, ReadIsRead DEF Sound, Typed, TypeOK, Stages
  <2>. QED BY <2>1, <2>4 DEF FormsTypeOK, FormTyped, Forms, Told
<1>. QED BY <1>1, <1>2, <1>3, PTL DEF FormsSpec


-----------------------------------------------------------------------------
(* A save writes a whole record *)

OneRecord == page.form.upload # "none"

Whole ==
  page.name \notin MixingPages =>
    /\ form.open => /\ form.of = form.rec /\ form.pic \in {0, form.rec}
                    /\ (OneRecord => form.rec = 1)
    /\ \A s \in sent : /\ s.of = s.rec /\ s.pic \in {0, s.rec}
                       /\ (OneRecord => s.rec = 1)
    /\ up # 0 => OneRecord /\ up = 1

LEMMA OpenedWhole ==
  ASSUME NEW r \in Records, form' = Opened(r, r)
  PROVE  form'.of = form'.rec /\ form'.pic \in {0, form'.rec} /\ form'.rec = r
BY OpenedForm

LEMMA WholeStep == ASSUME Sound, FormTyped, Whole, [FormsNext]_vars PROVE Whole'
<1>. SUFFICES ASSUME (page.name \notin MixingPages)' PROVE Whole'
  BY DEF Whole
<1>0. page' = page /\ page.name \notin MixingPages /\ FillsWhole(page) /\ 1 \in Records
  BY WritesStay, PageRules DEF Sound, Typed, FormTyped, Records
<1>1. /\ form.open => /\ form.of = form.rec /\ form.pic \in {0, form.rec}
                      /\ (OneRecord => form.rec = 1)
      /\ \A s \in sent : /\ s.of = s.rec /\ s.pic \in {0, s.rec} /\ s.rec \in Records
                         /\ page.form.fills # "none"
                         /\ (OneRecord => s.rec = 1)
      /\ up # 0 => OneRecord /\ up = 1
      /\ form.open => form.rec \in Records /\ page.form.fills # "none"
  BY <1>0 DEF Whole, FormTyped, Filled
<1>2. OneRecord' = OneRecord
  BY <1>0 DEF OneRecord
<1>. USE <1>2
<1>3. CASE UNCHANGED vars
  BY <1>0, <1>1, <1>3 DEF vars, Whole
<1>4. CASE Follows
  <2>1. PICK applied : FormFollows(applied)
    BY <1>4 DEF Follows
  <2>2. UNCHANGED <<up, sent>> /\ ~Refilled(applied)
    BY <1>0, <2>1, FollowCases DEF Refilled, FillsWhole
  <2>3. CASE \E s \in Ended : form' = AfterSave(s)
    <3>1. PICK s \in Ended : form' = AfterSave(s)
      BY <2>3
    <3>2. s \in sent /\ s.rec \in Records /\ page.form.fills # "none" /\ (OneRecord => s.rec = 1)
      BY <1>1 DEF Ended
    <3>3. OneRecord => page.form.done # "next"
      BY <1>0, <3>2 DEF FillsWhole, OneRecord
    <3>4. CASE form' = Closed
      BY <1>1, <2>2, <3>4, ClosedForm DEF Whole
    <3>5. CASE \E r \in Records : form' = Opened(r, r) /\ (OneRecord => r = 1)
      BY <1>1, <2>2, <3>5, OpenedWhole DEF Whole
    <3>6. CASE form' = form \/ form' = [form EXCEPT !.typed = FALSE]
      <4>1. /\ form'.open = form.open /\ form'.rec = form.rec /\ form'.of = form.of
            /\ form'.pic = form.pic
        BY <3>6 DEF FormTyped, Forms
      <4>. QED BY <1>1, <2>2, <4>1 DEF Whole
    <3>. QED BY <1>0, <3>1, <3>2, <3>3, <3>4, <3>5, <3>6, AfterSaveForm
  <2>4. CASE form' = form
    BY <1>1, <2>2, <2>4 DEF Whole
  <2>. QED BY <2>1, <2>2, <2>3, <2>4, FollowCases
<1>5. CASE ComeBack
  <2>1. form' = Entered(shown' # Nothing) /\ UNCHANGED <<up, sent>>
    BY <1>5 DEF ComeBack
  <2>2. CASE form' = Closed
    BY <1>1, <2>1, <2>2, ClosedForm DEF Whole
  <2>3. CASE form' = Opened(1, 1)
    BY <1>0, <1>1, <2>1, <2>3, OpenedWhole DEF Whole
  <2>. QED BY <1>0, <2>1, <2>2, <2>3 DEF Entered, FillsWhole
<1>6. ASSUME NEW r \in Records, Pick(r) PROVE Whole'
  <2>1. page.form.fills = "select" /\ form' = Opened(r, r) /\ UNCHANGED <<up, sent>>
    BY <1>6 DEF Pick
  <2>2. ~OneRecord
    BY <1>0, <2>1 DEF FillsWhole, OneRecord
  <2>. QED BY <1>1, <2>1, <2>2, OpenedWhole DEF Whole
<1>7. CASE CloseForm
  BY <1>1, <1>7, ClosedForm DEF CloseForm, Whole
<1>8. CASE Type
  <2>1. /\ form'.open = form.open /\ form'.rec = form.rec /\ form'.of = form.of
        /\ form'.pic = form.pic
    BY <1>8 DEF Type, FormTyped, Forms
  <2>. QED BY <1>1, <1>8, <2>1 DEF Type, Whole
<1>9. CASE Upload
  BY <1>1, <1>9 DEF Upload, Whole, OneRecord
<1>10. CASE UploadDone
  <2>1. up = 1 /\ OneRecord /\ up' = 0 /\ sent' = sent
    BY <1>1, <1>10 DEF UploadDone
  <2>2. CASE form.open
    <3>1. /\ form'.open = form.open /\ form'.rec = form.rec /\ form'.of = form.of
          /\ form'.pic = 1
      BY <1>10, <2>1, <2>2 DEF UploadDone, FormTyped, Forms
    <3>. QED BY <1>1, <2>1, <2>2, <3>1 DEF Whole
  <2>3. CASE ~form.open
    BY <1>1, <1>10, <2>1, <2>3 DEF UploadDone, Whole
  <2>. QED BY <2>2, <2>3
<1>11. CASE Save
  <2>1. \A s \in sent' : s \in sent \/ (s.rec = form.rec /\ s.of = form.of /\ s.pic = form.pic)
    BY <1>11, SaveWrites
  <2>2. form.open /\ form' = form /\ up' = up
    BY <1>0, <1>11 DEF Save, Refilled, FillsWhole
  <2>. QED BY <1>1, <2>1, <2>2 DEF Whole
<1>. QED BY <1>3, <1>4, <1>5, <1>6, <1>7, <1>8, <1>9, <1>10, <1>11, FormSteps

LEMMA WholeInit == FormsInit => Whole
<1>. SUFFICES ASSUME FormsInit PROVE Whole
  OBVIOUS
<1>1. form = Entered(FALSE) /\ up = 0 /\ sent = {} /\ page \in Pages
  BY DEF FormsInit, Init
<1>2. page.name \notin MixingPages => form = Closed \/ form = Opened(1, 1)
  BY <1>1, PageRules DEF FillsWhole, Entered
<1>3. Opened(1, 1).rec = 1 /\ Opened(1, 1).of = 1 /\ Opened(1, 1).pic = 0
  BY OpenedForm DEF Records
<1>. QED BY <1>1, <1>2, <1>3, ClosedForm DEF Whole

\* On the pages that fill their form once and upload pictures for one record
\* only, no save writes the content or the picture of another record.
THEOREM SavesOneRecord == FormsSpec => []WholeRecord
<1>1. FormsInit => Sound /\ FormTyped /\ Whole
  BY SoundInit, FormTypedInit, WholeInit
<1>2. Sound /\ FormTyped /\ Whole /\ [FormsNext]_vars => (Sound /\ FormTyped /\ Whole)'
  BY SoundStep, FormTypedStep, WholeStep DEF FormTyped
<1>3. Whole => WholeRecord
  BY DEF Whole, WholeRecord
<1>. QED BY <1>1, <1>2, <1>3, PTL DEF FormsSpec


-----------------------------------------------------------------------------
(* What is typed is kept *)

\* A save that is not over is for the record in the form, and the lock lets one
\* write of its kind be under way.
Guarded ==
  page.name \notin OverwritingPages =>
    /\ \A s \in sent : ~Over(s.op) => form.open /\ form.rec = s.rec
    /\ page.form.fills # "none" =>
         \A i, j \in DOMAIN ops :
           /\ ~Over(i) /\ ops[i].does.lock = page.form.save.lock
           /\ ~Over(j) /\ ops[j].does.lock = page.form.save.lock
           => i = j

LEMMA LockStep ==
  ASSUME Sound, FormTyped, FillsOnce(page), page.form.fills # "none", [FormsNext]_vars,
         \A i, j \in DOMAIN ops :
           /\ ~Over(i) /\ ops[i].does.lock = page.form.save.lock
           /\ ~Over(j) /\ ops[j].does.lock = page.form.save.lock
           => i = j
  PROVE  \A i, j \in DOMAIN ops' :
           /\ ~Over(i)' /\ ops'[i].does.lock = page.form.save.lock
           /\ ~Over(j)' /\ ops'[j].does.lock = page.form.save.lock
           => i = j
<1>1. /\ DOMAIN ops \subseteq DOMAIN ops'
      /\ \A i \in DOMAIN ops : /\ ops'[i].does = ops[i].does
                               /\ ~Over(i)' => ~Over(i)
  BY WritesStay DEF FormTyped, Over
<1>2. CASE DOMAIN ops' = DOMAIN ops
  BY <1>1, <1>2
<1>3. ASSUME NEW o, Begins(o)
      PROVE  \A i, j \in DOMAIN ops' :
               /\ ~Over(i)' /\ ops'[i].does.lock = page.form.save.lock
               /\ ~Over(j)' /\ ops'[j].does.lock = page.form.save.lock
               => i = j
  <2> DEFINE n == Len(ops) + 1
             w == [does |-> o, at |-> "sent", told |-> "nothing", with |-> key]
  <2>1. Begin(o) /\ o \in Writes(page) /\ w.does = o
    BY <1>3, Writing DEF Begins, FormTyped
  <2>2. n \notin DOMAIN ops /\ DOMAIN ops' = DOMAIN ops \cup {n} /\ ops'[n] = w
    BY <2>1, Begun DEF Sound
  <2>. HIDE DEF n, w
  <2>3. o.lock = page.form.save.lock =>
          \A i \in DOMAIN ops : ops[i].does.lock = page.form.save.lock => Over(i)
    BY <2>1 DEF Begin, Locked, FillsOnce
  <2>. QED BY <1>1, <2>1, <2>2, <2>3
<1>4. DOMAIN ops' = DOMAIN ops \/ \E o : Begins(o)
  BY BeginsOrNot DEF FormTyped
<1>. QED BY <1>2, <1>3, <1>4

\* An unfinished save holds its lock.
LEMMA OneSave ==
  ASSUME FormTyped, Guarded, page.name \notin OverwritingPages,
         NEW s \in sent, NEW t \in sent, ~Over(s.op), ~Over(t.op)
  PROVE  s.op = t.op /\ form.open /\ form.rec = s.rec
BY DEF FormTyped, Guarded

LEMMA GuardedStep == ASSUME Sound, FormTyped, Guarded, [FormsNext]_vars PROVE Guarded'
<1>. SUFFICES ASSUME (page.name \notin OverwritingPages)' PROVE Guarded'
  BY DEF Guarded
<1>0. page' = page /\ page.name \notin OverwritingPages /\ FillsOnce(page)
  BY WritesStay, PageRules DEF Sound, Typed, FormTyped
<1>1. page.form.fills # "none" =>
        \A i, j \in DOMAIN ops' :
          /\ ~Over(i)' /\ ops'[i].does.lock = page.form.save.lock
          /\ ~Over(j)' /\ ops'[j].does.lock = page.form.save.lock
          => i = j
  BY <1>0, LockStep DEF Guarded
<1>2. \A s \in sent : /\ s.op \in DOMAIN ops /\ page.form.fills # "none"
                      /\ ~Over(s.op)' => ~Over(s.op)
                      /\ ~Over(s.op) => form.open /\ form.rec = s.rec
  <2>1. \A s \in sent : s.op \in DOMAIN ops
    BY DEF FormTyped
  <2>. QED BY <1>0, <2>1, WritesStay DEF FormTyped, Guarded, Over
<1>3. ASSUME sent' = sent,
             \/ \A s \in sent : ~Over(s.op)' => FALSE
             \/ form'.open = form.open /\ form'.rec = form.rec
      PROVE  Guarded'
  BY <1>0, <1>1, <1>2, <1>3 DEF Guarded
<1>4. CASE UNCHANGED vars
  BY <1>3, <1>4 DEF vars
<1>5. CASE Follows
  <2>1. PICK applied : FormFollows(applied)
    BY <1>5 DEF Follows
  <2>2. sent' = sent /\ ~Refilled(applied)
    BY <1>0, <2>1, FollowCases DEF Refilled, FillsOnce
  <2>3. CASE Ended # {}
    <3>1. PICK s \in sent : ~Over(s.op) /\ ops'[s.op].at = "over"
      BY <2>3 DEF Ended
    <3>2. \A t \in sent : ~Over(t.op)' => FALSE
      BY <1>0, <1>2, <3>1, OneSave DEF Over
    <3>. QED BY <1>3, <2>2, <3>2
  <2>4. CASE form' = form
    BY <1>3, <2>2, <2>4
  <2>. QED BY <2>1, <2>2, <2>3, <2>4, FollowCases
<1>6. CASE ComeBack
  <2>1. \A i \in DOMAIN ops : Over(i)
    BY <1>6 DEF ComeBack, Reopen, Settled
  <2>. QED BY <1>2, <1>3, <1>6, <2>1 DEF ComeBack
<1>7. ASSUME NEW r \in Records, Pick(r) PROVE Guarded'
  <2>1. ~form.open /\ sent' = sent
    BY <1>0, <1>7 DEF Pick, FillsOnce
  <2>. QED BY <1>2, <1>3, <2>1
<1>8. CASE CloseForm
  <2>1. \A s \in sent : ~Over(s.op) => form.rec # s.rec
    BY <1>8 DEF CloseForm, SavingNow
  <2>. QED BY <1>2, <1>3, <1>8, <2>1 DEF CloseForm
<1>9. CASE Type
  <2>1. form'.open = form.open /\ form'.rec = form.rec
    BY <1>9 DEF Type, FormTyped, Forms
  <2>. QED BY <1>3, <1>9, <2>1 DEF Type
<1>10. CASE Upload
  BY <1>3, <1>10 DEF Upload
<1>11. CASE UploadDone
  <2>1. form'.open = form.open /\ form'.rec = form.rec
    BY <1>11 DEF UploadDone, FormTyped, Forms
  <2>. QED BY <1>3, <1>11, <2>1 DEF UploadDone
<1>12. CASE Save
  <2>1. \A s \in sent' : s \in sent \/ s.rec = form.rec
    BY <1>12, SaveWrites
  <2>2. form.open /\ form' = form
    BY <1>0, <1>12 DEF Save, Refilled, FillsOnce
  <2>. QED BY <1>0, <1>1, <1>2, <2>1, <2>2 DEF Guarded
<1>. QED BY <1>4, <1>5, <1>6, <1>7, <1>8, <1>9, <1>10, <1>11, <1>12, FormSteps

\* On the pages whose form is filled once, what the user typed goes when the
\* user gives it up or when the server has the save of that record, whatever
\* the requests under way do.
THEOREM TypingIsKept == FormsSpec => EditsKept
<1>1. FormsInit => Sound /\ FormTyped /\ Guarded
  <2>1. FormsInit => sent = {} /\ ops = <<>>
    BY DEF FormsInit, Init
  <2>2. FormsInit => Guarded
    BY <2>1 DEF Guarded
  <2>. QED BY <2>2, SoundInit, FormTypedInit
<1>2. Sound /\ FormTyped /\ Guarded /\ [FormsNext]_vars => (Sound /\ FormTyped /\ Guarded)'
  BY SoundStep, FormTypedStep, GuardedStep DEF FormTyped
<1> DEFINE Kept == page.name \notin OverwritingPages /\ form.typed /\ ~form'.typed
                   => \/ ComeBack \/ CloseForm \/ \E r \in Records : Pick(r)
                      \/ \E s \in sent : s.rec = form.rec /\ s.op \in server
<1>3. ASSUME Sound, FormTyped, Guarded, [FormsNext]_vars PROVE [Kept]_vars
  <2>. SUFFICES ASSUME page.name \notin OverwritingPages, form.typed, ~form'.typed,
                       ~ComeBack, ~CloseForm, \A r \in Records : ~Pick(r)
                PROVE  \E s \in sent : s.rec = form.rec /\ s.op \in server
    BY DEF vars
  <2>1. FillsOnce(page)
    BY <1>3, PageRules DEF Sound, Typed
  <2>2. ~UNCHANGED vars
    BY DEF vars
  <2>3. CASE Follows
    <3>1. PICK applied : FormFollows(applied)
      BY <2>3 DEF Follows
    <3>2. ~Refilled(applied)
      BY <2>1 DEF Refilled, FillsOnce
    <3>3. PICK s \in Ended : TRUE
      BY <3>1, <3>2, FollowCases
    <3>4. s \in sent /\ ~Over(s.op) /\ s.op \in server
      BY DEF Ended
    <3>. QED BY <1>3, <3>4, OneSave
  <2>4. CASE Type \/ Upload \/ UploadDone
    BY <1>3, <2>4 DEF Type, Upload, UploadDone, FormTyped, Forms
  <2>5. CASE Save
    BY <2>1, <2>5 DEF Save, Refilled, FillsOnce
  <2>. QED BY <1>3, <2>2, <2>3, <2>4, <2>5, FormSteps
<1>. QED BY <1>1, <1>2, <1>3, PTL DEF FormsSpec, EditsKept


-----------------------------------------------------------------------------
(* A success that is told is there *)

\* What a page with a write in its list is like.
LEMMA LooksAtWrites ==
  ASSUME Typed, page.name \notin BlindPages, NEW i \in DOMAIN ops
  PROVE  /\ ops[i].does.says # "always" /\ ~page.guarded /\ ~page.eager
         /\ ops[i].does.after \in {"none", "patch", "reload", "restart", "later", "last"}
         /\ ops[i].does.after = "reload" => "forced" \notin page.store.drops
<1>1. LooksAtTheAnswer(page) /\ ops[i].does \in Writes(page)
  BY PageRules, Element DEF Typed
<1>. QED BY <1>1 DEF LooksAtTheAnswer

Shows(i) == i \in server /\ (InList(i) /\ ~error' /\ shown' # Nothing => i \in shown'.has)

\* The answer of a reload tells of the write that waited for it.
LEMMA AnswerShows ==
  ASSUME Sound, page.name \notin BlindPages, NEW k \in DOMAIN flying,
         Answer(k) \/ LoadFails(k),
         NEW i \in DOMAIN ops, ops[i].told # "success", ops'[i].told = "success"
  PROVE  Shows(i)
<1>1. ~page.guarded
  BY LooksAtWrites DEF Sound
<1>2. EndWaiting(flying[k].by)
  BY DEF Answer, LoadFails
<1>3. i = flying[k].by
  BY <1>2 DEF EndWaiting
<1>4. i \in server /\ (flying[k].has = NotYet \/ i \in flying[k].has)
  <2>1. i # 0
    BY DEF Sound, Typed
  <2>2. Reads(flying[k].has, flying[k].by)
    BY DEF Sound, Answered
  <2>. QED BY <1>3, <2>1, <2>2 DEF Reads
<1>5. CASE Answer(k)
  <2>1. shown' = [key |-> flying[k].key, has |-> flying[k].has] /\ flying[k].has # NotYet
    BY <1>1, <1>5 DEF Answer, Ignored
  <2>. QED BY <1>4, <2>1 DEF Shows
<1>6. CASE LoadFails(k)
  <2>1. error' = TRUE
    BY <1>1, <1>6 DEF LoadFails, Ignored
  <2>. QED BY <1>4, <2>1 DEF Shows
<1>. QED BY <1>5, <1>6

\* So does the answer of the write itself.
LEMMA ReturnShows ==
  ASSUME Sound, page.name \notin BlindPages, NEW i \in DOMAIN ops, Return(i), Finish(i)
  PROVE  Shows(i)
<1>0. Typed /\ ops[i].does \in Writes(page) /\ i \in 1 .. MaxOps
  <2>1. Len(ops) \in Nat /\ Len(ops) <= MaxOps /\ DOMAIN ops = 1 .. Len(ops)
    BY LenProperties DEF Sound, Typed
  <2>. QED BY <2>1, Element, BoundsAssumption DEF Sound
<1>1. ops[i].at = "done" /\ i \in server
  BY DEF Return, Sound, Answered
<1>2. ~page.eager /\ ops[i].does.after \in {"none", "patch", "reload", "restart", "later", "last"}
      /\ (ops[i].does.after = "reload" => "forced" \notin page.store.drops)
  BY <1>0, LooksAtWrites
<1>3. ops'[i].at = "over"
  <2>1. "over" \in Stages /\ Tell(ops[i].does) \in Told
    BY TellTypes DEF Stages
  <2>2. page' = page /\ ops' = [ops EXCEPT ![i].at = "over", ![i].told = Tell(ops[i].does)]
    BY DEF Return, Finish
  <2>. QED BY <1>0, <2>1, <2>2, Moved
<1>4. ops' # [ops EXCEPT ![i].at = "reloading"]
  <2>. SUFFICES ASSUME ops' = [ops EXCEPT ![i].at = "reloading"] PROVE FALSE
    OBVIOUS
  <2>1. page' = page /\ ops[i].told \in Told /\ "reloading" \in Stages
    BY <1>0, Element DEF Return, Stages
  <2>2. ops'[i].at = "reloading"
    BY <1>0, <2>1, Moved
  <2>. QED BY <1>3, <2>2
<1>5. CASE ops[i].does.after \in {"none", "later", "last"}
  BY <1>1, <1>5 DEF Shows, InList
<1>6. CASE ops[i].does.after = "patch"
  <2>1. Patch(i)
    BY <1>0, <1>6, ReturnCases
  <2>2. CASE Held
    BY <1>0, <1>1, <2>1, <2>2, Listing DEF Patch, Shows
  <2>3. CASE ~Held
    <3>1. shown = Nothing /\ shown' = shown
      BY <1>0, <1>2, <2>1, <2>3 DEF Patch, Held, Typed
    <3>. QED BY <1>1, <3>1 DEF Shows
  <2>. QED BY <2>2, <2>3
<1>. QED BY <1>0, <1>2, <1>4, <1>5, <1>6, ReturnCases

\* On the pages that look at the answer, a user who is told of a success finds
\* what was written in the list, if there is a list and its reload did not fail.
THEOREM SuccessIsTrue == FormsSpec => SuccessIsShown
<1>1. FormsInit => Sound /\ FormTyped
  BY SoundInit, FormTypedInit
<1>2. Sound /\ FormTyped /\ [FormsNext]_vars => (Sound /\ FormTyped)'
  BY SoundStep, FormTypedStep DEF FormTyped
<1> DEFINE Told1 == page.name \notin BlindPages =>
                      \A i \in DOMAIN ops : ops[i].told # "success" /\ ops'[i].told = "success"
                        => Shows(i)
<1>3. ASSUME Sound, FormTyped, [FormsNext]_vars PROVE [Told1]_vars
  <2>. SUFFICES ASSUME page.name \notin BlindPages, NEW i \in DOMAIN ops,
                       ops[i].told # "success", ops'[i].told = "success"
                PROVE  Shows(i)
    BY DEF vars
  <2>0. Sound /\ Typed /\ Filled /\ ops'[i].told # ops[i].told
    BY <1>3 DEF Sound, FormTyped
  <2>1. CASE \E k \in DOMAIN flying : Answer(k) \/ LoadFails(k)
    BY <2>0, <2>1, AnswerShows
  <2>2. ASSUME NEW j \in DOMAIN ops, Operation(j) PROVE Shows(i)
    <3>1. i = j
      BY <2>0, <2>2, OperationMoves
    <3>2. CASE Return(i) /\ Finish(i)
      BY <2>0, <3>2, ReturnShows
    <3>3. CASE ReturnRefused(i) /\ ops'[i].told = TellRefused(ops[i].does)
      <4>1. ops[i].does.says # "always"
        BY <2>0, LooksAtWrites
      <4>2. TellRefused(ops[i].does) # "success"
        BY <4>1 DEF TellRefused
      <4>. QED BY <3>3, <4>2
    <3>. QED BY <2>0, <2>2, <3>1, <3>2, <3>3, OperationMoves
  <2>3. ASSUME NEW o, Begins(o) PROVE FALSE
    <3>1. Begin(o) /\ o \in Writes(page)
      BY <2>0, <2>3, Writing DEF Begins
    <3>2. ops'[i] = ops[i]
      BY <2>0, <3>1, Begun
    <3>. QED BY <2>0, <3>2
  <2>4. LoadWhenEmpty \/ Poll \/ (\E k \in Keys : Choose(k)) \/ Retry \/ Refresh => ops' = ops
    BY <2>0, Asked DEF Asks
  <2>5. FormsNext
    BY <1>3, <2>0 DEF vars
  <2>. QED BY <2>0, <2>1, <2>2, <2>3, <2>4, <2>5, Steps DEF Begins, Serve, Reopen, pageVars
<1>4. [Told1]_vars <=> [page.name \notin BlindPages =>
         \A i \in DOMAIN ops : ops[i].told # "success" /\ ops'[i].told = "success"
           => i \in server /\ (InList(i) /\ ~error' /\ shown' # Nothing => i \in shown'.has)]_vars
  BY DEF Shows
<1>. QED BY <1>1, <1>2, <1>3, <1>4, PTL DEF FormsSpec, SuccessIsShown


-----------------------------------------------------------------------------
(* The list at rest.  A list is as it should be when the loads under way   *)
(* will make it so, or when none of them can spoil it and it is so.        *)

\* From some load on, all loads are good: the list will be good in the end,
\* whichever is answered last among those that are in time.
Coming(fl, G)   == \E m \in DOMAIN fl : \A k \in DOMAIN fl : k >= m => fl[k] \in G
\* Every load that is not good is late: its answer will be seen to be old.
NoneOld(fl, G)  == \A k \in DOMAIN fl : fl[k].late \/ fl[k] \in G
Sure(fl, G, ok) == Coming(fl, G) \/ (NoneOld(fl, G) /\ ok)

Having(i) == {f \in Loads : Awaits(f, i)}
Keyed(k)  == {f \in Loads : f.key = k}

LEMMA SureOnce ==
  ASSUME NEW G, NEW ok, NEW fl \in Seq(Loads), NEW x \in G,
         NEW fl2, fl2 = Append(fl, x)
  PROVE  Sure(fl2, G, ok)
<1>1. Len(fl) + 1 \in DOMAIN fl2 /\ DOMAIN fl2 = 1 .. Len(fl) + 1 /\ fl2[Len(fl) + 1] = x
      /\ Len(fl) \in Nat
  OBVIOUS
<1>2. \A k \in DOMAIN fl2 : k >= Len(fl) + 1 => k = Len(fl) + 1
  BY <1>1
<1>3. \A k \in DOMAIN fl2 : k >= Len(fl) + 1 => fl2[k] \in G
  BY <1>1, <1>2
<1>. QED BY <1>1, <1>3 DEF Sure, Coming

\* The i-th load is taken: the good ones still come, or it was one of them or
\* late and the list was good before.
LEMMA SureLeft ==
  ASSUME flying \in Seq(Loads), NEW i \in DOMAIN flying, NEW G, NEW ok, Sure(flying, G, ok),
         \A f \in Loads : f \in G => [f EXCEPT !.late = TRUE] \in G
  PROVE  \/ Coming(Left(i), G)
         \/ /\ NoneOld(Left(i), G)
            /\ flying[i] \in G \/ (flying[i].late /\ ok)
<1>0. /\ Len(flying) \in Nat /\ DOMAIN flying = 1 .. Len(flying) /\ i \in 1 .. Len(flying)
      /\ \A k \in 1 .. Len(flying) : flying[k] \in Loads
  OBVIOUS
<1>1. /\ DOMAIN Left(i) = 1 .. Len(flying) - 1
      /\ \A j \in 1 .. Len(flying) - 1 :
           /\ j < i => Left(i)[j].late /\ Left(i)[j] = [flying[j] EXCEPT !.late = TRUE]
           /\ j >= i => Left(i)[j] = flying[j + 1]
  BY <1>0, Taken DEF Left
<1>2. CASE Coming(flying, G)
  <2>1. PICK m \in 1 .. Len(flying) : \A k \in 1 .. Len(flying) : k >= m => flying[k] \in G
    BY <1>0, <1>2 DEF Coming
  <2>2. CASE m < i
    <3>1. m \in 1 .. Len(flying) - 1
      BY <1>0, <2>2
    <3>2. \A j \in 1 .. Len(flying) - 1 : j >= m => Left(i)[j] \in G
      BY <1>0, <1>1, <2>1
    <3>. QED BY <1>1, <3>1, <3>2 DEF Coming
  <2>3. CASE m >= i /\ i < Len(flying)
    <3>1. PICK l \in 1 .. Len(flying) - 1 : l >= i /\ (l + 1 = m \/ (l = i /\ m = i))
      <4>1. CASE m > i
        <5>1. m - 1 \in 1 .. Len(flying) - 1 /\ m - 1 >= i /\ (m - 1) + 1 = m
          BY <1>0, <4>1
        <5>. QED BY <5>1
      <4>2. CASE m = i
        <5>1. i \in 1 .. Len(flying) - 1 /\ i >= i
          BY <1>0, <2>3
        <5>. QED BY <4>2, <5>1
      <4>. QED BY <1>0, <2>3, <4>1, <4>2
    <3>2. \A j \in 1 .. Len(flying) - 1 :
            j >= l => j >= i /\ j + 1 \in 1 .. Len(flying) /\ j + 1 >= m
      BY <1>0, <3>1
    <3>3. \A j \in 1 .. Len(flying) - 1 : j >= l => Left(i)[j] \in G
      BY <1>1, <2>1, <3>2
    <3>. QED BY <1>1, <3>1, <3>3 DEF Coming
  <2>4. CASE m >= i /\ i = Len(flying)
    <3>1. \A j \in 1 .. Len(flying) - 1 : j < i
      BY <1>0, <2>4
    <3>2. NoneOld(Left(i), G)
      BY <1>1, <3>1 DEF NoneOld
    <3>3. flying[i] \in G
      BY <1>0, <2>1, <2>4
    <3>. QED BY <3>2, <3>3
  <2>. QED BY <1>0, <2>2, <2>3, <2>4
<1>3. CASE NoneOld(flying, G) /\ ok
  <2>1. \A k \in 1 .. Len(flying) : flying[k].late \/ flying[k] \in G
    BY <1>0, <1>3 DEF NoneOld
  <2>2. \A j \in 1 .. Len(flying) - 1 :
          j < i \/ (j >= i /\ j + 1 \in 1 .. Len(flying))
    BY <1>0
  <2>3. NoneOld(Left(i), G)
    BY <1>1, <2>1, <2>2 DEF NoneOld
  <2>. QED BY <1>0, <1>3, <2>1, <2>3
<1>. QED BY <1>2, <1>3 DEF Sure

\* The loads change, but a good one stays good and a late one late.
LEMMA SureSame ==
  ASSUME NEW fl, NEW fl2, NEW G, NEW ok, NEW ok2, Sure(fl, G, ok), ok => ok2,
         DOMAIN fl2 = DOMAIN fl,
         \A k \in DOMAIN fl : /\ fl[k] \in G => fl2[k] \in G
                              /\ fl[k].late => fl2[k].late
  PROVE  Sure(fl2, G, ok2)
<1>1. Coming(fl, G) => Coming(fl2, G)
  BY DEF Coming
<1>2. NoneOld(fl, G) => NoneOld(fl2, G)
  BY DEF NoneOld
<1>. QED BY <1>1, <1>2 DEF Sure

LEMMA GoodLoads ==
  ASSUME NEW f \in Loads, NEW i, NEW k, NEW has \in SUBSET (0 .. MaxOps)
  PROVE  /\ [f EXCEPT !.late = TRUE] \in Loads
         /\ f \in Having(i) => [f EXCEPT !.late = TRUE] \in Having(i)
         /\ f \in Keyed(k) => [f EXCEPT !.late = TRUE] \in Keyed(k)
         /\ i \in has => [f EXCEPT !.has = has] \in Having(i)
         /\ f \in Keyed(k) => [f EXCEPT !.has = has] \in Keyed(k)
         /\ [f EXCEPT !.has = has].late = f.late
BY DEF Loads, Having, Keyed, Awaits


LEMMA SendsFresh ==
  ASSUME Typed, NEW k \in Keys, NEW by \in 0 .. MaxOps, Sends(k, by), NEW ok, NEW i
  PROVE  Sure(flying', Having(i), ok) /\ Sure(flying', Keyed(k), ok)
<1>1. Load(k, by) \in Having(i) /\ Load(k, by) \in Keyed(k)
  BY NewLoad DEF Having, Keyed, Awaits
<1>. HIDE DEF Load
<1>. QED BY <1>1, SureOnce DEF Sends, Typed

\* The list of a page that reloads it has what the server took ...
Reloading(i) ==
  /\ ops[i].at \in {"reloading", "over"}
  /\ ops[i].does.after \in {"reload", "restart", "later"}
Seen(i)      == i \in shown.has \/ behind \/ shown = Nothing

WritesSeen ==
  /\ \A i \in server : Reloading(i) => Sure(flying, Having(i), Seen(i))
  /\ \A i \in server : Patched(i) => Seen(i)
  /\ shown.has \subseteq server

\* ... and is the one of the filter, where there is one.
KeySeen ==
  IF page.keyed
  THEN /\ Sure(flying, Keyed(key), shown.key = key \/ behind \/ shown = Nothing)
       /\ page.guarded => Sure(flying, Keyed(key), shown.key = key \/ error \/ shown = Nothing)
  ELSE /\ key = "all" /\ shown.key \in {"all", "nothing"}
       /\ \A k \in DOMAIN flying : flying[k].key = "all"
       /\ \A i \in DOMAIN ops : ops[i].with = "all"

LEMMA NoWrites ==
  ASSUME Typed, ReloadsTheList(page), page.keyed \/ page.guarded \/ page.eager
  PROVE  DOMAIN ops = {} /\ server = {}
<1>1. \A i \in DOMAIN ops : ops[i].does \in Writes(page)
  BY Element
<1>. QED BY <1>1 DEF ReloadsTheList, Typed

\* What the answer of a write does on a page that reloads its list.
LEMMA Returned ==
  ASSUME Sound, ReloadsTheList(page), NEW i \in DOMAIN ops, Return(i)
  PROVE  /\ ops[i].at = "done" /\ i \in server /\ i \in 1 .. MaxOps
         /\ UNCHANGED <<page, server, key, fails, behind, empty>>
         /\ ~page.keyed /\ ~page.guarded /\ ~page.eager
         /\ \/ /\ ops[i].does.after \in {"reload", "restart", "later"} /\ shown' = shown
               /\ \E by \in 0 .. MaxOps : Sends(ops[i].with, by)
            \/ ops[i].does.after = "patch" /\ Patch(i) /\ flying' = flying
            \/ ops[i].does.after = "none" /\ shown' = shown /\ flying' = flying
<1>0. Typed /\ ops[i].does \in Writes(page) /\ i \in 1 .. MaxOps
  <2>1. Len(ops) \in Nat /\ Len(ops) <= MaxOps /\ DOMAIN ops = 1 .. Len(ops)
    BY LenProperties DEF Sound, Typed
  <2>. QED BY <2>1, Element, BoundsAssumption DEF Sound
<1>1. /\ ops[i].does.after \in {"none", "patch", "reload", "restart", "later"}
      /\ ops[i].does.after \in {"reload", "later"} => "forced" \notin page.store.drops
      /\ ~page.keyed /\ ~page.guarded /\ ~page.eager
  BY <1>0 DEF ReloadsTheList
<1>2. ops[i].at = "done" /\ i \in server
  BY DEF Return, Sound, Answered
<1>3. i \in 0 .. MaxOps /\ 0 \in 0 .. MaxOps
  BY <1>0, BoundsAssumption
<1>4. UNCHANGED <<page, server, key, fails, behind, empty>>
  BY DEF Return
<1>5. CASE ops[i].does.after \in {"reload", "restart"}
  <2>1. shown' = shown /\ Sends(ops[i].with, i)
    BY <1>0, <1>1, <1>5, ReturnCases
  <2>. QED BY <1>0, <1>1, <1>2, <1>3, <1>4, <1>5, <2>1
<1>6. CASE ops[i].does.after = "later"
  <2>1. shown' = shown /\ Sends(ops[i].with, 0)
    BY <1>0, <1>1, <1>6, ReturnCases
  <2>. QED BY <1>0, <1>1, <1>2, <1>3, <1>4, <1>6, <2>1
<1>7. CASE ops[i].does.after \in {"patch", "none"}
  <2>1. \/ ops[i].does.after = "patch" /\ Patch(i) /\ flying' = flying
        \/ ops[i].does.after = "none" /\ shown' = shown /\ flying' = flying
    BY <1>0, <1>7, ReturnCases
  <2>. QED BY <1>0, <1>1, <1>2, <1>4, <2>1
<1>. QED BY <1>1, <1>5, <1>6, <1>7

\* A list to which a write is added loses none.
LEMMA PatchKeeps ==
  ASSUME Typed, NEW i \in 1 .. MaxOps, Patch(i)
  PROVE  /\ shown.has \subseteq shown'.has /\ shown'.has \subseteq shown.has \cup {i}
         /\ shown'.key = shown.key
         /\ shown = Nothing => shown' = Nothing
         /\ Held => i \in shown'.has
<1>1. CASE Held
  BY <1>1, Listing DEF Patch, Held
<1>2. CASE ~Held
  BY <1>2 DEF Patch
<1>. QED BY <1>1, <1>2

LEMMA ServeSeen ==
  ASSUME Sound, WritesSeen, KeySeen, NEW k \in DOMAIN flying, Serve(k)
  PROVE  WritesSeen' /\ KeySeen'
<1>0. /\ Len(flying) \in Nat /\ DOMAIN flying = 1 .. Len(flying)
      /\ \A j \in DOMAIN flying : flying[j] \in Loads
  BY DEF Sound, Typed
<1>1. /\ UNCHANGED <<page, server, shown, key, error, ops, behind>>
      /\ flying' = [flying EXCEPT ![k] = [flying[k] EXCEPT !.has = server]]
  BY <1>0 DEF Serve
<1>2. server \in SUBSET (0 .. MaxOps)
  BY ReadIsRead, BoundsAssumption DEF Sound
<1> DEFINE g == [flying[k] EXCEPT !.has = server]
<1>3. /\ DOMAIN flying' = DOMAIN flying
      /\ \A j \in DOMAIN flying : flying'[j] = IF j = k THEN g ELSE flying[j]
  BY <1>0, <1>1
<1>4. /\ \A i \in server : g \in Having(i)
      /\ \A l : flying[k] \in Keyed(l) => g \in Keyed(l)
      /\ g.late = flying[k].late /\ g.key = flying[k].key
  <2>. HIDE DEF g
  <2>1. ASSUME NEW i \in server PROVE g \in Having(i)
    BY <1>0, <1>2, GoodLoads DEF g
  <2>2. ASSUME NEW l PROVE flying[k] \in Keyed(l) => g \in Keyed(l)
    BY <1>0, <1>2, GoodLoads DEF g
  <2>3. g.late = flying[k].late
    BY <1>0, <1>2, GoodLoads DEF g
  <2>4. g.key = flying[k].key
    BY <1>0 DEF g, Loads
  <2>. QED BY <2>1, <2>2, <2>3, <2>4
<1>. HIDE DEF g
<1>5. \A j \in DOMAIN flying :
        /\ \A i \in server : flying[j] \in Having(i) => flying'[j] \in Having(i)
        /\ \A l : flying[j] \in Keyed(l) => flying'[j] \in Keyed(l)
        /\ flying[j].late => flying'[j].late
        /\ flying'[j].key = flying[j].key
  BY <1>3, <1>4
<1>7. WritesSeen'
  <2>1. ASSUME NEW i \in server, Reloading(i)' PROVE Sure(flying', Having(i), Seen(i)')
    <3>1. Sure(flying, Having(i), Seen(i)) /\ Seen(i)' = Seen(i)
      BY <1>1, <2>1 DEF WritesSeen, Reloading, Seen
    <3>. QED BY <1>3, <1>5, <3>1, SureSame
  <2>. QED BY <1>1, <2>1 DEF WritesSeen, Patched, Over, Seen
<1>8. KeySeen'
  <2>1. CASE page.keyed
    <3>1. Sure(flying', Keyed(key), shown.key = key \/ behind \/ shown = Nothing)
      BY <1>3, <1>5, <2>1, SureSame DEF KeySeen
    <3>2. page.guarded => Sure(flying', Keyed(key), shown.key = key \/ error \/ shown = Nothing)
      BY <1>3, <1>5, <2>1, SureSame DEF KeySeen
    <3>. QED BY <1>1, <2>1, <3>1, <3>2 DEF KeySeen
  <2>2. CASE ~page.keyed
    BY <1>1, <1>3, <1>5, <2>2 DEF KeySeen
  <2>. QED BY <2>1, <2>2
<1>. QED BY <1>7, <1>8


\* A load is answered or fails: what it brings is good, or seen to be old.
LEMMA TakeSeen ==
  ASSUME Sound, ReloadsTheList(page), WritesSeen, KeySeen,
         NEW k \in DOMAIN flying, Answer(k) \/ LoadFails(k)
  PROVE  WritesSeen' /\ KeySeen'
<1> DEFINE f == flying[k]
<1>0. /\ Typed /\ flying \in Seq(Loads) /\ f \in Loads
      /\ \A i, l : \A h \in Loads : /\ h \in Having(i) => [h EXCEPT !.late = TRUE] \in Having(i)
                                    /\ h \in Keyed(l) => [h EXCEPT !.late = TRUE] \in Keyed(l)
  <2>1. Typed /\ flying \in Seq(Loads) /\ f \in Loads
    BY DEF Sound, Typed
  <2>2. ASSUME NEW i, NEW l, NEW h \in Loads
        PROVE  /\ h \in Having(i) => [h EXCEPT !.late = TRUE] \in Having(i)
               /\ h \in Keyed(l) => [h EXCEPT !.late = TRUE] \in Keyed(l)
    <3>1. {} \in SUBSET (0 .. MaxOps)
      OBVIOUS
    <3>. QED BY <3>1, GoodLoads
  <2>. QED BY <2>1, <2>2
<1>1. /\ flying' = Left(k) /\ EndWaiting(f.by) /\ UNCHANGED <<page, server, key>>
  BY DEF Answer, LoadFails
<1>2. \/ Ignored(f) /\ UNCHANGED <<shown, behind, error>>
      \/ /\ ~Ignored(f) /\ f.has # NotYet /\ behind' = Older(f) /\ error' = error
         /\ shown' = [key |-> f.key, has |-> f.has]
      \/ /\ ~Ignored(f) /\ behind' = TRUE /\ error' = TRUE
         /\ shown' = shown \/ shown' = Nothing
  BY DEF Answer, LoadFails
<1>3. /\ Same /\ \A j \in DOMAIN ops : j # f.by => ops'[j] = ops[j]
      /\ f.by \in 0 .. MaxOps
  <2>1. f.by \in 0 .. MaxOps
    BY <1>0 DEF Loads
  <2>. QED BY <1>0, <1>1, <2>1, Waited
<1>4. Reads(f.has, f.by) /\ server \subseteq DOMAIN ops
  BY DEF Sound, Answered, Typed
<1>. HIDE DEF f
<1>5. WritesSeen'
  <2>1. ASSUME NEW i \in server, Reloading(i)' PROVE Sure(flying', Having(i), Seen(i)')
    <3>1. ~Ignored(f) /\ i \in DOMAIN ops
      BY <1>0, <1>4, NoWrites DEF Ignored
    <3>2. Reloading(i)
      <4>1. CASE i = f.by
        <5>1. i # 0
          BY <3>1 DEF Sound, Typed
        <5>. QED BY <1>4, <4>1, <5>1 DEF Reads, Reloading
      <4>2. CASE i # f.by
        BY <1>3, <2>1, <3>1, <4>2 DEF Reloading
      <4>. QED BY <4>1, <4>2
    <3>3. Sure(flying, Having(i), Seen(i))
      BY <3>2 DEF WritesSeen
    <3>4. \/ Coming(Left(k), Having(i))
          \/ NoneOld(Left(k), Having(i)) /\ (f \in Having(i) \/ f.late)
      BY <1>0, <3>3, SureLeft DEF f
    <3>5. f \in Having(i) \/ f.late => Seen(i)'
      <4>1. CASE behind' = TRUE
        BY <4>1 DEF Seen
      <4>2. CASE f.has # NotYet /\ behind' = Older(f) /\ shown' = [key |-> f.key, has |-> f.has]
        BY <4>2 DEF Seen, Older, Having, Awaits
      <4>. QED BY <1>2, <3>1, <4>1, <4>2
    <3>. QED BY <1>1, <3>4, <3>5 DEF Sure
  <2>2. ASSUME NEW i \in server, Patched(i)' PROVE Seen(i)'
    <3>1. ~Ignored(f) /\ i \in DOMAIN ops
      BY <1>0, <1>4, NoWrites DEF Ignored
    <3>2. i # f.by
      BY <1>3, <1>4, <2>2, <3>1 DEF Reads, Patched, Same, Sound, Typed
    <3>3. Patched(i)
      BY <1>3, <2>2, <3>1, <3>2 DEF Patched, Over
    <3>4. CASE behind' = TRUE
      BY <3>4 DEF Seen
    <3>5. CASE behind' = Older(f) /\ shown' = [key |-> f.key, has |-> f.has]
      BY <3>3, <3>5 DEF Seen, Older
    <3>. QED BY <1>2, <3>1, <3>4, <3>5
  <2>3. shown'.has \subseteq server
    BY <1>2, <1>4 DEF WritesSeen, Reads, Nothing
  <2>. QED BY <1>1, <2>1, <2>2, <2>3 DEF WritesSeen
<1>6. KeySeen'
  <2>1. CASE page.keyed
    <3>1. f \in Keyed(key) => f.key = key
      BY DEF Keyed
    <3>2. Ignored(f) <=> page.guarded /\ f.key # key
      BY DEF Ignored
    <3>3. Sure(flying', Keyed(key), shown'.key = key \/ behind' \/ shown' = Nothing)
      <4>1. Sure(flying, Keyed(key), shown.key = key \/ behind \/ shown = Nothing)
        BY <2>1 DEF KeySeen
      <4>2. \/ Coming(Left(k), Keyed(key))
            \/ /\ NoneOld(Left(k), Keyed(key))
               /\ f \in Keyed(key)
                  \/ (f.late /\ (shown.key = key \/ behind \/ shown = Nothing))
        BY <1>0, <4>1, SureLeft DEF f
      <4>3. CASE Ignored(f)
        BY <1>1, <1>2, <3>1, <3>2, <4>2, <4>3 DEF Sure
      <4>4. CASE behind' = TRUE
        BY <1>1, <4>2, <4>4 DEF Sure
      <4>5. CASE behind' = Older(f) /\ shown' = [key |-> f.key, has |-> f.has]
        <5>1. f.late => behind'
          BY <4>5 DEF Older
        <5>2. shown'.key = f.key
          BY <4>5
        <5>. QED BY <1>1, <3>1, <4>2, <5>1, <5>2 DEF Sure
      <4>. QED BY <1>2, <4>3, <4>4, <4>5
    <3>4. ASSUME page.guarded
          PROVE  Sure(flying', Keyed(key), shown'.key = key \/ error' \/ shown' = Nothing)
      <4>1. Sure(flying, Keyed(key), shown.key = key \/ error \/ shown = Nothing)
        BY <2>1, <3>4 DEF KeySeen
      <4>2. \/ Coming(Left(k), Keyed(key))
            \/ /\ NoneOld(Left(k), Keyed(key))
               /\ f \in Keyed(key)
                  \/ (f.late /\ (shown.key = key \/ error \/ shown = Nothing))
        BY <1>0, <4>1, SureLeft DEF f
      <4>3. CASE Ignored(f)
        BY <1>1, <1>2, <3>1, <3>2, <4>2, <4>3 DEF Sure
      <4>4. CASE error' = TRUE
        BY <1>1, <4>2, <4>4 DEF Sure
      <4>5. CASE ~Ignored(f) /\ shown' = [key |-> f.key, has |-> f.has]
        <5>1. shown'.key = key
          BY <3>2, <3>4, <4>5
        <5>. QED BY <1>1, <4>2, <5>1 DEF Sure
      <4>. QED BY <1>2, <4>3, <4>4, <4>5
    <3>. QED BY <1>1, <2>1, <3>3, <3>4 DEF KeySeen
  <2>2. CASE ~page.keyed
    <3>1. key = "all" /\ shown.key \in {"all", "nothing"}
          /\ (\A j \in DOMAIN flying : flying[j].key = "all")
          /\ (\A i \in DOMAIN ops : ops[i].with = "all")
      BY <2>2 DEF KeySeen
    <3>2. shown'.key \in {"all", "nothing"}
      BY <1>2, <3>1 DEF Nothing, f
    <3>3. \A i \in DOMAIN ops' : ops'[i].with = "all"
      BY <1>3, <3>1 DEF Same
    <3>4. \A j \in DOMAIN flying' : flying'[j].key = "all"
      <4>1. DOMAIN flying' = 1 .. Len(flying) - 1
            /\ \A j \in 1 .. Len(flying) - 1 :
                 /\ j < k => j \in DOMAIN flying /\ flying'[j].key = flying[j].key
                 /\ j >= k => j + 1 \in DOMAIN flying /\ flying'[j] = flying[j + 1]
        BY <1>0, <1>1, Taken
      <4>2. Len(flying) \in Nat /\ DOMAIN flying = 1 .. Len(flying)
        BY <1>0
      <4>3. \A j \in 1 .. Len(flying) - 1 : j < k \/ j >= k
        BY <4>2
      <4>. QED BY <3>1, <4>1, <4>3
    <3>. QED BY <1>1, <2>2, <3>1, <3>2, <3>3, <3>4 DEF KeySeen
  <2>. QED BY <2>1, <2>2
<1>. QED BY <1>5, <1>6


\* A write gets on.
LEMMA OperationSeen ==
  ASSUME Sound, ReloadsTheList(page), WritesSeen, KeySeen, NEW i \in DOMAIN ops, Operation(i)
  PROVE  WritesSeen' /\ KeySeen'
<1>0. /\ Typed /\ Same /\ (\A j \in DOMAIN ops : j # i => ops'[j] = ops[j])
      /\ ~page.keyed /\ ~page.guarded /\ ~page.eager /\ ops[i].with \in Keys
  BY NoWrites, OperationMoves, Element DEF Sound
<1>1. /\ key = "all" /\ shown.key \in {"all", "nothing"}
      /\ (\A j \in DOMAIN flying : flying[j].key = "all")
      /\ (\A j \in DOMAIN ops : ops[j].with = "all")
  BY <1>0 DEF KeySeen
<1>2. ASSUME key' = key, shown'.key = shown.key,
             flying' = flying \/ \E by \in 0 .. MaxOps : Sends(ops[i].with, by)
      PROVE  KeySeen'
  <2>1. \A j \in DOMAIN flying' : flying'[j].key = "all"
    <3>1. CASE flying' = flying
      BY <1>1, <3>1
    <3>2. ASSUME NEW by \in 0 .. MaxOps, Sends(ops[i].with, by)
          PROVE  \A j \in DOMAIN flying' : flying'[j].key = "all"
      <4>1. Load(ops[i].with, by) \in Loads /\ Load(ops[i].with, by).key = "all"
        BY <1>0, <1>1, NewLoad
      <4>. HIDE DEF Load
      <4>2. /\ DOMAIN flying' = 1 .. Len(flying) + 1
            /\ flying'[Len(flying) + 1] = Load(ops[i].with, by)
            /\ \A j \in DOMAIN flying : flying'[j] = flying[j]
            /\ DOMAIN flying = 1 .. Len(flying) /\ Len(flying) \in Nat
        BY <1>0, <3>2, <4>1, Sent DEF Sends, Typed
      <4>3. \A j \in 1 .. Len(flying) + 1 : j \in 1 .. Len(flying) \/ j = Len(flying) + 1
        BY <4>2
      <4>. QED BY <1>1, <4>1, <4>2, <4>3
    <3>. QED BY <1>2, <3>1, <3>2
  <2>. QED BY <1>0, <1>1, <1>2, <2>1 DEF KeySeen, Same
<1>3. CASE Commit(i)
  <2>1. /\ server' = server \cup {i} /\ UNCHANGED <<page, shown, key, flying, behind>>
        /\ ops'[i].at = "done"
    <3>1. /\ server' = server \cup {i} /\ UNCHANGED <<page, shown, key, flying, behind>>
          /\ ops' = [ops EXCEPT ![i].at = "done"] /\ ops[i].told \in Told /\ "done" \in Stages
      BY <1>0, <1>3, Element DEF Commit, Stages
    <3>2. ops'[i].at = "done"
      BY <1>0, <3>1, Moved
    <3>. QED BY <3>1, <3>2
  <2>2. ~Reloading(i)' /\ ~Patched(i)'
    BY <2>1 DEF Reloading, Patched, Over
  <2>3. server \subseteq DOMAIN ops /\ \A j \in server : j # i => ops'[j] = ops[j]
    BY <1>0 DEF Typed
  <2>4. WritesSeen'
    BY <2>1, <2>2, <2>3 DEF WritesSeen, Reloading, Patched, Over, Seen
  <2>. QED BY <1>2, <2>1, <2>4
<1>4. CASE Refuse(i) \/ ReturnRefused(i)
  <2>1. i \notin server /\ UNCHANGED <<page, server, shown, key, flying, behind>>
    BY <1>4 DEF Refuse, ReturnRefused, Sound, Answered
  <2>2. \A j \in server : ops'[j] = ops[j]
    BY <1>0, <2>1 DEF Typed
  <2>3. WritesSeen'
    BY <2>1, <2>2 DEF WritesSeen, Reloading, Patched, Over, Seen
  <2>. QED BY <1>2, <2>1, <2>3
<1>5. CASE Return(i)
  <2>1. /\ ops[i].at = "done" /\ i \in server /\ i \in 1 .. MaxOps
        /\ UNCHANGED <<page, server, key, behind, empty>>
        /\ \/ /\ ops[i].does.after \in {"reload", "restart", "later"} /\ shown' = shown
              /\ \E by \in 0 .. MaxOps : Sends(ops[i].with, by)
           \/ ops[i].does.after = "patch" /\ Patch(i) /\ flying' = flying
           \/ ops[i].does.after = "none" /\ shown' = shown /\ flying' = flying
    BY <1>5, Returned
  <2>2. server \subseteq DOMAIN ops /\ (\A j \in server : j # i => ops'[j] = ops[j])
        /\ ops'[i].does = ops[i].does
    BY <1>0 DEF Typed, Same
  <2>3. CASE /\ ops[i].does.after \in {"reload", "restart", "later"} /\ shown' = shown
             /\ \E by \in 0 .. MaxOps : Sends(ops[i].with, by)
    <3>1. \A j \in server : Sure(flying', Having(j), Seen(j)')
      BY <1>0, <2>3, SendsFresh
    <3>2. ASSUME NEW j \in server, Patched(j)' PROVE Seen(j)'
      <4>1. j # i
        BY <2>2, <2>3, <3>2 DEF Patched
      <4>2. Patched(j)
        BY <2>2, <3>2, <4>1 DEF Patched, Over
      <4>. QED BY <2>1, <2>3, <4>2 DEF WritesSeen, Seen
    <3>3. WritesSeen'
      BY <2>1, <2>3, <3>1, <3>2 DEF WritesSeen
    <3>. QED BY <1>2, <2>1, <2>3, <3>3
  <2>4. CASE ops[i].does.after = "patch" /\ Patch(i) /\ flying' = flying
    <3>1. /\ shown.has \subseteq shown'.has /\ shown'.has \subseteq shown.has \cup {i}
          /\ shown'.key = shown.key /\ (shown = Nothing => shown' = Nothing)
          /\ (Held => i \in shown'.has)
      BY <1>0, <2>1, <2>4, PatchKeeps
    <3>2. \A j : Seen(j) => Seen(j)'
      BY <2>1, <3>1 DEF Seen
    <3>3. Seen(i)'
      BY <1>0, <3>1 DEF Seen, Held, Typed
    <3>4. ASSUME NEW j \in server, Reloading(j)' PROVE Sure(flying', Having(j), Seen(j)')
      <4>1. j # i
        BY <2>2, <2>4, <3>4 DEF Reloading
      <4>2. Reloading(j)
        BY <2>2, <3>4, <4>1 DEF Reloading
      <4>. QED BY <2>4, <3>2, <4>2 DEF WritesSeen, Sure
    <3>5. ASSUME NEW j \in server, Patched(j)' PROVE Seen(j)'
      <4>1. CASE j # i
        <5>1. Patched(j)
          BY <2>2, <3>5, <4>1 DEF Patched, Over
        <5>. QED BY <3>2, <5>1 DEF WritesSeen
      <4>. QED BY <3>3, <4>1
    <3>6. WritesSeen'
      BY <2>1, <3>1, <3>4, <3>5 DEF WritesSeen
    <3>. QED BY <1>2, <2>1, <2>4, <3>1, <3>6
  <2>5. CASE ops[i].does.after = "none" /\ shown' = shown /\ flying' = flying
    <3>1. ~Reloading(i)' /\ ~Patched(i)'
      BY <2>2, <2>5 DEF Reloading, Patched
    <3>2. WritesSeen'
      BY <2>1, <2>2, <2>5, <3>1 DEF WritesSeen, Reloading, Patched, Over, Seen
    <3>. QED BY <1>2, <2>1, <2>5, <3>2
  <2>. QED BY <2>1, <2>3, <2>4, <2>5
<1>. QED BY <1>3, <1>4, <1>5 DEF Operation

LEMMA BeginSeen ==
  ASSUME Sound, ReloadsTheList(page), WritesSeen, KeySeen, NEW o \in Writes(page), Begin(o)
  PROVE  WritesSeen' /\ KeySeen'
<1> DEFINE n == Len(ops) + 1
           w == [does |-> o, at |-> "sent", told |-> "nothing", with |-> key]
<1>1. ~page.keyed /\ "mark" \notin o.starts
  BY DEF ReloadsTheList
<1>2. UNCHANGED <<page, server, shown, key, flying, behind>>
  BY <1>1 DEF Begin
<1>3. n \notin DOMAIN ops /\ DOMAIN ops' = DOMAIN ops \cup {n} /\ ops'[n] = w
      /\ \A j \in DOMAIN ops : ops'[j] = ops[j]
  BY Begun DEF Sound
<1>4. w.with = key /\ server \subseteq DOMAIN ops
  BY DEF Sound, Typed
<1>. HIDE DEF n, w
<1>5. \A j \in server : ops'[j] = ops[j]
  BY <1>3, <1>4
<1>6. WritesSeen'
  BY <1>2, <1>5 DEF WritesSeen, Reloading, Patched, Over, Seen
<1>7. \A j \in DOMAIN ops' : ops'[j].with = "all"
  BY <1>1, <1>3, <1>4 DEF KeySeen
<1>8. KeySeen'
  BY <1>1, <1>2, <1>7 DEF KeySeen
<1>. QED BY <1>6, <1>8

\* A load is sent or not, and the list is kept or given up.
LEMMA LoadSeen ==
  ASSUME Sound, ReloadsTheList(page), WritesSeen, KeySeen, NEW k \in Keys,
         UNCHANGED <<page, server, ops, behind>>, key' = k,
         shown' \in {shown, Nothing}, page.keyed \/ k = "all",
         \/ Sends(k, 0)
         \/ flying' = flying /\ k = key /\ (shown' = Nothing \/ error' = error)
         \/ flying' = flying /\ ~page.keyed
  PROVE  WritesSeen' /\ KeySeen'
<1>0. Typed /\ 0 \in 0 .. MaxOps
  BY BoundsAssumption DEF Sound
<1>1. \A j : Seen(j) => Seen(j)'
  BY DEF Seen
<1>2. WritesSeen'
  <2>1. \A j \in server : Reloading(j) => Sure(flying', Having(j), Seen(j)')
    <3>1. CASE Sends(k, 0)
      BY <1>0, <3>1, SendsFresh
    <3>2. CASE flying' = flying
      BY <1>1, <3>2 DEF WritesSeen, Sure
    <3>. QED BY <3>1, <3>2
  <2>. QED BY <1>1, <2>1 DEF WritesSeen, Reloading, Patched, Over, Nothing
<1>3. KeySeen'
  <2>1. CASE page.keyed
    <3>1. CASE Sends(k, 0)
      <4>1. \A ok : Sure(flying', Keyed(k), ok)
        BY <1>0, <3>1, SendsFresh
      <4>. QED BY <2>1, <4>1 DEF KeySeen
    <3>2. CASE flying' = flying /\ k = key /\ (shown' = Nothing \/ error' = error)
      BY <2>1, <3>2 DEF KeySeen, Sure
    <3>. QED BY <2>1, <3>1, <3>2
  <2>2. CASE ~page.keyed
    <3>1. shown'.key \in {"all", "nothing"}
      BY <2>2 DEF KeySeen, Nothing
    <3>2. \A j \in DOMAIN flying' : flying'[j].key = "all"
      <4>1. CASE flying' = flying
        BY <2>2, <4>1 DEF KeySeen
      <4>2. CASE Sends(k, 0)
        <5>1. Load(k, 0) \in Loads /\ Load(k, 0).key = "all"
          BY <1>0, <2>2, NewLoad
        <5>. HIDE DEF Load
        <5>2. /\ DOMAIN flying' = 1 .. Len(flying) + 1
              /\ flying'[Len(flying) + 1] = Load(k, 0)
              /\ \A j \in DOMAIN flying : flying'[j] = flying[j]
              /\ DOMAIN flying = 1 .. Len(flying) /\ Len(flying) \in Nat
          BY <1>0, <4>2, <5>1, Sent DEF Sends, Typed
        <5>3. \A j \in 1 .. Len(flying) + 1 : j \in 1 .. Len(flying) \/ j = Len(flying) + 1
          BY <5>2
        <5>. QED BY <2>2, <5>1, <5>2, <5>3 DEF KeySeen
      <4>. QED BY <4>1, <4>2
    <3>. QED BY <2>2, <3>1, <3>2 DEF KeySeen
  <2>. QED BY <2>1, <2>2
<1>. QED BY <1>2, <1>3


LEMMA AskSeen ==
  ASSUME Sound, ReloadsTheList(page), WritesSeen, KeySeen,
         LoadWhenEmpty \/ Poll \/ (\E k \in Keys : Choose(k)) \/ Retry \/ Refresh
  PROVE  WritesSeen' /\ KeySeen'
<1>1. Typed /\ 0 \in 0 .. MaxOps
  BY BoundsAssumption DEF Sound
<1>2. PICK kind, k : k \in Keys /\ Asks(kind, k) /\ (k = key \/ (page.keyed /\ kind = "plain"))
  BY <1>1, Asked
<1>3. Fetch(kind, k, 0, loading) /\ key' = k /\ UNCHANGED <<page, server, shown, ops, behind>>
  BY <1>2 DEF Asks
<1>4. loading \in BOOLEAN
  BY <1>1 DEF Typed
<1>5. \/ Dropped(kind, loading) /\ flying' = flying /\ error' = error
      \/ Sends(k, 0)
  BY <1>1, <1>2, <1>3, <1>4, Fetching
<1>6. page.keyed /\ kind = "plain" => ~Dropped(kind, loading)
  BY DEF ReloadsTheList, Dropped
<1>7. page.keyed \/ k = "all"
  BY <1>2 DEF KeySeen
<1>. QED BY <1>2, <1>3, <1>5, <1>6, <1>7, LoadSeen

LEMMA ReopenSeen ==
  ASSUME Sound, ReloadsTheList(page), WritesSeen, KeySeen, Reopen
  PROVE  WritesSeen' /\ KeySeen'
<1>1. Typed /\ "all" \in Keys
  BY DEF Sound, Keys
<1>2. /\ UNCHANGED <<page, server, ops, behind>> /\ key' = "all" /\ shown' \in {shown, Nothing}
      /\ \/ Sends("all", 0)
         \/ flying' = flying /\ (page.opens \in {"no", "none"} \/ Dropped(page.opens, loading))
  BY <1>1, Reopened DEF LoadsOnly
<1>3. page.keyed => page.opens \notin {"no", "none"} /\ ~Dropped(page.opens, loading)
  BY DEF ReloadsTheList, Dropped
<1>. QED BY <1>1, <1>2, <1>3, LoadSeen

Fresh == page.name \notin StalePages => WritesSeen /\ KeySeen

LEMMA FreshStep == ASSUME Sound, Filled, Fresh, [FormsNext]_vars PROVE Fresh'
<1>. SUFFICES ASSUME (page.name \notin StalePages)' PROVE (WritesSeen /\ KeySeen)'
  BY DEF Fresh
<1>0. page' = page /\ ReloadsTheList(page) /\ WritesSeen /\ KeySeen
  BY WritesStay, PageRules DEF Fresh, Sound, Typed
<1>1. CASE UNCHANGED pageVars
  BY <1>0, <1>1 DEF pageVars, WritesSeen, KeySeen, Reloading, Patched, Over, Seen
<1>2. CASE FormsNext
  <2>1. ASSUME NEW o, Begin(o), o \in page.ops \/ (form.open /\ o = page.form.save)
        PROVE  WritesSeen' /\ KeySeen'
    BY <1>0, <2>1, Writing, BeginSeen
  <2>2. LoadWhenEmpty \/ Poll \/ (\E k \in Keys : Choose(k)) \/ Retry \/ Refresh
        => WritesSeen' /\ KeySeen'
    BY <1>0, AskSeen
  <2>. QED BY <1>0, <1>1, <1>2, <2>1, <2>2, Steps, ServeSeen, TakeSeen, OperationSeen, ReopenSeen
<1>. QED BY <1>1, <1>2 DEF vars, pageVars

LEMMA FreshInit == FormsInit => Fresh
<1>. SUFFICES ASSUME FormsInit PROVE WritesSeen /\ KeySeen
  BY DEF Fresh
<1>1. /\ server = {} /\ shown = Nothing /\ key = "all" /\ ops = <<>>
      /\ flying = <<>> \/ flying = <<Load("all", 0)>>
  BY DEF FormsInit, Init
<1>2. "all" \in Keys
  BY DEF Keys
<1>3. \A k \in DOMAIN flying : flying[k].key = "all" /\ flying[k] \in Keyed("all")
  <2>1. Load("all", 0) \in Loads /\ Load("all", 0).key = "all"
    BY <1>2, NewLoad, BoundsAssumption
  <2>2. Load("all", 0) \in Keyed("all")
    BY <2>1 DEF Keyed
  <2>. HIDE DEF Load
  <2>. QED BY <1>1, <2>1, <2>2
<1>4. NoneOld(flying, Keyed(key))
  BY <1>1, <1>3 DEF NoneOld
<1>. QED BY <1>1, <1>3, <1>4 DEF WritesSeen, KeySeen, Sure, Nothing

\* On the pages that send every reload, whatever is answered in whatever order:
\* when nothing is on its way, the list is the one of the filter and has every
\* write the server took and no other, unless a load failed or came last that
\* is older than what was shown.
THEOREM RestIsFresh == FormsSpec => []FreshAtRest
<1>1. FormsInit => Sound /\ FormTyped /\ Fresh
  BY SoundInit, FormTypedInit, FreshInit
<1>2. Sound /\ FormTyped /\ Fresh /\ [FormsNext]_vars => (Sound /\ FormTyped /\ Fresh)'
  BY SoundStep, FormTypedStep, FreshStep DEF FormTyped
<1>3. Sound /\ Fresh => FreshAtRest
  <2>. SUFFICES ASSUME Sound, Fresh, Settled, shown # Nothing,
                       ~behind \/ (page.guarded /\ ~error), page.name \notin StalePages
                PROVE  shown.key = key /\ Listed \subseteq shown.has /\ shown.has \subseteq server
    BY DEF FreshAtRest
  <2>1. /\ flying = <<>> /\ (\A i \in DOMAIN ops : Over(i)) /\ WritesSeen /\ KeySeen
        /\ ReloadsTheList(page) /\ Typed
    BY PageRules DEF Settled, Fresh, Sound, Typed
  <2>2. \A G, ok : Sure(flying, G, ok) => ok
    BY <2>1 DEF Sure, Coming
  <2>3. shown.key = key
    BY <2>1, <2>2 DEF KeySeen, Lists, Typed, Keys
  <2>4. ASSUME NEW i \in server, ops[i].does.after # "none" PROVE i \in shown.has
    <3>1. i \in DOMAIN ops /\ ops[i].does \in Writes(page) /\ Over(i)
      BY <2>1, Element DEF Typed
    <3>2. ~page.guarded /\ ops[i].does.after \in {"patch", "reload", "restart", "later"}
      BY <2>1, <2>4, <3>1 DEF ReloadsTheList
    <3>3. Seen(i)
      BY <2>1, <2>2, <3>1, <3>2 DEF WritesSeen, Reloading, Patched, Over
    <3>. QED BY <3>2, <3>3 DEF Seen
  <2>. QED BY <2>1, <2>3, <2>4 DEF Listed, WritesSeen
<1>. QED BY <1>1, <1>2, <1>3, PTL DEF FormsSpec
=============================================================================
