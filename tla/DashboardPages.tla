----------------------------- MODULE DashboardPages -----------------------------
(***************************************************************************)
(* What every page of the web front end does with the server: it loads a   *)
(* list into a store (zustand) or into its own state, shows it, sends      *)
(* writes, and reloads or patches the list when a write is answered.       *)
(*                                                                         *)
(* The requests of a page are not ordered: a load may be answered after a  *)
(* later one, or between a write and the reload the write causes.  Whether *)
(* the user still sees what was written, sees the filter that is selected, *)
(* and gets out of a failed load, depends on a handful of choices each     *)
(* store and each page makes; the module PageTable has them, page by page. *)
(*                                                                         *)
(* The server's data is the set of the page's writes that it has           *)
(* committed.  A page that shows several lists of one store is one list.   *)
(***************************************************************************)
EXTENDS Naturals, Sequences, FiniteSets

CONSTANTS Pages,       \* the pages: records of PageTable
          MaxOps,      \* bound: writes per behaviour
          MaxFlying,   \* bound: loads under way at one time
          MaxFails     \* bound: requests the server refuses or the network loses

ASSUME BoundsAssumption == /\ MaxOps \in Nat /\ MaxFlying \in Nat \ {0}
                           /\ MaxFails \in Nat

VARIABLES page,      \* the page that is open
          server,    \* the writes the server has committed
          shown,     \* the list held: its filter and the writes it contains
          key,       \* the filter selected in the page
          query,     \* lastQuery: the filter of the last load sent
          flying,    \* the loads under way, in the order they were sent
          loading,   \* isLoading
          error,     \* error # null: the last load or write failed
          ops,       \* the writes: what, how far, what the user was told
          fails,     \* refusals so far
          behind,    \* history: the list held is older than one it replaced
          empty      \* the server's list has no row

pageVars == <<page, server, shown, key, query, flying, loading, error, ops, fails, behind, empty>>

Keys    == {"all", "one"}
Nothing == [key |-> "nothing", has |-> {}]
NotYet  == {0}                           \* a load the server has not read for

Load(k, by) == [key |-> k, by |-> by, has |-> NotYet, late |-> FALSE]

TypeOK ==
  /\ page \in Pages
  /\ server \subseteq 1 .. MaxOps
  /\ shown.key \in Keys \cup {"nothing"} /\ shown.has \subseteq 1 .. MaxOps
  /\ key \in Keys /\ query \in Keys
  /\ Len(flying) <= MaxFlying
  /\ \A i \in DOMAIN flying : flying[i].key \in Keys /\ flying[i].by \in 0 .. MaxOps
  /\ loading \in BOOLEAN /\ error \in BOOLEAN /\ behind \in BOOLEAN /\ empty \in BOOLEAN
  /\ Len(ops) <= MaxOps
  /\ \A i \in DOMAIN ops : ops[i].at \in {"sent", "done", "refused", "reloading", "over"}
  /\ fails \in 0 .. MaxFails

\* A page has just been entered for the first time: its list is on its way.
\* The pages that load nothing themselves ("no") show what App loads at the
\* start; those without a list are "none".
Init ==
  /\ page \in Pages
  /\ server = {} /\ shown = Nothing /\ key = "all" /\ query = "all"
  /\ flying = IF page.opens = "none" THEN <<>> ELSE <<Load("all", 0)>>
  /\ loading = (flying # <<>> /\ ~page.store.quiet) /\ error = FALSE
  /\ ops = <<>> /\ fails = 0 /\ behind = FALSE
  /\ empty \in (IF page.eager THEN BOOLEAN ELSE {FALSE})

Over(i)  == ops[i].at = "over"
Settled  == flying = <<>> /\ \A i \in DOMAIN ops : Over(i)
Held     == shown # Nothing /\ ~empty

-----------------------------------------------------------------------------
(* Loads *)

\* Mutant: a store asks only once, whether it got an answer or not.
DroppedOnceAsked(kind, busy) ==
  \/ busy /\ kind \in page.store.drops
  \/ kind = "plain" /\ page.store.caches

\* The early returns at the head of a store's fetch; busy is isLoading there.
Dropped(kind, busy) ==
  \/ busy /\ kind \in page.store.drops
  \/ kind = "plain" /\ page.store.caches /\ Held
  \/ kind = "plain" /\ page.store.shy /\ error
  \/ kind = "absent" /\ Held                     \* the page asks only for a missing list

\* A load that is not dropped sets isLoading, clears the error and is sent.
Fetch(kind, k, by, busy) ==
  IF Dropped(kind, busy)
  THEN flying' = flying /\ query' = query /\ loading' = busy /\ error' = error
  ELSE /\ Len(flying) < MaxFlying
       /\ flying' = Append(flying, Load(k, by))
       /\ query' = k /\ loading' = (busy \/ ~page.store.quiet) /\ error' = FALSE

Serve(i) ==
  /\ flying[i].has = NotYet
  /\ flying' = [flying EXCEPT ![i].has = server]
  /\ UNCHANGED <<page, server, shown, key, query, loading, error, ops, fails, behind, empty>>

\* The loads left when the i-th is answered; those sent before it are late now.
Left(i) ==
  [j \in 1 .. Len(flying) - 1 |->
     IF j < i THEN [flying[j] EXCEPT !.late = TRUE] ELSE flying[j + 1]]

\* Mutant: what is shown depends on the operation alone.
TellSays(o) == o.says

Tell(o) == IF o.says = "silent" THEN "nothing" ELSE "success"

\* Mutant: a failed write is reported like the others.
TellAnyway(o) == "success"

TellRefused(o) ==
  CASE o.says = "always"  -> "success"
    [] o.says = "checked" -> "failure"
    [] OTHER              -> "nothing"

\* A write that waits for a reload is over when the reload is.
EndWaiting(by) ==
  ops' = [i \in DOMAIN ops |->
            IF i = by THEN [ops[i] EXCEPT !.at = "over", !.told = Tell(ops[i].does)] ELSE ops[i]]

\* Mutant: no effect has a cleanup.
IgnoredNever(f) == FALSE

\* The cleanup of an effect: the answer for an earlier filter is thrown away.
Ignored(f) == page.guarded /\ f.key # key

\* An answer that was read before a write that is already in the list, or that
\* was put there by its own answer.
Patched(i) == Over(i) /\ ops[i].does.after = "patch"
Older(f) ==
  f.late \/ ~(shown.has \cup {i \in server : Patched(i)} \subseteq f.has)

Answer(i) ==
  LET f == flying[i] IN
  /\ f.has # NotYet
  /\ flying' = Left(i)
  /\ EndWaiting(f.by)
  /\ IF Ignored(f)
     THEN UNCHANGED <<shown, loading, behind>>
     ELSE /\ shown' = [key |-> f.key, has |-> f.has]
          /\ loading' = (loading /\ page.store.quiet)
          /\ behind' = Older(f)
  /\ UNCHANGED <<page, server, key, query, error, fails, empty>>

LoadFails(i) ==
  /\ fails < MaxFails
  /\ flying' = Left(i)
  /\ EndWaiting(flying[i].by)
  /\ IF Ignored(flying[i])
     THEN UNCHANGED <<shown, loading, error, behind>>
     ELSE /\ shown' = IF page.store.empties THEN Nothing ELSE shown
          /\ loading' = (loading /\ page.store.quiet) /\ error' = TRUE /\ behind' = TRUE
  /\ fails' = fails + 1
  /\ UNCHANGED <<page, server, key, query, empty>>

-----------------------------------------------------------------------------
(* Writes *)

Offered == ~("loading" \in page.hides /\ loading) /\ ~("error" \in page.hides /\ error)

\* A control is disabled by a flag of its own or by the store's isLoading.
Locked(o) ==
  \/ o.lock = "flag" /\ loading
  \/ o.lock \notin {"free", "flag"} /\ \E i \in DOMAIN ops : ~Over(i) /\ ops[i].does.lock = o.lock

Begin(o) ==
  /\ Len(ops) < MaxOps
  /\ Offered /\ ~Locked(o) /\ (o.row => Held)
  /\ ops' = Append(ops, [does |-> o, at |-> "sent", told |-> "nothing", with |-> key])
  /\ loading' = (loading \/ "spin" \in o.starts)
  /\ error' = (error /\ "clear" \notin o.starts)
  /\ shown' = IF "mark" \in o.starts /\ Held
              THEN [shown EXCEPT !.has = @ \cup {Len(ops) + 1}] ELSE shown
  /\ UNCHANGED <<page, server, key, query, flying, fails, behind, empty>>

Commit(i) ==
  /\ ops[i].at = "sent"
  /\ server' = server \cup {i}
  /\ ops' = [ops EXCEPT ![i].at = "done"]
  /\ UNCHANGED <<page, shown, key, query, flying, loading, error, fails, behind, empty>>

Refuse(i) ==
  /\ ops[i].at = "sent" /\ fails < MaxFails
  /\ ops' = [ops EXCEPT ![i].at = "refused"]
  /\ fails' = fails + 1
  /\ UNCHANGED <<page, server, shown, key, query, flying, loading, error, behind, empty>>

Finish(i) == ops' = [ops EXCEPT ![i].at = "over", ![i].told = Tell(ops[i].does)]

\* Mutant: a dropped reload is waited for.
ReloadAwaited(i, kind, k, busy) ==
  /\ Fetch(kind, k, i, busy)
  /\ ops' = [ops EXCEPT ![i].at = "reloading"]
  /\ UNCHANGED shown

\* The reload a write causes, and whether the write waits for it.
Reload(i, kind, k, busy) ==
  /\ Fetch(kind, k, i, busy)
  /\ IF Dropped(kind, busy) THEN Finish(i) ELSE ops' = [ops EXCEPT ![i].at = "reloading"]
  /\ UNCHANGED shown

Patch(i) == shown' = IF Held THEN [shown EXCEPT !.has = @ \cup {i}] ELSE shown

\* The answer of a committed write.  The handler's closure reloads with the
\* filter that was selected when the write was sent.
After(i, after) ==
  CASE after = "reload"  -> Reload(i, "forced", ops[i].with, loading)
    [] after = "restart" -> Reload(i, "forced", ops[i].with, FALSE)     \* isLoading reset first
    [] after = "later"   -> Fetch("forced", ops[i].with, 0, loading) /\ Finish(i) /\ UNCHANGED shown
    [] after = "last"    -> Fetch("plain", query, 0, FALSE) /\ Finish(i) /\ UNCHANGED shown
    [] after = "patch"   -> Patch(i) /\ Finish(i) /\ UNCHANGED <<query, flying, loading, error>>
    [] OTHER             -> Finish(i) /\ UNCHANGED <<shown, query, flying, loading, error>>

Return(i) ==
  /\ ops[i].at = "done"
  /\ After(i, ops[i].does.after)
  /\ UNCHANGED <<page, server, key, fails, behind, empty>>

ReturnRefused(i) ==
  LET o == ops[i].does IN
  /\ ops[i].at = "refused"
  /\ ops' = [ops EXCEPT ![i].at = "over", ![i].told = TellRefused(o)]
  /\ loading' = (loading /\ "unspin" \notin o.fails)
  /\ error' = (error \/ "error" \in o.fails)
  /\ UNCHANGED <<page, server, shown, key, query, flying, fails, behind, empty>>

-----------------------------------------------------------------------------
(* The user, and what the page does by itself *)

Choose(k) ==
  /\ page.keyed /\ k # key
  /\ key' = k
  /\ Fetch("plain", k, 0, loading)
  /\ UNCHANGED <<page, server, shown, ops, fails, behind, empty>>

\* The button of the error box.
Retry ==
  /\ page.retry # "no" /\ error /\ ~loading
  /\ Fetch(page.retry, key, 0, loading)
  /\ UNCHANGED <<page, server, shown, key, ops, fails, behind, empty>>

\* A reload button that is always there.
Refresh ==
  /\ page.refresh = "free" \/ (page.refresh = "flag" /\ ~loading)
  /\ Fetch("forced", key, 0, loading)
  /\ UNCHANGED <<page, server, shown, key, ops, fails, behind, empty>>

Poll ==
  /\ page.polls
  /\ Fetch("forced", key, 0, loading)
  /\ UNCHANGED <<page, server, shown, key, ops, fails, behind, empty>>

\* An effect that loads whenever the list is empty and nothing is loading.
LoadWhenEmpty ==
  /\ page.eager /\ ~Held /\ ~loading
  /\ Fetch("plain", key, 0, loading)
  /\ UNCHANGED <<page, server, shown, key, ops, fails, behind, empty>>

\* The user leaves the settled page and comes back; a store keeps its data,
\* a page's own state is gone.
Reopen ==
  LET held == IF page.store.own THEN Nothing ELSE shown
      busy == IF page.store.own THEN FALSE ELSE loading IN
  /\ Settled
  /\ key' = "all"
  /\ shown' = held
  /\ IF page.opens \in {"no", "none"} THEN UNCHANGED <<query, flying, loading, error>>
     ELSE IF page.store.own
     THEN flying' = <<Load("all", 0)>> /\ query' = "all" /\ loading' = TRUE /\ error' = FALSE
     ELSE Fetch(page.opens, "all", 0, busy)
  /\ UNCHANGED <<page, server, ops, fails, behind, empty>>

-----------------------------------------------------------------------------
UserStep ==
  \/ \E o \in page.ops : Begin(o)
  \/ \E k \in Keys : Choose(k)
  \/ Retry \/ Refresh \/ Reopen

Network(i) == Serve(i) \/ Answer(i) \/ LoadFails(i)
Operation(i) == Commit(i) \/ Refuse(i) \/ Return(i) \/ ReturnRefused(i)

Next ==
  \/ UserStep \/ Poll \/ LoadWhenEmpty
  \/ \E i \in DOMAIN flying : Network(i)
  \/ \E i \in DOMAIN ops : Operation(i)

Spec == Init /\ [][Next]_pageVars
=============================================================================
