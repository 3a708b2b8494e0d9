----------------------------- MODULE DashboardForms -----------------------------
(***************************************************************************)
(* The pages of DashboardPages together with the form some of them have:   *)
(* where its fields come from, whether another record can be chosen while  *)
(* a save or an upload is on its way, and what the answer of the save does *)
(* to it.                                                                  *)
(*                                                                         *)
(* A form is for the record rec, is filled with the stored content of the  *)
(* record of (0: with nothing), and shows the picture uploaded for pic.    *)
(***************************************************************************)
EXTENDS DashboardPages

VARIABLES form,    \* the form
          up,      \* the record an upload under way was started for, or 0
          sent     \* history: what the saves sent

vars == <<page, server, shown, key, query, flying, loading, error, ops, fails, behind, empty,
          form, up, sent>>

Records == {1, 2}

Closed      == [open |-> FALSE, rec |-> 0, of |-> 0, pic |-> 0, typed |-> FALSE]
Opened(r, content) == [open |-> TRUE, rec |-> r, of |-> content, pic |-> 0, typed |-> FALSE]

\* Mutant: the form is opened before its record is there.
EnteredBlank(held) ==
  CASE page.form.fills = "blank" -> Opened(1, 1)
    [] page.form.fills \in {"late", "store"}  -> Opened(1, 0)
    [] page.form.fills \in {"mirror", "follow"} -> Opened(1, IF held THEN 1 ELSE 0)
    [] OTHER -> Closed

\* The form of a page that has just been entered, with or without a list at
\* hand.  A page that fills its form from a store that holds nothing sends the
\* user away.
Entered(held) ==
  CASE page.form.fills = "blank" -> Opened(1, 1)
    [] page.form.fills = "late"  -> Opened(1, 0)
    [] page.form.fills \in {"mirror", "follow"} -> Opened(1, IF held THEN 1 ELSE 0)
    [] page.form.fills = "store" -> IF held THEN Opened(1, 1) ELSE Closed
    [] OTHER -> Closed

FormsInit == Init /\ form = Entered(FALSE) /\ up = 0 /\ sent = {}

IsSave(i)    == page.form.fills # "none" /\ ops[i].does = page.form.save
SavingNow(r) == \E s \in sent : s.rec = r /\ ~Over(s.op)

-----------------------------------------------------------------------------
(* What the page's steps do to the form *)

\* Mutant: an editor follows the polled record although it is being edited.
RefilledWhileEditing(applied) ==
  /\ form.open
  /\ \/ page.form.fills = "late" /\ applied /\ form.of = 0
     \/ page.form.fills \in {"mirror", "select"} /\ applied
     \/ page.form.fills = "follow" /\ shown' # Nothing /\ (applied \/ loading' # loading)

\* "late": the one load fills the form.  "mirror": every new list does.
\* "follow": so does every change of isLoading.
Refilled(applied) ==
  /\ form.open
  /\ \/ page.form.fills = "late" /\ applied /\ form.of = 0
     \/ page.form.fills = "mirror" /\ applied
     \/ page.form.fills = "follow" /\ shown' # Nothing /\ (applied \/ loading' # loading)

\* The saves a step brings to their end.
Ended == {s \in sent : ~Over(s.op) /\ ops'[s.op].at = "over" /\ s.op \in server}

\* The next record of the list that has not been reviewed, or the same again.
NextPending(r) ==
  IF \A q \in Records : \E s \in sent : s.rec = q THEN r
  ELSE CHOOSE q \in Records : \A s \in sent : s.rec # q

AfterSave(s) ==
  CASE page.form.done \in {"leave", "close"} -> Closed
    [] page.form.done = "refill" -> Opened(s.rec, s.rec)
    [] page.form.done = "clear"  -> Opened(1, 1)
    [] page.form.done = "next" /\ NextPending(s.rec) # form.rec ->
         Opened(NextPending(s.rec), NextPending(s.rec))
    [] OTHER -> IF form.rec = s.rec THEN [form EXCEPT !.typed = FALSE] ELSE form

FormFollows(applied) ==
  /\ form' = IF Ended # {} THEN AfterSave(CHOOSE s \in Ended : TRUE)
             ELSE IF Refilled(applied) THEN Opened(form.rec, form.rec)
             ELSE form
  /\ UNCHANGED <<up, sent>>

PageStep ==
  \/ \E i \in DOMAIN flying : Answer(i) /\ FormFollows(~Ignored(flying[i]))
  \/ \E i \in DOMAIN flying : (Serve(i) \/ LoadFails(i)) /\ FormFollows(FALSE)
  \/ \E i \in DOMAIN ops : Operation(i) /\ FormFollows(FALSE)
  \/ (LoadWhenEmpty \/ Poll) /\ FormFollows(FALSE)

Click ==
  \/ \E o \in page.ops : Begin(o) /\ FormFollows(FALSE)
  \/ (\E k \in Keys : Choose(k)) /\ FormFollows(FALSE)
  \/ (Retry \/ Refresh) /\ FormFollows(FALSE)

ComeBack ==
  /\ Reopen /\ up = 0
  /\ form' = Entered(shown' # Nothing)
  /\ UNCHANGED <<up, sent>>

-----------------------------------------------------------------------------
(* The user at the form *)

\* A record is chosen from the list: its content is copied into the form.
Pick(r) ==
  /\ page.form.fills = "select" /\ Held /\ Offered
  /\ form.open => page.form.switches
  /\ form' = Opened(r, r)
  /\ UNCHANGED <<pageVars, up, sent>>

CloseForm ==
  /\ page.form.fills = "select" /\ form.open /\ ~SavingNow(form.rec)
  /\ form' = Closed
  /\ UNCHANGED <<pageVars, up, sent>>

\* The user does not type into a record that is being saved.
Type ==
  /\ form.open /\ ~form.typed /\ ~SavingNow(form.rec)
  /\ form' = [form EXCEPT !.typed = TRUE]
  /\ UNCHANGED <<pageVars, up, sent>>

Upload ==
  /\ form.open /\ page.form.upload # "none" /\ up = 0
  /\ up' = form.rec
  /\ UNCHANGED <<pageVars, form, sent>>

\* The answer is put into whatever the form holds by now.
UploadDone ==
  /\ up # 0
  /\ form' = IF form.open THEN [form EXCEPT !.pic = up] ELSE form
  /\ up' = 0
  /\ UNCHANGED <<pageVars, sent>>

\* A form that was never filled has required fields: something has been typed.
Save ==
  /\ form.open
  /\ form.of = 0 => form.typed
  /\ page.form.upload = "blocks" => up = 0
  /\ Begin(page.form.save)
  /\ sent' = sent \cup {[op |-> Len(ops) + 1, rec |-> form.rec, of |-> form.of, pic |-> form.pic]}
  /\ form' = IF Refilled(FALSE) THEN Opened(form.rec, form.rec) ELSE form
  /\ UNCHANGED up

FormStep == (\E r \in Records : Pick(r)) \/ CloseForm \/ Type \/ Upload \/ Save

FormsNext == PageStep \/ Click \/ ComeBack \/ FormStep \/ UploadDone

\* Every request is answered sooner or later; nobody has to use the page.
Fairness ==
  /\ WF_vars(\E i \in DOMAIN flying : Serve(i) /\ FormFollows(FALSE))
  /\ WF_vars(\E i \in DOMAIN flying : Answer(i) /\ FormFollows(~Ignored(flying[i])))
  /\ WF_vars(\E i \in DOMAIN ops : Operation(i) /\ FormFollows(FALSE))
  /\ WF_vars(LoadWhenEmpty /\ FormFollows(FALSE))
  /\ WF_vars(UploadDone)

FormsSpec == FormsInit /\ [][FormsNext]_vars /\ Fairness

-----------------------------------------------------------------------------
(* Properties *)

\* Every variable keeps its type: what the user is told is one of three things.
FormsTypeOK ==
  /\ TypeOK
  /\ form.rec \in Records \cup {0} /\ form.of \in Records \cup {0}
  /\ up \in Records \cup {0}
  /\ \A i \in DOMAIN ops : ops[i].told \in {"nothing", "success", "failure"}

\* Pages whose list may stay wrong although nothing is on its way: the store of
\* the users drops even the reload after a write while a load is under way, the
\* catalogue drops the filter chosen meanwhile, two tables reload with the
\* filter of the click, and the marks of three pages stay when the write fails.
StalePages ==
  {"AdminUsers", "AdminForm", "AdminCatalog", "AdminPixelCampaigns", "AdminWaBlastContacts",
   "AdminAgents", "PicRaportMaster", "OwnerRaport"}

\* The committed writes that belong into the list.
Listed == {i \in server : ops[i].does.after # "none"}

\* When nothing is on its way, the list is the one of the selected filter and
\* has every write the server took and no other, unless a load failed or an
\* older answer came last; an effect with a cleanup is safe from the latter too.
FreshAtRest ==
  Settled /\ ~loading /\ shown # Nothing /\ (~behind \/ (page.guarded /\ ~error))
    /\ page.name \notin StalePages
    => shown.key = key /\ Listed \subseteq shown.has /\ shown.has \subseteq server

\* Pages that report a success without looking at the answer, or whose reload
\* may be dropped.
BlindPages ==
  {"AdminCareers", "AdminWaBlastContacts", "PicRaportMaster", "KaryawanRaport", "AdminUsers",
   "AdminForm"}

InList(i) == ops[i].does.after \notin {"none", "later", "last"}

\* When the user is told of a success, the server has taken the write, and the
\* list on the screen has it if the page waits for its list.
SuccessIsShown ==
  [][page.name \notin BlindPages =>
       \A i \in DOMAIN ops : ops[i].told # "success" /\ ops'[i].told = "success"
         => i \in server /\ (InList(i) /\ ~error' /\ shown' # Nothing => i \in shown'.has)]_vars

\* Pages that replace what is typed by an answer.
OverwritingPages ==
  {"AdminForm", "AdminProductForm", "AdminPixelCampaignForm", "AdminLandingSlides",
   "PicRaportDashboard"}

\* What the user has typed goes when the user gives it up or when it is saved,
\* never because an answer arrives or a request fails.
EditsKept ==
  [][page.name \notin OverwritingPages /\ form.typed /\ ~form'.typed
     => \/ ComeBack \/ CloseForm \/ \E r \in Records : Pick(r)
        \/ \E s \in sent : s.rec = form.rec /\ s.op \in server]_vars

\* Pages that may save one record with the content or the picture of another,
\* or with none.
MixingPages == {"AdminForm", "AdminProductForm", "AdminPixelCampaignForm", "AdminLandingSlides"}

\* A save writes the content and the picture of its own record.
WholeRecord ==
  page.name \notin MixingPages =>
    \A s \in sent : s.of = s.rec /\ s.pic \in {0, s.rec}

\* Pages that start no load of their own, or not after a failed one.
DeadEnds ==
  {"AdminUsers", "AdminPromo", "AdminContent", "AgentKnowledge", "Catalog", "Home", "ProductDetail"}

Stuck == page.opens # "none" /\ (shown = Nothing \/ (error /\ "error" \in page.hides))

\* A user who comes back to a page that shows nothing gets its list in the end.
Recovers ==
  page.name \notin DeadEnds =>
    (WF_vars(ComeBack) /\ <>[][~(Click \/ FormStep)]_vars => []<>~Stuck)

\* Pages that poll, that ask for an empty list again and again, or that leave
\* isLoading set.
RestlessPages == {"AgentEarnings"}

\* When the user leaves the page alone, its requests and its spinner end.
ComesToRest ==
  ~page.polls /\ ~(page.eager /\ empty) /\ page.name \notin RestlessPages =>
    (<>[][~(Click \/ ComeBack \/ FormStep)]_vars => []<>(Settled /\ ~loading))

-----------------------------------------------------------------------------
(* What the pages outside the exceptions have in common.  The properties   *)
(* follow from it whatever else a page chooses.                            *)

Writes(p) == p.ops \cup (IF p.form.fills = "none" THEN {} ELSE {p.form.save})

\* No write marks the list before its answer, every reload is sent, a list with
\* a filter is never kept from before, and its page writes nothing.
ReloadsTheList(p) ==
  /\ \A o \in Writes(p) :
       /\ "mark" \notin o.starts
       /\ o.after \in {"none", "patch", "reload", "restart", "later"}
       /\ o.after \in {"reload", "later"} => "forced" \notin p.store.drops
  /\ Writes(p) # {} => ~p.keyed /\ ~p.guarded /\ ~p.eager
  /\ p.keyed => /\ p.store.drops = {} /\ ~p.store.caches /\ ~p.store.shy
                /\ p.opens \in {"plain", "forced"}

\* The answer is looked at, and a reload that is waited for is sent.
LooksAtTheAnswer(p) ==
  /\ \A o \in Writes(p) :
       /\ o.says # "always"
       /\ o.after \in {"none", "patch", "reload", "restart", "later", "last"}
       /\ o.after = "reload" => "forced" \notin p.store.drops
  /\ Writes(p) # {} => ~p.guarded /\ ~p.eager

\* The form is filled once, for one record at a time, and saved under a lock.
FillsOnce(p) ==
  /\ p.form.fills \in {"none", "blank", "store", "select"}
  /\ p.form.fills # "none" => p.form.save.lock \notin {"free", "flag"}
  /\ p.form.fills = "select" => ~p.form.switches

\* The form is filled once, and a picture belongs to a form with one record.
FillsWhole(p) ==
  /\ p.form.fills \in {"none", "blank", "store", "select"}
  /\ p.form.fills # "none" /\ p.form.upload # "none" =>
       p.form.fills \in {"blank", "store"} /\ p.form.done # "next"

ASSUME PageRules ==
  \A p \in Pages :
    /\ p.name \notin StalePages => ReloadsTheList(p)
    /\ p.name \notin BlindPages => LooksAtTheAnswer(p)
    /\ p.name \notin OverwritingPages => FillsOnce(p)
    /\ p.name \notin MixingPages => FillsWhole(p)
=============================================================================
