--------------------------- MODULE CampaignPromise ---------------------------
(***************************************************************************)
(* What a campaign that one user starts, and may delete, promises, without *)
(* queues, workers, retries or handlers. A send begins while the campaign  *)
(* runs, for a recipient whose row is pending and to whom no other send is *)
(* under way; the row becomes sent only if the recipient has the message,  *)
(* and failed, where a send that is reported failed has not arrived, only  *)
(* if not; a row that is settled stays so but for its deletion; the        *)
(* campaign is completed when no row is pending, and no send begins from   *)
(* then on.                                                                *)
(***************************************************************************)
EXTENDS Naturals

CONSTANTS
  Recipients,
  Attempts,   \* sends to one recipient, if all but the last fail
  Most,       \* bound: more copies are not told apart
  Sure        \* a send that is reported failed has not arrived

VARIABLES
  picture,    \* the campaign has a picture, which is never sent again
  status,     \* "draft", "running", "completed" or "deleted"
  row,        \* "pending", "sent", "failed" or "deleted", one per recipient
  sending,    \* the recipients to whom a send is under way
  copies      \* how often the message arrived

vars == <<picture, status, row, sending, copies>>

Init ==
  /\ picture \in BOOLEAN /\ status = "draft"
  /\ row = [r \in Recipients |-> "pending"]
  /\ sending = {} /\ copies = [r \in Recipients |-> 0]

Launch ==
  /\ status = "draft" /\ status' = "running"
  /\ UNCHANGED <<picture, row, sending, copies>>

Begin(r) ==
  /\ status = "running" /\ row[r] = "pending" /\ r \notin sending
  /\ sending' = sending \cup {r}
  /\ UNCHANGED <<picture, status, row, copies>>

\* A picture arrives once; a text again only after a send that was reported failed.
Allowed == IF picture \/ Sure THEN 1 ELSE Attempts

Arrive(r) ==
  /\ r \in sending /\ copies[r] < Allowed
  /\ sending' = sending \ {r}
  /\ copies' = [copies EXCEPT ![r] = IF @ < Most THEN @ + 1 ELSE @]
  /\ UNCHANGED <<picture, status, row>>

Miss(r) ==
  /\ r \in sending /\ sending' = sending \ {r}
  /\ UNCHANGED <<picture, status, row, copies>>

Settle(r, to) ==
  /\ row[r] = "pending" /\ r \notin sending
  /\ row' = [row EXCEPT ![r] = to]
  /\ UNCHANGED <<picture, status, sending, copies>>

Succeed(r) == copies[r] > 0 /\ Settle(r, "sent")

GiveUp(r) == (Sure => copies[r] = 0) /\ Settle(r, "failed")

Complete ==
  /\ status = "running" /\ \A r \in Recipients : row[r] # "pending"
  /\ status' = "completed"
  /\ UNCHANGED <<picture, row, sending, copies>>

DeleteRows(R) == row' = [r \in Recipients |-> IF r \in R THEN "deleted" ELSE row[r]]

\* What is under way when its row goes may still arrive.
Delete ==
  /\ \/ \E R \in SUBSET Recipients : DeleteRows(R) /\ status' = status
     \/ DeleteRows(Recipients) /\ status' = "deleted"
  /\ UNCHANGED <<picture, sending, copies>>

Next ==
  \/ Launch \/ Complete \/ Delete
  \/ \E r \in Recipients : Begin(r) \/ Arrive(r) \/ Miss(r) \/ Succeed(r) \/ GiveUp(r)

Spec == Init /\ [][Next]_vars
=============================================================================
