---------------------------- MODULE NoticeOutbox ----------------------------
(***************************************************************************)
(* The notice outbox: emails queued by transitions, composed by analysts   *)
(* with attached files, or sent again, and the dispatchers, one per        *)
(* replica, that claim them, hand them to the mail relay and record the    *)
(* outcome.  A claim pushes a notice's next attempt into the future; while *)
(* that lease runs nobody else claims it.  Letters never enter the outbox, *)
(* and of the time a lease lasts only its end matters.                     *)
(***************************************************************************)
EXTENDS Naturals, Sequences, FiniteSets

CONSTANTS
  Dispatchers,  \* the replicas' dispatchers
  Files,        \* files an analyst may upload
  Batch,        \* how many notices one claim takes
  MaxNotices,   \* bound: emails ever queued
  MaxFaults     \* bound: crashes, lost finishes, acceptances not heard, and
                \* leases that run out under a delivery

ASSUME OutboxAssumption ==
  /\ IsFiniteSet(Dispatchers)
  /\ Batch \in Nat \ {0} /\ MaxNotices \in Nat /\ MaxFaults \in Nat

VARIABLES
  notices,   \* id -> row; ids are assigned in order
  files,     \* file -> its status, and the notice that claimed it, 0 for none
  disp,      \* dispatcher -> its goroutine
  kick,      \* dispatcher -> whether a nudge is pending
  mails,     \* what the relay has accepted
  accepted,  \* id -> how often the relay accepted it
  faults

vars == <<notices, files, disp, kick, mails, accepted, faults>>

Ids == DOMAIN notices

\* A row: whether it is sent, whether its next attempt is due, the notice it repeats
\* (0 for none) and the files the analyst named when composing it.
Row(resendOf, named) == [sent |-> FALSE, due |-> TRUE, resendOf |-> resendOf, named |-> named]

File(status, notice) == [status |-> status, notice |-> notice]

Waiting == [pc |-> "wait", batch |-> {}, cur |-> 0, files |-> {}, ok |-> FALSE]

Init ==
  /\ notices = <<>> /\ files = [f \in Files |-> File("none", 0)]
  /\ disp = [d \in Dispatchers |-> Waiting] /\ kick = [d \in Dispatchers |-> FALSE]
  /\ mails = {} /\ accepted = [i \in 1..MaxNotices |-> 0] /\ faults = 0

-----------------------------------------------------------------------------
(* Requests.  afterCommit nudges the dispatcher of the replica that served *)
(* the request; a nudge coalesces with one already pending.                *)

Insert(row) ==
  /\ Len(notices) < MaxNotices
  /\ notices' = Append(notices, row)
  /\ \E d \in Dispatchers : kick' = [kick EXCEPT ![d] = TRUE]
  /\ UNCHANGED <<disp, mails, accepted, faults>>

Notify == Insert(Row(0, {})) /\ UNCHANGED files

Upload(f) ==
  /\ files[f].status = "none" /\ files' = [files EXCEPT ![f] = File("draft", 0)]
  /\ UNCHANGED <<notices, disp, kick, mails, accepted, faults>>

\* Every file named must be a draft, or nothing is written at all.
ClaimAttachments(id, named) ==
  /\ \A f \in named : files[f].status = "draft"
  /\ files' = [f \in Files |-> IF f \in named THEN File("claimed", id) ELSE files[f]]

ComposeEmail(named) ==
  Insert(Row(0, named)) /\ ClaimAttachments(Len(notices) + 1, named)

\* Only what has been sent is sent again; the chain points at its root.
Resend(i) ==
  /\ notices[i].sent
  /\ Insert(Row(IF notices[i].resendOf # 0 THEN notices[i].resendOf ELSE i, notices[i].named))
  /\ UNCHANGED files

\* Fault: the sweep goes by age alone.
PurgeDraftAttachments_Claimed ==
  /\ \E f \in Files : files[f].status \in {"draft", "claimed"}
  /\ files' = [f \in Files |-> IF files[f].status = "none" THEN files[f] ELSE File("purged", 0)]
  /\ UNCHANGED <<notices, disp, kick, mails, accepted, faults>>

\* The sweep removes drafts past their time; here, all of them, at any time.
PurgeDraftAttachments ==
  /\ \E f \in Files : files[f].status = "draft"
  /\ files' = [f \in Files |-> IF files[f].status = "draft" THEN File("purged", 0) ELSE files[f]]
  /\ UNCHANGED <<notices, disp, kick, mails, accepted, faults>>

-----------------------------------------------------------------------------
(* Dispatchers *)

Wake(d) == disp[d].pc = "wait" /\ disp' = [disp EXCEPT ![d].pc = "pass"]

WakeByKick(d) ==
  /\ kick[d] /\ Wake(d) /\ kick' = [kick EXCEPT ![d] = FALSE]
  /\ UNCHANGED <<notices, files, mails, accepted, faults>>

\* Fault: a timer that only serves a pending nudge.
WakeByTimer_Nudged(d) ==
  kick[d] /\ Wake(d) /\ UNCHANGED <<notices, files, kick, mails, accepted, faults>>

WakeByTimer(d) == Wake(d) /\ UNCHANGED <<notices, files, kick, mails, accepted, faults>>

\* The batch's notices that are due and not sent, each with its lease renewed; an
\* empty claim ends the pass.
Claimable == {i \in Ids : ~notices[i].sent /\ notices[i].due}

\* Fault: a claim that counts the attempt and leaves the notice due.
ClaimNotices_NoLease(d) ==
  /\ disp[d].pc = "pass"
  /\ disp' = [disp EXCEPT ![d].batch = Claimable,
                          ![d].pc = IF Claimable = {} THEN "wait" ELSE "deliver"]
  /\ UNCHANGED <<notices, files, kick, mails, accepted, faults>>

ClaimNotices(d) ==
  /\ disp[d].pc = "pass"
  /\ \E batch \in SUBSET Claimable :
       /\ \/ batch = Claimable /\ Cardinality(batch) =< Batch
          \/ Cardinality(batch) = Batch
       /\ notices' = [i \in Ids |-> [notices[i] EXCEPT !.due = @ /\ i \notin batch]]
       /\ disp' = [disp EXCEPT ![d].batch = batch,
                               ![d].pc = IF batch = {} THEN "wait" ELSE "deliver"]
  /\ UNCHANGED <<files, kick, mails, accepted, faults>>

\* The claim returns a row without its resend_of, so the files looked up are those of
\* the notice itself.
NoticeAttachments(i) == {f \in Files : files[f] = File("claimed", i)}

Render(d) ==
  /\ disp[d].pc = "deliver"
  /\ \E i \in disp[d].batch :
       disp' = [disp EXCEPT ![d].cur = i, ![d].batch = @ \ {i}, ![d].pc = "send",
                            ![d].files = NoticeAttachments(i)]
  /\ UNCHANGED <<notices, files, kick, mails, accepted, faults>>

Accept(d, heard) ==
  /\ disp[d].pc = "send"
  /\ mails' = mails \cup {[id |-> disp[d].cur, files |-> disp[d].files]}
  /\ accepted' = [accepted EXCEPT ![disp[d].cur] = @ + 1]
  /\ disp' = [disp EXCEPT ![d].pc = "finish", ![d].ok = heard]
  /\ UNCHANGED <<notices, files, kick>>

SendOK(d) == Accept(d, TRUE) /\ UNCHANGED faults

\* The relay takes the mail and the connection breaks before it says so.
SendUnheard(d) == faults < MaxFaults /\ faults' = faults + 1 /\ Accept(d, FALSE)

SendFails(d) ==
  /\ disp[d].pc = "send"
  /\ disp' = [disp EXCEPT ![d].pc = "finish", ![d].ok = FALSE]
  /\ UNCHANGED <<notices, files, kick, mails, accepted, faults>>

\* After a notice the next of the batch, and after the batch another claim.
NextOf(d) == [Waiting EXCEPT !.batch = disp[d].batch,
                             !.pc = IF disp[d].batch = {} THEN "pass" ELSE "deliver"]

\* Fault: the attempt is recorded as the delivery.
FinishNotice_AnyOutcome(d) ==
  /\ disp[d].pc = "finish"
  /\ notices' = [notices EXCEPT ![disp[d].cur].sent = TRUE]
  /\ disp' = [disp EXCEPT ![d] = NextOf(d)]
  /\ UNCHANGED <<files, kick, mails, accepted, faults>>

FinishNotice(d) ==
  /\ disp[d].pc = "finish"
  /\ notices' = [notices EXCEPT ![disp[d].cur].sent = @ \/ disp[d].ok]
  /\ disp' = [disp EXCEPT ![d] = NextOf(d)]
  /\ UNCHANGED <<files, kick, mails, accepted, faults>>

\* The database does not take the outcome; the dispatcher only logs it.
FinishLost(d) ==
  /\ disp[d].pc = "finish" /\ faults < MaxFaults
  /\ disp' = [disp EXCEPT ![d] = NextOf(d)]
  /\ faults' = faults + 1
  /\ UNCHANGED <<notices, files, kick, mails, accepted>>

\* The replica goes down, with its batch and its pending nudge, and comes back.
Crash(d) ==
  /\ disp[d].pc # "wait" \/ kick[d]
  /\ faults < MaxFaults /\ faults' = faults + 1
  /\ disp' = [disp EXCEPT ![d] = Waiting] /\ kick' = [kick EXCEPT ![d] = FALSE]
  /\ UNCHANGED <<notices, files, mails, accepted>>

InFlight(i) == \E d \in Dispatchers : i = disp[d].cur \/ i \in disp[d].batch

\* The back-off of a claimed notice runs out, as a fault while it is being delivered.
LeaseEnds(i) ==
  /\ ~notices[i].sent /\ ~notices[i].due
  /\ IF InFlight(i) THEN faults < MaxFaults /\ faults' = faults + 1 ELSE UNCHANGED faults
  /\ notices' = [notices EXCEPT ![i].due = TRUE]
  /\ UNCHANGED <<files, disp, kick, mails, accepted>>

Deliver(d) == Render(d) \/ SendOK(d) \/ SendFails(d) \/ FinishNotice(d) \/ ClaimNotices(d)

Next ==
  \/ Notify
  \/ \E f \in Files : Upload(f)
  \/ \E named \in SUBSET Files : ComposeEmail(named)
  \/ \E i \in Ids : Resend(i)
  \/ PurgeDraftAttachments
  \/ \E d \in Dispatchers : \/ WakeByKick(d) \/ WakeByTimer(d)
                            \/ Deliver(d) \/ SendUnheard(d) \/ FinishLost(d) \/ Crash(d)
  \/ \E i \in Ids : LeaseEnds(i)

Spec == Init /\ [][Next]_vars

\* A running dispatcher goes on, its timer fires, leases run out, and a relay that is
\* offered mail again and again takes it at last.
FairSpec ==
  /\ Spec
  /\ \A d \in Dispatchers :
       WF_vars(Deliver(d)) /\ WF_vars(WakeByTimer(d)) /\ SF_vars(SendOK(d))
  /\ \A i \in 1..MaxNotices : WF_vars(i \in Ids /\ LeaseEnds(i))

-----------------------------------------------------------------------------
(* Properties *)

\* What the audit shows as sent the relay accepted, whatever crashed in between and
\* whichever of two dispatchers finished last.
SentWasAccepted == \A i \in Ids : notices[i].sent => accepted[i] > 0

\* An email goes out with the files its author named, all of them, on every attempt:
\* no sweep, no later email takes a file away from it.
FilesArrive == \A m \in mails : notices[m.id].resendOf = 0 => m.files = notices[m.id].named

\* mail.go, Dispatcher: "the store hands each notice to one of them": without faults the
\* customer gets each email at most once, and every further copy has a fault of its own
\* behind it, whichever dispatcher sent it.
DeliveredOnce == \A i \in Ids : accepted[i] =< 1 + faults

\* mail.go, Dispatcher: "nothing is lost if the nudge is": every queued email is sent
\* in the end.
EveryNoticeSent == \A i \in 1..MaxNotices : i \in Ids ~> (i \in Ids /\ notices[i].sent)

\* mail.go, deliver: "A resend carries what the original carried."
ResendCarriesFiles ==
  \A m \in mails : notices[m.id].resendOf # 0 => m.files = notices[m.id].named
=============================================================================
