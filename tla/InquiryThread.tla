---------------------------- MODULE InquiryThread ------------------------------
(***************************************************************************)
(* One inquiry about a product, its answer and the notices they cause:     *)
(* InquiryService and InquiryRepository (src/src/domains/inquiry) with the *)
(* createNotification of NotificationService they call.                    *)
(*                                                                         *)
(* A request first reads and decides, then writes: with one statement, or  *)
(* in a transaction whose first statement locks the inquiry's row (an      *)
(* answer by its foreign key) until the commit, so transactions on one     *)
(* inquiry follow each other and each is one step.  The reads are not      *)
(* protected: anything may happen before the write.                        *)
(***************************************************************************)
EXTENDS Integers, FiniteSets

CONSTANTS
  Edits,       \* PATCH /inquiries/:id by its author
  Removals,    \* DELETE /inquiries/:id by its author
  Answers,     \* POST /inquiries/:id/replies by the seller
  AnswerEdits, \* PATCH /inquiries/:id/replies by who answered
  Creation,    \* the POST that creates the inquiry
  Texts, NoText

ASSUME TextAssumption == NoText \notin Texts

Requests == Edits \cup Removals \cup Answers \cup AnswerEdits \cup {Creation}

ASSUME KindAssumption ==
  /\ Creation \notin Edits \cup Removals \cup Answers \cup AnswerEdits
  /\ Edits \cap Removals = {} /\ Edits \cap Answers = {}
  /\ Edits \cap AnswerEdits = {} /\ Removals \cap Answers = {}
  /\ Removals \cap AnswerEdits = {} /\ Answers \cap AnswerEdits = {}

VARIABLES
  inquiry,   \* its row; status "none" before it exists and once it is deleted
  reply,     \* the text of the answer's row, or NoText
  notices,   \* requests whose notification row is stored
  events,    \* requests whose notification went to the SSE manager
  own,       \* the author owns the store himself
  pc, text,  \* of a request: place, the text it brings
  read       \* of an edit: the inquiry as it found it

vars == <<inquiry, reply, notices, events, own, pc, text, read>>
rows == <<inquiry, reply, notices>>

NoInquiry == [status |-> "none", text |-> NoText]
Exists == inquiry.status # "none"

\* prisma.inquiry.update with the fields that differ from those read; status
\* is never among them.
WholeRow(r) ==                       \* faulty: writes the row back as read
  [read[r] EXCEPT !.text = text[r]]
Patched(r) == [inquiry EXCEPT !.text = text[r]]

\* An update by id answers P2025 when the row is gone.
RowFound == Exists

\* Reply.inquiryId is unique and references an inquiry that is there.
AnyAnswer == Exists                  \* faulty: the index is not unique
MayAnswer == Exists /\ reply = NoText

\* createNotification sends only when it was given no transaction.
SentWithin(r) == {}

Notified(r) == IF own THEN {} ELSE {r}
Stored(r) == notices \cup Notified(r)

NewInquiry(r) == [status |-> "WaitingAnswer", text |-> text[r]]
Answered(row) == [row EXCEPT !.status = "CompletedAnswer"]
ReplyFound == reply # NoText

-----------------------------------------------------------------------------
Init ==
  /\ inquiry = NoInquiry
  /\ reply = NoText
  /\ notices = {}
  /\ events = {}
  /\ own \in BOOLEAN
  /\ pc = [r \in Requests |-> "idle"]
  /\ text \in [Requests -> Texts]
  /\ read = [r \in Edits |-> NoInquiry]

Goto(r, from, to) == pc[r] = from /\ pc' = [pc EXCEPT ![r] = to]

\* What the service tests on the row it has found.
Agrees(r) ==
  CASE r = Creation    -> TRUE       \* the product exists
    [] r \in Edits     -> inquiry.status = "WaitingAnswer" /\ text[r] # inquiry.text
    [] r \in AnswerEdits -> ReplyFound /\ text[r] # reply
    [] OTHER           -> Exists

Check(r) ==
  /\ Agrees(r)
  /\ Goto(r, "idle", "write")
  /\ read' = IF r \in Edits THEN [read EXCEPT ![r] = inquiry] ELSE read
  /\ UNCHANGED <<rows, events, own, text>>

CheckRefuses(r) ==
  /\ ~ Agrees(r)
  /\ Goto(r, "idle", "failed")
  /\ UNCHANGED <<rows, events, own, text, read>>

\* The transaction of createInquiry.
CreateInquiry ==
  /\ Goto(Creation, "write", "push")
  /\ inquiry' = NewInquiry(Creation)
  /\ notices' = Stored(Creation)
  /\ events' = events \cup (Notified(Creation) \cap SentWithin(Creation))
  /\ UNCHANGED <<reply, own, text, read>>

UpdateInquiry(r) ==
  /\ r \in Edits
  /\ RowFound
  /\ Goto(r, "write", "done")
  /\ inquiry' = Patched(r)
  /\ UNCHANGED <<reply, notices, events, own, text, read>>

\* The answer goes with its inquiry: onDelete: Cascade.
DeleteInquiry(r) ==
  /\ r \in Removals
  /\ Exists
  /\ Goto(r, "write", "done")
  /\ inquiry' = NoInquiry
  /\ reply' = NoText
  /\ UNCHANGED <<notices, events, own, text, read>>

\* The transaction of createReply: the answer, the status, the notice.
CreateReply(r) ==
  /\ r \in Answers
  /\ MayAnswer
  /\ Goto(r, "write", "push")
  /\ reply' = text[r]
  /\ inquiry' = Answered(inquiry)
  /\ notices' = Stored(r)
  /\ events' = events \cup (Notified(r) \cap SentWithin(r))
  /\ UNCHANGED <<own, text, read>>

UpdateReply(r) ==
  /\ r \in AnswerEdits
  /\ ReplyFound
  /\ Goto(r, "write", "done")
  /\ reply' = text[r]
  /\ UNCHANGED <<inquiry, notices, events, own, text, read>>

\* After the commit, the event.
Push(r) ==
  /\ Goto(r, "push", "done")
  /\ events' = events \cup Notified(r)
  /\ UNCHANGED <<rows, own, text, read>>

\* The row is gone, the answer is there already, or the database fails; a
\* transaction may have got as far as the notice before it is undone.
WriteFails(r) ==
  /\ Goto(r, "write", "failed")
  /\ IF r \in Answers \cup {Creation}
     THEN events' \in {events, events \cup (Notified(r) \cap SentWithin(r))}
     ELSE UNCHANGED events
  /\ UNCHANGED <<rows, own, text, read>>

\* The notices of the author: those of the answers.  createInquiry's notice is
\* the seller's.
Inbox == notices \cap Answers

Finished == {r \in Requests : pc[r] \in {"done", "failed"}}

Next ==
  \/ CreateInquiry
  \/ \E r \in Requests :
       \/ Check(r) \/ CheckRefuses(r)
       \/ UpdateInquiry(r) \/ DeleteInquiry(r) \/ CreateReply(r) \/ UpdateReply(r)
       \/ Push(r) \/ WriteFails(r)
  \/ Finished = Requests /\ UNCHANGED vars

Spec == Init /\ [][Next]_vars

-----------------------------------------------------------------------------
(* Properties.                                                             *)

\* An inquiry is marked answered exactly while it has an answer, whatever edit
\* read it before the answer and writes it after (updateInquiry writes only
\* the fields that changed; createReply sets both in one transaction).
AnsweredMeansReply ==
  inquiry.status = "CompletedAnswer" <=> reply # NoText

\* However many answers are sent at once, the author is told of one, and of
\* none when he owns the store (the unique inquiryId; inquiry.service.ts:229);
\* nobody is sent a notification that a rollback has undone
\* (notification.service.ts:72-75).
ToldOnce ==
  /\ Cardinality(notices \cap Answers) <= 1
  /\ reply # NoText /\ ~ own => notices \cap Answers # {}
  /\ own => notices = {}
  /\ events \subseteq notices
=============================================================================
