--------------------------------- MODULE Inbox ---------------------------------
(***************************************************************************)
(* What is read of an inquiry: the pages that show it, and the notices,    *)
(* which their users mark as read.  InquiryThread with the reads of        *)
(* InquiryService and the marks of NotificationService                     *)
(* (src/src/domains/notification); how a notice comes to a page is in      *)
(* Letterbox and Delivery.                                                 *)
(*                                                                         *)
(* The database client loads the answers of the inquiries it has found     *)
(* with a query of their own, and nothing protects the time in between.    *)
(***************************************************************************)
EXTENDS InquiryThread

CONSTANT Marks  \* PATCH /notifications/:id/check requests of the author

VARIABLES
  checked,  \* the notices whose isChecked is true
  marking,  \* of a Marks request: its place and the notice it is for
  view      \* the page somebody is looking at

inboxVars == <<checked, marking, view>>
allVars == <<vars, inboxVars>>

-----------------------------------------------------------------------------
(* The author's marks.                                                     *)

\* updateNotification: the row is found if it is there and the author's, a
\* checked one is left alone, another is written by its id.
Found(n) == n \in Inbox

MarkFind(m) ==
  /\ marking[m].at = "idle"
  /\ \E n \in Answers \cup {Creation} :
       marking' = [marking EXCEPT ![m] =
                     [at |-> IF ~ Found(n) THEN "failed"
                             ELSE IF n \in checked THEN "done" ELSE "write",
                      of |-> n]]
  /\ UNCHANGED <<vars, checked, view>>

MarkWrite(m) ==
  /\ marking[m].at = "write"
  /\ checked' = checked \cup {marking[m].of}
  /\ marking' = [marking EXCEPT ![m].at = "done"]
  /\ UNCHANGED <<vars, view>>

MarkFails(m) ==
  /\ marking[m].at = "write"
  /\ marking' = [marking EXCEPT ![m].at = "failed"]
  /\ UNCHANGED <<vars, checked, view>>

-----------------------------------------------------------------------------
(* The pages.                                                              *)

NoView == [at |-> "none", page |-> "none", status |-> "none", answered |-> FALSE]

\* getInquiryById and getInquiries (of the product): no filter.
InquiryById == {inquiry.status} \ {"none"}
InquiriesOfProduct == {inquiry.status} \ {"none"}

\* getAllInquiries: the inquiries of the buyer, or those about the products of
\* the seller, of one status or of any.
MyInquiries(status) ==
  {s \in {inquiry.status} \ {"none"} : status \in {"any", s}}

OpenPage(page, found, next) ==
  /\ view.at = "none"
  /\ \E s \in found :
       view' = [at |-> next, page |-> page, status |-> s, answered |-> FALSE]
  /\ UNCHANGED <<vars, checked, marking>>

\* The two queries of a page with answers: first the inquiries, then the
\* answers that refer to them.
AnswersFirst ==                      \* faulty: the answers, then the inquiries
  /\ view.at = "none"
  /\ view' = [NoView EXCEPT !.at = "rows", !.page = "thread",
                            !.answered = reply # NoText]
  /\ UNCHANGED <<vars, checked, marking>>
ViewInquiry ==
  \E found \in {InquiryById, InquiriesOfProduct} :
    OpenPage("thread", found, "answers")

ViewAnswers ==
  /\ view.at \in {"answers", "rows"}
  /\ view' = IF view.at = "answers"
             THEN [view EXCEPT !.at = "shown", !.answered = reply # NoText]
             ELSE [view EXCEPT !.at = "shown", !.status = inquiry.status]
  /\ UNCHANGED <<vars, checked, marking>>

ViewMine ==
  \E status \in {"any", "WaitingAnswer", "CompletedAnswer"} :
    OpenPage("mine", MyInquiries(status), "shown")

-----------------------------------------------------------------------------
InboxInit ==
  /\ Init
  /\ checked = {}
  /\ marking = [m \in Marks |-> [at |-> "idle", of |-> Creation]]
  /\ view = NoView

\* What clients ask of the server.
ClientReads ==
  \/ \E m \in Marks : MarkFind(m) \/ MarkWrite(m) \/ MarkFails(m)
  \/ ViewInquiry \/ ViewAnswers \/ ViewMine

InboxNext ==
  \/ Next /\ UNCHANGED inboxVars
  \/ ClientReads

InboxSpec == InboxInit /\ [][InboxNext]_allVars

-----------------------------------------------------------------------------
(* Properties.                                                             *)

\* A page that shows an inquiry as answered shows the answer, although the two
\* are read one after the other while answers are written, unless the inquiry
\* is gone by now (inquiry.repository.ts getInquiries, getInquiryById).
AnsweredShowsAnswer ==
  view.at = "shown" /\ view.status = "CompletedAnswer" /\ Exists
  => IF view.page = "mine" THEN reply # NoText ELSE view.answered
=============================================================================
