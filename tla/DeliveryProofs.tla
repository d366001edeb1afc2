---------------------------- MODULE DeliveryProofs -----------------------------
(***************************************************************************)
(* How a notice comes to a page, for any number of edits, answers,         *)
(* removals, marks, connections and users.                                 *)
(*                                                                         *)
(* The thread and its pages: an inquiry is marked answered exactly while   *)
(* it has its one answer, and the notices sent are stored.  The server:    *)
(* the registry names open streams, and the signal leaves only stray       *)
(* streams open.  Both together: what goes through the registry arrives on *)
(* the author's page, unless a stream of the author is stray.              *)
(***************************************************************************)
EXTENDS Delivery, Inbox, FiniteSetTheorems, TLAPS

-----------------------------------------------------------------------------
(* The thread: InquiryThread.                                              *)

Statuses == {"none", "WaitingAnswer", "CompletedAnswer"}

\* Columns hold values of their types.
ThreadTyped ==
  /\ inquiry \in [status : Statuses, text : Texts \cup {NoText}]
  /\ reply \in Texts \cup {NoText}
  /\ own \in BOOLEAN
  /\ pc \in [Requests -> {"idle", "write", "push", "done", "failed"}]
  /\ text \in [Requests -> Texts]

\* An inquiry is there only after its creation, which happens once.
CreatedOnce ==
  /\ Exists => pc[Creation] \in {"push", "done"}
  /\ pc[Creation] \in {"idle", "write"} => notices = {}

\* Before the answer nobody was told of one, and after it of one at most.
Told ==
  /\ Exists /\ reply = NoText => notices \cap Answers = {}
  /\ notices \cap Answers = {} \/ \E a : notices \cap Answers = {a}
  /\ reply # NoText /\ ~ own => notices \cap Answers # {}
  /\ own => notices = {}

\* An event follows its row, and only the last step of a request sends it.
Sent ==
  /\ events \subseteq notices
  /\ \A r \in Requests : pc[r] = "push" => Notified(r) \subseteq notices
  /\ \A r \in events : r \in Requests /\ pc[r] = "done"

ThreadInv == ThreadTyped /\ AnsweredMeansReply /\ CreatedOnce /\ Told /\ Sent

LEMMA ThreadInit == Init => ThreadInv
<1> SUFFICES ASSUME Init PROVE ThreadInv
  OBVIOUS
<1>1. Creation \in Requests
  BY DEF Requests
<1>2. ThreadTyped
  BY DEF Init, ThreadTyped, Statuses, NoInquiry
<1>3. AnsweredMeansReply /\ CreatedOnce /\ Told
  BY DEF Init, AnsweredMeansReply, CreatedOnce, Told, NoInquiry, Exists
<1>4. Sent
  BY DEF Init, Sent
<1>5. QED
  BY <1>2, <1>3, <1>4 DEF ThreadInv

LEMMA ThreadStepInv == ThreadInv /\ [Next]_vars => ThreadInv'
<1> SUFFICES ASSUME ThreadInv, [Next]_vars PROVE ThreadInv'
  OBVIOUS
<1> USE DEF ThreadInv
<1>0. Creation \in Requests /\ Answers \subseteq Requests
  BY DEF Requests
<1>1. CASE CreateInquiry
  <2>1. /\ UNCHANGED <<reply, own, text, read, events>>
        /\ inquiry' = [status |-> "WaitingAnswer", text |-> text[Creation]]
        /\ notices' = notices \cup Notified(Creation)
        /\ pc[Creation] = "write" /\ pc' = [pc EXCEPT ![Creation] = "push"]
    BY <1>1 DEF CreateInquiry, NewInquiry, Goto, SentWithin, Stored
  <2>2. reply = NoText /\ notices = {} /\ Creation \notin Answers
    BY <2>1, KindAssumption DEF ThreadTyped, AnsweredMeansReply, CreatedOnce, Exists
  <2>3. ThreadTyped'
    BY <1>0, <2>1 DEF ThreadTyped, Statuses
  <2>4. AnsweredMeansReply' /\ CreatedOnce'
    BY <1>0, <2>1, <2>2 DEF ThreadTyped, AnsweredMeansReply, CreatedOnce
  <2>5. Told'
    BY <2>1, <2>2 DEF Told, Notified
  <2>6. Sent'
    BY <1>0, <2>1 DEF Sent, Notified, ThreadTyped
  <2>7. QED
    BY <2>3, <2>4, <2>5, <2>6
<1>2. ASSUME NEW r \in Requests, Check(r) \/ CheckRefuses(r)
      PROVE  ThreadInv'
  <2>1. /\ UNCHANGED <<inquiry, reply, notices, events, own, text>>
        /\ pc[r] = "idle"
        /\ \E s \in {"write", "failed"} : pc' = [pc EXCEPT ![r] = s]
    BY <1>2 DEF Check, CheckRefuses, Goto, rows
  <2>2. ThreadTyped' /\ AnsweredMeansReply' /\ Told'
    BY <2>1 DEF ThreadTyped, AnsweredMeansReply, Told, Exists
  <2>3. CreatedOnce'
    BY <1>0, <2>1 DEF ThreadTyped, CreatedOnce, Exists
  <2>4. Sent'
    BY <2>1 DEF ThreadTyped, Sent, Notified
  <2>5. QED
    BY <2>2, <2>3, <2>4
<1>3. ASSUME NEW r \in Requests, UpdateInquiry(r) \/ UpdateReply(r)
      PROVE  ThreadInv'
  <2>1. /\ UNCHANGED <<notices, events, own, text>>
        /\ pc[r] = "write" /\ pc' = [pc EXCEPT ![r] = "done"]
        /\ r # Creation
    BY <1>3, KindAssumption DEF UpdateInquiry, UpdateReply, Goto
  <2>2. /\ inquiry'.status = inquiry.status
        /\ inquiry' \in [status : Statuses, text : Texts \cup {NoText}]
        /\ reply' \in Texts \cup {NoText}
        /\ reply' = NoText <=> reply = NoText
    BY <1>3, TextAssumption DEF UpdateInquiry, UpdateReply, Patched, ReplyFound, ThreadTyped
  <2>3. ThreadTyped' /\ AnsweredMeansReply' /\ Told'
    BY <2>1, <2>2 DEF ThreadTyped, AnsweredMeansReply, Told, Exists
  <2>4. CreatedOnce'
    BY <1>0, <2>1, <2>2 DEF ThreadTyped, CreatedOnce, Exists
  <2>5. Sent'
    BY <2>1 DEF ThreadTyped, Sent, Notified
  <2>6. QED
    BY <2>3, <2>4, <2>5
<1>4. ASSUME NEW r \in Requests, DeleteInquiry(r)
      PROVE  ThreadInv'
  <2>1. /\ UNCHANGED <<notices, events, own, text>>
        /\ inquiry' = NoInquiry /\ reply' = NoText
        /\ pc[r] = "write" /\ pc' = [pc EXCEPT ![r] = "done"]
        /\ r # Creation
    BY <1>4, KindAssumption DEF DeleteInquiry, Goto
  <2>2. ThreadTyped' /\ AnsweredMeansReply' /\ Told'
    BY <2>1 DEF ThreadTyped, AnsweredMeansReply, Told, Exists, NoInquiry, Statuses
  <2>3. CreatedOnce'
    BY <1>0, <2>1 DEF ThreadTyped, CreatedOnce, Exists, NoInquiry
  <2>4. Sent'
    BY <2>1 DEF ThreadTyped, Sent, Notified
  <2>5. QED
    BY <2>2, <2>3, <2>4
<1>5. ASSUME NEW r \in Requests, CreateReply(r)
      PROVE  ThreadInv'
  <2>1. /\ UNCHANGED <<own, text, events>>
        /\ reply' = text[r] /\ reply' # NoText /\ reply = NoText
        /\ inquiry' = [inquiry EXCEPT !.status = "CompletedAnswer"]
        /\ notices' = notices \cup Notified(r)
        /\ pc[r] = "write" /\ pc' = [pc EXCEPT ![r] = "push"]
        /\ r \in Answers /\ r # Creation /\ Exists
    BY <1>5, KindAssumption, TextAssumption
       DEF CreateReply, MayAnswer, Answered, Goto, SentWithin, Stored, ThreadTyped
  <2>2. notices \cap Answers = {}
    BY <2>1 DEF Told
  <2>3. ThreadTyped' /\ AnsweredMeansReply'
    BY <2>1 DEF ThreadTyped, AnsweredMeansReply, Statuses
  <2>4. CreatedOnce'
    BY <1>0, <2>1 DEF ThreadTyped, CreatedOnce
  <2>5. Told'
    BY <2>1, <2>2 DEF Told, Notified
  <2>6. Sent'
    BY <1>0, <2>1 DEF Sent, Notified, ThreadTyped
  <2>7. QED
    BY <2>3, <2>4, <2>5, <2>6
<1>6. ASSUME NEW r \in Requests, Push(r)
      PROVE  ThreadInv'
  <2>1. /\ UNCHANGED <<inquiry, reply, notices, own, text>>
        /\ events' = events \cup Notified(r)
        /\ pc[r] = "push" /\ pc' = [pc EXCEPT ![r] = "done"]
    BY <1>6 DEF Push, Goto, rows
  <2>2. ThreadTyped' /\ AnsweredMeansReply' /\ Told'
    BY <2>1 DEF ThreadTyped, AnsweredMeansReply, Told, Exists
  <2>3. CreatedOnce'
    BY <1>0, <2>1 DEF ThreadTyped, CreatedOnce, Exists
  <2>4. Sent'
    BY <2>1 DEF ThreadTyped, Sent, Notified
  <2>5. QED
    BY <2>2, <2>3, <2>4
<1>7. ASSUME NEW r \in Requests, WriteFails(r)
      PROVE  ThreadInv'
  <2>1. /\ UNCHANGED <<inquiry, reply, notices, events, own, text>>
        /\ pc[r] = "write" /\ pc' = [pc EXCEPT ![r] = "failed"]
    BY <1>7 DEF WriteFails, Goto, SentWithin, rows
  <2>2. ThreadTyped' /\ AnsweredMeansReply' /\ Told'
    BY <2>1 DEF ThreadTyped, AnsweredMeansReply, Told, Exists
  <2>3. CreatedOnce'
    BY <1>0, <2>1 DEF ThreadTyped, CreatedOnce, Exists
  <2>4. Sent'
    BY <2>1 DEF ThreadTyped, Sent, Notified
  <2>5. QED
    BY <2>2, <2>3, <2>4
<1>8. CASE UNCHANGED vars
  BY <1>8 DEF vars, ThreadTyped, AnsweredMeansReply, CreatedOnce, Told, Sent, Exists,
              Notified
<1>9. QED
  BY <1>1, <1>2, <1>3, <1>4, <1>5, <1>6, <1>7, <1>8 DEF Next

-----------------------------------------------------------------------------
(* The pages that show the inquiry: Inbox.                                 *)

\* The clients add reads and marks; the rows of the thread change with its
\* own steps alone.
LEMMA ClientsOnlyRead ==
  ASSUME [InboxNext]_allVars
  PROVE  [Next]_vars
BY DEF InboxNext, ClientReads, allVars, inboxVars, MarkFind, MarkWrite, MarkFails,
       ViewInquiry, ViewAnswers, ViewMine, OpenPage

\* What a page has read as answered is answered, or gone for good.
Viewed ==
  /\ view \in [at : {"none", "answers", "shown"}, page : {"none", "thread", "mine"},
              status : Statuses, answered : BOOLEAN]
  /\ view.at # "none" /\ view.status = "CompletedAnswer" =>
       pc[Creation] \in {"push", "done"} /\ inquiry.status # "WaitingAnswer"
  /\ AnsweredShowsAnswer

InboxInv == ThreadInv /\ Viewed

LEMMA InboxInitInv == InboxInit => InboxInv
<1> SUFFICES ASSUME InboxInit PROVE InboxInv
  OBVIOUS
<1>1. ThreadInv
  BY ThreadInit DEF InboxInit
<1>2. Viewed
  BY DEF InboxInit, Viewed, NoView, AnsweredShowsAnswer, Statuses
<1>3. QED
  BY <1>1, <1>2 DEF InboxInv

\* An answer stays as long as its inquiry, and an inquiry that is gone stays so.
LEMMA ViewedStep ==
  ASSUME ThreadInv, Viewed, [Next]_vars, UNCHANGED view
  PROVE  Viewed'
<1>1. ThreadInv'
  BY ThreadStepInv
<1>2. Creation \in Requests
  BY DEF Requests
<1>3. pc[Creation] \in {"push", "done"} => pc'[Creation] \in {"push", "done"}
  BY <1>2 DEF Next, CreateInquiry, Check, CheckRefuses, UpdateInquiry,
     DeleteInquiry, CreateReply, UpdateReply, Push, WriteFails, vars, Goto,
     ThreadInv, ThreadTyped
<1>4. pc[Creation] \in {"push", "done"} /\ inquiry.status # "WaitingAnswer" =>
        /\ inquiry'.status # "WaitingAnswer"
        /\ Exists' => Exists
  BY DEF Next, CreateInquiry, Check, CheckRefuses, UpdateInquiry,
     DeleteInquiry, CreateReply, UpdateReply, Push, WriteFails, vars, rows, Goto,
     ThreadInv, ThreadTyped, Patched, Answered, NoInquiry, RowFound, Exists, MayAnswer
<1>5. QED
  BY <1>1, <1>3, <1>4 DEF Viewed, AnsweredShowsAnswer, ThreadInv,
     AnsweredMeansReply, Exists, ThreadTyped, Statuses

LEMMA InboxStep == InboxInv /\ [InboxNext]_allVars => InboxInv'
<1> SUFFICES ASSUME InboxInv, [InboxNext]_allVars PROVE InboxInv'
  OBVIOUS
<1> USE DEF InboxInv
<1>1. [Next]_vars /\ ThreadInv'
  BY ClientsOnlyRead, ThreadStepInv
<1>2. CASE Next /\ UNCHANGED inboxVars
  BY <1>1, <1>2, ViewedStep DEF inboxVars
<1>3. CASE \E m \in Marks : MarkFind(m) \/ MarkWrite(m) \/ MarkFails(m)
  <2>1. UNCHANGED view
    BY <1>3 DEF MarkFind, MarkWrite, MarkFails
  <2>2. QED
    BY <1>1, <2>1, ViewedStep
<1>4. CASE ViewInquiry \/ ViewMine
  <2>1. PICK s \in {inquiry.status} \ {"none"}, p \in {"thread", "mine"} :
          view' = [at |-> IF p = "mine" THEN "shown" ELSE "answers",
                   page |-> p, status |-> s, answered |-> FALSE]
    BY <1>4 DEF ViewInquiry, ViewMine, OpenPage, InquiryById, InquiriesOfProduct,
                MyInquiries
  <2>2. UNCHANGED vars
    BY <1>4 DEF ViewInquiry, ViewMine, OpenPage
  <2>3. /\ view'.at = IF p = "mine" THEN "shown" ELSE "answers"
        /\ view'.page = p /\ view'.status = s
    BY <2>1
  <2>4. UNCHANGED <<inquiry, reply, pc>>
    BY <2>2 DEF vars
  <2>5. inquiry.status = s /\ s # "none" /\ pc[Creation] \in {"push", "done"}
    BY <2>1 DEF ThreadInv, CreatedOnce, Exists
  <2>6. s = "CompletedAnswer" => reply' # NoText
    BY <2>4, <2>5 DEF ThreadInv, AnsweredMeansReply
  <2>7. AnsweredShowsAnswer'
    BY <2>3, <2>6 DEF AnsweredShowsAnswer
  <2>8. view' \in [at : {"none", "answers", "shown"},
                  page : {"none", "thread", "mine"},
                  status : Statuses, answered : BOOLEAN]
    BY <2>1 DEF ThreadInv, ThreadTyped
  <2>9. view'.status = "CompletedAnswer" =>
          pc'[Creation] \in {"push", "done"} /\ inquiry'.status # "WaitingAnswer"
    BY <2>3, <2>4, <2>5
  <2>10. QED
    BY <1>1, <2>7, <2>8, <2>9 DEF Viewed
<1>5. CASE ViewAnswers
  <2>1. /\ UNCHANGED vars
        /\ view.at = "answers"
        /\ view' = [view EXCEPT !.at = "shown", !.answered = reply # NoText]
    BY <1>5 DEF ViewAnswers, Viewed
  <2>2. /\ view'.at = "shown" /\ view'.page = view.page
        /\ view'.status = view.status
        /\ view' \in [at : {"none", "answers", "shown"},
                     page : {"none", "thread", "mine"},
                     status : Statuses, answered : BOOLEAN]
    BY <2>1 DEF Viewed
  <2>3. UNCHANGED <<inquiry, reply, pc>>
    BY <2>1 DEF vars
  <2>4. view'.status = "CompletedAnswer" =>
          pc'[Creation] \in {"push", "done"} /\ inquiry'.status # "WaitingAnswer"
    BY <2>1, <2>2, <2>3 DEF Viewed
  <2>5. view'.status = "CompletedAnswer" /\ Exists' => reply' # NoText
    BY <1>1, <2>4 DEF ThreadInv, ThreadTyped, Statuses, AnsweredMeansReply, Exists
  <2>6. view'.answered = (reply # NoText)
    BY <2>1 DEF Viewed
  <2>7. AnsweredShowsAnswer'
    BY <2>2, <2>3, <2>5, <2>6 DEF AnsweredShowsAnswer
  <2>8. QED
    BY <1>1, <2>2, <2>4, <2>7 DEF Viewed
<1>6. CASE UNCHANGED allVars
  <2>1. UNCHANGED view
    BY <1>6 DEF allVars, inboxVars
  <2>2. QED
    BY <1>1, <2>1, ViewedStep
<1>7. QED
  BY <1>2, <1>3, <1>4, <1>5, <1>6 DEF InboxNext, ClientReads

-----------------------------------------------------------------------------
LEMMA InboxAlways == InboxSpec => []InboxInv
BY InboxInitInv, InboxStep, PTL DEF InboxSpec

\* An inquiry is marked answered exactly while it has an answer, whatever edits,
\* answers and removals overlap.
THEOREM AnsweredIffReply == InboxSpec => []AnsweredMeansReply
<1>1. InboxInv => AnsweredMeansReply
  BY DEF InboxInv, ThreadInv
<1>2. QED
  BY InboxAlways, <1>1, PTL

\* However many answers are sent at once, the author is told of one, and nobody of
\* what a rollback has undone.
THEOREM ToldOfOne == InboxSpec => []ToldOnce
<1>1. InboxInv => ToldOnce
  <2> SUFFICES ASSUME InboxInv PROVE ToldOnce
    OBVIOUS
  <2>1. Cardinality(notices \cap Answers) <= 1
    <3>1. CASE notices \cap Answers = {}
      BY <3>1, FS_EmptySet
    <3>2. ASSUME NEW a, notices \cap Answers = {a}
          PROVE  Cardinality(notices \cap Answers) <= 1
      BY <3>2, FS_Singleton
    <3>3. QED
      BY <3>1, <3>2 DEF InboxInv, ThreadInv, Told
  <2>2. QED
    BY <2>1 DEF InboxInv, ThreadInv, Told, Sent, ToldOnce
<1>2. QED
  BY InboxAlways, <1>1, PTL

\* A page that shows an inquiry as answered shows the answer.
THEOREM PagesShowAnswers == InboxSpec => []AnsweredShowsAnswer
<1>1. InboxInv => AnsweredShowsAnswer
  BY DEF InboxInv, Viewed
<1>2. QED
  BY InboxAlways, <1>1, PTL

-----------------------------------------------------------------------------
(* The registry and the shutdown: Server.                                  *)

\* The entry of a user is an open stream of that user after every step: a close
\* removes the entry whatever it names, and the signal removes them all.
THEOREM EntriesAreOpen == ServerSpec => []TypeOK
<1>1. ServerInit => TypeOK
  <2> SUFFICES ASSUME ServerInit
               PROVE  TypeOK
    OBVIOUS
  <2>1. client \in [Users -> Conns \cup {NoConn}]
    BY DEF ServerInit
  <2>2. \A u \in Users : client[u] = NoConn
    BY DEF ServerInit
  <2>3. uses \in [Conns -> 0..MaxUses]
    BY ConnAssumption DEF ServerInit
  <2> QED
    BY <2>1, <2>2, <2>3 DEF ServerInit, TypeOK
<1>2. TypeOK /\ [ServerNext]_serverVars => TypeOK'
  <2> SUFFICES ASSUME TypeOK, [ServerNext]_serverVars
               PROVE  TypeOK'
    OBVIOUS
  <2> USE ConnAssumption DEF TypeOK
  <2>1. ASSUME NEW c \in Conns, Request(c)
        PROVE  TypeOK'
    <3>1. \A u \in Users : Streams(u)' = Streams(u)
      BY <2>1 DEF Request, Ready, Streams
    <3>2. uses' \in [Conns -> 0..MaxUses]
      BY <2>1 DEF Request, Ready
    <3> QED
      BY <2>1, <3>1, <3>2 DEF Request
  <2>2. ASSUME NEW c \in Conns, Answer(c)
        PROVE  TypeOK'
    <3>1. \A u \in Users : Streams(u)' = Streams(u)
      BY <2>2 DEF Answer, Streams
    <3> QED
      BY <2>2, <3>1 DEF Answer
  <2>3. ASSUME NEW c \in Conns, JobEnds(c)
        PROVE  TypeOK'
    BY <2>3 DEF JobEnds, Streams
  <2>4. ASSUME NEW c \in Conns, Subscribe(c)
        PROVE  TypeOK'
    <3>1. \A u \in Users : Streams(u) \subseteq Streams(u)'
      BY <2>4 DEF Subscribe, Streams
    <3>2. c \in Streams(owner[c])'
      BY <2>4 DEF Subscribe, Streams
    <3>3. \A u \in Users : client'[u] \in Streams(u)' \cup {NoConn}
      BY <2>4, <3>1, <3>2 DEF Subscribe
    <3>4. uses' \in [Conns -> 0..MaxUses]
      BY <2>4 DEF Subscribe, Ready
    <3> QED
      BY <2>4, <3>3, <3>4 DEF Subscribe
  <2>5. ASSUME NEW c \in Conns, StreamCloses(c)
        PROVE  TypeOK'
    <3>1. \A u \in Users : u # owner[c] => Streams(u)' = Streams(u)
      BY <2>5 DEF StreamCloses, Streams
    <3>2. \A u \in Users : client'[u] \in Streams(u)' \cup {NoConn}
      BY <2>5, <3>1 DEF StreamCloses, WithoutOwner
    <3> QED
      BY <2>5, <3>2 DEF StreamCloses, WithoutOwner
  <2>6. ASSUME NEW c \in Conns, KeptCloses(c)
        PROVE  TypeOK'
    <3>1. \A u \in Users : Streams(u)' = Streams(u)
      BY <2>6 DEF KeptCloses, Streams
    <3> QED
      BY <2>6, <3>1 DEF KeptCloses
  <2>7. CASE Signal
    BY <2>7 DEF Signal
  <2>8. CASE ServerCloses \/ Exit \/ ForceExit
    BY <2>8 DEF ServerCloses, Exit, ForceExit, Streams
  <2>9. CASE UNCHANGED serverVars
    BY <2>9 DEF serverVars, Streams
  <2> QED
    BY <2>1, <2>2, <2>3, <2>4, <2>5, <2>6, <2>7, <2>8, <2>9 DEF ServerNext
<1> QED
  BY <1>1, <1>2, PTL DEF ServerSpec

-----------------------------------------------------------------------------
(* The open stream of a user who has opened none beside another, and none  *)
(* after the signal, is the registered one, and such a user has none open  *)
(* once the signal has come.  A response is ended by the signal only.      *)

StreamsAreKnown ==
  \A c \in Conns : conn[c] = "stream" /\ owner[c] \notin stray =>
                     phase = "up" /\ client[owner[c]] = c
EndedBySignal == phase = "up" => \A c \in Conns : conn[c] # "ended"

KnownInv == StreamsAreKnown /\ EndedBySignal

LEMMA KnownStep ==
  ASSUME TypeOK, KnownInv, [ServerNext]_serverVars
  PROVE  KnownInv'
<1> USE ConnAssumption DEF TypeOK, KnownInv, StreamsAreKnown, EndedBySignal
<1>1. ASSUME NEW c \in Conns, Request(c) \/ Answer(c) \/ JobEnds(c) \/ KeptCloses(c)
      PROVE  KnownInv'
  BY <1>1 DEF Request, Ready, Answer, JobEnds, KeptCloses
<1>2. ASSUME NEW c \in Conns, Subscribe(c)
      PROVE  KnownInv'
  <2>1. /\ phase' = phase /\ owner' = owner /\ client' = [client EXCEPT ![owner[c]] = c]
        /\ conn' = [conn EXCEPT ![c] = "stream"]
        /\ stray \subseteq stray'
    BY <1>2 DEF Subscribe
  <2>2. ASSUME NEW d \in Conns, conn'[d] = "stream", owner'[d] \notin stray'
        PROVE  phase' = "up" /\ client'[owner'[d]] = d
    <3>1. CASE d = c
      <4>1. phase = "up"
        BY <1>2, <2>1, <2>2, <3>1 DEF Subscribe
      <4> QED
        BY <2>1, <3>1, <4>1
    <3>2. CASE d # c
      <4>1. conn[d] = "stream" /\ owner[d] \notin stray
        BY <2>1, <2>2, <3>2
      <4>2. phase = "up" /\ client[owner[d]] = d
        BY <4>1
      <4>3. owner[d] # owner[c]
        BY <1>2, <2>1, <2>2, <4>1 DEF Subscribe, Streams
      <4> QED
        BY <2>1, <4>2, <4>3
    <3> QED
      BY <3>1, <3>2
  <2>3. EndedBySignal'
    BY <2>1
  <2> QED
    BY <2>2, <2>3
<1>3. ASSUME NEW c \in Conns, StreamCloses(c)
      PROVE  KnownInv'
  <2>1. ASSUME NEW d \in Conns, conn'[d] = "stream", owner'[d] \notin stray'
        PROVE  phase' = "up" /\ client'[owner'[d]] = d
    <3>1. /\ d # c /\ conn[d] = "stream" /\ owner[d] \notin stray
          /\ phase' = phase /\ owner' = owner
      BY <1>3, <2>1 DEF StreamCloses
    <3>2. phase = "up" /\ client[owner[d]] = d
      BY <3>1
    <3>3. owner[d] = owner[c] => client[owner[c]] = c
      BY <1>3, <3>1, <3>2 DEF StreamCloses
    <3>4. owner[d] # owner[c]
      BY <3>1, <3>2, <3>3
    <3> QED
      BY <1>3, <3>1, <3>2, <3>4 DEF StreamCloses, WithoutOwner
  <2>2. EndedBySignal'
    BY <1>3 DEF StreamCloses
  <2> QED
    BY <2>1, <2>2
<1>4. CASE Signal
  <2>1. ASSUME NEW d \in Conns, owner'[d] \notin stray'
        PROVE  conn'[d] # "stream"
    <3>1. owner[d] \notin stray /\ owner[d] \in Users
      BY <1>4, <2>1 DEF Signal
    <3>2. CASE conn[d] = "stream"
      <4>1. d \in Registered
        BY <3>1, <3>2 DEF Registered
      <4> QED
        BY <1>4, <4>1 DEF Signal
    <3>3. CASE conn[d] # "stream"
      BY <1>4, <3>3 DEF Signal
    <3> QED
      BY <3>2, <3>3
  <2>2. EndedBySignal'
    BY <1>4 DEF Signal
  <2> QED
    BY <2>1, <2>2
<1>5. CASE ServerCloses
  BY <1>5 DEF ServerCloses
<1>6. CASE Exit
  <2>1. \A c \in Conns : owner[c] \notin stray => conn[c] # "stream"
    BY <1>6 DEF Exit
  <2> QED
    BY <1>6, <2>1 DEF Exit
<1>7. CASE ForceExit
  <2>1. \A c \in Conns : owner[c] \notin stray => conn[c] # "stream"
    BY <1>7 DEF ForceExit, TimeIsUp
  <2>2. phase' = "forced" /\ UNCHANGED <<conn, owner, client, stray>>
    BY <1>7 DEF ForceExit
  <2> QED
    BY <2>1, <2>2
<1>8. CASE UNCHANGED serverVars
  BY <1>8 DEF serverVars
<1> QED
  BY <1>1, <1>2, <1>3, <1>4, <1>5, <1>6, <1>7, <1>8 DEF ServerNext

LEMMA KnownInvariant == ServerSpec => []KnownInv
<1>1. ServerInit => KnownInv
  BY DEF ServerInit, KnownInv, StreamsAreKnown, EndedBySignal
<1>2. TypeOK /\ KnownInv /\ [ServerNext]_serverVars => KnownInv'
  BY KnownStep
<1> QED
  BY <1>1, <1>2, EntriesAreOpen, PTL DEF ServerSpec

\* For any number of users and connections, closeAll reaches every open stream
\* but those that replaced another or were replaced, and after it only stray
\* ones are opened: no other stream makes the server wait for the timer.
THEOREM OnlyStraysStay == ServerSpec => []OnlyStraysOutlive
<1>1. TypeOK /\ KnownInv => OnlyStraysOutlive
  BY DEF TypeOK, KnownInv, StreamsAreKnown, OnlyStraysOutlive
<1> QED
  BY <1>1, KnownInvariant, EntriesAreOpen, PTL

\* However often users come and go, one with an open stream is in the registry,
\* as long as he has opened no second one beside it.
THEOREM ListenersAreServed == ServerSpec => []ListenersAreKnown
<1>1. TypeOK /\ KnownInv => ListenersAreKnown
  BY ConnAssumption DEF TypeOK, KnownInv, StreamsAreKnown, ListenersAreKnown, Streams
<1> QED
  BY <1>1, KnownInvariant, EntriesAreOpen, PTL

-----------------------------------------------------------------------------
(* The promise to the author's page: Letterbox.                            *)

\* What the page does not know yet is about to be sent.
Informed ==
  /\ loaded => stream
  /\ known \subseteq notices
  /\ NothingMissed

BoxInv == ThreadInv /\ Informed

LEMMA BoxInitInv == BoxInit => BoxInv
<1> SUFFICES ASSUME BoxInit PROVE BoxInv
  OBVIOUS
<1>1. ThreadInv
  BY ThreadInit DEF BoxInit
<1>2. Informed
  BY DEF BoxInit, Informed, NothingMissed
<1>3. QED
  BY <1>1, <1>2 DEF BoxInv

\* A notice stays stored, and what was sent is stored.
LEMMA NoticesStay ==
  ASSUME ThreadInv, [Next]_vars
  PROVE  events' \subseteq notices' /\ notices \subseteq notices'
<1>1. notices \subseteq notices'
  BY DEF Next, CreateInquiry, Check, CheckRefuses, UpdateInquiry,
     DeleteInquiry, CreateReply, UpdateReply, Push, WriteFails, Stored, rows, vars
<1>2. ThreadInv'
  BY ThreadStepInv
<1> QED
  BY <1>1, <1>2 DEF ThreadInv, Sent

\* A step of the thread stores a notice only on its way to the event, and an
\* event goes to the open stream.
LEMMA InformedStep ==
  ASSUME ThreadInv, Informed, ThreadStep
  PROVE  Informed'
<1>1. /\ UNCHANGED <<stream, loaded>>
      /\ known' = known \cup (IF stream THEN (events' \ events) \cap Answers ELSE {})
  BY DEF ThreadStep, Promised
<1>2. [Next]_vars /\ ThreadInv'
  BY ThreadStepInv DEF ThreadStep
<1>3. events' \subseteq notices' /\ notices \subseteq notices'
  BY <1>2, NoticesStay
<1>4. \A a \in Answers : a \in notices' \ notices => pc'[a] = "push"
  BY <1>2 DEF Next, CreateInquiry, Check, CheckRefuses, UpdateInquiry,
     DeleteInquiry, CreateReply, UpdateReply, Push, WriteFails, Stored, Notified,
     rows, vars, Goto, ThreadInv, ThreadTyped, Requests
<1>5. \A a \in Answers :
        a \in notices /\ pc[a] = "push" => pc'[a] = "push" \/ a \in events' \ events
  <2> SUFFICES ASSUME NEW a \in Answers, a \in notices, pc[a] = "push"
               PROVE  pc'[a] = "push" \/ a \in events' \ events
    OBVIOUS
  <2>1. a \in Requests /\ a # Creation /\ a \notin events /\ Notified(a) = {a}
    BY KindAssumption DEF ThreadInv, Sent, Told, Notified, Requests
  <2>2. CASE \E r \in Requests : Push(r)
    BY <2>1, <2>2 DEF Push, Goto, ThreadInv, ThreadTyped
  <2>3. CASE UNCHANGED pc
    BY <2>3
  <2>4. CASE \E r \in Requests : pc[r] # "push" /\ \E s : pc' = [pc EXCEPT ![r] = s]
    BY <2>1, <2>4 DEF ThreadInv, ThreadTyped
  <2>5. QED
    BY <1>2, <2>2, <2>3, <2>4 DEF Next, CreateInquiry, Check, CheckRefuses,
       UpdateInquiry, DeleteInquiry, CreateReply, UpdateReply, WriteFails, vars,
       Goto, Requests
<1>6. QED
  BY <1>1, <1>3, <1>4, <1>5 DEF Informed, NothingMissed, Inbox

LEMMA BoxStep ==
  ASSUME BoxInv, [BoxNext]_boxVars
  PROVE  BoxInv'
<1> USE DEF BoxInv
<1>1. [Next]_vars
  BY DEF BoxNext, boxVars, ThreadStep, Listen, Load, Disconnect
<1>2. ThreadInv'
  BY <1>1, ThreadStepInv
<1>3. CASE ThreadStep
  BY <1>2, <1>3, InformedStep
<1>4. CASE Listen \/ Load \/ Disconnect \/ UNCHANGED boxVars
  <2>1. Informed'
    BY <1>4 DEF Listen, Load, Disconnect, Informed, NothingMissed, Inbox, boxVars,
                pageVars, vars
  <2>2. QED
    BY <1>2, <2>1
<1>5. QED
  BY <1>3, <1>4 DEF BoxNext

-----------------------------------------------------------------------------
(* The page over the registry: Delivery.                                   *)

LEMMA ServerOnlyRuns ==
  ASSUME [DeliveryNext]_deliveryVars
  PROVE  [ServerNext]_serverVars
BY DEF DeliveryNext, deliveryVars, ThreadRuns, PageLoads, PageLeaves, ServerRuns,
       PageListens, ServerNext

\* The composition adds nothing to what the server does.
THEOREM DeliveryServes == DeliverySpec => ServerSpec
BY ServerOnlyRuns, PTL DEF DeliverySpec, DeliveryInit, ServerSpec

\* The page reads an open stream of its author, or none.
LineInv ==
  /\ line \in Conns \cup {NoConn}
  /\ stream = (line # NoConn)
  /\ line # NoConn => conn[line] = "stream" /\ owner[line] = Author /\ Running

LEMMA LineStep ==
  ASSUME TypeOK, LineInv, [DeliveryNext]_deliveryVars
  PROVE  LineInv'
<1> USE ConnAssumption, AuthorAssumption DEF LineInv
<1>1. CASE ThreadRuns
  BY <1>1 DEF ThreadRuns, serverVars, Running
<1>2. CASE PageLoads
  BY <1>2 DEF PageLoads, Load, serverVars, Running
<1>3. CASE PageLeaves
  BY <1>3 DEF PageLeaves, Disconnect
<1>4. ASSUME NEW c \in Conns, PageListens(c)
      PROVE  LineInv'
  BY <1>4 DEF PageListens, Listen, Subscribe, Running, TypeOK
<1>5. CASE ServerRuns
  <2>1. owner' = owner
    BY <1>5 DEF ServerRuns, ServerNext, Request, Answer, JobEnds, Subscribe,
       StreamCloses, KeptCloses, Signal, ServerCloses, Exit, ForceExit
  <2>2. CASE line = NoConn \/ Holds
    BY <1>5, <2>1, <2>2 DEF ServerRuns, Holds, boxVars, pageVars
  <2>3. CASE ~ (line = NoConn \/ Holds)
    BY <1>5, <2>3 DEF ServerRuns, Disconnect
  <2> QED
    BY <2>2, <2>3
<1>6. CASE UNCHANGED deliveryVars
  BY <1>6 DEF deliveryVars, boxVars, pageVars, serverVars, Running
<1> QED
  BY <1>1, <1>2, <1>3, <1>4, <1>5, <1>6 DEF DeliveryNext

LEMMA LineInvariant == DeliverySpec => []LineInv
<1>1. DeliveryInit => LineInv
  BY DEF DeliveryInit, BoxInit, LineInv
<1>2. TypeOK /\ LineInv /\ [DeliveryNext]_deliveryVars => LineInv'
  BY LineStep
<1> QED
  BY <1>1, <1>2, DeliveryServes, EntriesAreOpen, PTL DEF DeliverySpec

\* Who has opened a stray stream has done so for good.
LEMMA StrayGrows ==
  ASSUME [ServerNext]_serverVars
  PROVE  stray \subseteq stray'
BY DEF ServerNext, serverVars, Request, Answer, JobEnds, Subscribe, StreamCloses,
       KeptCloses, Signal, ServerCloses, Exit, ForceExit

\* What the registry delivers is what the page's stream would.
LEMMA RegistryIsStream ==
  ASSUME TypeOK, KnownInv, LineInv, Author \notin stray
  PROVE  Received = Promised
<1>1. line # NoConn => client[Author] = line
  BY DEF KnownInv, StreamsAreKnown, LineInv
<1> QED
  BY <1>1 DEF Received, Promised, LineInv

LEMMA DeliveryStep ==
  ASSUME TypeOK, KnownInv, LineInv, [DeliveryNext]_deliveryVars,
         Author \notin stray'
  PROVE  [BoxNext]_boxVars
<1>1. Author \notin stray
  BY ServerOnlyRuns, StrayGrows
<1>2. CASE ThreadRuns
  BY <1>1, <1>2, RegistryIsStream DEF ThreadRuns, ThreadStep, BoxNext
<1>3. CASE PageLoads
  BY <1>3 DEF PageLoads, BoxNext
<1>4. CASE PageLeaves
  BY <1>4 DEF PageLeaves, BoxNext
<1>5. ASSUME NEW c \in Conns, PageListens(c)
      PROVE  BoxNext
  BY <1>5 DEF PageListens, BoxNext
<1>6. CASE ServerRuns
  BY <1>6 DEF ServerRuns, BoxNext
<1>7. CASE UNCHANGED deliveryVars
  BY <1>7 DEF deliveryVars
<1> QED
  BY <1>2, <1>3, <1>4, <1>5, <1>6, <1>7 DEF DeliveryNext

\* Any number of streams of other users, reconnections and a shutdown change
\* nothing: until the author has a stray stream, every step of the server and the
\* thread together is one of Letterbox, whose promise the registry then keeps.
THEOREM ArrivesThroughRegistry == DeliverySpec => RegistryDelivers
<1>1. TypeOK /\ KnownInv /\ LineInv /\ [DeliveryNext]_deliveryVars
        => [Author \notin stray' => [BoxNext]_boxVars]_deliveryVars
  BY DeliveryStep
<1> QED
  BY <1>1, DeliveryServes, EntriesAreOpen, KnownInvariant, LineInvariant, PTL
  DEF DeliverySpec, RegistryDelivers

\* With a stray stream a notice may be missed, but none is made up.
ServedInv ==
  /\ ThreadInv
  /\ known \subseteq notices
  /\ Author \notin stray => BoxInv

LEMMA ServedStep ==
  ASSUME TypeOK, KnownInv, LineInv, ServedInv, [DeliveryNext]_deliveryVars
  PROVE  ServedInv'
<1> USE DEF ServedInv
<1>1. [Next]_vars
  BY DEF DeliveryNext, deliveryVars, boxVars, pageVars, ThreadRuns, PageLoads,
     Load, PageLeaves, ServerRuns, PageListens, Listen, Disconnect
<1>2. ThreadInv'
  BY <1>1, ThreadStepInv
<1>3. known' \subseteq known \cup notices \cup events'
  BY DEF DeliveryNext, deliveryVars, boxVars, pageVars, ThreadRuns, Received,
     PageLoads, Load, Inbox, PageLeaves, ServerRuns, PageListens, Listen, Disconnect
<1>4. known' \subseteq notices'
  BY <1>1, <1>3, NoticesStay
<1>5. ASSUME Author \notin stray'
      PROVE  BoxInv'
  <2>1. Author \notin stray
    BY <1>5, ServerOnlyRuns, StrayGrows
  <2> QED
    BY <1>5, <2>1, DeliveryStep, BoxStep
<1> QED
  BY <1>2, <1>4, <1>5

\* A page that listens before it loads misses no notice, until its author has a
\* stray stream; and it knows none that was not stored.
THEOREM PageIsServed == DeliverySpec => []PageMissesNothing
<1>1. DeliveryInit => ServedInv
  BY BoxInitInv DEF DeliveryInit, BoxInit, ServedInv, BoxInv, Informed
<1>2. TypeOK /\ KnownInv /\ LineInv /\ ServedInv /\ [DeliveryNext]_deliveryVars
        => ServedInv'
  BY ServedStep
<1>3. ServedInv => PageMissesNothing
  BY DEF ServedInv, BoxInv, Informed, PageMissesNothing
<1> QED
  BY <1>1, <1>2, <1>3, DeliveryServes, EntriesAreOpen, KnownInvariant, LineInvariant,
     PTL DEF DeliverySpec
=============================================================================
