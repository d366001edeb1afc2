------------------------------- MODULE Letterbox -------------------------------
(***************************************************************************)
(* What the author's page may rely on, stated without the registry: every  *)
(* notice sent while the page holds its stream open arrives on it          *)
(* (notification.swagger.yaml:144).  Delivery, where events go through the *)
(* registry of SseManager, is compared with it.                            *)
(*                                                                         *)
(* This is a promise and not the code: SseManager.sendMessage knows one    *)
(* response per user, and Delivery says when that is enough.               *)
(***************************************************************************)
EXTENDS InquiryThread

VARIABLES
  stream,   \* the author's page has an open stream
  loaded,   \* it has loaded its list since it opened the stream
  known     \* the notices it has received, one way or the other

pageVars == <<stream, loaded, known>>
boxVars == <<vars, pageVars>>

\* subscribe: from here on events reach the page.
Listen ==
  /\ ~ stream
  /\ stream' = TRUE
  /\ UNCHANGED <<vars, loaded, known>>

\* getNotifications: the rows of the user, read once; a page holds them all.
Load ==
  /\ known' = known \cup Inbox
  /\ loaded' = stream
  /\ UNCHANGED <<vars, stream>>

Disconnect ==
  /\ stream
  /\ stream' = FALSE
  /\ loaded' = FALSE
  /\ UNCHANGED <<vars, known>>

\* The promise: what a step sends to the author is on the page's open stream.
Promised == IF stream THEN (events' \ events) \cap Answers ELSE {}

ThreadStep ==
  /\ Next
  /\ known' = known \cup Promised
  /\ UNCHANGED <<stream, loaded>>

-----------------------------------------------------------------------------
BoxInit == Init /\ stream = FALSE /\ loaded = FALSE /\ known = {}

BoxNext == ThreadStep \/ Listen \/ Load \/ Disconnect

BoxSpec == BoxInit /\ [][BoxNext]_boxVars

-----------------------------------------------------------------------------
\* What follows from the promise for a page that opens its stream before it
\* loads its list: it knows every stored notice but one whose event is about
\* to be sent, since createReply sends after its commit
\* (inquiry.service.ts:247-250).
NothingMissed == loaded => \A r \in Inbox \ known : pc[r] = "push"
=============================================================================
