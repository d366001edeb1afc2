------------------------------- MODULE Delivery --------------------------------
(***************************************************************************)
(* How an event reaches a page: the author's page over the connections of  *)
(* Server.                                                                 *)
(*                                                                         *)
(* Letterbox promises that an event is on the stream the page has open.    *)
(* The code looks the user up in the registry of SseManager and writes to  *)
(* the response it finds (common/utils/sse.manager.ts, sendMessage), which *)
(* may be another than the one this page reads, or none.                   *)
(*                                                                         *)
(* Other pages of the author, and other users, are steps of Server.  One   *)
(* process serves them all; when it ends, so do the streams.               *)
(***************************************************************************)
EXTENDS Letterbox, Server

CONSTANT Author   \* of the inquiry, and of the page

ASSUME AuthorAssumption == Author \in Users

VARIABLE line     \* the connection the page reads, or NoConn

deliveryVars == <<boxVars, serverVars, line>>

\* sendMessage: the response of the entry is written to, whoever reads it.
Received ==
  IF line # NoConn /\ client[Author] = line THEN (events' \ events) \cap Answers ELSE {}

\* The page still reads its stream after a step of the server.
Holds == line # NoConn /\ conn'[line] = "stream" /\ Running'

-----------------------------------------------------------------------------
DeliveryInit == BoxInit /\ ServerInit /\ line = NoConn

\* A request of the inquiry or of the page, on any connection.
ThreadRuns ==
  /\ Running
  /\ Next
  /\ known' = known \cup Received
  /\ UNCHANGED <<stream, loaded, serverVars, line>>

PageLoads ==
  /\ Running
  /\ Load
  /\ UNCHANGED <<serverVars, line>>

\* The page opens its stream; one it had before, it has left.
PageListens(c) ==
  /\ owner[c] = Author
  /\ Subscribe(c)
  /\ Listen
  /\ line' = c

\* The page is closed or loses its network: the server learns it later, by the
\* close event of the connection.
PageLeaves ==
  /\ Disconnect
  /\ line' = NoConn
  /\ UNCHANGED serverVars

\* A step of the server that ends the page's stream is seen by the page.
ServerRuns ==
  /\ ServerNext
  /\ IF line = NoConn \/ Holds THEN UNCHANGED <<boxVars, line>>
                               ELSE Disconnect /\ line' = NoConn

DeliveryNext ==
  \/ ThreadRuns \/ PageLoads \/ PageLeaves \/ ServerRuns
  \/ \E c \in Conns : PageListens(c)

DeliverySpec == DeliveryInit /\ [][DeliveryNext]_deliveryVars

FairDeliverySpec == DeliverySpec /\ Fairness

-----------------------------------------------------------------------------
(* Properties.                                                             *)

\* The registry keeps the promise of Letterbox as long as the author opens no
\* stream beside another or after the signal: every step of the two together is
\* a step of Letterbox, through reconnections, other users and the shutdown
\* (sse.manager.ts:23-28, notification.controller.ts:31-36).
RegistryDelivers ==
  [][Author \notin stray' => [BoxNext]_boxVars]_deliveryVars

\* So a page that opens its stream before it loads its list misses no notice,
\* until its author has a stray stream; and whatever streams there are, it
\* knows of no notice that was not stored.
PageMissesNothing ==
  /\ known \subseteq notices
  /\ Author \notin stray => NothingMissed
=============================================================================
