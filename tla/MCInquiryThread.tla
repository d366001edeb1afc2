--------------------------- MODULE MCInquiryThread -----------------------------
(* One edit, two answers, an edited answer and a removal; a notice that is *)
(* marked as read; one page.                                               *)
EXTENDS Inbox, TLC

CONSTANTS a1, a2, t1, t2
Symmetric == Permutations({a1, a2}) \cup Permutations({t1, t2})
=============================================================================
