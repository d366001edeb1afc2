------------------------------- MODULE Directory -------------------------------
(***************************************************************************)
(* What a client may rely on when it takes a name that only one may have:  *)
(* an address, the one store of a seller, the one mark of a buyer on a     *)
(* store.  Every answer is true of some moment between request and answer. *)
(* Shop implements it.                                                     *)
(***************************************************************************)
CONSTANTS
  Names, Claims, Releases,
  NamesOf  \* of a claim or a release: the names it may be about

VARIABLES
  held,  \* pairs of a name and the claim that has it
  told   \* of a claim or a release: its answer, or "none"

vars == <<held, told>>

Taken(n) == \E c \in Claims : <<n, c>> \in held

Init ==
  /\ held \subseteq Names \X Claims
  /\ told = [r \in Claims \cup Releases |-> "none"]

Answer(r, a) == told[r] = "none" /\ told' = [told EXCEPT ![r] = a]

Claim(r) ==
  /\ Answer(r, "done")
  /\ \E n \in NamesOf[r] : ~ Taken(n) /\ held' = held \cup {<<n, r>>}

ClaimRefused(r) ==
  /\ Answer(r, "conflict")
  /\ \E n \in NamesOf[r] : Taken(n)
  /\ UNCHANGED held

Release(r) ==
  /\ Answer(r, "done")
  /\ \E n \in NamesOf[r] : Taken(n) /\ held' = held \ ({n} \X Claims)

ReleaseRefused(r) ==
  /\ Answer(r, "missing")
  /\ \E n \in NamesOf[r] : ~ Taken(n)
  /\ UNCHANGED held

\* For another reason, which promises nothing.
Fails(r) == Answer(r, "failed") /\ UNCHANGED held

\* The names of an account that withdraws.
Vanish == UNCHANGED told /\ held' \subseteq held

Next ==
  \/ Vanish
  \/ \E r \in Claims : Claim(r) \/ ClaimRefused(r)
  \/ \E r \in Releases : Release(r) \/ ReleaseRefused(r)
  \/ \E r \in Claims \cup Releases : Fails(r)

Spec == Init /\ [][Next]_vars
=============================================================================
