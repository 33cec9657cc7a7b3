------------------------------- MODULE Repair -------------------------------
(***************************************************************************)
(* The recoverer's ticket repair (lib/recoverer/repair.go): each sweep     *)
(* takes one page of Completed bookings whose ticket file zinc lacks,      *)
(* prints each ticket again at KTMB and attaches it; a booking that no     *)
(* retry can repair is parked for a human.                                 *)
(***************************************************************************)
EXTENDS Integers, FiniteSets, FiniteSetsExt

CONSTANTS
  Ticketless,    \* Completed bookings without a file, numbered as zinc lists them
  Unnumbered,    \* those of which zinc has no KTMB numbers
  Unknown,       \* those KTMB does not know
  RepairLimit,   \* bookings of a sweep
  MaxHiccups     \* bound: inconclusive answers

ASSUME RepairAssumption ==
  /\ Ticketless \subseteq Nat /\ IsFiniteSet(Ticketless)
  /\ Unnumbered \subseteq Ticketless /\ Unknown \subseteq Ticketless
  /\ RepairLimit \in Nat \ {0} /\ MaxHiccups \in Nat

VARIABLES
  missing,   \* Completed bookings without a ticket file
  parked,    \* bookings in ManualIntervention
  todo,      \* what is left of the sweep's page
  hiccups    \* inconclusive answers so far

repairVars == <<missing, parked, todo, hiccups>>

RepairInit == missing = Ticketless /\ parked = {} /\ todo = {} /\ hiccups = 0

\* The first RepairLimit of a listing ordered by number.
FirstPage(S) == {b \in S : Cardinality({c \in S : c < b}) < RepairLimit}

Hiccup == hiccups < MaxHiccups /\ hiccups' = hiccups + 1

\* A tick, when the last sweep is over; the listing or the login may fail.
ListMissingTickets ==
  /\ todo = {} /\ missing # {}
  /\ \/ todo' = FirstPage(missing) /\ UNCHANGED hiccups
     \/ Hiccup /\ UNCHANGED todo
  /\ UNCHANGED <<missing, parked>>

\* KTMB's answers to PrintTicket: a PDF, an empty one, or an error with its
\* status class, and whether its body matches a configured pattern, as
\* outage pages do.
Answer == [status : {"ok", "empty", "rejected", "other"}, says : BOOLEAN]
Answers(b) == IF b \in Unknown
  THEN [status : {"rejected"}, says : {TRUE}] \union [status : {"other"}, says : BOOLEAN]
  ELSE Answer \ [status : {"rejected"}, says : {TRUE}]

\* Mutant: the words alone decide.
MatchesNotFoundByBody(answer) == answer.says

MatchesNotFound(answer) == answer.status = "rejected" /\ answer.says

DropFromPage(b) == todo' = todo \ {b}

\* zinc lets the booking be parked, or refuses, and it stays listed.
Park(b) ==
  /\ \/ parked' = parked \union {b} /\ missing' = missing \ {b}
     \/ UNCHANGED <<parked, missing>>
  /\ UNCHANGED hiccups

Leave == Hiccup /\ UNCHANGED <<parked, missing>>

\* Mutant: one booking that fails ends the sweep, and the next starts over.
RepairOneOrAbort ==
  /\ todo # {}
  /\ LET b == Min(todo) IN
     IF b \in Unnumbered \union Unknown
       THEN todo' = {} /\ UNCHANGED <<missing, parked, hiccups>>
       ELSE missing' = missing \ {b} /\ DropFromPage(b) /\ UNCHANGED <<parked, hiccups>>

\* The sweep's next booking; the upload may fail as well.
RepairOne ==
  /\ todo # {}
  /\ LET b == Min(todo) IN
     /\ DropFromPage(b)
     /\ IF b \in Unnumbered
          THEN Park(b)
          ELSE \E answer \in Answers(b) :
                 CASE MatchesNotFound(answer) -> Park(b)
                   [] answer.status = "ok" ->
                        (missing' = missing \ {b} /\ UNCHANGED <<parked, hiccups>>) \/ Leave
                   [] OTHER -> Leave

RepairNext == ListMissingTickets \/ RepairOne

RepairSpec == RepairInit /\ [][RepairNext]_repairVars

RepairTypeOK ==
  /\ missing \subseteq Ticketless /\ parked \subseteq Ticketless /\ todo \subseteq Ticketless
  /\ hiccups \in 0..MaxHiccups

-----------------------------------------------------------------------------

(* Only a definitive answer takes a paid booking from the repair to a      *)
(* human: an outage page that happens to say "not found" does not.         *)
ParkedForCause == parked \subseteq Unnumbered \union Unknown
=============================================================================
