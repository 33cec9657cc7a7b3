----------------------------- MODULE TicketScan -----------------------------
(***************************************************************************)
(* How the recoverer looks for a passenger's ticket on KTMB's list of      *)
(* upcoming tickets (lib/recoverer/scan.go).  The list is ascending by     *)
(* departure and read page by page, while purchases, refunds and           *)
(* departures shift it: a binary search for a page around the target       *)
(* departure, then the pages beside it.                                    *)
(***************************************************************************)
EXTENDS Integers, Sequences

CONSTANTS
  Instants,    \* departure times
  Target,      \* the one looked for
  PageSize,    \* rows of a page
  MaxRows,     \* bound: rows of the list
  MaxShifts    \* bound: rows that come or go during a scan

ASSUME TicketScanAssumption ==
  /\ Instants \subseteq Nat /\ Target \in Instants
  /\ PageSize \in Nat \ {0} /\ MaxRows \in Nat /\ MaxShifts \in Nat

VARIABLES
  rows,     \* KTMB: the list
  shifts,   \* rows that came or went
  scan      \* the scan

scanVars == <<rows, shifts, scan>>

(* A row whose departure may not parse; of our passenger with a station    *)
(* that confirms the direction, of our passenger without, or of another.   *)
Row == {r \in [at : Instants, readable : BOOLEAN, kind : {"ours", "unsure", "other"}] :
          r.kind # "other" => r.at = Target}
Ours(r) == r.kind # "other"

Ascending(list) == \A i, j \in DOMAIN list : i < j => list[i].at <= list[j].at
OneOfOurs(list) == \A i, j \in DOMAIN list : Ours(list[i]) /\ Ours(list[j]) => i = j
Lists == {l \in UNION {[1..n -> Row] : n \in 0..MaxRows} : Ascending(l) /\ OneOfOurs(l)}

TotalPage(list) == (Len(list) + PageSize - 1) \div PageSize
Page(list, p) == SubSeq(list, (p - 1) * PageSize + 1,
                        IF p * PageSize < Len(list) THEN p * PageSize ELSE Len(list))

Verdicts == {"found", "absent", "inconclusive", "failed"}
ScanState == [pc : {"first", "search", "left", "right"} \union Verdicts,
              lo : Int, hi : Int, page : Int, hit : Nat, total : Nat, first : Seq(Row)]

ScanInit ==
  /\ rows \in Lists
  /\ shifts = 0
  /\ scan = [pc |-> "first", lo |-> 1, hi |-> 0, page |-> 0, hit |-> 0, total |-> 0, first |-> <<>>]

\* findTicket's fetcher: the first page is read once.
GetPage(p) == IF p = 1 THEN scan.first ELSE Page(rows, p)

Conclude(verdict) == scan' = [scan EXCEPT !.pc = verdict]

\* A blank list says nothing.
FetchFirst ==
  /\ scan.pc = "first"
  /\ IF rows = <<>>
       THEN Conclude("inconclusive")
       ELSE scan' = [scan EXCEPT !.pc = "search", !.hi = TotalPage(rows),
                                 !.total = TotalPage(rows), !.first = Page(rows, 1)]
  /\ UNCHANGED <<rows, shifts>>

\* One page of the binary search for a page that spans the target.
Search ==
  /\ scan.pc = "search"
  /\ LET mid == (scan.lo + scan.hi) \div 2
         page == GetPage(mid)
         from == page[1]
         to == page[Len(page)]
     IN IF scan.lo > scan.hi THEN Conclude("absent")
        ELSE IF page = <<>> \/ ~from.readable \/ ~to.readable THEN Conclude("inconclusive")
        ELSE IF Target < from.at THEN scan' = [scan EXCEPT !.hi = mid - 1]
        ELSE IF Target > to.at THEN scan' = [scan EXCEPT !.lo = mid + 1]
        ELSE scan' = [scan EXCEPT !.pc = "left", !.page = mid, !.hit = mid]
  /\ UNCHANGED <<rows, shifts>>

\* Mutant: a row that cannot be read or classified is not ours.
JudgeSkipsDoubt(page) ==
  IF page = <<>> THEN "inconclusive"
  ELSE IF \E i \in DOMAIN page : page[i].readable /\ page[i].kind = "ours" THEN "found"
  ELSE IF \E i \in DOMAIN page : page[i].readable /\ page[i].at = Target THEN "on"
  ELSE "stop"

\* matchPage, then pageContainsDatetime: a match wins over any doubt.
Judge(page) ==
  IF page = <<>> THEN "inconclusive"
  ELSE IF \E i \in DOMAIN page : page[i].readable /\ page[i].kind = "ours" THEN "found"
  ELSE IF \E i \in DOMAIN page : ~page[i].readable \/ page[i].kind = "unsure" THEN "inconclusive"
  ELSE IF \E i \in DOMAIN page : page[i].at = Target THEN "on"
  ELSE "stop"

\* From the page hit to the left, then from the one after it to the right.
ScanLeft ==
  /\ scan.pc = "left"
  /\ LET verdict == Judge(GetPage(scan.page)) IN
     IF verdict \in Verdicts THEN Conclude(verdict)
     ELSE IF verdict = "on" /\ scan.page > 1 THEN scan' = [scan EXCEPT !.page = @ - 1]
     ELSE scan' = [scan EXCEPT !.pc = "right", !.page = scan.hit + 1]
  /\ UNCHANGED <<rows, shifts>>

\* Mutant: the page after the last one is read as well.
ScanRightPastEnd ==
  /\ scan.pc = "right"
  /\ LET verdict == Judge(GetPage(scan.page)) IN
     IF scan.page > scan.total + 1 THEN Conclude("absent")
     ELSE IF verdict \in Verdicts THEN Conclude(verdict)
     ELSE IF verdict = "on" THEN scan' = [scan EXCEPT !.page = @ + 1]
     ELSE Conclude("absent")
  /\ UNCHANGED <<rows, shifts>>

ScanRight ==
  /\ scan.pc = "right"
  /\ LET verdict == Judge(GetPage(scan.page)) IN
     IF scan.page > scan.total THEN Conclude("absent")
     ELSE IF verdict \in Verdicts THEN Conclude(verdict)
     ELSE IF verdict = "on" THEN scan' = [scan EXCEPT !.page = @ + 1]
     ELSE Conclude("absent")
  /\ UNCHANGED <<rows, shifts>>

\* The context is done, or KTMB does not answer.
FetchFails ==
  /\ scan.pc \notin Verdicts
  /\ Conclude("failed")
  /\ UNCHANGED <<rows, shifts>>

-----------------------------------------------------------------------------
(* KTMB.                                                                   *)

\* A row of somebody else comes or goes.
Shift ==
  /\ scan.pc \notin Verdicts /\ shifts < MaxShifts
  /\ shifts' = shifts + 1
  /\ \/ \E i \in DOMAIN rows :
          /\ ~Ours(rows[i])
          /\ rows' = SubSeq(rows, 1, i - 1) \o SubSeq(rows, i + 1, Len(rows))
     \/ \E i \in 0..Len(rows), t \in Instants :
          /\ rows' = SubSeq(rows, 1, i) \o <<[at |-> t, readable |-> TRUE, kind |-> "other"]>>
                       \o SubSeq(rows, i + 1, Len(rows))
          /\ Ascending(rows')
  /\ UNCHANGED scan

ScanNext == FetchFirst \/ Search \/ ScanLeft \/ ScanRight \/ FetchFails

\* On a list that stays as it is, and on a live one.
ScanSpec == ScanInit /\ [][ScanNext]_scanVars
ShiftingSpec == ScanInit /\ [][ScanNext \/ Shift]_scanVars

ScanTypeOK ==
  /\ rows \in Seq(Row) /\ Ascending(rows) /\ OneOfOurs(rows)
  /\ shifts \in 0..MaxShifts
  /\ scan \in ScanState

-----------------------------------------------------------------------------

Listed == \E i \in DOMAIN rows : Ours(rows[i])

(* "Returns (nil, nil) only when the ticket is definitively absent"        *)
(* (scan.go:23): a ticket of ours on the list is never reported absent,    *)
(* which would refund it, however rows are malformed or straddle pages.    *)
(* It needs a list that stays as it is: no step of a scan reads a page     *)
(* again, and a row that moves across a page's edge is not seen.           *)
AbsentIsDefinitive == scan.pc = "absent" => ~Listed

(* A list without malformed rows, of which every page is read, is never    *)
(* called inconclusive: nothing keeps the booking from being resolved.     *)
CleanListDecided ==
  scan.pc = "inconclusive" =>
    rows = <<>> \/ \E i \in DOMAIN rows : ~rows[i].readable \/ rows[i].kind = "unsure"
=============================================================================
