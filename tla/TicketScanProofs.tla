-------------------------- MODULE TicketScanProofs --------------------------
(***************************************************************************)
(* The scan is right for any list that stays as it is, any departures and  *)
(* any page size: it reports a ticket absent only when it is not listed,   *)
(* and gives up only on a list that is empty or has a malformed row.       *)
(***************************************************************************)
EXTENDS TicketScan, TLAPS

-----------------------------------------------------------------------------
(* Pages.                                                                  *)

\* The last row of the pages up to p, were they full.
EndOf(p) == p * PageSize

LEMMA EndOfNext == \A p \in Int : EndOf(p) \in Int /\ EndOf(p + 1) = EndOf(p) + PageSize
  BY TicketScanAssumption DEF EndOf

LEMMA EndOfMonotone == ASSUME NEW p \in Int, NEW q \in Int, p <= q PROVE EndOf(p) <= EndOf(q)
  BY TicketScanAssumption DEF EndOf

LEMMA Division ==
  ASSUME NEW a \in Nat, NEW b \in Nat \ {0}
  PROVE  a \div b \in Nat /\ b * (a \div b) <= a /\ a < b * (a \div b) + b
  OBVIOUS

LEMMA LastPage ==
  ASSUME NEW list \in Seq(Row), list # <<>>
  PROVE  /\ TotalPage(list) \in Nat /\ TotalPage(list) >= 1
         /\ EndOf(TotalPage(list) - 1) < Len(list) /\ Len(list) <= EndOf(TotalPage(list))
<1> DEFINE t == TotalPage(list)
<1>1. Len(list) \in Nat \ {0}
  OBVIOUS
<1>2. t \in Nat /\ PageSize * t <= Len(list) + PageSize - 1 /\ Len(list) + PageSize - 1 < PageSize * t + PageSize
  BY <1>1, Division, TicketScanAssumption DEF TotalPage
<1>3. EndOf(t) = PageSize * t /\ EndOf(t - 1) = PageSize * t - PageSize
  BY <1>2, TicketScanAssumption DEF EndOf
<1>4. EndOf(t - 1) < Len(list) /\ Len(list) <= EndOf(t)
  BY <1>1, <1>2, <1>3, TicketScanAssumption
<1>5. t # 0
  BY <1>1, <1>3, <1>4, TicketScanAssumption DEF EndOf
<1> QED
  BY <1>2, <1>4, <1>5

\* The last row that page p has.
LastRow(list, p) == IF EndOf(p) < Len(list) THEN EndOf(p) ELSE Len(list)

LEMMA PageRows ==
  ASSUME NEW list \in Seq(Row), NEW p \in Nat \ {0}, EndOf(p - 1) < Len(list)
  PROVE  /\ EndOf(p - 1) \in Nat /\ LastRow(list, p) \in Nat /\ EndOf(p - 1) < LastRow(list, p)
         /\ Page(list, p) \in Seq(Row)
         /\ Len(Page(list, p)) = LastRow(list, p) - EndOf(p - 1)
         /\ \A i \in 1..Len(Page(list, p)) :
              /\ EndOf(p - 1) + i \in DOMAIN list
              /\ Page(list, p)[i] = list[EndOf(p - 1) + i]
<1> DEFINE from == EndOf(p - 1)
           to == LastRow(list, p)
<1>1. from \in Nat /\ EndOf(p) = from + PageSize
  BY TicketScanAssumption DEF EndOf
<1>2. to \in Nat /\ from < to /\ to <= Len(list)
  BY <1>1, TicketScanAssumption DEF LastRow
<1>3. Page(list, p) = SubSeq(list, from + 1, to)
  BY DEF Page, EndOf, LastRow
<1> HIDE DEF from, to
<1>4. Len(SubSeq(list, from + 1, to)) = to - from
  BY <1>1, <1>2
<1>5. \A i \in 1..(to - from) : from + i \in DOMAIN list /\ SubSeq(list, from + 1, to)[i] = list[from + i]
  BY <1>1, <1>2
<1>6. SubSeq(list, from + 1, to) \in Seq(Row)
  BY <1>1, <1>2
<1> QED
  BY <1>1, <1>2, <1>3, <1>4, <1>5, <1>6 DEF from, to

LEMMA JudgeReads ==
  ASSUME NEW page \in Seq(Row), page # <<>>
  PROVE  /\ Judge(page) \in {"found", "inconclusive", "on", "stop"}
         /\ Judge(page) \in {"on", "stop"} => \A i \in DOMAIN page : ~Ours(page[i])
         /\ Judge(page) = "on" => \E i \in DOMAIN page : page[i].at = Target
         /\ Judge(page) = "stop" => \A i \in DOMAIN page : page[i].at # Target
         /\ Judge(page) = "inconclusive" => \E i \in DOMAIN page : ~page[i].readable \/ page[i].kind = "unsure"
<1> DEFINE known == \E i \in DOMAIN page : page[i].readable /\ page[i].kind = "ours"
           doubt == \E i \in DOMAIN page : ~page[i].readable \/ page[i].kind = "unsure"
           there == \E i \in DOMAIN page : page[i].at = Target
<1>1. ~known /\ ~doubt => \A i \in DOMAIN page : ~Ours(page[i])
  <2>1. \A i \in DOMAIN page : page[i].kind \in {"ours", "unsure", "other"}
    BY DEF Row
  <2> QED
    BY <2>1 DEF Ours
<1>2. known => Judge(page) = "found"
  BY DEF Judge
<1>3. ~known /\ doubt => Judge(page) = "inconclusive"
  BY DEF Judge
<1>4. ~known /\ ~doubt /\ there => Judge(page) = "on"
  BY DEF Judge
<1>5. ~known /\ ~doubt /\ ~there => Judge(page) = "stop"
  BY DEF Judge
<1>6. ~there => \A i \in DOMAIN page : page[i].at # Target
  OBVIOUS
<1> HIDE DEF known, doubt, there
<1>7. known \/ (~known /\ doubt) \/ (~known /\ ~doubt /\ there) \/ (~known /\ ~doubt /\ ~there)
  OBVIOUS
<1>8. Judge(page) \in {"found", "inconclusive", "on", "stop"}
  BY <1>2, <1>3, <1>4, <1>5, <1>7
<1>9. Judge(page) \in {"on", "stop"} => ~known /\ ~doubt
  BY <1>2, <1>3, <1>7
<1>10. Judge(page) = "on" => there
  BY <1>2, <1>3, <1>5, <1>7
<1>11. Judge(page) = "stop" => ~there
  BY <1>2, <1>3, <1>4, <1>7
<1>12. Judge(page) = "inconclusive" => doubt
  BY <1>2, <1>4, <1>5, <1>7
<1> QED
  BY <1>1, <1>6, <1>8, <1>9, <1>10, <1>11, <1>12 DEF doubt, there

-----------------------------------------------------------------------------
(* The invariant.                                                          *)

Scanning == {"search", "left", "right"}

\* The pages are those of the list.
ListRead ==
  /\ scan.pc = "first" => scan.lo = 1
  /\ scan.pc \in Scanning =>
       rows # <<>> /\ scan.first = Page(rows, 1) /\ scan.total = TotalPage(rows)

\* Our ticket, if it is listed, is on a page from lo to hi.
SearchInv ==
  scan.pc = "search" =>
    /\ 1 <= scan.lo /\ scan.hi <= scan.total
    /\ \A i \in DOMAIN rows : Ours(rows[i]) => EndOf(scan.lo - 1) < i /\ i <= EndOf(scan.hi)

\* A row of page p.
OnPage(p, i) == EndOf(p - 1) < i /\ i <= EndOf(p)

\* The page hit has departures on both sides of the target's.
Spans ==
  \E i, j \in DOMAIN rows :
    /\ OnPage(scan.hit, i) /\ rows[i].at <= Target
    /\ OnPage(scan.hit, j) /\ Target <= rows[j].at

\* It is on none of the pages read so far, from the one hit to the left,
\* which have a row of its departure.
LeftInv ==
  scan.pc = "left" =>
    /\ 1 <= scan.page /\ scan.page <= scan.hit /\ scan.hit <= scan.total
    /\ \A i \in DOMAIN rows : Ours(rows[i]) => i <= EndOf(scan.page) \/ EndOf(scan.hit) < i
    /\ \/ scan.page = scan.hit /\ Spans
       \/ \E j \in DOMAIN rows : EndOf(scan.page) < j /\ j <= EndOf(scan.hit) /\ rows[j].at = Target

\* It is on none of the pages before, which have a row of its departure.
RightInv ==
  scan.pc = "right" =>
    /\ 2 <= scan.page /\ scan.page <= scan.total + 1
    /\ \A i \in DOMAIN rows : Ours(rows[i]) =>
         /\ EndOf(scan.page - 1) < i
         /\ \E j \in DOMAIN rows : j <= EndOf(scan.page - 1) /\ rows[j].at = Target

ScanInv ==
  /\ ScanTypeOK /\ ListRead /\ SearchInv /\ LeftInv /\ RightInv
  /\ AbsentIsDefinitive /\ CleanListDecided

\* What every page that a scan reads is.
LEMMA PageRead ==
  ASSUME ScanTypeOK, ListRead, scan.pc \in Scanning,
         NEW p \in Nat \ {0}, p <= scan.total
  PROVE  /\ GetPage(p) = Page(rows, p)
         /\ Page(rows, p) \in Seq(Row) /\ Page(rows, p) # <<>>
         /\ EndOf(p - 1) \in Nat /\ EndOf(p) \in Nat
         /\ \A i \in DOMAIN Page(rows, p) :
              /\ EndOf(p - 1) + i \in DOMAIN rows /\ EndOf(p - 1) + i <= EndOf(p)
              /\ Page(rows, p)[i] = rows[EndOf(p - 1) + i]
         /\ \A k \in DOMAIN rows : EndOf(p - 1) < k /\ k <= EndOf(p) =>
              /\ k - EndOf(p - 1) \in DOMAIN Page(rows, p)
              /\ Page(rows, p)[k - EndOf(p - 1)] = rows[k]
<1>1. rows \in Seq(Row) /\ rows # <<>> /\ scan.total = TotalPage(rows)
  BY DEF ScanTypeOK, ListRead
<1>2. TotalPage(rows) \in Nat /\ EndOf(TotalPage(rows) - 1) < Len(rows)
  BY <1>1, LastPage
<1>3. EndOf(p - 1) <= EndOf(TotalPage(rows) - 1)
  BY <1>1, <1>2, EndOfMonotone
<1>4. EndOf(p - 1) \in Int /\ EndOf(TotalPage(rows) - 1) \in Int
  BY <1>2, TicketScanAssumption DEF EndOf
<1>5. EndOf(p - 1) < Len(rows)
  BY <1>1, <1>2, <1>3, <1>4
<1>6. GetPage(p) = Page(rows, p)
  BY DEF GetPage, ListRead
<1>7. EndOf(p) \in Nat
  BY TicketScanAssumption DEF EndOf
<1>8. /\ Page(rows, p) \in Seq(Row) /\ EndOf(p - 1) \in Nat
      /\ LastRow(rows, p) \in Nat /\ EndOf(p - 1) < LastRow(rows, p)
      /\ Len(Page(rows, p)) = LastRow(rows, p) - EndOf(p - 1)
      /\ \A i \in 1..Len(Page(rows, p)) :
           /\ EndOf(p - 1) + i \in DOMAIN rows
           /\ Page(rows, p)[i] = rows[EndOf(p - 1) + i]
  BY <1>1, <1>5, PageRows
<1>9. DOMAIN Page(rows, p) = 1..(LastRow(rows, p) - EndOf(p - 1)) /\ Page(rows, p) # <<>>
  BY <1>8
<1>10. LastRow(rows, p) <= EndOf(p)
  BY <1>1, <1>7 DEF LastRow
<1>11. ASSUME NEW k \in DOMAIN rows, EndOf(p - 1) < k, k <= EndOf(p)
       PROVE  /\ k - EndOf(p - 1) \in DOMAIN Page(rows, p)
              /\ Page(rows, p)[k - EndOf(p - 1)] = rows[k]
  <2>1. k \in Nat /\ k <= LastRow(rows, p)
    BY <1>1, <1>11 DEF LastRow
  <2>2. k - EndOf(p - 1) \in 1..Len(Page(rows, p))
    BY <1>8, <1>11, <2>1
  <2>3. EndOf(p - 1) + (k - EndOf(p - 1)) = k
    BY <1>8, <2>1
  <2> QED
    BY <1>8, <1>9, <2>2, <2>3
<1>12. \A i \in DOMAIN Page(rows, p) : EndOf(p - 1) + i <= EndOf(p)
  BY <1>7, <1>8, <1>9, <1>10
<1> QED
  BY <1>6, <1>7, <1>8, <1>9, <1>11, <1>12

LEMMA ListRows ==
  ASSUME ScanTypeOK
  PROVE  /\ DOMAIN rows \subseteq Nat \ {0}
         /\ \A i \in DOMAIN rows : rows[i] \in Row /\ rows[i].at \in Nat
         /\ \A i \in DOMAIN rows : Ours(rows[i]) => rows[i].at = Target
         /\ \A i, j \in DOMAIN rows : i <= j => rows[i].at <= rows[j].at
         /\ Target \in Nat
<1>1. rows \in Seq(Row) /\ Ascending(rows)
  BY DEF ScanTypeOK
<1>2. DOMAIN rows \subseteq Nat \ {0} /\ \A i \in DOMAIN rows : rows[i] \in Row
  BY <1>1
<1>3. \A i \in DOMAIN rows : rows[i].at \in Nat /\ (Ours(rows[i]) => rows[i].at = Target)
  BY <1>2, TicketScanAssumption DEF Row, Ours
<1>4. ASSUME NEW i \in DOMAIN rows, NEW j \in DOMAIN rows, i <= j
      PROVE  rows[i].at <= rows[j].at
  <2>1. CASE i < j
    BY <1>1, <2>1 DEF Ascending
  <2>2. CASE i = j
    BY <1>3, <2>2
  <2> QED
    BY <1>2, <1>4, <2>1, <2>2
<1> QED
  BY <1>2, <1>3, <1>4, TicketScanAssumption

\* What the verdict on a page says of the list.
LEMMA PageJudged ==
  ASSUME ScanTypeOK, ListRead, scan.pc \in Scanning,
         NEW p \in Nat \ {0}, p <= scan.total
  PROVE  LET verdict == Judge(GetPage(p)) IN
         /\ verdict \in {"found", "inconclusive", "on", "stop"}
         /\ verdict \in {"on", "stop"} => \A k \in DOMAIN rows : OnPage(p, k) => ~Ours(rows[k])
         /\ verdict = "on" => \E k \in DOMAIN rows : OnPage(p, k) /\ rows[k].at = Target
         /\ verdict = "stop" => \A k \in DOMAIN rows : OnPage(p, k) => rows[k].at # Target
         /\ verdict = "inconclusive" => \E k \in DOMAIN rows : ~rows[k].readable \/ rows[k].kind = "unsure"
         /\ EndOf(p - 1) + 1 \in DOMAIN rows /\ OnPage(p, EndOf(p - 1) + 1)
<1> DEFINE page == Page(rows, p)
           e == EndOf(p - 1)
<1>1. /\ GetPage(p) = page /\ page \in Seq(Row) /\ page # <<>> /\ e \in Nat /\ EndOf(p) \in Nat
      /\ \A i \in DOMAIN page : e + i \in DOMAIN rows /\ e + i <= EndOf(p) /\ page[i] = rows[e + i]
      /\ \A k \in DOMAIN rows : e < k /\ k <= EndOf(p) => k - e \in DOMAIN page /\ page[k - e] = rows[k]
  BY PageRead
<1> HIDE DEF page, e
<1>2. /\ Judge(page) \in {"found", "inconclusive", "on", "stop"}
      /\ Judge(page) \in {"on", "stop"} => \A i \in DOMAIN page : ~Ours(page[i])
      /\ Judge(page) = "on" => \E i \in DOMAIN page : page[i].at = Target
      /\ Judge(page) = "stop" => \A i \in DOMAIN page : page[i].at # Target
      /\ Judge(page) = "inconclusive" => \E i \in DOMAIN page : ~page[i].readable \/ page[i].kind = "unsure"
  BY <1>1, JudgeReads
<1>3. \A i \in DOMAIN page : e + i \in DOMAIN rows /\ e < e + i /\ e + i <= EndOf(p)
  <2>1. \A i \in DOMAIN page : i \in Nat /\ i >= 1
    BY <1>1
  <2> QED
    BY <1>1, <2>1
<1>4. \A i \in DOMAIN page : OnPage(p, e + i)
  BY <1>3 DEF OnPage, e
<1>5. 1 \in DOMAIN page
  BY <1>1
<1>6. \A k \in DOMAIN rows : OnPage(p, k) => \E i \in DOMAIN page : page[i] = rows[k]
  BY <1>1 DEF OnPage, e
<1>7. \A i \in DOMAIN page : \E k \in DOMAIN rows : OnPage(p, k) /\ page[i] = rows[k]
  BY <1>1, <1>4
<1>8. e + 1 \in DOMAIN rows /\ OnPage(p, e + 1)
  BY <1>1, <1>4, <1>5
<1>9. Judge(page) \in {"on", "stop"} => \A k \in DOMAIN rows : OnPage(p, k) => ~Ours(rows[k])
  BY <1>2, <1>6
<1>10. Judge(page) = "on" => \E k \in DOMAIN rows : OnPage(p, k) /\ rows[k].at = Target
  BY <1>2, <1>7
<1>11. Judge(page) = "stop" => \A k \in DOMAIN rows : OnPage(p, k) => rows[k].at # Target
  BY <1>2, <1>6
<1>12. Judge(page) = "inconclusive" => \E k \in DOMAIN rows : ~rows[k].readable \/ rows[k].kind = "unsure"
  BY <1>2, <1>7
<1> QED
  BY <1>1, <1>2, <1>8, <1>9, <1>10, <1>11, <1>12 DEF e

-----------------------------------------------------------------------------
(* The steps.                                                              *)

\* A scan that ends keeps its promises if its verdict does.
LEMMA Concluded ==
  ASSUME ScanInv, UNCHANGED <<rows, shifts>>, NEW v \in Verdicts, Conclude(v),
         v = "absent" => ~Listed,
         v = "inconclusive" => rows = <<>> \/ \E i \in DOMAIN rows : ~rows[i].readable \/ rows[i].kind = "unsure"
  PROVE  ScanInv'
<1>1. scan \in ScanState
  BY DEF ScanInv, ScanTypeOK
<1>2. scan' \in ScanState /\ scan'.pc = v
  BY <1>1 DEF ScanState, Conclude, Verdicts
<1>3. v \notin Scanning /\ v # "first" /\ v # "search" /\ v # "left" /\ v # "right"
  BY DEF Verdicts, Scanning
<1>4. ScanTypeOK'
  BY <1>2 DEF ScanInv, ScanTypeOK, Ascending, OneOfOurs
<1>5. (ListRead /\ SearchInv /\ LeftInv /\ RightInv)'
  BY <1>2, <1>3 DEF ListRead, SearchInv, LeftInv, RightInv
<1>6. AbsentIsDefinitive'
  BY <1>2 DEF AbsentIsDefinitive, Listed
<1>7. CleanListDecided'
  BY <1>2 DEF CleanListDecided
<1> QED
  BY <1>4, <1>5, <1>6, <1>7 DEF ScanInv

LEMMA FetchFirstKeeps == ASSUME ScanInv, FetchFirst PROVE ScanInv'
<1>1. scan.pc = "first" /\ scan.lo = 1 /\ scan \in ScanState /\ rows \in Seq(Row) /\ UNCHANGED <<rows, shifts>>
  BY DEF FetchFirst, ScanInv, ScanTypeOK, ListRead
<1>2. CASE rows = <<>>
  BY <1>1, <1>2, Concluded DEF FetchFirst, Verdicts
<1>3. CASE rows # <<>>
  <2> DEFINE t == TotalPage(rows)
  <2>1. scan' = [scan EXCEPT !.pc = "search", !.hi = t, !.total = t, !.first = Page(rows, 1)]
    BY <1>3 DEF FetchFirst
  <2>2. t \in Nat /\ Len(rows) <= EndOf(t)
    BY <1>1, <1>3, LastPage
  <2>3. EndOf(1 - 1) = 0
    BY TicketScanAssumption DEF EndOf
  <2>4. Page(rows, 1) \in Seq(Row)
    <3>1. EndOf(1 - 1) < Len(rows)
      BY <1>1, <1>3, <2>3
    <3> QED
      BY <1>1, <3>1, PageRows
  <2> HIDE DEF t
  <2>5. /\ scan' \in ScanState /\ scan'.pc = "search" /\ scan'.lo = 1 /\ scan'.hi = t
        /\ scan'.total = t /\ scan'.first = Page(rows, 1)
    <3> DEFINE first == Page(rows, 1)
    <3>1. first \in Seq(Row) /\ t \in Int /\ t \in Nat
      BY <2>2, <2>4
    <3>2. scan' = [scan EXCEPT !.pc = "search", !.hi = t, !.total = t, !.first = first]
      BY <2>1
    <3> HIDE DEF first
    <3>3. scan' \in ScanState
      BY <1>1, <3>1, <3>2 DEF ScanState
    <3>4. /\ scan'.pc = "search" /\ scan'.lo = scan.lo /\ scan'.hi = t
          /\ scan'.total = t /\ scan'.first = first
      BY <1>1, <3>2 DEF ScanState
    <3> QED
      BY <1>1, <3>3, <3>4 DEF first
  <2>6. ScanTypeOK'
    BY <1>1, <2>5 DEF ScanInv, ScanTypeOK, Ascending, OneOfOurs
  <2>7. ListRead'
    BY <1>1, <1>3, <2>5 DEF ListRead, t
  <2>8. SearchInv'
    <3>1. EndOf(t) \in Int
      BY <2>2, EndOfNext
    <3>2. \A i \in DOMAIN rows : EndOf(1 - 1) < i /\ i <= EndOf(t)
      BY <1>1, <2>2, <2>3, <3>1
    <3> QED
      BY <1>1, <2>2, <2>5, <3>2 DEF SearchInv
  <2>9. (LeftInv /\ RightInv /\ AbsentIsDefinitive /\ CleanListDecided)'
    BY <2>5 DEF LeftInv, RightInv, AbsentIsDefinitive, CleanListDecided
  <2> QED
    BY <2>6, <2>7, <2>8, <2>9 DEF ScanInv
<1> QED
  BY <1>2, <1>3

\* A scan that goes on has only its place to keep.
LEMMA Moved ==
  ASSUME ScanInv, UNCHANGED <<rows, shifts>>, scan.pc \in Scanning,
         scan' \in ScanState, scan'.pc \in Scanning,
         scan'.first = scan.first, scan'.total = scan.total,
         SearchInv', LeftInv', RightInv'
  PROVE  ScanInv'
<1>1. ScanTypeOK'
  BY DEF ScanInv, ScanTypeOK, Ascending, OneOfOurs
<1>2. ListRead'
  BY DEF ScanInv, ListRead, Scanning
<1>3. AbsentIsDefinitive' /\ CleanListDecided'
  BY DEF AbsentIsDefinitive, CleanListDecided, Scanning
<1> QED
  BY <1>1, <1>2, <1>3 DEF ScanInv

\* Half of what is left is ruled out by the order of the departures.
LEMMA SearchKeeps == ASSUME ScanInv, Search PROVE ScanInv'
<1> DEFINE lo == scan.lo
           hi == scan.hi
           mid == (lo + hi) \div 2
           page == GetPage(mid)
           from == page[1]
           to == page[Len(page)]
<1>1. scan.pc = "search" /\ UNCHANGED <<rows, shifts>>
  BY DEF Search
<1>2. scan \in ScanState /\ lo \in Int /\ hi \in Int /\ scan.total \in Nat
  BY DEF ScanInv, ScanTypeOK, ScanState
<1>3. /\ 1 <= lo /\ hi <= scan.total
      /\ \A i \in DOMAIN rows : Ours(rows[i]) => EndOf(lo - 1) < i /\ i <= EndOf(hi)
  BY <1>1 DEF ScanInv, SearchInv
<1>4. /\ DOMAIN rows \subseteq Nat \ {0} /\ Target \in Nat
      /\ \A i \in DOMAIN rows : rows[i].at \in Nat
      /\ \A i \in DOMAIN rows : Ours(rows[i]) => rows[i].at = Target
      /\ \A i, j \in DOMAIN rows : i <= j => rows[i].at <= rows[j].at
  BY ListRows DEF ScanInv
<1>5. CASE lo > hi
  <2>1. hi \in Int /\ lo - 1 \in Int /\ hi <= lo - 1
    BY <1>2, <1>5
  <2> HIDE DEF lo, hi
  <2>2. EndOf(hi) <= EndOf(lo - 1)
    BY <2>1, EndOfMonotone
  <2>3. EndOf(hi) \in Int /\ EndOf(lo - 1) \in Int
    BY <2>1, EndOfNext
  <2>4. ~Listed
    BY <1>3, <1>4, <2>2, <2>3 DEF Listed
  <2>5. Conclude("absent")
    BY <1>5 DEF Search, lo, hi
  <2> QED
    BY <1>1, <2>4, <2>5, Concluded DEF Verdicts
<1>6. CASE ~(lo > hi)
  <2>1. mid \in Nat \ {0} /\ lo <= mid /\ mid <= hi
    <3>1. lo \in Nat /\ hi \in Nat /\ lo + hi \in Nat
      BY <1>2, <1>3, <1>6
    <3>2. mid \in Nat /\ 2 * mid <= lo + hi /\ lo + hi < 2 * mid + 2
      BY <3>1, Division
    <3> QED
      BY <1>2, <1>3, <1>6, <3>1, <3>2
  <2> DEFINE e == EndOf(mid - 1)
  <2>2. /\ page \in Seq(Row) /\ page # <<>> /\ e \in Nat /\ EndOf(mid) \in Nat
        /\ \A i \in DOMAIN page : e + i \in DOMAIN rows /\ e + i <= EndOf(mid) /\ page[i] = rows[e + i]
        /\ \A k \in DOMAIN rows : e < k /\ k <= EndOf(mid) => k - e \in DOMAIN page /\ page[k - e] = rows[k]
    <3>1. mid <= scan.total
      BY <1>2, <1>3, <2>1
    <3>2. ScanTypeOK /\ ListRead /\ scan.pc \in Scanning
      BY <1>1 DEF ScanInv, Scanning
    <3> HIDE DEF mid
    <3> QED
      BY <2>1, <3>1, <3>2, PageRead
  <2>3. /\ IF page = <<>> \/ ~from.readable \/ ~to.readable THEN Conclude("inconclusive")
           ELSE IF Target < from.at THEN scan' = [scan EXCEPT !.hi = mid - 1]
           ELSE IF Target > to.at THEN scan' = [scan EXCEPT !.lo = mid + 1]
           ELSE scan' = [scan EXCEPT !.pc = "left", !.page = mid, !.hit = mid]
    BY <1>6 DEF Search
  <2> DEFINE n == Len(page)
  <2> HIDE DEF mid, page, e, n, from, to, lo, hi
  <2>4. /\ e + 1 \in DOMAIN rows /\ e < e + 1 /\ e + 1 <= EndOf(mid) /\ from = rows[e + 1]
        /\ n \in Nat /\ e + n \in DOMAIN rows /\ e < e + n /\ e + n <= EndOf(mid) /\ to = rows[e + n]
    <3>1. 1 \in DOMAIN page /\ n \in DOMAIN page /\ n \in Nat /\ n >= 1
      BY <2>2 DEF n
    <3> QED
      BY <2>2, <3>1 DEF from, to, n
  <2>5. \A k \in DOMAIN rows : k <= EndOf(mid) => k <= e + n
    <3> SUFFICES ASSUME NEW k \in DOMAIN rows, k <= EndOf(mid), e < k PROVE k <= e + n
      BY <1>4, <2>2, <2>4
    <3>1. k - e \in DOMAIN page /\ DOMAIN page = 1..n
      BY <2>2 DEF n
    <3> QED
      BY <1>4, <2>2, <2>4, <3>1
  <2>6. from.at \in Nat /\ to.at \in Nat
    BY <1>4, <2>4
  <2>7. CASE ~from.readable \/ ~to.readable
    <3>1. Conclude("inconclusive")
      BY <2>3, <2>7
    <3>2. \E i \in DOMAIN rows : ~rows[i].readable
      BY <2>4, <2>7
    <3> QED
      BY <1>1, <3>1, <3>2, Concluded DEF Verdicts
  <2>8. CASE from.readable /\ to.readable /\ Target < from.at
    <3>1. scan' = [scan EXCEPT !.hi = mid - 1]
      BY <2>2, <2>3, <2>8
    <3>2. /\ scan' \in ScanState /\ scan'.pc = "search" /\ scan'.lo = lo /\ scan'.hi = mid - 1
          /\ scan'.total = scan.total /\ scan'.first = scan.first
      BY <1>1, <1>2, <2>1, <3>1 DEF ScanState, lo
    <3>3. ASSUME NEW i \in DOMAIN rows, Ours(rows[i]) PROVE EndOf(lo - 1) < i /\ i <= e
      <4>1. rows[i].at < rows[e + 1].at
        BY <1>4, <2>4, <2>8, <3>3
      <4>2. ~(e + 1 <= i)
        BY <1>4, <2>4, <4>1
      <4> QED
        BY <1>3, <1>4, <2>2, <3>3, <4>2
    <3>4. SearchInv'
      <4>1. mid - 1 <= scan.total
        BY <1>2, <1>3, <2>1
      <4> QED
        BY <1>1, <1>3, <3>2, <3>3, <4>1 DEF SearchInv, e
    <3>5. LeftInv' /\ RightInv'
      BY <3>2 DEF LeftInv, RightInv
    <3> QED
      BY <1>1, <3>2, <3>4, <3>5, Moved DEF Scanning
  <2>9. CASE from.readable /\ to.readable /\ ~(Target < from.at) /\ Target > to.at
    <3>1. scan' = [scan EXCEPT !.lo = mid + 1]
      BY <2>2, <2>3, <2>9
    <3>2. /\ scan' \in ScanState /\ scan'.pc = "search" /\ scan'.lo = mid + 1 /\ scan'.hi = hi
          /\ scan'.total = scan.total /\ scan'.first = scan.first
      BY <1>1, <1>2, <2>1, <3>1 DEF ScanState, hi
    <3>3. ASSUME NEW i \in DOMAIN rows, Ours(rows[i]) PROVE EndOf(mid) < i /\ i <= EndOf(hi)
      <4>1. rows[e + n].at < rows[i].at
        BY <1>4, <2>4, <2>9, <3>3
      <4>2. ~(i <= e + n)
        BY <1>4, <2>4, <4>1
      <4>3. ~(i <= EndOf(mid))
        BY <2>5, <4>2
      <4> QED
        BY <1>3, <1>4, <2>2, <3>3, <4>3
    <3>4. SearchInv'
      <4>1. 1 <= mid + 1 /\ (mid + 1) - 1 = mid
        BY <2>1
      <4> QED
        BY <1>1, <1>3, <3>2, <3>3, <4>1 DEF SearchInv
    <3>5. LeftInv' /\ RightInv'
      BY <3>2 DEF LeftInv, RightInv
    <3> QED
      BY <1>1, <3>2, <3>4, <3>5, Moved DEF Scanning
  <2>10. CASE from.readable /\ to.readable /\ ~(Target < from.at) /\ ~(Target > to.at)
    <3>1. scan' = [scan EXCEPT !.pc = "left", !.page = mid, !.hit = mid]
      BY <2>2, <2>3, <2>10
    <3>2. scan' \in ScanState
      <4>1. mid \in Int /\ mid \in Nat
        BY <2>1
      <4> QED
        BY <1>2, <3>1, <4>1 DEF ScanState
    <3>3. /\ scan'.pc = "left" /\ scan'.page = mid /\ scan'.hit = mid
          /\ scan'.total = scan.total /\ scan'.first = scan.first
      BY <1>2, <3>1 DEF ScanState
    <3>4. Spans'
      <4>1. rows[e + 1].at <= Target /\ Target <= rows[e + n].at
        BY <1>4, <2>4, <2>6, <2>10
      <4>2. OnPage(mid, e + 1) /\ OnPage(mid, e + n)
        BY <2>4 DEF OnPage, e
      <4> QED
        BY <1>1, <2>4, <3>3, <4>1, <4>2 DEF Spans
    <3>5. LeftInv'
      <4>1. 1 <= mid /\ mid <= mid /\ mid <= scan.total
        BY <1>2, <1>3, <2>1
      <4>2. \A i \in DOMAIN rows : i <= EndOf(mid) \/ EndOf(mid) < i
        BY <1>4, <2>2
      <4> QED
        BY <1>1, <3>3, <3>4, <4>1, <4>2 DEF LeftInv
    <3>6. SearchInv' /\ RightInv'
      BY <3>3 DEF SearchInv, RightInv
    <3> QED
      BY <1>1, <3>2, <3>3, <3>5, <3>6, Moved DEF Scanning
  <2> QED
    BY <2>7, <2>8, <2>9, <2>10
<1> QED
  BY <1>5, <1>6

\* The row next to the ones known to be of the target's departure tells
\* whether more of them can follow.
LEMMA ScanLeftKeeps == ASSUME ScanInv, ScanLeft PROVE ScanInv'
<1> DEFINE p == scan.page
           hit == scan.hit
           verdict == Judge(GetPage(p))
           first == EndOf(p - 1) + 1
<1>1. scan.pc = "left" /\ UNCHANGED <<rows, shifts>>
  BY DEF ScanLeft
<1>2. scan \in ScanState /\ p \in Int /\ hit \in Nat /\ scan.total \in Nat
  BY DEF ScanInv, ScanTypeOK, ScanState
<1>3. /\ 1 <= p /\ p <= hit /\ hit <= scan.total
      /\ \A i \in DOMAIN rows : Ours(rows[i]) => i <= EndOf(p) \/ EndOf(hit) < i
      /\ \/ p = hit /\ Spans
         \/ \E j \in DOMAIN rows : EndOf(p) < j /\ j <= EndOf(hit) /\ rows[j].at = Target
  BY <1>1 DEF ScanInv, LeftInv
<1>4. /\ DOMAIN rows \subseteq Nat \ {0} /\ Target \in Nat
      /\ \A i \in DOMAIN rows : rows[i].at \in Nat
      /\ \A i \in DOMAIN rows : Ours(rows[i]) => rows[i].at = Target
      /\ \A i, j \in DOMAIN rows : i <= j => rows[i].at <= rows[j].at
  BY ListRows DEF ScanInv
<1>5. /\ verdict \in {"found", "inconclusive", "on", "stop"}
      /\ verdict \in {"on", "stop"} => \A k \in DOMAIN rows : OnPage(p, k) => ~Ours(rows[k])
      /\ verdict = "on" => \E k \in DOMAIN rows : OnPage(p, k) /\ rows[k].at = Target
      /\ verdict = "stop" => \A k \in DOMAIN rows : OnPage(p, k) => rows[k].at # Target
      /\ verdict = "inconclusive" => \E k \in DOMAIN rows : ~rows[k].readable \/ rows[k].kind = "unsure"
      /\ first \in DOMAIN rows /\ OnPage(p, first)
  <2>1. p \in Nat \ {0} /\ p <= scan.total
    BY <1>2, <1>3
  <2>2. ScanTypeOK /\ ListRead /\ scan.pc \in Scanning
    BY <1>1 DEF ScanInv, Scanning
  <2> QED
    BY <2>1, <2>2, PageJudged
<1>6. /\ verdict \in Verdicts => Conclude(verdict)
      /\ verdict \notin Verdicts /\ verdict = "on" /\ p > 1 => scan' = [scan EXCEPT !.page = p - 1]
      /\ verdict \notin Verdicts /\ ~(verdict = "on" /\ p > 1) =>
           scan' = [scan EXCEPT !.pc = "right", !.page = hit + 1]
  BY DEF ScanLeft
<1>7. EndOf(p - 1) \in Int /\ EndOf(p) \in Int /\ EndOf(hit) \in Int /\ EndOf(p) <= EndOf(hit) /\ EndOf(p - 1) <= EndOf(p)
  <2>1. EndOf(p - 1) \in Int /\ EndOf(p) \in Int /\ EndOf(hit) \in Int
    BY <1>2, EndOfNext
  <2>2. EndOf(p) <= EndOf(hit)
    BY <1>2, <1>3, EndOfMonotone
  <2>3. EndOf(p - 1) <= EndOf(p)
    <3>1. p - 1 \in Int /\ p - 1 <= p
      BY <1>2
    <3> QED
      BY <1>2, <3>1, EndOfMonotone
  <2> QED
    BY <2>1, <2>2, <2>3
<1> HIDE DEF p, hit, verdict, first
<1>8. CASE verdict \in {"found", "inconclusive"}
  <2>1. Conclude(verdict) /\ verdict \in Verdicts
    BY <1>6, <1>8 DEF Verdicts
  <2> QED
    BY <1>1, <1>5, <1>8, <2>1, Concluded
<1>9. CASE verdict = "on" /\ p > 1
  <2>1. scan' = [scan EXCEPT !.page = p - 1]
    BY <1>6, <1>9 DEF Verdicts
  <2>2. /\ scan' \in ScanState /\ scan'.pc = "left" /\ scan'.page = p - 1 /\ scan'.hit = hit
        /\ scan'.total = scan.total /\ scan'.first = scan.first
    BY <1>1, <1>2, <2>1 DEF ScanState, hit
  <2>3. 1 <= p - 1 /\ p - 1 <= hit
    BY <1>2, <1>3, <1>9
  <2>4. ASSUME NEW i \in DOMAIN rows, Ours(rows[i]) PROVE i <= EndOf(p - 1) \/ EndOf(hit) < i
    <3>1. ~OnPage(p, i)
      BY <1>5, <1>9, <2>4
    <3> QED
      BY <1>3, <1>4, <1>7, <2>4, <3>1 DEF OnPage
  <2>5. \E j \in DOMAIN rows : EndOf(p - 1) < j /\ j <= EndOf(hit) /\ rows[j].at = Target
    <3>1. PICK j \in DOMAIN rows : OnPage(p, j) /\ rows[j].at = Target
      BY <1>5, <1>9
    <3>2. EndOf(p - 1) < j /\ j <= EndOf(hit)
      BY <1>4, <1>7, <3>1 DEF OnPage
    <3> QED
      BY <3>1, <3>2
  <2>6. LeftInv'
    BY <1>1, <1>3, <2>2, <2>3, <2>4, <2>5 DEF LeftInv
  <2>7. SearchInv' /\ RightInv'
    BY <2>2 DEF SearchInv, RightInv
  <2> QED
    BY <1>1, <2>2, <2>6, <2>7, Moved DEF Scanning
<1>10. CASE verdict = "stop" \/ (verdict = "on" /\ ~(p > 1))
  <2>1. scan' = [scan EXCEPT !.pc = "right", !.page = hit + 1]
    BY <1>6, <1>10 DEF Verdicts
  <2>2. /\ scan' \in ScanState /\ scan'.pc = "right" /\ scan'.page = hit + 1
        /\ scan'.total = scan.total /\ scan'.first = scan.first
    <3>1. hit + 1 \in Int
      BY <1>2
    <3>2. scan' \in ScanState
      BY <1>2, <2>1, <3>1 DEF ScanState
    <3> QED
      BY <1>2, <2>1, <3>2 DEF ScanState
  <2>3. \/ \E j \in DOMAIN rows : EndOf(p - 1) < j /\ j <= EndOf(hit) /\ rows[j].at = Target
        \/ \A i \in DOMAIN rows : ~Ours(rows[i])
    <3>1. CASE \E j \in DOMAIN rows : EndOf(p) < j /\ j <= EndOf(hit) /\ rows[j].at = Target
      BY <1>4, <1>7, <3>1
    <3>2. CASE verdict = "on"
      <4>1. PICK j \in DOMAIN rows : OnPage(p, j) /\ rows[j].at = Target
        BY <1>5, <3>2
      <4> QED
        BY <1>4, <1>7, <4>1 DEF OnPage
    <3>3. CASE verdict = "stop" /\ p = hit /\ Spans
      <4>1. PICK l \in DOMAIN rows, r \in DOMAIN rows :
              OnPage(p, l) /\ rows[l].at <= Target /\ OnPage(p, r) /\ Target <= rows[r].at
        BY <3>3 DEF Spans, hit
      <4>2. rows[l].at < Target /\ Target < rows[r].at
        BY <1>4, <1>5, <3>3, <4>1
      <4>3. ASSUME NEW i \in DOMAIN rows, Ours(rows[i]) PROVE FALSE
        <5>1. rows[i].at = Target
          BY <1>4, <4>3
        <5>2. ~(i <= l)
          BY <1>4, <4>2, <5>1
        <5>3. ~(r <= i)
          BY <1>4, <4>2, <5>1
        <5>4. OnPage(p, i)
          BY <1>4, <1>7, <4>1, <5>2, <5>3 DEF OnPage
        <5> QED
          BY <1>5, <3>3, <4>3, <5>4
      <4> QED
        BY <4>3
    <3> QED
      BY <1>3, <1>10, <3>1, <3>2, <3>3
  <2>4. ASSUME NEW i \in DOMAIN rows, Ours(rows[i]) PROVE EndOf(hit) < i
    <3>1. i <= EndOf(p) \/ EndOf(hit) < i
      BY <1>3, <2>4
    <3>2. ~OnPage(p, i)
      BY <1>5, <1>10, <2>4
    <3>3. CASE i <= EndOf(p - 1)
      <4>1. CASE verdict = "on"
        <5>1. EndOf(p - 1) = 0
          <6>1. p = 1
            BY <1>2, <1>3, <1>10, <4>1
          <6> QED
            BY <6>1, TicketScanAssumption DEF EndOf
        <5> QED
          BY <1>4, <3>3, <5>1
      <4>2. CASE verdict = "stop"
        <5>1. PICK j \in DOMAIN rows : EndOf(p - 1) < j /\ j <= EndOf(hit) /\ rows[j].at = Target
          BY <2>3, <2>4
        <5>2. i <= first /\ first <= j
          BY <1>4, <1>5, <1>7, <3>3, <5>1 DEF first
        <5>3. rows[i].at <= rows[first].at /\ rows[first].at <= rows[j].at
          BY <1>4, <1>5, <5>2
        <5>4. rows[first].at = Target
          BY <1>4, <1>5, <2>4, <5>1, <5>3
        <5> QED
          BY <1>5, <4>2, <5>4
      <4> QED
        BY <1>10, <4>1, <4>2
    <3> QED
      BY <1>4, <1>7, <3>1, <3>2, <3>3 DEF OnPage
  <2>5. ASSUME NEW i \in DOMAIN rows, Ours(rows[i])
        PROVE  \E j \in DOMAIN rows : j <= EndOf(hit) /\ rows[j].at = Target
    BY <2>3, <2>5
  <2>6. RightInv'
    <3>1. 2 <= hit + 1 /\ hit + 1 <= scan.total + 1 /\ (hit + 1) - 1 = hit
      BY <1>2, <1>3
    <3> QED
      BY <1>1, <2>2, <2>4, <2>5, <3>1 DEF RightInv
  <2>7. SearchInv' /\ LeftInv'
    BY <2>2 DEF SearchInv, LeftInv
  <2> QED
    BY <1>1, <2>2, <2>6, <2>7, Moved DEF Scanning
<1> QED
  BY <1>5, <1>8, <1>9, <1>10

LEMMA ScanRightKeeps == ASSUME ScanInv, ScanRight PROVE ScanInv'
<1> DEFINE p == scan.page
           verdict == Judge(GetPage(p))
           first == EndOf(p - 1) + 1
<1>1. scan.pc = "right" /\ UNCHANGED <<rows, shifts>>
  BY DEF ScanRight
<1>2. scan \in ScanState /\ p \in Int /\ scan.total \in Nat
  BY DEF ScanInv, ScanTypeOK, ScanState
<1>3. /\ 2 <= p /\ p <= scan.total + 1
      /\ \A i \in DOMAIN rows : Ours(rows[i]) =>
           /\ EndOf(p - 1) < i
           /\ \E j \in DOMAIN rows : j <= EndOf(p - 1) /\ rows[j].at = Target
  BY <1>1 DEF ScanInv, RightInv
<1>4. /\ DOMAIN rows \subseteq Nat \ {0} /\ Target \in Nat
      /\ \A i \in DOMAIN rows : rows[i].at \in Nat
      /\ \A i \in DOMAIN rows : Ours(rows[i]) => rows[i].at = Target
      /\ \A i, j \in DOMAIN rows : i <= j => rows[i].at <= rows[j].at
  BY ListRows DEF ScanInv
<1>5. EndOf(p - 1) \in Int /\ EndOf(p) \in Int /\ EndOf(p - 1) <= EndOf(p)
  <2>1. p - 1 \in Int /\ p - 1 <= p
    BY <1>2
  <2> QED
    BY <1>2, <2>1, EndOfNext, EndOfMonotone
<1>6. CASE p > scan.total
  <2>1. Conclude("absent")
    BY <1>6 DEF ScanRight
  <2>2. rows \in Seq(Row) /\ rows # <<>> /\ scan.total = TotalPage(rows)
    BY <1>1 DEF ScanInv, ScanTypeOK, ListRead, Scanning
  <2>3. p - 1 = scan.total
    BY <1>2, <1>3, <1>6
  <2>4. Len(rows) <= EndOf(p - 1)
    BY <2>2, <2>3, LastPage
  <2>5. ~Listed
    <3>1. \A i \in DOMAIN rows : i \in Nat /\ i <= Len(rows) /\ Len(rows) \in Nat
      BY <2>2
    <3> QED
      BY <1>3, <1>5, <2>4, <3>1 DEF Listed
  <2> QED
    BY <1>1, <2>1, <2>5, Concluded DEF Verdicts
<1>7. CASE ~(p > scan.total)
  <2>1. /\ verdict \in {"found", "inconclusive", "on", "stop"}
        /\ verdict \in {"on", "stop"} => \A k \in DOMAIN rows : OnPage(p, k) => ~Ours(rows[k])
        /\ verdict = "on" => \E k \in DOMAIN rows : OnPage(p, k) /\ rows[k].at = Target
        /\ verdict = "stop" => \A k \in DOMAIN rows : OnPage(p, k) => rows[k].at # Target
        /\ verdict = "inconclusive" => \E k \in DOMAIN rows : ~rows[k].readable \/ rows[k].kind = "unsure"
        /\ first \in DOMAIN rows /\ OnPage(p, first)
    <3>1. p \in Nat \ {0} /\ p <= scan.total
      BY <1>2, <1>3, <1>7
    <3>2. ScanTypeOK /\ ListRead /\ scan.pc \in Scanning
      BY <1>1 DEF ScanInv, Scanning
    <3> QED
      BY <3>1, <3>2, PageJudged
  <2>2. /\ verdict \in Verdicts => Conclude(verdict)
        /\ verdict \notin Verdicts /\ verdict = "on" => scan' = [scan EXCEPT !.page = p + 1]
        /\ verdict \notin Verdicts /\ verdict # "on" => Conclude("absent")
    BY <1>7 DEF ScanRight
  <2> HIDE DEF p, verdict, first
  <2>3. CASE verdict \in {"found", "inconclusive"}
    <3>1. Conclude(verdict) /\ verdict \in Verdicts
      BY <2>2, <2>3 DEF Verdicts
    <3> QED
      BY <1>1, <2>1, <2>3, <3>1, Concluded
  <2>4. CASE verdict \in {"on", "stop"}
    <3>1. ASSUME NEW i \in DOMAIN rows, Ours(rows[i]) PROVE EndOf(p) < i
      <4>1. ~OnPage(p, i) /\ EndOf(p - 1) < i
        BY <1>3, <2>1, <2>4, <3>1
      <4> QED
        BY <1>4, <1>5, <4>1 DEF OnPage
    <3>2. CASE verdict = "on"
      <4>1. scan' = [scan EXCEPT !.page = p + 1]
        BY <2>2, <3>2 DEF Verdicts
      <4>2. /\ scan' \in ScanState /\ scan'.pc = "right" /\ scan'.page = p + 1
            /\ scan'.total = scan.total /\ scan'.first = scan.first
        BY <1>1, <1>2, <4>1 DEF ScanState
      <4>3. 2 <= p + 1 /\ p + 1 <= scan.total + 1 /\ (p + 1) - 1 = p
        BY <1>2, <1>3, <1>7
      <4>4. ASSUME NEW i \in DOMAIN rows, Ours(rows[i])
            PROVE  \E j \in DOMAIN rows : j <= EndOf(p) /\ rows[j].at = Target
        <5>1. PICK j \in DOMAIN rows : j <= EndOf(p - 1) /\ rows[j].at = Target
          BY <1>3, <4>4
        <5> QED
          BY <1>4, <1>5, <5>1
      <4>5. RightInv'
        BY <1>1, <3>1, <4>2, <4>3, <4>4 DEF RightInv
      <4>6. SearchInv' /\ LeftInv'
        BY <4>2 DEF SearchInv, LeftInv
      <4> QED
        BY <1>1, <4>2, <4>5, <4>6, Moved DEF Scanning
    <3>3. CASE verdict = "stop"
      <4>1. Conclude("absent")
        BY <2>2, <3>3 DEF Verdicts
      <4>2. ASSUME NEW i \in DOMAIN rows, Ours(rows[i]) PROVE FALSE
        <5>1. PICK j \in DOMAIN rows : j <= EndOf(p - 1) /\ rows[j].at = Target
          BY <1>3, <4>2
        <5>2. j <= first /\ first <= i
          <6>1. EndOf(p) < i /\ EndOf(p - 1) < first /\ first <= EndOf(p)
            BY <2>1, <3>1, <4>2 DEF OnPage
          <6> QED
            BY <1>4, <1>5, <2>1, <5>1, <6>1
        <5>3. rows[j].at <= rows[first].at /\ rows[first].at <= rows[i].at
          BY <1>4, <2>1, <5>2
        <5>4. rows[first].at = Target
          BY <1>4, <2>1, <4>2, <5>1, <5>3
        <5> QED
          BY <2>1, <3>3, <5>4
      <4> QED
        BY <1>1, <4>1, <4>2, Concluded DEF Listed, Verdicts
    <3> QED
      BY <2>4, <3>2, <3>3
  <2> QED
    BY <2>1, <2>3, <2>4
<1> QED
  BY <1>6, <1>7

-----------------------------------------------------------------------------
(* The theorems.                                                           *)

LEMMA ScanStarts == ScanInit => ScanInv
<1> SUFFICES ASSUME ScanInit PROVE ScanInv
  OBVIOUS
<1>1. rows \in Seq(Row) /\ Ascending(rows) /\ OneOfOurs(rows)
  BY DEF ScanInit, Lists
<1>2. scan = [pc |-> "first", lo |-> 1, hi |-> 0, page |-> 0, hit |-> 0, total |-> 0, first |-> <<>>]
  BY DEF ScanInit
<1>3. scan \in ScanState
  BY <1>2 DEF ScanState
<1>4. scan.pc = "first" /\ scan.lo = 1
  BY <1>2
<1>5. ScanTypeOK
  BY <1>1, <1>3, TicketScanAssumption DEF ScanTypeOK, ScanInit
<1> QED
  BY <1>4, <1>5 DEF ScanInv, ListRead, Scanning, SearchInv, LeftInv, RightInv, AbsentIsDefinitive, CleanListDecided

LEMMA ScanSteps == ScanInv /\ [ScanNext]_scanVars => ScanInv'
<1> SUFFICES ASSUME ScanInv, [ScanNext]_scanVars PROVE ScanInv'
  OBVIOUS
<1>1. CASE FetchFirst
  BY <1>1, FetchFirstKeeps
<1>2. CASE Search
  BY <1>2, SearchKeeps
<1>3. CASE ScanLeft
  BY <1>3, ScanLeftKeeps
<1>4. CASE ScanRight
  BY <1>4, ScanRightKeeps
<1>5. CASE FetchFails
  BY <1>5, Concluded DEF FetchFails, Verdicts
<1>6. CASE UNCHANGED scanVars
  BY <1>6 DEF scanVars, ScanInv, ScanTypeOK, ListRead, SearchInv, LeftInv, RightInv, Spans, GetPage,
     AbsentIsDefinitive, CleanListDecided, Listed, Ascending, OneOfOurs
<1> QED
  BY <1>1, <1>2, <1>3, <1>4, <1>5, <1>6 DEF ScanNext

\* The rows are an ascending list with at most one ticket of ours, and the
\* scan is in one of its states (lib/recoverer/scan.go).
THEOREM ScanTypeCorrect == ScanSpec => []ScanTypeOK
<1>1. ScanInv => ScanTypeOK
  BY DEF ScanInv
<1> QED
  BY <1>1, ScanStarts, ScanSteps, PTL DEF ScanSpec

\* A ticket on a list that stays as it is is never reported absent, whatever
\* rows are malformed and wherever the pages' edges lie (scan.go:23-160).
THEOREM AbsentOnlyIfAbsent == ScanSpec => []AbsentIsDefinitive
<1>1. ScanInv => AbsentIsDefinitive
  BY DEF ScanInv
<1> QED
  BY <1>1, ScanStarts, ScanSteps, PTL DEF ScanSpec

\* Only an empty list, or a row that cannot be read or classified, leaves a
\* booking undecided: no page past the last is ever read (scan.go:23-160).
THEOREM CleanListIsDecided == ScanSpec => []CleanListDecided
<1>1. ScanInv => CleanListDecided
  BY DEF ScanInv
<1> QED
  BY <1>1, ScanStarts, ScanSteps, PTL DEF ScanSpec
=============================================================================
