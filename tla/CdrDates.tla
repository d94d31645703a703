------------------------------ MODULE CdrDates ------------------------------
(* The days of a request to the CDR server (test_csv3/cdr_omc.c): the loop *)
(* over the calendar from the first date to the last, the names of the     *)
(* directories it reads, and the file the records of all days end up in.   *)
(* LamaServer takes the days as numbers; here they are dates.              *)
EXTENDS Naturals, Sequences

CONSTANTS
  Requests,   \* what is asked, and when: [first, last, today]
  Lost        \* days whose backup may not have been made

(* Of a date, the day may be one that its month does not have.             *)
DatesAssumption ==
  \A r \in Requests : \A e \in {r.first, r.last, r.today} :
    e \in [year : Nat, mon : 1..12, mday : 1..31]

VARIABLES
  request,
  missing,    \* the days without a backup
  live,       \* ./Master.csv can be read
  pc,
  first,      \* first_date_tm
  found,      \* one_bkp_finded
  work,       \* ./tmp/normal_fecha.dbs: the dates it was made for
  answer      \* what CreateCdrFromDates returns, 1 for -1

vars == <<request, missing, live, pc, first, found, work, answer>>

Date(y, m, d) == [year |-> y, mon |-> m, mday |-> d]
Old  == Date(0, 0, 0)   \* stands for the records of an earlier request
Live == Date(0, 0, 1)   \* and for those of the day that is not over

Init ==
  /\ request \in Requests /\ missing \in SUBSET Lost /\ live \in BOOLEAN
  /\ pc = "start" /\ first = request.first /\ found = FALSE
  /\ work = <<Old>> /\ answer = 0
-----------------------------------------------------------------------------
(* The calendar that mktime knows.                                         *)
IsLeap(y) == y % 4 = 0 /\ (y % 100 # 0 \/ y % 400 = 0)
DaysIn(y, m) ==
  CASE m = 2               -> IF IsLeap(y) THEN 29 ELSE 28
    [] m \in {4, 6, 9, 11} -> 30
    [] OTHER               -> 31
IsDay(e)    == e.mon \in 1..12 /\ e.mday \in 1..DaysIn(e.year, e.mon)
Calendar(y) ==
  {e \in [year : {y}, mon : 1..12, mday : 1..31] : e.mday <= DaysIn(y, e.mon)}

(* mktime of a date whose day may be past the end of its month.            *)
Normal(e) ==
  LET n == DaysIn(e.year, e.mon) IN
  IF e.mday <= n THEN e
  ELSE IF e.mon < 12 THEN Date(e.year, e.mon + 1, e.mday - n)
  ELSE Date(e.year + 1, 1, e.mday - n)

NextDay(e) == Normal([e EXCEPT !.mday = e.mday + 1])

(* DiffTime(a, b) = 1.                                                     *)
Earlier(a, b) ==
  \/ a.year < b.year
  \/ a.year = b.year /\ a.mon < b.mon
  \/ a.year = b.year /\ a.mon = b.mon /\ a.mday < b.mday
BeforeLast(e) == Earlier(e, request.last)    \* mutant: the last day is left out
ToLast(e)     == Earlier(e, request.last) \/ e = request.last

(* %d%d%d of a date with a year of four digits.                            *)
Digits(n) == IF n < 10 THEN <<n>> ELSE <<n \div 10, n % 10>>
Name(e)   == <<e.year>> \o Digits(e.mon) \o Digits(e.mday)

(* A day that is over has a directory of its name, unless it was lost.     *)
BackedUp(e) == IsDay(e) /\ Earlier(e, request.today) /\ e \notin missing
HasDir(e)   == \E b \in Calendar(e.year) : Name(b) = Name(e) /\ BackedUp(b)

(* `cat ... > file' until one succeeded, then `cat ... >> file'.           *)
Cat(e, exists) ==
  /\ found' = (found \/ exists)
  /\ work' = (IF found THEN work ELSE <<>>) \o (IF exists THEN <<e>> ELSE <<>>)
-----------------------------------------------------------------------------
Today == request.last = request.today

Start ==
  /\ pc = "start"
  /\ pc' = IF Today /\ request.first = request.last THEN "live" ELSE "days"
  /\ UNCHANGED <<request, missing, live, first, found, work, answer>>

Day ==
  /\ pc = "days" /\ ToLast(first)
  /\ Cat(first, HasDir(first))
  /\ first' = NextDay(first)
  /\ UNCHANGED <<request, missing, live, pc, answer>>

LastDay ==
  /\ pc = "days" /\ ~ToLast(first)
  /\ pc' = IF Today THEN "live" ELSE "return"
  /\ UNCHANGED <<request, missing, live, first, found, work, answer>>

LiveDay ==
  /\ pc = "live"
  /\ Cat(Live, live)
  /\ pc' = "return"
  /\ UNCHANGED <<request, missing, live, first, answer>>

Return ==
  /\ pc = "return"
  /\ answer' = IF found THEN 0 ELSE 1
  /\ pc' = "done"
  /\ UNCHANGED <<request, missing, live, first, found, work>>

Next == Start \/ Day \/ LastDay \/ LiveDay \/ Return

Spec == Init /\ [][Next]_vars /\ WF_vars(Next)
-----------------------------------------------------------------------------
(* The two months whose first nine days are named like days of January:    *)
(* 2024-11-1 and 2024-1-11 are both 2024111 (cdr_omc.c:134-136).           *)
Namesakes(a, b) ==
  /\ a.year = b.year /\ a.mon \in {11, 12} /\ a.mday < 10
  /\ b.mon = 1 /\ b.mday = (10 * (a.mon - 10)) + a.mday

Asked(e) == ~Earlier(e, request.first) /\ ~Earlier(request.last, e)
Years    == request.first.year..request.last.year

(* The days in the file: without those of the day that is not over.        *)
Days == IF \E i \in DOMAIN work : work[i] = Live
          THEN SubSeq(work, 1, Len(work) - 1) ELSE work
Got  == {Days[i] : i \in DOMAIN Days}

InOrder == \A i \in 2..Len(Days) : Earlier(Days[i - 1], Days[i])
NoneMissing ==
  \A y \in Years : \A e \in Calendar(y) : BackedUp(e) /\ Asked(e) => e \in Got
OthersAreNamesakes ==
  \A e \in Got :
    IsDay(e) /\ Asked(e) /\ ~BackedUp(e) =>
      \E b \in Calendar(e.year) : BackedUp(b) /\ (Namesakes(e, b) \/ Namesakes(b, e))

(* A request that begins with a day there is gets the records of each day  *)
(* it asks for that has a backup, once and in the order of the calendar,   *)
(* and those of today last; where it gets those of another day, the two    *)
(* are namesakes; and it gets an answer only if there are records, and     *)
(* none of an earlier request (CreateCdrFromDates).                        *)
DaysArrive ==
  pc = "done" =>
    /\ answer = 0 <=> work \notin {<<>>, <<Old>>}
    /\ answer = 0 /\ IsDay(request.first) =>
         /\ (work # Days) = (Today /\ live)
         /\ InOrder /\ NoneMissing /\ OthersAreNamesakes

(* Every request is answered, whatever its dates are.                      *)
LoopEnds == <>(pc = "done")
=============================================================================
