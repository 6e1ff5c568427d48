------------------------- MODULE BookingGridProofs -------------------------
(***************************************************************************)
(* Bookings keep the hours and do not overlap, for every calendar and      *)
(* every offset that does not change in working hours, and what the picker *)
(* offers createBooking accepts.                                           *)
(***************************************************************************)
EXTENDS BookingGrid, WellFoundedInduction, TLAPS

(* The number of a day is the quotient of its wall times.                  *)
LEMMA DayOf ==
  ASSUME NEW d \in Int, NEW r \in Int, 0 <= r, r < DayLen
  PROVE  (d * DayLen + r) \div DayLen = d
PROOF
<1> DEFINE x == d * DayLen + r
           q == x \div DayLen
<1>1. DayLen \in Int /\ DayLen > 0  BY CalendarAssumption
<1>2. d * DayLen \in Int /\ x \in Int  BY <1>1
<1>3. q \in Int /\ q * DayLen <= x /\ x < q * DayLen + DayLen
  BY <1>1, <1>2, Z3
<1>4. q * DayLen < (d + 1) * DayLen /\ d * DayLen < (q + 1) * DayLen
  BY <1>1, <1>2, <1>3
<1>5. q < d + 1 /\ d < q + 1
  BY <1>1, <1>3, <1>4
<1> QED BY <1>3, <1>5

(* In quiet hours a wall time and its instant are one to one.              *)
LEMMA WallOfUtc ==
  ASSUME NEW w \in Int,
         \/ w < Changeover + Before /\ w < Changeover + After
         \/ w >= Changeover + Before /\ w >= Changeover + After
  PROVE  /\ ZonedTimeToUtc(w) \in Int
         /\ WallTime(ZonedTimeToUtc(w)) = w
         /\ ZonedTimeToUtc(w) < Changeover <=> w < Changeover + Before
BY ZoneAssumption DEF ZonedTimeToUtc, WallTime, ZoneOffset

----------------------------------------------------------------------------
(* The instants of a day's hours lie on one side of the change.            *)
LEMMA HoursOfDay ==
  ASSUME NEW d \in Int, QuietHours
  PROVE  /\ d * DayLen \in Int
         /\ Opens(d) \in Int /\ Closes(d) \in Int
         /\ WallTime(Opens(d)) = d * DayLen + DayStart
         /\ WallTime(Closes(d)) = d * DayLen + DayEnd
         /\ Opens(d) < Changeover <=> Closes(d) < Changeover
PROOF
<1>1. d * DayLen \in Int
  BY CalendarAssumption
<1>2. Opens(d) \in Int /\ WallTime(Opens(d)) = d * DayLen + DayStart
      /\ (Opens(d) < Changeover <=> d * DayLen + DayStart < Changeover + Before)
  BY <1>1, WallOfUtc, CalendarAssumption, ZoneAssumption DEF QuietHours, QuietDay, Opens
<1>3. Closes(d) \in Int /\ WallTime(Closes(d)) = d * DayLen + DayEnd
      /\ (Closes(d) < Changeover <=> d * DayLen + DayEnd < Changeover + Before)
  BY <1>1, WallOfUtc, CalendarAssumption, ZoneAssumption DEF QuietHours, QuietDay, Closes
<1> QED BY <1>1, <1>2, <1>3, CalendarAssumption, ZoneAssumption DEF QuietHours, QuietDay

(* What the check of createBooking says of a time: it is on its own day's  *)
(* grid, on a working day.                                                 *)
LEMMA OnItsDay ==
  ASSUME NEW t, Legitimate(t), QuietHours
  PROVE  /\ t \in Int /\ ZonedDateKey(t) \in Int
         /\ ZonedDateKey(t) % WeekLen \in WorkDays
         /\ Opens(ZonedDateKey(t)) <= t /\ t + SlotLen <= Closes(ZonedDateKey(t))
         /\ (t - Opens(ZonedDateKey(t))) % SlotLen = 0
PROOF
<1> DEFINE d == ZonedDateKey(t)
<1>1. PICK day \in {e \in d..(d + 1 - 1) : ZonedDateKey(Opens(e)) % WeekLen \in WorkDays} :
        t \in {u \in Opens(day)..(Closes(day) - SlotLen) : (u - Opens(day)) % SlotLen = 0}
  BY DEF Legitimate, CandidateSlots
<1>2. t \in Int
  BY <1>1
<1>3. WallTime(t) \in Int
  BY <1>2, ZoneAssumption DEF WallTime, ZoneOffset
<1>4. d \in Int
  BY <1>3, CalendarAssumption, Z3 DEF ZonedDateKey
<1>5. day = d
  BY <1>1, <1>4
<1> HIDE DEF d
<1>7. WallTime(Opens(d)) = d * DayLen + DayStart /\ Opens(d) \in Int /\ Closes(d) \in Int
  BY <1>4, HoursOfDay
<1>9. ZonedDateKey(Opens(d)) = d
  BY <1>4, <1>7, DayOf, CalendarAssumption DEF ZonedDateKey
<1>10. t + SlotLen <= Closes(d)
  BY <1>1, <1>2, <1>5, <1>7, CalendarAssumption
<1>11. d % WeekLen \in WorkDays
  BY <1>1, <1>5, <1>9
<1>12. Opens(d) <= t /\ (t - Opens(d)) % SlotLen = 0
  BY <1>1, <1>5, <1>7
<1> QED BY <1>2, <1>4, <1>10, <1>11, <1>12 DEF d

LEMMA LegitimateHours ==
  ASSUME NEW t, Legitimate(t), QuietHours
  PROVE  LET day == ZonedDateKey(t)
         IN /\ day % WeekLen \in WorkDays
            /\ WallTime(t) >= day * DayLen + DayStart
            /\ WallTime(t + SlotLen - 1) < day * DayLen + DayEnd
PROOF
<1> DEFINE d == ZonedDateKey(t)
<1>1. t \in Int /\ d \in Int /\ d % WeekLen \in WorkDays /\ Opens(d) <= t /\ t + SlotLen <= Closes(d)
  BY OnItsDay
<1> HIDE DEF d
<1>2. /\ d * DayLen \in Int
      /\ Opens(d) \in Int /\ Closes(d) \in Int
      /\ WallTime(Opens(d)) = d * DayLen + DayStart
      /\ WallTime(Closes(d)) = d * DayLen + DayEnd
      /\ Opens(d) < Changeover <=> Closes(d) < Changeover
  BY <1>1, HoursOfDay
<1>3. /\ WallTime(t) >= d * DayLen + DayStart
      /\ WallTime(t + SlotLen - 1) < d * DayLen + DayEnd
  BY <1>1, <1>2, CalendarAssumption, ZoneAssumption DEF WallTime, ZoneOffset
<1> QED BY <1>1, <1>3 DEF d

LEMMA Multiples ==
  ASSUME NEW x \in Int, NEW y \in Int, x % SlotLen = 0, y % SlotLen = 0, x < y
  PROVE  x + SlotLen <= y
PROOF
<1> DEFINE p == x \div SlotLen
           q == y \div SlotLen
<1>1. SlotLen \in Int /\ SlotLen > 0
  BY CalendarAssumption
<1>2. p \in Int /\ q \in Int /\ x = p * SlotLen /\ y = q * SlotLen
  BY <1>1, Z3
<1> HIDE DEF p, q
<1>3. p < q
  BY <1>1, <1>2
<1>4. (p + 1) * SlotLen <= q * SlotLen
  BY <1>1, <1>2, <1>3
<1> QED BY <1>1, <1>2, <1>4

(* The hours of an earlier day are over when a later one begins.           *)
LEMMA DaysApart ==
  ASSUME NEW c \in Int, NEW d \in Int, c < d, QuietHours
  PROVE  Closes(c) <= Opens(d)
PROOF
<1>1. /\ Opens(c) \in Int /\ Closes(c) \in Int
      /\ WallTime(Closes(c)) = c * DayLen + DayEnd
      /\ Opens(d) \in Int /\ WallTime(Opens(d)) = d * DayLen + DayStart
      /\ c * DayLen \in Int /\ d * DayLen \in Int
  BY HoursOfDay
<1>2. c * DayLen + DayLen <= d * DayLen
  BY CalendarAssumption, <1>1
<1>3. /\ \/ c * DayLen + DayEnd < Changeover + Before /\ c * DayLen + DayEnd < Changeover + After
         \/ c * DayLen + DayStart >= Changeover + Before /\ c * DayLen + DayStart >= Changeover + After
      /\ \/ d * DayLen + DayEnd < Changeover + Before /\ d * DayLen + DayEnd < Changeover + After
         \/ d * DayLen + DayStart >= Changeover + Before /\ d * DayLen + DayStart >= Changeover + After
  BY DEF QuietHours, QuietDay
<1> QED
  BY <1>1, <1>2, <1>3, CalendarAssumption, ZoneAssumption DEF WallTime, ZoneOffset

LEMMA LegitimateApart ==
  ASSUME NEW t, NEW u, Legitimate(t), Legitimate(u), t # u, QuietHours
  PROVE  ~Overlap(Window(t), Window(u))
PROOF
<1> DEFINE c == ZonedDateKey(t)
           d == ZonedDateKey(u)
<1>1. /\ t \in Int /\ c \in Int /\ Opens(c) <= t /\ t + SlotLen <= Closes(c)
      /\ (t - Opens(c)) % SlotLen = 0
  BY OnItsDay
<1>2. /\ u \in Int /\ d \in Int /\ Opens(d) <= u /\ u + SlotLen <= Closes(d)
      /\ (u - Opens(d)) % SlotLen = 0
  BY OnItsDay
<1> HIDE DEF c, d
<1>3. Opens(c) \in Int /\ Closes(c) \in Int /\ Opens(d) \in Int /\ Closes(d) \in Int
  BY <1>1, <1>2, HoursOfDay
<1>4. t + SlotLen <= u \/ u + SlotLen <= t
  <2>1. CASE c = d
    <3> DEFINE x == t - Opens(d)
               y == u - Opens(d)
    <3>1. x \in Int /\ y \in Int /\ x % SlotLen = 0 /\ y % SlotLen = 0 /\ (x < y \/ y < x)
      BY <1>1, <1>2, <1>3, <2>1
    <3> HIDE DEF x, y
    <3>2. x + SlotLen <= y \/ y + SlotLen <= x
      BY <3>1, Multiples
    <3> QED BY <1>1, <1>2, <1>3, <3>2, CalendarAssumption DEF x, y
  <2>2. CASE c < d
    BY <1>1, <1>2, <1>3, <2>2, DaysApart, CalendarAssumption
  <2>3. CASE d < c
    BY <1>1, <1>2, <1>3, <2>3, DaysApart, CalendarAssumption
  <2> QED BY <1>1, <1>2, <2>1, <2>2, <2>3
<1> QED BY <1>1, <1>2, <1>4, CalendarAssumption DEF Overlap, Window

----------------------------------------------------------------------------
Steps == {"mounted", "loading", "choosing", "validating", "checking",
          "inserting", "posting", "confirmed", "refused"}

Intervals == [start : Int, end : Int]

TypeOK ==
  /\ now \in Int /\ changes \in Nat /\ fresh \subseteq Visitors
  /\ meetings \subseteq MeetingTimes /\ events \subseteq Int /\ booked \subseteq Int
  /\ pc \in [Visitors -> Steps]
  /\ open \in [Visitors -> SUBSET Int] /\ grid \in [Visitors -> SUBSET Int]
  /\ busy \in [Visitors -> SUBSET Intervals] /\ taken \in [Visitors -> SUBSET Intervals]
  /\ selected \in [Visitors -> Int]

(* A request that has passed the checks holds a time of the grid, and rows *)
(* are of such times only.                                                 *)
OnGrid ==
  /\ \A t \in booked : Legitimate(t)
  /\ \A v \in Visitors :
       pc[v] \in {"checking", "inserting", "posting"} => Legitimate(selected[v])

IInv == TypeOK /\ OnGrid

LEMMA BookableType == Bookable \subseteq Int
  BY DEF Bookable, CandidateSlots

LEMMA BusyType ==
  ASSUME NEW window, TypeOK
  PROVE  BusyIntervals(window) \subseteq Intervals
PROOF
<1>1. \A m \in Scheduled(window) : m \in Intervals
  BY MeetingAssumption, CalendarAssumption DEF Scheduled, Window, Intervals, TypeOK
<1> QED BY <1>1, CalendarAssumption DEF BusyIntervals, Intervals

LEMMA BookedType ==
  ASSUME NEW window, TypeOK
  PROVE  BookedIntervals(window) \subseteq Intervals
BY CalendarAssumption DEF BookedIntervals, Window, Intervals, TypeOK

LEMMA InitIInv == Init => IInv
PROOF
<1> SUFFICES ASSUME Init PROVE IInv
  OBVIOUS
<1>1. NoTime \in Int /\ NotRead \in SUBSET Intervals
  BY CalendarAssumption, MeetingAssumption DEF NoTime, NotRead, Intervals
<1> QED BY <1>1 DEF Init, IInv, TypeOK, OnGrid, Steps

LEMMA TypeStep == TypeOK /\ [Next]_vars => TypeOK'
PROOF
<1> SUFFICES ASSUME TypeOK, [Next]_vars PROVE TypeOK'
  OBVIOUS
<1>0. NoTime \in Int /\ NotRead \in SUBSET Intervals
  BY CalendarAssumption, MeetingAssumption DEF NoTime, NotRead, Intervals
<1> USE DEF TypeOK, Steps, Goto, clock, calendar, load, picker
<1>1. ASSUME NEW v \in Visitors, LoadAvailability(v) PROVE TypeOK'
  BY <1>0, <1>1, BookableType DEF LoadAvailability
<1>2. ASSUME NEW v \in Visitors, FetchBusy(v) PROVE TypeOK'
  BY <1>2, BusyType DEF FetchBusy
<1>3. ASSUME NEW v \in Visitors, FetchBooked(v) PROVE TypeOK'
  BY <1>3, BookedType DEF FetchBooked
<1>4. ASSUME NEW v \in Visitors, ShowGrid(v) PROVE TypeOK'
  BY <1>0, <1>4 DEF ShowGrid, Free
<1>5. ASSUME NEW v \in Visitors, Submit(v) \/ SubmitAny(v) PROVE TypeOK'
  <2>1. PICK t \in grid[v] \cup OtherTimes : selected' = [selected EXCEPT ![v] = t]
    BY <1>5 DEF Submit, SubmitAny
  <2>2. t \in Int
    BY <2>1, MeetingAssumption
  <2>3. selected' \in [Visitors -> Int]
    BY <2>1, <2>2
  <2> QED BY <1>5, <2>3 DEF Submit, SubmitAny
<1>6. ASSUME NEW v \in Visitors, Validate(v) \/ CheckBusy(v) PROVE TypeOK'
  BY <1>6 DEF Validate, CheckBusy
<1>7. ASSUME NEW v \in Visitors, Insert(v) \/ PostEvent(v) PROVE TypeOK'
  <2>1. selected[v] \in Int
    OBVIOUS
  <2>2. events \cup {selected[v]} \subseteq Int /\ booked \cup {selected[v]} \subseteq Int
    BY <2>1
  <2>3. CASE Insert(v)
    BY <2>2, <2>3 DEF Insert
  <2>4. CASE PostEvent(v)
    BY <2>2, <2>4 DEF PostEvent
  <2> QED BY <1>7, <2>3, <2>4
<1>8. ASSUME NEW m \in MeetingTimes, Meet(m) \/ CallOff(m) PROVE TypeOK'
  <2>1. PICK set \in SUBSET MeetingTimes : Change(set)
    BY <1>8 DEF Meet, CallOff
  <2> QED BY <2>1 DEF Change
<1>9. CASE Tick
  BY <1>9 DEF Tick
<1>10. CASE UNCHANGED vars
  BY <1>10 DEF vars
<1> QED
  BY <1>1, <1>2, <1>3, <1>4, <1>5, <1>6, <1>7, <1>8, <1>9, <1>10 DEF Next, Page

LEMMA GridStep == IInv /\ [Next]_vars => OnGrid'
PROOF
<1> SUFFICES ASSUME IInv, [Next]_vars PROVE OnGrid'
  OBVIOUS
<1> USE DEF IInv, TypeOK, OnGrid, Goto, clock, calendar, load, picker
<1>1. ASSUME NEW v \in Visitors, LoadAvailability(v) \/ ShowGrid(v) PROVE OnGrid'
  BY <1>1 DEF LoadAvailability, ShowGrid
<1>2. ASSUME NEW v \in Visitors, FetchBusy(v) \/ FetchBooked(v) PROVE OnGrid'
  BY <1>2 DEF FetchBusy, FetchBooked
<1>3. ASSUME NEW v \in Visitors, Submit(v) \/ SubmitAny(v) PROVE OnGrid'
  BY <1>3 DEF Submit, SubmitAny
<1>4. ASSUME NEW v \in Visitors, Validate(v) PROVE OnGrid'
  BY <1>4 DEF Validate
<1>5. ASSUME NEW v \in Visitors, CheckBusy(v) PROVE OnGrid'
  BY <1>5 DEF CheckBusy
<1>6. ASSUME NEW v \in Visitors, Insert(v) PROVE OnGrid'
  BY <1>6 DEF Insert
<1>7. ASSUME NEW v \in Visitors, PostEvent(v) PROVE OnGrid'
  BY <1>7 DEF PostEvent
<1>8. ASSUME NEW m \in MeetingTimes, Meet(m) \/ CallOff(m) PROVE OnGrid'
  BY <1>8 DEF Meet, CallOff, Change
<1>9. CASE Tick
  BY <1>9 DEF Tick
<1>10. CASE UNCHANGED vars
  BY <1>10 DEF vars
<1> QED
  BY <1>1, <1>2, <1>3, <1>4, <1>5, <1>6, <1>7, <1>8, <1>9, <1>10 DEF Next, Page

(* Every reachable state is well typed.                                    *)
THEOREM TypeCorrect == Spec => []TypeOK
<1>1. TypeOK /\ [Next]_vars => TypeOK'
  BY TypeStep
<1>2. Init => TypeOK
  BY InitIInv DEF IInv
<1> QED BY <1>1, <1>2, PTL DEF Spec

(* Rows, and the requests past the checks, are of times on the grid.       *)
THEOREM GridIsKept == Spec => []IInv
<1>1. IInv /\ [Next]_vars => IInv'
  BY TypeStep, GridStep DEF IInv
<1> QED BY <1>1, InitIInv, PTL DEF Spec

(* Bookings keep the hours of the wall clock, on working days, whatever    *)
(* the calendar and the offsets (booking.service.ts:81-85, 276-280).       *)
THEOREM HoursKept ==
  ASSUME QuietHours
  PROVE  Spec => []HoursAreKept
<1>1. IInv => HoursAreKept
  BY LegitimateHours DEF IInv, OnGrid, HoursAreKept
<1> QED BY <1>1, GridIsKept, PTL

(* No two bookings overlap, for any number of requests at the same time    *)
(* (booking.service.ts:276-278).                                           *)
THEOREM Apart ==
  ASSUME QuietHours
  PROVE  Spec => []BookingsAreApart
<1>1. IInv => BookingsAreApart
  BY LegitimateApart DEF IInv, OnGrid, BookingsAreApart
<1> QED BY <1>1, GridIsKept, PTL

----------------------------------------------------------------------------
(* What is offered is accepted.                                            *)

(* A set of numbers from 0 has a least one.                                *)
LEMMA NatMin ==
  ASSUME NEW T \in SUBSET Nat, T # {}
  PROVE  \E x \in T : \A y \in T : x <= y
<1>1. PICK x \in T : \A y \in T : ~(<<y, x>> \in OpToRel(<, Nat))
  BY NatLessThanWellFounded, WFMin
<1>2. \A y \in T : ~(y < x)
  BY <1>1 DEF OpToRel
<1> QED BY <1>2

(* From the first to the last of some times between two bounds.            *)
LEMMA RangeCovers ==
  ASSUME NEW T \in SUBSET Int, T # {}, NEW low \in Int, NEW high \in Int,
         \A t \in T : low <= t /\ t <= high
  PROVE  /\ Range(T).start \in Int /\ Range(T).end \in Int
         /\ \A t \in T : Range(T).start <= t /\ t + SlotLen <= Range(T).end
<1>1. \E t \in T : \A u \in T : t <= u
  <2> DEFINE U == {t - low : t \in T}
  <2>1. \A t \in T : t \in Int /\ t - low \in Nat
    OBVIOUS
  <2>2. U \in SUBSET Nat /\ U # {}
    BY <2>1
  <2>3. PICK x \in U : \A y \in U : x <= y
    BY <2>2, NatMin
  <2>4. PICK t \in T : x = t - low
    OBVIOUS
  <2>5. \A u \in T : u - low \in U
    OBVIOUS
  <2>6. \A u \in T : t - low <= u - low
    BY <2>3, <2>4, <2>5
  <2> HIDE DEF U
  <2>7. \A u \in T : t <= u
    BY <2>1, <2>6
  <2> QED BY <2>7
<1>2. \E t \in T : \A u \in T : u <= t
  <2> DEFINE U == {high - t : t \in T}
  <2>1. \A t \in T : t \in Int /\ high - t \in Nat
    OBVIOUS
  <2>2. U \in SUBSET Nat /\ U # {}
    BY <2>1
  <2>3. PICK x \in U : \A y \in U : x <= y
    BY <2>2, NatMin
  <2>4. PICK t \in T : x = high - t
    OBVIOUS
  <2>5. \A u \in T : high - u \in U
    OBVIOUS
  <2>6. \A u \in T : high - t <= high - u
    BY <2>3, <2>4, <2>5
  <2> HIDE DEF U
  <2>7. \A u \in T : u <= t
    BY <2>1, <2>6
  <2> QED BY <2>7
<1> DEFINE first == CHOOSE t \in T : \A u \in T : t <= u
           last == CHOOSE t \in T : \A u \in T : u <= t
<1>3. first \in T /\ \A u \in T : first <= u
  BY <1>1
<1>4. last \in T /\ \A u \in T : u <= last
  BY <1>2
<1>5. Range(T).start = first /\ Range(T).end = last + SlotLen
  BY DEF Range
<1> HIDE DEF first, last
<1> QED BY <1>3, <1>4, <1>5, CalendarAssumption

(* The times of a list are bounded: by the clock, and by the last midnight.*)
LEMMA BookableRange ==
  ASSUME now \in Int, Bookable # {}
  PROVE  LET r == Range(Bookable)
         IN /\ r.start \in Int /\ r.end \in Int
            /\ \A t \in Bookable : r.start <= t /\ t + SlotLen <= r.end
<1> DEFINE high == ZonedTimeToUtc((ZonedDateKey(now) + MaxDaysAhead + 1) * DayLen)
<1>1. WallTime(now) \in Int
  BY ZoneAssumption DEF WallTime, ZoneOffset
<1>2. ZonedDateKey(now) \in Int
  BY <1>1, CalendarAssumption, Z3 DEF ZonedDateKey
<1>3. (ZonedDateKey(now) + MaxDaysAhead + 1) * DayLen \in Int
  BY <1>2, CalendarAssumption
<1>4. high \in Int
  BY <1>3, ZoneAssumption DEF ZonedTimeToUtc, ZoneOffset
<1>5. \A t \in Bookable : t \in Int /\ now + MinNotice <= t /\ t <= high
  BY <1>4, BookableType, CalendarAssumption DEF Bookable, LateEnough, SoonEnough
<1> DEFINE low == now + MinNotice
<1>6. low \in Int /\ Bookable \in SUBSET Int
  BY <1>5, CalendarAssumption
<1>7. \A t \in Bookable : low <= t /\ t <= high
  BY <1>5
<1> HIDE DEF high, low
<1> QED BY <1>4, <1>6, <1>7, RangeCovers

(* A time of a day's candidates is on the grid of its own day.             *)
LEMMA CandidateIsLegitimate ==
  ASSUME QuietHours, NEW from \in Int, NEW n \in Nat, NEW t \in CandidateSlots(from, n)
  PROVE  /\ t \in Int /\ Legitimate(t)
         /\ from <= ZonedDateKey(t) /\ ZonedDateKey(t) < from + n
<1>1. PICK day \in {e \in from..(from + n - 1) : ZonedDateKey(Opens(e)) % WeekLen \in WorkDays} :
        t \in {u \in Opens(day)..(Closes(day) - SlotLen) : (u - Opens(day)) % SlotLen = 0}
  BY DEF CandidateSlots
<1>2. day \in Int /\ from <= day /\ day < from + n /\ t \in Int
  BY <1>1
<1>3. /\ day * DayLen \in Int /\ Opens(day) \in Int /\ Closes(day) \in Int
      /\ WallTime(Opens(day)) = day * DayLen + DayStart
      /\ WallTime(Closes(day)) = day * DayLen + DayEnd
      /\ Opens(day) < Changeover <=> Closes(day) < Changeover
  BY <1>2, HoursOfDay
<1>4. Opens(day) <= t /\ t < Closes(day)
  BY <1>1, <1>2, <1>3, CalendarAssumption
<1>5. WallTime(t) >= day * DayLen + DayStart /\ WallTime(t) < day * DayLen + DayEnd
  BY <1>2, <1>3, <1>4, ZoneAssumption DEF WallTime, ZoneOffset
<1>6. ZonedDateKey(t) = day
  <2> DEFINE r == WallTime(t) - day * DayLen
  <2>1. WallTime(t) \in Int
    BY <1>2, ZoneAssumption DEF WallTime, ZoneOffset
  <2>2. r \in Int /\ 0 <= r /\ r < DayLen /\ WallTime(t) = day * DayLen + r
    BY <1>3, <1>5, <2>1, CalendarAssumption
  <2> HIDE DEF r
  <2> QED BY <1>2, <2>2, DayOf DEF ZonedDateKey
<1>7. t \in CandidateSlots(day, 1)
  <2>1. day \in day..(day + 1 - 1)
    BY <1>2
  <2> QED BY <1>1, <2>1 DEF CandidateSlots
<1> QED BY <1>2, <1>6, <1>7 DEF Legitimate

(* A time of the list passes the checks of createBooking before the horizon.*)
LEMMA BookableIsAccepted ==
  ASSUME QuietHours, now \in Int, NEW t \in Bookable
  PROVE  t \in Int /\ Legitimate(t) /\ LateEnough(t)
<1>1. WallTime(now) \in Int
  BY ZoneAssumption DEF WallTime, ZoneOffset
<1>2. ZonedDateKey(now) \in Int
  BY <1>1, CalendarAssumption, Z3 DEF ZonedDateKey
<1>3. t \in CandidateSlots(ZonedDateKey(now), AskedDays) /\ LateEnough(t)
  BY DEF Bookable
<1> QED BY <1>2, <1>3, CandidateIsLegitimate, CalendarAssumption

----------------------------------------------------------------------------
(* A reading is kept while the page loads only, and the calendar has       *)
(* events of rows only.                                                    *)
ReadInv ==
  /\ \A v \in Visitors : pc[v] # "loading" => busy[v] = NotRead /\ taken[v] = NotRead
  /\ \A v \in Visitors : pc[v] = "posting" => selected[v] \in booked
  /\ events \subseteq booked

Offered(t) ==
  /\ t \in Bookable /\ t \notin booked
  /\ \A m \in meetings : ~Overlap(m, Window(t))

Buffered(m) == [start |-> m.start - Buffer, end |-> m.end + Buffer]

(* What was read of the meetings, and of the rows, around some times.      *)
SeenIn(read, times, all) ==
  \A m \in all : Overlap(m, Range(times)) => Buffered(m) \in read

RowsAround(times, rows) ==
  {Window(b) : b \in {t \in rows : t >= Range(times).start /\ t < Range(times).end}}

(* What a page has read, and what it offers, is so until something moves.  *)
UpToDate(v) ==
  /\ pc[v] = "loading" =>
       /\ open[v] = Bookable
       /\ busy[v] # NotRead => SeenIn(busy[v], open[v], meetings)
       /\ taken[v] # NotRead => taken[v] = RowsAround(open[v], booked)
  /\ \A t \in grid[v] : Offered(t)
  /\ pc[v] = "refused" /\ selected[v] \in grid[v] => ~InHorizon(selected[v])

FreshInv == \A v \in fresh : UpToDate(v)

Steady == UNCHANGED <<now, meetings, booked>>

LEMMA OfferedSteady ==
  ASSUME Steady
  PROVE  /\ Bookable' = Bookable
         /\ \A t : Offered(t)' <=> Offered(t)
         /\ \A t : InHorizon(t)' <=> InHorizon(t)
<1>1. Bookable' = Bookable
  BY DEF Steady, Bookable, CandidateSlots, LateEnough, SoonEnough, ZonedDateKey, Opens, Closes,
         ZonedTimeToUtc, WallTime, ZoneOffset
<1>2. ASSUME NEW t PROVE Offered(t)' <=> Offered(t)
  BY <1>1 DEF Steady, Offered, Overlap, Window
<1>3. \A t : InHorizon(t)' <=> InHorizon(t)
  BY DEF Steady, InHorizon
<1> QED BY <1>1, <1>2, <1>3

(* A page that does not move stays so while nothing else does.             *)
LEMMA Undisturbed ==
  ASSUME Steady, NEW u, UpToDate(u), grid'[u] \subseteq grid[u],
         pc'[u] = pc[u] \/ pc'[u] \notin {"loading", "refused"},
         UNCHANGED <<open[u], busy[u], taken[u], selected[u]>>
  PROVE  UpToDate(u)'
BY OfferedSteady DEF UpToDate, Steady, NotRead, NoTime, InHorizon

LEMMA ReadStep == IInv /\ ReadInv /\ [Next]_vars => ReadInv'
PROOF
<1> SUFFICES ASSUME IInv, ReadInv, [Next]_vars PROVE ReadInv'
  OBVIOUS
<1> USE DEF IInv, TypeOK, ReadInv, Goto, clock, calendar, load, picker
<1>1. ASSUME NEW v \in Visitors, LoadAvailability(v) \/ ShowGrid(v) PROVE ReadInv'
  BY <1>1 DEF LoadAvailability, ShowGrid
<1>2. ASSUME NEW v \in Visitors, FetchBusy(v) \/ FetchBooked(v) PROVE ReadInv'
  BY <1>2 DEF FetchBusy, FetchBooked
<1>3. ASSUME NEW v \in Visitors, Submit(v) \/ SubmitAny(v) PROVE ReadInv'
  BY <1>3 DEF Submit, SubmitAny
<1>4. ASSUME NEW v \in Visitors, Validate(v) \/ CheckBusy(v) PROVE ReadInv'
  BY <1>4 DEF Validate, CheckBusy
<1>6. ASSUME NEW v \in Visitors, Insert(v) PROVE ReadInv'
  BY <1>6 DEF Insert
<1>7. ASSUME NEW v \in Visitors, PostEvent(v) PROVE ReadInv'
  BY <1>7 DEF PostEvent
<1>8. ASSUME NEW m \in MeetingTimes, Meet(m) \/ CallOff(m) PROVE ReadInv'
  BY <1>8 DEF Meet, CallOff, Change
<1>9. CASE Tick
  BY <1>9 DEF Tick
<1>10. CASE UNCHANGED vars
  BY <1>10 DEF vars
<1> QED
  BY <1>1, <1>2, <1>3, <1>4, <1>6, <1>7, <1>8, <1>9, <1>10 DEF Next, Page

(* A meeting that overlaps a time of the list was in the reading.          *)
LEMMA FreeIsOffered ==
  ASSUME TypeOK, NEW v \in Visitors, NEW t \in Free(v), open[v] = Bookable,
         SeenIn(busy[v], open[v], meetings), taken[v] = RowsAround(open[v], booked)
  PROVE  Offered(t)
<1> DEFINE r == Range(Bookable)
<1>1. t \in Bookable /\ t \in Int
  BY BookableType DEF Free
<1>2. r.start \in Int /\ r.end \in Int /\ r.start <= t /\ t + SlotLen <= r.end
  BY <1>1, BookableRange DEF TypeOK
<1> HIDE DEF r
<1>3. ASSUME t \in booked PROVE FALSE
  <2>1. Window(t) \in RowsAround(open[v], booked)
    BY <1>1, <1>2, <1>3, CalendarAssumption DEF RowsAround, r
  <2>2. Overlap(Window(t), Window(t))
    BY <1>1, CalendarAssumption DEF Overlap, Window
  <2> QED BY <2>1, <2>2 DEF Free
<1>4. ASSUME NEW m \in meetings, Overlap(m, Window(t)) PROVE FALSE
  <2>1. m.start \in Int /\ m.end \in Int
    BY MeetingAssumption DEF TypeOK
  <2>2. Overlap(m, r)
    BY <1>1, <1>2, <1>4, <2>1, CalendarAssumption DEF Overlap, Window
  <2>3. Buffered(m) \in busy[v]
    BY <2>2 DEF r, SeenIn
  <2>4. Overlap(Window(t), Buffered(m))
    BY <1>1, <1>4, <2>1, CalendarAssumption DEF Overlap, Window, Buffered
  <2> QED BY <2>3, <2>4 DEF Free
<1> QED BY <1>1, <1>3, <1>4 DEF Offered

LEMMA ReadIsSeen ==
  ASSUME NEW times
  PROVE  /\ SeenIn(BusyIntervals(Range(times)), times, meetings)
         /\ BookedIntervals(Range(times)) = RowsAround(times, booked)
<1>1. ASSUME NEW m \in meetings, Overlap(m, Range(times))
      PROVE  Buffered(m) \in BusyIntervals(Range(times))
  BY <1>1 DEF BusyIntervals, Scheduled, Buffered
<1> QED BY <1>1 DEF SeenIn, BookedIntervals, RowsAround

(* A request for an offered time passes all checks but that of the horizon.*)
LEMMA OfferedIsAccepted ==
  ASSUME IInv, ReadInv, QuietHours, NEW t, Offered(t)
  PROVE  Legitimate(t) /\ LateEnough(t) /\ Scheduled(Window(t)) = {}
<1>1. t \in Int /\ Legitimate(t) /\ LateEnough(t)
  BY BookableIsAccepted DEF Offered, IInv, TypeOK
<1>2. ASSUME NEW e \in events, Overlap(Window(e), Window(t)) PROVE FALSE
  <2>1. e \in booked /\ Legitimate(e)
    BY DEF ReadInv, IInv, OnGrid
  <2>2. e # t
    BY <2>1 DEF Offered
  <2> QED BY <1>1, <1>2, <2>1, <2>2, LegitimateApart
<1>3. \A m \in meetings : ~Overlap(m, Window(t))
  BY DEF Offered
<1>4. Scheduled(Window(t)) = {}
  BY <1>2, <1>3 DEF Scheduled
<1> QED BY <1>1, <1>4

LEMMA FreshStep ==
  ASSUME IInv, ReadInv, FreshInv, QuietHours, [Next]_vars
  PROVE  FreshInv'
PROOF
<1> USE DEF Goto, clock, calendar, load, picker
<1>0. /\ pc \in [Visitors -> Steps] /\ selected \in [Visitors -> Int] /\ fresh \subseteq Visitors
      /\ open \in [Visitors -> SUBSET Int] /\ grid \in [Visitors -> SUBSET Int]
      /\ busy \in [Visitors -> SUBSET Intervals] /\ taken \in [Visitors -> SUBSET Intervals]
  BY DEF IInv, TypeOK
<1>1. ASSUME NEW v \in Visitors, LoadAvailability(v) PROVE FreshInv'
  <2>1. Steady
    BY <1>1 DEF LoadAvailability, Steady
  <2>2. UpToDate(v)'
    <3>1. busy[v] = NotRead /\ taken[v] = NotRead
      BY <1>1 DEF LoadAvailability, ReadInv
    <3>2. /\ open'[v] = Bookable' /\ pc'[v] = "loading" /\ grid'[v] = {}
          /\ busy'[v] = NotRead /\ taken'[v] = NotRead
      BY <1>0, <1>1, <2>1, <3>1, OfferedSteady DEF LoadAvailability
    <3> QED BY <3>2 DEF UpToDate, NotRead, NoTime
  <2>3. ASSUME NEW u \in fresh, u # v PROVE UpToDate(u)'
    BY <1>0, <1>1, <2>1, <2>3, Undisturbed DEF LoadAvailability, FreshInv
  <2> QED BY <1>1, <2>2, <2>3 DEF LoadAvailability, FreshInv
<1>2. ASSUME NEW v \in Visitors, FetchBusy(v) \/ FetchBooked(v) PROVE FreshInv'
  <2>1. Steady
    BY <1>2 DEF FetchBusy, FetchBooked, Steady
  <2>2. ASSUME v \in fresh PROVE UpToDate(v)'
    <3>1. /\ UpToDate(v) /\ pc'[v] = "loading" /\ open'[v] = open[v] /\ grid'[v] = grid[v]
          /\ busy'[v] = busy[v] \/ busy'[v] = BusyIntervals(Range(open[v]))
          /\ taken'[v] = taken[v] \/ taken'[v] = BookedIntervals(Range(open[v]))
          /\ open[v] = Bookable'
      BY <1>0, <1>2, <2>1, <2>2, OfferedSteady DEF FetchBusy, FetchBooked, FreshInv, UpToDate
    <3>2. /\ busy'[v] # NotRead => SeenIn(busy'[v], open'[v], meetings')
          /\ taken'[v] # NotRead => taken'[v] = RowsAround(open'[v], booked')
      BY <1>2, <2>1, <3>1, ReadIsSeen DEF UpToDate, Steady, FetchBusy, FetchBooked
    <3> QED BY <2>1, <3>1, <3>2, OfferedSteady DEF UpToDate, NotRead, NoTime
  <2>3. ASSUME NEW u \in fresh, u # v PROVE UpToDate(u)'
    BY <1>0, <1>2, <2>1, <2>3, Undisturbed DEF FetchBusy, FetchBooked, FreshInv
  <2> QED BY <1>2, <2>2, <2>3 DEF FetchBusy, FetchBooked, FreshInv
<1>4. ASSUME NEW v \in Visitors, ShowGrid(v) PROVE FreshInv'
  <2>1. Steady
    BY <1>4 DEF ShowGrid, Steady
  <2>2. ASSUME v \in fresh, NEW t \in Free(v) PROVE Offered(t)
    <3>1. open[v] = Bookable /\ busy[v] # NotRead /\ taken[v] # NotRead
      BY <1>4, <2>2 DEF ShowGrid, FreshInv, UpToDate, Free
    <3> QED BY <1>4, <2>2, <3>1, FreeIsOffered DEF ShowGrid, FreshInv, UpToDate, IInv
  <2>3. ASSUME v \in fresh PROVE UpToDate(v)'
    <3>1. grid'[v] = Free(v) /\ pc'[v] = "choosing"
      BY <1>0, <1>4 DEF ShowGrid
    <3> QED BY <2>1, <2>2, <2>3, <3>1, OfferedSteady DEF UpToDate
  <2>4. ASSUME NEW u \in fresh, u # v PROVE UpToDate(u)'
    BY <1>0, <1>4, <2>1, <2>4, Undisturbed DEF ShowGrid, FreshInv
  <2> QED BY <1>4, <2>3, <2>4 DEF ShowGrid, FreshInv
<1>5. ASSUME NEW v \in Visitors, Submit(v) \/ SubmitAny(v) PROVE FreshInv'
  <2>1. Steady
    BY <1>5 DEF Submit, SubmitAny, Steady
  <2>2. ASSUME v \in fresh PROVE UpToDate(v)'
    <3>1. grid'[v] = grid[v] /\ pc'[v] = "validating" /\ UpToDate(v)
      BY <1>0, <1>5, <2>2 DEF Submit, SubmitAny, FreshInv
    <3> QED BY <2>1, <3>1, OfferedSteady DEF UpToDate
  <2>3. ASSUME NEW u \in fresh, u # v PROVE UpToDate(u)'
    <3>1. \E t : selected' = [selected EXCEPT ![v] = t]
      BY <1>5 DEF Submit, SubmitAny
    <3> QED BY <1>0, <1>5, <2>1, <2>3, <3>1, Undisturbed DEF Submit, SubmitAny, FreshInv
  <2> QED BY <1>5, <2>2, <2>3 DEF Submit, SubmitAny, FreshInv
<1>6. ASSUME NEW v \in Visitors, Validate(v) \/ CheckBusy(v) PROVE FreshInv'
  <2>1. Steady
    BY <1>6 DEF Validate, CheckBusy, Steady
  <2>2. ASSUME v \in fresh PROVE UpToDate(v)'
    <3>1. /\ UpToDate(v) /\ grid'[v] = grid[v] /\ selected'[v] = selected[v]
          /\ pc'[v] \in {"checking", "inserting", "refused"}
      BY <1>0, <1>6, <2>2 DEF Validate, CheckBusy, FreshInv
    <3>2. ASSUME pc'[v] = "refused", selected[v] \in grid[v] PROVE ~InHorizon(selected[v])
      <4>1. /\ Legitimate(selected[v]) /\ LateEnough(selected[v])
            /\ BusyIntervals(Window(selected[v])) = {}
        BY <3>1, <3>2, OfferedIsAccepted DEF UpToDate, BusyIntervals
      <4> QED BY <1>0, <1>6, <3>2, <4>1 DEF Validate, CheckBusy
    <3> QED BY <2>1, <3>1, <3>2, OfferedSteady DEF UpToDate
  <2>3. ASSUME NEW u \in fresh, u # v PROVE UpToDate(u)'
    BY <1>0, <1>6, <2>1, <2>3, Undisturbed DEF Validate, CheckBusy, FreshInv
  <2> QED BY <1>6, <2>2, <2>3 DEF Validate, CheckBusy, FreshInv
<1>8. ASSUME NEW v \in Visitors, Insert(v) PROVE FreshInv'
  <2>1. CASE fresh' = {}
    BY <2>1 DEF FreshInv
  <2>2. CASE selected[v] \in booked /\ pc' = [pc EXCEPT ![v] = "refused"] /\ UNCHANGED <<booked, fresh>>
    <3>1. Steady
      BY <1>8, <2>2 DEF Insert, Steady
    <3>2. ASSUME v \in fresh PROVE UpToDate(v)'
      <4>1. /\ UpToDate(v) /\ grid'[v] = grid[v] /\ selected'[v] = selected[v] /\ pc'[v] = "refused"
        BY <1>0, <1>8, <2>2, <3>2 DEF Insert, FreshInv
      <4>2. selected[v] \notin grid[v]
        BY <2>2, <4>1 DEF UpToDate, Offered
      <4> QED BY <3>1, <4>1, <4>2, OfferedSteady DEF UpToDate
    <3>3. ASSUME NEW u \in fresh, u # v PROVE UpToDate(u)'
      BY <1>0, <1>8, <2>2, <3>1, <3>3, Undisturbed DEF Insert, FreshInv
    <3> QED BY <2>2, <3>2, <3>3 DEF FreshInv
  <2> QED BY <1>8, <2>1, <2>2 DEF Insert
<1>9. ASSUME NEW v \in Visitors, PostEvent(v) PROVE FreshInv'
  <2>1. Steady
    BY <1>9 DEF PostEvent, Steady
  <2>2. ASSUME NEW u \in fresh PROVE UpToDate(u)'
    BY <1>0, <1>9, <2>1, <2>2, Undisturbed DEF PostEvent, FreshInv
  <2> QED BY <1>9, <2>2 DEF PostEvent, FreshInv
<1>10. ASSUME NEW m \in MeetingTimes, Meet(m) \/ CallOff(m) PROVE FreshInv'
  BY <1>10 DEF Meet, CallOff, Change, FreshInv
<1>11. CASE Tick
  BY <1>11 DEF Tick, FreshInv
<1>12. CASE UNCHANGED vars
  <2>1. Steady
    BY <1>12 DEF vars, Steady
  <2>2. ASSUME NEW u \in fresh PROVE UpToDate(u)'
    BY <1>12, <2>1, <2>2, Undisturbed DEF vars, FreshInv
  <2> QED BY <1>12, <2>2 DEF vars, FreshInv
<1> QED
  BY <1>1, <1>2, <1>4, <1>5, <1>6, <1>8, <1>9, <1>10, <1>11, <1>12 DEF Next, Page

(* What is offered is accepted, unless something moved since the grid was  *)
(* asked for or the time lies beyond the hours of the horizon, at any      *)
(* number of pages and for any horizon (booking.service.ts:165-230,        *)
(* 269-296).                                                               *)
THEOREM OffersHonoured ==
  ASSUME QuietHours
  PROVE  Spec => []OfferIsHonoured
<1>1. Init => ReadInv /\ FreshInv
  BY DEF Init, ReadInv, FreshInv, UpToDate
<1>2. IInv /\ ReadInv /\ FreshInv /\ [Next]_vars => ReadInv' /\ FreshInv'
  BY ReadStep, FreshStep
<1>3. FreshInv => OfferIsHonoured
  BY DEF FreshInv, UpToDate, OfferIsHonoured
<1> QED BY <1>1, <1>2, <1>3, GridIsKept, PTL DEF Spec

=============================================================================
