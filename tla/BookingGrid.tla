---------------------------- MODULE BookingGrid ----------------------------
(***************************************************************************)
(* Which times are offered and which are accepted: getAvailability and the *)
(* checks at the head of createBooking (booking.service.ts), the wall      *)
(* clock of the booking zone (timezone.ts), and the picker that stands     *)
(* between them (BookingWidget.tsx).                                       *)
(*                                                                         *)
(* Times are integers, in units of which a slot and a day are whole        *)
(* numbers; a day is known by its number, the date key of the code.  The   *)
(* offset of the zone changes once.  Of an accepted booking the row and    *)
(* then the event come into being here; what else becomes of it is module  *)
(* Booking.                                                                *)
(***************************************************************************)
EXTENDS Integers

CONSTANTS
  Visitors,
  DayLen, WeekLen, WorkDays,     \* units in a day, days in a week
  DayStart, DayEnd, SlotLen,     \* working hours, on the wall clock
  MinNotice, MaxDaysAhead, Buffer,
  AskedDays,                     \* days=21 of the widget
  Before, After, Changeover,     \* units ahead of UTC, and when that changes
  MeetingTimes,                  \* meetings the consultant may have
  OtherTimes,                    \* times asked for without the picker
  MaxTime, MaxChanges            \* bounds on the clock and on changes to meetings

ASSUME CalendarAssumption ==
  /\ DayLen \in Nat \ {0} /\ WeekLen \in Nat \ {0} /\ SlotLen \in Nat \ {0}
  /\ DayStart \in Nat /\ DayEnd \in Nat /\ DayStart < DayEnd /\ DayEnd < DayLen
  /\ WorkDays \subseteq 0..(WeekLen - 1)
  /\ MinNotice \in Nat /\ MaxDaysAhead \in Nat /\ Buffer \in Nat /\ AskedDays \in Nat \ {0}

ASSUME ZoneAssumption == Before \in Int /\ After \in Int /\ Changeover \in Int

ASSUME MeetingAssumption ==
  /\ MeetingTimes \subseteq [start : Int, end : Int]
  /\ OtherTimes \subseteq Int
  /\ MaxTime \in Int /\ MaxChanges \in Nat

VARIABLES
  now,
  meetings,         \* on the consultant's calendar
  events,           \* bookings with an event on that calendar, by start
  booked,           \* bookings with an active row, by start
  pc,               \* where each visitor's page or request stands
  open, busy, taken,  \* of a running getAvailability: bookable times, the two reads
  grid, selected,   \* what the picker offers; the time asked for
  fresh,            \* nothing changed since the grid was asked for
  changes

clock == <<now, fresh, changes>>
calendar == <<meetings, events, booked>>
load == <<open, busy, taken>>
picker == <<grid, selected>>
vars == <<clock, calendar, pc, load, picker>>

NoTime == MaxTime + 10 * DayLen

----------------------------------------------------------------------------
(* The wall clock.  A wall time is what an instant would be if the zone    *)
(* were UTC.                                                               *)

ZoneOffset(t) == IF t < Changeover THEN Before ELSE After

WallTime(t) == t + ZoneOffset(t)

(* Slip: the offset is measured once.                                      *)
ZonedTimeToUtcOnce(w) == w - ZoneOffset(w)

(* Guess, measure, correct, measure again.                                 *)
ZonedTimeToUtc(w) == w - ZoneOffset(w - ZoneOffset(w))

ZonedDateKey(t) == WallTime(t) \div DayLen

Opens(day) == ZonedTimeToUtc(day * DayLen + DayStart)

Closes(day) == ZonedTimeToUtc(day * DayLen + DayEnd)

CandidateSlots(from, dayCount) ==
  UNION {{t \in Opens(day)..(Closes(day) - SlotLen) : (t - Opens(day)) % SlotLen = 0} :
         day \in {d \in from..(from + dayCount - 1) : ZonedDateKey(Opens(d)) % WeekLen \in WorkDays}}

----------------------------------------------------------------------------
Window(t) == [start |-> t, end |-> t + SlotLen]

Overlap(a, b) == a.start < b.end /\ b.start < a.end

(* What getSchedule says of a window: what overlaps it, and only that.     *)
Scheduled(window) == {m \in meetings \cup {Window(e) : e \in events} : Overlap(m, window)}

BusyIntervals(window) ==
  {[start |-> m.start - Buffer, end |-> m.end + Buffer] : m \in Scheduled(window)}

(* Slip: rows are not asked, for the calendar has their events.            *)
NoBookedIntervals(window) == {}

BookedIntervals(window) == {Window(b) : b \in {t \in booked : t >= window.start /\ t < window.end}}

SoonEnough(t) == t < ZonedTimeToUtc((ZonedDateKey(now) + MaxDaysAhead + 1) * DayLen)

LateEnough(t) == t >= now + MinNotice

(* createBooking counts the horizon in hours from now.                     *)
InHorizon(t) == t <= now + MaxDaysAhead * DayLen

Bookable == {t \in CandidateSlots(ZonedDateKey(now), AskedDays) : LateEnough(t) /\ SoonEnough(t)}

(* From the first of the times to the end of the last.                     *)
Range(times) ==
  [start |-> CHOOSE t \in times : \A u \in times : t <= u,
   end   |-> (CHOOSE t \in times : \A u \in times : u <= t) + SlotLen]

----------------------------------------------------------------------------
NotRead == {[start |-> NoTime, end |-> NoTime]}

Init ==
  /\ now = 0 /\ changes = 0 /\ fresh = Visitors
  /\ meetings \in {{}} \cup {{m} : m \in MeetingTimes}
  /\ events = {} /\ booked = {}
  /\ pc = [v \in Visitors |-> "mounted"]
  /\ open = [v \in Visitors |-> {}]
  /\ busy = [v \in Visitors |-> NotRead] /\ taken = [v \in Visitors |-> NotRead]
  /\ grid = [v \in Visitors |-> {}] /\ selected = [v \in Visitors |-> NoTime]

Goto(v, step) == pc' = [pc EXCEPT ![v] = step]

(* loadAvailability: the page opens, or its last request was refused.      *)
LoadAvailability(v) ==
  /\ pc[v] \in {"mounted", "refused"}
  /\ open' = [open EXCEPT ![v] = Bookable]
  /\ Goto(v, "loading")
  /\ selected' = [selected EXCEPT ![v] = NoTime] /\ grid' = [grid EXCEPT ![v] = {}]
  /\ fresh' = fresh \cup {v}
  /\ UNCHANGED <<now, changes, calendar, busy, taken>>

(* The two reads of getAvailability, at once.                              *)
FetchBusy(v) ==
  /\ pc[v] = "loading" /\ open[v] # {} /\ busy[v] = NotRead
  /\ busy' = [busy EXCEPT ![v] = BusyIntervals(Range(open[v]))]
  /\ UNCHANGED <<clock, calendar, pc, open, taken, picker>>

FetchBooked(v) ==
  /\ pc[v] = "loading" /\ open[v] # {} /\ taken[v] = NotRead
  /\ taken' = [taken EXCEPT ![v] = BookedIntervals(Range(open[v]))]
  /\ UNCHANGED <<clock, calendar, pc, open, busy, picker>>

(* Slip: the calendar is read and not used.                                *)
FreeOfBookings(v) == {t \in open[v] : \A b \in taken[v] : ~Overlap(Window(t), b)}

Free(v) == {t \in open[v] : \A b \in busy[v] \cup taken[v] : ~Overlap(Window(t), b)}

ShowGrid(v) ==
  /\ pc[v] = "loading"
  /\ open[v] # {} => busy[v] # NotRead /\ taken[v] # NotRead
  /\ grid' = [grid EXCEPT ![v] = Free(v)]
  /\ Goto(v, "choosing")
  /\ open' = [open EXCEPT ![v] = {}]
  /\ busy' = [busy EXCEPT ![v] = NotRead] /\ taken' = [taken EXCEPT ![v] = NotRead]
  /\ UNCHANGED <<clock, calendar, selected>>

(* A time of the grid is chosen and confirmed.                             *)
Submit(v) ==
  /\ pc[v] = "choosing"
  /\ \E t \in grid[v] : selected' = [selected EXCEPT ![v] = t]
  /\ Goto(v, "validating")
  /\ UNCHANGED <<clock, calendar, load, grid>>

(* A request of some other origin asks for any time at all.                *)
SubmitAny(v) ==
  /\ pc[v] = "mounted"
  /\ \E t \in OtherTimes : selected' = [selected EXCEPT ![v] = t]
  /\ Goto(v, "validating")
  /\ UNCHANGED <<clock, calendar, load, grid>>

(* createBooking, up to the look at the calendar.                          *)
Legitimate(t) == t \in CandidateSlots(ZonedDateKey(t), 1)

(* Slip: the posted time is trusted to be on the grid.                     *)
ValidateTrusting(v) ==
  LET t == selected[v]
  IN /\ pc[v] = "validating"
     /\ Goto(v, IF LateEnough(t) /\ InHorizon(t) THEN "checking" ELSE "refused")
     /\ UNCHANGED <<clock, calendar, load, picker>>

Validate(v) ==
  LET t == selected[v]
  IN /\ pc[v] = "validating"
     /\ Goto(v, IF Legitimate(t) /\ LateEnough(t) /\ InHorizon(t) THEN "checking" ELSE "refused")
     /\ UNCHANGED <<clock, calendar, load, picker>>

CheckBusy(v) ==
  LET window == Window(selected[v])
  IN /\ pc[v] = "checking"
     /\ Goto(v, IF \E b \in BusyIntervals(window) : Overlap(b, window) THEN "refused" ELSE "inserting")
     /\ UNCHANGED <<clock, calendar, load, picker>>

(* Bookings of a moment that is taken: the unique index.                   *)
Insert(v) ==
  LET t == selected[v]
  IN /\ pc[v] = "inserting"
     /\ \/ t \in booked /\ Goto(v, "refused") /\ UNCHANGED <<booked, fresh>>
        \/ /\ t \notin booked
           /\ booked' = booked \cup {t}
           /\ fresh' = {}
           /\ Goto(v, "posting")
     /\ UNCHANGED <<now, changes, meetings, events, load, picker>>

PostEvent(v) ==
  /\ pc[v] = "posting"
  /\ events' = events \cup {selected[v]}
  /\ Goto(v, "confirmed")
  /\ grid' = [grid EXCEPT ![v] = {}]
  /\ UNCHANGED <<clock, meetings, booked, load, selected>>

----------------------------------------------------------------------------
(* The consultant, and time.                                               *)
Change(set) ==
  /\ changes < MaxChanges
  /\ changes' = changes + 1
  /\ meetings' = set
  /\ fresh' = {}
  /\ UNCHANGED <<now, events, booked, pc, load, picker>>

Meet(m) == m \notin meetings /\ Change(meetings \cup {m})

CallOff(m) == m \in meetings /\ Change(meetings \ {m})

Tick ==
  /\ now < MaxTime
  /\ now' = now + 1
  /\ fresh' = {}
  /\ UNCHANGED <<changes, calendar, pc, load, picker>>

----------------------------------------------------------------------------
Page(v) ==
  \/ LoadAvailability(v) \/ FetchBusy(v) \/ FetchBooked(v) \/ ShowGrid(v)
  \/ Submit(v) \/ Validate(v) \/ CheckBusy(v) \/ Insert(v) \/ PostEvent(v)

Next ==
  \/ \E v \in Visitors : Page(v) \/ SubmitAny(v)
  \/ \E m \in MeetingTimes : Meet(m) \/ CallOff(m)
  \/ Tick

Spec == Init /\ [][Next]_vars

(* Requests are answered and a visitor who is offered a time takes one.    *)
FairSpec == Spec /\ \A v \in Visitors : WF_vars(Page(v))

----------------------------------------------------------------------------
(***************************************************************************)
(* Properties                                                              *)
(***************************************************************************)

(* Bookings keep the hours of the wall clock, on working days, on either   *)
(* side of a change of the offset (booking.service.ts:81-85, 276-280).     *)
HoursAreKept ==
  \A t \in booked :
    LET day == ZonedDateKey(t)
    IN /\ day % WeekLen \in WorkDays
       /\ WallTime(t) >= day * DayLen + DayStart
       /\ WallTime(t + SlotLen - 1) < day * DayLen + DayEnd

(* No two bookings overlap, though the index knows equal starts only and   *)
(* the calendar has no event of a booking that is being made               *)
(* (booking.service.ts:276-278, 292-296).                                  *)
BookingsAreApart ==
  \A t, u \in booked : t # u => ~Overlap(Window(t), Window(u))

(* A time of the grid is refused only if, since the grid was asked for,    *)
(* the clock, the calendar or the table moved, or if it is one of the late *)
(* times of the last day, beyond the hours that createBooking counts (288; *)
(* "the horizon day itself remains fully bookable", lines 184-185 say):    *)
(* all else that is offered is accepted (booking.service.ts:165-230,       *)
(* 269-296).                                                               *)
OfferIsHonoured ==
  \A v \in Visitors :
    pc[v] = "refused" /\ selected[v] \in grid[v] => v \notin fresh \/ ~InHorizon(selected[v])

(* A visitor who takes what is offered is booked, or learns that nothing   *)
(* is left: a refusal is not repeated for ever (BookingWidget.tsx:159-168),*)
(* but to one who goes on asking for the late times of the last day.       *)
EndsWell ==
  \A v \in Visitors :
    \/ <>(pc[v] = "confirmed" \/ (pc[v] = "choosing" /\ grid[v] = {}))
    \/ []<>(pc[v] = "refused" /\ ~InHorizon(selected[v]))
----------------------------------------------------------------------------
(* What the theorems about the grid ask of a calendar.                     *)

(* The wall times that a change skips or shows twice are no working hours. *)
QuietDay(d) ==
  \/ d * DayLen + DayEnd < Changeover + Before /\ d * DayLen + DayEnd < Changeover + After
  \/ d * DayLen + DayStart >= Changeover + Before /\ d * DayLen + DayStart >= Changeover + After

QuietHours == \A d \in Int : QuietDay(d)
=============================================================================
