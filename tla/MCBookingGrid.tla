--------------------------- MODULE MCBookingGrid ---------------------------
(***************************************************************************)
(* Days of ten units, two slots of two in five working hours; the offset  *)
(* grows by one after the hours of day 1, at 12: that day opens at 6, when *)
(* the wall shows 12.  A meeting ends where the first slot begins, another *)
(* one lies in the second slot.                                            *)
(***************************************************************************)
EXTENDS BookingGrid

MCVisitors == {"ana", "ben"}

MCMeetingTimes == {[start |-> a[1], end |-> a[2]] : a \in {<<4, 6>>, <<8, 9>>}}
MCOtherTimes == {6, 7, 15}

(* The theorems hold of this calendar: days far from the change are quiet. *)
ASSUME QuietInstance == \A d \in -9..9 : QuietDay(d)
=============================================================================
