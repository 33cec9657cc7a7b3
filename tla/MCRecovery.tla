----------------------------- MODULE MCRecovery -----------------------------
(***************************************************************************)
(* Small instances of Recovery for TLC.                                    *)
(***************************************************************************)
EXTENDS Recovery, TLC

CONSTANTS b1, b2, p1, p2, y1, y2

\* Two bookings of one passenger, who booked twice, and one booking.
SamePassenger == (b1 :> p1) @@ (b2 :> p1)
OneBooking == (b1 :> p1)
=============================================================================
