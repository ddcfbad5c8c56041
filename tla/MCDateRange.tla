----------------------------- MODULE MCDateRange -----------------------------
(***************************************************************************)
(* DateRange around the ends of a common century, of a leap century, of a  *)
(* leap year and of a common year, and around the leap days themselves.    *)
(***************************************************************************)
EXTENDS DateRange

MCStarts == {Day(1899, 12, 20), Day(1900, 2, 15), Day(1999, 12, 20),
             Day(2000, 2, 15), Day(2015, 12, 20), Day(2016, 2, 15),
             Day(2017, 4, 20)}

West == -5
=============================================================================
