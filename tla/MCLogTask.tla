----------------------------- MODULE MCLogTask -----------------------------
(* Dates that differ from one date in one part, with the edges of each, and *)
(* the times the clock moves on to.                                         *)
EXTENDS LogTask

Base == [dow |-> 5, day |-> 6, month |-> 9, year |-> 22, hrs |-> 20, mins |-> 58,
         secs |-> 0, is24hr |-> TRUE, ampm |-> FALSE]

EdgeDates ==
    {[Base EXCEPT !.hrs = h] : h \in -1..24}
      \cup {[Base EXCEPT !.hrs = h, !.is24hr = FALSE, !.ampm = a] :
               h \in 0..13, a \in BOOLEAN}
      \cup {[Base EXCEPT !.day = d, !.month = m] : d \in {0, 29, 31, 32}, m \in {2, 12, 13}}
      \cup {[Base EXCEPT !.year = y] : y \in {-1, 24, 99, 100}}
      \cup {[Base EXCEPT !.secs = s] : s \in {-1, 59, 60}}
      \cup {[Base EXCEPT !.dow = w] : w \in {0, 8}}
      \cup {[Base EXCEPT !.mins = m] : m \in {-1, 60}}

EdgeTimes ==
    {[Base EXCEPT !.hrs = h] : h \in {0, 9, 23}}
      \cup {[Base EXCEPT !.hrs = h, !.is24hr = FALSE, !.ampm = a] :
               h \in {1, 12}, a \in BOOLEAN}
      \cup {[Base EXCEPT !.secs = 59, !.mins = 7, !.year = y] : y \in {22, 24}}

(* A time of a leap year in the 12 hour format.                             *)
LeapYearTimes == {[Base EXCEPT !.year = 24, !.hrs = 8, !.is24hr = FALSE, !.ampm = TRUE]}
=============================================================================
