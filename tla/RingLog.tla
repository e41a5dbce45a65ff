------------------------------ MODULE RingLog ------------------------------
(***************************************************************************)
(* What the EEPROM logger promises: a ring of entries and the position of  *)
(* the next one. An entry is stored at that position, which then moves on. *)
(* When the store fails that page alone may be torn; when the move fails,  *)
(* or the processor is reset in between, the next entry replaces the one   *)
(* just stored. Either way no other entry is touched.                      *)
(*                                                                         *)
(* The promise is good as long as the position is: when it is damaged or   *)
(* cannot be read, nothing more is promised.                               *)
(***************************************************************************)
EXTENDS Naturals

CONSTANTS Entry, Blank, Noise, Pages

VARIABLES
    entries, \* the entry of each page
    next,    \* where the next one goes
    phase,   \* "write": an entry is to be stored; "upd": next is to be moved
    text,    \* the entry to be stored
    intact   \* the position has not been damaged

vars == <<entries, next, phase, text, intact>>

Init ==
    /\ entries = [p \in 0..(Pages - 1) |-> Blank] /\ next = 0
    /\ phase = "idle" /\ text = Blank /\ intact = TRUE

Begin(d) ==
    /\ phase = "idle" /\ phase' = "write" /\ text' = d
    /\ UNCHANGED <<entries, next>>

Store ==
    /\ phase = "write" /\ phase' = "upd" /\ text' = Blank
    /\ entries' = [entries EXCEPT ![next] = text]
    /\ UNCHANGED next

Miss ==
    /\ phase = "write" /\ phase' = "idle" /\ text' = Blank
    /\ \E c \in {entries[next], text, Noise} : entries' = [entries EXCEPT ![next] = c]
    /\ UNCHANGED next

Advance ==
    /\ phase = "upd" /\ phase' = "idle"
    /\ next' = (next + 1) % Pages
    /\ UNCHANGED <<entries, text>>

Lose == phase = "upd" /\ phase' = "idle" /\ UNCHANGED <<entries, next, text>>

(* An entry written to a page of the caller's choice.                       *)
Put(p, c) ==
    /\ phase = "idle"
    /\ entries' = [entries EXCEPT ![p] = c]
    /\ UNCHANGED <<next, phase, text>>

Rewind == phase = "idle" /\ next' = 0 /\ UNCHANGED <<entries, phase, text>>

Keeps ==
    \/ \E d \in Entry : Begin(d)
    \/ Store \/ Miss \/ Advance \/ Lose \/ Rewind
    \/ \E p \in 0..(Pages - 1), c \in Entry \cup {Noise} : Put(p, c)

Next == (intact /\ intact' /\ Keeps) \/ ~intact'

Spec == Init /\ [][Next]_vars
=============================================================================
