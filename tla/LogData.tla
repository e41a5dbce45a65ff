------------------------------ MODULE LogData ------------------------------
(***************************************************************************)
(* The EEPROM logger (ENDG3051_APP/LogData.cpp) with its device. An IIC    *)
(* transfer is one step here (see IIC). It succeeds with 0, has no START   *)
(* (-1), or is refused or broken off by a bus error (-2), after any number *)
(* of its bytes; a device that is programming a page refuses everything.   *)
(* The processor may be reset between any two steps; the device is not.    *)
(*                                                                         *)
(* Write tests `_pg`, which is not declared there; it is read as `_page`.  *)
(* WriteAuto, Reset and their helpers are private ("disabeled").           *)
(***************************************************************************)
EXTENDS Integers, Sequences

CONSTANTS
    Entry, Blank, \* what a page holds: text, or the erased state
    Noise,        \* a page or a buffer that holds none of what was written whole
    Pages,        \* 2044 pages for entries; page Pages holds the page pointer
    Reserved,     \* 4 pages from there to the end of the device
    Radix,        \* 10: the pointer is kept as four decimal digits
    Arguments,    \* page numbers the application passes
    Garbage       \* numbers that get_addr makes of what is no number

Total == Pages + Reserved
Device == 0..(Total - 1)

ASSUME PagesAssumption == Pages \in Nat \ {0} /\ Reserved \in Nat \ {0}
ASSUME RadixAssumption == Radix \in Nat \ {0, 1} /\ Pages < Radix * Radix * Radix * Radix
ASSUME ArgumentAssumption == Arguments \subseteq Int /\ Garbage \subseteq Int

DEVLOCK == 312
Locks == {0, DEVLOCK}
IICResults == {0, -1, -2}

VARIABLES
    mem, busy,   \* the device: its pages, and whether it is programming one
    pc,          \* "idle", inside WriteAuto ("write", "upd"), or in a loop of ReadPages
    page, entry, \* the page that the step is about, the text to be written
    dl,          \* the devlock argument of the call
    result,      \* what the last call returned
    first, last, \* the pages of a Read
    lock,        \* the devlock with which it reads them
    printed,     \* what it has sent to the serial port
    failed,      \* history: the pages of it for which a transfer failed
    intact       \* history: the pointer was written and read without a failure

device == <<mem, busy>>
read == <<first, last, lock, printed, failed>>
vars == <<device, pc, page, entry, dl, result, read, intact>>

(* _page * 32 in 16 bits, as two address bytes: pages wrap around the device. *)
DevicePage(p) == p % Total

(* C divides towards zero.                                                  *)
Quotient(v) == IF v >= 0 THEN v \div Radix ELSE -((-v) \div Radix)
Remainder(v) == v - Radix * Quotient(v)

(* Mutant: the digits are stored in the wrong order.                        *)
MutDigits(v) ==
    LET q == Quotient(v)
        r == Quotient(q)
    IN  <<Remainder(v), Remainder(q), Remainder(r), Remainder(Quotient(r))>>

(* upd_addr's conversion, from the last digit on, and get_addr's.           *)
Digits(v) ==
    LET q == Quotient(v)
        r == Quotient(q)
    IN  <<Remainder(Quotient(r)), Remainder(r), Remainder(q), Remainder(v)>>
Value(d) == d[1] * (Radix * Radix * Radix) + d[2] * (Radix * Radix) + d[3] * Radix + d[4]

Number == [1..4 -> Int]
Text == Entry \cup {Blank, Noise}
ASSUME ContentAssumption ==
    /\ Blank \notin Entry /\ Noise \notin Entry \cup {Blank}
    /\ \A v \in 0..(Pages - 1) : Digits(v) \notin Text

(* The number that get_addr makes of a page. The erased 0xff's come out     *)
(* beyond the last page; text comes out as anything.                        *)
Decoded(c) == IF c = Blank THEN {Pages} ELSE IF c \in Text THEN Garbage ELSE {Value(c)}

Init ==
    /\ mem = [p \in Device |-> Blank] /\ busy = FALSE
    /\ pc = "idle" /\ page = 0 /\ entry = Blank /\ dl = 0 /\ result = 0
    /\ first = 0 /\ last = -1 /\ lock = 0 /\ printed = <<>> /\ failed = {}
    /\ intact = TRUE

-----------------------------------------------------------------------------
(* The device, by way of the IIC driver *)

(* What a page holds after a write that broke off: some of the new digits   *)
(* before old ones, or no whole text; or all of it, but the last ACK.       *)
Broken(old, new) ==
    IF old \in Text \/ new \in Text THEN {Noise, new}
    ELSE {[i \in 1..4 |-> IF i <= k THEN new[i] ELSE old[i]] : k \in 1..4}

(* A write to page p: programming begins with the STOP. Without a byte of   *)
(* data there is none.                                                      *)
WritePage(p, c, rc) ==
    LET q == DevicePage(p)
    IN  \/ rc # 0 /\ UNCHANGED device
        \/ /\ ~busy /\ rc # -1 /\ busy' = TRUE
           /\ \E b \in IF rc = 0 THEN {c} ELSE Broken(mem[q], c) :
                mem' = [mem EXCEPT ![q] = b]

(* An address write, whose result aw is ignored, and a read with result rc. *)
Reads(aw, rc) ==
    /\ aw = 0 => ~busy
    /\ busy' = (busy /\ rc # 0)
    /\ UNCHANGED mem

(* What is in the buffer then. If the address write failed the read went on *)
(* from an address of the past; if the read failed it is not filled.        *)
Fetched(p, aw, rc) == IF aw = 0 /\ rc = 0 THEN mem[DevicePage(p)] ELSE Noise

DeviceReady ==
    /\ busy /\ busy' = FALSE
    /\ UNCHANGED <<mem, pc, page, entry, dl, result, read, intact>>

NoRead == first' = 0 /\ last' = -1 /\ lock' = 0 /\ printed' = <<>> /\ failed' = {}

(* The processor is reset: only the device keeps its state.                 *)
Restart ==
    /\ pc # "idle"
    /\ pc' = "idle" /\ page' = 0 /\ entry' = Blank /\ dl' = 0 /\ result' = 0
    /\ NoRead
    /\ UNCHANGED <<device, intact>>

-----------------------------------------------------------------------------
(* Mutant: the first reserved page is let through.                          *)
Mutok(a, d) == a > Pages /\ d # DEVLOCK

(* TRUE when the page is refused.                                           *)
ok(a, d) == a >= Pages /\ d # DEVLOCK

(* The pointer stays intact if it is left alone or becomes c.               *)
Whole(c) == intact' = (intact /\ mem'[Pages] \in {mem[Pages], c})

Write(p, c, l) ==
    /\ pc = "idle"
    /\ page' = p /\ dl' = l
    /\ \/ ok(p, l) /\ result' = 1 /\ UNCHANGED device
       \/ /\ ~ok(p, l)
          /\ \E rc \in IICResults : WritePage(p, c, rc) /\ result' = rc
    /\ Whole(Digits(0))
    /\ NoRead
    /\ UNCHANGED <<pc, entry>>

Reset(l) == Write(Pages, Digits(0), l)

(* WriteAuto up to its Write: get_addr, and the first page again at the end. *)
WriteAuto(d) ==
    /\ pc = "idle" /\ pc' = "write" /\ entry' = d /\ dl' = 0
    /\ \E aw, rc \in IICResults :
         /\ Reads(aw, rc)
         /\ \E a \in Decoded(Fetched(Pages, aw, rc)) : page' = IF a >= Pages THEN 0 ELSE a
         /\ intact' = (intact /\ aw = 0 /\ rc = 0)
    /\ NoRead
    /\ UNCHANGED result

WriteAutoWrite ==
    /\ pc = "write"
    /\ \E rc \in IICResults : WritePage(page, entry, rc) /\ result' = rc
    /\ pc' = IF result' = 0 THEN "upd" ELSE "idle"
    /\ Whole(mem[Pages])
    /\ UNCHANGED <<page, entry, dl, read>>

(* Mutant: the pointer is left to run one page past the log.                *)
Mutupd_addr ==
    /\ pc = "upd" /\ pc' = "idle" /\ page' = 0 /\ entry' = Blank
    /\ \E rc \in IICResults : WritePage(Pages, Digits(page + 1), rc)
    /\ Whole(Digits(page + 1))
    /\ UNCHANGED <<dl, result, read>>

(* The pointer's four digits; the result of the transfer is ignored.        *)
upd_addr ==
    LET next == Digits(IF page + 1 >= Pages THEN 0 ELSE page + 1)
    IN  /\ pc = "upd" /\ pc' = "idle" /\ page' = 0 /\ entry' = Blank
        /\ \E rc \in IICResults : WritePage(Pages, next, rc)
        /\ Whole(next)
        /\ UNCHANGED <<dl, result, read>>

-----------------------------------------------------------------------------
(* A loop of ReadPages with devlock l, in a call with devlock argument d.   *)
StartRead(from, to, d, l) ==
    /\ pc = "idle" /\ pc' = "read" /\ page' = from /\ dl' = d
    /\ first' = from /\ last' = to /\ lock' = l /\ printed' = <<>> /\ failed' = {}
    /\ UNCHANGED <<device, entry, result, intact>>

ReadPage(p, d) == StartRead(p, p, d, d)

ReadAll == StartRead(0, Pages - 1, 0, 0)

(* 16-bit unsigned comparisons, the first two of which never refuse.        *)
E2_END_ADDR == 32 * Total - 1
Refuses(s, e) ==
    \/ 32 * DevicePage(e) > E2_END_ADDR
    \/ 32 * DevicePage(s) > E2_END_ADDR
    \/ s > e
    \/ 32 * DevicePage(s) > E2_END_ADDR - 32

(* The devlock argument is not passed on to ReadPage.                       *)
ReadFT(s, e, d) ==
    \/ ~Refuses(s, e) /\ StartRead(s, e, d, 0)
    \/ /\ Refuses(s, e) /\ pc = "idle"
       /\ result' = 1 /\ dl' = d /\ NoRead
       /\ UNCHANGED <<device, pc, page, entry, intact>>

(* Mutant: the range is taken without its last page.                        *)
MutMore == page + 1 < last

More == page < last

(* One ReadPage of the loop; the last one's result is returned.             *)
ReadStep ==
    /\ pc = "read"
    /\ \/ ok(page, lock) /\ result' = 1 /\ UNCHANGED <<device, printed, failed>>
       \/ /\ ~ok(page, lock)
          /\ \E aw, rc \in IICResults :
               /\ Reads(aw, rc) /\ result' = rc
               /\ printed' = Append(printed, Fetched(page, aw, rc))
               /\ failed' = IF aw = 0 /\ rc = 0 THEN failed ELSE failed \cup {page}
    /\ \/ More /\ page' = page + 1 /\ UNCHANGED pc
       \/ ~More /\ page' = 0 /\ pc' = "idle"
    /\ UNCHANGED <<entry, dl, first, last, lock, intact>>

Next ==
    \/ \E p \in Arguments, d \in Entry, l \in Locks : Write(p, d, l)
    \/ \E l \in Locks : Reset(l)
    \/ \E d \in Entry : WriteAuto(d)
    \/ WriteAutoWrite \/ upd_addr
    \/ \E p \in Arguments, l \in Locks : ReadPage(p, l)
    \/ ReadAll
    \/ \E s, e \in Arguments, l \in Locks : ReadFT(s, e, l)
    \/ ReadStep
    \/ DeviceReady \/ Restart

Spec == Init /\ [][Next]_vars

-----------------------------------------------------------------------------
(***************************************************************************)
(* WriteAuto, Write and Reset implement the ring of entries, through the   *)
(* pointer's digits, entries torn by bus errors, refused transfers, lost   *)
(* updates of the pointer and resets of the processor: all that breaks the *)
(* ring is a pointer that could not be read, or is torn or written over.   *)
(***************************************************************************)
Pointer == IF mem[Pages] \in Text THEN 0 ELSE Value(mem[Pages])
Ring == INSTANCE RingLog WITH
    entries <- [p \in 0..(Pages - 1) |-> mem[p]],
    next <- Pointer,
    phase <- IF pc = "read" THEN "idle" ELSE pc,
    text <- IF pc = "write" THEN entry ELSE Blank

ImplementsRingLog == Ring!Spec

(* The last page a Read is allowed to read, and that it has printed its     *)
(* pages up to `end`.                                                       *)
ReadEnd == IF lock # DEVLOCK /\ last >= Pages THEN Pages - 1 ELSE last
Printed(end) ==
    /\ Len(printed) = IF end < first THEN 0 ELSE end - first + 1
    /\ \A k \in DOMAIN printed :
         first + k - 1 \in failed \/ printed[k] = mem[DevicePage(first + k - 1)]

(* A Read prints the pages it was asked for, each once and in order, up to  *)
(* the last it is allowed to read; a transfer that fails spoils no page but *)
(* its own. ReadFT is never allowed the reserved pages, devlock or not.     *)
ReadComplete == pc = "idle" => Printed(ReadEnd)

(***************************************************************************)
(* Without the devlock, whatever fails, only WriteAuto's pointer changes   *)
(* in the reserved pages, unless a negative page number has got past ok(), *)
(* passed by the application or made of a pointer that could not be read.  *)
(***************************************************************************)
OnlyNegativePagesStray ==
    [][\A p \in Pages..(Total - 1) :
         mem'[p] # mem[p] => dl' = DEVLOCK \/ (p = Pages /\ pc = "upd") \/ page' < 0]_vars

TypeOK ==
    /\ mem \in [Device -> Text \cup Number] /\ busy \in BOOLEAN
    /\ pc \in {"idle", "write", "upd", "read"}
    /\ page \in Int /\ entry \in Entry \cup {Blank} /\ (pc = "write" => entry \in Entry)
    /\ dl \in Locks /\ result \in {0, 1, -1, -2}
    /\ first \in Int /\ last \in Int /\ lock \in Locks
    /\ printed \in Seq(Text \cup Number)
    /\ failed \in SUBSET Int /\ intact \in BOOLEAN

(* An intact pointer is the number of a page of the log, or erased, and     *)
(* WriteAuto is at that page; in any case it is at none past the log.       *)
PointerInv ==
    /\ pc \in {"write", "upd"} => page < Pages
    /\ intact =>
         /\ mem[Pages] \in {Blank} \cup {Digits(v) : v \in 0..(Pages - 1)}
         /\ pc \in {"write", "upd"} => page = Pointer

(* ReadComplete made inductive: what a Read has printed so far, and that    *)
(* WriteAuto prints nothing.                                                *)
ReadInv ==
    /\ ReadComplete
    /\ pc \in {"write", "upd"} => first = 0 /\ last = -1 /\ printed = <<>>
    /\ pc = "read" =>
         /\ page \in first..last
         /\ Printed(IF page - 1 <= ReadEnd THEN page - 1 ELSE ReadEnd)

(* The inductive invariant: the pointer survives resets and refusals, and   *)
(* a Read has printed what it should have so far.                           *)
LogInv == TypeOK /\ PointerInv /\ ReadInv

-----------------------------------------------------------------------------
(* A property that states what the repository says and the code does not do. *)

(* "You can only enter values between 0 and 2043, unless you have the       *)
(* devlock": without it only WriteAuto's pointer changes in the reserved    *)
(* pages.                                                                   *)
StaysInLog ==
    [][\A p \in Pages..(Total - 1) :
         mem'[p] # mem[p] => dl' = DEVLOCK \/ (p = Pages /\ pc = "upd")]_vars

=============================================================================
