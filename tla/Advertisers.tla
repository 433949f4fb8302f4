------------------------------ MODULE Advertisers ------------------------------
(***************************************************************************)
(* The advertiser table of zmk_ble_mouse_advertisement, in a Pair window   *)
(* without a registered mouse: what one advertiser says is put together    *)
(* from packets (the name often comes in a scan response) until it is      *)
(* known to be a connectable M720.                                         *)
(*                                                                         *)
(* time is the true uptime, the code sees it modulo Wrap (2^32 ms).        *)
(* runs and asked are history: what each advertiser said in its latest run *)
(* of packets without a gap of Window, and whom a connection was last      *)
(* asked for.                                                              *)
(***************************************************************************)
EXTENDS Naturals, FiniteSets

CONSTANTS Addresses, NoAddress,
          Slots,        \* entries of the table, 8
          Window,       \* 2000 ms
          Wrap,         \* 2^32
          Starts, Span  \* bound: when scans are looked at, and for how long

ASSUME AdvertiserAssumption ==
    /\ NoAddress \notin Addresses /\ IsFiniteSet(Addresses)
    /\ {Slots, Window, Wrap} \cup Starts \subseteq Nat \ {0}
    /\ Span \in Nat /\ Window < Wrap /\ \A s \in Starts : s < Wrap

VARIABLES start, time, advertisers, runs, asked

vars == <<start, time, advertisers, runs, asked>>

Facts == {"connectable", "m720"}

EmptyEntry == [addr |-> NoAddress, seen |-> 0, facts |-> {}]

(* Types; the times of entries are those of the clock.                       *)
TypeOK ==
    /\ start \in Starts /\ time \in start .. start + Span
    /\ advertisers \in [1 .. Slots -> [addr : Addresses \cup {NoAddress}, seen : 0 .. Wrap - 1,
                                       facts : SUBSET Facts]]
    /\ runs \in [Addresses -> [first : 0 .. start + Span, last : 0 .. start + Span,
                               facts : SUBSET Facts]]
    /\ asked \in Addresses \cup {NoAddress}

Init ==
    /\ start \in Starts /\ time = start
    /\ advertisers = [i \in 1 .. Slots |-> EmptyEntry]
    /\ runs = [a \in Addresses |-> [first |-> 0, last |-> 0, facts |-> {}]]
    /\ asked = NoAddress

(* k_uptime_get_32 *)
now == time % Wrap

(* now - seen, in 32 bits.                                                   *)
Age(i) == (now + Wrap - advertisers[i].seen) % Wrap

Fresh(i) == Age(i) < Window

MutLooksShorter(i, a) == advertisers[i].addr = a /\ Age(i) + 1 < Window

Matches(i, a) == advertisers[i].addr = a /\ Fresh(i)

MutYoungest(i) == \A j \in 1 .. Slots : Age(i) < Age(j) \/ (Age(i) = Age(j) /\ i <= j)

(* The first of the entries that have waited longest.                        *)
IsOldest(i) == \A j \in 1 .. Slots : Age(i) > Age(j) \/ (Age(i) = Age(j) /\ i <= j)

(* The entry the loop ends with.                                             *)
Entry(a) ==
    IF \E i \in 1 .. Slots : Matches(i, a)
    THEN CHOOSE i \in 1 .. Slots : Matches(i, a) /\ \A j \in 1 .. i - 1 : ~Matches(j, a)
    ELSE CHOOSE i \in 1 .. Slots : IsOldest(i)

MutFactsKept(i, a) == advertisers[i].facts

(* memset, when the entry was another's or too old.                          *)
KnownFacts(i, a) == IF Matches(i, a) THEN advertisers[i].facts ELSE {}

(* The run a packet belongs to.                                              *)
Heard(a, facts) ==
    IF runs[a].facts # {} /\ time - runs[a].last < Window
    THEN [first |-> runs[a].first, last |-> time, facts |-> runs[a].facts \cup facts]
    ELSE [first |-> time, last |-> time, facts |-> facts]

(* A packet, with what it says: ADV_IND or not, an M720 name or not          *)
(* (parse_ad).                                                               *)
Advertisement(a, facts) ==
    LET i == Entry(a)
        known == KnownFacts(i, a) \cup facts IN
    /\ advertisers' = [advertisers EXCEPT ![i] = [addr |-> a, seen |-> now, facts |-> known]]
    /\ asked' = IF known = Facts THEN a ELSE NoAddress
    /\ runs' = [runs EXCEPT ![a] = Heard(a, facts)]
    /\ UNCHANGED <<start, time>>

Tick ==
    /\ time < start + Span
    /\ time' = time + 1
    /\ asked' = NoAddress
    /\ UNCHANGED <<start, advertisers, runs>>

Next ==
    \/ \E a \in Addresses, facts \in SUBSET Facts : Advertisement(a, facts)
    \/ Tick

Spec == Init /\ [][Next]_vars

--------------------------------------------------------------------------------
(* An advertiser has one live entry at most, so that what it says is not     *)
(* split over two; also after its entry grew old and another was taken, and  *)
(* across the end of the clock.                                              *)
OneLiveEntry ==
    \A i, j \in 1 .. Slots :
        (advertisers[i].addr = advertisers[j].addr /\ advertisers[i].addr # NoAddress
            /\ Fresh(i) /\ Fresh(j)) => i = j

(* The table of advertisers is sound (zmk_ble_mouse_advertisement).          *)
TableInv == TypeOK /\ OneLiveEntry

(* A connection is asked for only with an advertiser that said itself, in    *)
(* packets without a gap of the window, that it is an M720 and connectable:  *)
(* never with one that took over another's entry, or long ago said it.       *)
AskedIsMouse == asked # NoAddress => runs[asked].facts = Facts

(* Others heard at or after the start of a run.                              *)
Others(a) == {b \in Addresses \ {a} : runs[b].last >= runs[a].first}

(* A mouse is found as soon as its packets say enough, if fewer others than  *)
(* there are entries were heard since its first packet: no entry is given    *)
(* away too early.  Only while the clock has not come to its end: after it   *)
(* an entry never used, seen at 0, looks younger than one in use.            *)
MouseIsFound ==
    [][\A a \in Addresses :
           (/\ runs'[a] # runs[a] /\ runs'[a].facts = Facts
            /\ Cardinality(Others(a)') < Slots /\ time < Wrap)
               => asked' = a]_vars
================================================================================
