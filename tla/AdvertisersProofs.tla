-------------------------- MODULE AdvertisersProofs --------------------------
(***************************************************************************)
(* Proofs about Advertisers, for any number of advertisers and of entries, *)
(* any window and any width of the clock.                                  *)
(***************************************************************************)
EXTENDS Advertisers, FiniteSetTheorems, WellFoundedInduction, TLAPS

--------------------------------------------------------------------------------
(* Arithmetic of the clock.                                                  *)

LEMMA DivMod ==
  ASSUME NEW n \in Nat, NEW w \in Nat \ {0}
  PROVE  /\ n \div w \in Nat /\ n % w \in 0 .. w - 1
         /\ n = w * (n \div w) + (n % w)
  OBVIOUS

LEMMA ModSmall ==
  ASSUME NEW w \in Nat \ {0}, NEW n \in 0 .. w - 1
  PROVE  n % w = n /\ (n + w) % w = n
  OBVIOUS

(* The difference of two readings of the clock is the true one, up to Wrap.  *)
LEMMA Elapsed ==
  ASSUME NEW w \in Nat \ {0}, NEW t \in Nat, NEW n \in Nat, t <= n, n - t < w
  PROVE  ((n % w) + w - (t % w)) % w = n - t
<1> DEFINE q == n \div w
           p == t \div w
<1>1. q \in Nat /\ p \in Nat /\ n % w \in 0 .. w - 1 /\ t % w \in 0 .. w - 1
      /\ n = w * q + (n % w) /\ t = w * p + (t % w)
  BY DivMod
<1>2. q = p \/ q = p + 1
  OBVIOUS
<1>3. CASE q = p
  <2>1. (n % w) + w - (t % w) = (n - t) + w
    BY <1>1, <1>3
  <2>2. QED
    BY <2>1, ModSmall
<1>4. CASE q = p + 1
  <2>1. w * q = w * p + w
    BY <1>1, <1>4
  <2>2. (n % w) + w - (t % w) = n - t
    BY <1>1, <2>1
  <2>3. QED
    BY <2>2, ModSmall
<1>5. QED
  BY <1>2, <1>3, <1>4
--------------------------------------------------------------------------------
(* Every set of naturals has a least element, so the loop over the table     *)
(* ends with an entry.                                                       *)

LEMMA LeastNatural ==
  ASSUME NEW S \in SUBSET Nat, S # {}
  PROVE  \E n \in S : \A m \in S : n <= m
<1> DEFINE Less == OpToRel(<, Nat)
<1>1. IsWellFoundedOn(Less, Nat)
  BY NatLessThanWellFounded
<1> HIDE DEF Less
<1>2. \E n \in S : \A m \in S : ~ (<<m, n>> \in Less)
  BY <1>1, WFMin
<1>3. \A m, n \in Nat : m < n => <<m, n>> \in Less
  BY DEF Less, OpToRel
<1>4. PICK n \in S : \A m \in S : ~ (<<m, n>> \in Less)
  BY <1>2
<1>5. \A m \in S : ~ (m < n)
  BY <1>3, <1>4
<1>6. QED
  BY <1>5
--------------------------------------------------------------------------------
(* The inductive invariant.                                                  *)

(* Less than a revolution of the clock has passed since the table was first  *)
(* used: 49 days of uptime.                                                  *)
FirstRevolution == time - start < Wrap

(* A run is in the past, and in its order.                                   *)
RunsOrdered == \A a \in Addresses : runs[a].first <= runs[a].last /\ runs[a].last <= time

(* An entry in use was heard at a true time t; as long as it is live this is *)
(* when its advertiser was last heard, and what it holds is of that run.     *)
SeenAt(i, t) ==
    /\ advertisers[i].seen = t % Wrap
    /\ time - t < Window => /\ t = runs[advertisers[i].addr].last
                            /\ advertisers[i].facts \subseteq runs[advertisers[i].addr].facts

EntriesTrue ==
    \A i \in 1 .. Slots :
        advertisers[i].addr # NoAddress => \E t \in start .. time : SeenAt(i, t)

UnusedAtZero == \A i \in 1 .. Slots : advertisers[i].addr = NoAddress => advertisers[i].seen = 0

TableInd ==
    /\ TypeOK
    /\ RunsOrdered
    /\ UnusedAtZero
    /\ FirstRevolution => EntriesTrue /\ OneLiveEntry /\ AskedIsMouse

--------------------------------------------------------------------------------
(* What the table's operators return.                                        *)

LEMMA Clock ==
  ASSUME TypeOK
  PROVE  /\ start \in Nat \ {0} /\ time \in Nat /\ start <= time
         /\ now \in 0 .. Wrap - 1
         /\ \A i \in 1 .. Slots : Age(i) \in 0 .. Wrap - 1
<1>1. start \in Nat \ {0} /\ time \in Nat /\ start <= time
  BY AdvertiserAssumption DEF TypeOK
<1>2. now \in 0 .. Wrap - 1
  BY <1>1, DivMod, AdvertiserAssumption DEF now
<1>3. ASSUME NEW i \in 1 .. Slots
      PROVE  Age(i) \in 0 .. Wrap - 1
  <2>1. advertisers[i].seen \in 0 .. Wrap - 1
    BY DEF TypeOK
  <2>2. now + Wrap - advertisers[i].seen \in Nat
    BY <1>2, <2>1, AdvertiserAssumption
  <2>3. QED
    BY <2>2, DivMod, AdvertiserAssumption DEF Age
<1>4. QED
  BY <1>1, <1>2, <1>3

(* The age the code computes is the true one.                                *)
LEMMA AgeIsTrue ==
  ASSUME TypeOK, NEW i \in 1 .. Slots, NEW t \in 0 .. time, time - t < Wrap,
         advertisers[i].seen = t % Wrap
  PROVE  Age(i) = time - t
<1>1. time \in Nat /\ t \in Nat /\ t <= time /\ Wrap \in Nat \ {0}
  BY Clock, AdvertiserAssumption
<1>2. ((time % Wrap) + Wrap - (t % Wrap)) % Wrap = time - t
  BY <1>1, Elapsed
<1>3. QED
  BY <1>2 DEF Age, now

(* There is an entry to take when none matches.                              *)
LEMMA OldestExists ==
  ASSUME TypeOK
  PROVE  \E i \in 1 .. Slots : IsOldest(i)
<1> DEFINE Youth == {Wrap - Age(i) : i \in 1 .. Slots}
<1>1. /\ 1 \in 1 .. Slots
      /\ \A i \in 1 .. Slots : Age(i) \in 0 .. Wrap - 1 /\ Wrap - Age(i) \in Nat
  BY Clock, AdvertiserAssumption
<1>2. PICK n \in Youth : \A m \in Youth : n <= m
  BY <1>1, LeastNatural
<1>3. PICK k \in 1 .. Slots : n = Wrap - Age(k)
  BY <1>2
<1>4. \A j \in 1 .. Slots : Age(k) >= Age(j)
  BY <1>1, <1>2, <1>3, AdvertiserAssumption
<1> DEFINE Eldest == {i \in 1 .. Slots : Age(i) = Age(k)}
<1>5. Eldest \in SUBSET Nat /\ Eldest # {}
  BY <1>3
<1>6. PICK i \in Eldest : \A j \in Eldest : i <= j
  BY <1>5, LeastNatural
<1>7. i \in 1 .. Slots /\ Age(i) = Age(k)
  BY <1>6
<1>8. \A j \in 1 .. Slots : Age(i) > Age(j) \/ (Age(i) = Age(j) /\ i <= j)
  BY <1>1, <1>4, <1>6, <1>7
<1>9. QED
  BY <1>7, <1>8 DEF IsOldest

(* The loop ends with a live entry of the advertiser, if there is one, and   *)
(* with an entry that waited longest otherwise.                              *)
LEMMA EntryFound ==
  ASSUME TypeOK, NEW a \in Addresses
  PROVE  /\ Entry(a) \in 1 .. Slots
         /\ \/ Matches(Entry(a), a)
            \/ (\A j \in 1 .. Slots : ~ Matches(j, a)) /\ IsOldest(Entry(a))
<1>1. CASE \E i \in 1 .. Slots : Matches(i, a)
  <2> DEFINE Matching == {i \in 1 .. Slots : Matches(i, a)}
  <2>1. Matching \in SUBSET Nat /\ Matching # {}
    BY <1>1
  <2>2. PICK i \in Matching : \A j \in Matching : i <= j
    BY <2>1, LeastNatural
  <2>3. i \in 1 .. Slots /\ Matches(i, a) /\ \A j \in 1 .. i - 1 : ~ Matches(j, a)
    BY <2>2, AdvertiserAssumption
  <2>4. Entry(a) = CHOOSE k \in 1 .. Slots :
                       Matches(k, a) /\ \A j \in 1 .. k - 1 : ~ Matches(j, a)
    BY <1>1 DEF Entry
  <2>5. QED
    BY <2>3, <2>4
<1>2. CASE ~ \E i \in 1 .. Slots : Matches(i, a)
  <2>1. Entry(a) = CHOOSE k \in 1 .. Slots : IsOldest(k)
    BY <1>2 DEF Entry
  <2>2. QED
    BY <1>2, <2>1, OldestExists
<1>3. QED
  BY <1>1, <1>2
--------------------------------------------------------------------------------
LEMMA TableInit == Init => TableInd
<1> SUFFICES ASSUME Init
             PROVE  TableInd
  OBVIOUS
<1>1. TypeOK
  <2>1. EmptyEntry \in [addr : Addresses \cup {NoAddress}, seen : 0 .. Wrap - 1,
                        facts : SUBSET Facts]
    BY AdvertiserAssumption DEF EmptyEntry
  <2>2. start \in Nat
    BY AdvertiserAssumption DEF Init
  <2>3. QED
    BY <2>1, <2>2, AdvertiserAssumption DEF Init, TypeOK
<1>2. RunsOrdered
  BY AdvertiserAssumption DEF Init, RunsOrdered
<1>3. QED
  BY <1>1, <1>2
     DEF Init, TableInd, UnusedAtZero, EntriesTrue, OneLiveEntry, AskedIsMouse, EmptyEntry

(* Time passes: entries age, none comes back to life.                        *)
LEMMA TickStep == TableInd /\ Tick => TableInd'
<1> SUFFICES ASSUME TableInd, Tick
             PROVE  TableInd'
  OBVIOUS
<1>0. TypeOK /\ RunsOrdered /\ UnusedAtZero
  BY DEF TableInd
<1>1. /\ time' = time + 1 /\ start' = start /\ advertisers' = advertisers /\ runs' = runs
      /\ asked' = NoAddress /\ time < start + Span
  BY DEF Tick
<1>2. start \in Nat \ {0} /\ time \in Nat /\ start <= time /\ Span \in Nat /\ Wrap \in Nat \ {0}
      /\ Window \in Nat /\ Window < Wrap
  BY <1>0, Clock, AdvertiserAssumption
<1>3. TypeOK'
  BY <1>0, <1>1, <1>2 DEF TypeOK
<1>4. RunsOrdered' /\ UnusedAtZero' /\ AskedIsMouse'
  <2>1. \A a \in Addresses : runs[a].last \in Nat
    BY <1>0, <1>2 DEF TypeOK
  <2>2. QED
    BY <1>0, <1>1, <1>2, <2>1 DEF RunsOrdered, UnusedAtZero, AskedIsMouse
<1>5. ASSUME FirstRevolution'
      PROVE  EntriesTrue' /\ OneLiveEntry'
  <2>1. (time + 1) - start < Wrap /\ FirstRevolution /\ EntriesTrue /\ OneLiveEntry
    BY <1>1, <1>2, <1>5 DEF FirstRevolution, TableInd
  <2>2. EntriesTrue'
    <3> SUFFICES ASSUME NEW i \in 1 .. Slots, advertisers[i].addr # NoAddress
                 PROVE  \E t \in start .. time + 1 : SeenAt(i, t)'
      BY <1>1 DEF EntriesTrue
    <3>1. PICK t \in start .. time : SeenAt(i, t)
      BY <2>1 DEF EntriesTrue
    <3>2. t \in start .. time + 1 /\ ((time + 1) - t < Window => time - t < Window)
      BY <1>2
    <3>3. time' - t < Window => time - t < Window
      BY <1>1, <1>2, <3>2
    <3>4. SeenAt(i, t)'
      BY <1>1, <3>1, <3>3, Zenon DEF SeenAt
    <3>5. QED
      BY <3>2, <3>4
  <2>3. ASSUME NEW i \in 1 .. Slots, advertisers[i].addr # NoAddress, Fresh(i)'
        PROVE  Fresh(i)
    <3>1. PICK t \in start .. time : SeenAt(i, t)
      BY <2>1, <2>3 DEF EntriesTrue
    <3>2. t \in 0 .. time /\ t \in Nat /\ t <= time + 1 /\ time - t < Wrap /\ (time + 1) - t < Wrap
          /\ time + 1 \in Nat
      BY <1>2, <2>1
    <3>3. Age(i) = time - t
      BY <1>0, <3>1, <3>2, AgeIsTrue DEF SeenAt
    <3>4. (((time + 1) % Wrap) + Wrap - (t % Wrap)) % Wrap = (time + 1) - t
      <4> DEFINE n == time + 1
      <4>1. n \in Nat /\ t \in Nat /\ t <= n /\ n - t < Wrap /\ Wrap \in Nat \ {0}
        BY <1>2, <3>2
      <4> HIDE DEF n
      <4>2. ((n % Wrap) + Wrap - (t % Wrap)) % Wrap = n - t
        BY <4>1, Elapsed
      <4>3. QED
        BY <4>2 DEF n
    <3>5. Age(i)' = (time + 1) - t
      BY <1>1, <3>1, <3>4 DEF Age, now, SeenAt
    <3>6. QED
      BY <1>2, <2>3, <3>2, <3>3, <3>5 DEF Fresh
  <2>4. OneLiveEntry'
    BY <1>1, <2>1, <2>3 DEF OneLiveEntry
  <2>5. QED
    BY <2>2, <2>4
<1>6. QED
  BY <1>3, <1>4, <1>5 DEF TableInd

(* A packet of an advertiser: its entry now holds no more than its run, and  *)
(* no other live entry is its own.                                           *)
LEMMA PacketStep ==
  ASSUME TableInd, NEW a \in Addresses, NEW facts \in SUBSET Facts, Advertisement(a, facts)
  PROVE  TableInd'
<1> DEFINE i == Entry(a)
           known == KnownFacts(i, a) \cup facts
<1>0. TypeOK /\ RunsOrdered /\ UnusedAtZero
  BY DEF TableInd
<1>1. /\ advertisers' = [advertisers EXCEPT ![i] = [addr |-> a, seen |-> now, facts |-> known]]
      /\ asked' = IF known = Facts THEN a ELSE NoAddress
      /\ runs' = [runs EXCEPT ![a] = Heard(a, facts)]
      /\ time' = time /\ start' = start
  BY DEF Advertisement
<1>2. start \in Nat \ {0} /\ time \in Nat /\ start <= time /\ Span \in Nat /\ Wrap \in Nat \ {0}
      /\ Window \in Nat \ {0} /\ Window < Wrap /\ now \in 0 .. Wrap - 1 /\ a # NoAddress
      /\ time \in 0 .. start + Span
  BY <1>0, Clock, AdvertiserAssumption DEF TypeOK
<1>3. i \in 1 .. Slots
      /\ (Matches(i, a) \/ \A j \in 1 .. Slots : ~ Matches(j, a))
  BY <1>0, EntryFound
<1>4. known \in SUBSET Facts
  BY <1>0, <1>3 DEF KnownFacts, TypeOK
<1>5. /\ Heard(a, facts) \in [first : 0 .. start + Span, last : 0 .. start + Span,
                              facts : SUBSET Facts]
      /\ Heard(a, facts).last = time /\ Heard(a, facts).first <= time
      /\ facts \subseteq Heard(a, facts).facts
  <2>1. runs[a] \in [first : 0 .. start + Span, last : 0 .. start + Span, facts : SUBSET Facts]
        /\ runs[a].first <= runs[a].last /\ runs[a].last <= time
    BY <1>0 DEF TypeOK, RunsOrdered
  <2>2. CASE runs[a].facts # {} /\ time - runs[a].last < Window
    BY <1>2, <2>1, <2>2 DEF Heard
  <2>3. CASE ~ (runs[a].facts # {} /\ time - runs[a].last < Window)
    BY <1>2, <2>1, <2>3 DEF Heard
  <2>4. QED
    BY <2>2, <2>3
<1>6. TypeOK'
  <2>1. [addr |-> a, seen |-> now, facts |-> known] \in
           [addr : Addresses \cup {NoAddress}, seen : 0 .. Wrap - 1, facts : SUBSET Facts]
    BY <1>2, <1>4
  <2> HIDE DEF known
  <2>2. asked' \in Addresses \cup {NoAddress}
    BY <1>1
  <2>3. QED
    BY <1>0, <1>1, <1>5, <2>1, <2>2 DEF TypeOK
<1> HIDE DEF known, i
<1>7. RunsOrdered'
  BY <1>0, <1>1, <1>2, <1>5 DEF RunsOrdered, TypeOK
<1>8. UnusedAtZero'
  BY <1>0, <1>1, <1>2, <1>3 DEF UnusedAtZero, TypeOK
<1>9. ASSUME FirstRevolution'
      PROVE  EntriesTrue' /\ OneLiveEntry' /\ AskedIsMouse'
  <2>1. FirstRevolution /\ EntriesTrue /\ OneLiveEntry /\ time - start < Wrap
    BY <1>1, <1>9 DEF FirstRevolution, TableInd
  (* Another entry of this advertiser is not live. *)
  <2>2. ASSUME NEW j \in 1 .. Slots, j # i, advertisers[j].addr = a
        PROVE  ~ Fresh(j)
    <3>1. SUFFICES ASSUME Fresh(j)
                   PROVE  FALSE
      OBVIOUS
    <3>2. Matches(j, a)
      BY <2>2, <3>1 DEF Matches
    <3>3. Matches(i, a)
      BY <1>3, <3>2
    <3>4. QED
      BY <1>2, <1>3, <2>1, <2>2, <3>1, <3>3 DEF OneLiveEntry, Matches
  <2>3. known \subseteq Heard(a, facts).facts
    <3>1. CASE Matches(i, a)
      <4>1. PICK t \in start .. time : SeenAt(i, t)
        BY <1>2, <1>3, <2>1, <3>1 DEF EntriesTrue, Matches
      <4>2. t \in 0 .. time /\ time - t < Wrap
        BY <1>2, <2>1
      <4>3. time - t < Window
        BY <1>0, <1>3, <3>1, <4>1, <4>2, AgeIsTrue DEF Matches, Fresh, SeenAt
      <4>4. t = runs[a].last /\ advertisers[i].facts \subseteq runs[a].facts
        BY <3>1, <4>1, <4>3 DEF SeenAt, Matches
      <4>5. known = advertisers[i].facts \cup facts
        BY <3>1 DEF known, KnownFacts
      <4>6. QED
        BY <4>3, <4>4, <4>5 DEF Heard
    <3>2. CASE ~ Matches(i, a)
      BY <1>5, <3>2 DEF known, KnownFacts
    <3>3. QED
      BY <3>1, <3>2
  <2>4. /\ advertisers'[i] = [addr |-> a, seen |-> now, facts |-> known]
        /\ \A j \in 1 .. Slots : j # i => advertisers'[j] = advertisers[j]
        /\ runs'[a] = Heard(a, facts)
        /\ \A b \in Addresses : b # a => runs'[b] = runs[b]
    BY <1>0, <1>1, <1>3 DEF TypeOK
  <2>5. EntriesTrue'
    <3> SUFFICES ASSUME NEW j \in 1 .. Slots, advertisers'[j].addr # NoAddress
                 PROVE  \E t \in start .. time : SeenAt(j, t)'
      BY <1>1 DEF EntriesTrue
    <3>1. CASE j = i
      <4>1. /\ advertisers'[j].seen = time % Wrap /\ advertisers'[j].addr = a
            /\ advertisers'[j].facts = known /\ runs'[a] = Heard(a, facts)
        BY <2>4, <3>1 DEF now
      <4>2. SeenAt(j, time)'
        BY <1>1, <1>5, <2>3, <4>1, Zenon DEF SeenAt
      <4>3. QED
        BY <1>1, <1>2, <4>2
    <3>2. CASE j # i
      <4>1. advertisers'[j] = advertisers[j]
        BY <2>4, <3>2
      <4>2. PICK t \in start .. time : SeenAt(j, t)
        BY <2>1, <4>1 DEF EntriesTrue
      <4>3. CASE advertisers[j].addr = a
        <5>1. t \in 0 .. time /\ time - t < Wrap
          BY <1>2, <2>1
        <5>2. ~ (time - t < Window)
          BY <1>0, <2>2, <3>2, <4>2, <4>3, <5>1, AgeIsTrue DEF SeenAt, Fresh
        <5>3. SeenAt(j, t)'
          BY <1>1, <4>1, <4>2, <5>2 DEF SeenAt
        <5>4. QED
          BY <5>3
      <4>4. CASE advertisers[j].addr # a
        <5>1. advertisers[j].addr \in Addresses
          BY <1>0, <4>1 DEF TypeOK
        <5>2. SeenAt(j, t)'
          BY <1>1, <2>4, <4>1, <4>2, <4>4, <5>1 DEF SeenAt
        <5>3. QED
          BY <5>2
      <4>5. QED
        BY <4>3, <4>4
    <3>3. QED
      BY <3>1, <3>2
  <2>6. OneLiveEntry'
    <3>1. \A j \in 1 .. Slots : j # i => Age(j)' = Age(j)
      BY <1>1, <2>4 DEF Age, now
    <3>2. \A j \in 1 .. Slots : j # i /\ Fresh(j)' => Fresh(j) /\ advertisers'[j].addr # a
      BY <2>2, <2>4, <3>1 DEF Fresh
    <3>3. QED
      BY <2>1, <2>4, <3>2 DEF OneLiveEntry
  <2>7. AskedIsMouse'
    <3> SUFFICES ASSUME asked' # NoAddress
                 PROVE  runs'[asked'].facts = Facts
      BY DEF AskedIsMouse
    <3>1. asked' = a /\ known = Facts
      BY <1>1
    <3>2. Heard(a, facts).facts \in SUBSET Facts
      BY <1>5
    <3>3. QED
      BY <2>3, <2>4, <3>1, <3>2
  <2>8. QED
    BY <2>5, <2>6, <2>7
<1>10. QED
  BY <1>6, <1>7, <1>8, <1>9 DEF TableInd

LEMMA TableInductive == Spec => []TableInd
<1>1. TableInd /\ UNCHANGED vars => TableInd'
  BY DEF vars, TableInd, TypeOK, RunsOrdered, UnusedAtZero, FirstRevolution, EntriesTrue, SeenAt,
         OneLiveEntry, AskedIsMouse, Fresh, Age, now
<1>2. TableInd /\ [Next]_vars => TableInd'
  BY <1>1, TickStep, PacketStep DEF Next
<1>3. QED
  BY <1>2, TableInit, PTL DEF Spec
--------------------------------------------------------------------------------
(* Types of the table and of its history, whatever the uptime.               *)
THEOREM TableTyped == Spec => []TypeOK
<1>1. TableInd => TypeOK
  BY DEF TableInd
<1>2. QED
  BY <1>1, TableInductive, PTL

LEMMA WithinRevolution ==
  ASSUME Span < Wrap, TypeOK
  PROVE  FirstRevolution
<1>1. start \in Nat /\ time \in Nat /\ time <= start + Span /\ Span \in Nat /\ Wrap \in Nat
  BY Clock, AdvertiserAssumption DEF TypeOK
<1>2. QED
  BY <1>1 DEF FirstRevolution

(* While the clock has not gone round once since the table was first used,   *)
(* an advertiser has one live entry at most, in whatever order entries grow  *)
(* old, are taken over and come back (zmk_ble_mouse_advertisement).          *)
THEOREM OneEntryEach ==
  ASSUME Span < Wrap
  PROVE  Spec => []TableInv
<1>1. TableInd => TableInv
  BY WithinRevolution DEF TableInd, TableInv
<1>2. QED
  BY <1>1, TableInductive, PTL

(* In the same time, a connection is asked for only with an advertiser that  *)
(* said itself, in packets without a gap of the window, that it is an M720   *)
(* and connectable: nothing is inherited from who had the entry before (the  *)
(* memset in zmk_ble_mouse_advertisement).                                   *)
THEOREM OnlyMiceAsked ==
  ASSUME Span < Wrap
  PROVE  Spec => []AskedIsMouse
<1>1. TableInd => AskedIsMouse
  BY WithinRevolution DEF TableInd
<1>2. QED
  BY <1>1, TableInductive, PTL

--------------------------------------------------------------------------------
(* A run that goes on, while fewer others than there are entries were heard  *)
(* since it began, has a live entry, which holds all of it.                  *)
Going(a) ==
    /\ runs[a].facts # {} /\ time - runs[a].last < Window
    /\ Cardinality(Others(a)) < Slots /\ time < Wrap

RunsHaveEntries ==
    \A a \in Addresses :
        Going(a) => \E i \in 1 .. Slots : Matches(i, a) /\ advertisers[i].facts = runs[a].facts

(* An entry of a run that goes on is the oldest only if all the others are   *)
(* live, hence of others heard since the run began.                          *)
LEMMA OldestSeesOthers ==
  ASSUME TableInd, time < Wrap, NEW a \in Addresses, NEW k \in 1 .. Slots,
         Matches(k, a), IsOldest(k), NEW j \in 1 .. Slots, j # k
  PROVE  advertisers[j].addr \in Others(a) /\ Fresh(j)
<1>0. TypeOK /\ RunsOrdered /\ UnusedAtZero
  BY DEF TableInd
<1>1. start \in Nat \ {0} /\ time \in Nat /\ start <= time /\ Wrap \in Nat \ {0} /\ Window \in Nat
      /\ a # NoAddress /\ now \in 0 .. Wrap - 1
  BY <1>0, Clock, AdvertiserAssumption
<1>2. EntriesTrue /\ OneLiveEntry
  <2>1. FirstRevolution
    BY <1>1 DEF FirstRevolution
  <2>2. QED
    BY <2>1 DEF TableInd
<1>3. PICK t \in start .. time : SeenAt(k, t)
  BY <1>1, <1>2 DEF EntriesTrue, Matches
<1>4. Age(k) = time - t /\ Age(k) < Window /\ t = runs[a].last
  <2>1. t \in 0 .. time /\ time - t < Wrap
    BY <1>1
  <2>2. Age(k) = time - t
    BY <1>0, <1>3, <2>1, AgeIsTrue DEF SeenAt
  <2>3. QED
    BY <1>3, <2>2 DEF Matches, Fresh, SeenAt
<1>5. Age(j) <= Age(k) /\ Age(j) \in Nat /\ Age(k) \in Nat
  BY <1>0, Clock DEF IsOldest
<1>6. Fresh(j)
  BY <1>1, <1>4, <1>5 DEF Fresh
<1>7. advertisers[j].addr # NoAddress
  <2>1. SUFFICES ASSUME advertisers[j].addr = NoAddress
                 PROVE  FALSE
    OBVIOUS
  <2>2. advertisers[j].seen = 0 % Wrap /\ 0 \in 0 .. time /\ time - 0 < Wrap
    BY <1>0, <1>1, <2>1, ModSmall DEF UnusedAtZero
  <2>3. Age(j) = time - 0
    BY <1>0, <2>2, AgeIsTrue
  <2>4. QED
    BY <1>1, <1>3, <1>4, <1>5, <2>3
<1>8. PICK u \in start .. time : SeenAt(j, u)
  BY <1>2, <1>7 DEF EntriesTrue
<1>9. Age(j) = time - u /\ u = runs[advertisers[j].addr].last
  <2>1. u \in 0 .. time /\ time - u < Wrap
    BY <1>1
  <2>2. Age(j) = time - u
    BY <1>0, <1>8, <2>1, AgeIsTrue DEF SeenAt
  <2>3. QED
    BY <1>6, <1>8, <2>2 DEF Fresh, SeenAt
<1>10. advertisers[j].addr \in Addresses \ {a}
  BY <1>0, <1>1, <1>2, <1>6, <1>7 DEF TypeOK, OneLiveEntry, Matches
<1>11. runs[a].first \in Nat /\ runs[a].last \in Nat /\ runs[a].first <= runs[a].last
  BY <1>0, <1>1, AdvertiserAssumption DEF TypeOK, RunsOrdered
<1>12. runs[advertisers[j].addr].last >= runs[a].first
  BY <1>1, <1>4, <1>5, <1>9, <1>11
<1>13. QED
  BY <1>6, <1>10, <1>12 DEF Others

(* A packet of another never takes such an entry: its sender would be one    *)
(* other too many.                                                           *)
LEMMA EntryNotTaken ==
  ASSUME TableInd, time < Wrap, NEW a \in Addresses, NEW b \in Addresses, a # b,
         NEW facts \in SUBSET Facts, Advertisement(b, facts),
         Cardinality(Others(a)') < Slots,
         NEW k \in 1 .. Slots, Matches(k, a)
  PROVE  Entry(b) # k
<1>1. SUFFICES ASSUME Entry(b) = k
               PROVE  FALSE
  OBVIOUS
<1>0. TypeOK /\ FirstRevolution /\ OneLiveEntry /\ RunsOrdered
  <2>1. TypeOK
    BY DEF TableInd
  <2>2. start \in Nat /\ time \in Nat /\ Wrap \in Nat
    BY <2>1, Clock, AdvertiserAssumption
  <2>3. FirstRevolution
    BY <2>2 DEF FirstRevolution
  <2>4. QED
    BY <2>3 DEF TableInd
<1>2. IsOldest(k) /\ \A j \in 1 .. Slots : ~ Matches(j, b)
  BY <1>0, <1>1, EntryFound DEF Matches
<1>3. \A j \in 1 .. Slots : j # k => advertisers[j].addr \in Others(a) /\ Fresh(j)
  BY <1>2, OldestSeesOthers
<1>4. /\ runs'[a] = runs[a] /\ runs'[b].last = time
      /\ \A c \in Addresses : c # b => runs'[c] = runs[c]
  BY <1>0 DEF Advertisement, Heard, TypeOK
<1>5. Others(a)' = {c \in Addresses \ {a} : runs'[c].last >= runs'[a].first}
  BY DEF Others
<1>6. runs[a].first <= time /\ \A c \in Addresses : runs[c].last \in Nat /\ runs[c].last <= time
  BY <1>0, Clock, AdvertiserAssumption DEF RunsOrdered, TypeOK
<1>7. b \in Others(a)'
  BY <1>0, <1>4, <1>5, <1>6, Clock, AdvertiserAssumption DEF TypeOK
<1>8. \A c \in Others(a) : c \in Others(a)'
  BY <1>4, <1>5, <1>7 DEF Others
<1> DEFINE f == [j \in 1 .. Slots |-> IF j = k THEN b ELSE advertisers[j].addr]
<1>9. f \in [1 .. Slots -> Others(a)']
  BY <1>3, <1>7, <1>8
<1>10. ASSUME NEW i \in 1 .. Slots, NEW j \in 1 .. Slots, f[i] = f[j]
       PROVE  i = j
  <2>1. \A m \in 1 .. Slots : m # k => advertisers[m].addr # b
    BY <1>2, <1>3 DEF Matches
  <2>2. CASE i # k /\ j # k
    BY <1>0, <1>3, <1>10, <2>2, AdvertiserAssumption DEF OneLiveEntry, Others
  <2>3. QED
    BY <1>10, <2>1, <2>2
<1>11. f \in Injection(1 .. Slots, Others(a)')
  BY <1>9, <1>10 DEF Injection, IsInjective
<1>12. IsFiniteSet(Others(a)')
  BY <1>5, FS_Subset, AdvertiserAssumption
<1>13. Slots \in Nat \ {0} /\ Cardinality(1 .. Slots) = Slots
  <2>1. Slots \in Nat \ {0} /\ Slots \in Int /\ 1 \in Int /\ ~ (1 > Slots)
    BY AdvertiserAssumption
  <2>2. Cardinality(1 .. Slots) = Slots - 1 + 1
    BY <2>1, FS_Interval
  <2>3. QED
    BY <2>1, <2>2
<1>14. Cardinality(1 .. Slots) <= Cardinality(Others(a)')
  BY <1>11, <1>12, FS_Injection
<1>15. Cardinality(Others(a)') \in Nat
  BY <1>12, FS_CardinalityType
<1>16. QED
  BY <1>13, <1>14, <1>15
(* What the code holds of an advertiser after its packet is what its run     *)
(* says.                                                                     *)
LEMMA KnownIsRun ==
  ASSUME TableInd, RunsHaveEntries, time < Wrap,
         NEW a \in Addresses, NEW facts \in SUBSET Facts, Advertisement(a, facts),
         Cardinality(Others(a)') < Slots
  PROVE  KnownFacts(Entry(a), a) \cup facts = Heard(a, facts).facts
<1> DEFINE i == Entry(a)
<1>0. TypeOK /\ EntriesTrue /\ OneLiveEntry /\ start \in Nat /\ time \in Nat /\ Wrap \in Nat
      /\ time - start < Wrap /\ start <= time /\ a # NoAddress
  <2>1. TypeOK
    BY DEF TableInd
  <2>2. start \in Nat /\ time \in Nat /\ Wrap \in Nat /\ start <= time /\ a # NoAddress
    BY <2>1, Clock, AdvertiserAssumption
  <2>3. time - start < Wrap
    BY <2>2
  <2>4. QED
    BY <2>1, <2>2, <2>3 DEF TableInd, FirstRevolution
<1>1. i \in 1 .. Slots /\ (Matches(i, a) \/ \A j \in 1 .. Slots : ~ Matches(j, a))
  BY <1>0, EntryFound
<1>2. CASE runs[a].facts # {} /\ time - runs[a].last < Window
  <2>1. /\ \A c \in Addresses : c # a => runs'[c] = runs[c]
        /\ runs'[a].first = runs[a].first
    BY <1>0, <1>2 DEF Advertisement, Heard, TypeOK
  <2>2. Others(a)' = Others(a)
    BY <2>1 DEF Others
  <2>3. Going(a)
    BY <1>2, <2>2 DEF Going
  <2>4. PICK j \in 1 .. Slots : Matches(j, a) /\ advertisers[j].facts = runs[a].facts
    BY <2>3 DEF RunsHaveEntries
  <2>5. Matches(i, a)
    BY <1>1, <2>4
  <2>6. i = j
    BY <1>0, <1>1, <2>4, <2>5 DEF OneLiveEntry, Matches
  <2>7. QED
    BY <1>2, <2>4, <2>6 DEF KnownFacts, Heard
<1>3. CASE runs[a].facts = {}
  <2>1. Heard(a, facts).facts = facts
    BY <1>3 DEF Heard
  <2>2. CASE Matches(i, a)
    <3>1. PICK t \in start .. time : SeenAt(i, t)
      BY <1>0, <1>1, <2>2 DEF EntriesTrue, Matches
    <3>2. t \in 0 .. time /\ time - t < Wrap
      BY <1>0
    <3>3. advertisers[i].facts \subseteq {}
      BY <1>0, <1>1, <1>3, <2>2, <3>1, <3>2, AgeIsTrue DEF Matches, Fresh, SeenAt
    <3>4. QED
      BY <2>1, <2>2, <3>3 DEF KnownFacts
  <2>3. QED
    BY <2>1, <2>2 DEF KnownFacts
<1>4. CASE ~ (time - runs[a].last < Window)
  <2>1. Heard(a, facts).facts = facts
    BY <1>4 DEF Heard
  <2>2. CASE Matches(i, a)
    <3>1. PICK t \in start .. time : SeenAt(i, t)
      BY <1>0, <1>1, <2>2 DEF EntriesTrue, Matches
    <3>2. t \in 0 .. time /\ time - t < Wrap
      BY <1>0
    <3>3. FALSE
      BY <1>0, <1>1, <1>4, <2>2, <3>1, <3>2, AgeIsTrue DEF Matches, Fresh, SeenAt
    <3>4. QED
      BY <3>3
  <2>3. QED
    BY <2>1, <2>2 DEF KnownFacts
<1>5. QED
  BY <1>2, <1>3, <1>4

LEMMA RunsHeldStep == TableInd /\ RunsHaveEntries /\ [Next]_vars => RunsHaveEntries'
<1> SUFFICES ASSUME TableInd, RunsHaveEntries, [Next]_vars,
                    NEW a \in Addresses, Going(a)'
             PROVE  \E i \in 1 .. Slots : Matches(i, a)' /\ advertisers'[i].facts = runs'[a].facts
  BY DEF RunsHaveEntries
<1>0. TypeOK
  BY DEF TableInd
<1>1. start \in Nat /\ time \in Nat /\ Wrap \in Nat \ {0} /\ Window \in Nat \ {0} /\ start <= time
      /\ a # NoAddress /\ \A c \in Addresses : runs[c].last \in Nat /\ runs[c].first \in Nat
  BY <1>0, Clock, AdvertiserAssumption DEF TypeOK
<1>2. CASE UNCHANGED vars
  BY <1>2 DEF RunsHaveEntries, Going, Others, Matches, Fresh, Age, now, vars
<1>3. CASE Tick
  <2>1. time' = time + 1 /\ start' = start /\ advertisers' = advertisers /\ runs' = runs
    BY <1>3 DEF Tick
  <2>2. Others(a)' = Others(a)
    BY <2>1 DEF Others
  <2>3. runs[a].facts # {} /\ (time + 1) - runs[a].last < Window /\ time + 1 < Wrap
    BY <2>1 DEF Going
  <2>4. Going(a) /\ (time + 1) - start < Wrap
    BY <1>1, <2>1, <2>2, <2>3 DEF Going
  <2>5. PICK i \in 1 .. Slots : Matches(i, a) /\ advertisers[i].facts = runs[a].facts
    BY <2>4 DEF RunsHaveEntries
  <2>6. EntriesTrue
    BY <1>1, <2>4 DEF TableInd, FirstRevolution
  <2>7. PICK t \in start .. time : SeenAt(i, t)
    BY <1>1, <2>5, <2>6 DEF EntriesTrue, Matches
  <2>8. t = runs[a].last
    <3>1. t \in 0 .. time /\ time - t < Wrap
      BY <1>1, <2>4
    <3>2. QED
      BY <1>0, <2>5, <2>7, <3>1, AgeIsTrue DEF Matches, Fresh, SeenAt
  <2>9. Age(i)' = (time + 1) - t
    <3> DEFINE n == time + 1
    <3>1. n \in Nat /\ t \in Nat /\ t <= n /\ n - t < Wrap
      BY <1>1, <2>4
    <3> HIDE DEF n
    <3>2. ((n % Wrap) + Wrap - (t % Wrap)) % Wrap = n - t
      BY <1>1, <3>1, Elapsed
    <3>3. QED
      BY <2>1, <2>7, <3>2 DEF n, Age, now, SeenAt
  <2>10. Matches(i, a)'
    BY <2>1, <2>3, <2>5, <2>8, <2>9 DEF Matches, Fresh
  <2>11. QED
    BY <2>1, <2>5, <2>10
<1>4. ASSUME NEW b \in Addresses, NEW facts \in SUBSET Facts, Advertisement(b, facts)
      PROVE  \E i \in 1 .. Slots : Matches(i, a)' /\ advertisers'[i].facts = runs'[a].facts
  <2>0. PICK e : e = Entry(b)
    OBVIOUS
  <2> DEFINE known == KnownFacts(e, b) \cup facts
  <2>1. /\ e \in 1 .. Slots
        /\ advertisers' = [advertisers EXCEPT ![e] = [addr |-> b, seen |-> now, facts |-> known]]
        /\ runs' = [runs EXCEPT ![b] = Heard(b, facts)]
        /\ time' = time
    BY <1>0, <1>4, <2>0, EntryFound DEF Advertisement
  <2> HIDE DEF known
  <2>2. time < Wrap /\ Cardinality(Others(a)') < Slots
    BY <2>1 DEF Going
  <2>3. CASE b = a
    <3>1. known = Heard(a, facts).facts
      BY <1>4, <2>0, <2>2, <2>3, KnownIsRun DEF known
    <3>2. advertisers'[e] = [addr |-> a, seen |-> now, facts |-> known]
          /\ runs'[a] = Heard(a, facts)
      BY <1>0, <2>1, <2>3 DEF TypeOK
    <3>3. Age(e)' = 0
      <4>1. time - time < Wrap /\ time <= time
        BY <1>1
      <4>2. ((time % Wrap) + Wrap - (time % Wrap)) % Wrap = time - time
        BY <1>1, <4>1, Elapsed
      <4>3. advertisers'[e].seen = time % Wrap
        BY <3>2 DEF now
      <4>4. QED
        BY <1>1, <2>1, <4>2, <4>3 DEF Age, now
    <3>4. Matches(e, a)'
      BY <1>1, <3>2, <3>3 DEF Matches, Fresh
    <3>5. QED
      BY <2>1, <3>1, <3>2, <3>4
  <2>4. CASE b # a
    <3>1. runs'[a] = runs[a] /\ runs'[b].last = time
          /\ \A c \in Addresses : c # b => runs'[c] = runs[c]
      BY <1>0, <2>1, <2>4 DEF TypeOK, Heard
    <3>2. \A c \in Addresses : runs[c].last <= time
      BY DEF TableInd, RunsOrdered
    <3>3. Others(a) \in SUBSET (Others(a)')
      BY <1>1, <3>1, <3>2 DEF Others
    <3>4. IsFiniteSet(Others(a)')
      BY FS_Subset, AdvertiserAssumption DEF Others
    <3>5. Cardinality(Others(a)) <= Cardinality(Others(a)')
      BY <3>3, <3>4, FS_Subset
    <3>6. Cardinality(Others(a)) \in Nat /\ Cardinality(Others(a)') \in Nat /\ Slots \in Nat
      BY <3>3, <3>4, FS_Subset, FS_CardinalityType, AdvertiserAssumption
    <3>7. Going(a)
      BY <2>1, <2>2, <3>1, <3>5, <3>6 DEF Going
    <3>8. PICK k \in 1 .. Slots : Matches(k, a) /\ advertisers[k].facts = runs[a].facts
      BY <3>7 DEF RunsHaveEntries
    <3>9. k # e
      BY <1>4, <2>0, <2>2, <2>4, <3>8, EntryNotTaken
    <3>10. advertisers'[k] = advertisers[k]
      BY <1>0, <2>1, <3>9 DEF TypeOK
    <3>11. Matches(k, a)'
      BY <2>1, <3>8, <3>10 DEF Matches, Fresh, Age, now
    <3>12. QED
      BY <3>1, <3>8, <3>10, <3>11
  <2>5. QED
    BY <2>3, <2>4
<1>5. QED
  BY <1>2, <1>3, <1>4 DEF Next

(* Until the clock comes to its end, a mouse is asked for at the very packet *)
(* that completes what it says, if fewer others than there are entries were  *)
(* heard since its first one: no entry is given away too early (the search   *)
(* for the oldest in zmk_ble_mouse_advertisement).                           *)
THEOREM MiceAreFound == Spec => MouseIsFound
<1> DEFINE Found ==
      \A a \in Addresses :
          (/\ runs'[a] # runs[a] /\ runs'[a].facts = Facts
           /\ Cardinality(Others(a)') < Slots /\ time < Wrap)
              => asked' = a
<1>1. Init => RunsHaveEntries
  BY DEF Init, RunsHaveEntries, Going
<1>2. TableInd /\ RunsHaveEntries /\ [Next]_vars => RunsHaveEntries'
  BY RunsHeldStep
<1>3. TableInd /\ RunsHaveEntries /\ [Next]_vars => [Found]_vars
  <2> SUFFICES ASSUME TableInd, RunsHaveEntries, [Next]_vars, NEW a \in Addresses,
                      runs'[a] # runs[a], runs'[a].facts = Facts,
                      Cardinality(Others(a)') < Slots, time < Wrap
               PROVE  asked' = a
    OBVIOUS
  <2>1. PICK facts \in SUBSET Facts : Advertisement(a, facts)
    <3>1. ~ UNCHANGED vars /\ ~ Tick
      BY DEF vars, Tick
    <3>2. \A b \in Addresses, facts \in SUBSET Facts : Advertisement(b, facts) => b = a
      BY DEF Advertisement, TableInd, TypeOK
    <3>3. QED
      BY <3>1, <3>2 DEF Next
  <2>2. runs'[a] = Heard(a, facts)
    BY <2>1 DEF Advertisement, TableInd, TypeOK
  <2>3. KnownFacts(Entry(a), a) \cup facts = Facts
    BY <2>1, <2>2, KnownIsRun
  <2>4. QED
    BY <2>1, <2>3 DEF Advertisement
<1>4. QED
  BY <1>1, <1>2, <1>3, TableInductive, PTL DEF Spec, MouseIsFound
==============================================================================
