-------------------------- MODULE BondRecordsProofs --------------------------
(***************************************************************************)
(* Proofs about BondRecords, for any set of peers and of key material.     *)
(*                                                                         *)
(* BondInd is inductive.  It adds to BondsInv the shape of what is in      *)
(* flash, which is what lets either firmware tell the records apart: only  *)
(* Legacy keys are in full records, with their tail, and the previous      *)
(* firmware never has a Legacy key in RAM.                                 *)
(***************************************************************************)
EXTENDS BondRecords, TLAPS

(* The length of a record in flash tells the kind of its key.                *)
LengthTellsKind ==
    \A p \in Peers : store[p] # None =>
        /\ store[p].length = "short" => store[p].kind # "legacy"
        /\ store[p].length = "full" => store[p].kind = "legacy" /\ store[p].tail = "key"

(* The previous firmware knows no Legacy keys.                               *)
OldHasScOnly == firmware = "old" => \A p \in Peers : keys[p] # None => keys[p].kind = "sc"

BondInd == BondsInv /\ LengthTellsKind /\ OldHasScOnly

--------------------------------------------------------------------------------
(* What keys_set leaves of a record it is handed under a firmware.           *)

(* Loading touches only the peer's own record and key, and a record either   *)
(* stays as it was or is deleted; a key is made of the record it came from.  *)
LEMMA LoadEffect ==
  ASSUME TypeOK, LengthTellsKind,
         NEW p \in Peers, NEW readable \in BOOLEAN, Load(p, readable)
  PROVE  /\ store' \in [Peers -> Records \cup {None}]
         /\ keys' \in [Peers -> KeyContents \cup {None}]
         /\ \A q \in Peers \ {p} : store'[q] = store[q] /\ keys'[q] = keys[q]
         /\ \/ store' = store
            \/ /\ store'[p] = None
               /\ firmware = "old" /\ store[p] # None /\ store[p].length # "short"
         /\ \/ keys'[p] \in {keys[p], None}
            \/ /\ keys'[p] \in KeyContents
               /\ store[p] # None /\ keys'[p].kind = store[p].kind
               /\ \/ keys'[p].kind = "sc" /\ keys'[p].tail = "zero"
                  \/ /\ firmware = "new"
                     /\ keys'[p].kind = "legacy" /\ keys'[p].tail = "key"
<1> DEFINE r == store[p]
<1>1. CASE store[p] = None
  BY <1>1 DEF Load, Refused, TypeOK
<1>2. CASE store[p] # None /\ firmware = "new"
  <2>0. r \in Records
    BY <1>2 DEF TypeOK
  <2>1. LoadNew(p, r, readable)
    BY <1>2 DEF Load
  <2>2. CASE r.length = "full"
    <3>1. keys' = [keys EXCEPT ![p] = Key(r, r.tail)] /\ store' = store
      BY <2>1, <2>2 DEF LoadNew, KeysSet
    <3>2. Key(r, r.tail) \in KeyContents
      BY <2>0 DEF Key, KeyContents, Records
    <3>3. r.kind = "legacy" /\ r.tail = "key"
      BY <1>2, <2>2 DEF LengthTellsKind
    <3>4. QED
      BY <3>1, <3>2, <3>3, <1>2 DEF TypeOK, Key
  <2>3. CASE r.length = "short" /\ readable /\ ScRecord(r.kind)
    <3> DEFINE full == [r EXCEPT !.length = "full"]
    <3>1. full.length = "full" /\ full.kind = r.kind /\ full.secret = r.secret
      BY <2>0 DEF Records
    <3>2. KeysSet(p, full, "full", "zero")
      BY <2>1, <2>3 DEF LoadNew, NewTail
    <3>3. keys' = [keys EXCEPT ![p] = Key(full, "zero")] /\ store' = store
      BY <3>1, <3>2 DEF KeysSet
    <3>4. Key(full, "zero") = [kind |-> "sc", secret |-> r.secret, tail |-> "zero"]
      BY <3>1, <2>3 DEF Key, ScRecord
    <3>5. [kind |-> "sc", secret |-> r.secret, tail |-> "zero"] \in KeyContents
      BY <2>0 DEF KeyContents, Records, Tails
    <3>6. QED
      BY <3>3, <3>4, <3>5, <2>3, <1>2 DEF TypeOK, ScRecord
  <2>4. CASE r.length # "full" /\ ~(r.length = "short" /\ readable /\ ScRecord(r.kind))
    BY <2>1, <2>4 DEF LoadNew, UnknownRecord, Refused, TypeOK
  <2>5. QED
    BY <2>2, <2>3, <2>4
<1>3. CASE store[p] # None /\ firmware = "old"
  <2>0. r \in Records
    BY <1>3 DEF TypeOK
  <2>1. CASE r.length = "short" /\ r.kind = "bad"
    BY <1>3, <2>1 DEF Load, Refused, TypeOK
  <2>2. CASE r.length = "short" /\ r.kind # "bad"
    <3>1. keys' = [keys EXCEPT ![p] = Key(r, "zero")] /\ store' = store
      BY <1>3, <2>2 DEF Load, KeysSet
    <3>2. r.kind = "sc"
      BY <2>0, <1>3, <2>2 DEF LengthTellsKind, Records
    <3>3. Key(r, "zero") \in KeyContents
      BY <2>0 DEF Key, KeyContents, Records, Tails
    <3>4. QED
      BY <3>1, <3>2, <3>3, <1>3 DEF TypeOK, Key
  <2>3. CASE r.length # "short"
    <3>1. keys' = [keys EXCEPT ![p] = None] /\ store' = [store EXCEPT ![p] = None]
      BY <1>3, <2>3 DEF Load, KeysSet
    <3>2. QED
      BY <3>1, <1>3, <2>3 DEF TypeOK
  <2>4. QED
    BY <2>1, <2>2, <2>3
<1>4. QED
  BY <1>1, <1>2, <1>3 DEF TypeOK

--------------------------------------------------------------------------------
LEMMA BondInit == Init => BondInd
<1> SUFFICES ASSUME Init
             PROVE  BondInd
  OBVIOUS
<1>1. \A p \in Peers :
        /\ store[p] \in Records \cup {None}
        /\ store[p] # None =>
             \/ store[p].length = "short" /\ store[p].kind \in {"sc", "bad"}
             \/ store[p].length = "other" /\ store[p].kind = "bad"
  BY DEF Init, Records, Tails
<1>2. \A p \in Peers : store[p] # None /\ store[p].kind = "sc" =>
        [kind |-> "sc", secret |-> store[p].secret] \in Bonds
  BY <1>1 DEF Bonds, Records
<1>3. store \in [Peers -> Records \cup {None}]
  BY <1>1 DEF Init
<1>4. bonds \in [Peers -> Bonds \cup {None}]
  BY <1>2 DEF Init
<1>5. TypeOK
  BY <1>3, <1>4 DEF Init, TypeOK
<1>6. ScBondSurvives /\ LegacyBondWhole
  BY <1>1 DEF Init, ScBondSurvives, LegacyBondWhole
<1>7. NoInventedKey /\ LengthTellsKind /\ OldHasScOnly
  BY <1>1 DEF Init, NoInventedKey, LengthTellsKind, OldHasScOnly
<1>8. QED
  BY <1>5, <1>6, <1>7 DEF BondInd, BondsInv

LEMMA BondStep == BondInd /\ [Next]_vars => BondInd'
<1> SUFFICES ASSUME BondInd, [Next]_vars
             PROVE  BondInd'
  OBVIOUS
<1>0. /\ TypeOK /\ ScBondSurvives /\ LegacyBondWhole /\ NoInventedKey
      /\ LengthTellsKind /\ OldHasScOnly
  BY DEF BondInd, BondsInv
<1>1. ASSUME NEW p \in Peers, NEW readable \in BOOLEAN, Load(p, readable)
      PROVE  BondInd'
  <2>1. /\ store' \in [Peers -> Records \cup {None}]
        /\ keys' \in [Peers -> KeyContents \cup {None}]
        /\ \A q \in Peers \ {p} : store'[q] = store[q] /\ keys'[q] = keys[q]
        /\ \/ store' = store
           \/ /\ store'[p] = None
              /\ firmware = "old" /\ store[p] # None /\ store[p].length # "short"
        /\ \/ keys'[p] \in {keys[p], None}
           \/ /\ keys'[p] \in KeyContents
              /\ store[p] # None /\ keys'[p].kind = store[p].kind
              /\ \/ keys'[p].kind = "sc" /\ keys'[p].tail = "zero"
                 \/ /\ firmware = "new"
                    /\ keys'[p].kind = "legacy" /\ keys'[p].tail = "key"
    BY <1>0, <1>1, LoadEffect
  <2>2. /\ firmware' = firmware /\ bonds' = bonds /\ loading' = loading \ {p}
        /\ discarded' = IF firmware = "old" /\ store[p] # None /\ store'[p] = None
                        THEN discarded \cup {p} ELSE discarded
    BY <1>1 DEF Load
  <2>3. \A q \in Peers : keys'[q] # None => keys'[q].kind # "bad"
    BY <1>0, <2>1 DEF TypeOK
  <2>4. TypeOK'
    BY <1>0, <2>1, <2>2, <2>3 DEF TypeOK
  <2>5. ScBondSurvives'
    BY <1>0, <2>1, <2>2 DEF ScBondSurvives
  <2>6. LegacyBondWhole'
    <3>1. ASSUME store' = store
          PROVE  LegacyBondWhole'
      BY <1>0, <2>2, <3>1 DEF LegacyBondWhole
    <3>2. ASSUME store'[p] = None, firmware = "old", store[p] # None
          PROVE  LegacyBondWhole'
      BY <1>0, <2>1, <2>2, <3>2 DEF LegacyBondWhole
    <3>3. QED
      BY <2>1, <3>1, <3>2
  <2>7. NoInventedKey' /\ OldHasScOnly'
    BY <1>0, <2>1, <2>2 DEF NoInventedKey, OldHasScOnly
  <2>8. LengthTellsKind'
    BY <1>0, <2>1 DEF LengthTellsKind
  <2>9. QED
    BY <2>4, <2>5, <2>6, <2>7, <2>8 DEF BondInd, BondsInv
<1>2. ASSUME NEW p \in Peers, NEW bond \in Bonds, Pair(p, bond)
      PROVE  BondInd'
  <2> DEFINE key == Key(bond, IF bond.kind = "legacy" THEN "key" ELSE "zero")
  <2>1. /\ key \in KeyContents
        /\ key.kind = bond.kind /\ key.kind \in {"sc", "legacy"}
        /\ key.tail = IF key.kind = "legacy" THEN "key" ELSE "zero"
    BY DEF Key, KeyContents, Bonds, Tails
  <2>2. keys' = [keys EXCEPT ![p] = key] /\ firmware = "old" => bond.kind = "sc"
    BY <1>2 DEF Pair
  <2>3. TypeOK'
    BY <1>0, <1>2, <2>1 DEF Pair, TypeOK
  <2>4. NoInventedKey' /\ OldHasScOnly'
    BY <1>0, <1>2, <2>1 DEF Pair, NoInventedKey, OldHasScOnly, TypeOK
  <2>5. QED
    BY <1>0, <1>2, <2>3, <2>4
       DEF Pair, BondInd, BondsInv, ScBondSurvives, LegacyBondWhole, LengthTellsKind
<1>3. ASSUME NEW p \in Peers, Save(p)
      PROVE  BondInd'
  <2> DEFINE key == keys[p]
             bond == [kind |-> key.kind, secret |-> key.secret]
  <2>1. key \in KeyContents /\ key.kind \in {"sc", "legacy"}
        /\ (key.kind = "legacy" => key.tail = "key" /\ firmware = "new")
    BY <1>0, <1>3 DEF Save, TypeOK, KeyContents, NoInventedKey, OldHasScOnly
  <2>2. bond \in Bonds
    BY <2>1 DEF Bonds, KeyContents
  <2>3. /\ Saved(key) \in Records
        /\ Saved(key).secret = key.secret /\ Saved(key).kind = key.kind
        /\ key.kind = "sc" => Saved(key).length = "short"
        /\ key.kind = "legacy" => Saved(key).length = "full" /\ Saved(key).tail = "key"
    BY <2>1 DEF Saved, WritesShort, ScRecord, Records, KeyContents, Tails
  <2>4. Saved(key) # None /\ bond # None
    BY <2>2, <2>3, BondAssumption
  <2>5. TypeOK'
    BY <1>0, <1>3, <2>2, <2>3 DEF Save, TypeOK
  <2>6. ScBondSurvives'
    BY <1>0, <1>3, <2>1, <2>3, <2>4 DEF Save, ScBondSurvives, TypeOK
  <2>7. LegacyBondWhole'
    BY <1>0, <1>3, <2>1, <2>3, <2>4 DEF Save, LegacyBondWhole, TypeOK
  <2>8. LengthTellsKind'
    BY <1>0, <1>3, <2>1, <2>3, <2>4 DEF Save, LengthTellsKind, TypeOK
  <2>9. QED
    BY <1>0, <1>3, <2>5, <2>6, <2>7, <2>8
       DEF Save, BondInd, BondsInv, NoInventedKey, OldHasScOnly
<1>4. ASSUME NEW p \in Peers, Unpair(p)
      PROVE  BondInd'
  BY <1>0, <1>4 DEF Unpair, BondInd, BondsInv, TypeOK, ScBondSurvives, LegacyBondWhole,
                    NoInventedKey, LengthTellsKind, OldHasScOnly
<1>5. CASE Boot
  BY <1>0, <1>5 DEF Boot, BondInd, BondsInv, TypeOK, ScBondSurvives, LegacyBondWhole,
                    NoInventedKey, LengthTellsKind, OldHasScOnly
<1>6. CASE UNCHANGED vars
  BY <1>0, <1>6 DEF vars, BondInd, BondsInv, TypeOK, ScBondSurvives, LegacyBondWhole,
                    NoInventedKey, LengthTellsKind, OldHasScOnly
<1>7. QED
  BY <1>1, <1>2, <1>3, <1>4, <1>5, <1>6 DEF Next

LEMMA BondInductive == Spec => []BondInd
  BY BondInit, BondStep, PTL DEF Spec

(* A bond means the same in flash and in RAM under either firmware, whatever *)
(* sequence of the two the device runs and wherever it restarts: an SC bond  *)
(* keeps a record both can load, a Legacy bond is whole unless the previous  *)
(* firmware discarded it, and no Legacy key comes out of the bytes of an SC  *)
(* record (__wrap_settings_call_set_handler, __wrap_settings_save_one).      *)
THEOREM BondsKeepMeaning == Spec => []BondsInv
<1>1. BondInd => BondsInv
  BY DEF BondInd
<1>2. QED
  BY <1>1, BondInductive, PTL

(* The records of a device can be told apart by their length alone, which is *)
(* all either firmware looks at before it trusts one (sc_record, keys_set).  *)
THEOREM LengthIsEnough == Spec => []LengthTellsKind
<1>1. BondInd => LengthTellsKind
  BY DEF BondInd
<1>2. QED
  BY <1>1, BondInductive, PTL

--------------------------------------------------------------------------------
(* This firmware takes no record out of flash while it loads, whatever the   *)
(* record is (UnknownRecord in __wrap_settings_call_set_handler).            *)
THEOREM NewFirmwarePreserves == Spec => RecordsPreserved
<1> DEFINE Kept == \A p \in Peers : (firmware = "new" /\ loading # {}) => store'[p] = store[p]
<1>1. BondInd /\ [Next]_vars => [Kept]_vars
  <2> SUFFICES ASSUME BondInd, [Next]_vars, firmware = "new", loading # {}
               PROVE  store' = store
    OBVIOUS
  <2>1. ASSUME NEW p \in Peers, NEW readable \in BOOLEAN, Load(p, readable)
        PROVE  store' = store
    BY <2>1, LoadEffect DEF BondInd, BondsInv
  <2>2. QED
    BY <2>1 DEF Next, vars, Pair, Save, Unpair, Boot
<1>2. QED
  BY <1>1, BondInductive, PTL DEF Spec, RecordsPreserved
==============================================================================
