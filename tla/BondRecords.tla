------------------------------ MODULE BondRecords ------------------------------
(***************************************************************************)
(* bond_compat.c: bond records between this firmware, whose key structure  *)
(* ends in a Legacy key, and the previous one, which has none.             *)
(*                                                                         *)
(* A record is its length, its content, the key material and what its last *)
(* bytes hold: those of a short record are alignment padding, where a full *)
(* one has the Legacy key.  The device may restart at any time, with       *)
(* either firmware, and then loads one record after the other.             *)
(***************************************************************************)
CONSTANTS Peers, Secrets, None

VARIABLES
    firmware,   \* "new", this one, or "old"
    store,      \* the records in flash
    keys,       \* the keys in RAM
    loading,    \* the peers whose records are still to be loaded
    bonds,      \* history: the bond last stored with a peer
    discarded   \* history: the peers whose record the old firmware discarded

vars == <<firmware, store, keys, loading, bonds, discarded>>

Tails == {"zero", "padding", "key"}

Records == [length : {"short", "full", "other"}, kind : {"sc", "legacy", "bad"},
            secret : Secrets, tail : Tails]

Bonds == [kind : {"sc", "legacy"}, secret : Secrets]

KeyContents == [kind : {"sc", "legacy", "bad"}, secret : Secrets, tail : Tails]

(* None stands for no record, no key and no bond.                            *)
ASSUME BondAssumption == None \notin Records \cup KeyContents \cup Bonds

(* Types; no key in RAM comes from a damaged record.                         *)
TypeOK ==
    /\ firmware \in {"new", "old"}
    /\ store \in [Peers -> Records \cup {None}]
    /\ keys \in [Peers -> KeyContents \cup {None}]
    /\ loading \subseteq Peers /\ discarded \subseteq Peers
    /\ bonds \in [Peers -> Bonds \cup {None}]
    /\ \A p \in Peers : keys[p] # None => keys[p].kind # "bad"

(* An old record, an unsuitable one, or none.                                *)
Init ==
    /\ firmware = "old"
    /\ store \in [Peers -> {None} \cup
                     [length : {"short"}, kind : {"sc", "bad"}, secret : Secrets,
                      tail : {"padding"}] \cup
                     [length : {"other"}, kind : {"bad"}, secret : Secrets, tail : {"zero"}]]
    /\ bonds = [p \in Peers |->
                   IF store[p] # None /\ store[p].kind = "sc"
                   THEN [kind |-> "sc", secret |-> store[p].secret] ELSE None]
    /\ keys = [p \in Peers |-> None]
    /\ loading = Peers
    /\ discarded = {}

--------------------------------------------------------------------------------
(* sc_record *)
ScRecord(kind) == kind = "sc"

Key(r, tail) == [kind |-> r.kind, secret |-> r.secret, tail |-> tail]

(* keys_set: a record of another length than the firmware's is deleted.      *)
KeysSet(p, r, own, tail) ==
    IF r.length = own
    THEN /\ keys' = [keys EXCEPT ![p] = Key(r, tail)]
         /\ UNCHANGED store
    ELSE /\ keys' = [keys EXCEPT ![p] = None]
         /\ store' = [store EXCEPT ![p] = None]

(* Nothing is handed to keys_set, and nothing changes.                       *)
Refused == UNCHANGED <<keys, store>>

(* "Old padding is not a Legacy key."                                        *)
NewTail(r) == "zero"

MutHandedOn(p, r) == KeysSet(p, r, "full", r.tail)

(* A length or content the adapter does not know, or one it could not read.  *)
UnknownRecord(p, r) == Refused

(* __wrap_settings_call_set_handler, for a record under bt/keys.             *)
LoadNew(p, r, readable) ==
    CASE r.length = "full" -> KeysSet(p, r, "full", r.tail)
      [] r.length = "short" /\ readable /\ ScRecord(r.kind) ->
             KeysSet(p, [r EXCEPT !.length = "full"], "full", NewTail(r))
      [] OTHER -> UnknownRecord(p, r)

(* What the previous firmware makes of a damaged short record is left out.   *)
Load(p, readable) ==
    /\ p \in loading
    /\ loading' = loading \ {p}
    /\ IF store[p] = None THEN Refused
       ELSE IF firmware = "new" THEN LoadNew(p, store[p], readable)
       ELSE IF store[p].length = "short" /\ store[p].kind = "bad" THEN Refused
       ELSE KeysSet(p, store[p], "short", "zero")
    /\ discarded' = IF firmware = "old" /\ store[p] # None /\ store'[p] = None
                    THEN discarded \cup {p} ELSE discarded
    /\ UNCHANGED <<firmware, bonds>>

(* A new pairing fills the key in RAM; the previous firmware has SC only.    *)
Pair(p, bond) ==
    /\ loading = {}
    /\ keys[p] = None
    /\ firmware = "old" => bond.kind = "sc"
    /\ keys' = [keys EXCEPT ![p] = Key(bond, IF bond.kind = "legacy" THEN "key" ELSE "zero")]
    /\ UNCHANGED <<firmware, store, loading, bonds, discarded>>

MutFullAlways(key) == firmware = "old"

WritesShort(key) == firmware = "old" \/ ScRecord(key.kind)

(* __wrap_settings_save_one; what is left in the padding varies.             *)
Saved(key) ==
    IF WritesShort(key)
    THEN [length |-> "short", kind |-> key.kind, secret |-> key.secret,
          tail |-> IF firmware = "old" THEN "padding" ELSE "zero"]
    ELSE [length |-> "full", kind |-> key.kind, secret |-> key.secret, tail |-> key.tail]

Save(p) ==
    /\ loading = {}
    /\ keys[p] # None
    /\ store' = [store EXCEPT ![p] = Saved(keys[p])]
    /\ bonds' = [bonds EXCEPT ![p] = [kind |-> keys[p].kind, secret |-> keys[p].secret]]
    /\ discarded' = discarded \ {p}
    /\ UNCHANGED <<firmware, keys, loading>>

(* bt_unpair *)
Unpair(p) ==
    /\ loading = {}
    /\ keys[p] # None
    /\ keys' = [keys EXCEPT ![p] = None]
    /\ store' = [store EXCEPT ![p] = None]
    /\ bonds' = [bonds EXCEPT ![p] = None]
    /\ UNCHANGED <<firmware, loading, discarded>>

(* A restart, perhaps after another firmware was flashed.                    *)
Boot ==
    /\ firmware' \in {"new", "old"}
    /\ keys' = [p \in Peers |-> None]
    /\ loading' = Peers
    /\ UNCHANGED <<store, bonds, discarded>>

Next ==
    \/ \E p \in Peers, readable \in BOOLEAN : Load(p, readable)
    \/ \E p \in Peers, bond \in Bonds : Pair(p, bond)
    \/ \E p \in Peers : Save(p) \/ Unpair(p)
    \/ Boot

Spec == Init /\ [][Next]_vars

--------------------------------------------------------------------------------
(* A bond with Secure Connections stays in flash as it was stored, and in a  *)
(* form both firmwares load, whatever sequence of the two the device runs    *)
(* and wherever it is restarted (README.md, "SC records therefore remain     *)
(* readable by the previous SC-only firmware").                              *)
ScBondSurvives ==
    \A p \in Peers : bonds[p] # None /\ bonds[p].kind = "sc" =>
        /\ store[p] # None
        /\ store[p].length = "short" /\ store[p].kind = "sc"
        /\ store[p].secret = bonds[p].secret

(* A Legacy bond stays whole in flash unless the previous firmware has       *)
(* discarded it: it is never written in the short form, nor lost to a        *)
(* restart (__wrap_settings_save_one).                                       *)
LegacyBondWhole ==
    \A p \in Peers : bonds[p] # None /\ bonds[p].kind = "legacy" /\ p \notin discarded =>
        /\ store[p] # None
        /\ store[p].length = "full" /\ store[p].tail = "key"
        /\ store[p].secret = bonds[p].secret

(* No Legacy key comes out of the bytes of an SC record, by whichever        *)
(* firmware those were written (the cleared tail).                           *)
NoInventedKey ==
    \A p \in Peers : keys[p] # None =>
        keys[p].tail = IF keys[p].kind = "legacy" THEN "key" ELSE "zero"

(* A bond means the same in flash and in RAM, under either firmware          *)
(* (__wrap_settings_call_set_handler, __wrap_settings_save_one).             *)
BondsInv == TypeOK /\ ScBondSurvives /\ LegacyBondWhole /\ NoInventedKey

(* This firmware takes no record out of flash but by unpairing: one it       *)
(* cannot read, or does not know, outlasts any number of its restarts.       *)
RecordsPreserved ==
    [][\A p \in Peers : (firmware = "new" /\ loading # {}) => store'[p] = store[p]]_vars
================================================================================
