--------------------------- MODULE AuthGuardProofs ---------------------------
(***************************************************************************)
(* Proofs about AuthGuard, for any set of connections and of checks, and   *)
(* whether or not the host may refuse the guarded table.                   *)
(*                                                                         *)
(* GuardInd is inductive.  It adds to the properties what makes them so:   *)
(* the host is without a table exactly inside a registration, a connection *)
(* can only have latched the guarded table from the host, and if it        *)
(* latched the absence of one it was first paired on inside a              *)
(* registration.                                                           *)
(***************************************************************************)
EXTENDS AuthGuard, TLAPS

NoTableInsideCall == call # "idle" <=> installed = "none"

LatchedFromHost == \A c \in Connections : latched[c] = "guarded" => installed = "guarded"

UnguardedIsEarly == \A c \in Connections : latched[c] = "none" => c \in early

GuardInd == TypeOK /\ NoTableInsideCall /\ LatchedFromHost /\ UnguardedIsEarly

--------------------------------------------------------------------------------
LEMMA GuardInit == Init => GuardInd
<1> SUFFICES ASSUME Init
             PROVE  GuardInd
  OBVIOUS
<1>1. NoDecision \in Decisions
  BY DEF NoDecision, Decisions, Features
<1>2. application_registered \in BOOLEAN /\ ~application_registered
  BY DEF Init
<1>3. TypeOK
  BY <1>1, <1>2 DEF Init, TypeOK, Tables
<1>4. QED
  BY <1>3 DEF Init, GuardInd, NoTableInsideCall, LatchedFromHost, UnguardedIsEarly

LEMMA GuardStep == GuardInd /\ [Next]_vars => GuardInd'
<1> SUFFICES ASSUME GuardInd, [Next]_vars
             PROVE  GuardInd'
  OBVIOUS
<1> USE DEF GuardInd, TypeOK, NoTableInsideCall, LatchedFromHost, UnguardedIsEarly, Tables,
            historyVars
<1>1. ASSUME NEW check \in Checks \cup {"none"}, Register(check)
      PROVE  GuardInd'
  BY <1>1 DEF Register, MayRegister
<1>2. CASE Install
  BY <1>2 DEF Install, MarkRegistered
<1>3. CASE InstallFails
  BY <1>3 DEF InstallFails
<1>4. CASE Fallback
  BY <1>4 DEF Fallback, PutBack
<1>5. ASSUME NEW c \in Connections, Connected(c)
      PROVE  GuardInd'
  BY <1>5 DEF Connected
<1>6. ASSUME NEW c \in Connections, Admission(c)
      PROVE  GuardInd'
  BY <1>6 DEF Admission
<1>7. ASSUME NEW c \in Connections, NEW feat \in Features, NEW rejected \in BOOLEAN,
             Pairing(c, feat, rejected)
      PROVE  GuardInd'
  <2> DEFINE table == IF latched[c] = "unset" THEN installed ELSE latched[c]
  <2>1. table \in Tables
    OBVIOUS
  <2>2. Accepts(c, table, feat, rejected) \in BOOLEAN
    BY <2>1 DEF Accepts, ScOnlyAccept, GuardedAccept, LegacyAllowed
  <2>3. latched' \in [Connections -> Tables \cup {"unset"}] /\ LatchedFromHost'
    BY <1>7, <2>1 DEF Pairing
  <2>4. early' \subseteq Connections /\ UnguardedIsEarly'
    BY <1>7, <2>1 DEF Pairing
  <2>5. decided' \in Decisions
    BY <1>7, <2>2 DEF Pairing, Decisions
  <2>6. QED
    BY <1>7, <2>3, <2>4, <2>5 DEF Pairing
<1>8. CASE UNCHANGED vars
  BY <1>8 DEF vars
<1>9. QED
  BY <1>1, <1>2, <1>3, <1>4, <1>5, <1>6, <1>7, <1>8 DEF Next

LEMMA GuardInductive == Spec => []GuardInd
  BY GuardInit, GuardStep, PTL DEF Spec

(* Types; the table in force is the one the flags stand for, and between     *)
(* calls the host has one, whichever call of a registration failed (the      *)
(* fallback in __wrap_bt_conn_auth_cb_register).                             *)
THEOREM GuardAlways == Spec => []GuardInv
<1>1. GuardInd => GuardInv
  BY DEF GuardInd, GuardInv, AlwaysGuarded, NoTableInsideCall
<1>2. QED
  BY <1>1, GuardInductive, PTL

--------------------------------------------------------------------------------
(* A pairing without Secure Connections is accepted for no connection but    *)
(* the selected one and those first paired on between the two calls of a     *)
(* registration, whatever the order of connections, pairings and             *)
(* registrations, and whichever of them fail (sc_only_accept,                *)
(* guarded_accept, __wrap_bt_conn_auth_cb_register).                         *)
THEOREM LegacyNeedsSelection == Spec => []LegacyOnlySelected
<1>1. Init => LegacyOnlySelected
  BY DEF Init, NoDecision, LegacyOnlySelected
<1>2. GuardInd /\ LegacyOnlySelected /\ [Next]_vars => LegacyOnlySelected'
  <2> SUFFICES ASSUME GuardInd, LegacyOnlySelected, [Next]_vars
               PROVE  LegacyOnlySelected'
    OBVIOUS
  <2>1. CASE UNCHANGED decided
    BY <2>1 DEF LegacyOnlySelected
  <2>2. ASSUME NEW c \in Connections, NEW feat \in Features, NEW rejected \in BOOLEAN,
               Pairing(c, feat, rejected)
        PROVE  LegacyOnlySelected'
    <3> DEFINE table == IF latched[c] = "unset" THEN installed ELSE latched[c]
    <3>1. table = "none" => c \in early'
      BY <2>2 DEF Pairing, GuardInd, TypeOK, NoTableInsideCall, UnguardedIsEarly
    <3>2. Accepts(c, table, feat, rejected) =>
            feat = "sc" \/ (feat = "legacy" /\ c \in admitted) \/ c \in early'
      <4>1. table \in Tables
        BY DEF GuardInd, TypeOK, Tables
      <4>2. QED
        BY <3>1, <4>1 DEF Accepts, ScOnlyAccept, GuardedAccept, LegacyAllowed, Tables, Features
    <3>3. /\ decided'.feat = feat /\ decided'.admitted = (c \in admitted)
          /\ decided'.early = (c \in early')
          /\ decided'.accepted = Accepts(c, table, feat, rejected)
      BY <2>2 DEF Pairing
    <3>4. QED
      BY <3>2, <3>3 DEF LegacyOnlySelected
  <2>3. QED
    BY <2>1, <2>2 DEF Next, vars, historyVars, Register, Install, InstallFails, Fallback,
                      Connected, Admission
<1>3. QED
  BY <1>1, <1>2, GuardInductive, PTL DEF Spec

(* Once a connection has latched the guarded table, or the host has it, the  *)
(* application's check and the table stay ("Keep the installed table         *)
(* immutable because SMP latches it", __wrap_bt_conn_auth_cb_register).      *)
THEOREM PolicyStays == Spec => PolicyImmutable
<1> DEFINE Fixed == (installed = "guarded" \/ \E c \in Connections : latched[c] = "guarded")
                    => application_accept' = application_accept /\ installed' = installed
<1>1. GuardInd /\ [Next]_vars => [Fixed]_vars
  <2> SUFFICES ASSUME GuardInd, installed = "guarded", [Next]_vars
               PROVE  UNCHANGED <<application_accept, installed>>
    BY DEF GuardInd, LatchedFromHost
  <2>1. call = "idle" /\ ~MayRegister
    BY DEF GuardInd, TypeOK, NoTableInsideCall, MayRegister
  <2>2. QED
    BY <2>1 DEF Next, vars, historyVars, Register, Install, InstallFails, Fallback, Connected, Admission,
                Pairing
<1>2. QED
  BY <1>1, GuardInductive, PTL DEF Spec, PolicyImmutable
================================================================================
