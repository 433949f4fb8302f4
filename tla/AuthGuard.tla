------------------------------- MODULE AuthGuard -------------------------------
(***************************************************************************)
(* auth_guard.c: the table of authentication callbacks, which the host     *)
(* latches per connection at its first pairing, and what the guarded table *)
(* decides.                                                                *)
(*                                                                         *)
(* The application registers from one thread; the host's pairings come     *)
(* from another and may fall between the two calls that replace the first  *)
(* table.  Which table is in force for a connection is written as the      *)
(* table's name; the guarded one also holds the application's own check.   *)
(***************************************************************************)
CONSTANTS Connections,   \* central and peripheral links, over their lifetime
          Checks,        \* pairing_accept of the tables an application has
          RegisterFails  \* may the host refuse a table, or its removal

ASSUME GuardAssumption == RegisterFails \in BOOLEAN

VARIABLES
    application_registered,
    application_accept,   \* one of Checks, or "none"
    installed,            \* the host's table: "none", "initial" or "guarded"
    call,                 \* where a registration is
    latched,              \* per connection: "unset", or a table
    admitted,             \* the connections legacy_pairing_allowed holds for
    (* History: the connections first paired on inside a registration, and   *)
    (* the last pairing that was decided.                                    *)
    early, decided

historyVars == <<early, decided>>
vars == <<application_registered, application_accept, installed, call, latched, admitted,
          historyVars>>

Tables == {"none", "initial", "guarded"}

(* What a peer asks for (feat->auth_req); "none" if the host does not say.   *)
Features == {"none", "legacy", "sc"}

Decisions == [feat : Features, admitted : BOOLEAN, early : BOOLEAN, accepted : BOOLEAN]

NoDecision == [feat |-> "none", admitted |-> FALSE, early |-> FALSE, accepted |-> FALSE]

(* Types; application_registered says which table the host has.              *)
TypeOK ==
    /\ application_registered \in BOOLEAN
    /\ application_registered <=> installed = "guarded"
    /\ application_accept \in Checks \cup {"none"}
    /\ installed \in Tables
    /\ call \in {"idle", "removed", "failed"}
    /\ latched \in [Connections -> Tables \cup {"unset"}]
    /\ admitted \subseteq Connections
    /\ early \subseteq Connections
    /\ decided \in Decisions

(* After auth_guard_init, before Bluetooth is up.                            *)
Init ==
    /\ application_registered = FALSE /\ application_accept = "none"
    /\ installed = "initial"
    /\ call = "idle"
    /\ latched = [c \in Connections |-> "unset"]
    /\ admitted = {}
    /\ early = {}
    /\ decided = NoDecision

--------------------------------------------------------------------------------
(* __wrap_bt_conn_auth_cb_register; a table that is missing or incomplete is *)
(* refused without effect.                                                   *)

MutRegistersAgain == TRUE

MayRegister == ~application_registered

(* The guarded table is filled in, then the first one removed, if the host   *)
(* lets it ...                                                               *)
Register(check) ==
    /\ call = "idle"
    /\ MayRegister
    /\ application_accept' = check
    /\ \/ installed' = "none" /\ call' = "removed"
       \/ RegisterFails /\ UNCHANGED <<installed, call>>
    /\ UNCHANGED <<application_registered, latched, admitted, historyVars>>

MutNotMarked == UNCHANGED application_registered

MarkRegistered == application_registered' = TRUE

(* ... and the guarded one installed,                                        *)
Install ==
    /\ call = "removed"
    /\ installed' = "guarded"
    /\ MarkRegistered
    /\ call' = "idle"
    /\ UNCHANGED <<application_accept, latched, admitted, historyVars>>

(* or refused by the host,                                                   *)
InstallFails ==
    /\ call = "removed"
    /\ RegisterFails
    /\ call' = "failed"
    /\ UNCHANGED <<application_registered, application_accept, installed, latched, admitted,
                   historyVars>>

MutNoFallback == UNCHANGED installed

PutBack == installed' = "initial"

(* and the first one put back.                                               *)
Fallback ==
    /\ call = "failed"
    /\ PutBack
    /\ call' = "idle"
    /\ UNCHANGED <<application_registered, application_accept, latched, admitted, historyVars>>

--------------------------------------------------------------------------------
(* The host.                                                                 *)

Connected(c) ==
    /\ latched' = [latched EXCEPT ![c] = "unset"]
    /\ early' = early \ {c}
    /\ UNCHANGED <<application_registered, application_accept, installed, call, admitted, decided>>

(* The client selects a mouse for a connection, or its Pair window ends.     *)
Admission(c) ==
    /\ admitted' \in {admitted \cup {c}, admitted \ {c}}
    /\ UNCHANGED <<application_registered, application_accept, installed, call, latched,
                   historyVars>>

LegacyAllowed(c) == c \in admitted

(* sc_only_accept *)
ScOnlyAccept(feat) == feat = "sc"

(* guarded_accept, for what the application's own check says; the host       *)
(* always names a connection.                                                *)
GuardedAccept(c, feat, rejected) ==
    /\ feat # "none"
    /\ feat = "legacy" => LegacyAllowed(c)
    /\ application_accept # "none" => ~rejected

Accepts(c, table, feat, rejected) ==
    CASE table = "none" -> TRUE
      [] table = "initial" -> ScOnlyAccept(feat)
      [] table = "guarded" -> GuardedAccept(c, feat, rejected)

(* A pairing: the table is latched by the first one on a connection.         *)
Pairing(c, feat, rejected) ==
    LET first == latched[c] = "unset"
        table == IF first THEN installed ELSE latched[c] IN
    /\ latched' = [latched EXCEPT ![c] = table]
    /\ early' = IF first /\ call # "idle" THEN early \cup {c} ELSE early
    /\ decided' = [feat |-> feat, admitted |-> c \in admitted, early |-> c \in early',
                   accepted |-> Accepts(c, table, feat, rejected)]
    /\ UNCHANGED <<application_registered, application_accept, installed, call, admitted>>

Next ==
    \/ \E check \in Checks \cup {"none"} : Register(check)
    \/ Install \/ InstallFails \/ Fallback
    \/ \E c \in Connections : Connected(c) \/ Admission(c)
    \/ \E c \in Connections, feat \in Features, rejected \in BOOLEAN : Pairing(c, feat, rejected)

Spec == Init /\ [][Next]_vars

--------------------------------------------------------------------------------
(* "Keep the installed table immutable because SMP latches it for the        *)
(* lifetime of a connection": the application's check does not change, and   *)
(* the guarded table stays, once a connection has latched it or the host has *)
(* it (__wrap_bt_conn_auth_cb_register).                                     *)
PolicyImmutable ==
    [][(installed = "guarded" \/ \E c \in Connections : latched[c] = "guarded") =>
         application_accept' = application_accept /\ installed' = installed]_vars

(* Between calls the host always has a table: a refused registration leaves  *)
(* the first one in force.                                                   *)
AlwaysGuarded == call = "idle" => installed # "none"

(* The table in force is the one the flags stand for, and between calls      *)
(* there is one, whichever call of a registration failed (the fallback in    *)
(* __wrap_bt_conn_auth_cb_register).                                         *)
GuardInv == TypeOK /\ AlwaysGuarded

(* A pairing without Secure Connections is accepted for no connection but    *)
(* the selected one, for every order of connections, pairings and            *)
(* registrations, failed and repeated ones included: the policy may only be  *)
(* missing for a connection first paired on between the two calls of one     *)
(* registration, and ends with that connection (the two calls and the        *)
(* fallback in __wrap_bt_conn_auth_cb_register, guarded_accept).             *)
LegacyOnlySelected ==
    decided.accepted =>
        decided.feat = "sc" \/ (decided.feat = "legacy" /\ decided.admitted) \/ decided.early
================================================================================
