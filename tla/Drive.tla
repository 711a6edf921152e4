--------------------------------- MODULE Drive ---------------------------------
(***************************************************************************)
(* What the file system relies on in a drive (DriveMgr.h, DriveMgr.cc):    *)
(* a packet that was written is read back, a packet under way when power   *)
(* is lost may be torn, and no other structure changes.  After an error of *)
(* the device, which no driver reports, nothing is promised until power    *)
(* was off.                                                                *)
(***************************************************************************)
CONSTANTS
  Places,    \* where structures are kept
  Values,    \* what a structure can be
  Torn,      \* anything that is not one whole structure
  NoCall     \* no packet is under way

VARIABLES
  store,     \* what each place holds
  call,      \* the packet under way
  got,       \* what the last read gave, and from where
  failed     \* has the device failed since power came on?

vars == <<store, call, got, failed>>

Contents == Values \cup {Torn}
Stores == [Places -> Contents]
Write(p, v) == [op |-> "write", at |-> p, value |-> v]
Read(p) == [op |-> "read", at |-> p, value |-> Torn]

Init ==
  /\ store \in Stores
  /\ call = NoCall
  /\ got = NoCall
  /\ failed = FALSE

Begin ==
  /\ call = NoCall
  /\ call' \in {Write(p, v) : p \in Places, v \in Values}
                 \cup {Read(p) : p \in Places}
  /\ UNCHANGED <<store, got, failed>>

(* The packet's structure, and no other, changes on the way.               *)
Store ==
  /\ call # NoCall /\ call.op = "write"
  /\ store' \in {[store EXCEPT ![call.at] = c] : c \in Contents}
  /\ UNCHANGED <<call, got, failed>>

EndWrite ==
  /\ call # NoCall /\ call.op = "write"
  /\ failed \/ store[call.at] = call.value
  /\ call' = NoCall
  /\ UNCHANGED <<store, got, failed>>

EndRead ==
  /\ call # NoCall /\ call.op = "read"
  /\ \E c \in Contents :
       /\ failed \/ c = store[call.at]
       /\ got' = [op |-> "read", at |-> call.at, value |-> c]
  /\ call' = NoCall
  /\ UNCHANGED <<store, failed>>

Fail ==
  /\ failed' = TRUE
  /\ UNCHANGED <<store, call, got>>

(* Without an error, power comes back to the same store.                   *)
Restart ==
  /\ call' = NoCall /\ got' = NoCall
  /\ failed' \in {failed, FALSE}
  /\ store' \in IF failed THEN Stores ELSE {store}

Next == Begin \/ Store \/ EndWrite \/ EndRead \/ Fail \/ Restart

Spec == Init /\ [][Next]_vars
================================================================================
