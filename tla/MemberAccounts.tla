--------------------------- MODULE MemberAccounts ---------------------------
(***************************************************************************)
(* What device trust promises to the rest of the system: an account for    *)
(* every member, and no step that changes two of them, time apart.  A      *)
(* member is ACTIVE only with a passkey on file, signs in only with one,   *)
(* and no passkey or session that is gone comes back or changes hands.     *)
(* Module DeviceTrust implements it, with the handlers that read, wait and *)
(* write one document at a time.                                           *)
(***************************************************************************)
CONSTANTS Members, Devices, Sessions, Enrolled, HomeDevice

VARIABLE accounts

\* standing: the member's status; keys: devices with a passkey, trusted;
\* retired: the revoked ones; open, ended: the sign-ins
SignIns == [session : Sessions, device : Devices]

Init == accounts = [m \in Members |->
    [standing |-> IF m \in Enrolled THEN "ACTIVE" ELSE "PENDING_ENROLLMENT",
     keys |-> IF m \in Enrolled THEN {HomeDevice[m]} ELSE {},
     retired |-> {}, open |-> {}, ended |-> {}]]

Passkeys(m) == accounts[m].keys \cup accounts[m].retired
Taken       == UNION {Passkeys(m) : m \in Members}
SignedIn(m) == accounts[m].open \cup accounts[m].ended
Begun       == UNION {SignedIn(m) : m \in Members}

\* whatever the standing was: see BarredRefused in DeviceTrust
Activate(m) ==
    /\ Passkeys(m) # {}
    /\ accounts' = [accounts EXCEPT ![m].standing = "ACTIVE"]

Rule(m) == \E st \in {"PENDING_ENROLLMENT", "SUSPENDED", "DEACTIVATED"} :
    accounts' = [accounts EXCEPT ![m].standing = st]

\* a registration that a revocation has overtaken adds a retired device
Enrol(m) == \E d \in Devices \ Taken :
    \/ accounts' = [accounts EXCEPT ![m].keys = @ \cup {d}]
    \/ accounts' = [accounts EXCEPT ![m].retired = @ \cup {d}]

Retire(m) == \E gone \in SUBSET accounts[m].keys :
    accounts' = [accounts EXCEPT ![m].keys = @ \ gone, ![m].retired = @ \cup gone]

\* a login may find its device trusted and be overtaken too
SignIn(m) == \E s \in SignIns :
    /\ s.device \in Passkeys(m)
    /\ \A x \in Begun : x.session # s.session
    /\ accounts' = [accounts EXCEPT ![m].open = @ \cup {s}]

SignOut(m) == \E gone \in SUBSET accounts[m].open :
    accounts' = [accounts EXCEPT ![m].open = @ \ gone, ![m].ended = @ \cup gone]

\* time ends every session there is
Lapse == accounts' = [m \in Members |->
    [accounts[m] EXCEPT !.open = {}, !.ended = @ \cup accounts[m].open]]

Change(m) == Activate(m) \/ Rule(m) \/ Enrol(m) \/ Retire(m) \/ SignIn(m) \/ SignOut(m)

Next == Lapse \/ \E m \in Members : Change(m)

Spec == Init /\ [][Next]_accounts

TypeOK == accounts \in [Members ->
    [standing : {"PENDING_ENROLLMENT", "ACTIVE", "SUSPENDED", "DEACTIVATED"},
     keys : SUBSET Devices, retired : SUBSET Devices,
     open : SUBSET SignIns, ended : SUBSET SignIns]]

\* What the rest of the system can rely on: an ACTIVE member has enrolled a
\* passkey; a passkey is one member's, and trusted or retired but never both;
\* a session is one sign-in of one member, with a passkey of that member's own.
Sound ==
    /\ \A m \in Members :
          /\ accounts[m].standing = "ACTIVE" => Passkeys(m) # {}
          /\ accounts[m].keys \cap accounts[m].retired = {}
          /\ accounts[m].open \cap accounts[m].ended = {}
          /\ \A s \in SignedIn(m) : s.device \in Passkeys(m)
    /\ \A m, n \in Members :
          /\ m # n => Passkeys(m) \cap Passkeys(n) = {}
          /\ \A x \in SignedIn(m), y \in SignedIn(n) :
                x.session = y.session => m = n /\ x = y
=============================================================================
