---------------------- MODULE DeviceTrustAccountsProofs ----------------------
(***************************************************************************)
(* DeviceTrust implements MemberAccounts: every step, whatever documents   *)
(* it writes, changes the account of one member in one of the ways that    *)
(* module allows, or changes none.  There is a lemma for each way, and one *)
(* for each field of an account that a step may leave alone; what a        *)
(* handler has read (Inv) says whose account it is.                        *)
(* What the accounts promise (Sound) is proved of them alone and, by the   *)
(* refinement, holds of the documents.                                     *)
(***************************************************************************)
EXTENDS DeviceTrustBarProofs

AccountsStep == [Accounts!Next]_Accounted

\* the sets of an account
Keys(m)    == {d \in Devices : Enrols(d, m) /\ devices[d].state = "ACTIVE"}
Retired(m) == {d \in Devices : Enrols(d, m) /\ devices[d].state = "REVOKED"}
Open(m)    == SignInsOf(m, "valid")
Ended(m)   == SignInsOf(m, "spent")

LEMMA Fields ==
  ASSUME NEW m
  PROVE  /\ Account(m).standing = status[m]
         /\ Account(m).keys = Keys(m) /\ Account(m).retired = Retired(m)
         /\ Account(m).open = Open(m) /\ Account(m).ended = Ended(m)
         /\ Account(m) = [standing |-> status[m], keys |-> Keys(m), retired |-> Retired(m),
                          open |-> Open(m), ended |-> Ended(m)]
         /\ Account(m)' = [standing |-> status'[m], keys |-> Keys(m)', retired |-> Retired(m)',
                           open |-> Open(m)', ended |-> Ended(m)']
  BY DEF Account, Keys, Retired, Open, Ended

LEMMA DevicesAlone ==
  ASSUME devices' = devices, NEW m
  PROVE  Keys(m)' = Keys(m) /\ Retired(m)' = Retired(m)
  BY DEF Keys, Retired, Enrols

LEMMA SessionsAlone ==
  ASSUME sessions' = sessions, NEW m
  PROVE  Open(m)' = Open(m) /\ Ended(m)' = Ended(m)
  BY DEF Open, Ended, SignInsOf

\* a step that changes no account
LEMMA Stutters ==
  ASSUME \A m \in Members : /\ status'[m] = status[m]
                            /\ Keys(m)' = Keys(m) /\ Retired(m)' = Retired(m)
                            /\ Open(m)' = Open(m) /\ Ended(m)' = Ended(m)
  PROVE  AccountsStep
<1>1. \A m \in Members : Account(m)' = Account(m)
  BY Fields
<1>2. Accounted' = Accounted
  BY <1>1 DEF Accounted
<1> QED BY <1>2 DEF AccountsStep

\* a step that changes one account
LEMMA OneAccount ==
  ASSUME NEW m \in Members, NEW a, Account(m)' = a,
         \A n \in Members \ {m} : /\ status'[n] = status[n]
                                  /\ Keys(n)' = Keys(n) /\ Retired(n)' = Retired(n)
                                  /\ Open(n)' = Open(n) /\ Ended(n)' = Ended(n)
  PROVE  Accounted' = [Accounted EXCEPT ![m] = a]
<1>1. \A n \in Members \ {m} : Account(n)' = Account(n)
  BY Fields
<1> QED BY <1>1 DEF Accounted

LEMMA InPasskeys ==
  ASSUME Inv, NEW m \in Members
  PROVE  /\ Accounts!Passkeys(m) = Keys(m) \cup Retired(m)
         /\ \A d \in Devices : d \in Accounts!Passkeys(m) <=> Enrols(d, m)
<1>1. Accounted[m] = Account(m)
  BY DEF Accounted
<1>2. Accounts!Passkeys(m) = Keys(m) \cup Retired(m)
  BY <1>1, Fields DEF Accounts!Passkeys
<1>3. \A d \in Devices : d \in Keys(m) \cup Retired(m) <=> Enrols(d, m)
  BY DEF Keys, Retired, Enrols, Inv, TypeOK, DeviceType
<1> QED BY <1>2, <1>3

----------------------------------------------------------------------------
(* Standing                                                                *)

LEMMA StandingStep ==
  ASSUME Inv, NEW m \in Members, NEW st \in Statuses, status' = [status EXCEPT ![m] = st],
         UNCHANGED <<devices, sessions>>,
         st = "ACTIVE" => \E d \in Devices : Enrols(d, m)
  PROVE  AccountsStep
<1>1. status'[m] = st /\ \A n \in Members \ {m} : status'[n] = status[n]
  BY DEF Inv, TypeOK
<1>2. Account(m)' = [Account(m) EXCEPT !.standing = st]
  <2>1. /\ Keys(m)' = Keys(m) /\ Retired(m)' = Retired(m)
        /\ Open(m)' = Open(m) /\ Ended(m)' = Ended(m)
    BY DevicesAlone, SessionsAlone
  <2>2. Account(m)' = [standing |-> st, keys |-> Keys(m), retired |-> Retired(m),
                       open |-> Open(m), ended |-> Ended(m)]
    BY <1>1, <2>1, Fields
  <2>3. Account(m) = [standing |-> status[m], keys |-> Keys(m), retired |-> Retired(m),
                      open |-> Open(m), ended |-> Ended(m)]
    BY Fields
  <2> QED BY <2>2, <2>3
<1>3. Accounted' = [Accounted EXCEPT ![m] = [Account(m) EXCEPT !.standing = st]]
  BY <1>1, <1>2, OneAccount, DevicesAlone, SessionsAlone
<1>4. Accounted' = [Accounted EXCEPT ![m].standing = st]
  BY <1>3 DEF Accounted
<1>5. CASE st = "ACTIVE"
  <2>1. Accounts!Passkeys(m) # {}
    BY <1>5, InPasskeys
  <2>2. Accounts!Activate(m)
    BY <1>4, <1>5, <2>1 DEF Accounts!Activate
  <2> QED BY <2>2 DEF AccountsStep, Accounts!Next, Accounts!Change
<1>6. CASE st # "ACTIVE"
  <2>1. Accounts!Rule(m)
    BY <1>4, <1>6 DEF Accounts!Rule, Statuses
  <2> QED BY <2>1 DEF AccountsStep, Accounts!Next, Accounts!Change
<1> QED BY <1>5, <1>6
----------------------------------------------------------------------------
(* Passkeys                                                                *)

\* one edit of an account
LEMMA KeysEdited ==
  ASSUME NEW m \in Members, NEW x, NEW y
  PROVE  /\ [Account(m) EXCEPT !.keys = x] =
              [standing |-> status[m], keys |-> x, retired |-> Retired(m),
               open |-> Open(m), ended |-> Ended(m)]
         /\ [Account(m) EXCEPT !.retired = y] =
              [standing |-> status[m], keys |-> Keys(m), retired |-> y,
               open |-> Open(m), ended |-> Ended(m)]
<1>1. PICK a : a = Account(m)
  OBVIOUS
<1>2. PICK s, k, r, o, e : s = status[m] /\ k = Keys(m) /\ r = Retired(m) /\ o = Open(m) /\ e = Ended(m)
  OBVIOUS
<1>3. a = [standing |-> s, keys |-> k, retired |-> r, open |-> o, ended |-> e]
  BY <1>1, <1>2, Fields
<1>4. [a EXCEPT !.keys = x] = [standing |-> s, keys |-> x, retired |-> r, open |-> o, ended |-> e]
  BY <1>3
<1>5. [a EXCEPT !.retired = y] = [standing |-> s, keys |-> k, retired |-> y, open |-> o, ended |-> e]
  BY <1>3
<1> QED BY <1>1, <1>2, <1>4, <1>5

\* a step that writes passkeys of one member
LEMMA PasskeysStep ==
  ASSUME NEW m \in Members, UNCHANGED <<status, sessions>>,
         \A d \in Devices : devices'[d] = devices[d] \/ (devices[d].member = m /\ devices'[d].member = m)
  PROVE  Accounted' = [Accounted EXCEPT ![m] =
             [standing |-> status[m], keys |-> Keys(m)', retired |-> Retired(m)',
              open |-> Open(m), ended |-> Ended(m)]]
<1>1. \A n \in Members \ {m} : Keys(n)' = Keys(n) /\ Retired(n)' = Retired(n)
  BY DEF Keys, Retired, Enrols
<1>2. \A n \in Members : Open(n)' = Open(n) /\ Ended(n)' = Ended(n)
  BY SessionsAlone
<1>3. Account(m)' = [standing |-> status[m], keys |-> Keys(m)', retired |-> Retired(m)',
                     open |-> Open(m), ended |-> Ended(m)]
  BY <1>2, Fields
<1>4. PICK a : a = Account(m)'
  OBVIOUS
<1>5. Accounted' = [Accounted EXCEPT ![m] = a]
  BY <1>1, <1>2, <1>4, OneAccount
<1> QED BY <1>3, <1>4, <1>5

LEMMA EnrolStep ==
  ASSUME Inv, NEW p \in Handlers, RegCreateCredential(p)
  PROVE  AccountsStep
<1>0. PICK e, m, c : e = loc[p].device /\ m = loc[p].member /\ c = loc[p].chal
  OBVIOUS
<1>1. /\ e \in Devices /\ devices[e].state # "none" /\ devices[e].member = m
      /\ m \in Members /\ c \in Challenges /\ UNCHANGED <<status, sessions>>
  BY <1>0 DEF Inv, Knows, RegCreateCredential, GoOnIf, Registering, RegHasDevice
<1>2. CASE devices' = devices
  BY <1>1, <1>2, Stutters, DevicesAlone, SessionsAlone
<1>3. CASE devices' = [devices EXCEPT ![e].cred = c]
  <2>2. c # None
    BY <1>1, IdsAssumption, BoundsAssumption DEF Challenges
  <2>3. /\ devices'[e].cred = c /\ devices'[e].state = devices[e].state
        /\ devices'[e].member = devices[e].member
        /\ \A d \in Devices \ {e} : devices'[d] = devices[d]
    BY <1>1, <1>3 DEF Inv, TypeOK, DeviceType
  <2>4. CASE devices[e].cred # None
    <3>1. \A n, d : Enrols(d, n)' <=> Enrols(d, n)
      BY <1>1, <2>2, <2>3, <2>4 DEF Enrols
    <3>2. \A n : Keys(n)' = Keys(n) /\ Retired(n)' = Retired(n)
      BY <2>3, <3>1 DEF Keys, Retired
    <3> QED BY <1>1, <3>2, Stutters, SessionsAlone
  <2>5. CASE devices[e].cred = None
    <3>0. \A d \in Devices : /\ devices'[d].state = devices[d].state
                             /\ Enrols(d, m)' <=> (Enrols(d, m) \/ d = e)
      <4> SUFFICES ASSUME NEW d \in Devices
                   PROVE  /\ devices'[d].state = devices[d].state
                          /\ Enrols(d, m)' <=> (Enrols(d, m) \/ d = e)
        OBVIOUS
      <4>1. CASE d = e
        BY <1>1, <2>2, <2>3, <4>1 DEF Enrols
      <4>2. CASE d # e
        BY <2>3, <4>2 DEF Enrols
      <4> QED BY <4>1, <4>2
    <3>1. e \in Devices \ Accounts!Taken
      <4>1. \A n \in Members : e \notin Accounts!Passkeys(n)
        BY <1>1, <2>5, InPasskeys DEF Enrols
      <4> QED BY <1>1, <4>1 DEF Accounts!Taken
    <3>2. Accounted' = [Accounted EXCEPT ![m] =
              [standing |-> status[m], keys |-> Keys(m)', retired |-> Retired(m)',
               open |-> Open(m), ended |-> Ended(m)]]
      <4>1. \A d \in Devices : devices'[d] = devices[d] \/ (devices[d].member = m /\ devices'[d].member = m)
        BY <1>1, <2>3
      <4>2. m \in Members /\ UNCHANGED <<status, sessions>>
        BY <1>1
      <4> QED BY <4>1, <4>2, PasskeysStep
    <3>3. CASE devices[e].state = "ACTIVE"
      <4>1. Keys(m)' = Keys(m) \cup {e}
        BY <1>1, <3>0, <3>3 DEF Keys
      <4>2. Retired(m)' = Retired(m)
        BY <1>1, <3>0, <3>3 DEF Retired
      <4>3. m \in Members /\ e \in Devices \ Accounts!Taken
        BY <1>1, <3>1
      <4>4. Accounted' = [Accounted EXCEPT ![m] = [Account(m) EXCEPT !.keys = Keys(m) \cup {e}]]
        BY <3>2, <4>1, <4>2, <4>3, KeysEdited
      <4>5. Accounted' = [Accounted EXCEPT ![m].keys = @ \cup {e}]
        BY <4>3, <4>4, Fields DEF Accounted
      <4>6. Accounts!Enrol(m)
        BY <4>3, <4>5 DEF Accounts!Enrol
      <4> QED BY <4>3, <4>6 DEF AccountsStep, Accounts!Next, Accounts!Change
    <3>4. CASE devices[e].state = "REVOKED"
      <4>1. Keys(m)' = Keys(m)
        BY <1>1, <3>0, <3>4 DEF Keys
      <4>2. Retired(m)' = Retired(m) \cup {e}
        BY <1>1, <3>0, <3>4 DEF Retired
      <4>3. m \in Members /\ e \in Devices \ Accounts!Taken
        BY <1>1, <3>1
      <4>4. Accounted' = [Accounted EXCEPT ![m] = [Account(m) EXCEPT !.retired = Retired(m) \cup {e}]]
        BY <3>2, <4>1, <4>2, <4>3, KeysEdited
      <4>5. Accounted' = [Accounted EXCEPT ![m].retired = @ \cup {e}]
        BY <4>3, <4>4, Fields DEF Accounted
      <4>6. Accounts!Enrol(m)
        BY <4>3, <4>5 DEF Accounts!Enrol
      <4> QED BY <4>3, <4>6 DEF AccountsStep, Accounts!Next, Accounts!Change
    <3> QED BY <1>1, <3>3, <3>4 DEF Inv, TypeOK, DeviceType
  <2> QED BY <2>4, <2>5
<1> QED BY <1>0, <1>2, <1>3 DEF RegCreateCredential

\* a step that revokes passkeys of one member
LEMMA RetireStep ==
  ASSUME Inv, NEW m \in Members, UNCHANGED <<status, sessions>>,
         \A d \in Devices : \/ devices'[d] = devices[d]
                            \/ /\ devices[d].member = m /\ devices'[d].member = m
                               /\ devices[d].state # "none" /\ devices'[d].state = "REVOKED"
                               /\ devices'[d].cred = devices[d].cred
  PROVE  AccountsStep
<1>1. PICK gone : gone = {d \in Keys(m) : devices'[d].state = "REVOKED"}
  OBVIOUS
<1>2. \A d \in Devices : Enrols(d, m)' <=> Enrols(d, m)
  BY DEF Enrols
<1>3. \A d \in Devices : devices[d].state \in {"none", "ACTIVE", "REVOKED"}
  BY DEF Inv, TypeOK, DeviceType
<1>4. Keys(m)' = Keys(m) \ gone
  BY <1>1, <1>2 DEF Keys
<1>5. Retired(m)' = Retired(m) \cup gone
  <2>1. Retired(m)' \subseteq Retired(m) \cup gone
    <3> SUFFICES ASSUME NEW d \in Devices, Enrols(d, m)', devices'[d].state = "REVOKED"
                 PROVE  d \in Retired(m) \cup gone
      BY DEF Retired
    <3> QED BY <1>1, <1>2, <1>3 DEF Keys, Retired, Enrols
  <2>2. Retired(m) \cup gone \subseteq Retired(m)'
    BY <1>1, <1>2 DEF Keys, Retired
  <2> QED BY <2>1, <2>2
<1>6. Accounted' = [Accounted EXCEPT ![m] =
          [standing |-> status[m], keys |-> Keys(m) \ gone, retired |-> Retired(m) \cup gone,
           open |-> Open(m), ended |-> Ended(m)]]
  BY <1>4, <1>5, PasskeysStep
<1>7. PICK a, x, y : a = Account(m) /\ x = Keys(m) \ gone /\ y = Retired(m) \cup gone
  OBVIOUS
<1>8. Accounted' = [Accounted EXCEPT ![m] = [[a EXCEPT !.keys = x] EXCEPT !.retired = y]]
  <2>1. PICK s, r, o, e : s = status[m] /\ r = Retired(m) /\ o = Open(m) /\ e = Ended(m)
    OBVIOUS
  <2>2. [a EXCEPT !.keys = x] = [standing |-> s, keys |-> x, retired |-> r, open |-> o, ended |-> e]
    BY <1>7, <2>1, KeysEdited
  <2>3. [[standing |-> s, keys |-> x, retired |-> r, open |-> o, ended |-> e] EXCEPT !.retired = y] =
        [standing |-> s, keys |-> x, retired |-> y, open |-> o, ended |-> e]
    OBVIOUS
  <2>4. Accounted' = [Accounted EXCEPT ![m] =
            [standing |-> s, keys |-> x, retired |-> y, open |-> o, ended |-> e]]
    BY <1>6, <1>7, <2>1
  <2> QED BY <2>2, <2>3, <2>4
<1>9. /\ Accounted = [n \in Members |-> Accounted[n]] /\ Accounted[m] = a
      /\ Accounted[m].keys = Keys(m) /\ Accounted[m].retired = Retired(m)
  BY <1>7, Fields DEF Accounted
<1>10. Accounted' = [Accounted EXCEPT ![m].keys = x, ![m].retired = y]
  BY <1>8, <1>9
<1>11. Accounted' = [Accounted EXCEPT ![m].keys = @ \ gone, ![m].retired = @ \cup gone]
  BY <1>7, <1>9, <1>10
<1>12. Accounts!Retire(m)
  BY <1>1, <1>9, <1>11 DEF Accounts!Retire
<1> QED BY <1>12 DEF AccountsStep, Accounts!Next, Accounts!Change

LEMMA RemoveStep ==
  ASSUME Inv, NEW p \in Handlers, RemoveDevice(p)
  PROVE  AccountsStep
<1>1. PICK e, m : e = loc[p].device /\ m = devices[e].member
  OBVIOUS
<1>2. pc[p] \in Gated
  BY DEF RemoveDevice, Goto, Gated
<1>3. Enrols(e, m) /\ m \in Members
  BY <1>1, <1>2 DEF Inv, Knows, Owned, Enrols
<1>4. devices' = [devices EXCEPT ![e].state = "REVOKED"] /\ UNCHANGED <<status, sessions>>
  BY <1>1 DEF RemoveDevice
<1>5. \A d \in Devices : \/ devices'[d] = devices[d]
                         \/ /\ devices[d].member = m /\ devices'[d].member = m
                            /\ devices[d].state # "none" /\ devices'[d].state = "REVOKED"
                            /\ devices'[d].cred = devices[d].cred
  BY <1>1, <1>3, <1>4 DEF Inv, TypeOK, DeviceType, Enrols
<1> QED BY <1>3, <1>4, <1>5, RetireStep

LEMMA RevokeDevicesStep ==
  ASSUME Inv, NEW p \in Handlers, RevokeMemberDevices(p)
  PROVE  AccountsStep
<1>1. PICK m : m = loc[p].member
  OBVIOUS
<1>2. m \in Members /\ UNCHANGED <<status, sessions>>
  BY <1>1 DEF Inv, Knows, RevokeMemberDevices, Goto
<1>3. devices' = [d \in Devices |->
                    IF devices[d].state = "ACTIVE" /\ devices[d].member = m
                    THEN [devices[d] EXCEPT !.state = "REVOKED"] ELSE devices[d]]
  BY <1>1 DEF RevokeMemberDevices
<1>4. \A d \in Devices : \/ devices'[d] = devices[d]
                         \/ /\ devices[d].member = m /\ devices'[d].member = m
                            /\ devices[d].state # "none" /\ devices'[d].state = "REVOKED"
                            /\ devices'[d].cred = devices[d].cred
  BY <1>3 DEF Inv, TypeOK, DeviceType
<1> QED BY <1>2, <1>4, RetireStep

----------------------------------------------------------------------------
(* Sign-ins                                                                *)

LEMMA SignInsEdited ==
  ASSUME NEW m \in Members, NEW x
  PROVE  [Account(m) EXCEPT !.open = x] =
           [standing |-> status[m], keys |-> Keys(m), retired |-> Retired(m),
            open |-> x, ended |-> Ended(m)]
<1>1. PICK a : a = Account(m)
  OBVIOUS
<1>2. PICK s, k, r, o, e : s = status[m] /\ k = Keys(m) /\ r = Retired(m) /\ o = Open(m) /\ e = Ended(m)
  OBVIOUS
<1>3. a = [standing |-> s, keys |-> k, retired |-> r, open |-> o, ended |-> e]
  BY <1>1, <1>2, Fields
<1>4. [a EXCEPT !.open = x] = [standing |-> s, keys |-> k, retired |-> r, open |-> x, ended |-> e]
  BY <1>3
<1> QED BY <1>1, <1>2, <1>4

\* a step that writes sessions of one member
LEMMA SignInsStep ==
  ASSUME NEW m \in Members, UNCHANGED <<status, devices>>,
         \A s \in Sessions : \/ sessions'[s] = sessions[s]
                             \/ /\ sessions'[s].member = m
                                /\ sessions[s].state # "none" => sessions[s].member = m
  PROVE  Accounted' = [Accounted EXCEPT ![m] =
             [standing |-> status[m], keys |-> Keys(m), retired |-> Retired(m),
              open |-> Open(m)', ended |-> Ended(m)']]
<1>1. \A n \in Members \ {m} : Open(n)' = Open(n) /\ Ended(n)' = Ended(n)
  <2> SUFFICES ASSUME NEW n \in Members \ {m}
               PROVE  Open(n)' = Open(n) /\ Ended(n)' = Ended(n)
    OBVIOUS
  <2>1. \A s \in Sessions, st \in {"valid", "spent"} :
            sessions'[s] = sessions[s] \/ (sessions'[s].member # n /\ (sessions[s].state = st => sessions[s].member # n))
    OBVIOUS
  <2>2. \A x \in SignIns : x.session \in Sessions
    BY DEF SignIns
  <2>3. Open(n)' = Open(n)
    BY <2>1, <2>2 DEF Open, SignInsOf
  <2>4. Ended(n)' = Ended(n)
    BY <2>1, <2>2 DEF Ended, SignInsOf
  <2> QED BY <2>3, <2>4
<1>2. \A n \in Members : Keys(n)' = Keys(n) /\ Retired(n)' = Retired(n)
  BY DevicesAlone
<1>3. Account(m)' = [standing |-> status[m], keys |-> Keys(m), retired |-> Retired(m),
                     open |-> Open(m)', ended |-> Ended(m)']
  BY <1>2, Fields
<1>4. PICK a : a = Account(m)'
  OBVIOUS
<1>5. Accounted' = [Accounted EXCEPT ![m] = a]
  BY <1>1, <1>2, <1>4, OneAccount
<1> QED BY <1>3, <1>4, <1>5

\* a step that ends sessions of one member
LEMMA SignOutStep ==
  ASSUME Inv, NEW m \in Members, UNCHANGED <<status, devices>>,
         \A s \in Sessions : \/ sessions'[s] = sessions[s]
                             \/ /\ sessions[s].member = m /\ sessions'[s].member = m
                                /\ sessions[s].state # "none" /\ sessions'[s].state = "spent"
                                /\ sessions'[s].device = sessions[s].device
  PROVE  AccountsStep
<1>1. PICK gone : gone = {x \in Open(m) : sessions'[x.session].state = "spent"}
  OBVIOUS
<1>2. \A x \in SignIns : x.session \in Sessions
  BY DEF SignIns
<1>3. \A s \in Sessions : sessions[s].state \in {"none", "valid", "spent"}
  BY DEF Inv, TypeOK, SessionType
<1>4. Open(m)' = Open(m) \ gone
  BY <1>1, <1>2, <1>3 DEF Open, SignInsOf
<1>5. Ended(m)' = Ended(m) \cup gone
  <2>1. Ended(m)' \subseteq Ended(m) \cup gone
    BY <1>1, <1>2, <1>3 DEF Open, Ended, SignInsOf
  <2>2. Ended(m) \cup gone \subseteq Ended(m)'
    BY <1>1, <1>2, <1>3 DEF Open, Ended, SignInsOf
  <2> QED BY <2>1, <2>2
<1>6. PICK a, x, y : a = Account(m) /\ x = Open(m) \ gone /\ y = Ended(m) \cup gone
  OBVIOUS
<1>7. Accounted' = [Accounted EXCEPT ![m] =
          [standing |-> status[m], keys |-> Keys(m), retired |-> Retired(m), open |-> x, ended |-> y]]
  BY <1>4, <1>5, <1>6, SignInsStep
<1>8. Accounted' = [Accounted EXCEPT ![m] = [[a EXCEPT !.open = x] EXCEPT !.ended = y]]
  <2>1. PICK s, k, r, e : s = status[m] /\ k = Keys(m) /\ r = Retired(m) /\ e = Ended(m)
    OBVIOUS
  <2>2. [a EXCEPT !.open = x] = [standing |-> s, keys |-> k, retired |-> r, open |-> x, ended |-> e]
    BY <1>6, <2>1, SignInsEdited
  <2>3. [[standing |-> s, keys |-> k, retired |-> r, open |-> x, ended |-> e] EXCEPT !.ended = y] =
        [standing |-> s, keys |-> k, retired |-> r, open |-> x, ended |-> y]
    OBVIOUS
  <2>4. Accounted' = [Accounted EXCEPT ![m] =
            [standing |-> s, keys |-> k, retired |-> r, open |-> x, ended |-> y]]
    BY <1>7, <2>1
  <2> QED BY <2>2, <2>3, <2>4
<1>9. /\ Accounted = [n \in Members |-> Accounted[n]] /\ Accounted[m] = a
      /\ Accounted[m].open = Open(m) /\ Accounted[m].ended = Ended(m)
  BY <1>6, Fields DEF Accounted
<1>10. Accounted' = [Accounted EXCEPT ![m].open = x, ![m].ended = y]
  BY <1>8, <1>9
<1>11. Accounted' = [Accounted EXCEPT ![m].open = @ \ gone, ![m].ended = @ \cup gone]
  BY <1>6, <1>9, <1>10
<1>12. Accounts!SignOut(m)
  BY <1>1, <1>9, <1>11 DEF Accounts!SignOut
<1> QED BY <1>12 DEF AccountsStep, Accounts!Next, Accounts!Change

LEMMA SignInStep ==
  ASSUME Inv, NEW p \in Handlers, NewSession(p)
  PROVE  AccountsStep
<1>1. PICK s \in FreshSession : sessions' = [sessions EXCEPT ![s] =
          [state |-> "valid", member |-> loc[p].member, device |-> loc[p].device]]
  BY DEF NewSession
<1>2. PICK m, d, new : m = loc[p].member /\ d = loc[p].device /\ new = [session |-> s, device |-> d]
  OBVIOUS
<1>3. pc[p] \in {"reg_session", "login_session"} /\ UNCHANGED <<status, devices>>
  BY DEF NewSession, Goto
<1>4. m \in Members /\ Enrols(d, m)
  BY <1>2, <1>3 DEF Inv, Knows, RegHasPasskey, RegHasDevice, LoggingIn
<1>5. new \in SignIns /\ new.session = s /\ new.device = d
  BY <1>1, <1>2, <1>4 DEF SignIns, Enrols, FreshSession
<1>6. /\ s \in Sessions /\ sessions[s].state = "none"
      /\ sessions'[s].state = "valid" /\ sessions'[s].member = m /\ sessions'[s].device = d
      /\ \A z \in Sessions \ {s} : sessions'[z] = sessions[z]
  BY <1>1, <1>2 DEF FreshSession, Inv, TypeOK
<1>7. \A x \in SignIns : x.session \in Sessions /\ (x.session = s /\ x.device = d => x = new)
  BY <1>2 DEF SignIns
<1>8. Open(m)' = Open(m) \cup {new}
  <2>1. Open(m)' \subseteq Open(m) \cup {new}
    <3> SUFFICES ASSUME NEW x \in Open(m)' PROVE x \in Open(m) \cup {new}
      OBVIOUS
    <3>1. /\ x \in SignIns /\ sessions'[x.session].state = "valid"
          /\ sessions'[x.session].member = m /\ sessions'[x.session].device = x.device
      BY DEF Open, SignInsOf
    <3>2. CASE x.session = s
      BY <1>6, <1>7, <3>1, <3>2
    <3>3. CASE x.session # s
      <4>1. sessions'[x.session] = sessions[x.session]
        BY <1>6, <1>7, <3>1, <3>3
      <4> QED BY <3>1, <4>1 DEF Open, SignInsOf
    <3> QED BY <3>2, <3>3
  <2>2. Open(m) \cup {new} \subseteq Open(m)'
    <3>1. new \in Open(m)'
      BY <1>5, <1>6 DEF Open, SignInsOf
    <3>2. ASSUME NEW x \in Open(m) PROVE x \in Open(m)'
      <4>1. /\ x \in SignIns /\ sessions[x.session].state = "valid"
            /\ sessions[x.session].member = m /\ sessions[x.session].device = x.device
        BY <3>2 DEF Open, SignInsOf
      <4>2. sessions'[x.session] = sessions[x.session]
        BY <1>6, <1>7, <4>1
      <4> QED BY <4>1, <4>2 DEF Open, SignInsOf
    <3> QED BY <3>1, <3>2
  <2> QED BY <2>1, <2>2
<1>9. Ended(m)' = Ended(m)
  BY <1>6, <1>7 DEF Ended, SignInsOf
<1>10. Accounted' = [Accounted EXCEPT ![m] = [Account(m) EXCEPT !.open = Open(m) \cup {new}]]
  <2>1. PICK x : x = Open(m) \cup {new}
    OBVIOUS
  <2>2. \A z \in Sessions : \/ sessions'[z] = sessions[z]
                            \/ /\ sessions'[z].member = m
                               /\ sessions[z].state # "none" => sessions[z].member = m
    BY <1>6
  <2>3. Accounted' = [Accounted EXCEPT ![m] =
            [standing |-> status[m], keys |-> Keys(m), retired |-> Retired(m),
             open |-> Open(m)', ended |-> Ended(m)']]
    BY <1>3, <1>4, <2>2, SignInsStep
  <2>4. Accounted' = [Accounted EXCEPT ![m] =
            [standing |-> status[m], keys |-> Keys(m), retired |-> Retired(m),
             open |-> x, ended |-> Ended(m)]]
    BY <1>8, <1>9, <2>1, <2>3
  <2>5. Accounted' = [Accounted EXCEPT ![m] = [Account(m) EXCEPT !.open = x]]
    BY <1>4, <2>4, SignInsEdited
  <2> QED BY <2>1, <2>5
<1>11. Accounted' = [Accounted EXCEPT ![m].open = @ \cup {new}]
  BY <1>4, <1>10, Fields DEF Accounted
<1>12. \A x \in Accounts!Begun : x.session # new.session
  <2>1. \A n \in Members : /\ Accounted[n].open = Open(n) /\ Accounted[n].ended = Ended(n)
    BY Fields DEF Accounted
  <2>2. \A n \in Members : \A x \in Open(n) \cup Ended(n) : x.session # s
    BY <1>6 DEF Open, Ended, SignInsOf
  <2> QED BY <1>5, <2>1, <2>2 DEF Accounts!Begun, Accounts!SignedIn
<1>13. new.device \in Accounts!Passkeys(m)
  BY <1>4, <1>5, InPasskeys DEF Enrols
<1>14. new \in Accounts!SignIns
  BY <1>5 DEF SignIns, Accounts!SignIns
<1>15. Accounts!SignIn(m)
  BY <1>11, <1>12, <1>13, <1>14 DEF Accounts!SignIn
<1> QED BY <1>4, <1>15 DEF AccountsStep, Accounts!Next, Accounts!Change

\* a device's sessions are its owner's (SessionBacked)
LEMMA RemoveSessionsStep ==
  ASSUME Inv, NEW p \in Handlers, RemoveSessions(p)
  PROVE  AccountsStep
<1>1. PICK e, m : e = loc[p].device /\ m = devices[e].member
  OBVIOUS
<1>2. Enrols(e, m) /\ m \in Members /\ UNCHANGED <<status, devices>>
  BY <1>1 DEF RemoveSessions, Gated, Inv, Knows, Owned, Enrols
<1>3. sessions' = [s \in Sessions |-> IF sessions[s].device = e /\ sessions[s].state = "valid"
                                      THEN [sessions[s] EXCEPT !.state = "spent"]
                                      ELSE sessions[s]]
  BY <1>1 DEF RemoveSessions, RevokeSessionsIn
<1>4. \A s \in Sessions : sessions[s].device = e /\ sessions[s].state # "none" => sessions[s].member = m
  BY <1>1 DEF Inv, SessionBacked, Enrols
<1>5. \A s \in Sessions : \/ sessions'[s] = sessions[s]
                          \/ /\ sessions[s].member = m /\ sessions'[s].member = m
                             /\ sessions[s].state # "none" /\ sessions'[s].state = "spent"
                             /\ sessions'[s].device = sessions[s].device
  BY <1>3, <1>4 DEF Inv, TypeOK, SessionType
<1> QED BY <1>2, <1>5, SignOutStep

LEMMA RevokeSessionsStep ==
  ASSUME Inv, NEW p \in Handlers, RevokeMemberSessions(p)
  PROVE  AccountsStep
<1>1. PICK m : m = loc[p].member
  OBVIOUS
<1>2. m \in Members /\ UNCHANGED <<status, devices>>
  BY <1>1 DEF Inv, Knows, RevokeMemberSessions, Goto
<1>3. sessions' = [s \in Sessions |-> IF sessions[s].member = m /\ sessions[s].state = "valid"
                                      THEN [sessions[s] EXCEPT !.state = "spent"]
                                      ELSE sessions[s]]
  BY <1>1 DEF RevokeMemberSessions, RevokeSessionsIn
<1>4. \A s \in Sessions : \/ sessions'[s] = sessions[s]
                          \/ /\ sessions[s].member = m /\ sessions'[s].member = m
                             /\ sessions[s].state # "none" /\ sessions'[s].state = "spent"
                             /\ sessions'[s].device = sessions[s].device
  BY <1>3 DEF Inv, TypeOK, SessionType
<1> QED BY <1>2, <1>4, SignOutStep

\* logout, or the expiry of one session
LEMMA OneSessionStep ==
  ASSUME Inv, NEW s \in Sessions, sessions[s].state # "none",
         sessions' = [sessions EXCEPT ![s].state = "spent"], UNCHANGED <<status, devices>>
  PROVE  AccountsStep
<1>1. PICK m : m = sessions[s].member
  OBVIOUS
<1>2. m \in Members
  BY <1>1 DEF Inv, Owned
<1>3. \A z \in Sessions : \/ sessions'[z] = sessions[z]
                          \/ /\ sessions[z].member = m /\ sessions'[z].member = m
                             /\ sessions[z].state # "none" /\ sessions'[z].state = "spent"
                             /\ sessions'[z].device = sessions[z].device
  BY <1>1 DEF Inv, TypeOK, SessionType
<1> QED BY <1>2, <1>3, SignOutStep

LEMMA LapseStep ==
  ASSUME Inv, MonthPasses
  PROVE  AccountsStep
<1>1. UNCHANGED <<status, devices>>
  BY DEF MonthPasses
<1>2. \A s \in Sessions : /\ sessions[s].state = "none" => sessions'[s] = sessions[s]
                          /\ sessions[s].state # "none" =>
                               /\ sessions'[s].state = "spent"
                               /\ sessions'[s].member = sessions[s].member
                               /\ sessions'[s].device = sessions[s].device
  BY DEF MonthPasses, Inv, TypeOK, SessionType
<1>3. \A s \in Sessions : sessions[s].state \in {"none", "valid", "spent"}
  BY DEF Inv, TypeOK, SessionType
<1>4. \A x \in SignIns : x.session \in Sessions
  BY DEF SignIns
<1>5. ASSUME NEW m \in Members
      PROVE  Account(m)' = [Accounted[m] EXCEPT !.open = {}, !.ended = @ \cup Accounted[m].open]
  <2>1. Open(m)' = {}
    BY <1>2, <1>3, <1>4 DEF Open, SignInsOf
  <2>2. Ended(m)' \subseteq Ended(m) \cup Open(m)
    BY <1>2, <1>3, <1>4 DEF Open, Ended, SignInsOf
  <2>3. Ended(m) \cup Open(m) \subseteq Ended(m)'
    BY <1>2, <1>3, <1>4 DEF Open, Ended, SignInsOf
  <2>4. Keys(m)' = Keys(m) /\ Retired(m)' = Retired(m) /\ status'[m] = status[m]
    BY <1>1, DevicesAlone
  <2>5. PICK a, s, k, r, o, e : /\ a = Account(m) /\ s = status[m] /\ k = Keys(m)
                                /\ r = Retired(m) /\ o = Open(m) /\ e = Ended(m)
    OBVIOUS
  <2>6. Account(m)' = [standing |-> s, keys |-> k, retired |-> r, open |-> {}, ended |-> e \cup o]
    BY <2>1, <2>2, <2>3, <2>4, <2>5, Fields
  <2>7. Accounted[m] = a /\ a.ended = e /\ a.open = o
    BY <2>5, Fields DEF Accounted
  <2>8. [a EXCEPT !.open = {}] = [standing |-> s, keys |-> k, retired |-> r, open |-> {}, ended |-> e]
    BY <2>5, SignInsEdited
  <2>9. [[standing |-> s, keys |-> k, retired |-> r, open |-> {}, ended |-> e] EXCEPT !.ended = e \cup o] =
        [standing |-> s, keys |-> k, retired |-> r, open |-> {}, ended |-> e \cup o]
    OBVIOUS
  <2>10. [a EXCEPT !.open = {}, !.ended = @ \cup a.open] = [[a EXCEPT !.open = {}] EXCEPT !.ended = e \cup o]
    BY <2>7
  <2> QED BY <2>6, <2>7, <2>8, <2>9, <2>10
<1>6. Accounts!Lapse
  BY <1>5 DEF Accounts!Lapse, Accounted
<1> QED BY <1>6 DEF AccountsStep, Accounts!Next

----------------------------------------------------------------------------
(* The refinement                                                          *)

LEMMA StandingNext ==
  ASSUME Inv, NEW p \in Handlers, Bar(p) \/ Reactivate(p) \/ RegActivate(p)
  PROVE  AccountsStep
<1>1. PICK m : m = loc[p].member
  OBVIOUS
<1>2. m \in Members /\ UNCHANGED <<devices, sessions>>
  BY <1>1 DEF Inv, Knows, Bar, Reactivate, RegActivate, Goto
<1>3. CASE Bar(p)
  <2>1. PICK st \in BarStatus : status' = [status EXCEPT ![m] = st]
    BY <1>1, <1>3 DEF Bar, BarStatus
  <2> QED BY <1>2, <2>1, StandingStep DEF Statuses, BarStatus
<1>4. CASE Reactivate(p)
  BY <1>1, <1>2, <1>4, StandingStep DEF Reactivate, Statuses
<1>5. CASE RegActivate(p)
  <2>1. Enrols(loc[p].device, m)
    BY <1>1, <1>5 DEF RegActivate, Goto, Inv, Knows, RegHasPasskey, RegHasDevice
  <2> QED BY <1>1, <1>2, <1>5, <2>1, StandingStep DEF RegActivate, Statuses, Enrols
<1> QED BY <1>3, <1>4, <1>5

LEMMA AccountsNext == Inv /\ [Next]_vars => AccountsStep
<1> SUFFICES ASSUME Inv, [Next]_vars PROVE AccountsStep
  OBVIOUS
<1>1. CASE status' # status
  BY <1>1, StatusWriters, StandingNext
<1>2. CASE status' = status
  <2>1. CASE UNCHANGED <<devices, sessions>>
    BY <1>2, <2>1, Stutters, DevicesAlone, SessionsAlone
  <2>2. ASSUME NEW p \in Handlers,
               RegCreateDevice(p) \/ RegCreateCredential(p) \/ NewSession(p) \/ RemoveDevice(p) \/ RemoveSessions(p)
               \/ RevokeSession(p) \/ RevokeMemberSessions(p) \/ RevokeMemberDevices(p)
        PROVE  AccountsStep
    <3>1. CASE RegCreateDevice(p)
      <4>1. PICK d \in FreshDevice : devices' = [devices EXCEPT ![d] =
                [state |-> "ACTIVE", member |-> loc[p].member, cred |-> None, ticket |-> loc[p].ticket]]
        BY <3>1 DEF RegCreateDevice
      <4>2. /\ devices[d].state = "none" /\ devices'[d].cred = None
            /\ \A e \in Devices \ {d} : devices'[e] = devices[e]
        BY <4>1 DEF FreshDevice, Inv, TypeOK
      <4>3. \A m : Keys(m)' = Keys(m) /\ Retired(m)' = Retired(m)
        BY <4>2 DEF Keys, Retired, Enrols
      <4> QED BY <1>2, <3>1, <4>3, Stutters, SessionsAlone DEF RegCreateDevice
    <3>2. CASE RevokeSession(p)
      BY <3>2, OneSessionStep DEF RevokeSession, Inv, Knows
    <3> QED BY <2>2, <3>1, <3>2, EnrolStep, SignInStep, RemoveStep, RemoveSessionsStep,
               RevokeSessionsStep, RevokeDevicesStep
  <2>3. CASE Expire
    <3>1. CASE sessions' = sessions
      BY <2>1, <2>3, <3>1 DEF Expire
    <3>2. CASE sessions' # sessions
      BY <2>3, <3>2, OneSessionStep DEF Expire
    <3> QED BY <3>1, <3>2
  <2>4. CASE MonthPasses
    BY <2>4, LapseStep
  <2>5. ASSUME NEW p \in Handlers,
               IssueTicket(p) \/ CreateRequest(p) \/ RegUseTicket(p) \/ RegCompleteRequest(p)
               \/ RegRespond(p) \/ Approve(p) \/ Reject(p)
        PROVE  UNCHANGED <<devices, sessions>>
    BY <2>5 DEF IssueTicket, CreateRequest, RegUseTicket, RegCompleteRequest, RegRespond, Approve,
       Reject, docs
  <2>6. DeleteStaleRequests => UNCHANGED <<devices, sessions>>
    BY DEF DeleteStaleRequests
  <2> QED BY <2>1, <2>2, <2>3, <2>4, <2>5, <2>6, Writers
<1> QED BY <1>1, <1>2

LEMMA AccountsInit == Init => Accounts!Init
<1> SUFFICES ASSUME Init, NEW m \in Members
             PROVE  Account(m) = [standing |-> IF m \in Enrolled THEN "ACTIVE" ELSE "PENDING_ENROLLMENT",
                                  keys |-> IF m \in Enrolled THEN {HomeDevice[m]} ELSE {},
                                  retired |-> {}, open |-> {}, ended |-> {}]
  BY DEF Accounts!Init, Accounted
<1>1. Open(m) = {} /\ Ended(m) = {}
  BY DEF Init, NoSession, Open, Ended, SignIns, SignInsOf
<1>2. ASSUME NEW d \in Devices
      PROVE  /\ Enrols(d, m) <=> (m \in Enrolled /\ d = HomeDevice[m])
             /\ devices[d].state # "REVOKED"
             /\ Enrols(d, m) => devices[d].state = "ACTIVE"
  <2>1. CASE \E n \in Enrolled : HomeDevice[n] = d
    <3>1. PICK n \in Enrolled : HomeDevice[n] = d
      BY <2>1
    <3>2. (CHOOSE x \in Enrolled : HomeDevice[x] = d) = n
      BY <3>1, EnrolledAssumption
    <3>3. devices[d] = [state |-> "ACTIVE", cred |-> 0, ticket |-> None, member |-> n]
      BY <2>1, <3>2 DEF Init
    <3>4. None # 0
      BY IdsAssumption
    <3> QED BY <3>1, <3>3, <3>4, EnrolledAssumption DEF Enrols
  <2>2. CASE ~ \E n \in Enrolled : HomeDevice[n] = d
    BY <2>2 DEF Init, NoDevice, Enrols
  <2> QED BY <2>1, <2>2
<1>3. Retired(m) = {}
  BY <1>2 DEF Retired
<1>4. Keys(m) = IF m \in Enrolled THEN {HomeDevice[m]} ELSE {}
  <2>1. CASE m \in Enrolled
    BY <1>2, <2>1, EnrolledAssumption DEF Keys
  <2>2. CASE m \notin Enrolled
    BY <1>2, <2>2 DEF Keys
  <2> QED BY <2>1, <2>2
<1>5. status[m] = IF m \in Enrolled THEN "ACTIVE" ELSE "PENDING_ENROLLMENT"
  BY DEF Init
<1> QED BY <1>1, <1>3, <1>4, <1>5, Fields

\* Enrolment, login, logout, device changes, suspensions and expiry, at the
\* same time and cut short anywhere, implement the accounts: every step of a
\* handler is a change of one member's account that MemberAccounts allows, or
\* none, and time ends sessions, nothing else.
THEOREM IsAccountsCorrect == Spec => IsAccounts
<1>1. Init => Accounts!Init
  BY AccountsInit
<1>2. Inv /\ [Next]_vars => [Accounts!Next]_Accounted
  BY AccountsNext DEF AccountsStep
<1> QED BY <1>1, <1>2, Invariance, PTL DEF Spec, IsAccounts, Accounts!Spec

----------------------------------------------------------------------------
(* What the accounts promise                                               *)

AccountsInv == Accounts!TypeOK /\ Accounts!Sound

\* the accounts as they start
LEMMA SoundInit == Accounts!Init => AccountsInv
<1> SUFFICES ASSUME Accounts!Init PROVE AccountsInv
  OBVIOUS
<1>1. PICK a : a = Accounted
  OBVIOUS
<1>2. a = [m \in Members |->
         [standing |-> IF m \in Enrolled THEN "ACTIVE" ELSE "PENDING_ENROLLMENT",
          keys |-> IF m \in Enrolled THEN {HomeDevice[m]} ELSE {},
          retired |-> {}, open |-> {}, ended |-> {}]]
  BY <1>1 DEF Accounts!Init
<1>3. \A m \in Members :
         /\ a[m].standing = IF m \in Enrolled THEN "ACTIVE" ELSE "PENDING_ENROLLMENT"
         /\ a[m].keys = IF m \in Enrolled THEN {HomeDevice[m]} ELSE {}
         /\ a[m].retired = {} /\ a[m].open = {} /\ a[m].ended = {}
  BY <1>2
<1>4. Accounts!TypeOK
  BY <1>1, <1>2, EnrolledAssumption DEF Accounts!TypeOK
<1>5. Accounts!Sound
  <2>1. \A m \in Members : /\ Accounts!Passkeys(m) = IF m \in Enrolled THEN {HomeDevice[m]} ELSE {}
                           /\ Accounts!SignedIn(m) = {}
    BY <1>1, <1>3 DEF Accounts!Passkeys, Accounts!SignedIn
  <2>2. \A m, n \in Members : m # n => Accounts!Passkeys(m) \cap Accounts!Passkeys(n) = {}
    BY <2>1, EnrolledAssumption
  <2>3. \A m \in Members : /\ a[m].standing = "ACTIVE" => Accounts!Passkeys(m) # {}
                           /\ a[m].keys \cap a[m].retired = {} /\ a[m].open \cap a[m].ended = {}
    BY <1>3, <2>1
  <2> QED BY <1>1, <2>1, <2>2, <2>3 DEF Accounts!Sound
<1> QED BY <1>4, <1>5 DEF AccountsInv

\* one account changes, and keeps the promises
LEMMA SoundStep ==
  ASSUME AccountsInv, NEW m \in Members, NEW b, NEW a, a = Accounted[m],
         Accounted' = [Accounted EXCEPT ![m] = b],
         b \in [standing : {"PENDING_ENROLLMENT", "ACTIVE", "SUSPENDED", "DEACTIVATED"},
                keys : SUBSET Devices, retired : SUBSET Devices,
                open : SUBSET Accounts!SignIns, ended : SUBSET Accounts!SignIns],
         a.keys \cup a.retired \subseteq b.keys \cup b.retired,
         \A d \in b.keys \cup b.retired : d \in a.keys \cup a.retired \/ d \notin Accounts!Taken,
         b.standing = "ACTIVE" => b.keys \cup b.retired # {},
         b.keys \cap b.retired = {}, b.open \cap b.ended = {},
         \A x \in b.open \cup b.ended :
             \/ x \in a.open \cup a.ended
             \/ /\ x.device \in a.keys \cup a.retired
                /\ \A y \in Accounts!Begun : y.session # x.session,
         \A x, y \in (b.open \cup b.ended) \ (a.open \cup a.ended) : x = y
  PROVE  AccountsInv'
<1>1. PICK f, g : f = Accounted /\ g = Accounted'
  OBVIOUS
<1>2. f \in [Members ->
    [standing : {"PENDING_ENROLLMENT", "ACTIVE", "SUSPENDED", "DEACTIVATED"},
     keys : SUBSET Devices, retired : SUBSET Devices,
     open : SUBSET Accounts!SignIns, ended : SUBSET Accounts!SignIns]]
  BY <1>1 DEF AccountsInv, Accounts!TypeOK
<1>3. g[m] = b /\ f[m] = a /\ \A n \in Members \ {m} : g[n] = f[n]
  BY <1>1, <1>2
<1>4. Accounts!TypeOK'
  BY <1>1, <1>2 DEF Accounts!TypeOK, Accounts!SignIns
<1>5. \A n \in Members : /\ Accounts!Passkeys(n) = f[n].keys \cup f[n].retired
                         /\ Accounts!Passkeys(n)' = g[n].keys \cup g[n].retired
                         /\ Accounts!SignedIn(n) = f[n].open \cup f[n].ended
                         /\ Accounts!SignedIn(n)' = g[n].open \cup g[n].ended
  BY <1>1 DEF Accounts!Passkeys, Accounts!SignedIn
<1>6. \A n \in Members :
          /\ g[n].standing = "ACTIVE" => Accounts!Passkeys(n)' # {}
          /\ g[n].keys \cap g[n].retired = {} /\ g[n].open \cap g[n].ended = {}
          /\ \A s \in Accounts!SignedIn(n)' : s.device \in Accounts!Passkeys(n)'
  <2>1. \A n \in Members \ {m} :
          /\ Accounts!Passkeys(n)' = Accounts!Passkeys(n) /\ Accounts!SignedIn(n)' = Accounts!SignedIn(n)
          /\ g[n] = f[n]
    <3>1. ASSUME NEW n \in Members \ {m}
          PROVE  /\ Accounts!Passkeys(n)' = Accounts!Passkeys(n)
                 /\ Accounts!SignedIn(n)' = Accounts!SignedIn(n) /\ g[n] = f[n]
      <4>1. g[n] = f[n]
        BY <1>3
      <4> QED BY <1>5, <4>1
    <3> QED BY <3>1
  <2>2. \A n \in Members \ {m} :
          /\ g[n].standing = "ACTIVE" => Accounts!Passkeys(n)' # {}
          /\ g[n].keys \cap g[n].retired = {} /\ g[n].open \cap g[n].ended = {}
          /\ \A s \in Accounts!SignedIn(n)' : s.device \in Accounts!Passkeys(n)'
    BY <1>1, <2>1 DEF AccountsInv, Accounts!Sound
  <2>3. \A s \in a.open \cup a.ended : s.device \in a.keys \cup a.retired
    BY <1>1, <1>3, <1>5 DEF AccountsInv, Accounts!Sound
  <2>4. \A s \in b.open \cup b.ended : s.device \in b.keys \cup b.retired
    BY <2>3
  <2> QED BY <1>3, <1>5, <2>2, <2>4
<1>7. \A n \in Members \ {m} : Accounts!Passkeys(n)' \cap Accounts!Passkeys(m)' = {}
  <2>1. \A n \in Members \ {m} : (f[n].keys \cup f[n].retired) \cap (a.keys \cup a.retired) = {}
    BY <1>1, <1>3, <1>5 DEF AccountsInv, Accounts!Sound
  <2>2. \A n \in Members : f[n].keys \cup f[n].retired \subseteq Accounts!Taken
    BY <1>5 DEF Accounts!Taken
  <2> QED BY <1>3, <1>5, <2>1, <2>2
<1>8. \A k, n \in Members : k # n => Accounts!Passkeys(k)' \cap Accounts!Passkeys(n)' = {}
  <2>1. \A k, n \in Members \ {m} : k # n => Accounts!Passkeys(k)' \cap Accounts!Passkeys(n)' = {}
    BY <1>3, <1>5 DEF AccountsInv, Accounts!Sound
  <2> QED BY <1>7, <2>1
<1>9. \A k, n \in Members : \A x \in Accounts!SignedIn(k)', y \in Accounts!SignedIn(n)' :
          x.session = y.session => k = n /\ x = y
  <2> SUFFICES ASSUME NEW k \in Members, NEW n \in Members, NEW x \in Accounts!SignedIn(k)',
                      NEW y \in Accounts!SignedIn(n)', x.session = y.session
               PROVE  k = n /\ x = y
    OBVIOUS
  <2>1. \A j \in Members : Accounts!SignedIn(j) \subseteq Accounts!Begun
    BY DEF Accounts!Begun
  <2>2. \A j \in Members : \A z \in Accounts!SignedIn(j)' :
            \/ z \in Accounts!SignedIn(j)
            \/ /\ j = m /\ z \in (b.open \cup b.ended) \ (a.open \cup a.ended)
               /\ \A w \in Accounts!Begun : w.session # z.session
    BY <1>3, <1>5
  <2>3. CASE x \in Accounts!SignedIn(k) /\ y \in Accounts!SignedIn(n)
    BY <2>3 DEF AccountsInv, Accounts!Sound
  <2>4. CASE x \notin Accounts!SignedIn(k)
    BY <2>1, <2>2, <2>4
  <2>5. CASE y \notin Accounts!SignedIn(n)
    BY <2>1, <2>2, <2>5
  <2> QED BY <2>3, <2>4, <2>5
<1>10. Accounts!Sound'
  BY <1>1, <1>6, <1>8, <1>9 DEF Accounts!Sound
<1> QED BY <1>4, <1>10 DEF AccountsInv

LEMMA SoundChange ==
  ASSUME AccountsInv, NEW m \in Members, Accounts!Change(m)
  PROVE  AccountsInv'
<1>1. PICK f : f = Accounted
  OBVIOUS
<1>2. PICK a : a = f[m]
  OBVIOUS
<1>3. /\ f = [n \in Members |-> f[n]]
      /\ a \in [standing : {"PENDING_ENROLLMENT", "ACTIVE", "SUSPENDED", "DEACTIVATED"},
                keys : SUBSET Devices, retired : SUBSET Devices,
                open : SUBSET Accounts!SignIns, ended : SUBSET Accounts!SignIns]
  BY <1>1, <1>2 DEF AccountsInv, Accounts!TypeOK
<1>4. /\ a.keys \cap a.retired = {} /\ a.open \cap a.ended = {}
      /\ a.standing = "ACTIVE" => a.keys \cup a.retired # {}
      /\ Accounts!Passkeys(m) = a.keys \cup a.retired
      /\ a.keys \cup a.retired \subseteq Accounts!Taken
      /\ a.open \cup a.ended \subseteq Accounts!Begun
  BY <1>1, <1>2 DEF AccountsInv, Accounts!Sound, Accounts!Passkeys, Accounts!SignedIn, Accounts!Taken,
     Accounts!Begun
<1>5. CASE Accounts!Activate(m)
  <2>1. PICK b : b = [a EXCEPT !.standing = "ACTIVE"]
    OBVIOUS
  <2>2. /\ b.standing = "ACTIVE" /\ b.keys = a.keys /\ b.retired = a.retired
        /\ b.open = a.open /\ b.ended = a.ended
        /\ b \in [standing : {"PENDING_ENROLLMENT", "ACTIVE", "SUSPENDED", "DEACTIVATED"},
                  keys : SUBSET Devices, retired : SUBSET Devices,
                  open : SUBSET Accounts!SignIns, ended : SUBSET Accounts!SignIns]
    BY <1>3, <2>1
  <2>3. Accounted' = [Accounted EXCEPT ![m] = b]
    BY <1>1, <1>2, <1>3, <1>5, <2>1 DEF Accounts!Activate
  <2>4. b.keys \cup b.retired # {}
    BY <1>4, <1>5, <2>2 DEF Accounts!Activate
  <2> QED BY <1>1, <1>2, <1>4, <2>2, <2>3, <2>4, SoundStep
<1>6. CASE Accounts!Rule(m)
  <2>1. PICK st \in {"PENDING_ENROLLMENT", "SUSPENDED", "DEACTIVATED"} :
            Accounted' = [Accounted EXCEPT ![m].standing = st]
    BY <1>6 DEF Accounts!Rule
  <2>2. PICK b : b = [a EXCEPT !.standing = st]
    OBVIOUS
  <2>3. /\ b.standing = st /\ b.keys = a.keys /\ b.retired = a.retired
        /\ b.open = a.open /\ b.ended = a.ended
        /\ b \in [standing : {"PENDING_ENROLLMENT", "ACTIVE", "SUSPENDED", "DEACTIVATED"},
                  keys : SUBSET Devices, retired : SUBSET Devices,
                  open : SUBSET Accounts!SignIns, ended : SUBSET Accounts!SignIns]
    BY <1>3, <2>2
  <2>4. Accounted' = [Accounted EXCEPT ![m] = b]
    BY <1>1, <1>2, <1>3, <2>1, <2>2
  <2> QED BY <1>1, <1>2, <1>4, <2>3, <2>4, SoundStep
<1>7. CASE Accounts!Enrol(m)
  <2>1. PICK d \in Devices \ Accounts!Taken :
            \/ Accounted' = [Accounted EXCEPT ![m].keys = @ \cup {d}]
            \/ Accounted' = [Accounted EXCEPT ![m].retired = @ \cup {d}]
    BY <1>7 DEF Accounts!Enrol
  <2>2. PICK b : /\ b = [a EXCEPT !.keys = @ \cup {d}] \/ b = [a EXCEPT !.retired = @ \cup {d}]
                 /\ Accounted' = [Accounted EXCEPT ![m] = b]
    BY <1>1, <1>2, <1>3, <2>1
  <2>3. /\ b.standing = a.standing /\ b.open = a.open /\ b.ended = a.ended
        /\ b.keys \cup b.retired = a.keys \cup a.retired \cup {d}
        /\ b.keys \cap b.retired = {}
        /\ b \in [standing : {"PENDING_ENROLLMENT", "ACTIVE", "SUSPENDED", "DEACTIVATED"},
                  keys : SUBSET Devices, retired : SUBSET Devices,
                  open : SUBSET Accounts!SignIns, ended : SUBSET Accounts!SignIns]
    <3>1. CASE b = [a EXCEPT !.keys = @ \cup {d}]
      BY <1>3, <1>4, <2>1, <3>1
    <3>2. CASE b = [a EXCEPT !.retired = @ \cup {d}]
      BY <1>3, <1>4, <2>1, <3>2
    <3> QED BY <2>2, <3>1, <3>2
  <2>4. /\ a.keys \cup a.retired \subseteq b.keys \cup b.retired /\ b.keys \cup b.retired # {}
        /\ \A x \in b.keys \cup b.retired : x \in a.keys \cup a.retired \/ x \notin Accounts!Taken
        /\ b.open \cap b.ended = {} /\ b.open \cup b.ended = a.open \cup a.ended
    BY <1>4, <2>1, <2>3
  <2> QED BY <1>1, <1>2, <2>2, <2>3, <2>4, SoundStep
<1>8. CASE Accounts!Retire(m)
  <2>1. PICK gone \in SUBSET a.keys :
            Accounted' = [Accounted EXCEPT ![m].keys = @ \ gone, ![m].retired = @ \cup gone]
    BY <1>1, <1>2, <1>8 DEF Accounts!Retire
  <2>2. PICK b : b = [[a EXCEPT !.keys = a.keys \ gone] EXCEPT !.retired = a.retired \cup gone]
    OBVIOUS
  <2>3. /\ b.standing = a.standing /\ b.open = a.open /\ b.ended = a.ended
        /\ b.keys = a.keys \ gone /\ b.retired = a.retired \cup gone
        /\ b \in [standing : {"PENDING_ENROLLMENT", "ACTIVE", "SUSPENDED", "DEACTIVATED"},
                  keys : SUBSET Devices, retired : SUBSET Devices,
                  open : SUBSET Accounts!SignIns, ended : SUBSET Accounts!SignIns]
    BY <1>3, <2>1, <2>2
  <2>4. Accounted' = [Accounted EXCEPT ![m] = b]
    BY <1>1, <1>2, <1>3, <2>1, <2>2
  <2>5. b.keys \cup b.retired = a.keys \cup a.retired /\ b.keys \cap b.retired = {}
    BY <1>4, <2>1, <2>3
  <2> QED BY <1>1, <1>2, <1>4, <2>3, <2>4, <2>5, SoundStep
<1>9. CASE Accounts!SignIn(m)
  <2>1. PICK s \in Accounts!SignIns :
            /\ s.device \in a.keys \cup a.retired
            /\ \A x \in Accounts!Begun : x.session # s.session
            /\ Accounted' = [Accounted EXCEPT ![m].open = @ \cup {s}]
    BY <1>4, <1>9 DEF Accounts!SignIn
  <2>2. PICK b : b = [a EXCEPT !.open = a.open \cup {s}]
    OBVIOUS
  <2>3. /\ b.standing = a.standing /\ b.keys = a.keys /\ b.retired = a.retired
        /\ b.open = a.open \cup {s} /\ b.ended = a.ended
        /\ b \in [standing : {"PENDING_ENROLLMENT", "ACTIVE", "SUSPENDED", "DEACTIVATED"},
                  keys : SUBSET Devices, retired : SUBSET Devices,
                  open : SUBSET Accounts!SignIns, ended : SUBSET Accounts!SignIns]
    BY <1>3, <2>1, <2>2
  <2>4. Accounted' = [Accounted EXCEPT ![m] = b]
    BY <1>1, <1>2, <1>3, <2>1, <2>2
  <2>5. s \notin a.ended
    BY <1>4, <2>1
  <2>6. /\ b.open \cap b.ended = {}
        /\ \A x \in b.open \cup b.ended : x \in a.open \cup a.ended \/ x = s
        /\ b.standing = "ACTIVE" => b.keys \cup b.retired # {}
        /\ b.keys \cap b.retired = {} /\ b.keys \cup b.retired = a.keys \cup a.retired
    BY <1>4, <2>3, <2>5
  <2>7. \A x \in b.open \cup b.ended :
            \/ x \in a.open \cup a.ended
            \/ /\ x.device \in a.keys \cup a.retired
               /\ \A y \in Accounts!Begun : y.session # x.session
    BY <2>1, <2>6
  <2>8. \A x, y \in (b.open \cup b.ended) \ (a.open \cup a.ended) : x = y
    BY <2>6
  <2>9. /\ a.keys \cup a.retired \subseteq b.keys \cup b.retired
        /\ \A d \in b.keys \cup b.retired : d \in a.keys \cup a.retired \/ d \notin Accounts!Taken
    BY <2>6
  <2> QED BY <1>1, <1>2, <2>3, <2>4, <2>6, <2>7, <2>8, <2>9, SoundStep
<1>10. CASE Accounts!SignOut(m)
  <2>1. PICK gone \in SUBSET a.open :
            Accounted' = [Accounted EXCEPT ![m].open = @ \ gone, ![m].ended = @ \cup gone]
    BY <1>1, <1>2, <1>10 DEF Accounts!SignOut
  <2>2. PICK b : b = [[a EXCEPT !.open = a.open \ gone] EXCEPT !.ended = a.ended \cup gone]
    OBVIOUS
  <2>3. /\ b.standing = a.standing /\ b.keys = a.keys /\ b.retired = a.retired
        /\ b.open = a.open \ gone /\ b.ended = a.ended \cup gone
        /\ b \in [standing : {"PENDING_ENROLLMENT", "ACTIVE", "SUSPENDED", "DEACTIVATED"},
                  keys : SUBSET Devices, retired : SUBSET Devices,
                  open : SUBSET Accounts!SignIns, ended : SUBSET Accounts!SignIns]
    BY <1>3, <2>1, <2>2
  <2>4. Accounted' = [Accounted EXCEPT ![m] = b]
    BY <1>1, <1>2, <1>3, <2>1, <2>2
  <2>5. b.open \cup b.ended = a.open \cup a.ended /\ b.open \cap b.ended = {}
    BY <1>4, <2>1, <2>3
  <2> QED BY <1>1, <1>2, <1>4, <2>3, <2>4, <2>5, SoundStep
<1> QED BY <1>5, <1>6, <1>7, <1>8, <1>9, <1>10 DEF Accounts!Change

LEMMA SoundLapse == AccountsInv /\ Accounts!Lapse => AccountsInv'
<1> SUFFICES ASSUME AccountsInv, Accounts!Lapse PROVE AccountsInv'
  OBVIOUS
<1>1. PICK f, g : f = Accounted /\ g = Accounted'
  OBVIOUS
<1>2. f \in [Members ->
    [standing : {"PENDING_ENROLLMENT", "ACTIVE", "SUSPENDED", "DEACTIVATED"},
     keys : SUBSET Devices, retired : SUBSET Devices,
     open : SUBSET Accounts!SignIns, ended : SUBSET Accounts!SignIns]]
  BY <1>1 DEF AccountsInv, Accounts!TypeOK
<1>3. g = [m \in Members |-> [[f[m] EXCEPT !.open = {}] EXCEPT !.ended = f[m].ended \cup f[m].open]]
  BY <1>1, <1>2 DEF Accounts!Lapse
<1>4. \A m \in Members :
         /\ g[m].standing = f[m].standing /\ g[m].keys = f[m].keys /\ g[m].retired = f[m].retired
         /\ g[m].open = {} /\ g[m].ended = f[m].open \cup f[m].ended
         /\ g[m] \in [standing : {"PENDING_ENROLLMENT", "ACTIVE", "SUSPENDED", "DEACTIVATED"},
                      keys : SUBSET Devices, retired : SUBSET Devices,
                      open : SUBSET Accounts!SignIns, ended : SUBSET Accounts!SignIns]
  <2> SUFFICES ASSUME NEW m \in Members
               PROVE  /\ g[m].standing = f[m].standing /\ g[m].keys = f[m].keys
                      /\ g[m].retired = f[m].retired
                      /\ g[m].open = {} /\ g[m].ended = f[m].open \cup f[m].ended
                      /\ g[m] \in [standing : {"PENDING_ENROLLMENT", "ACTIVE", "SUSPENDED", "DEACTIVATED"},
                                   keys : SUBSET Devices, retired : SUBSET Devices,
                                   open : SUBSET Accounts!SignIns, ended : SUBSET Accounts!SignIns]
    OBVIOUS
  <2>1. PICK a : a = f[m]
    OBVIOUS
  <2>2. PICK b : b = [a EXCEPT !.open = {}]
    OBVIOUS
  <2>3. g[m] = [b EXCEPT !.ended = a.ended \cup a.open]
    BY <1>3, <2>1, <2>2
  <2>4. a \in [standing : {"PENDING_ENROLLMENT", "ACTIVE", "SUSPENDED", "DEACTIVATED"},
               keys : SUBSET Devices, retired : SUBSET Devices,
               open : SUBSET Accounts!SignIns, ended : SUBSET Accounts!SignIns]
    BY <1>2, <2>1
  <2>5. /\ b.standing = a.standing /\ b.keys = a.keys /\ b.retired = a.retired /\ b.open = {}
        /\ b \in [standing : {"PENDING_ENROLLMENT", "ACTIVE", "SUSPENDED", "DEACTIVATED"},
                  keys : SUBSET Devices, retired : SUBSET Devices,
                  open : SUBSET Accounts!SignIns, ended : SUBSET Accounts!SignIns]
    BY <2>2, <2>4
  <2>6. /\ g[m].standing = b.standing /\ g[m].keys = b.keys /\ g[m].retired = b.retired
        /\ g[m].open = b.open /\ g[m].ended = a.open \cup a.ended
        /\ g[m] \in [standing : {"PENDING_ENROLLMENT", "ACTIVE", "SUSPENDED", "DEACTIVATED"},
                     keys : SUBSET Devices, retired : SUBSET Devices,
                     open : SUBSET Accounts!SignIns, ended : SUBSET Accounts!SignIns]
    BY <2>3, <2>4, <2>5
  <2> QED BY <2>1, <2>5, <2>6
<1>5. Accounts!TypeOK'
  BY <1>1, <1>3, <1>4 DEF Accounts!TypeOK, Accounts!SignIns
<1>6. \A m \in Members : /\ Accounts!Passkeys(m)' = Accounts!Passkeys(m)
                         /\ Accounts!SignedIn(m)' = Accounts!SignedIn(m)
  BY <1>1, <1>4 DEF Accounts!Passkeys, Accounts!SignedIn
<1>7. Accounts!Sound'
  BY <1>1, <1>4, <1>6 DEF AccountsInv, Accounts!Sound
<1> QED BY <1>5, <1>7 DEF AccountsInv

LEMMA SoundNext == AccountsInv /\ AccountsStep => AccountsInv'
<1>1. AccountsInv /\ Accounts!Next => AccountsInv'
  BY SoundChange, SoundLapse DEF Accounts!Next
<1>2. AccountsInv /\ Accounted' = Accounted => AccountsInv'
  BY DEF AccountsInv, Accounts!TypeOK, Accounts!Sound, Accounts!Passkeys, Accounts!SignedIn, Accounts!SignIns
<1> QED BY <1>1, <1>2 DEF AccountsStep

\* What MemberAccounts promises: an ACTIVE member has enrolled a passkey, no
\* passkey is two members' or both trusted and retired, and every session is
\* one member's sign-in with that member's own passkey.  As DeviceTrust
\* implements the accounts, the documents of the database keep it.
THEOREM AccountsSoundCorrect == Spec => []Accounts!Sound
<1>1. Accounts!Init => AccountsInv
  BY SoundInit
<1>2. AccountsInv /\ [Accounts!Next]_Accounted => AccountsInv'
  BY SoundNext DEF AccountsStep
<1>3. AccountsInv => Accounts!Sound
  BY DEF AccountsInv
<1> QED BY <1>1, <1>2, <1>3, IsAccountsCorrect, PTL DEF IsAccounts, Accounts!Spec
============================================================================
