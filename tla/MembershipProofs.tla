-------------------------- MODULE MembershipProofs --------------------------
(***************************************************************************)
(* Proofs about Membership for any addresses, ids, files and handlers: its *)
(* safety invariants, that a lockout is final, and that it implements      *)
(* MemberRegistry.  The argument: every write of a document is one of      *)
(* three kinds (a new document, a new status, an issued id); each kind     *)
(* keeps what the documents promise (DocsOK) and never takes back what a   *)
(* handler has read of them (Stable); so what handlers know (Knows) needs  *)
(* no look at the other handlers.                                          *)
(***************************************************************************)
EXTENDS Membership, FiniteSetTheorems, TLAPS

DocOK(d) ==
    /\ members[d].email \in Emails
    /\ members[d].role = IF members[d].email = AdminEmail THEN "admin" ELSE "member"
    /\ members[d].role = "admin" => members[d].id = AdminId
    /\ members[d].role = "member" => members[d].id \in Ids \cup {None}
    /\ members[d].id = None <=> members[d].status = "STAGED"

DocsOK ==
    /\ \A d \in Docs : members[d].status = "none" => members[d] = NoMember
    /\ \A d \in Stored : DocOK(d)
    /\ \A d, e \in Stored : members[d].email = members[e].email => d = e
    /\ \A d, e \in Stored : members[d].id = members[e].id /\ members[d].id # None => d = e

AdminFirst ==
    /\ Stored # {} => AdminEmail \in EmailsIn
    /\ completed \/ boot \in {"mark", "up"} => AdminEmail \in EmailsIn
    /\ boot = "insert" => AdminEmail \notin EmailsIn

Knows(p) ==
    /\ pc[p] # "idle" => boot = "up"
    /\ pc[p] \in {"activate", "suspend", "reactivate"} => loc[p].doc \in Admins
    /\ pc[p] \in {"pick_id", "issue"} => loc[p].doc \in Stored \ Admins
    /\ pc[p] = "issue" => loc[p].id \in Ids

\* what a report, or a handler on its way to one, says of the documents
Backed(file, staged) ==
    /\ \A s, t \in staged : s # t => s[1] # t[1] /\ s[2] # t[2]
    /\ \A s \in staged : s[2] \in Stored /\ members[s[2]].email = file[s[1]]

Firsts(staged) == {s[1] : s \in staged}

\* every row below n is an error, staged or still to come, and only one of them
Split(n, good, errors, rows) ==
    /\ good \cup errors \cup rows = 1 .. n
    /\ good \cap errors = {} /\ good \cap rows = {} /\ errors \cap rows = {}

Accounts(p) ==
    /\ pc[p] = "validate" => /\ loc[p].i \in 1 .. Len(loc[p].file)
                             /\ Split(loc[p].i - 1, loc[p].good, loc[p].errors, {})
                             /\ loc[p].staged = {}
    /\ pc[p] = "insert" => loc[p].good # {}
    /\ pc[p] = "record" => loc[p].good = {}
    /\ pc[p] \in {"insert", "record"} =>
          Split(Len(loc[p].file), loc[p].good, loc[p].errors, Firsts(loc[p].staged))
    /\ pc[p] \in {"validate", "insert", "record"} =>
          /\ \A j \in loc[p].good : loc[p].file[j] \in Emails
          /\ Backed(loc[p].file, loc[p].staged)
          /\ faults = 0 => \A j \in loc[p].errors :
                loc[p].file[j] \in EmailsIn \cup {None} \cup Seen(p)

Reported ==
    /\ Backed(report.file, report.staged)
    /\ Split(Len(report.file), {}, report.errors, Firsts(report.staged))
    /\ faults = 0 => \A j \in report.errors : report.file[j] \in EmailsIn \cup {None}

Inv ==
    /\ TypeOK
    /\ DocsOK
    /\ AdminFirst
    /\ \A p \in Handlers : Knows(p) /\ Accounts(p)
    /\ Reported

----------------------------------------------------------------------------
(* The three ways to write a document                                      *)

Inserts(d, email, role, id, st) ==
    /\ InsertMember(d, email, role, id, st)
    /\ email \notin EmailsIn
    /\ \/ email = AdminEmail /\ role = "admin" /\ id = AdminId /\ st = "PENDING_ENROLLMENT"
       \/ email \in Emails \ {AdminEmail} /\ role = "member" /\ id = None /\ st = "STAGED"

Later == {"ACTIVE", "SUSPENDED", "PENDING_ENROLLMENT"}

Changes(d, st) ==
    /\ d \in Stored /\ members[d].id # None /\ st \in Later
    /\ members' = [members EXCEPT ![d].status = st]

Issues(d, id) ==
    /\ d \in Stored \ Admins /\ id \in Ids
    /\ \A x \in Stored \ {d} : members[x].id # id
    /\ members' = [members EXCEPT ![d].id = id, ![d].status = "PENDING_ENROLLMENT"]

Stable == \A d \in Stored :
    /\ d \in Stored'
    /\ members'[d].email = members[d].email
    /\ members'[d].role = members[d].role

Written == members' \in [Docs -> MemberType] /\ DocsOK' /\ Stable

LEMMA InsertsWrites ==
  ASSUME TypeOK, DocsOK, NEW d \in Docs, NEW email, NEW role, NEW id, NEW st,
         Inserts(d, email, role, id, st)
  PROVE  Written /\ Stored' = Stored \cup {d} /\ EmailsIn' = EmailsIn \cup {email}
<1> DEFINE r == [status |-> st, email |-> email, role |-> role, id |-> id]
<1>1. members' = [members EXCEPT ![d] = r] /\ d \in Docs /\ d \notin Stored
  BY DEF Inserts, InsertMember
<1>2. r \in MemberType /\ r.status # "none"
  BY EmailsAssumption DEF Inserts, MemberType
<1>3. members'[d] = r /\ \A x \in Docs \ {d} : members'[x] = members[x]
  BY <1>1 DEF TypeOK
<1>4. members' \in [Docs -> MemberType]
  BY <1>1, <1>2 DEF TypeOK
<1>5. Stored' = Stored \cup {d}
  BY <1>1, <1>2, <1>3 DEF Stored
<1>6. EmailsIn' = EmailsIn \cup {email}
  BY <1>1, <1>3, <1>5 DEF EmailsIn, Stored
<1>7. \A x \in Stored : members[x].email # email /\ x # d /\ members'[x] = members[x]
  BY <1>1, <1>3 DEF Inserts, EmailsIn, Stored
<1>8. Stable
  BY <1>5, <1>7 DEF Stable
<1>9. DocsOK'
  <2>1. \A x \in Docs : members'[x].status = "none" => members'[x] = NoMember
    BY <1>2, <1>3 DEF DocsOK
  <2>2. \A x \in Stored' : DocOK(x)'
    <3>1. DocOK(d)'
      BY <1>3, EmailsAssumption, IdsAssumption DEF DocOK, Inserts
    <3>2. ASSUME NEW x \in Stored PROVE DocOK(x)'
      BY <1>7 DEF DocsOK, DocOK
    <3> QED BY <3>1, <3>2, <1>5
  <2>3. \A x, y \in Stored' : members'[x].email = members'[y].email => x = y
    BY <1>3, <1>5, <1>7 DEF DocsOK
  <2>4. \A x, y \in Stored' : members'[x].id = members'[y].id /\ members'[x].id # None => x = y
    <3>1. id # None => \A x \in Stored : members[x].id # id
      BY <1>7, EmailsAssumption, IdsAssumption DEF DocsOK, DocOK, Inserts
    <3> QED BY <3>1, <1>3, <1>5, <1>7 DEF DocsOK
  <2> QED BY <2>1, <2>2, <2>3, <2>4 DEF DocsOK
<1> QED BY <1>4, <1>5, <1>6, <1>8, <1>9 DEF Written

LEMMA Updates ==
  ASSUME TypeOK, DocsOK, NEW d \in Stored, NEW st \in Later, NEW id \in Ids \cup {AdminId},
         members[d].role = "admin" <=> id = AdminId,
         \A x \in Stored \ {d} : members[x].id # id,
         members' = [members EXCEPT ![d].id = id, ![d].status = st]
  PROVE  Written /\ Stored' = Stored /\ EmailsIn' = EmailsIn
<1>0. d \in Docs /\ members[d] \in MemberType
  BY DEF TypeOK, Stored
<1>1. /\ members'[d] = [members[d] EXCEPT !.id = id, !.status = st]
      /\ \A x \in Docs \ {d} : members'[x] = members[x]
  BY <1>0 DEF TypeOK
<1>2. /\ members'[d].id = id /\ members'[d].status = st
      /\ members'[d].email = members[d].email /\ members'[d].role = members[d].role
      /\ members'[d] \in MemberType
  <2>1. PICK m \in MemberType : m = members[d]
    BY <1>0
  <2>2. PICK r : r = [m EXCEPT !.id = id, !.status = st]
    OBVIOUS
  <2>3. r \in MemberType /\ r.id = id /\ r.status = st /\ r.email = m.email /\ r.role = m.role
    BY <2>2 DEF MemberType, Later
  <2> QED BY <1>1, <2>1, <2>2, <2>3
<1>3. members' \in [Docs -> MemberType]
  BY <1>0, <1>2 DEF TypeOK
<1>4. Stored' = Stored
  BY <1>1, <1>2 DEF Stored, Later
<1>8. \A x \in Stored \ {d} : members'[x] = members[x]
  BY <1>1 DEF Stored
<1>9. \A x \in Stored : members'[x].email = members[x].email
  <2> TAKE x \in Stored
  <2> QED BY <1>8, <1>2
<1>5. EmailsIn' = EmailsIn
  BY <1>9, <1>4 DEF EmailsIn
<1>6. Stable
  BY <1>1, <1>2, <1>4 DEF Stable, Stored
<1>7. DocsOK'
  <2>1. \A x \in Docs : members'[x].status = "none" => members'[x] = NoMember
    BY <1>1, <1>2 DEF DocsOK, Later
  <2>2. \A x \in Stored' : DocOK(x)'
    <3>1. DocOK(d)'
      <4>1. DocOK(d)
        BY DEF DocsOK
      <4> QED BY <4>1, <1>2, IdsAssumption DEF DocOK, Later
    <3>2. ASSUME NEW x \in Stored \ {d} PROVE DocOK(x)'
      <4>1. DocOK(x) /\ members'[x] = members[x]
        BY <1>8 DEF DocsOK
      <4> QED BY <4>1 DEF DocOK
    <3> QED BY <3>1, <3>2, <1>4
  <2>3. \A x, y \in Stored' : members'[x].email = members'[y].email => x = y
    BY <1>9, <1>4 DEF DocsOK
  <2>4. \A x, y \in Stored' : members'[x].id = members'[y].id /\ members'[x].id # None => x = y
    <3>1. ASSUME NEW x \in Stored, NEW y \in Stored, x # y, members'[x].id # None
          PROVE  members'[x].id # members'[y].id
      <4>1. CASE x = d
        BY <3>1, <4>1, <1>8, <1>2
      <4>2. CASE y = d
        BY <3>1, <4>2, <1>8, <1>2
      <4>3. CASE x # d /\ y # d
        <5>1. members'[x] = members[x] /\ members'[y] = members[y]
          BY <3>1, <4>3, <1>8
        <5> QED BY <3>1, <5>1 DEF DocsOK
      <4> QED BY <4>1, <4>2, <4>3
    <3> QED BY <3>1, <1>4
  <2> QED BY <2>1, <2>2, <2>3, <2>4 DEF DocsOK
<1> QED BY <1>3, <1>4, <1>5, <1>6, <1>7 DEF Written

LEMMA ChangesWrites ==
  ASSUME TypeOK, DocsOK, NEW d, NEW st, Changes(d, st)
  PROVE  Written /\ Stored' = Stored /\ EmailsIn' = EmailsIn
<1> DEFINE id == members[d].id
<1>0. d \in Docs /\ d \in Stored /\ members[d] \in MemberType
  BY DEF Changes, TypeOK, Stored
<1>1. members' = [members EXCEPT ![d].id = id, ![d].status = st]
  BY <1>0 DEF Changes, TypeOK, MemberType
<1>2. DocOK(d) /\ id # None
  BY <1>0 DEF DocsOK, Changes
<1>3. id \in Ids \cup {AdminId} /\ (members[d].role = "admin" <=> id = AdminId)
  BY <1>2, IdsAssumption DEF DocOK
<1>4. \A x \in Stored \ {d} : members[x].id # id
  BY <1>0, <1>2 DEF DocsOK
<1> HIDE DEF id
<1> QED BY <1>0, <1>1, <1>3, <1>4, Updates, ZenonT(40) DEF Changes

LEMMA IssuesWrites ==
  ASSUME TypeOK, DocsOK, NEW d, NEW id, Issues(d, id)
  PROVE  Written /\ Stored' = Stored /\ EmailsIn' = EmailsIn
<1>1. d \in Stored /\ id \in Ids /\ members[d].role # "admin" /\ id # AdminId
  BY IdsAssumption DEF Issues, Admins
<1> QED BY <1>1, Updates DEF Issues, Later

----------------------------------------------------------------------------
(* A write of one document is a step of the registry                       *)

Filed ==
    /\ \A d \in Stored : Registered[members[d].email] = members[d]
    /\ \A e \in Emails \ EmailsIn : Registered[e] = NoMember

LEMMA FiledOK == members \in [Docs -> MemberType] /\ DocsOK => Filed
<1> SUFFICES ASSUME members \in [Docs -> MemberType], DocsOK PROVE Filed
  OBVIOUS
<1>1. \A d \in Docs \ Stored : members[d] = NoMember /\ members[d].email = None
  BY DEF DocsOK, Stored, NoMember
<1>2. ASSUME NEW d \in Stored PROVE Registered[members[d].email] = members[d]
  <2> DEFINE e == members[d].email
  <2>1. e \in Emails /\ e # None /\ d \in Docs
    BY IdsAssumption DEF DocsOK, DocOK, Stored
  <2>2. \A x \in Docs : members[x].email = e => x = d
    BY <1>1, <2>1 DEF DocsOK
  <2>3. (CHOOSE x \in Docs : members[x].email = e) = d
    BY <2>1, <2>2
  <2> HIDE DEF e
  <2>4. Registered[e] = IF \E x \in Docs : members[x].email = e
                        THEN members[CHOOSE x \in Docs : members[x].email = e] ELSE NoMember
    BY <2>1 DEF Registered
  <2>5. members[d].email = e
    BY DEF e
  <2> QED BY <2>1, <2>3, <2>4, <2>5
<1>3. ASSUME NEW e \in Emails \ EmailsIn PROVE Registered[e] = NoMember
  <2>1. ~ \E d \in Docs : members[d].email = e
    BY <1>1, <1>3, IdsAssumption DEF EmailsIn
  <2> QED BY <2>1 DEF Registered
<1> QED BY <1>2, <1>3 DEF Filed

LEMMA OneRecord ==
  ASSUME TypeOK, DocsOK, Written, NEW d \in Stored', NEW e, e = members'[d].email,
         \A x \in Docs \ {d} : members'[x] = members[x],
         Stored' = Stored \cup {d}, EmailsIn' = EmailsIn \cup {e},
         d \in Stored \/ e \notin EmailsIn
  PROVE  e \in Emails /\ Registered' = [Registered EXCEPT ![e] = members'[d]]
<1>1. Filed /\ Filed'
  <2>1. members \in [Docs -> MemberType] /\ (members \in [Docs -> MemberType])'
    BY DEF TypeOK, Written
  <2> QED BY <2>1, FiledOK, PTL DEF Written
<1>2. Registered'[e] = members'[d]
  BY <1>1 DEF Filed
<1>3. ASSUME NEW x \in Emails \ {e} PROVE Registered'[x] = Registered[x]
  <2>1. CASE x \in EmailsIn
    <3>1. PICK y \in Stored : members[y].email = x
      BY <2>1 DEF EmailsIn
    <3>2. y # d
      BY <3>1, <1>3 DEF Written, Stable
    <3>3. members'[y] = members[y] /\ y \in Stored'
      BY <3>2 DEF Stored
    <3>4. Registered[x] = members[y] /\ Registered'[x] = members'[y]
      BY <1>1, <3>1, <3>3 DEF Filed
    <3> QED BY <3>3, <3>4
  <2>2. CASE x \notin EmailsIn
    BY <2>2, <1>1, <1>3 DEF Filed
  <2> QED BY <2>1, <2>2
<1>4. e \in Emails
  BY DEF Written, DocsOK, DocOK
<1>5. /\ Registered = [x \in Emails |-> Registered[x]]
      /\ Registered' = [x \in Emails |-> Registered'[x]]
  BY DEF Registered
<1> QED BY <1>2, <1>3, <1>4, <1>5

RegistryStep == [Registry!Next]_Registered

LEMMA Known ==
  ASSUME TypeOK, DocsOK
  PROVE  Registry!Known = EmailsIn /\ Registry!Absent = NoMember
<1>1. Registry!Absent = NoMember
  BY DEF Registry!Absent, NoMember
<1>2. Filed
  BY FiledOK DEF TypeOK
<1>3. EmailsIn \subseteq Emails /\ \A d \in Stored : members[d] # NoMember
  BY DEF EmailsIn, DocsOK, DocOK, Stored, NoMember
<1>4. \A e \in Emails : e \in EmailsIn <=> Registered[e] # NoMember
  BY <1>2, <1>3 DEF Filed, EmailsIn
<1> QED BY <1>1, <1>3, <1>4 DEF Registry!Known

LEMMA InsertsSteps ==
  ASSUME TypeOK, DocsOK, AdminFirst, NEW d \in Docs, NEW email, NEW role, NEW id, NEW st,
         Inserts(d, email, role, id, st), email = AdminEmail \/ AdminEmail \in EmailsIn
  PROVE  RegistryStep
<1> DEFINE r == [status |-> st, email |-> email, role |-> role, id |-> id]
<1>1. Written /\ Stored' = Stored \cup {d} /\ EmailsIn' = EmailsIn \cup {email}
  BY InsertsWrites
<1>2. members'[d] = r /\ email \notin EmailsIn /\ \A x \in Docs \ {d} : members'[x] = members[x]
  BY DEF Inserts, InsertMember, TypeOK
<1>3. email \in Emails /\ Registered' = [Registered EXCEPT ![email] = members'[d]]
  BY <1>1, <1>2, OneRecord
<1>4. Registry!Put(email, r)
  BY <1>2, <1>3 DEF Registry!Put
<1>5. Registered'[email] # Registered[email]
  <2>1. members'[d] # NoMember
    BY <1>2 DEF Inserts, NoMember
  <2>2. Registered[email] = NoMember
    BY <1>2, <1>3, FiledOK DEF TypeOK, Filed
  <2>3. Registered'[email] = members'[d]
    BY <1>3 DEF Registered
  <2> QED BY <2>1, <2>2, <2>3
<1>6. CASE email = AdminEmail
  <2>1. EmailsIn = {}
    BY <1>2, <1>6 DEF AdminFirst, EmailsIn
  <2>2. r = [status |-> "PENDING_ENROLLMENT", email |-> email, role |-> "admin", id |-> AdminId]
    BY <1>6 DEF Inserts
  <2>3. Registry!Appoint(email)
    BY <2>1, <2>2, <1>4, <1>6, Known DEF Registry!Appoint
  <2> QED BY <2>3, <1>3, <1>5 DEF RegistryStep, Registry!Next
<1>7. CASE email # AdminEmail
  <2>1. r = [status |-> "STAGED", email |-> email, role |-> "member", id |-> None]
    BY <1>7 DEF Inserts
  <2>2. Registry!Stage(email)
    BY <2>1, <1>2, <1>4, <1>7, Known DEF Registry!Stage
  <2> QED BY <2>2, <1>3, <1>5 DEF RegistryStep, Registry!Next
<1> QED BY <1>6, <1>7

LEMMA ChangesSteps ==
  ASSUME TypeOK, DocsOK, NEW d, NEW st, Changes(d, st)
  PROVE  RegistryStep
<1> DEFINE e == members[d].email
<1>1. Written /\ Stored' = Stored /\ EmailsIn' = EmailsIn
  BY ChangesWrites
<1>2. /\ d \in Stored /\ d \in Docs /\ st \in Later /\ members[d].id # None
      /\ members'[d] = [members[d] EXCEPT !.status = st]
      /\ \A x \in Docs \ {d} : members'[x] = members[x]
  BY DEF Changes, Stored, TypeOK
<1>3. members'[d].email = e /\ e \in EmailsIn
  BY <1>1, <1>2 DEF Written, Stable, EmailsIn
<1>4. e \in Emails /\ Registered' = [Registered EXCEPT ![e] = members'[d]]
  <2> HIDE DEF e
  <2>1. e = members'[d].email /\ Stored' = Stored \cup {d} /\ EmailsIn' = EmailsIn \cup {e}
    BY <1>1, <1>2, <1>3
  <2>2. d \in Stored' /\ \A x \in Docs \ {d} : members'[x] = members[x]
    BY <1>1, <1>2
  <2> QED BY <1>1, <1>2, <2>1, <2>2, OneRecord
<1>5. Registered[e] = members[d]
  BY <1>2, FiledOK DEF TypeOK, Filed
<1> HIDE DEF e
<1>6. Registry!Become(e, st)
  BY <1>2, <1>4, <1>5 DEF Registry!Become
<1>7. e \in Registry!Known /\ Registered[e].id # None
  BY <1>2, <1>3, <1>5, Known
<1>8. Registry!Change(e)
  BY <1>2, <1>6, <1>7 DEF Registry!Change, Later
<1>9. Registered'[e] = Registered[e] => Registered' = Registered
  BY <1>4 DEF Registered
<1> QED BY <1>4, <1>8, <1>9 DEF RegistryStep, Registry!Next

LEMMA IssuesSteps ==
  ASSUME TypeOK, DocsOK, NEW d, NEW id, Issues(d, id)
  PROVE  RegistryStep
<1> DEFINE e == members[d].email
<1>1. Written /\ Stored' = Stored /\ EmailsIn' = EmailsIn
  BY IssuesWrites
<1>2. d \in Stored /\ d \in Docs /\ id \in Ids /\ \A x \in Docs \ {d} : members'[x] = members[x]
  BY DEF Issues, Stored, TypeOK
<1>3. /\ members'[d].id = id /\ members'[d].status = "PENDING_ENROLLMENT"
      /\ members'[d].email = e /\ members'[d].role = "member" /\ members[d].role = "member"
  <2>1. PICK m \in MemberType : m = members[d]
    BY <1>2 DEF TypeOK
  <2>2. members'[d] = [m EXCEPT !.id = id, !.status = "PENDING_ENROLLMENT"]
    BY <1>2, <2>1 DEF Issues, TypeOK
  <2>3. members'[d].id = id /\ members'[d].status = "PENDING_ENROLLMENT"
    BY <2>2 DEF MemberType
  <2>4. members[d].role = "member"
    BY <1>2 DEF Issues, Admins, DocsOK, DocOK
  <2> QED BY <1>1, <1>2, <2>3, <2>4 DEF Written, Stable
<1>4. e \in EmailsIn
  BY <1>2 DEF EmailsIn
<1>5. e \in Emails /\ Registered' = [Registered EXCEPT ![e] = members'[d]]
  <2> HIDE DEF e
  <2>1. e = members'[d].email /\ Stored' = Stored \cup {d} /\ EmailsIn' = EmailsIn \cup {e}
    BY <1>1, <1>2, <1>3, <1>4
  <2>2. d \in Stored' /\ \A x \in Docs \ {d} : members'[x] = members[x]
    BY <1>1, <1>2
  <2> QED BY <1>1, <1>2, <2>1, <2>2, OneRecord
<1>6. Filed
  BY FiledOK DEF TypeOK
<1>7. Registered[e] = members[d]
  BY <1>2, <1>6 DEF Filed
<1>8. \A x \in EmailsIn \ {e} : Registered[x].id # id
  <2> TAKE x \in EmailsIn \ {e}
  <2>1. PICK y \in Stored : members[y].email = x
    BY DEF EmailsIn
  <2>2. y # d /\ Registered[x] = members[y]
    BY <2>1, <1>6 DEF Filed
  <2> QED BY <2>1, <2>2 DEF Issues
<1> HIDE DEF e
<1>9. members'[d] = [status |-> "PENDING_ENROLLMENT", email |-> e, role |-> "member", id |-> id]
  <2>1. members'[d] \in MemberType
    BY <1>1, <1>2 DEF Written
  <2> QED BY <2>1, <1>3 DEF MemberType
<1>10. Registry!Issue(e)
  <2>1. e \in Registry!Known /\ Registered[e].role = "member"
    BY <1>3, <1>4, <1>7, Known
  <2>2. Registry!Put(e, [status |-> "PENDING_ENROLLMENT", email |-> e, role |-> "member", id |-> id])
    BY <1>5, <1>9 DEF Registry!Put
  <2> QED BY <1>2, <1>8, <2>1, <2>2, Known DEF Registry!Issue
<1>11. Registered'[e] = Registered[e] => Registered' = Registered
  BY <1>5 DEF Registered
<1> QED BY <1>5, <1>10, <1>11 DEF RegistryStep, Registry!Next

----------------------------------------------------------------------------
(* What a handler's move is, and what everybody else keeps                 *)

Moves(p) == \A r \in Handlers \ {p} : pc'[r] = pc[r] /\ loc'[r] = loc[r]

Wrote == Written /\ EmailsIn \subseteq EmailsIn' /\ RegistryStep

LEMMA NothingWritten ==
  ASSUME TypeOK, DocsOK, members' = members
  PROVE  Wrote /\ Stored' = Stored /\ EmailsIn' = EmailsIn /\ Admins' = Admins
<1>1. Stored' = Stored /\ EmailsIn' = EmailsIn /\ Admins' = Admins /\ Registered' = Registered
  BY DEF Stored, EmailsIn, Admins, Registered
<1>2. DocsOK'
  BY <1>1 DEF DocsOK, DocOK
<1> QED BY <1>1, <1>2 DEF Wrote, Written, Stable, RegistryStep, TypeOK

LEMMA BackedKept ==
  ASSUME Wrote, NEW file, NEW staged, Backed(file, staged)
  PROVE  Backed(file, staged)'
  BY DEF Wrote, Written, Stable, Backed

LEMMA StoredKept ==
  ASSUME Wrote
  PROVE  Stored \subseteq Stored' /\ Admins \subseteq Admins' /\ Stored \ Admins \subseteq Stored' \ Admins'
  BY DEF Wrote, Written, Stable, Admins

LEMMA OthersKept ==
  ASSUME Inv, Wrote, boot' = boot, faults' = 0 => faults = 0,
         NEW r \in Handlers, pc'[r] = pc[r], loc'[r] = loc[r]
  PROVE  Knows(r)' /\ Accounts(r)'
<1>1. Knows(r) /\ Accounts(r)
  BY DEF Inv
<1>2. Knows(r)'
  BY <1>1, StoredKept DEF Knows
<1>3. Seen(r)' = Seen(r)
  BY DEF Seen
<1>4. Backed(loc[r].file, loc[r].staged) => Backed(loc[r].file, loc[r].staged)'
  BY BackedKept
<1>5. EmailsIn \subseteq EmailsIn'
  BY DEF Wrote
<1>6. Accounts(r)'
  BY <1>1, <1>3, <1>4, <1>5 DEF Accounts, Backed, Firsts, Split
<1> QED BY <1>2, <1>6

LEMMA ReportKept ==
  ASSUME Inv, Wrote, report' = report, faults' = 0 => faults = 0
  PROVE  Reported'
<1>1. Backed(report.file, report.staged)'
  BY BackedKept DEF Inv, Reported
<1> QED BY <1>1 DEF Inv, Reported, Wrote, Backed, Firsts, Split

\* the label of a handler that needs to know nothing
Free == {"idle", "gate", "admitted", "new_session", "end_sessions"}

LEMMA FreeKnows ==
  ASSUME NEW p \in Handlers, pc'[p] \in Free, pc'[p] # "idle" => boot' = "up"
  PROVE  Knows(p)' /\ Accounts(p)'
  BY DEF Free, Knows, Accounts

LEMMA BlankType == Blank \in LocType
  BY BoundsAssumption DEF Blank, LocType

LEMMA StartMoves ==
  ASSUME TypeOK, NEW p \in Handlers, NEW l \in Labels, NEW read \in LocType, Start(p, l, read)
  PROVE  /\ pc' \in [Handlers -> Labels] /\ loc' \in [Handlers -> LocType]
         /\ boot = "up" /\ pc'[p] = l /\ loc'[p] = read /\ Moves(p)
  BY DEF TypeOK, Start, Moves

LEMMA BeginMoves ==
  ASSUME Inv, NEW p \in Handlers, NEW l \in Labels, NEW read \in LocType, Begin(p, l, read)
  PROVE  /\ pc' \in [Handlers -> Labels] /\ loc' \in [Handlers -> LocType]
         /\ boot = "up" /\ pc'[p] = l /\ loc'[p] = read /\ Moves(p)
  BY DEF Inv, TypeOK, Begin, Goto, Moves, Knows

LEMMA GotoMoves ==
  ASSUME TypeOK, NEW p \in Handlers, NEW l \in Labels, Goto(p, l), loc' = loc
  PROVE  /\ pc' \in [Handlers -> Labels] /\ loc' \in [Handlers -> LocType]
         /\ pc'[p] = l /\ loc'[p] = loc[p] /\ Moves(p)
  BY DEF TypeOK, Goto, Moves

LEMMA DoneMoves ==
  ASSUME TypeOK, NEW p \in Handlers, Done(p)
  PROVE  /\ pc' \in [Handlers -> Labels] /\ loc' \in [Handlers -> LocType]
         /\ pc'[p] = "idle" /\ Moves(p) /\ Knows(p)' /\ Accounts(p)'
<1>1. /\ pc' \in [Handlers -> Labels] /\ loc' \in [Handlers -> LocType]
      /\ pc'[p] = "idle" /\ Moves(p)
  BY BlankType DEF TypeOK, Done, Goto, Labels, Moves
<1> QED BY <1>1, FreeKnows DEF Free

\* the step of handler p, once it is known what p itself knows afterwards
LEMMA HandlerStep ==
  ASSUME Inv, Wrote, NEW p \in Handlers, Moves(p), Knows(p)', Accounts(p)',
         pc' \in [Handlers -> Labels], loc' \in [Handlers -> LocType],
         boot = "up", boot' = boot, completed' = completed,
         signedIn' \in BOOLEAN, ticket' = ticket,
         report' = report, faults' \in 0 .. MaxFaults, faults' = 0 => faults = 0
  PROVE  Inv'
<1>1. TypeOK'
  BY DEF Inv, TypeOK, Wrote, Written
<1>2. DocsOK'
  BY DEF Wrote, Written
<1>3. AdminFirst'
  BY DEF Inv, AdminFirst, Wrote
<1>4. \A r \in Handlers : Knows(r)' /\ Accounts(r)'
  BY OthersKept DEF Moves
<1>5. Reported'
  BY ReportKept
<1> QED BY <1>1, <1>2, <1>3, <1>4, <1>5 DEF Inv

\* the same when the step leaves the documents alone
LEMMA ReadStep ==
  ASSUME Inv, NEW p \in Handlers, Moves(p), Knows(p)', Accounts(p)',
         pc' \in [Handlers -> Labels], loc' \in [Handlers -> LocType],
         boot = "up", UNCHANGED <<members, completed, boot, ticket, report, faults>>,
         signedIn' \in BOOLEAN
  PROVE  Inv' /\ RegistryStep
<1>1. Wrote
  BY NothingWritten DEF Inv
<1>2. faults' \in 0 .. MaxFaults
  BY DEF Inv, TypeOK
<1>3. Inv'
  BY <1>1, <1>2, HandlerStep
<1> QED BY <1>1, <1>3 DEF Wrote

----------------------------------------------------------------------------
(* Logins, the gate and the lifecycle                                      *)

LEMMA LoginStep ==
  ASSUME Inv, NEW p \in Handlers, Login(p) \/ Gate(p)
  PROVE  Inv' /\ RegistryStep
<1>0. TypeOK /\ DocsOK /\ Knows(p)
  BY DEF Inv
<1>1. CASE LoginFind(p)
  <2>1. PICK d \in Admins : /\ Start(p, IF members[d].status = "PENDING_ENROLLMENT" THEN "activate" ELSE "new_session",
                                       [Blank EXCEPT !.doc = d])
                            /\ UNCHANGED <<members, completed, boot, access, report, faults>>
    BY <1>1 DEF LoginFind
  <2> DEFINE read == [Blank EXCEPT !.doc = d]
             l == IF members[d].status = "PENDING_ENROLLMENT" THEN "activate" ELSE "new_session"
  <2>2. read \in LocType /\ read.doc = d /\ l \in {"activate", "new_session"} /\ Start(p, l, read)
    BY <2>1, BlankType DEF LocType, Admins, Stored
  <2> HIDE DEF read, l
  <2>3. /\ pc' \in [Handlers -> Labels] /\ loc' \in [Handlers -> LocType]
        /\ boot = "up" /\ pc'[p] = l /\ loc'[p] = read /\ Moves(p)
    BY <1>0, <2>2, StartMoves DEF Labels
  <2>4. Admins' = Admins
    BY <1>0, <2>1, NothingWritten
  <2>5. Knows(p)' /\ Accounts(p)'
    BY <2>1, <2>2, <2>3, <2>4 DEF Knows, Accounts
  <2> QED BY <2>1, <2>3, <2>5, ReadStep DEF access, Inv, TypeOK
<1>2. CASE Activate(p)
  <2>1. /\ pc[p] = "activate" /\ Goto(p, "new_session") /\ boot = "up" /\ loc[p].doc \in Admins
        /\ members' = [members EXCEPT ![loc[p].doc].status = "ACTIVE"]
        /\ UNCHANGED <<completed, boot, access, loc, report, faults>>
    BY <1>0, <1>2 DEF Activate, Knows
  <2>2. Changes(loc[p].doc, "ACTIVE")
    BY <1>0, <2>1, IdsAssumption DEF Changes, Later, Admins, DocsOK, DocOK
  <2>3. Wrote
    BY <1>0, <2>2, ChangesWrites, ChangesSteps DEF Wrote
  <2>4. /\ pc' \in [Handlers -> Labels] /\ loc' \in [Handlers -> LocType]
        /\ pc'[p] = "new_session" /\ Moves(p)
    BY <1>0, <2>1, GotoMoves DEF Labels
  <2>5. Knows(p)' /\ Accounts(p)'
    BY <2>1, <2>4, FreeKnows DEF Free
  <2>6. Inv'
    BY <2>1, <2>3, <2>4, <2>5, HandlerStep DEF access, Inv, TypeOK
  <2> QED BY <2>3, <2>6 DEF Wrote
<1>3. CASE NewSession(p)
  <2>1. boot = "up" /\ Done(p) /\ signedIn' = TRUE /\ UNCHANGED <<members, completed, boot, ticket, report, faults>>
    BY <1>0, <1>3 DEF NewSession, Knows
  <2> QED BY <1>0, <2>1, DoneMoves, ReadStep
<1>4. CASE GateSession(p)
  <2>1. Start(p, "gate", Blank) /\ UNCHANGED <<members, completed, boot, access, report, faults>>
    BY <1>4 DEF GateSession
  <2>2. /\ pc' \in [Handlers -> Labels] /\ loc' \in [Handlers -> LocType]
        /\ boot = "up" /\ pc'[p] = "gate" /\ Moves(p)
    BY <1>0, <2>1, StartMoves, BlankType DEF Labels
  <2>3. Knows(p)' /\ Accounts(p)'
    BY <2>1, <2>2, FreeKnows DEF Free
  <2> QED BY <2>1, <2>2, <2>3, ReadStep DEF access, Inv, TypeOK
<1>5. CASE GateMember(p)
  <2>1. PICK l \in {"idle", "admitted"} : /\ boot = "up" /\ Goto(p, l)
                                         /\ UNCHANGED <<members, completed, boot, access, loc, report, faults>>
    BY <1>0, <1>5 DEF GateMember, Knows
  <2>2. /\ pc' \in [Handlers -> Labels] /\ loc' \in [Handlers -> LocType]
        /\ pc'[p] = l /\ Moves(p)
    BY <1>0, <2>1, GotoMoves DEF Labels
  <2>3. Knows(p)' /\ Accounts(p)'
    BY <2>1, <2>2, FreeKnows DEF Free
  <2> QED BY <2>1, <2>2, <2>3, ReadStep DEF access, Inv, TypeOK
<1> QED BY <1>1, <1>2, <1>3, <1>4, <1>5 DEF Login, Gate

LEMMA LifecycleStep ==
  ASSUME Inv, NEW p \in Handlers, Lifecycle(p)
  PROVE  Inv' /\ RegistryStep
<1>0. TypeOK /\ DocsOK /\ Knows(p)
  BY DEF Inv
<1>1. CASE SuspendFind(p) \/ ReactivateFind(p)
  <2>1. PICK l \in {"suspend", "reactivate"}, d \in Admins :
           /\ Begin(p, l, [Blank EXCEPT !.doc = d])
           /\ UNCHANGED <<members, completed, boot, access, report, faults>>
    BY <1>1 DEF SuspendFind, ReactivateFind
  <2> DEFINE read == [Blank EXCEPT !.doc = d]
  <2>2. read \in LocType /\ read.doc = d /\ Begin(p, l, read)
    BY <2>1, BlankType DEF LocType, Admins, Stored
  <2> HIDE DEF read
  <2>3. /\ pc' \in [Handlers -> Labels] /\ loc' \in [Handlers -> LocType]
        /\ boot = "up" /\ pc'[p] = l /\ loc'[p] = read /\ Moves(p)
    BY <2>2, BeginMoves DEF Labels
  <2>4. Admins' = Admins
    BY <1>0, <2>1, NothingWritten
  <2>5. Knows(p)' /\ Accounts(p)'
    BY <2>1, <2>2, <2>3, <2>4 DEF Knows, Accounts
  <2> QED BY <2>1, <2>3, <2>5, ReadStep DEF access, Inv, TypeOK
<1>2. CASE Suspend(p)
  <2>1. /\ Goto(p, "end_sessions") /\ boot = "up" /\ loc[p].doc \in Admins
        /\ members' = [members EXCEPT ![loc[p].doc].status = "SUSPENDED"]
        /\ UNCHANGED <<completed, boot, access, loc, report, faults>>
    BY <1>0, <1>2 DEF Suspend, Knows
  <2>2. Changes(loc[p].doc, "SUSPENDED")
    BY <1>0, <2>1, IdsAssumption DEF Changes, Later, Admins, DocsOK, DocOK
  <2>3. Wrote
    BY <1>0, <2>2, ChangesWrites, ChangesSteps DEF Wrote
  <2>4. /\ pc' \in [Handlers -> Labels] /\ loc' \in [Handlers -> LocType]
        /\ pc'[p] = "end_sessions" /\ Moves(p)
    BY <1>0, <2>1, GotoMoves DEF Labels
  <2>5. Knows(p)' /\ Accounts(p)'
    BY <2>1, <2>4, FreeKnows DEF Free
  <2>6. Inv'
    BY <2>1, <2>3, <2>4, <2>5, HandlerStep DEF access, Inv, TypeOK
  <2> QED BY <2>3, <2>6 DEF Wrote
<1>3. CASE EndSessions(p)
  <2>1. boot = "up" /\ Done(p) /\ signedIn' = FALSE /\ UNCHANGED <<members, completed, boot, ticket, report, faults>>
    BY <1>0, <1>3 DEF EndSessions, Knows
  <2> QED BY <1>0, <2>1, DoneMoves, ReadStep
<1>4. CASE Reactivate(p)
  <2>1. /\ Done(p) /\ boot = "up" /\ loc[p].doc \in Admins
        /\ members' = [members EXCEPT ![loc[p].doc].status = "PENDING_ENROLLMENT"]
        /\ UNCHANGED <<completed, boot, access, report, faults>>
    BY <1>0, <1>4 DEF Reactivate, Knows
  <2>2. Changes(loc[p].doc, "PENDING_ENROLLMENT")
    BY <1>0, <2>1, IdsAssumption DEF Changes, Later, Admins, DocsOK, DocOK
  <2>3. Wrote
    BY <1>0, <2>2, ChangesWrites, ChangesSteps DEF Wrote
  <2>4. Inv'
    BY <1>0, <2>1, <2>3, DoneMoves, HandlerStep DEF access, Inv, TypeOK
  <2> QED BY <2>3, <2>4 DEF Wrote
<1> QED BY <1>1, <1>2, <1>3, <1>4 DEF Lifecycle

----------------------------------------------------------------------------
(* Approvals                                                               *)

LEMMA ApproveStep ==
  ASSUME Inv, NEW p \in Handlers, Approve(p)
  PROVE  Inv' /\ RegistryStep
<1>0. TypeOK /\ DocsOK /\ Knows(p)
  BY DEF Inv
<1>1. CASE ApproveFind(p)
  <2>1. PICK d \in Stored : /\ members[d].status = "STAGED"
                            /\ Begin(p, "pick_id", [Blank EXCEPT !.doc = d])
                            /\ UNCHANGED <<members, completed, boot, access, report, faults>>
    BY <1>1 DEF ApproveFind
  <2> DEFINE read == [Blank EXCEPT !.doc = d]
  <2>2. read \in LocType /\ read.doc = d /\ Begin(p, "pick_id", read)
    BY <2>1, BlankType DEF LocType, Stored
  <2> HIDE DEF read
  <2>3. /\ pc' \in [Handlers -> Labels] /\ loc' \in [Handlers -> LocType]
        /\ boot = "up" /\ pc'[p] = "pick_id" /\ loc'[p] = read /\ Moves(p)
    BY <2>2, BeginMoves DEF Labels
  <2>4. d \in Stored \ Admins
    BY <1>0, <2>1, IdsAssumption DEF Admins, DocsOK, DocOK
  <2>5. Admins' = Admins /\ Stored' = Stored
    BY <1>0, <2>1, NothingWritten
  <2>6. Knows(p)' /\ Accounts(p)'
    BY <2>1, <2>2, <2>3, <2>4, <2>5 DEF Knows, Accounts
  <2> QED BY <2>1, <2>3, <2>6, ReadStep DEF access, Inv, TypeOK
<1>2. CASE PickId(p)
  <2>1. PICK id \in Ids :
           /\ pc[p] = "pick_id"
           /\ IF id \notin IdsIn
              THEN Goto(p, "issue") /\ loc' = [loc EXCEPT ![p].id = id]
              ELSE IF loc[p].tries + 1 < MaxTries
              THEN pc' = pc /\ loc' = [loc EXCEPT ![p].tries = @ + 1]
              ELSE Done(p)
           /\ UNCHANGED <<members, completed, boot, access, report, faults>>
    BY <1>2 DEF PickId
  <2>2. boot = "up" /\ loc[p].doc \in Stored \ Admins /\ loc[p] \in LocType
    BY <1>0, <2>1 DEF Knows, TypeOK
  <2>3. Admins' = Admins /\ Stored' = Stored
    BY <1>0, <2>1, NothingWritten
  <2>4. CASE Goto(p, "issue") /\ loc' = [loc EXCEPT ![p].id = id]
    <3>1. /\ pc' \in [Handlers -> Labels] /\ loc' \in [Handlers -> LocType] /\ pc'[p] = "issue"
          /\ loc'[p].doc = loc[p].doc /\ loc'[p].id = id /\ Moves(p)
      BY <1>0, <2>2, <2>4 DEF TypeOK, Goto, Moves, Labels, LocType
    <3>2. Knows(p)' /\ Accounts(p)'
      BY <2>1, <2>2, <2>3, <3>1 DEF Knows, Accounts
    <3> QED BY <2>1, <2>2, <3>1, <3>2, ReadStep DEF access, Inv, TypeOK
  <2>5. CASE loc[p].tries + 1 < MaxTries /\ pc' = pc /\ loc' = [loc EXCEPT ![p].tries = @ + 1]
    <3>1. loc[p].tries + 1 \in 0 .. (MaxTries - 1)
      BY <2>2, <2>5, BoundsAssumption DEF LocType
    <3>2. /\ pc' \in [Handlers -> Labels] /\ loc' \in [Handlers -> LocType] /\ pc'[p] = "pick_id"
          /\ loc'[p].doc = loc[p].doc /\ Moves(p)
      BY <1>0, <2>1, <2>2, <2>5, <3>1 DEF TypeOK, Moves, LocType
    <3>3. Knows(p)' /\ Accounts(p)'
      BY <2>1, <2>2, <2>3, <3>2 DEF Knows, Accounts
    <3> QED BY <2>1, <2>2, <3>2, <3>3, ReadStep DEF access, Inv, TypeOK
  <2>6. CASE Done(p)
    BY <1>0, <2>1, <2>2, <2>6, DoneMoves, ReadStep DEF access, Inv, TypeOK
  <2> QED BY <2>1, <2>4, <2>5, <2>6
<1>3. CASE Issue(p)
  <2>1. /\ Done(p) /\ UNCHANGED <<completed, boot, access, report, faults>>
        /\ boot = "up" /\ loc[p].doc \in Stored \ Admins /\ loc[p].id \in Ids
    BY <1>0, <1>3 DEF Issue, Knows
  <2>2. CASE \E d \in Stored \ {loc[p].doc} : members[d].id = loc[p].id
    BY <1>0, <1>3, <2>1, <2>2, DoneMoves, ReadStep DEF Issue, access, Inv, TypeOK
  <2>3. CASE ~ \E d \in Stored \ {loc[p].doc} : members[d].id = loc[p].id
    <3>1. Issues(loc[p].doc, loc[p].id)
      BY <1>3, <2>1, <2>3 DEF Issue, Issues
    <3>2. Wrote
      BY <1>0, <3>1, IssuesWrites, IssuesSteps DEF Wrote
    <3>3. Inv'
      BY <1>0, <2>1, <3>2, DoneMoves, HandlerStep DEF access, Inv, TypeOK
    <3> QED BY <3>2, <3>3 DEF Wrote
  <2> QED BY <2>2, <2>3
<1> QED BY <1>1, <1>2, <1>3 DEF Approve

----------------------------------------------------------------------------
(* Imports                                                                 *)

(* A file is a sequence of rows: addresses, or None.                        *)
LEMMA FileRows ==
  ASSUME NEW file \in Files \cup {<<>>}
  PROVE  /\ Len(file) \in Nat
         /\ \A i \in 1 .. Len(file) : file[i] \in Emails \cup {None}
         /\ file # <<>> => Len(file) # 0
         /\ file = <<>> => Len(file) = 0
<1>1. CASE file \in Files
  <2>1. file \in Seq(Emails \cup {None})
    BY <1>1, FilesAssumption
  <2> QED BY <2>1
<1>2. CASE file = <<>>
  BY <1>2
<1> QED BY <1>1, <1>2

LEMMA ImportStartStep ==
  ASSUME Inv, NEW p \in Handlers, ImportStart(p)
  PROVE  Inv' /\ RegistryStep
<1>0. TypeOK
  BY DEF Inv
<1>1. PICK file \in Files : /\ Begin(p, IF file = <<>> THEN "record" ELSE "validate",
                                       [Blank EXCEPT !.file = file, !.i = 1])
                            /\ UNCHANGED <<members, completed, boot, access, report, faults>>
  BY DEF ImportStart
<1> DEFINE read == [Blank EXCEPT !.file = file, !.i = 1]
           l == IF file = <<>> THEN "record" ELSE "validate"
<1>2. /\ read \in LocType /\ read.file = file /\ read.i = 1
      /\ read.good = {} /\ read.errors = {} /\ read.staged = {}
  <2>1. PICK b \in LocType : b = Blank
    BY BlankType
  <2>2. PICK r : r = [b EXCEPT !.file = file, !.i = 1]
    OBVIOUS
  <2>3. /\ r \in LocType /\ r.file = file /\ r.i = 1
        /\ r.good = b.good /\ r.errors = b.errors /\ r.staged = b.staged
    BY <2>2 DEF LocType
  <2>4. b.good = {} /\ b.errors = {} /\ b.staged = {}
    BY <2>1 DEF Blank
  <2> QED BY <2>1, <2>2, <2>3, <2>4
<1>3. Begin(p, l, read) /\ l \in {"record", "validate"} /\ (l = "record" <=> file = <<>>)
  BY <1>1
<1> HIDE DEF read, l
<1>4. /\ pc' \in [Handlers -> Labels] /\ loc' \in [Handlers -> LocType]
      /\ boot = "up" /\ pc'[p] = l /\ loc'[p] = read /\ Moves(p)
  BY <1>2, <1>3, BeginMoves DEF Labels
<1>5. Knows(p)'
  BY <1>1, <1>3, <1>4 DEF Knows
<1>6. Accounts(p)'
  <2>1. Len(file) \in Nat /\ (file # <<>> => 1 \in 1 .. Len(file)) /\ (file = <<>> => Len(file) = 0)
    BY FileRows
  <2>2. Split(0, {}, {}, {}) /\ Firsts({}) = {}
    BY DEF Split, Firsts
  <2>3. CASE l = "validate"
    BY <1>2, <1>3, <1>4, <2>1, <2>2, <2>3 DEF Accounts, Backed, Split
  <2>4. CASE l = "record"
    BY <1>2, <1>3, <1>4, <2>1, <2>2, <2>4 DEF Accounts, Backed, Split, Firsts
  <2> QED BY <1>3, <2>3, <2>4
<1> QED BY <1>1, <1>4, <1>5, <1>6, ReadStep DEF access, Inv, TypeOK

LEMMA ValidateStep ==
  ASSUME Inv, NEW p \in Handlers, Validate(p)
  PROVE  Inv' /\ RegistryStep
<1> DEFINE l == loc[p]
           i == loc[p].i
           n == Len(loc[p].file)
<1>0. TypeOK /\ DocsOK /\ Knows(p) /\ Accounts(p) /\ l \in LocType
  BY DEF Inv, TypeOK
<1>1. /\ pc[p] = "validate" /\ boot = "up" /\ UNCHANGED <<members, completed, boot, access, report, faults>>
      /\ loc' = IF Refused(p, l.file[i]) THEN [loc EXCEPT ![p].errors = @ \cup {i}, ![p].i = @ + 1]
                ELSE [loc EXCEPT ![p].good = @ \cup {i}, ![p].i = @ + 1]
      /\ Goto(p, IF i < n THEN "validate" ELSE IF loc'[p].good = {} THEN "record" ELSE "insert")
  BY <1>0 DEF Validate, Knows
<1>2. /\ n \in Nat /\ i \in 1 .. n /\ i \in Nat /\ l.file \in Files \cup {<<>>}
      /\ l.file[i] \in Emails \cup {None}
  BY <1>0, <1>1, FileRows DEF Accounts, LocType
<1>3. /\ loc' \in [Handlers -> LocType] /\ Moves(p)
      /\ loc'[p].file = l.file /\ loc'[p].i = i + 1 /\ loc'[p].staged = l.staged
      /\ \/ /\ Refused(p, l.file[i])
            /\ loc'[p].errors = l.errors \cup {i} /\ loc'[p].good = l.good
         \/ /\ ~ Refused(p, l.file[i])
            /\ loc'[p].errors = l.errors /\ loc'[p].good = l.good \cup {i}
  <2>1. PICK r \in LocType : r = loc[p]
    BY <1>0
  <2>2. CASE Refused(p, l.file[i])
    <3>4. r.errors \in SUBSET Nat /\ i \in Nat /\ r.i = i
      BY <1>2, <2>1 DEF LocType
    <3> HIDE DEF i
    <3>5. r.errors \cup {i} \in SUBSET Nat /\ r.i + 1 \in Nat
      BY <3>4
    <3>0. PICK S \in SUBSET Nat, m \in Nat : S = r.errors \cup {i} /\ m = r.i + 1
      BY <3>5
    <3> USE DEF i
    <3>1. loc' = [loc EXCEPT ![p] = [r EXCEPT !.errors = S, !.i = m]]
      BY <1>1, <2>1, <2>2, <3>0 DEF TypeOK
    <3>2. PICK k : k = [r EXCEPT !.errors = S, !.i = m]
      OBVIOUS
    <3>3. /\ k \in LocType /\ k.file = r.file /\ k.i = r.i + 1 /\ k.staged = r.staged
          /\ k.errors = r.errors \cup {i} /\ k.good = r.good
      BY <3>0, <3>2 DEF LocType
    <3> QED BY <1>0, <1>1, <2>1, <2>2, <3>1, <3>2, <3>3, ZenonT(40) DEF TypeOK, Moves, Goto
  <2>3. CASE ~ Refused(p, l.file[i])
    <3>4. r.good \in SUBSET Nat /\ i \in Nat /\ r.i = i
      BY <1>2, <2>1 DEF LocType
    <3> HIDE DEF i
    <3>5. r.good \cup {i} \in SUBSET Nat /\ r.i + 1 \in Nat
      BY <3>4
    <3>0. PICK S \in SUBSET Nat, m \in Nat : S = r.good \cup {i} /\ m = r.i + 1
      BY <3>5
    <3> USE DEF i
    <3>1. loc' = [loc EXCEPT ![p] = [r EXCEPT !.good = S, !.i = m]]
      BY <1>1, <2>1, <2>3, <3>0 DEF TypeOK
    <3>2. PICK k : k = [r EXCEPT !.good = S, !.i = m]
      OBVIOUS
    <3>3. /\ k \in LocType /\ k.file = r.file /\ k.i = r.i + 1 /\ k.staged = r.staged
          /\ k.errors = r.errors /\ k.good = r.good \cup {i}
      BY <3>0, <3>2 DEF LocType
    <3> QED BY <1>0, <1>1, <2>1, <2>3, <3>1, <3>2, <3>3, ZenonT(40) DEF TypeOK, Moves, Goto
  <2> QED BY <2>2, <2>3
<1>4. /\ pc' \in [Handlers -> Labels]
      /\ pc'[p] = IF i < n THEN "validate" ELSE IF loc'[p].good = {} THEN "record" ELSE "insert"
  BY <1>0, <1>1 DEF TypeOK, Goto, Labels
<1>5. Knows(p)'
  BY <1>1, <1>4 DEF Knows
<1>6. /\ Split(i - 1, l.good, l.errors, {}) /\ l.staged = {}
      /\ \A j \in l.good : l.file[j] \in Emails
      /\ faults = 0 => \A j \in l.errors : l.file[j] \in EmailsIn \cup {None} \cup Seen(p)
  BY <1>0, <1>1 DEF Accounts
<1>7. Split(i, loc'[p].good, loc'[p].errors, {})
  BY <1>2, <1>3, <1>6 DEF Split
<1>8. \A j \in loc'[p].good : l.file[j] \in Emails
  BY <1>2, <1>3, <1>6 DEF Refused
<1>9. EmailsIn' = EmailsIn /\ faults' = faults
  BY <1>0, <1>1, NothingWritten
<1>10. faults = 0 => \A j \in loc'[p].errors : l.file[j] \in EmailsIn \cup {None} \cup Seen(p)'
  <2>1. Seen(p)' = {l.file[j] : j \in loc'[p].good}
    BY <1>3 DEF Seen
  <2>2. Seen(p) \subseteq Seen(p)'
    BY <1>3, <2>1 DEF Seen
  <2>3. Refused(p, l.file[i]) => l.file[i] \in EmailsIn \cup {None} \cup Seen(p)
    BY DEF Refused
  <2> QED BY <1>3, <1>6, <2>2, <2>3
<1>11. Firsts({}) = {} /\ Backed(l.file, {})'
  BY DEF Firsts, Backed
<1>12. Accounts(p)'
  <2>1. CASE i < n
    <3>1. pc'[p] = "validate" /\ i + 1 \in 1 .. n /\ (i + 1) - 1 = i
      BY <1>2, <1>4, <2>1
    <3> QED BY <1>3, <1>6, <1>7, <1>8, <1>9, <1>10, <1>11, <3>1 DEF Accounts, Backed, Split
  <2>2. CASE ~ (i < n)
    <3>1. i = n /\ pc'[p] \in {"record", "insert"} /\ (pc'[p] = "record" <=> loc'[p].good = {})
      BY <1>2, <1>4, <2>2
    <3> QED BY <1>3, <1>6, <1>7, <1>8, <1>9, <1>10, <1>11, <3>1 DEF Accounts, Backed, Split, Firsts
  <2> QED BY <2>1, <2>2
<1> QED BY <1>1, <1>3, <1>4, <1>5, <1>12, ReadStep DEF access, Inv, TypeOK

\* row i is done with: it is noted as an error, or as staged in a new document
Noted(p, i, errors, staged) ==
    \/ errors = {i} /\ staged = {}
    \/ errors = {} /\ \E d \in Docs \ Stored : /\ staged = {<<i, d>>} /\ d \in Stored'
                                                /\ members'[d].email = loc[p].file[i]

LEMMA PastRow ==
  ASSUME Inv, Wrote, NEW p \in Handlers, pc[p] = "insert", NEW i \in loc[p].good,
         NEW errors, NEW staged, Past(p, i, errors, staged), Noted(p, i, errors, staged),
         boot' = boot, faults' = 0 => faults = 0 /\ loc[p].file[i] \in EmailsIn'
  PROVE  /\ pc' \in [Handlers -> Labels] /\ loc' \in [Handlers -> LocType]
         /\ boot = "up" /\ Moves(p) /\ Knows(p)' /\ Accounts(p)'
<1>0. TypeOK /\ Knows(p) /\ Accounts(p) /\ boot = "up"
  BY DEF Inv, Knows
<1>1. PICK l \in LocType : l = loc[p]
  BY <1>0 DEF TypeOK
<1>2. i \in Nat /\ i \in l.good
  BY <1>1 DEF LocType
<1>3. errors \in SUBSET Nat /\ staged \in SUBSET (Nat \X Docs)
  BY <1>2 DEF Noted
<1>4. PICK G \in SUBSET Nat, E \in SUBSET Nat, S \in SUBSET (Nat \X Docs) :
         G = l.good \ {i} /\ E = l.errors \cup errors /\ S = l.staged \cup staged
  <2>1. l.good \ {i} \in SUBSET Nat /\ l.errors \cup errors \in SUBSET Nat
    BY <1>3 DEF LocType
  <2>2. l.staged \cup staged \in SUBSET (Nat \X Docs)
    BY <1>3 DEF LocType
  <2> QED BY <2>1, <2>2
<1>5. PICK k : k = [l EXCEPT !.good = G, !.errors = E, !.staged = S]
  OBVIOUS
<1>6. k \in LocType /\ k.file = l.file /\ k.good = G /\ k.errors = E /\ k.staged = S
  BY <1>5 DEF LocType
<1>7. loc' = [loc EXCEPT ![p] = k]
  BY <1>0, <1>1, <1>4, <1>5 DEF Past, TypeOK
<1>8. loc' \in [Handlers -> LocType] /\ loc'[p] = k /\ Moves(p)
  BY <1>0, <1>6, <1>7, ZenonT(40) DEF TypeOK, Past, Goto, Moves
<1>9. /\ pc' \in [Handlers -> Labels]
      /\ pc'[p] = IF G = {} THEN "record" ELSE "insert"
  BY <1>0, <1>1, <1>2, <1>4 DEF TypeOK, Past, Goto, Labels
<1>10. Knows(p)'
  BY <1>0, <1>9 DEF Knows
<1>11. /\ Split(Len(l.file), l.good, l.errors, Firsts(l.staged)) /\ Backed(l.file, l.staged)
       /\ \A j \in l.good : l.file[j] \in Emails
       /\ faults = 0 => \A j \in l.errors : l.file[j] \in EmailsIn \cup {None} \cup Seen(p)
  BY <1>0, <1>1 DEF Accounts
<1>12. Split(Len(l.file), G, E, Firsts(S)) /\ Backed(l.file, S)'
  <2>1. Backed(l.file, l.staged)'
    BY <1>11, BackedKept
  <2>2. CASE errors = {i} /\ staged = {}
    <3>1. S = l.staged
      BY <1>4, <2>2
    <3>2. Split(Len(l.file), G, E, Firsts(S))
      BY <1>2, <1>4, <1>11, <2>2, <3>1 DEF Split
    <3> QED BY <2>1, <3>1, <3>2
  <2>3. CASE errors = {} /\ \E d \in Docs \ Stored : /\ staged = {<<i, d>>} /\ d \in Stored'
                                                     /\ members'[d].email = loc[p].file[i]
    <3>1. PICK d \in Docs \ Stored : /\ staged = {<<i, d>>} /\ d \in Stored'
                                     /\ members'[d].email = l.file[i]
      BY <1>1, <2>3
    <3>2. Firsts(S) = Firsts(l.staged) \cup {i}
      <4> DEFINE t == <<i, d>>
      <4>1. t[1] = i /\ S = l.staged \cup {t}
        BY <1>4, <3>1
      <4> HIDE DEF t
      <4>2. Firsts(S) \subseteq Firsts(l.staged) \cup {i}
        BY <4>1 DEF Firsts
      <4>3. Firsts(l.staged) \subseteq Firsts(S)
        BY <4>1 DEF Firsts
      <4>4. i \in Firsts(S)
        <5>1. t \in S
          BY <4>1
        <5>2. t[1] \in Firsts(S)
          BY <5>1 DEF Firsts
        <5> QED BY <4>1, <5>2
      <4> QED BY <4>2, <4>3, <4>4
    <3>3. E = l.errors
      BY <1>4, <2>3
    <3>4. Split(Len(l.file), G, E, Firsts(S))
      BY <1>2, <1>4, <1>11, <3>2, <3>3, ZenonT(40) DEF Split
    <3>5. \A s \in l.staged : s[1] # i /\ s[2] # d
      BY <1>2, <1>11 DEF Split, Firsts, Backed
    <3>6. Backed(l.file, S)'
      <4> DEFINE t == <<i, d>>
      <4>1. t[1] = i /\ t[2] = d /\ \A s \in S : s \in l.staged \/ s = t
        BY <1>4, <3>1
      <4> HIDE DEF t
      <4> QED BY <2>1, <3>1, <3>5, <4>1 DEF Backed
    <3> QED BY <3>4, <3>6
  <2> QED BY <2>2, <2>3 DEF Noted
<1>13. faults' = 0 => \A j \in E : l.file[j] \in EmailsIn' \cup {None} \cup Seen(p)'
  <2> SUFFICES ASSUME faults' = 0, NEW j \in E
               PROVE  l.file[j] \in EmailsIn' \cup {None} \cup Seen(p)'
    OBVIOUS
  <2>1. Seen(p)' = {l.file[x] : x \in G} /\ Seen(p) = {l.file[x] : x \in l.good}
    BY <1>1, <1>6, <1>8 DEF Seen
  <2>2. EmailsIn \subseteq EmailsIn' /\ l.file[i] \in EmailsIn'
    BY <1>1 DEF Wrote
  <2>3. CASE j \in l.errors
    <3>1. l.file[j] \in EmailsIn \cup {None} \cup Seen(p)
      BY <1>11, <2>3
    <3>2. Seen(p) \subseteq Seen(p)' \cup {l.file[i]}
      BY <1>4, <2>1
    <3> QED BY <2>2, <3>1, <3>2
  <2>4. CASE j \notin l.errors
    BY <1>4, <2>2, <2>4 DEF Noted
  <2> QED BY <2>3, <2>4
<1>14. Accounts(p)'
  <2>1. pc'[p] \in {"insert", "record"} /\ (pc'[p] = "record" <=> G = {})
    BY <1>9
  <2>2. \A j \in G : l.file[j] \in Emails
    BY <1>4, <1>11
  <2> QED BY <1>6, <1>8, <1>12, <1>13, <2>1, <2>2 DEF Accounts, Backed, Split, Firsts
<1> QED BY <1>0, <1>8, <1>9, <1>10, <1>14

LEMMA InsertStep ==
  ASSUME Inv, NEW p \in Handlers, Insert(p) \/ InsertFails(p)
  PROVE  Inv' /\ RegistryStep
<1>0. TypeOK /\ DocsOK /\ AdminFirst
  BY DEF Inv
<1>10. PICK i \in loc[p].good : \E errors, staged :
         /\ pc[p] = "insert" /\ Past(p, i, errors, staged)
         /\ UNCHANGED <<completed, boot, access, report>>
         /\ \/ faults' = faults
            \/ faults' = faults + 1 /\ faults < MaxFaults
         /\ \/ /\ members' = members /\ errors = {i} /\ staged = {}
               /\ loc[p].file[i] \in EmailsIn \/ faults' = faults + 1
            \/ \E d \in Docs : /\ loc[p].file[i] \notin EmailsIn
                               /\ InsertMember(d, loc[p].file[i], "member", None, "STAGED")
                               /\ \/ errors = {} /\ staged = {<<i, d>>}
                                  \/ errors = {i} /\ staged = {}
  BY DEF Insert, InsertFails, NextRow
<1>1. PICK errors, staged :
         /\ pc[p] = "insert" /\ Past(p, i, errors, staged)
         /\ UNCHANGED <<completed, boot, access, report>>
         /\ \/ faults' = faults
            \/ faults' = faults + 1 /\ faults < MaxFaults
         /\ \/ /\ members' = members /\ errors = {i} /\ staged = {}
               /\ loc[p].file[i] \in EmailsIn \/ faults' = faults + 1
            \/ \E d \in Docs : /\ loc[p].file[i] \notin EmailsIn
                               /\ InsertMember(d, loc[p].file[i], "member", None, "STAGED")
                               /\ \/ errors = {} /\ staged = {<<i, d>>}
                                  \/ errors = {i} /\ staged = {}
  BY <1>10
<1>2. /\ boot = "up" /\ AdminEmail \in EmailsIn /\ loc[p].file[i] \in Emails
  BY <1>0, <1>1 DEF Inv, Knows, Accounts, AdminFirst
<1>3. faults \in Nat /\ faults' \in 0 .. MaxFaults /\ (faults' = 0 => faults' = faults)
  BY <1>0, <1>1, BoundsAssumption DEF TypeOK
<1>4. Wrote /\ Noted(p, i, errors, staged) /\ (faults' = 0 => loc[p].file[i] \in EmailsIn')
  <2>1. CASE /\ members' = members /\ errors = {i} /\ staged = {}
             /\ loc[p].file[i] \in EmailsIn \/ faults' = faults + 1
    <3>1. Wrote /\ EmailsIn' = EmailsIn
      BY <1>0, <2>1, NothingWritten
    <3>2. faults' = 0 => loc[p].file[i] \in EmailsIn
      BY <1>3, <2>1
    <3> QED BY <2>1, <3>1, <3>2 DEF Noted
  <2>2. ASSUME NEW d \in Docs, loc[p].file[i] \notin EmailsIn,
               InsertMember(d, loc[p].file[i], "member", None, "STAGED"),
               \/ errors = {} /\ staged = {<<i, d>>}
               \/ errors = {i} /\ staged = {}
        PROVE  Wrote /\ Noted(p, i, errors, staged) /\ loc[p].file[i] \in EmailsIn'
    <3>1. Inserts(d, loc[p].file[i], "member", None, "STAGED")
      BY <1>2, <2>2 DEF Inserts
    <3>2. Written /\ Stored' = Stored \cup {d} /\ EmailsIn' = EmailsIn \cup {loc[p].file[i]}
      BY <1>0, <3>1, InsertsWrites
    <3>3. RegistryStep
      BY <1>0, <1>2, <3>1, InsertsSteps
    <3>4. d \in Docs \ Stored /\ members'[d].email = loc[p].file[i]
      BY <1>0, <2>2 DEF InsertMember, TypeOK
    <3> QED BY <2>2, <3>2, <3>3, <3>4 DEF Wrote, Noted
  <2> QED BY <1>1, <2>1, <2>2
<1>5. /\ pc' \in [Handlers -> Labels] /\ loc' \in [Handlers -> LocType]
      /\ Moves(p) /\ Knows(p)' /\ Accounts(p)'
  BY <1>1, <1>3, <1>4, PastRow
<1>6. Inv'
  BY <1>1, <1>2, <1>3, <1>4, <1>5, HandlerStep DEF access, Inv, TypeOK
<1> QED BY <1>4, <1>6 DEF Wrote

LEMMA RecordRunStep ==
  ASSUME Inv, NEW p \in Handlers, RecordRun(p)
  PROVE  Inv' /\ RegistryStep
<1>0. TypeOK /\ DocsOK /\ Knows(p) /\ Accounts(p) /\ loc[p] \in LocType
  BY DEF Inv, TypeOK
<1>1. /\ pc[p] = "record" /\ boot = "up" /\ Done(p)
      /\ report' = [file |-> loc[p].file, errors |-> loc[p].errors, staged |-> loc[p].staged]
      /\ UNCHANGED <<members, completed, boot, access, faults>>
  BY <1>0 DEF RecordRun, Knows
<1>2. Wrote /\ EmailsIn' = EmailsIn
  BY <1>0, <1>1, NothingWritten
<1>3. /\ pc' \in [Handlers -> Labels] /\ loc' \in [Handlers -> LocType]
      /\ Moves(p) /\ Knows(p)' /\ Accounts(p)'
  BY <1>0, <1>1, DoneMoves
<1>4. TypeOK'
  BY <1>0, <1>1, <1>2, <1>3 DEF TypeOK, Wrote, Written, access, LocType
<1>5. Reported'
  <2>1. /\ loc[p].good = {} /\ Backed(loc[p].file, loc[p].staged)
        /\ Split(Len(loc[p].file), loc[p].good, loc[p].errors, Firsts(loc[p].staged))
        /\ faults = 0 => \A j \in loc[p].errors : loc[p].file[j] \in EmailsIn \cup {None} \cup Seen(p)
    BY <1>0, <1>1 DEF Accounts
  <2>3. Seen(p) = {}
    BY <2>1 DEF Seen
  <2>4. Backed(report.file, report.staged)'
    BY <1>0, <1>1, <2>1, NothingWritten DEF Backed
  <2>5. /\ report'.file = loc[p].file /\ report'.errors = loc[p].errors
        /\ report'.staged = loc[p].staged
    BY <1>1
  <2> QED BY <1>1, <1>2, <2>1, <2>3, <2>4, <2>5 DEF Reported, Backed, Split, Firsts
<1>6. \A r \in Handlers : Knows(r)' /\ Accounts(r)'
  BY <1>1, <1>2, <1>3, OthersKept DEF Moves
<1>7. AdminFirst'
  BY <1>0, <1>1, NothingWritten DEF Inv, AdminFirst
<1> QED BY <1>2, <1>4, <1>5, <1>6, <1>7 DEF Inv, Wrote, Written

LEMMA ImportStep ==
  ASSUME Inv, NEW p \in Handlers, Import(p)
  PROVE  Inv' /\ RegistryStep
  BY ImportStartStep, ValidateStep, InsertStep, RecordRunStep DEF Import

----------------------------------------------------------------------------
(* The start-up, enrolments, errors and restarts                           *)

LEMMA OutsideStep ==
  ASSUME Inv, Wrote, Stored' = Stored, EmailsIn' = EmailsIn,
         UNCHANGED <<completed, boot, pc, loc, report, faults>>,
         signedIn' \in BOOLEAN, ticket' \in BOOLEAN
  PROVE  Inv' /\ RegistryStep
<1>1. TypeOK'
  BY DEF Inv, TypeOK, Wrote, Written
<1>2. DocsOK' /\ AdminFirst'
  BY DEF Inv, AdminFirst, Wrote, Written
<1>3. \A r \in Handlers : Knows(r)' /\ Accounts(r)'
  BY OthersKept
<1>4. Reported'
  BY ReportKept
<1> QED BY <1>1, <1>2, <1>3, <1>4 DEF Inv, Wrote

LEMMA EnrolmentStep ==
  ASSUME Inv, Enrolment \/ SessionEnds
  PROVE  Inv' /\ RegistryStep
<1>0. TypeOK /\ DocsOK
  BY DEF Inv
<1>1. CASE Enrol
  <2>1. PICK d \in Stored \ Admins : /\ members[d].status = "PENDING_ENROLLMENT"
                                     /\ members' = [members EXCEPT ![d].status = "ACTIVE"]
    BY <1>1 DEF Enrol
  <2>2. Changes(d, "ACTIVE")
    BY <1>0, <2>1 DEF Changes, Later, DocsOK, DocOK
  <2>3. Wrote /\ Stored' = Stored /\ EmailsIn' = EmailsIn
    BY <1>0, <2>2, ChangesWrites, ChangesSteps DEF Wrote
  <2> QED BY <1>0, <1>1, <2>3, OutsideStep DEF Enrol, access, TypeOK
<1>2. CASE TicketUsed
  <2>1. PICK d \in Admins : members' = [members EXCEPT ![d].status = "ACTIVE"]
    BY <1>2 DEF TicketUsed
  <2>2. Changes(d, "ACTIVE")
    BY <1>0, <2>1, IdsAssumption DEF Changes, Later, Admins, DocsOK, DocOK
  <2>3. Wrote /\ Stored' = Stored /\ EmailsIn' = EmailsIn
    BY <1>0, <2>2, ChangesWrites, ChangesSteps DEF Wrote
  <2> QED BY <1>2, <2>3, OutsideStep DEF TicketUsed
<1>3. CASE TicketIssued \/ TicketExpires \/ SessionEnds
  <2>1. Wrote /\ Stored' = Stored /\ EmailsIn' = EmailsIn
    BY <1>0, <1>3, NothingWritten DEF TicketIssued, TicketExpires, SessionEnds
  <2> QED BY <1>0, <1>3, <2>1, OutsideStep DEF TicketIssued, TicketExpires, SessionEnds, TypeOK
<1> QED BY <1>1, <1>2, <1>3 DEF Enrolment

LEMMA FailStep ==
  ASSUME Inv, NEW p \in Handlers, Fail(p)
  PROVE  Inv' /\ RegistryStep
<1>1. /\ TypeOK /\ DocsOK /\ Done(p) /\ boot = "up" /\ faults' = faults + 1 /\ faults < MaxFaults
      /\ UNCHANGED <<members, completed, boot, access, report>>
  BY DEF Inv, Knows, Fail
<1>2. Wrote
  BY <1>1, NothingWritten
<1>3. faults' \in 0 .. MaxFaults /\ faults' # 0
  BY <1>1, BoundsAssumption DEF TypeOK
<1>4. Inv'
  BY <1>1, <1>2, <1>3, DoneMoves, HandlerStep DEF access, TypeOK
<1> QED BY <1>2, <1>4 DEF Wrote

LEMMA RestartStep ==
  ASSUME Inv, Restart
  PROVE  Inv' /\ RegistryStep
<1>0. TypeOK /\ DocsOK
  BY DEF Inv
<1>1. Wrote /\ Stored' = Stored /\ EmailsIn' = EmailsIn
  BY <1>0, NothingWritten DEF Restart
<1>2. faults' \in 0 .. MaxFaults /\ faults' # 0
  BY <1>0, BoundsAssumption DEF TypeOK, Restart
<1>3. TypeOK'
  BY <1>0, <1>2, BlankType DEF TypeOK, Restart, access, Labels
<1>4. AdminFirst'
  BY <1>1 DEF Inv, AdminFirst, Restart
<1>5. ASSUME NEW r \in Handlers PROVE Knows(r)' /\ Accounts(r)'
  <2>1. pc'[r] = "idle"
    BY DEF Restart
  <2> QED BY <2>1, FreeKnows DEF Free
<1>6. Reported'
  BY <1>1, <1>2, ReportKept DEF Restart
<1> QED BY <1>1, <1>3, <1>4, <1>5, <1>6 DEF Inv, Wrote, Written

LEMMA BootStep ==
  ASSUME Inv, Boot
  PROVE  Inv' /\ RegistryStep
<1>0. TypeOK /\ DocsOK /\ AdminFirst /\ UNCHANGED <<access, pc, loc, report, faults>>
  BY DEF Inv, Boot, BootFlag, BootFind, BootInsert, BootMark
<1>1. Wrote /\ AdminFirst' /\ completed' \in BOOLEAN /\ boot' \in {"flag", "find", "insert", "mark", "up"}
  <2>1. CASE BootFlag \/ BootFind \/ BootMark
    <3>1. members' = members
      BY <2>1 DEF BootFlag, BootFind, BootMark
    <3>2. Wrote /\ Stored' = Stored /\ EmailsIn' = EmailsIn
      BY <1>0, <3>1, NothingWritten
    <3>3. completed' \in BOOLEAN /\ boot' \in {"flag", "find", "insert", "mark", "up"}
      BY <1>0, <2>1 DEF BootFlag, BootFind, BootMark, TypeOK
    <3>4. Stored # {} => AdminEmail \in EmailsIn
      BY <1>0 DEF AdminFirst
    <3>5. /\ completed' \/ boot' \in {"mark", "up"} => AdminEmail \in EmailsIn
          /\ boot' = "insert" => AdminEmail \notin EmailsIn
      <4>1. CASE BootFlag
        BY <1>0, <4>1 DEF BootFlag, AdminFirst
      <4>2. CASE BootFind
        BY <1>0, <4>2 DEF BootFind, AdminFirst
      <4>3. CASE BootMark
        BY <1>0, <4>3 DEF BootMark, AdminFirst
      <4> QED BY <2>1, <4>1, <4>2, <4>3
    <3>6. AdminFirst'
      BY <3>2, <3>4, <3>5 DEF AdminFirst
    <3> QED BY <3>2, <3>3, <3>6
  <2>2. CASE BootInsert
    <3>1. PICK d \in Docs : InsertMember(d, AdminEmail, "admin", AdminId, "PENDING_ENROLLMENT")
      BY <2>2 DEF BootInsert
    <3>2. Inserts(d, AdminEmail, "admin", AdminId, "PENDING_ENROLLMENT")
      BY <1>0, <2>2, <3>1 DEF Inserts, AdminFirst, BootInsert
    <3>3. Written /\ EmailsIn' = EmailsIn \cup {AdminEmail}
      BY <1>0, <3>2, InsertsWrites
    <3>4. RegistryStep
      BY <1>0, <3>2, InsertsSteps
    <3> QED BY <1>0, <2>2, <3>3, <3>4 DEF BootInsert, AdminFirst, Wrote, TypeOK
  <2> QED BY <2>1, <2>2 DEF Boot
<1>2. boot # "up"
  BY DEF Boot, BootFlag, BootFind, BootInsert, BootMark
<1>3. ASSUME NEW r \in Handlers PROVE Knows(r)' /\ Accounts(r)'
  <2>1. pc'[r] = "idle"
    BY <1>0, <1>2 DEF Inv, Knows
  <2> QED BY <2>1, FreeKnows DEF Free
<1>4. Reported'
  BY <1>0, <1>1, ReportKept
<1>5. TypeOK'
  BY <1>0, <1>1 DEF TypeOK, access, Wrote, Written
<1> QED BY <1>1, <1>3, <1>4, <1>5 DEF Inv, Wrote, Written

----------------------------------------------------------------------------
(* The invariant                                                           *)

LEMMA InvInit == Init => Inv
<1> SUFFICES ASSUME Init PROVE Inv
  OBVIOUS
<1>1. NoMember \in MemberType /\ NoReport.file = <<>> /\ NoReport.errors = {} /\ NoReport.staged = {}
  BY DEF NoMember, MemberType, NoReport
<1>2. Stored = {} /\ EmailsIn = {}
  <2>1. \A d \in Docs : members[d].status = "none"
    BY DEF Init, NoMember
  <2> QED BY <2>1 DEF Stored, EmailsIn
<1>3. TypeOK
  <2>1. members \in [Docs -> MemberType]
    BY <1>1 DEF Init
  <2>2. pc \in [Handlers -> Labels] /\ loc \in [Handlers -> LocType]
    BY BlankType DEF Init, Labels
  <2>3. report \in [file : Files \cup {<<>>}, errors : SUBSET Nat, staged : SUBSET (Nat \X Docs)]
    BY DEF Init, NoReport
  <2>4. faults \in 0 .. MaxFaults
    BY BoundsAssumption DEF Init
  <2>5. /\ completed \in BOOLEAN /\ signedIn \in BOOLEAN /\ ticket \in BOOLEAN
        /\ boot \in {"flag", "find", "insert", "mark", "up"}
    BY DEF Init
  <2> QED BY <2>1, <2>2, <2>3, <2>4, <2>5 DEF TypeOK
<1>4. DocsOK /\ AdminFirst
  BY <1>2 DEF Init, DocsOK, AdminFirst
<1>5. \A r \in Handlers : Knows(r) /\ Accounts(r)
  BY DEF Init, Knows, Accounts
<1>6. Reported
  <2>1. Len(<<>>) = 0 /\ report.file = <<>> /\ report.errors = {} /\ report.staged = {}
    BY <1>1 DEF Init
  <2> QED BY <2>1 DEF Reported, Backed, Split, Firsts
<1> QED BY <1>3, <1>4, <1>5, <1>6 DEF Inv

LEMMA InvNext == Inv /\ [Next]_vars => Inv' /\ RegistryStep
<1> SUFFICES ASSUME Inv, [Next]_vars PROVE Inv' /\ RegistryStep
  OBVIOUS
<1>1. CASE Next
  BY <1>1, LoginStep, ImportStep, ApproveStep, LifecycleStep, FailStep, BootStep, EnrolmentStep,
     RestartStep DEF Next
<1>2. CASE UNCHANGED vars
  <2>1. Wrote /\ Stored' = Stored /\ EmailsIn' = EmailsIn
    BY <1>2, NothingWritten DEF Inv, vars
  <2> QED BY <1>2, <2>1, OutsideStep DEF vars, access, Inv, TypeOK
<1> QED BY <1>1, <1>2

LEMMA InvAlways == Spec => []Inv
<1>1. Inv /\ [Next]_vars => Inv'
  BY InvNext
<1> QED BY <1>1, InvInit, PTL DEF Spec

----------------------------------------------------------------------------
(* The safety properties of the runs                                       *)

\* Every variable keeps its type: what a handler has read is always a
\* document, an id it may issue, a row of its file.
THEOREM TypeCorrect == Spec => []TypeOK
<1>1. Inv => TypeOK
  BY DEF Inv
<1> QED BY <1>1, InvAlways, PTL

\* A record has a member id from its approval on, and no two records the same
\* (for any number of simultaneous approvals that pick any candidates).
THEOREM IdsSoundCorrect == Spec => []IdsSound
<1>1. Inv => IdsSound
  BY DEF Inv, DocsOK, DocOK, IdsSound
<1> QED BY <1>1, InvAlways, PTL

LEMMA AdminEmailOnly ==
  ASSUME Inv
  PROVE  /\ \A d \in Stored : d \in Admins <=> members[d].email = AdminEmail
         /\ \A d, e \in Admins : d = e
         /\ Admins # {} <=> AdminEmail \in EmailsIn
<1>1. ASSUME NEW d \in Stored PROVE members[d].role = "admin" <=> members[d].email = AdminEmail
  BY DEF Inv, DocsOK, DocOK
<1>2. \A d \in Stored : d \in Admins <=> members[d].email = AdminEmail
  BY <1>1 DEF Admins
<1>3. \A d, e \in Admins : d = e
  BY <1>2 DEF Admins, Inv, DocsOK
<1> QED BY <1>2, <1>3 DEF EmailsIn, Admins

\* At most one bootstrap administrator, and one once the bootstrap is recorded,
\* wherever the start-up is cut short.
THEOREM BootstrapSoundCorrect == Spec => []BootstrapSound
<1>1. ASSUME Inv PROVE BootstrapSound
  <2>1. completed => Admins # {}
    BY <1>1, AdminEmailOnly DEF Inv, AdminFirst
  <2>2. CASE Admins = {}
    BY <2>1, <2>2, FS_EmptySet DEF BootstrapSound
  <2>3. CASE Admins # {}
    <3>1. PICK d \in Admins : Admins = {d}
      BY <1>1, <2>3, AdminEmailOnly
    <3>2. Cardinality(Admins) = 1
      BY <3>1, FS_Singleton
    <3> QED BY <2>1, <3>2 DEF BootstrapSound
  <2> QED BY <2>2, <2>3
<1> QED BY <1>1, InvAlways, PTL

\* An import run accounts for every row of its file, and every row counted as
\* staged has a document of its own with the row's address, whatever ran at
\* the same time.
THEOREM RowsAccountedCorrect == Spec => []RowsAccounted
<1>1. ASSUME Inv PROVE RowsAccounted
  <2>1. /\ Backed(report.file, report.staged)
        /\ Split(Len(report.file), {}, report.errors, Firsts(report.staged))
    BY <1>1 DEF Inv, Reported
  <2> QED BY <2>1 DEF RowsAccounted, Rows, Backed, Split, Firsts
<1> QED BY <1>1, InvAlways, PTL

\* Without faults the system knows every valid address of an imported file.
THEOREM ImportCompleteCorrect == Spec => []ImportComplete
<1>1. ASSUME Inv PROVE ImportComplete
  <2> SUFFICES ASSUME faults = 0, NEW i \in Rows(report.file)
               PROVE  report.file[i] \in EmailsIn \cup {None}
    BY DEF ImportComplete
  <2>1. i \in report.errors \/ i \in Firsts(report.staged)
    BY <1>1 DEF Inv, Reported, Split, Rows
  <2>2. CASE i \in report.errors
    BY <1>1, <2>2 DEF Inv, Reported
  <2>3. CASE i \in Firsts(report.staged)
    <3>1. PICK s \in report.staged : i = s[1]
      BY <2>3 DEF Firsts
    <3>2. s[2] \in Stored /\ members[s[2]].email = report.file[i]
      BY <1>1, <3>1 DEF Inv, Reported, Backed
    <3> QED BY <3>2 DEF EmailsIn
  <2> QED BY <2>1, <2>2, <2>3
<1> QED BY <1>1, InvAlways, PTL

----------------------------------------------------------------------------
(* A lockout is final                                                      *)

Out == Admins' = Admins /\ \A d \in Admins : members'[d].status = "SUSPENDED"

\* no handler comes to a step that could undo it
Shut == \A r \in Handlers : pc'[r] \notin {"activate", "admitted", "reactivate"}

LEMMA SameOut ==
  ASSUME Inv, LockedOut, members' = members
  PROVE  Out
  BY NothingWritten DEF Inv, LockedOut, Out

LEMMA StagedOut ==
  ASSUME Inv, LockedOut, NEW d \in Docs, NEW email, InsertMember(d, email, "member", None, "STAGED")
  PROVE  Out
<1>1. /\ d \notin Stored /\ members'[d].role = "member"
      /\ \A x \in Docs \ {d} : members'[x] = members[x]
  BY DEF InsertMember, Inv, TypeOK
<1> QED BY <1>1 DEF LockedOut, Out, Admins, Stored

\* the status or the id of another document, or the status of the administrator
LEMMA ChangedOut ==
  ASSUME Inv, LockedOut, NEW d \in Stored, Stored' = Stored, Stable,
         \A x \in Docs \ {d} : members'[x] = members[x],
         d \in Admins => members'[d].status = "SUSPENDED"
  PROVE  Out
<1>1. Admins' = Admins
  BY DEF Admins, Stable
<1>2. \A x \in Admins \ {d} : members'[x].status = "SUSPENDED"
  BY DEF LockedOut, Admins, Stored
<1> QED BY <1>1, <1>2 DEF Out

LEMMA LockoutKept ==
  ASSUME LockedOut, Out, Shut, ~ticket'
  PROVE  LockedOut'
  BY DEF LockedOut, Out, Shut

LEMMA MovesShut ==
  ASSUME LockedOut, NEW p \in Handlers, Moves(p),
         pc'[p] \notin {"activate", "admitted", "reactivate"}
  PROVE  Shut
  BY DEF LockedOut, Moves, Shut

LEMMA LockoutNext == Inv /\ LockedOut /\ [Next]_vars => LockedOut'
<1> SUFFICES ASSUME Inv, LockedOut, [Next]_vars PROVE LockedOut'
  OBVIOUS
<1>0. TypeOK /\ DocsOK /\ ~ticket
  BY DEF Inv, LockedOut
<1>1. ASSUME NEW p \in Handlers, Login(p) \/ Gate(p) PROVE LockedOut'
  <2>1. ~ LoginFind(p) /\ ~ Activate(p)
    BY DEF LockedOut, LoginFind, Activate
  <2>2. CASE NewSession(p)
    BY <1>0, <2>2, SameOut, DoneMoves, MovesShut, LockoutKept DEF NewSession
  <2>3. CASE GateSession(p)
    <3>1. Start(p, "gate", Blank) /\ members' = members /\ ticket' = ticket
      BY <2>3 DEF GateSession, access
    <3>2. pc'[p] = "gate" /\ Moves(p)
      BY <1>0, <3>1, StartMoves, BlankType DEF Labels
    <3> QED BY <1>0, <3>1, <3>2, SameOut, MovesShut, LockoutKept
  <2>4. CASE GateMember(p)
    <3>1. Goto(p, "idle") /\ loc' = loc /\ members' = members /\ ticket' = ticket
      BY <2>4 DEF GateMember, LockedOut, access
    <3>2. pc'[p] = "idle" /\ Moves(p)
      BY <1>0, <3>1, GotoMoves DEF Labels
    <3> QED BY <1>0, <3>1, <3>2, SameOut, MovesShut, LockoutKept
  <2> QED BY <1>1, <2>1, <2>2, <2>3, <2>4 DEF Login, Gate
<1>2. ASSUME NEW p \in Handlers, Import(p) PROVE LockedOut'
  <2>1. ~ ImportStart(p)
    BY DEF LockedOut, ImportStart, Begin
  <2>2. CASE Validate(p)
    <3>1. /\ members' = members /\ ticket' = ticket
          /\ pc'[p] \in {"validate", "record", "insert"} /\ Moves(p)
      BY <1>0, <2>2 DEF Validate, Goto, TypeOK, Moves, access
    <3> QED BY <1>0, <3>1, SameOut, MovesShut, LockoutKept
  <2>3. CASE Insert(p) \/ InsertFails(p)
    <3>1. ticket' = ticket /\ pc'[p] \in {"insert", "record"} /\ Moves(p)
      BY <1>0, <2>3 DEF Insert, InsertFails, Past, Goto, TypeOK, Moves, access
    <3>2. \/ members' = members
          \/ \E d \in Docs : \E email : InsertMember(d, email, "member", None, "STAGED")
      BY <2>3 DEF Insert, InsertFails
    <3>3. Out
      BY <3>2, SameOut, StagedOut
    <3> QED BY <1>0, <3>1, <3>3, MovesShut, LockoutKept
  <2>4. CASE RecordRun(p)
    BY <1>0, <2>4, SameOut, DoneMoves, MovesShut, LockoutKept DEF RecordRun, access
  <2> QED BY <1>2, <2>1, <2>2, <2>3, <2>4 DEF Import
<1>3. ASSUME NEW p \in Handlers, Approve(p) PROVE LockedOut'
  <2>1. ~ ApproveFind(p)
    BY DEF LockedOut, ApproveFind, Begin
  <2>2. CASE PickId(p)
    <3>1. /\ members' = members /\ ticket' = ticket
          /\ pc'[p] \in {"idle", "pick_id", "issue"} /\ Moves(p)
      BY <1>0, <2>2 DEF PickId, Done, Goto, TypeOK, Moves, access
    <3> QED BY <1>0, <3>1, SameOut, MovesShut, LockoutKept
  <2>3. CASE Issue(p)
    <3>1. /\ pc[p] = "issue" /\ Done(p) /\ ticket' = ticket
          /\ loc[p].doc \in Stored \ Admins /\ loc[p].id \in Ids
      BY <2>3 DEF Issue, Inv, Knows, access
    <3>2. CASE members' = members
      BY <1>0, <3>1, <3>2, SameOut, DoneMoves, MovesShut, LockoutKept
    <3>3. CASE members' # members
      <4>1. Issues(loc[p].doc, loc[p].id)
        BY <2>3, <3>1, <3>3 DEF Issue, Issues
      <4>2. Written /\ Stored' = Stored
        BY <1>0, <4>1, IssuesWrites
      <4>3. \A x \in Docs \ {loc[p].doc} : members'[x] = members[x]
        BY <1>0, <4>1 DEF Issues, TypeOK
      <4>4. Out
        BY <3>1, <4>2, <4>3, ChangedOut DEF Written
      <4> QED BY <1>0, <3>1, <4>4, DoneMoves, MovesShut, LockoutKept
    <3> QED BY <3>2, <3>3
  <2> QED BY <1>3, <2>1, <2>2, <2>3 DEF Approve
<1>4. ASSUME NEW p \in Handlers, Lifecycle(p) PROVE LockedOut'
  <2>1. ~ SuspendFind(p) /\ ~ ReactivateFind(p) /\ ~ Reactivate(p)
    BY DEF LockedOut, SuspendFind, ReactivateFind, Reactivate, Begin
  <2>2. CASE Suspend(p)
    <3>1. /\ Goto(p, "end_sessions") /\ loc' = loc /\ loc[p].doc \in Admins /\ ticket' = ticket
          /\ members' = [members EXCEPT ![loc[p].doc].status = "SUSPENDED"]
      BY <2>2 DEF Suspend, Inv, Knows, access
    <3>2. Changes(loc[p].doc, "SUSPENDED")
      BY <1>0, <3>1, IdsAssumption DEF Changes, Later, Admins, DocsOK, DocOK
    <3>3. Written /\ Stored' = Stored /\ loc[p].doc \in Stored
      BY <1>0, <3>2, ChangesWrites DEF Changes
    <3>4. /\ \A x \in Docs \ {loc[p].doc} : members'[x] = members[x]
          /\ members'[loc[p].doc].status = "SUSPENDED"
      BY <1>0, <3>1 DEF TypeOK, Admins, Stored, MemberType
    <3>5. Out
      BY <3>3, <3>4, ChangedOut DEF Written
    <3>6. pc'[p] = "end_sessions" /\ Moves(p)
      BY <1>0, <3>1, GotoMoves DEF Labels
    <3> QED BY <1>0, <3>1, <3>5, <3>6, MovesShut, LockoutKept
  <2>3. CASE EndSessions(p)
    BY <1>0, <2>3, SameOut, DoneMoves, MovesShut, LockoutKept DEF EndSessions
  <2> QED BY <1>4, <2>1, <2>2, <2>3 DEF Lifecycle
<1>5. CASE Enrolment \/ SessionEnds
  <2>1. ~ TicketIssued /\ ~ TicketUsed /\ ~ TicketExpires
    BY DEF LockedOut, TicketIssued, TicketUsed, TicketExpires
  <2>2. CASE SessionEnds
    <3>1. Shut /\ ~ticket' /\ members' = members
      BY <1>0, <2>2 DEF SessionEnds, Shut, LockedOut
    <3> QED BY <3>1, SameOut, LockoutKept
  <2>3. CASE Enrol
    <3>1. Shut /\ ~ticket'
      BY <1>0, <2>3 DEF Enrol, Shut, LockedOut, access
    <3>2. PICK d \in Stored \ Admins : /\ members[d].status = "PENDING_ENROLLMENT"
                                       /\ members' = [members EXCEPT ![d].status = "ACTIVE"]
      BY <2>3 DEF Enrol
    <3>3. Changes(d, "ACTIVE")
      BY <1>0, <3>2 DEF Changes, Later, DocsOK, DocOK
    <3>4. Written /\ Stored' = Stored
      BY <1>0, <3>3, ChangesWrites
    <3>5. \A x \in Docs \ {d} : members'[x] = members[x]
      BY <1>0, <3>2 DEF TypeOK
    <3>6. Out
      BY <3>2, <3>4, <3>5, ChangedOut DEF Written
    <3> QED BY <3>1, <3>6, LockoutKept
  <2> QED BY <1>5, <2>1, <2>2, <2>3 DEF Enrolment
<1>6. CASE Boot
  <2>1. ~ BootInsert
    BY AdminEmailOnly DEF BootInsert, Inv, AdminFirst, LockedOut
  <2>2. members' = members /\ pc' = pc /\ ticket' = ticket
    BY <1>6, <2>1 DEF Boot, BootFlag, BootFind, BootMark, access
  <2>3. Shut
    BY <2>2 DEF Shut, LockedOut
  <2> QED BY <1>0, <2>2, <2>3, SameOut, LockoutKept
<1>7. ASSUME NEW p \in Handlers, Fail(p) PROVE LockedOut'
  BY <1>0, <1>7, SameOut, DoneMoves, MovesShut, LockoutKept DEF Fail, access
<1>8. CASE Restart
  <2>1. members' = members /\ ticket' = ticket /\ Shut
    BY <1>8 DEF Restart, Shut, access
  <2> QED BY <1>0, <2>1, SameOut, LockoutKept
<1>9. CASE UNCHANGED vars
  <2>1. members' = members /\ ticket' = ticket /\ Shut
    BY <1>9 DEF vars, access, Shut, LockedOut
  <2> QED BY <1>0, <2>1, SameOut, LockoutKept
<1> QED BY <1>1, <1>2, <1>3, <1>4, <1>5, <1>6, <1>7, <1>8, <1>9 DEF Next

\* Once the only administrator is suspended and nothing begun before is under
\* way, no login, enrolment, import, approval or restart lets it back in.
THEOREM LockoutIsFinalCorrect == Spec => LockoutIsFinal
<1>1. Inv /\ [Next]_vars => [LockedOut => LockedOut']_vars
  BY LockoutNext
<1> QED BY <1>1, InvAlways, PTL DEF Spec, LockoutIsFinal

----------------------------------------------------------------------------
(* The refinement                                                          *)

\* Start-up, import, approval, login and suspension, at the same time and cut
\* short anywhere, implement the registry: every step of a handler is a change
\* of one record that the registry allows, or none.
THEOREM IsRegistryCorrect == Spec => IsRegistry
<1>1. Init => Registry!Init
  <2> SUFFICES ASSUME Init PROVE Registry!Init
    OBVIOUS
  <2>1. Inv /\ Stored = {}
    BY InvInit DEF Init, Stored, NoMember
  <2>2. Filed /\ EmailsIn = {} /\ Registry!Absent = NoMember
    BY <2>1, FiledOK, Known DEF Inv, TypeOK, EmailsIn
  <2>3. \A e \in Emails : Registered[e] = Registry!Absent
    BY <2>2 DEF Filed
  <2> QED BY <2>3 DEF Registry!Init, Registered
<1>2. Inv /\ [Next]_vars => [Registry!Next]_Registered
  BY InvNext DEF RegistryStep
<1> QED BY <1>1, <1>2, InvAlways, PTL DEF Spec, IsRegistry, Registry!Spec
=============================================================================
