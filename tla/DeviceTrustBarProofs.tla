------------------------- MODULE DeviceTrustBarProofs -------------------------
(***************************************************************************)
(* What suspension, deactivation and device change leave behind: proofs    *)
(* that no revocation is outrun (BarRevokes, ApprovalRevokes), that a shut *)
(* member stays shut, and that the requests for a device change stay few.  *)
(*                                                                         *)
(* Neither BarredHasNoDevice nor ApprovalRetiresDevices is inductive: both *)
(* speak of devices whose cookie a client holds, and a registration that   *)
(* is about to answer brings the next one.  The strengthenings count such  *)
(* a device as held as soon as the registration has passed the point after *)
(* which the member's status, or request, no longer follows it.            *)
(***************************************************************************)
EXTENDS DeviceTrustProofs, FiniteSetTheorems

----------------------------------------------------------------------------
(* Whose step it is, and what it can have been                             *)

HandlerStep(p) == Step(p) \/ Fail(p) \/ OutOfIds(p)

LEMMA Mover ==
  ASSUME Inv, [Next]_vars, NEW q \in Handlers, pc'[q] # pc[q] \/ loc'[q] # loc[q]
  PROVE  HandlerStep(q)
<1>1. ~ (Environment \/ UNCHANGED vars)
  BY DEF Environment, Expire, MonthPasses, DeleteStaleRequests, vars
<1>2. PICK p \in Handlers : HandlerStep(p)
  BY <1>1 DEF Next, HandlerStep
<1>3. q = p
  BY <1>2, OthersRest DEF Inv, HandlerStep
<1> QED BY <1>2, <1>3

\* the last steps of a registration, when its device has a passkey
Closing == {"reg_request", "reg_complete", "reg_session", "reg_respond"}

LEMMA Arrivals ==
  ASSUME TypeOK, NEW p \in Handlers, HandlerStep(p), pc'[p] \in Closing \cup {"approve", "reject"}
  PROVE  \/ RegActivate(p) \/ RegReadRequest(p) \/ RegCompleteRequest(p) \/ NewSession(p)
         \/ ReviewStart(p) /\ pc'[p] \in {"approve", "reject"}
<1> USE DEF TypeOK, Closing
<1>1. ASSUME NEW op, NEW l, NEW r, Start(p, op, l, r) PROVE pc'[p] = l
  BY <1>1 DEF Start
<1>2. ASSUME NEW from, NEW to, Goto(p, from, to) PROVE pc'[p] = to
  BY <1>2 DEF Goto
<1>3. Done(p) => pc'[p] = "idle"
  BY DEF Done
<1>4. ASSUME NEW ok, NEW from, NEW to, GoOnIf(p, ok, from, to) PROVE pc'[p] = to \/ pc'[p] = "idle"
  BY <1>2, <1>3, <1>4 DEF GoOnIf
<1> HIDE DEF TypeOK
<1>5. ~ Enrolment(p)
  BY <1>1, <1>2, <1>3, <1>4 DEF Enrolment, VerifyOtpStart, OtpRefused, OtpAccepted,
     ReadLatestRequest, IssueTicket, ReadPending, CreateRequest
<1>6. Registration(p) => RegActivate(p) \/ RegReadRequest(p) \/ RegCompleteRequest(p) \/ NewSession(p)
  BY <1>1, <1>2, <1>3, <1>4 DEF Registration, BeginRegistration, CreateRegChallenge,
     FinishRegistration, RegFindChallenge, UseChallenge, RegUseTicket, RegCreateDevice,
     RegCreateCredential, RegRespond
<1>7. ~ Login(p)
  BY <1>1, <1>2, <1>3, <1>4 DEF Login, BeginLogin, CreateLoginChallenge, FinishLogin, LoginStart,
     LoginFindChallenge, LoginReadMember
<1>8. ~ Access(p)
  BY <1>1, <1>2, <1>3, <1>4 DEF Access, GateSession, GateMember, GateDevice, Served,
     RemoveDevice, RemoveSessions, Logout, RevokeSession
<1>9. Admin(p) => ReviewStart(p) /\ pc'[p] \in {"approve", "reject"}
  <2>1. ReviewStart(p) => pc'[p] \in {"approve", "reject"}
    BY <1>1 DEF ReviewStart
  <2> QED BY <1>1, <1>2, <1>3, <2>1 DEF Admin, AdminStart, Bar, RevokeMemberSessions,
          RevokeMemberDevices, Reactivate, Approve, Reject
<1>10. ~ (Fail(p) \/ OutOfIds(p))
  BY <1>3 DEF Fail, OutOfIds
<1> QED BY <1>5, <1>6, <1>7, <1>8, <1>9, <1>10 DEF HandlerStep, Step

\* what ends the time in which an administrator's operation revokes devices
LEMMA FromRevoking ==
  ASSUME TypeOK, NEW p \in Handlers, HandlerStep(p),
         pc[p] \in {"bar_sessions", "bar_devices", "approve_devices"}
  PROVE  \/ RevokeMemberDevices(p)
         \/ pc[p] = "bar_sessions" /\ pc'[p] = "bar_devices" /\ loc'[p] = loc[p]
         \/ Fail(p)
<1> USE DEF TypeOK
<1>1. ASSUME NEW l, NEW op, NEW r, Start(p, op, l, r) PROVE FALSE
  BY <1>1 DEF Start
<1>2. ASSUME NEW from, NEW to, Goto(p, from, to) PROVE pc[p] = from
  BY <1>2 DEF Goto
<1>3. ASSUME NEW ok, NEW from, NEW to, GoOnIf(p, ok, from, to) PROVE pc[p] = from
  BY <1>3 DEF GoOnIf
<1> HIDE DEF TypeOK
<1>4. ~ Enrolment(p)
  BY <1>1, <1>2, <1>3 DEF Enrolment, VerifyOtpStart, OtpRefused, OtpAccepted,
     ReadLatestRequest, IssueTicket, ReadPending, CreateRequest
<1>5. ~ Registration(p)
  BY <1>1, <1>2, <1>3 DEF Registration, BeginRegistration, CreateRegChallenge,
     FinishRegistration, RegFindChallenge, UseChallenge, RegUseTicket, RegCreateDevice,
     RegCreateCredential, RegActivate, RegReadRequest, RegCompleteRequest, NewSession, RegRespond
<1>6. ~ Login(p)
  BY <1>1, <1>2, <1>3 DEF Login, BeginLogin, CreateLoginChallenge, FinishLogin, LoginStart,
     LoginFindChallenge, LoginReadMember
<1>7. ~ Access(p)
  BY <1>1, <1>2, <1>3 DEF Access, GateSession, GateMember, GateDevice, Served,
     RemoveDevice, RemoveSessions, Logout, RevokeSession
<1>8. RevokeMemberSessions(p) => pc[p] = "bar_sessions" /\ pc'[p] = "bar_devices" /\ loc'[p] = loc[p]
  BY <1>2 DEF RevokeMemberSessions, Goto, TypeOK
<1>9. Admin(p) => RevokeMemberSessions(p) \/ RevokeMemberDevices(p)
  BY <1>1, <1>2 DEF Admin, AdminStart, Bar, Reactivate, ReviewStart, Approve, Reject
<1>10. ~ OutOfIds(p)
  BY DEF OutOfIds
<1> QED BY <1>4, <1>5, <1>6, <1>7, <1>8, <1>9, <1>10 DEF HandlerStep, Step

\* Which steps write the status of a member, and whether one adds a device
\* to the cookies.
LEMMA StatusWriters ==
  ASSUME [Next]_vars, status' # status
  PROVE  \E p \in Handlers : Bar(p) \/ Reactivate(p) \/ RegActivate(p)
<1>1. ASSUME NEW p \in Handlers, Enrolment(p) PROVE status' = status
  BY <1>1 DEF Enrolment, VerifyOtpStart, OtpRefused, OtpAccepted, ReadLatestRequest, IssueTicket,
     ReadPending, CreateRequest, Unwritten, docs
<1>2. ASSUME NEW p \in Handlers, Registration(p) PROVE status' = status \/ RegActivate(p)
  BY <1>2 DEF Registration, BeginRegistration, CreateRegChallenge, FinishRegistration,
     RegFindChallenge, UseChallenge, RegUseTicket, RegCreateDevice, RegCreateCredential,
     RegReadRequest, RegCompleteRequest, NewSession, RegRespond, Unwritten, docs
<1>3. ASSUME NEW p \in Handlers, Login(p) PROVE status' = status
  BY <1>3 DEF Login, BeginLogin, CreateLoginChallenge, FinishLogin, LoginStart,
     LoginFindChallenge, LoginReadMember, Unwritten, docs
<1>4. ASSUME NEW p \in Handlers, Access(p) PROVE status' = status
  BY <1>4 DEF Access, GateSession, GateMember, GateDevice, Served, RemoveDevice, RemoveSessions,
     Logout, RevokeSession, Unwritten, docs
<1>5. ASSUME NEW p \in Handlers, Admin(p) PROVE status' = status \/ Bar(p) \/ Reactivate(p)
  BY <1>5 DEF Admin, AdminStart, RevokeMemberSessions, RevokeMemberDevices, ReviewStart, Approve,
     Reject, Unwritten, docs
<1>6. ASSUME NEW p \in Handlers, Fail(p) \/ OutOfIds(p) PROVE status' = status
  BY <1>6 DEF Fail, OutOfIds, Unwritten, docs
<1>7. Environment \/ UNCHANGED vars => status' = status
  BY DEF Environment, Expire, MonthPasses, DeleteStaleRequests, vars, docs
<1> QED BY <1>1, <1>2, <1>3, <1>4, <1>5, <1>6, <1>7 DEF Next, Step

LEMMA NewCookie ==
  ASSUME Inv, [Next]_vars, NEW d \in Devices, d \in cookies', d \notin cookies
  PROVE  \E p \in Handlers : RegRespond(p) /\ pc[p] = "reg_respond" /\ loc[p].device = d
<1>1. \A p \in Handlers : RegUseTicket(p) \/ RegCreateDevice(p) \/ RegCreateCredential(p)
          \/ IssueTicket(p) \/ CreateRequest(p) \/ RegCompleteRequest(p) \/ RemoveDevice(p)
          \/ RemoveSessions(p) \/ RevokeSession(p) \/ RevokeMemberSessions(p)
          \/ RevokeMemberDevices(p) \/ Approve(p) \/ Reject(p) => cookies' = cookies
  BY DEF RegUseTicket, RegCreateDevice, RegCreateCredential, IssueTicket, CreateRequest,
     RegCompleteRequest, RemoveDevice, RemoveSessions, RevokeSession, RevokeMemberSessions,
     RevokeMemberDevices, Approve, Reject
<1>2. \A p \in Handlers : NewSession(p) => cookies' \subseteq cookies \cup Sessions
  BY DEF NewSession, FreshSession
<1>3. Expire \/ MonthPasses \/ DeleteStaleRequests => cookies' = cookies
  BY DEF Expire, MonthPasses, DeleteStaleRequests
<1>4. d \notin Sessions
  BY IdsAssumption
<1>5. PICK p \in Handlers : RegRespond(p)
  BY <1>1, <1>2, <1>3, <1>4, Writers
<1>6. pc[p] = "reg_respond" /\ cookies' = cookies \cup {loc[p].device, loc[p].session}
  BY <1>5 DEF RegRespond
<1>7. loc[p].session \in Sessions
  BY <1>6 DEF Inv, Knows
<1> QED BY <1>4, <1>5, <1>6, <1>7

\* a device of which a revocation by member is aware: it exists
LEMMA HeldExists ==
  ASSUME Inv, NEW d \in Devices,
         d \in cookies \/ \E p \in Handlers : pc[p] \in Closing /\ loc[p].device = d
  PROVE  /\ devices[d].state \in {"ACTIVE", "REVOKED"}
         /\ \A p \in Handlers : pc[p] \in Closing /\ loc[p].device = d =>
               devices[d].member = loc[p].member /\ loc[p].member \in Members
<1>1. \A p \in Handlers : pc[p] \in Closing /\ loc[p].device = d =>
         Enrols(d, loc[p].member) /\ loc[p].member \in Members
  BY DEF Inv, Knows, Closing, RegHasPasskey, RegHasDevice
<1>2. d \in cookies => Enrols(d, devices[d].member)
  BY DEF Inv, Delivered
<1> QED BY <1>1, <1>2 DEF Enrols, Inv, TypeOK, DeviceType

\* A handler that goes on closing a registration keeps its device.
LEMMA ClosingDevice ==
  ASSUME TypeOK, NEW p \in Handlers, RegReadRequest(p) \/ RegCompleteRequest(p) \/ NewSession(p),
         pc'[p] \in Closing
  PROVE  /\ pc[p] \in Closing /\ loc'[p].device = loc[p].device
         /\ loc'[p].member = loc[p].member
         /\ UNCHANGED <<status, devices>>
<1> USE DEF TypeOK, Closing
<1>1. CASE RegReadRequest(p)
  <2>1. pc[p] = "reg_request" /\ UNCHANGED <<status, devices>>
    BY <1>1 DEF RegReadRequest, Goto, Unwritten, docs
  <2>2. loc' = loc \/ \E r \in Latest(loc[p].member) : loc' = [loc EXCEPT ![p].request = r]
    BY <1>1 DEF RegReadRequest
  <2> QED BY <2>1, <2>2 DEF LocType
<1>2. CASE RegCompleteRequest(p)
  BY <1>2 DEF RegCompleteRequest, Goto
<1>3. CASE NewSession(p)
  <2>1. PICK s \in FreshSession : NewSession(p)!(s)
    BY <1>3 DEF NewSession
  <2>2. ~ Done(p)
    BY DEF Done
  <2>3. pc[p] = "reg_session" /\ loc' = [loc EXCEPT ![p].session = s]
    BY <2>1, <2>2 DEF Goto
  <2> QED BY <2>1, <2>3 DEF LocType
<1> QED BY <1>1, <1>2, <1>3

----------------------------------------------------------------------------
(* A barred member has no usable device                                    *)

\* Once the devices of a barred member are revoked, neither a client nor a
\* registration that has made the member ACTIVE before holds a usable one.
Held(d) == d \in cookies \/ \E p \in Handlers : pc[p] \in Closing /\ loc[p].device = d
BarDone(m) == status[m] \in BarStatus /\ ~ At(m, {"bar_sessions", "bar_devices"})
BarRevokes == faults = 0 =>
    \A m \in Members : BarDone(m) =>
       \A d \in Devices : devices[d].member = m /\ Held(d) => devices[d].state # "ACTIVE"

LEMMA FaultFree ==
  ASSUME Inv, [Next]_vars, faults' = 0
  PROVE  faults = 0 /\ \A p \in Handlers : ~ Fail(p)
<1>1. \A p \in Handlers : Fail(p) => faults' = faults + 1
  BY DEF Fail
<1>2. faults \in Nat
  BY BoundsAssumption DEF Inv, TypeOK
<1>3. ASSUME NEW p \in Handlers, Enrolment(p) PROVE faults' = faults
  BY <1>3 DEF Enrolment, VerifyOtpStart, OtpRefused, OtpAccepted, ReadLatestRequest, IssueTicket,
     ReadPending, CreateRequest, Unwritten
<1>4. ASSUME NEW p \in Handlers, Registration(p) PROVE faults' = faults
  BY <1>4 DEF Registration, BeginRegistration, CreateRegChallenge, FinishRegistration,
     RegFindChallenge, UseChallenge, RegUseTicket, RegCreateDevice, RegCreateCredential,
     RegActivate, RegReadRequest, RegCompleteRequest, NewSession, RegRespond, Unwritten
<1>5. ASSUME NEW p \in Handlers, Login(p) PROVE faults' = faults
  BY <1>5 DEF Login, BeginLogin, CreateLoginChallenge, FinishLogin, LoginStart,
     LoginFindChallenge, LoginReadMember, Unwritten
<1>6. ASSUME NEW p \in Handlers, Access(p) PROVE faults' = faults
  BY <1>6 DEF Access, GateSession, GateMember, GateDevice, Served, RemoveDevice, RemoveSessions,
     Logout, RevokeSession, Unwritten
<1>7. ASSUME NEW p \in Handlers, Admin(p) PROVE faults' = faults
  BY <1>7 DEF Admin, AdminStart, Bar, RevokeMemberSessions, RevokeMemberDevices, Reactivate,
     ReviewStart, Approve, Reject, Unwritten
<1>8. \A p \in Handlers : OutOfIds(p) => faults' = faults
  BY DEF OutOfIds, Unwritten
<1>9. Environment \/ UNCHANGED vars => faults' = faults
  BY DEF Environment, Expire, MonthPasses, DeleteStaleRequests, vars
<1> QED BY <1>1, <1>2, <1>3, <1>4, <1>5, <1>6, <1>7, <1>8, <1>9 DEF Next, Step

LEMMA BarRevokesNext ==
  ASSUME Inv, BarRevokes, [Next]_vars
  PROVE  BarRevokes'
<1> SUFFICES ASSUME faults' = 0, NEW m \in Members, BarDone(m)',
                    NEW d \in Devices, devices'[d].member = m, Held(d)'
             PROVE  devices'[d].state # "ACTIVE"
  BY DEF BarRevokes
<1>1. faults = 0 /\ \A p \in Handlers : ~ Fail(p)
  BY FaultFree
<1>2. Inv' /\ Final
  BY InvNext
<1>3. CASE \E p \in Handlers : RevokeMemberDevices(p) /\ loc[p].member = m
  <2>1. PICK p \in Handlers : RevokeMemberDevices(p) /\ loc[p].member = m
    BY <1>3
  <2>2. devices[d].state = "ACTIVE" /\ devices[d].member = m => devices'[d].state = "REVOKED"
    BY <2>1 DEF RevokeMemberDevices, Inv, TypeOK, DeviceType
  <2>3. ~ (devices[d].state = "ACTIVE" /\ devices[d].member = m) => devices'[d] = devices[d]
    BY <2>1 DEF RevokeMemberDevices
  <2> QED BY <2>2, <2>3
<1>4. CASE \A p \in Handlers : RevokeMemberDevices(p) => loc[p].member # m
  <2>1. status[m] \in BarStatus
    <3>1. CASE status' = status
      BY <3>1 DEF BarDone
    <3>2. ASSUME NEW p \in Handlers, Bar(p), status'[m] # status[m] PROVE FALSE
      <4>1. pc'[p] = "bar_sessions" /\ loc' = loc /\ loc[p].member = m
        BY <3>2 DEF Bar, Goto, Inv, TypeOK
      <4> QED BY <4>1 DEF BarDone, At
    <3>3. ASSUME NEW p \in Handlers, Reactivate(p) \/ RegActivate(p), status'[m] # status[m] PROVE FALSE
      <4>1. status'[m] \in {"PENDING_ENROLLMENT", "ACTIVE"}
        BY <3>3 DEF Reactivate, RegActivate, Inv, TypeOK
      <4> QED BY <4>1 DEF BarDone, BarStatus
    <3> QED BY <3>1, <3>2, <3>3, StatusWriters DEF BarDone
  <2>2. ~ At(m, {"bar_sessions", "bar_devices"})
    <3> SUFFICES ASSUME NEW q \in Handlers, pc[q] \in {"bar_sessions", "bar_devices"}, loc[q].member = m
                 PROVE  FALSE
      BY DEF At
    <3>1. ~ (pc'[q] = pc[q] /\ loc'[q] = loc[q])
      BY DEF BarDone, At
    <3>2. HandlerStep(q)
      BY <3>1, Mover
    <3>3. pc[q] = "bar_sessions" /\ pc'[q] = "bar_devices" /\ loc'[q] = loc[q]
      BY <1>1, <1>4, <3>2, FromRevoking DEF Inv
    <3> QED BY <3>3 DEF BarDone, At
  <2>3. Held(d)
    <3>1. CASE d \in cookies'
      <4>1. CASE d \in cookies
        BY <4>1 DEF Held
      <4>2. CASE d \notin cookies
        BY <3>1, <4>2, NewCookie DEF Held, Closing
      <4> QED BY <4>1, <4>2
    <3>2. ASSUME NEW q \in Handlers, pc'[q] \in Closing, loc'[q].device = d PROVE Held(d)
      <4>1. CASE pc'[q] = pc[q] /\ loc'[q] = loc[q]
        BY <3>2, <4>1 DEF Held
      <4>2. CASE ~ (pc'[q] = pc[q] /\ loc'[q] = loc[q])
        <5>1. RegActivate(q) \/ RegReadRequest(q) \/ RegCompleteRequest(q) \/ NewSession(q)
          BY <3>2, <4>2, Mover, Arrivals DEF Inv, Closing
        <5>2. ~ RegActivate(q)
          <6>1. loc'[q].member = m /\ loc'[q].member \in Members
            <7>1. Knows(q)'
              BY <1>2 DEF Inv
            <7>2. Enrols(loc[q].device, loc[q].member)' /\ loc'[q].member \in Members
              BY <3>2, <7>1 DEF Knows, Closing, RegHasPasskey, RegHasDevice
            <7> QED BY <3>2, <7>2 DEF Enrols
          <6>2. RegActivate(q) => loc' = loc /\ status'[m] = "ACTIVE"
            BY <6>1 DEF RegActivate, Inv, TypeOK
          <6> QED BY <6>2 DEF BarDone, BarStatus
        <5> QED BY <3>2, <5>1, <5>2, ClosingDevice DEF Held, Inv
      <4> QED BY <4>1, <4>2
    <3> QED BY <3>1, <3>2 DEF Held
  <2>4. devices[d].state \in {"ACTIVE", "REVOKED"}
    BY <2>3, HeldExists DEF Held
  <2>5. devices'[d].member = devices[d].member
    BY <1>2, <2>4 DEF Final
  <2>6. devices[d].state # "ACTIVE"
    BY <1>1, <2>1, <2>2, <2>3, <2>5 DEF BarRevokes, BarDone
  <2> QED BY <1>2, <2>4, <2>6 DEF Final
<1> QED BY <1>3, <1>4

----------------------------------------------------------------------------
(* The requests for a device change                                        *)

\* what a handler that is about to write a request remembers of it
Names(p) == pc[p] \in {"approve", "reject", "reg_complete"} =>
    /\ loc[p].request \in Requests
    /\ requests[loc[p].request].status # "none"
    /\ requests[loc[p].request].member \in {loc[p].member, None}

RequestsOK ==
    /\ \A x, y \in Requests : x < y /\ requests[y].status # "none" => requests[x].status # "none"
    /\ \A r \in Requests : requests[r].status \in {"none", "deleted"} => requests[r].member = None
    /\ \A p \in Handlers : Names(p)

RequestsKept == \A r \in Requests : requests[r].status # "none" =>
    /\ requests'[r].status # "none"
    /\ requests'[r].member \in {requests[r].member, None}
    /\ requests[r].status = "deleted" => requests'[r].status = "deleted"

LEMMA RequestWriters ==
  ASSUME [Next]_vars
  PROVE  \/ requests' = requests
         \/ \E p \in Handlers : \/ CreateRequest(p) \/ RegCompleteRequest(p)
                                \/ Approve(p) \/ Reject(p)
         \/ DeleteStaleRequests
<1>1. \A p \in Handlers : IssueTicket(p) \/ RegUseTicket(p) \/ RegCreateDevice(p)
         \/ RegCreateCredential(p) \/ NewSession(p) \/ RegRespond(p) \/ RemoveDevice(p)
         \/ RemoveSessions(p) \/ RevokeSession(p) \/ RevokeMemberSessions(p)
         \/ RevokeMemberDevices(p) => requests' = requests
  BY DEF IssueTicket, RegUseTicket, RegCreateDevice, RegCreateCredential, NewSession, RegRespond,
     RemoveDevice, RemoveSessions, RevokeSession, RevokeMemberSessions, RevokeMemberDevices, docs
<1>2. Expire \/ MonthPasses => requests' = requests
  BY DEF Expire, MonthPasses
<1> QED BY <1>1, <1>2, Writers

\* completion, approval and rejection: the status of at most one request
LEMMA Rewritten ==
  ASSUME Inv, RequestsOK, NEW p \in Handlers, RegCompleteRequest(p) \/ Approve(p) \/ Reject(p)
  PROVE  /\ loc[p].request \in Requests /\ loc[p].member \in Members
         /\ requests[loc[p].request].member \in {loc[p].member, None}
         /\ \A r \in Requests : requests'[r].member = requests[r].member
         /\ \A r \in Requests \ {loc[p].request} : requests'[r].status = requests[r].status
         /\ requests[loc[p].request].status \notin ReqStatus =>
               requests'[loc[p].request].status = requests[loc[p].request].status
         /\ requests[loc[p].request].status \in ReqStatus =>
               requests'[loc[p].request].status = IF RegCompleteRequest(p) THEN "COMPLETED"
                                                  ELSE IF Approve(p) THEN "APPROVED" ELSE "REJECTED"
<1>1. /\ pc[p] \in {"approve", "reject", "reg_complete"}
      /\ RegCompleteRequest(p) => pc[p] = "reg_complete" /\ SetRequest(loc[p].request, "COMPLETED")
      /\ Approve(p) => pc[p] = "approve" /\ SetRequest(loc[p].request, "APPROVED")
      /\ Reject(p) => pc[p] = "reject" /\ SetRequest(loc[p].request, "REJECTED")
  BY DEF RegCompleteRequest, Approve, Reject, Goto
<1>2. /\ loc[p].request \in Requests /\ loc[p].member \in Members
      /\ requests[loc[p].request].member \in {loc[p].member, None}
  BY <1>1 DEF RequestsOK, Names, Inv, Knows
<1>3. PICK r \in Requests, st \in ReqStatus :
           /\ r = loc[p].request
           /\ SetRequest(r, st)
           /\ st = IF RegCompleteRequest(p) THEN "COMPLETED" ELSE IF Approve(p) THEN "APPROVED" ELSE "REJECTED"
  BY <1>1, <1>2 DEF ReqStatus
<1>4. CASE requests[r].status \in ReqStatus
  BY <1>2, <1>3, <1>4 DEF SetRequest, Inv, TypeOK, RequestType
<1>5. CASE requests[r].status \notin ReqStatus
  BY <1>2, <1>3, <1>5 DEF SetRequest
<1> QED BY <1>4, <1>5

LEMMA RequestsNext ==
  ASSUME Inv, RequestsOK, [Next]_vars
  PROVE  RequestsOK' /\ RequestsKept
<1> DEFINE Docs == /\ RequestsKept
                   /\ \A x, y \in Requests : x < y /\ requests'[y].status # "none" => requests'[x].status # "none"
                   /\ \A r \in Requests : requests'[r].status \in {"none", "deleted"} => requests'[r].member = None
<1>1. ASSUME requests' = requests PROVE Docs
  BY <1>1 DEF RequestsOK, RequestsKept
<1>2. ASSUME NEW p \in Handlers, CreateRequest(p) PROVE Docs
  <2>1. PICK r \in NextRequest : requests' = [requests EXCEPT ![r] = [status |-> "PENDING", member |-> loc[p].member]]
    BY <1>2 DEF CreateRequest
  <2>2. r \in Requests /\ requests[r].status = "none" /\ \A x \in 1 .. (r - 1) : requests[x].status # "none"
    BY <2>1 DEF NextRequest
  <2>3. requests'[r].status = "PENDING" /\ \A x \in Requests \ {r} : requests'[x] = requests[x]
    BY <2>1, <2>2 DEF Inv, TypeOK
  <2>4. \A x \in Requests : x < r => x \in 1 .. (r - 1)
    BY <2>2, BoundsAssumption DEF Requests
  <2> QED BY <2>2, <2>3, <2>4 DEF RequestsOK, RequestsKept
<1>3. ASSUME NEW p \in Handlers, RegCompleteRequest(p) \/ Approve(p) \/ Reject(p) PROVE Docs
  <2>1. \A r \in Requests : /\ requests'[r].member = requests[r].member
                            /\ \/ requests'[r].status = requests[r].status
                               \/ requests[r].status \in ReqStatus /\ requests'[r].status \in ReqStatus
    BY <1>3, Rewritten DEF ReqStatus
  <2> QED BY <2>1 DEF RequestsOK, RequestsKept, ReqStatus
<1>4. ASSUME DeleteStaleRequests PROVE Docs
  <2>1. \A r \in Requests : \/ requests'[r] = requests[r]
                            \/ /\ requests[r].status = "PENDING"
                               /\ requests'[r].status = "deleted" /\ requests'[r].member = None
    BY <1>4 DEF DeleteStaleRequests
  <2> QED BY <2>1 DEF RequestsOK, RequestsKept
<1>5. Docs
  <2> HIDE DEF Docs
  <2> QED BY <1>1, <1>2, <1>3, <1>4, RequestWriters
<1>6. ASSUME NEW q \in Handlers PROVE Names(q)'
  <2>1. CASE pc'[q] = pc[q] /\ loc'[q] = loc[q]
    BY <1>5, <2>1 DEF Names, RequestsOK, RequestsKept
  <2>2. CASE ~ (pc'[q] = pc[q] /\ loc'[q] = loc[q])
    <3> SUFFICES ASSUME pc'[q] \in {"approve", "reject", "reg_complete"} PROVE Names(q)'
      BY DEF Names
    <3>1. RegReadRequest(q) \/ ReviewStart(q)
      <4>1. \/ RegActivate(q) \/ RegReadRequest(q) \/ RegCompleteRequest(q) \/ NewSession(q)
            \/ ReviewStart(q)
        BY <2>2, Mover, Arrivals DEF Closing, Inv
      <4>2. ~ (RegActivate(q) \/ RegCompleteRequest(q) \/ NewSession(q))
        BY DEF RegActivate, RegCompleteRequest, NewSession, Goto, Done, Inv, TypeOK
      <4> QED BY <4>1, <4>2
    <3>2. CASE RegReadRequest(q)
      <4>1. PICK r \in Latest(loc[q].member) : loc' = [loc EXCEPT ![q].request = r]
        BY <3>2 DEF RegReadRequest, Goto, Inv, TypeOK
      <4>2. loc'[q].request = r /\ loc'[q].member = loc[q].member /\ requests' = requests
        BY <3>2, <4>1 DEF RegReadRequest, Unwritten, docs, Inv, TypeOK, LocType
      <4>3. r \in Requests /\ requests[r].member = loc[q].member /\ loc[q].member \in Members
        BY <3>2, <4>1 DEF Latest, RequestsOf, RegReadRequest, Goto, Inv, Knows
      <4>4. requests[r].status # "none"
        BY <4>3, IdsAssumption DEF RequestsOK
      <4> QED BY <4>2, <4>3, <4>4 DEF Names
    <3>3. CASE ReviewStart(q)
      <4>1. PICK r \in Requests, op \in {"approve", "reject"} : ReviewStart(q)!(r, op)
        BY <3>3 DEF ReviewStart
      <4>2. loc'[q].request = r /\ loc'[q].member = requests[r].member /\ requests' = requests
        BY <4>1 DEF Start, Unwritten, docs, Inv, TypeOK, Blank
      <4> QED BY <4>1, <4>2 DEF Names, ReqStatus
    <3> QED BY <3>1, <3>2, <3>3
  <2> QED BY <2>1, <2>2
<1> QED BY <1>5, <1>6 DEF RequestsOK

----------------------------------------------------------------------------
(* An approved device change leaves no usable device behind                *)

\* A registration that will mark no request COMPLETED: it found none to mark,
\* has marked it, or a newer request has come in since.
Late(p) == \/ pc[p] \in {"reg_session", "reg_respond"}
           \/ pc[p] = "reg_complete" /\ loc[p].request \notin Latest(loc[p].member)
Kept(d) == d \in cookies \/ \E p \in Handlers : Late(p) /\ loc[p].device = d
NoneDeleted == \A r \in Requests : requests[r].status # "deleted"
ApprovalDone(m) == LatestApproved(m) /\ ~ At(m, {"approve_devices"})
ApprovalRevokes == faults = 0 /\ NoneDeleted =>
    \A m \in Members : ApprovalDone(m) =>
       \A d \in Devices : devices[d].member = m /\ Kept(d) => devices[d].state # "ACTIVE"

LEMMA LatestKept ==
  ASSUME NEW m, \A r \in Requests : requests'[r].member = m <=> requests[r].member = m
  PROVE  Latest(m)' = Latest(m)
<1>1. RequestsOf(m)' = RequestsOf(m)
  BY DEF RequestsOf
<1> QED BY <1>1 DEF Latest

\* Only Approve makes an approved request the latest one of its member.
LEMMA LatestNext ==
  ASSUME Inv, RequestsOK, [Next]_vars, NoneDeleted', NEW m \in Members, LatestApproved(m)',
         \A p \in Handlers : Approve(p) => loc[p].member # m
  PROVE  /\ LatestApproved(m) /\ Latest(m)' = Latest(m)
         /\ \A p \in Handlers : RegCompleteRequest(p) => loc[p].request \notin Latest(m)
<1> DEFINE Same == LatestApproved(m) /\ Latest(m)' = Latest(m)
<1>0. m # None
  BY IdsAssumption
<1>1. CASE requests' = requests
  <2>1. Same
    BY <1>1, LatestKept DEF LatestApproved
  <2>2. ASSUME NEW p \in Handlers, RegCompleteRequest(p), loc[p].request \in Latest(m) PROVE FALSE
    <3>1. loc[p].request \in Requests /\ requests[loc[p].request].member = m
      BY <2>2 DEF Latest, RequestsOf
    <3>2. requests[loc[p].request].status \in ReqStatus
      BY <1>0, <3>1 DEF RequestsOK, Inv, TypeOK, RequestType
    <3>3. requests'[loc[p].request].status = "COMPLETED"
      BY <2>2, <3>2, Rewritten
    <3>4. \A r \in Latest(m) : r = loc[p].request
      BY <2>2, BoundsAssumption DEF Latest, RequestsOf, Requests
    <3> QED BY <1>1, <2>1, <3>3, <3>4 DEF LatestApproved
  <2> QED BY <2>1, <2>2
<1>2. ASSUME NEW p \in Handlers, CreateRequest(p) PROVE Same
  <2>1. PICK r \in NextRequest : requests' = [requests EXCEPT ![r] = [status |-> "PENDING", member |-> loc[p].member]]
    BY <1>2 DEF CreateRequest
  <2>2. r \in Requests /\ requests[r].status = "none" /\ \A x \in 1 .. (r - 1) : requests[x].status # "none"
    BY <2>1 DEF NextRequest
  <2>3. /\ requests'[r].status = "PENDING" /\ requests'[r].member = loc[p].member
        /\ \A x \in Requests \ {r} : requests'[x] = requests[x]
    BY <2>1, <2>2 DEF Inv, TypeOK
  <2>4. requests[r].member # m
    BY <1>0, <2>2 DEF RequestsOK
  <2>5. CASE loc[p].member = m
    <3>1. r \in RequestsOf(m)'
      BY <2>2, <2>3, <2>5 DEF RequestsOf
    <3>2. PICK x \in Latest(m)' : requests'[x].status = "APPROVED"
      BY DEF LatestApproved
    <3>3. x \in Requests /\ requests'[x].member = m /\ r <= x /\ x # r
      BY <2>3, <3>1, <3>2 DEF Latest, RequestsOf
    <3>4. requests[x].status = "APPROVED"
      BY <2>3, <3>2, <3>3
    <3>5. r < x
      BY <2>2, <3>3, BoundsAssumption DEF Requests
    <3> QED BY <2>2, <3>3, <3>4, <3>5 DEF RequestsOK
  <2>6. CASE loc[p].member # m
    <3>1. Latest(m)' = Latest(m)
      BY <2>3, <2>4, <2>6, LatestKept
    <3>2. \A x \in Latest(m) : x \in Requests \ {r}
      BY <2>2, <2>4 DEF Latest, RequestsOf
    <3> QED BY <2>3, <3>1, <3>2 DEF LatestApproved
  <2> QED BY <2>5, <2>6
<1>3. ASSUME NEW p \in Handlers, RegCompleteRequest(p) \/ Approve(p) \/ Reject(p)
      PROVE Same /\ (RegCompleteRequest(p) => loc[p].request \notin Latest(m))
  <2>1. Latest(m)' = Latest(m)
    BY <1>3, Rewritten, LatestKept
  <2>2. PICK x \in Latest(m) : requests'[x].status = "APPROVED"
    BY <2>1 DEF LatestApproved
  <2>3. x \in Requests /\ requests[x].member = m /\ \A y \in Latest(m) : y = x
    BY BoundsAssumption DEF Latest, RequestsOf, Requests
  <2>4. requests[x].status \in ReqStatus
    BY <1>0, <2>3 DEF RequestsOK, Inv, TypeOK, RequestType
  <2>5. Approve(p) => loc[p].request # x
    BY <1>0, <1>3, <2>3, Rewritten
  <2>6. ~ (Approve(p) /\ RegCompleteRequest(p))
    BY DEF Approve, RegCompleteRequest, Goto
  <2>7. loc[p].request # x
    BY <1>3, <2>2, <2>4, <2>5, <2>6, Rewritten
  <2>8. requests'[x].status = requests[x].status
    BY <1>3, <2>3, <2>7, Rewritten
  <2> QED BY <2>1, <2>2, <2>3, <2>7, <2>8 DEF LatestApproved
<1>4. ~ DeleteStaleRequests
  <2> SUFFICES ASSUME DeleteStaleRequests PROVE FALSE
    OBVIOUS
  <2>1. PICK r \in aged : requests[r].status = "PENDING"
    BY DEF DeleteStaleRequests
  <2>2. r \in Requests
    BY DEF Inv, TypeOK
  <2>3. requests'[r].status = "deleted"
    BY <2>1, <2>2 DEF DeleteStaleRequests
  <2> QED BY <2>2, <2>3 DEF NoneDeleted
<1>5. ASSUME NEW p \in Handlers, CreateRequest(p), NEW q \in Handlers, RegCompleteRequest(q) PROVE FALSE
  <2>1. pc[p] = "create_request" /\ pc'[p] = "idle"
    BY <1>5 DEF CreateRequest, Done, Inv, TypeOK
  <2>2. pc[q] = "reg_complete" /\ pc'[q] = "reg_session"
    BY <1>5 DEF RegCompleteRequest, Goto, Inv, TypeOK
  <2>3. HandlerStep(p)
    BY <1>5 DEF HandlerStep, Step, Enrolment
  <2> QED BY <2>1, <2>2, <2>3, OthersRest DEF HandlerStep, Inv
<1>6. ASSUME NEW p \in Handlers, RegCompleteRequest(p) \/ Approve(p) \/ Reject(p),
             NEW q \in Handlers, RegCompleteRequest(q)
      PROVE  p = q
  <2>1. pc[q] = "reg_complete" /\ pc'[q] = "reg_session"
    BY <1>6 DEF RegCompleteRequest, Goto, Inv, TypeOK
  <2>2. HandlerStep(p)
    BY <1>6 DEF HandlerStep, Step, Registration, Admin
  <2> QED BY <2>1, <2>2, OthersRest DEF HandlerStep, Inv
<1> HIDE DEF Same
<1>7. CASE \E p \in Handlers : RegCompleteRequest(p) \/ Approve(p) \/ Reject(p)
  BY <1>3, <1>6, <1>7 DEF Same
<1>8. CASE \E p \in Handlers : CreateRequest(p)
  BY <1>2, <1>5, <1>8 DEF Same
<1> QED BY <1>1, <1>4, <1>7, <1>8, RequestWriters

LEMMA ApprovalRevokesNext ==
  ASSUME Inv, RequestsOK, ApprovalRevokes, [Next]_vars
  PROVE  ApprovalRevokes'
<1> SUFFICES ASSUME faults' = 0, NoneDeleted', NEW m \in Members, ApprovalDone(m)',
                    NEW d \in Devices, devices'[d].member = m, Kept(d)'
             PROVE  devices'[d].state # "ACTIVE"
  BY DEF ApprovalRevokes
<1>1. faults = 0 /\ \A p \in Handlers : ~ Fail(p)
  BY FaultFree
<1>2. Inv' /\ Final
  BY InvNext
<1>3. NoneDeleted
  BY RequestsNext DEF NoneDeleted, RequestsKept
<1>4. CASE \E p \in Handlers : RevokeMemberDevices(p) /\ loc[p].member = m
  <2>1. PICK p \in Handlers : RevokeMemberDevices(p) /\ loc[p].member = m
    BY <1>4
  <2>2. devices[d].state = "ACTIVE" /\ devices[d].member = m => devices'[d].state = "REVOKED"
    BY <2>1 DEF RevokeMemberDevices, Inv, TypeOK, DeviceType
  <2>3. ~ (devices[d].state = "ACTIVE" /\ devices[d].member = m) => devices'[d] = devices[d]
    BY <2>1 DEF RevokeMemberDevices
  <2> QED BY <2>2, <2>3
<1>5. CASE \A p \in Handlers : RevokeMemberDevices(p) => loc[p].member # m
  <2>1. ASSUME NEW p \in Handlers, Approve(p), loc[p].member = m PROVE FALSE
    <3>1. pc'[p] = "approve_devices" /\ loc' = loc
      BY <2>1 DEF Approve, Goto, Inv, TypeOK
    <3> QED BY <2>1, <3>1 DEF ApprovalDone, At
  <2>2. /\ LatestApproved(m) /\ Latest(m)' = Latest(m) /\ LatestApproved(m)'
        /\ \A p \in Handlers : RegCompleteRequest(p) => loc[p].request \notin Latest(m)
    BY <1>3, <2>1, LatestNext DEF ApprovalDone
  <2>3. ~ At(m, {"approve_devices"})
    <3> SUFFICES ASSUME NEW q \in Handlers, pc[q] = "approve_devices", loc[q].member = m
                 PROVE  FALSE
      BY DEF At
    <3>1. ~ (pc'[q] = pc[q] /\ loc'[q] = loc[q])
      BY DEF ApprovalDone, At
    <3>2. HandlerStep(q)
      BY <3>1, Mover
    <3> QED BY <1>1, <1>5, <3>2, FromRevoking DEF Inv
  <2>4. Kept(d)
    <3>1. CASE d \in cookies'
      <4>1. CASE d \in cookies
        BY <4>1 DEF Kept
      <4>2. CASE d \notin cookies
        BY <3>1, <4>2, NewCookie DEF Kept, Late
      <4> QED BY <4>1, <4>2
    <3>2. ASSUME NEW q \in Handlers, Late(q)', loc'[q].device = d PROVE Kept(d)
      <4>1. pc'[q] \in Closing
        BY <3>2 DEF Late, Closing
      <4>2. loc'[q].member = m
        <5>1. Enrols(loc[q].device, loc[q].member)'
          BY <1>2, <4>1 DEF Inv, Knows, Closing, RegHasPasskey, RegHasDevice
        <5> QED BY <3>2, <5>1 DEF Enrols
      <4>3. CASE pc'[q] = pc[q] /\ loc'[q] = loc[q]
        BY <2>2, <3>2, <4>2, <4>3 DEF Kept, Late
      <4>4. CASE ~ (pc'[q] = pc[q] /\ loc'[q] = loc[q])
        <5>1. RegActivate(q) \/ RegReadRequest(q) \/ RegCompleteRequest(q) \/ NewSession(q)
          BY <4>1, <4>4, Mover, Arrivals DEF Inv, Closing
        <5>2. ~ RegActivate(q)
          BY <3>2 DEF RegActivate, Goto, Late, Inv, TypeOK
        <5>3. pc[q] \in Closing /\ loc'[q].device = loc[q].device /\ loc'[q].member = loc[q].member
          BY <4>1, <5>1, <5>2, ClosingDevice DEF Inv
        <5>4. ~ RegReadRequest(q)
          <6> SUFFICES ASSUME RegReadRequest(q) PROVE FALSE
            OBVIOUS
          <6>1. PICK r \in Latest(m) : pc'[q] = "reg_complete" /\ loc'[q].request = r
            BY <2>2, <4>2, <5>3 DEF RegReadRequest, Goto, Inv, TypeOK, LocType
          <6> QED BY <2>2, <3>2, <4>2, <6>1 DEF Late
        <5>5. RegCompleteRequest(q) => Late(q)
          BY <2>2, <4>2, <5>3 DEF RegCompleteRequest, Goto, Late
        <5>6. NewSession(q) => Late(q)
          BY <4>1, <5>3 DEF NewSession, Goto, Late, Closing, Done, Inv, TypeOK
        <5> QED BY <3>2, <5>1, <5>2, <5>3, <5>4, <5>5, <5>6 DEF Kept
      <4> QED BY <4>3, <4>4
    <3> QED BY <3>1, <3>2 DEF Kept
  <2>5. Held(d)
    BY <2>4 DEF Kept, Held, Late, Closing
  <2>6. devices[d].state \in {"ACTIVE", "REVOKED"}
    BY <2>5, HeldExists DEF Held
  <2>7. devices'[d].member = devices[d].member
    BY <1>2, <2>6 DEF Final
  <2>8. devices[d].state # "ACTIVE"
    BY <1>1, <1>3, <2>2, <2>3, <2>4, <2>7 DEF ApprovalRevokes, ApprovalDone
  <2> QED BY <1>2, <2>6, <2>8 DEF Final
<1> QED BY <1>4, <1>5

----------------------------------------------------------------------------
(* A shut member stays shut                                                *)

\* where a handler can be that may still issue a ticket, or register with one
Opening == {"otp_enroll", "otp_change", "read_latest", "issue_ticket", "reg_challenge",
            "reg_use_challenge", "reg_use_ticket", "reg_device", "reg_credential", "reg_activate"}

\* A handler gets there by asking for a code or presenting a ticket only;
\* after that it keeps its member.
LEMMA OpeningFrom ==
  ASSUME TypeOK, NEW p \in Handlers, HandlerStep(p), pc'[p] \in Opening
  PROVE  \/ VerifyOtpStart(p) \/ FinishRegistration(p)
         \/ pc[p] \in Opening /\ loc'[p].member = loc[p].member
<1> USE DEF TypeOK, Opening
<1>1. ASSUME NEW op, NEW l, NEW r, Start(p, op, l, r) PROVE pc'[p] = l
  BY <1>1 DEF Start
<1>2. ASSUME NEW from, NEW to, Goto(p, from, to) PROVE pc[p] = from /\ pc'[p] = to
  BY <1>2 DEF Goto
<1>3. Done(p) => pc'[p] = "idle"
  BY DEF Done
<1>4. ASSUME NEW ok, NEW from, NEW to, GoOnIf(p, ok, from, to)
      PROVE  pc[p] = from /\ ((pc'[p] = to /\ loc' = loc) \/ pc'[p] = "idle")
  BY <1>2, <1>3, <1>4 DEF GoOnIf
<1>2a. ASSUME NEW from, NEW to, Goto(p, from, to) PROVE pc'[p] = to
  BY <1>2, <1>2a
<1>4a. ASSUME NEW ok, NEW from, NEW to, GoOnIf(p, ok, from, to) PROVE pc'[p] = to \/ pc'[p] = "idle"
  BY <1>4, <1>4a
<1> HIDE DEF TypeOK
<1>5. Enrolment(p) => VerifyOtpStart(p) \/ (pc[p] \in Opening /\ loc' = loc)
  BY <1>2, <1>3, <1>4 DEF Enrolment, OtpRefused, OtpAccepted, ReadLatestRequest,
     IssueTicket, ReadPending, CreateRequest
<1>6. RegCreateDevice(p) => pc[p] \in Opening /\ loc'[p].member = loc[p].member
  <2> SUFFICES ASSUME RegCreateDevice(p) PROVE pc[p] \in Opening /\ loc'[p].member = loc[p].member
    OBVIOUS
  <2>1. PICK d \in Devices : loc' = [loc EXCEPT ![p].device = d]
    BY DEF RegCreateDevice, FreshDevice
  <2>2. pc[p] = "reg_device"
    BY <1>2 DEF RegCreateDevice
  <2> QED BY <2>1, <2>2 DEF TypeOK, LocType
<1>7. RegCreateCredential(p) => pc[p] \in Opening /\ loc' = loc
  BY <1>4 DEF RegCreateCredential
<1>8. NewSession(p) => pc'[p] \notin Opening
  BY <1>2, <1>3 DEF NewSession
<1>9. Registration(p) => FinishRegistration(p) \/ (pc[p] \in Opening /\ loc'[p].member = loc[p].member)
  <2>1. RegReadRequest(p) \/ RegCompleteRequest(p) \/ RegRespond(p) \/ BeginRegistration(p)
          \/ CreateRegChallenge(p) \/ RegActivate(p) => pc'[p] \notin Opening
    BY <1>1, <1>2a, <1>3 DEF RegReadRequest, RegCompleteRequest, RegRespond, BeginRegistration,
       CreateRegChallenge, RegActivate
  <2>2. RegFindChallenge(p) => pc[p] \in Opening /\ loc' = loc
    BY <1>4 DEF RegFindChallenge
  <2>3. UseChallenge(p) \/ RegUseTicket(p) => pc[p] \in Opening /\ loc' = loc
    BY <1>2 DEF UseChallenge, RegUseTicket
  <2> QED BY <1>6, <1>7, <1>8, <2>1, <2>2, <2>3 DEF Registration
<1>10. ~ Login(p)
  BY <1>1, <1>2a, <1>3, <1>4a DEF Login, BeginLogin, CreateLoginChallenge, FinishLogin, LoginStart,
     LoginFindChallenge, LoginReadMember
<1>11. ~ Access(p)
  BY <1>1, <1>2a, <1>3, <1>4a DEF Access, GateSession, GateMember, GateDevice, Served,
     RemoveDevice, RemoveSessions, Logout, RevokeSession
<1>12. ~ Admin(p)
  BY <1>1, <1>2a, <1>3 DEF Admin, AdminStart, Bar, RevokeMemberSessions,
     RevokeMemberDevices, Reactivate, ReviewStart, Approve, Reject
<1>13. ~ (Fail(p) \/ OutOfIds(p))
  BY <1>3 DEF Fail, OutOfIds
<1> QED BY <1>5, <1>9, <1>10, <1>11, <1>12, <1>13 DEF HandlerStep, Step

LEMMA NewTicket ==
  ASSUME Inv, [Next]_vars, NEW t \in Tickets, tickets'[t].state = "valid"
  PROVE  \/ tickets[t].state = "valid" /\ tickets'[t].member = tickets[t].member
         \/ \E p \in Handlers : pc[p] = "issue_ticket" /\ loc[p].member = tickets'[t].member
<1> DEFINE Old == tickets[t].state = "valid" /\ tickets'[t].member = tickets[t].member
<1>1. ASSUME NEW p \in Handlers, IssueTicket(p)
      PROVE  Old \/ (pc[p] = "issue_ticket" /\ loc[p].member = tickets'[t].member)
  <2>1. PICK u \in Tickets : tickets' = [tickets EXCEPT ![u] = [state |-> "valid", member |-> loc[p].member]]
    BY <1>1 DEF IssueTicket, FreshTicket
  <2> QED BY <1>1, <2>1 DEF IssueTicket, Inv, TypeOK
<1>2. ASSUME NEW p \in Handlers, RegUseTicket(p) PROVE Old
  BY <1>2 DEF RegUseTicket, Inv, TypeOK, TicketType
<1>3. Expire => Old
  <2>1. CASE tickets' = tickets
    BY <2>1
  <2>2. ASSUME NEW u \in Tickets, tickets' = [tickets EXCEPT ![u].state = "spent"] PROVE Old
    BY <2>2 DEF Inv, TypeOK, TicketType
  <2> QED BY <2>1, <2>2 DEF Expire
<1>4. MonthPasses => Old
  BY DEF MonthPasses, Inv, TypeOK, TicketType
<1>5. \A p \in Handlers : CreateRequest(p) \/ RegCreateDevice(p) \/ RegCreateCredential(p)
         \/ RegCompleteRequest(p) \/ NewSession(p) \/ RegRespond(p) \/ RemoveDevice(p)
         \/ RemoveSessions(p) \/ RevokeSession(p) \/ RevokeMemberSessions(p)
         \/ RevokeMemberDevices(p) \/ Approve(p) \/ Reject(p) => tickets' = tickets
  BY DEF CreateRequest, RegCreateDevice, RegCreateCredential, RegCompleteRequest, NewSession,
     RegRespond, RemoveDevice, RemoveSessions, RevokeSession, RevokeMemberSessions,
     RevokeMemberDevices, Approve, Reject, docs
<1>6. DeleteStaleRequests => tickets' = tickets
  BY DEF DeleteStaleRequests
<1>7. tickets' = tickets => Old
  OBVIOUS
<1> HIDE DEF Old
<1>8. CASE Old
  BY <1>8 DEF Old
<1>9. CASE ~ Old
  <2>1. PICK p \in Handlers : IssueTicket(p)
    BY <1>2, <1>3, <1>4, <1>5, <1>6, <1>7, <1>9, Writers
  <2> QED BY <1>1, <1>9, <2>1
<1> QED BY <1>8, <1>9

LEMMA ShutNext ==
  ASSUME Inv, [Next]_vars, NEW m \in Members, Shut(m), ~ At(m, {"reactivate"})'
  PROVE  Shut(m)'
<1>1. /\ status[m] \in BarStatus
      /\ \A t \in Tickets : tickets[t].member = m => tickets[t].state # "valid"
      /\ ~ At(m, Opening) /\ ~ At(m, {"reactivate"})
  BY DEF Shut, At, Opening
<1>2. status'[m] \in BarStatus
  <2>1. CASE status' = status
    BY <1>1, <2>1
  <2>2. ASSUME NEW p \in Handlers, Bar(p) PROVE status'[m] \in BarStatus
    BY <1>1, <2>2 DEF Bar, BarStatus, Inv, TypeOK
  <2>3. ASSUME NEW p \in Handlers, Reactivate(p) \/ RegActivate(p) PROVE status'[m] \in BarStatus
    <3>1. pc[p] \in {"reg_activate", "reactivate"}
      BY <2>3 DEF Reactivate, RegActivate, Goto
    <3>2. loc[p].member # m
      BY <1>1, <3>1 DEF At, Opening
    <3>3. status'[m] = status[m]
      BY <2>3, <3>2 DEF Reactivate, RegActivate, Inv, TypeOK
    <3> QED BY <1>1, <3>3
  <2> QED BY <2>1, <2>2, <2>3, StatusWriters
<1>3. \A t \in Tickets : tickets'[t].member = m => tickets'[t].state # "valid"
  BY <1>1, NewTicket DEF At, Opening
<1>4. ~ At(m, Opening)'
  <2> SUFFICES ASSUME NEW q \in Handlers, pc'[q] \in Opening, loc'[q].member = m PROVE FALSE
    BY DEF At
  <2>1. ~ (pc'[q] = pc[q] /\ loc'[q] = loc[q])
    BY <1>1 DEF At
  <2>2. ~ (pc[q] \in Opening /\ loc'[q].member = loc[q].member)
    BY <1>1 DEF At
  <2>3. VerifyOtpStart(q) \/ FinishRegistration(q)
    BY <2>1, <2>2, Mover, OpeningFrom DEF Inv
  <2>4. ~ VerifyOtpStart(q)
    <3>1. VerifyOtpStart(q) => status[loc'[q].member] \in {"PENDING_ENROLLMENT", "ACTIVE"}
      BY DEF VerifyOtpStart, Start, Blank, Inv, TypeOK
    <3> QED BY <1>1, <3>1 DEF BarStatus
  <2>5. ~ FinishRegistration(q)
    <3>1. FinishRegistration(q) => \E t \in Tickets : tickets[t].state = "valid" /\ loc'[q].member = tickets[t].member
      BY DEF FinishRegistration, Start, Blank, Inv, TypeOK
    <3> QED BY <1>1, <3>1
  <2> QED BY <2>3, <2>4, <2>5
<1> QED BY <1>2, <1>3, <1>4 DEF Shut, At, Opening

----------------------------------------------------------------------------
(* Who can be about to store a request                                     *)

OtpAsks == {"otp_enroll", "otp_change", "read_latest", "read_pending", "create_request"}
AtGate  == {"gate_member", "gate_device", "granted"}

AskersAsk == \A p \in Handlers :
    /\ pc[p] \in OtpAsks => p \in Askers
    /\ pc[p] \in AtGate /\ loc[p].op = "request_device_change" => p \in Askers

LEMMA AskArrivals ==
  ASSUME TypeOK, NEW p \in Handlers, HandlerStep(p), pc'[p] \in OtpAsks \cup AtGate
  PROVE  \/ VerifyOtpStart(p) \/ OtpAccepted(p) \/ ReadLatestRequest(p) \/ ReadPending(p)
         \/ GateSession(p) \/ GateMember(p) \/ GateDevice(p) \/ Served(p)
<1> USE DEF TypeOK, OtpAsks, AtGate
<1>1. ASSUME NEW op, NEW l, NEW r, Start(p, op, l, r) PROVE pc'[p] = l
  BY <1>1 DEF Start
<1>2. ASSUME NEW from, NEW to, Goto(p, from, to) PROVE pc'[p] = to
  BY <1>2 DEF Goto
<1>3. Done(p) => pc'[p] = "idle"
  BY DEF Done
<1>4. ASSUME NEW ok, NEW from, NEW to, GoOnIf(p, ok, from, to) PROVE pc'[p] = to \/ pc'[p] = "idle"
  BY <1>2, <1>3, <1>4 DEF GoOnIf
<1> HIDE DEF TypeOK
<1>5. Enrolment(p) => VerifyOtpStart(p) \/ OtpAccepted(p) \/ ReadLatestRequest(p) \/ ReadPending(p)
  BY <1>1, <1>2, <1>3, <1>4 DEF Enrolment, OtpRefused, IssueTicket, CreateRequest
<1>6. ~ Registration(p)
  BY <1>1, <1>2, <1>3, <1>4 DEF Registration, BeginRegistration, CreateRegChallenge,
     FinishRegistration, RegFindChallenge, UseChallenge, RegUseTicket, RegCreateDevice,
     RegCreateCredential, RegActivate, RegReadRequest, RegCompleteRequest, NewSession, RegRespond
<1>7. ~ Login(p)
  BY <1>1, <1>2, <1>3, <1>4 DEF Login, BeginLogin, CreateLoginChallenge, FinishLogin, LoginStart,
     LoginFindChallenge, LoginReadMember
<1>8. Access(p) => GateSession(p) \/ GateMember(p) \/ GateDevice(p) \/ Served(p)
  BY <1>1, <1>2, <1>3, <1>4 DEF Access, RemoveDevice, RemoveSessions, Logout, RevokeSession
<1>9. ~ Admin(p)
  BY <1>1, <1>2, <1>3 DEF Admin, AdminStart, Bar, RevokeMemberSessions,
     RevokeMemberDevices, Reactivate, ReviewStart, Approve, Reject
<1>10. ~ (Fail(p) \/ OutOfIds(p))
  BY <1>3 DEF Fail, OutOfIds
<1> QED BY <1>5, <1>6, <1>7, <1>8, <1>9, <1>10 DEF HandlerStep, Step

LEMMA AskersNext ==
  ASSUME Inv, AskersAsk, [Next]_vars
  PROVE  AskersAsk'
<1> SUFFICES ASSUME NEW q \in Handlers, pc'[q] \in OtpAsks \cup AtGate,
                    pc'[q] \in AtGate => loc'[q].op = "request_device_change"
             PROVE  q \in Askers
  BY DEF AskersAsk, Askers, OtpAsks, AtGate
<1> USE DEF OtpAsks, AtGate
<1>1. CASE pc'[q] = pc[q] /\ loc'[q] = loc[q]
  BY <1>1 DEF AskersAsk
<1>2. CASE ~ (pc'[q] = pc[q] /\ loc'[q] = loc[q])
  <2>1. \/ VerifyOtpStart(q) \/ OtpAccepted(q) \/ ReadLatestRequest(q) \/ ReadPending(q)
        \/ GateSession(q) \/ GateMember(q) \/ GateDevice(q) \/ Served(q)
    BY <1>2, Mover, AskArrivals DEF Inv
  <2>2. CASE VerifyOtpStart(q)
    BY <2>2 DEF VerifyOtpStart, Start, Askers
  <2>3. CASE OtpAccepted(q) \/ ReadLatestRequest(q) \/ ReadPending(q)
    BY <2>3 DEF OtpAccepted, ReadLatestRequest, ReadPending, GoOnIf, Goto, AskersAsk
  <2>4. CASE GateSession(q)
    <3>1. PICK op \in GatedOps : op \in MayRun[q] /\ pc'[q] = "gate_member" /\ loc'[q].op = op
      BY <2>4 DEF GateSession, Start, Blank, Inv, TypeOK
    <3> QED BY <3>1 DEF Askers
  <2>5. CASE GateMember(q) \/ GateDevice(q)
    <3>1. pc[q] \in {"gate_member", "gate_device"}
      BY <2>5 DEF GateMember, GateDevice, GoOnIf
    <3>2. loc'[q].op = loc[q].op /\ pc'[q] \in AtGate
      <4>1. pc'[q] # "idle"
        OBVIOUS
      <4>2. ~ Done(q)
        BY <4>1 DEF Done, Inv, TypeOK
      <4> QED BY <2>5, <4>2 DEF GateMember, GateDevice, GoOnIf, Goto, Inv, TypeOK
    <3> QED BY <3>1, <3>2 DEF AskersAsk
  <2>6. CASE Served(q)
    <3>1. pc[q] = "granted" /\ pc'[q] # "idle" /\ pc'[q] # "remove_device"
      BY <2>6 DEF Served
    <3>2. loc[q].op = "request_device_change"
      BY <2>6, <3>1 DEF Served, Done, Goto, Inv, TypeOK
    <3> QED BY <3>1, <3>2 DEF AskersAsk
  <2> QED BY <2>1, <2>2, <2>3, <2>4, <2>5, <2>6
<1> QED BY <1>1, <1>2

----------------------------------------------------------------------------
(* How many requests of a member wait for review                           *)

Counted(S) == IsFiniteSet(S) /\ Cardinality(S) \in Nat

LEMMA Counts ==
  /\ Counted(Askers)
  /\ \A m : Counted(Pending(m)) /\ Counted(Pending(m)') /\ Counted(Asking(m)) /\ Counted(Asking(m)')
<1>1. IsFiniteSet(Handlers) /\ IsFiniteSet(Requests)
  BY HandlersAssumption, BoundsAssumption, FS_Interval DEF Requests
<1>2. Askers \in SUBSET Handlers
  BY DEF Askers
<1>3. \A m : /\ Pending(m) \in SUBSET Requests /\ Pending(m)' \in SUBSET Requests
             /\ Asking(m) \in SUBSET Handlers /\ Asking(m)' \in SUBSET Handlers
  BY DEF Pending, RequestsOf, Asking
<1>4. \A S : S \in SUBSET Handlers \/ S \in SUBSET Requests => Counted(S)
  BY <1>1, FS_Subset, FS_CardinalityType DEF Counted
<1> QED BY <1>2, <1>3, <1>4

LEMMA CountSubset ==
  ASSUME NEW S, Counted(S), NEW R \in SUBSET S
  PROVE  Cardinality(R) <= Cardinality(S)
BY FS_Subset DEF Counted

LEMMA AskingNext ==
  ASSUME Inv, [Next]_vars, NEW m, NEW q \in Asking(m)', q \notin Asking(m)
  PROVE  ReadPending(q) /\ loc'[q] = loc[q] /\ Pending(m) = {} /\ loc[q].member = m
<1>1. pc'[q] = "create_request" /\ loc'[q].member = m /\ q \in Handlers
  BY DEF Asking
<1>2. ~ (pc'[q] = pc[q] /\ loc'[q] = loc[q])
  BY <1>1 DEF Asking
<1>3. \/ VerifyOtpStart(q) \/ OtpAccepted(q) \/ ReadLatestRequest(q) \/ ReadPending(q)
      \/ GateSession(q) \/ GateMember(q) \/ GateDevice(q) \/ Served(q)
  BY <1>1, <1>2, Mover, AskArrivals DEF Inv, OtpAsks
<1>4. ReadPending(q)
  BY <1>1, <1>3 DEF VerifyOtpStart, OtpAccepted, ReadLatestRequest, GateSession, GateMember,
     GateDevice, Served, GoOnIf, Goto, Start, Done, Inv, TypeOK
<1>5. pc[q] = "read_pending" /\ loc' = loc /\ Pending(loc[q].member) = {}
  BY <1>1, <1>4 DEF ReadPending, GoOnIf, Done, Inv, TypeOK
<1> QED BY <1>1, <1>4, <1>5

\* Apart from the insert itself, no step makes a request pending.
LEMMA PendingNext ==
  ASSUME Inv, RequestsOK, [Next]_vars, NEW m \in Members,
         \A p \in Handlers : CreateRequest(p) => loc[p].member # m
  PROVE  Pending(m)' \subseteq Pending(m)
<1> SUFFICES ASSUME NEW r \in Requests, requests'[r].member = m, requests'[r].status = "PENDING"
             PROVE  requests[r].member = m /\ requests[r].status = "PENDING"
  BY DEF Pending, RequestsOf
<1>1. ASSUME NEW p \in Handlers, CreateRequest(p)
      PROVE  requests[r].member = m /\ requests[r].status = "PENDING"
  <2>1. PICK x \in Requests : requests' = [requests EXCEPT ![x] = [status |-> "PENDING", member |-> loc[p].member]]
    BY <1>1 DEF CreateRequest, NextRequest
  <2>2. loc[p].member # m
    BY <1>1
  <2> QED BY <2>1, <2>2 DEF Inv, TypeOK
<1>2. ASSUME NEW p \in Handlers, RegCompleteRequest(p) \/ Approve(p) \/ Reject(p)
      PROVE  requests[r].member = m /\ requests[r].status = "PENDING"
  BY <1>2, Rewritten DEF ReqStatus
<1>3. DeleteStaleRequests => requests[r].member = m /\ requests[r].status = "PENDING"
  BY DEF DeleteStaleRequests
<1> QED BY <1>1, <1>2, <1>3, RequestWriters

LEMMA BoundNext ==
  ASSUME Inv, RequestsOK, AskersAsk, PendingBounded, [Next]_vars
  PROVE  PendingBounded'
<1> SUFFICES ASSUME NEW m \in Members
             PROVE  Cardinality(Pending(m)') + Cardinality(Asking(m)') <= Cardinality(Askers)
  BY DEF PendingBounded, Askers
<1>1. PICK P, A : P = Pending(m)' /\ A = Asking(m)'
  OBVIOUS
<1>2. /\ Counted(P) /\ Counted(A) /\ Counted(Pending(m)) /\ Counted(Asking(m)) /\ Counted(Askers)
  BY <1>1, Counts
<1>3. Cardinality(Pending(m)) + Cardinality(Asking(m)) <= Cardinality(Askers)
  BY DEF PendingBounded
<1>4. A \subseteq Askers
  <2>1. AskersAsk'
    BY AskersNext
  <2> QED BY <1>1, <2>1 DEF AskersAsk, Asking, OtpAsks, Askers
<1>5. ASSUME NEW p \in Handlers, CreateRequest(p), loc[p].member = m
      PROVE  Cardinality(P) + Cardinality(A) <= Cardinality(Askers)
  <2>1. PICK r \in NextRequest : requests' = [requests EXCEPT ![r] = [status |-> "PENDING", member |-> m]]
    BY <1>5 DEF CreateRequest
  <2>2. pc[p] = "create_request" /\ pc'[p] = "idle" /\ HandlerStep(p)
    BY <1>5 DEF CreateRequest, Done, HandlerStep, Step, Enrolment, Inv, TypeOK
  <2>3. P = Pending(m) \cup {r} /\ r \notin Pending(m)
    BY <1>1, <2>1 DEF NextRequest, Pending, RequestsOf, Inv, TypeOK
  <2>4. A = Asking(m) \ {p} /\ p \in Asking(m)
    <3>1. \A q \in Handlers \ {p} : pc'[q] = pc[q] /\ loc'[q] = loc[q]
      BY <2>2, OthersRest DEF HandlerStep, Inv
    <3> QED BY <1>1, <1>5, <2>2, <3>1 DEF Asking
  <2>5. Cardinality(P) = Cardinality(Pending(m)) + 1
    BY <1>2, <2>3, FS_AddElement DEF Counted
  <2>6. Cardinality(A) = Cardinality(Asking(m)) - 1
    BY <1>2, <2>4, FS_RemoveElement DEF Counted
  <2> QED BY <1>2, <1>3, <2>5, <2>6 DEF Counted
<1>6. ASSUME \A p \in Handlers : CreateRequest(p) => loc[p].member # m
      PROVE  Cardinality(P) + Cardinality(A) <= Cardinality(Askers)
  <2>1. P \subseteq Pending(m)
    BY <1>1, <1>6, PendingNext
  <2>2. CASE A \subseteq Asking(m)
    <3>1. Cardinality(P) <= Cardinality(Pending(m)) /\ Cardinality(A) <= Cardinality(Asking(m))
      BY <1>2, <2>1, <2>2, CountSubset
    <3> QED BY <1>2, <1>3, <3>1 DEF Counted
  <2>3. CASE ~ (A \subseteq Asking(m))
    <3>1. Pending(m) = {}
      BY <1>1, <2>3, AskingNext
    <3>2. P = {}
      BY <2>1, <3>1
    <3>4. Cardinality(P) = 0
      BY <3>2, FS_EmptySet
    <3>3. Cardinality(A) <= Cardinality(Askers)
      BY <1>2, <1>4, CountSubset
    <3> QED BY <1>2, <3>3, <3>4 DEF Counted
  <2> QED BY <2>2, <2>3
<1> QED BY <1>1, <1>5, <1>6

----------------------------------------------------------------------------
(* The theorems                                                            *)

BarInv == /\ Inv /\ RequestsOK /\ AskersAsk
          /\ BarRevokes /\ ApprovalRevokes /\ PendingBounded

LEMMA BarInvInit == Init => BarInv
<1> SUFFICES ASSUME Init PROVE BarInv
  OBVIOUS
<1>1. Inv
  BY InvInit
<1>2. RequestsOK
  BY DEF Init, RequestsOK, NoRequest, Names
<1>3. AskersAsk
  BY DEF Init, AskersAsk, OtpAsks, AtGate
<1>4. BarRevokes
  BY EnrolledAssumption DEF Init, BarRevokes, BarDone, BarStatus
<1>5. \A m \in Members : RequestsOf(m) = {}
  BY IdsAssumption DEF Init, RequestsOf, NoRequest
<1>6. ApprovalRevokes
  BY <1>5 DEF ApprovalRevokes, ApprovalDone, LatestApproved, Latest
<1>7. PendingBounded
  <2> SUFFICES ASSUME NEW m \in Members
               PROVE  Cardinality(Pending(m)) + Cardinality(Asking(m)) <= Cardinality(Askers)
    BY DEF PendingBounded
  <2>1. Pending(m) = {} /\ Asking(m) = {}
    BY <1>5 DEF Init, Pending, Asking
  <2>2. Cardinality(Pending(m)) = 0 /\ Cardinality(Asking(m)) = 0
    BY <2>1, FS_EmptySet
  <2> QED BY <2>2, Counts DEF Counted
<1> QED BY <1>1, <1>2, <1>3, <1>4, <1>6, <1>7 DEF BarInv

LEMMA BarInvNext == BarInv /\ [Next]_vars => BarInv'
  BY InvNext, RequestsNext, AskersNext, BarRevokesNext, ApprovalRevokesNext, BoundNext DEF BarInv

LEMMA BarInvariance == Spec => []BarInv
  BY BarInvInit, BarInvNext, PTL DEF Spec

(* Suspension and deactivation leave no way back in: as long as no handler  *)
(* was cut short, a barred member whose bar has run to its end has no      *)
(* trusted device a client could use, whatever logins, registrations and   *)
(* reactivations overlapped it.                                            *)
THEOREM BarredHasNoDeviceCorrect == Spec => []BarredHasNoDevice
<1>1. BarInv => BarredHasNoDevice
  BY DEF BarInv, BarRevokes, BarDone, Held, BarredHasNoDevice
<1> QED BY <1>1, BarInvariance, PTL

(* Approving a device change retires the devices the member had: as long as *)
(* no handler was cut short and cleanup deleted no request, none is usable *)
(* until a new passkey has marked the request COMPLETED.                   *)
THEOREM ApprovalRetiresDevicesCorrect == Spec => []ApprovalRetiresDevices
<1>1. BarInv => ApprovalRetiresDevices
  BY DEF BarInv, ApprovalRevokes, ApprovalDone, NoneDeleted, Kept, ApprovalRetiresDevices
<1> QED BY <1>1, BarInvariance, PTL

(* The check for a pending request and the insert are two awaits, and yet a *)
(* member's pending requests never outnumber the slots that can ask.       *)
THEOREM PendingBoundedCorrect == Spec => []PendingBounded
  BY BarInvariance, PTL DEF BarInv

(* A barred member without tickets stays out until an administrator calls   *)
(* reactivate: no registration, code or request of anybody reopens the bar. *)
THEOREM ShutUntilReactivatedCorrect == Spec => ShutUntilReactivated
<1> DEFINE Stays == \A m \in Members : Shut(m) => Shut(m)' \/ At(m, {"reactivate"})'
<1>1. Inv /\ [Next]_vars => Stays
  BY ShutNext
<1> QED BY <1>1, Invariance, PTL DEF Spec, ShutUntilReactivated
============================================================================
