------------------------- MODULE DeviceTrustProofs -------------------------
(***************************************************************************)
(* Proofs of the safety properties of DeviceTrust, for any members,        *)
(* handlers, documents and bounds.  The inductive invariant is Inv: the    *)
(* documents have the types and owners the code gives them, a cookie or a  *)
(* session stands on a passkey, and a handler knows of what it has read    *)
(* what no other handler can undo (Knows).                                 *)
(***************************************************************************)
EXTENDS DeviceTrust, TLAPS

----------------------------------------------------------------------------
(* How a handler moves                                                     *)

LEMMA BlankType == Blank \in LocType
  BY IdsAssumption DEF Blank, LocType

LEMMA StartMoves ==
  ASSUME TypeOK, NEW p \in Handlers, NEW op, NEW l \in Labels, NEW r \in LocType,
         Start(p, op, l, r)
  PROVE  /\ pc' \in [Handlers -> Labels] /\ loc' \in [Handlers -> LocType]
         /\ pc'[p] = l /\ loc'[p] = r
         /\ \A q \in Handlers \ {p} : pc'[q] = pc[q] /\ loc'[q] = loc[q]
  BY DEF TypeOK, Start

LEMMA GotoMoves ==
  ASSUME TypeOK, NEW p \in Handlers, NEW from, NEW to \in Labels, Goto(p, from, to)
  PROVE  /\ pc' \in [Handlers -> Labels] /\ pc[p] = from /\ pc'[p] = to
         /\ \A q \in Handlers \ {p} : pc'[q] = pc[q]
  BY DEF TypeOK, Goto

LEMMA DoneMoves ==
  ASSUME TypeOK, NEW p \in Handlers, Done(p)
  PROVE  /\ pc' \in [Handlers -> Labels] /\ loc' \in [Handlers -> LocType]
         /\ pc'[p] = "idle" /\ loc'[p] = Blank
         /\ \A q \in Handlers \ {p} : pc'[q] = pc[q] /\ loc'[q] = loc[q]
  BY BlankType DEF TypeOK, Done, Labels

LEMMA GoOnIfMoves ==
  ASSUME TypeOK, NEW p \in Handlers, NEW ok \in BOOLEAN, NEW from, NEW to \in Labels,
         GoOnIf(p, ok, from, to)
  PROVE  /\ pc' \in [Handlers -> Labels] /\ loc' \in [Handlers -> LocType]
         /\ pc[p] = from
         /\ IF ok THEN pc'[p] = to /\ loc'[p] = loc[p] ELSE pc'[p] = "idle" /\ loc'[p] = Blank
         /\ \A q \in Handlers \ {p} : pc'[q] = pc[q] /\ loc'[q] = loc[q]
  BY GotoMoves, DoneMoves DEF GoOnIf, TypeOK

LEMMA TypeInit == Init => TypeOK
  BY EnrolledAssumption, BoundsAssumption, IdsAssumption, BlankType
  DEF Init, TypeOK, Statuses, NoTicket, NoChallenge, NoDevice, NoSession, NoRequest,
      TicketType, ChallengeType, DeviceType, SessionType, RequestType, Labels, Challenges, Requests

LEMMA TypeUnwritten ==
  ASSUME TypeOK, Unwritten, pc' \in [Handlers -> Labels], loc' \in [Handlers -> LocType]
  PROVE  TypeOK'
  BY DEF TypeOK, Unwritten, docs

LEMMA TypeEnrolment ==
  ASSUME Inv, NEW p \in Handlers, Enrolment(p)
  PROVE  TypeOK'
<1> USE DEF Inv
<1>1. CASE VerifyOtpStart(p)
  <2>1. \A m \in Members : [Blank EXCEPT !.member = m] \in LocType
    BY BlankType DEF LocType
  <2> QED BY <1>1, <2>1, StartMoves, TypeUnwritten, ZenonT(40) DEF VerifyOtpStart, Labels
<1>2. CASE OtpRefused(p)
  BY <1>2, DoneMoves, TypeUnwritten DEF OtpRefused
<1>3. CASE OtpAccepted(p)
  BY <1>3, GotoMoves, TypeUnwritten DEF OtpAccepted, Labels, TypeOK
<1>4. CASE ReadLatestRequest(p)
  BY <1>4, GotoMoves, TypeUnwritten DEF ReadLatestRequest, Labels, TypeOK
<1>5. CASE IssueTicket(p)
  BY <1>5, DoneMoves DEF IssueTicket, FreshTicket, TypeOK, TicketType, Knows
<1>6. CASE ReadPending(p)
  BY <1>6, GoOnIfMoves, TypeUnwritten DEF ReadPending, Labels
<1>7. CASE CreateRequest(p)
  BY <1>7, DoneMoves DEF CreateRequest, NextRequest, TypeOK, RequestType, ReqStatus, Knows
<1> QED BY <1>1, <1>2, <1>3, <1>4, <1>5, <1>6, <1>7 DEF Enrolment

LEMMA TypeRegistration ==
  ASSUME Inv, NEW p \in Handlers, Registration(p)
  PROVE  TypeOK'
<1> USE DEF Inv
<1>1. CASE BeginRegistration(p)
  <2>1. \A m \in Members \cup {None} : [Blank EXCEPT !.member = m] \in LocType
    BY BlankType DEF LocType
  <2> QED BY <1>1, <2>1, StartMoves, TypeUnwritten DEF BeginRegistration, Labels, TypeOK, TicketType
<1>2. CASE CreateRegChallenge(p)
  BY <1>2, DoneMoves DEF CreateRegChallenge, NextChallenge, TypeOK, ChallengeType, Knows
<1>3. CASE FinishRegistration(p)
  <2>1. \A m \in Members \cup {None}, t \in Tickets, c \in Challenges :
           [Blank EXCEPT !.member = m, !.ticket = t, !.chal = c] \in LocType
    BY BlankType DEF LocType
  <2> QED BY <1>3, <2>1, StartMoves, TypeUnwritten DEF FinishRegistration, Labels, TypeOK, TicketType
<1>4. CASE RegFindChallenge(p)
  BY <1>4, GoOnIfMoves, TypeUnwritten DEF RegFindChallenge, AnswersNewest, Labels
<1>5. CASE UseChallenge(p)
  <2>1. challenges' \in [Challenges -> ChallengeType]
    BY <1>5 DEF UseChallenge, TypeOK, ChallengeType
  <2> QED BY <1>5, <2>1, GotoMoves DEF UseChallenge, TypeOK, Labels
<1>6. CASE RegUseTicket(p)
  <2>1. tickets' \in [Tickets -> TicketType]
    BY <1>6 DEF RegUseTicket, TypeOK, TicketType
  <2> QED BY <1>6, <2>1, GotoMoves DEF RegUseTicket, TypeOK, Labels
<1>7. CASE RegCreateDevice(p)
  <2>0. PICK d \in FreshDevice : loc' = [loc EXCEPT ![p].device = d]
    BY <1>7 DEF RegCreateDevice
  <2>1. loc' \in [Handlers -> LocType]
    BY <2>0 DEF FreshDevice, TypeOK, LocType
  <2>2. devices' \in [Devices -> DeviceType]
    BY <1>7 DEF RegCreateDevice, FreshDevice, TypeOK, DeviceType, LocType
  <2> QED BY <1>7, <2>1, <2>2, GotoMoves DEF RegCreateDevice, Labels, TypeOK
<1>8. CASE RegCreateCredential(p)
  <2>1. loc[p].chal \in Nat
    BY <1>8 DEF RegCreateCredential, GoOnIf, Knows, Registering, RegHasDevice, Challenges
  <2>2. devices' = devices \/ devices' = [devices EXCEPT ![loc[p].device].cred = loc[p].chal]
    BY <1>8 DEF RegCreateCredential
  <2>3. devices' \in [Devices -> DeviceType]
    BY <2>1, <2>2 DEF TypeOK, DeviceType
  <2> QED BY <1>8, <2>3, GoOnIfMoves DEF RegCreateCredential, Labels, TypeOK
<1>9. CASE RegActivate(p)
  BY <1>9, GotoMoves DEF RegActivate, TypeOK, Statuses, Labels
<1>10. CASE RegReadRequest(p)
  <2>1. CASE LatestApproved(loc[p].member)
    <3>1. PICK r \in Latest(loc[p].member) : loc' = [loc EXCEPT ![p].request = r]
      BY <1>10, <2>1 DEF RegReadRequest
    <3>2. loc' \in [Handlers -> LocType]
      BY <3>1, SMTT(30) DEF Latest, RequestsOf, TypeOK, LocType
    <3> QED BY <1>10, <2>1, <3>2, GotoMoves, TypeUnwritten DEF RegReadRequest, Labels
  <2>2. CASE ~LatestApproved(loc[p].member)
    BY <1>10, <2>2, GotoMoves, TypeUnwritten DEF RegReadRequest, Labels, TypeOK
  <2> QED BY <2>1, <2>2
<1>11. CASE RegCompleteRequest(p)
  <2>1. requests' \in [Requests -> RequestType]
    BY <1>11, ZenonT(40) DEF RegCompleteRequest, SetRequest, TypeOK, RequestType, ReqStatus
  <2> QED BY <1>11, <2>1, GotoMoves DEF RegCompleteRequest, TypeOK, Labels
<1>12. CASE NewSession(p)
  <2>1. PICK s \in FreshSession : NewSession(p)!(s)
    BY <1>12 DEF NewSession
  <2>2. sessions' \in [Sessions -> SessionType]
    BY <2>1 DEF FreshSession, TypeOK, SessionType, LocType
  <2>3. CASE Goto(p, "reg_session", "reg_respond") /\ loc' = [loc EXCEPT ![p].session = s] /\ UNCHANGED cookies
    <3>1. loc' \in [Handlers -> LocType]
      BY <2>3, ZenonT(40) DEF FreshSession, TypeOK, LocType
    <3> QED BY <2>1, <2>2, <2>3, <3>1, GotoMoves DEF TypeOK, Labels
  <2>4. CASE pc[p] = "login_session" /\ Done(p) /\ cookies' = cookies \cup {s}
    BY <2>1, <2>2, <2>4, DoneMoves DEF TypeOK, FreshSession
  <2> QED BY <2>1, <2>3, <2>4
<1>13. CASE RegRespond(p)
  BY <1>13, DoneMoves DEF RegRespond, TypeOK, docs, Knows, Enrols, RegHasPasskey, RegHasDevice
<1> QED BY <1>1, <1>2, <1>3, <1>4, <1>5, <1>6, <1>7, <1>8, <1>9, <1>10, <1>11, <1>12, <1>13
        DEF Registration

LEMMA TypeLogin ==
  ASSUME Inv, NEW p \in Handlers, Login(p)
  PROVE  TypeOK'
<1> USE DEF Inv
<1>1. ASSUME NEW op, NEW l \in Labels, NEW c \in Challenges \cup {None}, LoginStart(p, op, l, c)
      PROVE  TypeOK'
  <2>1. \A m \in Members \cup {None}, d \in Devices :
           [Blank EXCEPT !.member = m, !.device = d, !.chal = c] \in LocType
    BY BlankType DEF LocType
  <2> QED BY <1>1, <2>1, StartMoves, TypeUnwritten DEF LoginStart, TypeOK, DeviceType
<1>2. CASE BeginLogin(p)
  BY <1>1, <1>2 DEF BeginLogin, Labels
<1>3. CASE CreateLoginChallenge(p)
  BY <1>3, DoneMoves DEF CreateLoginChallenge, NextChallenge, TypeOK, ChallengeType,
     Knows, LoggingIn, Enrols
<1>4. CASE FinishLogin(p)
  BY <1>1, <1>4 DEF FinishLogin, Labels
<1>5. CASE LoginFindChallenge(p)
  BY <1>5, GoOnIfMoves, TypeUnwritten DEF LoginFindChallenge, AnswersNewest, Labels
<1>6. CASE LoginReadMember(p)
  BY <1>6, GoOnIfMoves, TypeUnwritten DEF LoginReadMember, Labels
<1> QED BY <1>2, <1>3, <1>4, <1>5, <1>6 DEF Login

LEMMA TypeAccess ==
  ASSUME Inv, NEW p \in Handlers, Access(p)
  PROVE  TypeOK'
<1> USE DEF Inv
<1>1. CASE GateSession(p)
  <2>1. PICK s \in Sessions \cap cookies, d \in Devices \cap cookies, op \in GatedOps :
             GateSession(p)!(s, d, op)
    BY <1>1 DEF GateSession
  <2>2. \A m \in Members \cup {None}, dead \in BOOLEAN, shut \in BOOLEAN :
           [Blank EXCEPT !.op = op, !.member = m, !.session = s, !.device = d,
                         !.dead = dead, !.shut = shut] \in LocType
    BY BlankType DEF LocType, GatedOps, Ops
  <2>3. sessions[s].member \in Members \cup {None}
    BY DEF TypeOK, SessionType
  <2>4. /\ (devices[d].state = "REVOKED") \in BOOLEAN
        /\ (sessions[s].member \in barred) \in BOOLEAN
    OBVIOUS
  <2>5. [Blank EXCEPT !.op = op, !.member = sessions[s].member, !.session = s, !.device = d,
                      !.dead = (devices[d].state = "REVOKED"),
                      !.shut = (sessions[s].member \in barred)] \in LocType
    BY <2>2, <2>3, <2>4, Zenon
  <2>6. PICK rec \in LocType : Start(p, op, "gate_member", rec)
    BY <2>1, <2>5, Zenon
  <2> QED BY <2>1, <2>6, StartMoves, TypeUnwritten DEF Labels
<1>2. CASE GateMember(p)
  BY <1>2, GoOnIfMoves, TypeUnwritten DEF GateMember, Labels
<1>3. CASE GateDevice(p)
  BY <1>3, GoOnIfMoves, TypeUnwritten DEF GateDevice, DeviceAccepted, Labels
<1>4. CASE Served(p)
  BY <1>4, GotoMoves, DoneMoves, TypeUnwritten DEF Served, Labels, TypeOK
<1>5. CASE RemoveDevice(p)
  <2>1. devices' \in [Devices -> DeviceType]
    BY <1>5, ZenonT(40) DEF RemoveDevice, TypeOK, DeviceType
  <2> QED BY <1>5, <2>1, GotoMoves DEF RemoveDevice, TypeOK, Labels
<1>6. CASE RemoveSessions(p)
  BY <1>6, DoneMoves, ZenonT(40) DEF RemoveSessions, RevokeSessionsIn, TypeOK, SessionType
<1>7. CASE Logout(p)
  <2>1. \A s \in Sessions : [Blank EXCEPT !.session = s] \in LocType
    BY BlankType DEF LocType
  <2> QED BY <1>7, <2>1, StartMoves, TypeUnwritten DEF Logout, Labels
<1>8. CASE RevokeSession(p)
  BY <1>8, DoneMoves, ZenonT(40) DEF RevokeSession, TypeOK, SessionType
<1> QED BY <1>1, <1>2, <1>3, <1>4, <1>5, <1>6, <1>7, <1>8 DEF Access

LEMMA TypeAdmin ==
  ASSUME Inv, NEW p \in Handlers, Admin(p)
  PROVE  TypeOK'
<1> USE DEF Inv
<1>1. CASE AdminStart(p)
  <2>1. \A m \in Members, op \in Ops : /\ [Blank EXCEPT !.op = op, !.member = m] \in LocType
                                       /\ [Blank EXCEPT !.member = m] \in LocType
    BY BlankType DEF LocType
  <2> QED BY <1>1, <2>1, StartMoves, TypeUnwritten, ZenonT(40) DEF AdminStart, Labels, Ops
<1>2. CASE Bar(p)
  BY <1>2, GotoMoves DEF Bar, TypeOK, Statuses, Labels
<1>3. CASE RevokeMemberSessions(p)
  <2>1. sessions' \in [Sessions -> SessionType]
    BY <1>3 DEF RevokeMemberSessions, RevokeSessionsIn, TypeOK, SessionType
  <2> QED BY <1>3, <2>1, GotoMoves, DoneMoves DEF RevokeMemberSessions, TypeOK, Labels
<1>4. CASE RevokeMemberDevices(p)
  <2>1. devices' \in [Devices -> DeviceType]
    BY <1>4, SMTT(30) DEF RevokeMemberDevices, TypeOK, DeviceType
  <2>2. pc[p] = "bar_devices" => loc[p].member \in Members
    BY DEF Knows
  <2> QED BY <1>4, <2>1, <2>2, GotoMoves, DoneMoves DEF RevokeMemberDevices, TypeOK, Labels
<1>5. CASE Reactivate(p)
  BY <1>5, DoneMoves DEF Reactivate, TypeOK, Statuses
<1>6. CASE ReviewStart(p)
  <2>1. \A m \in Members \cup {None}, r \in Requests :
           [Blank EXCEPT !.member = m, !.request = r] \in LocType
    BY BlankType DEF LocType
  <2>2. PICK r \in Requests, op \in {"approve", "reject"} : ReviewStart(p)!(r, op)
    BY <1>6 DEF ReviewStart
  <2>3. requests[r].member \in Members \cup {None}
    BY DEF TypeOK, RequestType
  <2>4. PICK rec \in LocType : Start(p, op, op, rec)
    BY <2>1, <2>2, <2>3
  <2>5. op \in Labels
    BY DEF Labels
  <2> QED BY <2>2, <2>4, <2>5, StartMoves, TypeUnwritten
<1>7. CASE Approve(p)
  <2>1. requests' \in [Requests -> RequestType]
    BY <1>7, ZenonT(40) DEF Approve, TypeOK, SetRequest, RequestType, ReqStatus
  <2> QED BY <1>7, <2>1, GotoMoves DEF Approve, TypeOK, Labels
<1>8. CASE Reject(p)
  <2>1. requests' \in [Requests -> RequestType]
    BY <1>8, ZenonT(40) DEF Reject, TypeOK, SetRequest, RequestType, ReqStatus
  <2> QED BY <1>8, <2>1, DoneMoves DEF Reject, TypeOK
<1> QED BY <1>1, <1>2, <1>3, <1>4, <1>5, <1>6, <1>7, <1>8 DEF Admin

LEMMA TypeNext == Inv /\ [Next]_vars => TypeOK'
<1> SUFFICES ASSUME Inv, [Next]_vars PROVE TypeOK'
  OBVIOUS
<1> USE DEF Inv
<1>1. ASSUME NEW p \in Handlers, Step(p) PROVE TypeOK'
  BY <1>1, TypeEnrolment, TypeRegistration, TypeLogin, TypeAccess, TypeAdmin DEF Step
<1>2. ASSUME NEW p \in Handlers, Fail(p) PROVE TypeOK'
  BY <1>2, DoneMoves, BoundsAssumption DEF Fail, TypeOK, docs
<1>3. ASSUME NEW p \in Handlers, OutOfIds(p) PROVE TypeOK'
  BY <1>3, DoneMoves, TypeUnwritten DEF OutOfIds
<1>4. CASE Expire
  <2>1. tickets' \in [Tickets -> TicketType]
    BY <1>4 DEF Expire, TypeOK, TicketType
  <2>2. challenges' \in [Challenges -> ChallengeType]
    BY <1>4 DEF Expire, TypeOK, ChallengeType
  <2>3. sessions' \in [Sessions -> SessionType]
    BY <1>4 DEF Expire, TypeOK, SessionType
  <2> QED BY <1>4, <2>1, <2>2, <2>3 DEF Expire, TypeOK
<1>5. CASE MonthPasses
  BY <1>5, ZenonT(40) DEF MonthPasses, TypeOK, TicketType, ChallengeType, SessionType
<1>6. CASE DeleteStaleRequests
  BY <1>6 DEF DeleteStaleRequests, TypeOK, RequestType
<1>7. CASE UNCHANGED vars
  BY <1>7 DEF vars, docs, TypeOK
<1> QED BY <1>1, <1>2, <1>3, <1>4, <1>5, <1>6, <1>7 DEF Next, Environment

----------------------------------------------------------------------------
(* The documents                                                           *)

(* Which steps write tickets, devices, sessions, requests or cookies.      *)
LEMMA Writers ==
  ASSUME [Next]_vars
  PROVE  \/ UNCHANGED <<tickets, devices, sessions, requests, cookies>>
         \/ \E p \in Handlers :
               \/ IssueTicket(p) \/ CreateRequest(p) \/ RegUseTicket(p) \/ RegCreateDevice(p)
               \/ RegCreateCredential(p) \/ RegCompleteRequest(p) \/ NewSession(p)
               \/ RegRespond(p) \/ RemoveDevice(p) \/ RemoveSessions(p) \/ RevokeSession(p)
               \/ RevokeMemberSessions(p) \/ RevokeMemberDevices(p) \/ Approve(p) \/ Reject(p)
         \/ Expire \/ MonthPasses \/ DeleteStaleRequests
<1>1. ASSUME NEW p \in Handlers, Enrolment(p)
      PROVE  \/ UNCHANGED <<tickets, devices, sessions, requests, cookies>>
             \/ IssueTicket(p) \/ CreateRequest(p)
  BY <1>1 DEF Enrolment, VerifyOtpStart, OtpRefused, OtpAccepted, ReadLatestRequest, ReadPending,
     Unwritten, docs
<1>2. ASSUME NEW p \in Handlers, Registration(p)
      PROVE  \/ UNCHANGED <<tickets, devices, sessions, requests, cookies>>
             \/ RegUseTicket(p) \/ RegCreateDevice(p) \/ RegCreateCredential(p)
             \/ RegCompleteRequest(p) \/ NewSession(p) \/ RegRespond(p)
  BY <1>2 DEF Registration, BeginRegistration, CreateRegChallenge, FinishRegistration,
     RegFindChallenge, UseChallenge, RegActivate, RegReadRequest, Unwritten, docs
<1>3. ASSUME NEW p \in Handlers, Login(p)
      PROVE  UNCHANGED <<tickets, devices, sessions, requests, cookies>>
  BY <1>3 DEF Login, BeginLogin, CreateLoginChallenge, FinishLogin, LoginStart,
     LoginFindChallenge, LoginReadMember, Unwritten, docs
<1>4. ASSUME NEW p \in Handlers, Access(p)
      PROVE  \/ UNCHANGED <<tickets, devices, sessions, requests, cookies>>
             \/ RemoveDevice(p) \/ RemoveSessions(p) \/ RevokeSession(p)
  BY <1>4 DEF Access, GateSession, GateMember, GateDevice, Served, Logout, Unwritten, docs
<1>5. ASSUME NEW p \in Handlers, Admin(p)
      PROVE  \/ UNCHANGED <<tickets, devices, sessions, requests, cookies>>
             \/ RevokeMemberSessions(p) \/ RevokeMemberDevices(p) \/ Approve(p) \/ Reject(p)
  BY <1>5 DEF Admin, AdminStart, Bar, Reactivate, ReviewStart, Unwritten, docs
<1>6. ASSUME NEW p \in Handlers, Fail(p) \/ OutOfIds(p)
      PROVE  UNCHANGED <<tickets, devices, sessions, requests, cookies>>
  BY <1>6 DEF Fail, OutOfIds, Unwritten, docs
<1>7. UNCHANGED vars => UNCHANGED <<tickets, devices, sessions, requests, cookies>>
  BY DEF vars, docs
<1> QED BY <1>1, <1>2, <1>3, <1>4, <1>5, <1>6, <1>7 DEF Next, Step, Environment

DocsOK == Owned /\ Delivered /\ SessionBacked

LEMMA DocsNext ==
  ASSUME Inv, [Next]_vars
  PROVE  Final /\ DocsOK'
<1> USE DEF Inv, DocsOK
<1> DEFINE Goal == Final /\ DocsOK'
<1>0. CASE UNCHANGED <<tickets, devices, sessions, requests, cookies>>
  BY <1>0 DEF Final, Owned, Delivered, SessionBacked, Enrols
<1>1. ASSUME NEW p \in Handlers, IssueTicket(p) PROVE Goal
  BY <1>1 DEF IssueTicket, FreshTicket, Knows, TypeOK, Final, Owned, Delivered, SessionBacked, Enrols
<1>2. ASSUME NEW p \in Handlers, CreateRequest(p) PROVE Goal
  BY <1>2 DEF CreateRequest, NextRequest, Knows, TypeOK, Final, Owned, Delivered, SessionBacked, Enrols
<1>3. ASSUME NEW p \in Handlers, RegUseTicket(p) PROVE Goal
  <2>1. /\ loc[p].ticket \in Tickets
        /\ tickets[loc[p].ticket].state # "none"
        /\ tickets[loc[p].ticket].member \in Members
    BY <1>3 DEF RegUseTicket, Goto, Knows, Registering, RegHasDevice, Owned
  <2>2. \A t \in Tickets :
           /\ tickets'[t].member = tickets[t].member
           /\ tickets'[t].state = IF t = loc[p].ticket THEN "spent" ELSE tickets[t].state
    BY <1>3 DEF RegUseTicket, TypeOK, TicketType
  <2> QED BY <1>3, <2>1, <2>2 DEF RegUseTicket, Final, Owned, Delivered, SessionBacked, Enrols
<1>4. ASSUME NEW p \in Handlers, RegCreateDevice(p) PROVE Goal
  BY <1>4 DEF RegCreateDevice, Goto, FreshDevice, Knows, TypeOK, Final, Owned, Delivered,
              SessionBacked, Enrols
<1>5. ASSUME NEW p \in Handlers, RegCreateCredential(p) PROVE Goal
  <2>1. loc[p].chal # None
    BY <1>5, IdsAssumption DEF RegCreateCredential, GoOnIf, Knows, Registering, RegHasDevice, Challenges
  <2>2. \/ devices' = devices
        \/ devices' = [devices EXCEPT ![loc[p].device].cred = loc[p].chal]
    BY <1>5 DEF RegCreateCredential
  <2> QED BY <1>5, <2>1, <2>2 DEF RegCreateCredential, TypeOK, DeviceType, Final, Owned, Delivered,
                                  SessionBacked, Enrols
<1>6. ASSUME NEW p \in Handlers, RegCompleteRequest(p) \/ Approve(p) \/ Reject(p) PROVE Goal
  BY <1>6 DEF RegCompleteRequest, Approve, Reject, SetRequest, TypeOK, RequestType, Final, Owned,
              Delivered, SessionBacked, Enrols
<1>7. ASSUME NEW p \in Handlers, NewSession(p) PROVE Goal
  <2>1. Enrols(loc[p].device, loc[p].member) /\ loc[p].member \in Members
    BY <1>7 DEF NewSession, Goto, Knows, RegHasPasskey, RegHasDevice, LoggingIn
  <2>2. PICK s \in FreshSession : NewSession(p)!(s)
    BY <1>7 DEF NewSession
  <2>3. \A x \in Devices \cap cookies' : x \in cookies
    BY <2>2, IdsAssumption DEF FreshSession
  <2> QED BY <2>1, <2>2, <2>3 DEF FreshSession, TypeOK, Final, Owned, Delivered, SessionBacked, Enrols
<1>8. ASSUME NEW p \in Handlers, RegRespond(p) PROVE Goal
  BY <1>8, IdsAssumption
  DEF RegRespond, docs, Knows, RegHasPasskey, RegHasDevice, Final, Owned, Delivered, SessionBacked, Enrols
<1>9. ASSUME NEW p \in Handlers, RemoveDevice(p) \/ RevokeMemberDevices(p) PROVE Goal
  <2>1. CASE RemoveDevice(p)
    <3>1. loc[p].device \in Devices /\ devices[loc[p].device].state # "none"
      BY <2>1 DEF RemoveDevice, Goto, Knows, Gated, Enrols
    <3>2. \A d \in Devices :
             /\ devices'[d].member = devices[d].member
             /\ devices'[d].cred = devices[d].cred
             /\ devices'[d].state = IF d = loc[p].device THEN "REVOKED" ELSE devices[d].state
      BY <2>1 DEF RemoveDevice, TypeOK, DeviceType
    <3> QED BY <2>1, <3>1, <3>2 DEF RemoveDevice, Final, Owned, Delivered, SessionBacked, Enrols
  <2>2. CASE RevokeMemberDevices(p)
    BY <2>2 DEF RevokeMemberDevices, TypeOK, DeviceType, Final, Owned, Delivered, SessionBacked, Enrols
  <2> QED BY <1>9, <2>1, <2>2
<1>10. ASSUME NEW p \in Handlers, RemoveSessions(p) \/ RevokeMemberSessions(p) PROVE Goal
  <2>1. \A s \in Sessions :
           /\ sessions'[s].member = sessions[s].member
           /\ sessions'[s].device = sessions[s].device
           /\ sessions'[s].state \in {sessions[s].state, "spent"}
           /\ sessions[s].state = "none" => sessions'[s].state = "none"
    <3>1. CASE RemoveSessions(p)
      BY <3>1 DEF RemoveSessions, RevokeSessionsIn, TypeOK, SessionType
    <3>2. CASE RevokeMemberSessions(p)
      BY <3>2 DEF RevokeMemberSessions, RevokeSessionsIn, TypeOK, SessionType
    <3> QED BY <1>10, <3>1, <3>2
  <2>2. UNCHANGED <<tickets, devices, requests, cookies>>
    BY <1>10 DEF RemoveSessions, RevokeMemberSessions
  <2> QED BY <2>1, <2>2 DEF Final, Owned, Delivered, SessionBacked, Enrols
<1>11. ASSUME NEW p \in Handlers, RevokeSession(p) PROVE Goal
  <2>1. loc[p].session \in Sessions /\ sessions[loc[p].session].state # "none"
    BY <1>11 DEF RevokeSession, Knows
  <2>2. \A s \in Sessions :
           /\ sessions'[s].member = sessions[s].member
           /\ sessions'[s].device = sessions[s].device
           /\ sessions'[s].state = IF s = loc[p].session THEN "spent" ELSE sessions[s].state
    BY <1>11 DEF RevokeSession, TypeOK, SessionType
  <2> QED BY <1>11, <2>1, <2>2 DEF RevokeSession, Final, Owned, Delivered, SessionBacked, Enrols
<1>12. CASE Expire
  <2>1. \A t \in Tickets :
           /\ tickets'[t].member = tickets[t].member
           /\ tickets'[t].state \in {tickets[t].state, "spent"}
           /\ tickets[t].state = "none" => tickets'[t].state = "none"
    <3>1. CASE tickets' = tickets BY <3>1
    <3>2. CASE tickets' # tickets
      <4>1. PICK y \in Tickets : /\ tickets[y].state = "valid"
                              /\ tickets' = [tickets EXCEPT ![y].state = "spent"]
        BY <1>12, <3>2 DEF Expire
      <4> QED BY <4>1 DEF TypeOK, TicketType
    <3> QED BY <3>1, <3>2
  <2>2. \A s \in Sessions :
           /\ sessions'[s].member = sessions[s].member
           /\ sessions'[s].device = sessions[s].device
           /\ sessions'[s].state \in {sessions[s].state, "spent"}
           /\ sessions[s].state = "none" => sessions'[s].state = "none"
    <3>1. CASE sessions' = sessions BY <3>1
    <3>2. CASE sessions' # sessions
      <4>1. PICK y \in Sessions : /\ sessions[y].state = "valid"
                              /\ sessions' = [sessions EXCEPT ![y].state = "spent"]
        BY <1>12, <3>2 DEF Expire
      <4> QED BY <4>1 DEF TypeOK, SessionType
    <3> QED BY <3>1, <3>2
  <2> QED BY <1>12, <2>1, <2>2 DEF Expire, Final, Owned, Delivered, SessionBacked, Enrols
<1>13. CASE MonthPasses
  BY <1>13 DEF MonthPasses, TypeOK, TicketType, SessionType, Final, Owned, Delivered, SessionBacked,
               Enrols
<1>14. CASE DeleteStaleRequests
  BY <1>14 DEF DeleteStaleRequests, ReqStatus, Final, Owned, Delivered, SessionBacked, Enrols
<1> HIDE DEF Goal
<1> QED BY <1>0, <1>1, <1>2, <1>3, <1>4, <1>5, <1>6, <1>7, <1>8, <1>9, <1>10, <1>11, <1>12, <1>13,
           <1>14, Writers DEF Goal

----------------------------------------------------------------------------
(* What the handlers know                                                  *)

LEMMA KnowsIdle == ASSUME NEW q \in Handlers, pc'[q] = "idle" PROVE Knows(q)'
  BY DEF Knows, Registering, RegHasDevice, RegHasPasskey, LoggingIn, Gated

(* No step of another handler takes away what q knows.                     *)
LEMMA KnowsKept ==
  ASSUME Final, NEW q \in Handlers, Knows(q), pc'[q] = pc[q], loc'[q] = loc[q]
  PROVE  Knows(q)'
<1>1. ASSUME NEW d, NEW m, Enrols(d, m) PROVE Enrols(d, m)'
  BY <1>1 DEF Final, Enrols
<1>2. CASE pc[q] = "idle" BY <1>2, KnowsIdle
<1>3. CASE pc[q] = "reg_credential"
  BY <1>3 DEF Final, Knows, Registering, RegHasDevice, RegHasPasskey, LoggingIn, Gated
<1>4. CASE pc[q] \in Registering \ {"reg_credential"}
  BY <1>4, <1>1 DEF Final, Knows, Registering, RegHasDevice, RegHasPasskey, LoggingIn, Gated
<1>5. CASE pc[q] \in LoggingIn
  BY <1>5, <1>1 DEF Final, Knows, Registering, RegHasDevice, RegHasPasskey, LoggingIn, Gated
<1>6. CASE pc[q] \in Gated
  <2>1. /\ loc[q].session \in Sessions /\ sessions[loc[q].session].state # "none"
        /\ loc[q].device \in Devices /\ devices[loc[q].device].state # "none"
        /\ Enrols(loc[q].device, devices[loc[q].device].member)
    BY <1>6 DEF Knows, Enrols
  <2>2. Enrols(loc[q].device, devices[loc[q].device].member)'
    BY <2>1 DEF Final, Enrols
  <2> QED BY <1>6, <2>1, <2>2 DEF Final, Knows, Registering, RegHasDevice, RegHasPasskey, LoggingIn, Gated
<1>7. CASE pc[q] \notin Registering \cup LoggingIn \cup Gated
  BY <1>7 DEF Final, Knows, Registering, RegHasDevice, RegHasPasskey, LoggingIn, Gated
<1> QED BY <1>3, <1>4, <1>5, <1>6, <1>7

(* A step of handler p leaves every other handler where it was.            *)
LEMMA OthersRest ==
  ASSUME TypeOK, NEW p \in Handlers, Step(p) \/ Fail(p) \/ OutOfIds(p),
         NEW q \in Handlers \ {p}
  PROVE  pc'[q] = pc[q] /\ loc'[q] = loc[q]
<1> DEFINE Rest == pc'[q] = pc[q] /\ loc'[q] = loc[q]
<1> USE DEF TypeOK
<1>1. ASSUME NEW op, NEW l, NEW r, Start(p, op, l, r) PROVE Rest
  BY <1>1 DEF Start
<1>2. ASSUME NEW from, NEW to, Goto(p, from, to) PROVE pc'[q] = pc[q]
  BY <1>2 DEF Goto
<1>3. Done(p) => Rest
  BY DEF Done
<1>4. ASSUME NEW ok, NEW from, NEW to, GoOnIf(p, ok, from, to) PROVE Rest
  BY <1>2, <1>3, <1>4 DEF GoOnIf
<1> HIDE DEF TypeOK
<1>6. Enrolment(p) => Rest
  BY <1>1, <1>2, <1>3, <1>4 DEF Enrolment, VerifyOtpStart, OtpRefused, OtpAccepted,
     ReadLatestRequest, IssueTicket, ReadPending, CreateRequest
<1>7. Registration(p) => Rest
  <2>1. RegCreateDevice(p) => Rest
    BY <1>2 DEF RegCreateDevice, TypeOK
  <2>2. RegReadRequest(p) => Rest
    BY <1>2 DEF RegReadRequest, TypeOK
  <2>3. NewSession(p) => Rest
    BY <1>2, <1>3 DEF NewSession, TypeOK
  <2> QED BY <2>1, <2>2, <2>3, <1>1, <1>2, <1>3, <1>4
      DEF Registration, BeginRegistration, CreateRegChallenge, FinishRegistration,
          RegFindChallenge, UseChallenge, RegUseTicket, RegCreateCredential, RegActivate,
          RegCompleteRequest, RegRespond
<1>8. Login(p) => Rest
  BY <1>1, <1>3, <1>4 DEF Login, BeginLogin, CreateLoginChallenge, FinishLogin, LoginStart,
     LoginFindChallenge, LoginReadMember
<1>9. Access(p) => Rest
  BY <1>1, <1>2, <1>3, <1>4 DEF Access, GateSession, GateMember, GateDevice, Served,
     RemoveDevice, RemoveSessions, Logout, RevokeSession
<1>10. Admin(p) => Rest
  BY <1>1, <1>2, <1>3 DEF Admin, AdminStart, Bar, RevokeMemberSessions, RevokeMemberDevices,
     Reactivate, ReviewStart, Approve, Reject
<1>11. Fail(p) \/ OutOfIds(p) => Rest
  BY <1>3 DEF Fail, OutOfIds
<1> QED BY <1>6, <1>7, <1>8, <1>9, <1>10, <1>11 DEF Step

(* What the handler that steps knows afterwards, operation by operation.   *)
LEMMA KnowsEnrolment ==
  ASSUME Inv, NEW p \in Handlers, Enrolment(p)
  PROVE  Knows(p)'
<1> USE DEF Inv, Registering, RegHasDevice, RegHasPasskey, LoggingIn, Gated
<1>1. CASE VerifyOtpStart(p)
  <2>1. PICK m \in Members, l \in {"otp_enroll", "otp_change"} :
             Start(p, "verify_otp", l, [Blank EXCEPT !.member = m])
    BY <1>1 DEF VerifyOtpStart
  <2>2. pc'[p] = l /\ loc'[p].member = m
    BY <2>1 DEF Start, TypeOK, Blank
  <2> QED BY <2>2 DEF Knows
<1>2. CASE OtpRefused(p) \/ IssueTicket(p) \/ CreateRequest(p)
  BY <1>2, DoneMoves, KnowsIdle DEF OtpRefused, IssueTicket, CreateRequest
<1>3. CASE OtpAccepted(p) \/ ReadLatestRequest(p)
  <2>1. /\ pc[p] \in {"otp_enroll", "otp_change", "read_latest"}
        /\ pc'[p] \in {"issue_ticket", "read_latest", "read_pending"}
        /\ loc'[p] = loc[p]
    BY <1>3 DEF OtpAccepted, ReadLatestRequest, Goto, TypeOK
  <2> QED BY <2>1 DEF Knows
<1>4. CASE ReadPending(p)
  <2>1. \/ pc'[p] = "idle"
        \/ pc[p] = "read_pending" /\ pc'[p] = "create_request" /\ loc'[p] = loc[p]
    BY <1>4 DEF ReadPending, GoOnIf, Goto, Done, TypeOK
  <2> QED BY <2>1, KnowsIdle DEF Knows
<1> QED BY <1>1, <1>2, <1>3, <1>4 DEF Enrolment

LEMMA KnowsRegistration ==
  ASSUME Inv, NEW p \in Handlers, Registration(p), Final
  PROVE  Knows(p)'
<1> USE DEF Inv, Registering, RegHasDevice, RegHasPasskey, LoggingIn, Gated
<1>0. ASSUME NEW d, NEW m, Enrols(d, m) PROVE Enrols(d, m)'
  BY <1>0 DEF Final, Enrols
<1>1. CASE BeginRegistration(p)
  <2>1. PICK t \in Tickets : BeginRegistration(p)!(t)
    BY <1>1 DEF BeginRegistration
  <2>2. pc'[p] = "reg_options" /\ loc'[p].member = tickets[t].member
    BY <2>1 DEF Start, TypeOK, Blank
  <2> QED BY <2>1, <2>2 DEF Knows, Owned
<1>2. CASE CreateRegChallenge(p) \/ RegRespond(p)
  BY <1>2, DoneMoves, KnowsIdle DEF CreateRegChallenge, RegRespond
<1>3. CASE FinishRegistration(p)
  <2>1. PICK t \in Tickets, c \in Challenges : FinishRegistration(p)!(t, c)
    BY <1>3 DEF FinishRegistration
  <2>2. /\ pc'[p] = "reg_challenge" /\ loc'[p].member = tickets[t].member
        /\ loc'[p].ticket = t /\ loc'[p].chal = c
    BY <2>1 DEF Start, TypeOK, Blank
  <2> QED BY <2>1, <2>2 DEF Knows, Owned, FinishRegistration, Unwritten, docs
<1>4. ASSUME NEW from, NEW to, pc[p] = from, pc'[p] = to, loc'[p] = loc[p],
             <<from, to>> \in {<<"reg_challenge", "reg_use_challenge">>,
                               <<"reg_use_challenge", "reg_use_ticket">>,
                               <<"login_use_challenge", "login_member">>,
                               <<"reg_use_ticket", "reg_device">>,
                               <<"reg_activate", "reg_request">>,
                               <<"reg_request", "reg_session">>,
                               <<"reg_complete", "reg_session">>}
      PROVE  Knows(p)'
  <2>1. Enrols(loc[p].device, loc[p].member) => Enrols(loc[p].device, loc[p].member)'
    BY <1>0, <1>4
  <2> QED BY <1>4, <2>1 DEF Knows, Final
<1>5. CASE RegFindChallenge(p)
  <2>1. \/ pc'[p] = "idle"
        \/ pc[p] = "reg_challenge" /\ pc'[p] = "reg_use_challenge" /\ loc'[p] = loc[p]
    BY <1>5 DEF RegFindChallenge, GoOnIf, Goto, Done, TypeOK
  <2> QED BY <2>1, <1>4, KnowsIdle
<1>6. CASE UseChallenge(p) \/ RegUseTicket(p) \/ RegActivate(p) \/ RegCompleteRequest(p)
  BY <1>4, <1>6 DEF UseChallenge, RegUseTicket, RegActivate, RegCompleteRequest, Goto, TypeOK
<1>7. CASE RegCreateDevice(p)
  <2>1. PICK d \in FreshDevice : RegCreateDevice(p)!(d)
    BY <1>7 DEF RegCreateDevice
  <2>2. /\ pc[p] = "reg_device" /\ pc'[p] = "reg_credential"
        /\ loc'[p].member = loc[p].member /\ loc'[p].ticket = loc[p].ticket
        /\ loc'[p].chal = loc[p].chal /\ loc'[p].device = d
        /\ d \in Devices /\ devices'[d].state = "ACTIVE" /\ devices'[d].member = loc[p].member
    BY <2>1 DEF Goto, FreshDevice, TypeOK, LocType
  <2> QED BY <2>2 DEF Knows, Final
<1>8. CASE RegCreateCredential(p)
  <2>1. CASE pc'[p] = "idle" BY <2>1, KnowsIdle
  <2>2. CASE pc'[p] # "idle"
    <3>1. /\ pc[p] = "reg_credential" /\ pc'[p] = "reg_activate" /\ loc'[p] = loc[p]
          /\ devices' = [devices EXCEPT ![loc[p].device].cred = loc[p].chal]
      BY <1>8, <2>2 DEF RegCreateCredential, GoOnIf, Goto, Done, TypeOK
    <3>2. loc[p].chal # None /\ loc[p].device \in Devices
          /\ devices[loc[p].device].state # "none"
          /\ devices[loc[p].device].member = loc[p].member
      BY <3>1, IdsAssumption DEF Knows, Challenges
    <3>3. Enrols(loc[p].device, loc[p].member)'
      BY <3>1, <3>2 DEF Enrols, TypeOK, DeviceType
    <3> QED BY <3>1, <3>3 DEF Knows, Final
  <2> QED BY <2>1, <2>2
<1>9. CASE RegReadRequest(p)
  <2>1. CASE LatestApproved(loc[p].member)
    <3>1. PICK r \in Latest(loc[p].member) : loc' = [loc EXCEPT ![p].request = r]
      BY <1>9, <2>1 DEF RegReadRequest
    <3>2. /\ pc[p] = "reg_request" /\ pc'[p] = "reg_complete"
          /\ loc'[p].member = loc[p].member /\ loc'[p].ticket = loc[p].ticket
          /\ loc'[p].chal = loc[p].chal /\ loc'[p].device = loc[p].device
      BY <1>9, <2>1, <3>1 DEF RegReadRequest, Goto, TypeOK, LocType
    <3>3. Enrols(loc[p].device, loc[p].member)'
      BY <3>2, <1>0 DEF Knows
    <3> QED BY <3>2, <3>3 DEF Knows, Final
  <2>2. CASE ~LatestApproved(loc[p].member)
    BY <1>4, <1>9, <2>2 DEF RegReadRequest, Goto, TypeOK
  <2> QED BY <2>1, <2>2
<1>10. CASE NewSession(p)
  <2>1. PICK s \in FreshSession : NewSession(p)!(s)
    BY <1>10 DEF NewSession
  <2>2. CASE Done(p)
    BY <2>2, DoneMoves, KnowsIdle
  <2>3. CASE Goto(p, "reg_session", "reg_respond") /\ loc' = [loc EXCEPT ![p].session = s]
    <3>1. /\ pc[p] = "reg_session" /\ pc'[p] = "reg_respond"
          /\ loc'[p].member = loc[p].member /\ loc'[p].ticket = loc[p].ticket
          /\ loc'[p].chal = loc[p].chal /\ loc'[p].device = loc[p].device
          /\ loc'[p].session = s
      BY <2>3 DEF Goto, TypeOK, LocType
    <3>2. s \in Sessions /\ sessions'[s].state = "valid"
      BY <2>1 DEF FreshSession, TypeOK
    <3>3. Enrols(loc[p].device, loc[p].member)'
      BY <3>1, <1>0 DEF Knows
    <3> QED BY <3>1, <3>2, <3>3 DEF Knows, Final
  <2> QED BY <2>1, <2>2, <2>3
<1> QED BY <1>1, <1>2, <1>3, <1>5, <1>6, <1>7, <1>8, <1>9, <1>10 DEF Registration

LEMMA KnowsLogin ==
  ASSUME Inv, NEW p \in Handlers, Login(p), Final
  PROVE  Knows(p)'
<1> USE DEF Inv, Registering, RegHasDevice, RegHasPasskey, LoggingIn, Gated
<1>0. ASSUME NEW d, NEW m, Enrols(d, m) PROVE Enrols(d, m)'
  BY <1>0 DEF Final, Enrols
<1>1. ASSUME NEW op, NEW l \in {"login_options", "login_challenge"}, NEW c, LoginStart(p, op, l, c)
      PROVE  Knows(p)'
  <2>1. PICK d \in Devices \cap cookies : LoginStart(p, op, l, c)!(d)
    BY <1>1 DEF LoginStart
  <2>2. pc'[p] = l /\ loc'[p].member = devices[d].member /\ loc'[p].device = d
    BY <2>1 DEF Start, TypeOK, Blank
  <2>3. Enrols(d, devices[d].member) /\ devices[d].member \in Members
    BY DEF Delivered, Owned, Enrols
  <2>4. Enrols(loc[p].device, loc[p].member)'
    BY <2>2, <2>3, <1>0
  <2> QED BY <2>2, <2>3, <2>4 DEF Knows
<1>2. CASE BeginLogin(p) \/ FinishLogin(p)
  BY <1>1, <1>2 DEF BeginLogin, FinishLogin
<1>3. CASE CreateLoginChallenge(p)
  BY <1>3, DoneMoves, KnowsIdle DEF CreateLoginChallenge
<1>4. CASE LoginFindChallenge(p) \/ LoginReadMember(p)
  <2>1. \/ pc'[p] = "idle"
        \/ /\ pc[p] \in {"login_challenge", "login_member"}
           /\ pc'[p] \in {"login_use_challenge", "login_session"}
           /\ loc'[p] = loc[p]
    BY <1>4 DEF LoginFindChallenge, LoginReadMember, GoOnIf, Goto, Done, TypeOK
  <2>2. Enrols(loc[p].device, loc[p].member) /\ loc'[p] = loc[p] => Enrols(loc[p].device, loc[p].member)'
    BY <1>0
  <2> QED BY <2>1, <2>2, KnowsIdle DEF Knows
<1> QED BY <1>2, <1>3, <1>4 DEF Login

LEMMA KnowsAccess ==
  ASSUME Inv, NEW p \in Handlers, Access(p), Final
  PROVE  Knows(p)'
<1> USE DEF Inv, Registering, RegHasDevice, RegHasPasskey, LoggingIn, Gated
<1>1. CASE GateSession(p)
  <2>1. PICK s \in Sessions \cap cookies, d \in Devices \cap cookies, op \in GatedOps :
             GateSession(p)!(s, d, op)
    BY <1>1 DEF GateSession
  <2>2. /\ pc'[p] = "gate_member" /\ loc'[p].member = sessions[s].member
        /\ loc'[p].session = s /\ loc'[p].device = d
        /\ loc'[p].dead = (devices[d].state = "REVOKED")
    BY <2>1 DEF Start, TypeOK, Blank
  <2>3. /\ UNCHANGED <<devices, sessions>>
    BY <2>1 DEF Unwritten, docs
  <2>4. Enrols(d, devices[d].member) /\ sessions[s].state # "none" /\ sessions[s].member \in Members
    BY DEF Delivered, Owned
  <2>5. Enrols(loc[p].device, devices[loc[p].device].member)'
    BY <2>2, <2>3, <2>4 DEF Enrols
  <2> QED BY <2>2, <2>3, <2>4, <2>5 DEF Knows
<1>2. ASSUME pc[p] \in Gated, pc'[p] \in Gated \ {"gate_member"}, loc'[p] = loc[p],
             pc'[p] = "granted" => DeviceAccepted(p)
      PROVE  Knows(p)'
  <2>1. /\ loc[p].session \in Sessions /\ sessions[loc[p].session].state # "none"
        /\ loc[p].device \in Devices /\ devices[loc[p].device].state # "none"
        /\ Enrols(loc[p].device, devices[loc[p].device].member)
    BY <1>2 DEF Knows, Enrols
  <2>2. Enrols(loc[p].device, devices[loc[p].device].member)'
    BY <1>2, <2>1 DEF Final, Enrols
  <2>3. pc'[p] = "granted" =>
          ~loc[p].dead /\ devices[loc[p].device].member = loc[p].member
    BY <1>2 DEF DeviceAccepted, Knows
  <2> QED BY <1>2, <2>1, <2>2, <2>3 DEF Final, Knows
<1>3. CASE GateMember(p) \/ GateDevice(p)
  <2>1. \/ pc'[p] = "idle"
        \/ /\ pc[p] \in {"gate_member", "gate_device"}
           /\ pc'[p] \in {"gate_device", "granted"}
           /\ loc'[p] = loc[p]
           /\ pc'[p] = "granted" => DeviceAccepted(p)
    BY <1>3 DEF GateMember, GateDevice, GoOnIf, Goto, Done, TypeOK
  <2> QED BY <1>2, <2>1, KnowsIdle
<1>4. CASE Served(p)
  <2>1. \/ pc'[p] = "idle"
        \/ pc[p] = "granted" /\ pc'[p] \in {"read_pending", "remove_device"} /\ loc'[p] = loc[p]
    BY <1>4 DEF Served, Goto, Done, TypeOK
  <2>2. CASE pc'[p] = "read_pending"
    BY <2>1, <2>2 DEF Knows
  <2> QED BY <1>2, <2>1, <2>2, KnowsIdle
<1>5. CASE RemoveDevice(p)
  BY <1>2, <1>5 DEF RemoveDevice, Goto, TypeOK
<1>6. CASE RemoveSessions(p) \/ RevokeSession(p)
  BY <1>6, DoneMoves, KnowsIdle DEF RemoveSessions, RevokeSession
<1>7. CASE Logout(p)
  <2>1. PICK s \in Sessions \cap cookies : Logout(p)!(s)
    BY <1>7 DEF Logout
  <2>2. /\ pc'[p] = "revoke_session" /\ loc'[p].session = s
        /\ sessions'[s].state # "none"
    BY <2>1 DEF Start, TypeOK, Blank, Unwritten, docs
  <2> QED BY <2>2 DEF Knows
<1> QED BY <1>1, <1>3, <1>4, <1>5, <1>6, <1>7 DEF Access

LEMMA KnowsAdmin ==
  ASSUME Inv, NEW p \in Handlers, Admin(p)
  PROVE  Knows(p)'
<1> USE DEF Inv, Registering, RegHasDevice, RegHasPasskey, LoggingIn, Gated
<1>1. CASE AdminStart(p)
  <2>1. /\ pc'[p] \in {"bar", "reactivate"}
        /\ loc'[p].member \in Members
    BY <1>1 DEF AdminStart, Start, TypeOK, Blank
  <2> QED BY <2>1 DEF Knows
<1>2. CASE ReviewStart(p)
  <2>1. PICK r \in Requests, op \in {"approve", "reject"} : ReviewStart(p)!(r, op)
    BY <1>2 DEF ReviewStart
  <2>2. pc'[p] = op /\ loc'[p].member = requests[r].member
    BY <2>1 DEF Start, TypeOK, Blank
  <2> QED BY <2>1, <2>2 DEF Knows, Owned
<1>3. CASE Bar(p) \/ RevokeMemberSessions(p) \/ RevokeMemberDevices(p) \/ Approve(p)
  <2>1. \/ pc'[p] = "idle"
        \/ /\ pc[p] \in {"bar", "bar_sessions", "approve", "approve_devices"}
           /\ pc'[p] \in {"bar_sessions", "bar_devices", "approve_devices", "approve_sessions"}
           /\ loc'[p] = loc[p]
    BY <1>3 DEF Bar, RevokeMemberSessions, RevokeMemberDevices, Approve, Goto, Done, TypeOK
  <2> QED BY <2>1, KnowsIdle DEF Knows
<1>4. CASE Reactivate(p) \/ Reject(p)
  BY <1>4, DoneMoves, KnowsIdle DEF Reactivate, Reject
<1> QED BY <1>1, <1>2, <1>3, <1>4 DEF Admin

LEMMA KnowsNext ==
  ASSUME Inv, [Next]_vars, Final, NEW q \in Handlers
  PROVE  Knows(q)'
<1> USE DEF Inv
<1>1. ASSUME NEW p \in Handlers, Step(p) \/ Fail(p) \/ OutOfIds(p)
      PROVE  Knows(q)'
  <2>1. CASE q # p
    BY <1>1, <2>1, OthersRest, KnowsKept
  <2>2. CASE q = p /\ Step(p)
    BY <2>2, KnowsEnrolment, KnowsRegistration, KnowsLogin, KnowsAccess, KnowsAdmin DEF Step
  <2>3. CASE q = p /\ (Fail(p) \/ OutOfIds(p))
    BY <2>3, DoneMoves, KnowsIdle DEF Fail, OutOfIds
  <2> QED BY <1>1, <2>1, <2>2, <2>3
<1>2. CASE Environment \/ UNCHANGED vars
  BY <1>2, KnowsKept DEF Environment, Expire, MonthPasses, DeleteStaleRequests, vars
<1> QED BY <1>1, <1>2 DEF Next

----------------------------------------------------------------------------
(* The theorems                                                            *)

LEMMA InvInit == Init => Inv
<1> SUFFICES ASSUME Init PROVE Inv
  OBVIOUS
<1>1. TypeOK
  BY TypeInit
<1>2. \A d \in Devices : devices[d].state # "none" =>
         \E m \in Enrolled : HomeDevice[m] = d /\ devices[d].member = m /\ devices[d].cred = 0
  BY DEF Init, NoDevice
<1>3. Owned
  BY <1>2, EnrolledAssumption DEF Init, Owned, NoTicket, NoSession, NoRequest, ReqStatus
<1>4. Delivered
  <2>1. \A d \in Devices \cap cookies : devices[d].state = "ACTIVE" /\ devices[d].cred = 0
    BY DEF Init
  <2>2. Sessions \cap cookies = {}
    BY EnrolledAssumption, IdsAssumption DEF Init
  <2> QED BY <2>1, <2>2, IdsAssumption DEF Delivered, Enrols
<1>5. SessionBacked
  BY DEF Init, SessionBacked, NoSession
<1>6. \A p \in Handlers : Knows(p)
  BY DEF Init, Knows, Registering, RegHasDevice, RegHasPasskey, LoggingIn, Gated
<1> QED BY <1>1, <1>3, <1>4, <1>5, <1>6 DEF Inv

LEMMA InvNext == Inv /\ [Next]_vars => Inv' /\ Final
  BY TypeNext, DocsNext, KnowsNext DEF Inv, DocsOK

(* Inv is an invariant: what the theorems below rest on.                   *)
LEMMA Invariance == Spec => []Inv
  BY InvInit, InvNext, PTL DEF Spec

(* Every document, cookie and handler keeps its type: no operation ever     *)
(* writes a status or a link that the rest of the code does not know.      *)
THEOREM TypeCorrect == Spec => []TypeOK
  BY Invariance, PTL DEF Inv

(* Whatever handlers, faults, expiries and administrators do in between, a  *)
(* session never exists without a passkey-backed device of its own member. *)
THEOREM SessionBackedCorrect == Spec => []SessionBacked
  BY Invariance, PTL DEF Inv

(* The gate's three reads at three moments never admit a device that was   *)
(* revoked before the request arrived, nor one of another member.          *)
THEOREM GrantSoundCorrect == Spec => []GrantSound
<1>1. Inv => GrantSound
  <2> SUFFICES ASSUME Inv, NEW p \in Handlers, pc[p] = "granted"
               PROVE  /\ ~loc[p].dead
                      /\ devices[loc[p].device].cred # None
                      /\ devices[loc[p].device].member = sessions[loc[p].session].member
    BY DEF GrantSound
  <2> QED BY DEF Inv, Knows, Gated, Enrols
<1> QED BY <1>1, Invariance, PTL

(* Revocation is final, and ownership of devices, sessions and tickets is  *)
(* fixed once and for all: no operation, reactivation included, undoes it. *)
THEOREM RevocationFinalCorrect == Spec => RevocationFinal
  BY Invariance, InvNext, PTL DEF Spec, RevocationFinal
============================================================================
