---------------------------- MODULE DeviceTrust ----------------------------
(***************************************************************************)
(* Device trust: enrolment tickets, WebAuthn ceremonies, trusted devices,  *)
(* sessions, device-change requests, and the administrator's operations on *)
(* them (domain/webauthn_service.py, domain/auth_service.py verify_otp,    *)
(* domain/member_service.py, api/admin.py, api/devices.py, api/auth.py,    *)
(* core/dependencies.py and the repositories they call).                   *)
(*                                                                         *)
(* The backend is one asyncio process.  A request handler runs without     *)
(* interruption between two awaits and every await on the database is one  *)
(* atomic single-document (or update_many) operation, so each action is    *)
(* one database operation with the code up to the next await.  pc[p] is    *)
(* the operation handler p is about to make, loc[p] what it has read.      *)
(***************************************************************************)
EXTENDS Naturals, FiniteSets

CONSTANTS
    Members,        \* member_ids, all past STAGED (approval is elsewhere)
    Enrolled,       \* the members that start ACTIVE, with one trusted device
    HomeDevice,     \* [Enrolled -> Devices], that device
    Handlers,       \* slots for requests being served at the same time
    MayRun,         \* [Handlers -> SUBSET Ops], what each slot may serve
    Tickets, Devices, Sessions,    \* document ids
    MaxChallenges, MaxRequests,    \* bounds on documents created, in order
    MaxFaults,      \* bound on handlers cut short by an error or a crash
    None

ASSUME EnrolledAssumption ==
    /\ Enrolled \subseteq Members
    /\ HomeDevice \in [Enrolled -> Devices]
    /\ \A m, n \in Enrolled : HomeDevice[m] = HomeDevice[n] => m = n

ASSUME BoundsAssumption ==
    MaxChallenges \in Nat /\ MaxRequests \in Nat /\ MaxFaults \in Nat

ASSUME HandlersAssumption == IsFiniteSet(Handlers)

ASSUME IdsAssumption ==
    /\ None \notin Members \cup Tickets \cup Devices \cup Sessions \cup Nat
    /\ Devices \cap Sessions = {}
    /\ Devices \cap Members = {}

VARIABLES
    status,         \* members.status
    tickets,        \* enrollment_tickets
    challenges,     \* webauthn_challenges; a larger id is a later created_at
    devices,        \* devices, each with its webauthn_credentials document
    sessions,       \* sessions
    requests,       \* device_change_requests; a larger id is a later requested_at
    cookies,        \* device and session tokens some client has been given
    pc, loc,        \* the handlers
    barred,         \* history: members a suspend or deactivate call has
                    \* returned for and no reactivate has since let back
    aged,           \* requests made more than 30 days ago, PENDING then
    faults

docs == <<status, tickets, challenges, devices, sessions, requests>>
vars == <<docs, cookies, pc, loc, barred, aged, faults>>

Statuses   == {"PENDING_ENROLLMENT", "ACTIVE", "SUSPENDED", "DEACTIVATED"}
BarStatus  == {"SUSPENDED", "DEACTIVATED"}
ReqStatus  == {"PENDING", "APPROVED", "REJECTED", "COMPLETED"}
Challenges == 1 .. MaxChallenges
Requests   == 1 .. MaxRequests

Ops == {"verify_otp", "begin_registration", "finish_registration",
        "begin_login", "finish_login", "use_route", "request_device_change",
        "remove_current_device", "logout", "suspend", "deactivate",
        "reactivate", "approve", "reject"}

ASSUME MayRunAssumption == MayRun \in [Handlers -> SUBSET Ops]

Labels ==
    {"idle", "otp_enroll", "otp_change", "read_latest", "read_pending",
     "create_request", "issue_ticket", "reg_options", "reg_challenge",
     "reg_use_challenge", "reg_use_ticket", "reg_device", "reg_credential",
     "reg_activate", "reg_request", "reg_complete", "reg_session",
     "reg_respond", "login_options", "login_challenge", "login_use_challenge",
     "login_member", "login_session", "gate_member", "gate_device",
     "granted", "remove_device", "remove_sessions", "revoke_session",
     "bar", "bar_sessions", "bar_devices", "reactivate", "approve",
     "approve_devices", "approve_sessions", "reject"}

\* What a handler carries from one await to the next.  dead and shut are
\* history: the presented device was already revoked, the member already
\* barred, when the request arrived.
Blank == [op |-> None, member |-> None, ticket |-> None, chal |-> None,
          device |-> None, session |-> None, request |-> None,
          dead |-> FALSE, shut |-> FALSE]

\* state: "none" no document, "valid" usable, "spent" consumed or expired
NoTicket    == [state |-> "none", member |-> None]
NoChallenge == [state |-> "none", subject |-> None]
\* cred: the ceremony whose credential is stored (0: before this behaviour
\* began); ticket: history, the enrolment ticket that paid for the device
NoDevice    == [state |-> "none", member |-> None, cred |-> None, ticket |-> None]
NoSession   == [state |-> "none", member |-> None, device |-> None]
NoRequest   == [status |-> "none", member |-> None]

Init ==
    /\ status = [m \in Members |->
                    IF m \in Enrolled THEN "ACTIVE" ELSE "PENDING_ENROLLMENT"]
    /\ tickets = [t \in Tickets |-> NoTicket]
    /\ challenges = [c \in Challenges |-> NoChallenge]
    /\ devices = [d \in Devices |->
         IF \E m \in Enrolled : HomeDevice[m] = d
         THEN [state |-> "ACTIVE", cred |-> 0, ticket |-> None,
               member |-> CHOOSE m \in Enrolled : HomeDevice[m] = d]
         ELSE NoDevice]
    /\ sessions = [s \in Sessions |-> NoSession]
    /\ requests = [r \in Requests |-> NoRequest]
    /\ cookies = {HomeDevice[m] : m \in Enrolled}
    /\ pc = [p \in Handlers |-> "idle"]
    /\ loc = [p \in Handlers |-> Blank]
    /\ barred = {}
    /\ aged = {}
    /\ faults = 0

----------------------------------------------------------------------------
(* Queries the repositories make                                           *)

ValidChallenges(subj) ==
    {c \in Challenges : challenges[c].state = "valid" /\ challenges[c].subject = subj}

\* find_valid(subj) finds a challenge, and the answer c verifies against it
AnswersNewest(c, subj) ==
    c \in ValidChallenges(subj) /\ \A x \in ValidChallenges(subj) : x <= c

RequestsOf(m) == {r \in Requests : requests[r].member = m}
Pending(m)    == {r \in RequestsOf(m) : requests[r].status = "PENDING"}

\* find_latest_for_member: the newest request, in whatever status
Latest(m)     == {r \in RequestsOf(m) : \A x \in RequestsOf(m) : x <= r}
LatestApproved(m) == \E r \in Latest(m) : requests[r].status = "APPROVED"

\* ids that no document has ever had; Challenges and Requests grow in order
FreshTicket    == {t \in Tickets : tickets[t].state = "none"}
FreshDevice    == {d \in Devices : devices[d].state = "none"}
FreshSession   == {s \in Sessions : sessions[s].state = "none"}
NextChallenge  == {c \in Challenges : /\ challenges[c].state = "none"
                                      /\ \A x \in 1 .. (c - 1) : challenges[x].state # "none"}
NextRequest    == {r \in Requests : /\ requests[r].status = "none"
                                    /\ \A x \in 1 .. (r - 1) : requests[x].status # "none"}

----------------------------------------------------------------------------
(* Control of a handler                                                    *)

Start(p, op, l, read) ==
    /\ pc[p] = "idle"
    /\ op \in MayRun[p]
    /\ pc' = [pc EXCEPT ![p] = l]
    /\ loc' = [loc EXCEPT ![p] = read]

Goto(p, from, to) ==
    /\ pc[p] = from
    /\ pc' = [pc EXCEPT ![p] = to]

\* the handler answers, or raises; either way its locals are gone
Done(p) ==
    /\ pc' = [pc EXCEPT ![p] = "idle"]
    /\ loc' = [loc EXCEPT ![p] = Blank]

\* a check on what was just read: go on, or answer with a refusal
GoOnIf(p, ok, from, to) ==
    /\ pc[p] = from
    /\ IF ok THEN Goto(p, from, to) /\ UNCHANGED loc ELSE Done(p)

Unwritten == UNCHANGED <<docs, cookies, barred, faults, aged>>

----------------------------------------------------------------------------
(* AuthService.verify_otp.  verify_challenge itself is module OtpChallenge;*)
(* here it accepts or raises.                                              *)

\* mutant: only DEACTIVATED is refused a code
VerifyOtpStart_AnyStatus(p) == \E m \in Members :
    /\ status[m] # "DEACTIVATED"
    /\ Start(p, "verify_otp", IF status[m] = "ACTIVE" THEN "otp_change" ELSE "otp_enroll",
             [Blank EXCEPT !.member = m])
    /\ Unwritten

VerifyOtpStart(p) == \E m \in Members :
    /\ \/ /\ status[m] = "PENDING_ENROLLMENT"
          /\ Start(p, "verify_otp", "otp_enroll", [Blank EXCEPT !.member = m])
       \/ /\ status[m] = "ACTIVE"
          /\ Start(p, "verify_otp", "otp_change", [Blank EXCEPT !.member = m])
    /\ Unwritten

OtpRefused(p) ==
    /\ pc[p] \in {"otp_enroll", "otp_change"}
    /\ Done(p)
    /\ Unwritten

OtpAccepted(p) ==
    /\ \/ Goto(p, "otp_enroll", "issue_ticket")
       \/ Goto(p, "otp_change", "read_latest")
    /\ UNCHANGED loc
    /\ Unwritten

ReadLatestRequest(p) ==
    /\ Goto(p, "read_latest",
            IF LatestApproved(loc[p].member) THEN "issue_ticket" ELSE "read_pending")
    /\ UNCHANGED loc
    /\ Unwritten

IssueTicket(p) == \E t \in FreshTicket :
    /\ pc[p] = "issue_ticket"
    /\ tickets' = [tickets EXCEPT ![t] = [state |-> "valid", member |-> loc[p].member]]
    /\ Done(p)
    /\ UNCHANGED <<status, challenges, devices, sessions, requests, cookies, barred, faults, aged>>

\* mutant: nobody looks for a pending request
ReadPending_Blind(p) ==
    /\ Goto(p, "read_pending", "create_request")
    /\ UNCHANGED loc
    /\ Unwritten

\* find_pending_for_member, here and in request_device_change
ReadPending(p) ==
    /\ GoOnIf(p, Pending(loc[p].member) = {}, "read_pending", "create_request")
    /\ Unwritten

CreateRequest(p) == \E r \in NextRequest :
    /\ pc[p] = "create_request"
    /\ requests' = [requests EXCEPT ![r] = [status |-> "PENDING", member |-> loc[p].member]]
    /\ Done(p)
    /\ UNCHANGED <<status, tickets, challenges, devices, sessions, cookies, barred, faults, aged>>

----------------------------------------------------------------------------
(* WebAuthnService: registration                                           *)

BeginRegistration(p) == \E t \in Tickets :
    /\ tickets[t].state = "valid"
    /\ Start(p, "begin_registration", "reg_options", [Blank EXCEPT !.member = tickets[t].member])
    /\ Unwritten

CreateRegChallenge(p) == \E c \in NextChallenge :
    /\ pc[p] = "reg_options"
    /\ challenges' = [challenges EXCEPT ![c] = [state |-> "valid", subject |-> loc[p].member]]
    /\ Done(p)
    /\ UNCHANGED <<status, tickets, devices, sessions, requests, cookies, barred, faults, aged>>

\* The client sends a ticket and an authenticator's answer to some challenge
\* it was once given; each answer to a challenge carries one credential, so
\* the challenge names the credential too.
FinishRegistration(p) == \E t \in Tickets, c \in Challenges :
    /\ tickets[t].state = "valid"
    /\ challenges[c].state # "none"
    /\ challenges[c].subject \in Members
    /\ Start(p, "finish_registration", "reg_challenge",
             [Blank EXCEPT !.member = tickets[t].member, !.ticket = t, !.chal = c])
    /\ Unwritten

\* challenges_repo.find_valid, then verify_registration_response (no await
\* between): only an answer to the newest valid challenge verifies
RegFindChallenge(p) ==
    /\ GoOnIf(p, AnswersNewest(loc[p].chal, loc[p].member), "reg_challenge", "reg_use_challenge")
    /\ Unwritten

\* consume, registration and login: unconditional, its result is not looked at
UseChallenge(p) ==
    /\ \/ Goto(p, "reg_use_challenge", "reg_use_ticket")
       \/ Goto(p, "login_use_challenge", "login_member")
    /\ challenges' = [challenges EXCEPT ![loc[p].chal].state = "spent"]
    /\ UNCHANGED <<status, tickets, devices, sessions, requests, cookies, loc, barred, faults, aged>>

RegUseTicket(p) ==
    /\ Goto(p, "reg_use_ticket", "reg_device")
    /\ tickets' = [tickets EXCEPT ![loc[p].ticket].state = "spent"]
    /\ UNCHANGED <<status, challenges, devices, sessions, requests, cookies, loc, barred, faults, aged>>

RegCreateDevice(p) == \E d \in FreshDevice :
    /\ Goto(p, "reg_device", "reg_credential")
    /\ devices' = [devices EXCEPT ![d] = [state |-> "ACTIVE", member |-> loc[p].member,
                                          cred |-> None, ticket |-> loc[p].ticket]]
    /\ loc' = [loc EXCEPT ![p].device = d]
    /\ UNCHANGED <<status, tickets, challenges, sessions, requests, cookies, barred, faults, aged>>

\* mutant: the duplicate-key error is swallowed
RegCreateCredential_NoRaise(p) ==
    /\ Goto(p, "reg_credential", "reg_activate")
    /\ devices' = IF \E d \in Devices : devices[d].cred = loc[p].chal THEN devices
                  ELSE [devices EXCEPT ![loc[p].device].cred = loc[p].chal]
    /\ UNCHANGED <<status, tickets, challenges, sessions, requests, cookies, loc, barred, faults, aged>>

\* credential_id is unique: a second insert raises, and the device stays
RegCreateCredential(p) ==
    /\ pc[p] = "reg_credential"
    /\ LET unused == \A d \in Devices : devices[d].cred # loc[p].chal IN
       /\ GoOnIf(p, unused, "reg_credential", "reg_activate")
       /\ devices' = IF unused THEN [devices EXCEPT ![loc[p].device].cred = loc[p].chal]
                     ELSE devices
    /\ UNCHANGED <<status, tickets, challenges, sessions, requests, cookies, barred, faults, aged>>

\* activate_member looks at nothing but the member_id
RegActivate(p) ==
    /\ Goto(p, "reg_activate", "reg_request")
    /\ status' = [status EXCEPT ![loc[p].member] = "ACTIVE"]
    /\ UNCHANGED <<tickets, challenges, devices, sessions, requests, cookies, loc, barred, faults, aged>>

RegReadRequest(p) ==
    /\ IF LatestApproved(loc[p].member)
       THEN /\ Goto(p, "reg_request", "reg_complete")
            /\ \E r \in Latest(loc[p].member) : loc' = [loc EXCEPT ![p].request = r]
       ELSE /\ Goto(p, "reg_request", "reg_session")
            /\ UNCHANGED loc
    /\ Unwritten

\* update_one by _id: nothing happens when cleanup has deleted the request
SetRequest(r, st) ==
    requests' = IF requests[r].status \in ReqStatus
                THEN [requests EXCEPT ![r].status = st] ELSE requests

RegCompleteRequest(p) ==
    /\ Goto(p, "reg_complete", "reg_session")
    /\ SetRequest(loc[p].request, "COMPLETED")
    /\ UNCHANGED <<status, tickets, challenges, devices, sessions, cookies, loc, barred, faults, aged>>

NewSession(p) == \E s \in FreshSession :
    /\ sessions' = [sessions EXCEPT ![s] = [state |-> "valid", member |-> loc[p].member,
                                            device |-> loc[p].device]]
    /\ \/ /\ Goto(p, "reg_session", "reg_respond")
          /\ loc' = [loc EXCEPT ![p].session = s]
          /\ UNCHANGED cookies
       \/ /\ pc[p] = "login_session"
          /\ Done(p)
          /\ cookies' = cookies \cup {s}
    /\ UNCHANGED <<status, tickets, challenges, devices, requests, barred, faults, aged>>

\* audit.log, then the response that carries both cookies
RegRespond(p) ==
    /\ pc[p] = "reg_respond"
    /\ cookies' = cookies \cup {loc[p].device, loc[p].session}
    /\ Done(p)
    /\ UNCHANGED <<docs, barred, faults, aged>>

----------------------------------------------------------------------------
(* WebAuthnService: login                                                  *)

LoginStart(p, op, l, c) == \E d \in Devices \cap cookies :
    /\ devices[d].state = "ACTIVE"
    /\ Start(p, op, l, [Blank EXCEPT !.member = devices[d].member, !.device = d, !.chal = c])
    /\ Unwritten

BeginLogin(p) == LoginStart(p, "begin_login", "login_options", None)

CreateLoginChallenge(p) == \E c \in NextChallenge :
    /\ pc[p] = "login_options"
    /\ challenges' = [challenges EXCEPT ![c] = [state |-> "valid", subject |-> loc[p].device]]
    /\ Done(p)
    /\ UNCHANGED <<status, tickets, devices, sessions, requests, cookies, barred, faults, aged>>

FinishLogin(p) == \E c \in Challenges :
    /\ challenges[c].state # "none"
    /\ LoginStart(p, "finish_login", "login_challenge", c)

\* find_valid; the credential is read and the assertion verified after it,
\* but the credential's key never changes and its device has one
LoginFindChallenge(p) ==
    /\ GoOnIf(p, AnswersNewest(loc[p].chal, loc[p].device), "login_challenge", "login_use_challenge")
    /\ Unwritten

LoginReadMember(p) ==
    /\ GoOnIf(p, status[loc[p].member] = "ACTIVE", "login_member", "login_session")
    /\ Unwritten

----------------------------------------------------------------------------
(* The access gate, and the routes behind it that change state             *)

GatedOps == {"use_route", "request_device_change", "remove_current_device"}

\* require_active_session; the client presents any two cookies it holds
GateSession(p) == \E s \in Sessions \cap cookies, d \in Devices \cap cookies, op \in GatedOps :
    /\ sessions[s].state = "valid"
    /\ Start(p, op, "gate_member",
             [Blank EXCEPT !.op = op, !.member = sessions[s].member,
                           !.session = s, !.device = d,
                           !.dead = (devices[d].state = "REVOKED"),
                           !.shut = (sessions[s].member \in barred)])
    /\ Unwritten

GateMember(p) ==
    /\ GoOnIf(p, status[loc[p].member] = "ACTIVE", "gate_member", "gate_device")
    /\ Unwritten

\* mutant: find_by_hash, whatever the device's status
DeviceAccepted_AnyState(p) == devices[loc[p].device].member = loc[p].member

\* find_active_device_by_hash found a device, and it is this member's
DeviceAccepted(p) ==
    /\ devices[loc[p].device].state = "ACTIVE"
    /\ devices[loc[p].device].member = loc[p].member

GateDevice(p) ==
    /\ GoOnIf(p, DeviceAccepted(p), "gate_device", "granted")
    /\ Unwritten

\* the route's own work: reads only, or the two device routes
Served(p) ==
    /\ pc[p] = "granted"
    /\ \/ loc[p].op = "use_route" /\ Done(p)
       \/ /\ loc[p].op = "request_device_change"
          /\ Goto(p, "granted", "read_pending")
          /\ UNCHANGED loc
       \/ /\ loc[p].op = "remove_current_device"
          /\ Goto(p, "granted", "remove_device")
          /\ UNCHANGED loc
    /\ Unwritten

RemoveDevice(p) ==
    /\ Goto(p, "remove_device", "remove_sessions")
    /\ devices' = [devices EXCEPT ![loc[p].device].state = "REVOKED"]
    /\ UNCHANGED <<status, tickets, challenges, sessions, requests, cookies, loc, barred, faults, aged>>

\* update_many, where revoked_at is not set yet
RevokeSessionsIn(hit) ==
    sessions' = [s \in Sessions |-> IF s \in hit /\ sessions[s].state = "valid"
                                    THEN [sessions[s] EXCEPT !.state = "spent"]
                                    ELSE sessions[s]]

RemoveSessions(p) ==
    /\ pc[p] = "remove_sessions"
    /\ RevokeSessionsIn({s \in Sessions : sessions[s].device = loc[p].device})
    /\ Done(p)
    /\ UNCHANGED <<status, tickets, challenges, devices, requests, cookies, barred, faults, aged>>

Logout(p) == \E s \in Sessions \cap cookies :
    /\ sessions[s].state = "valid"
    /\ Start(p, "logout", "revoke_session", [Blank EXCEPT !.session = s])
    /\ Unwritten

RevokeSession(p) ==
    /\ pc[p] = "revoke_session"
    /\ sessions' = [sessions EXCEPT ![loc[p].session].state = "spent"]
    /\ Done(p)
    /\ UNCHANGED <<status, tickets, challenges, devices, requests, cookies, barred, faults, aged>>

----------------------------------------------------------------------------
(* Administrator operations (each passed require_admin_session)            *)

AdminStart(p) == \E m \in Members :
    /\ \/ \E op \in {"suspend", "deactivate"} :
             Start(p, op, "bar", [Blank EXCEPT !.op = op, !.member = m])
       \/ /\ status[m] \in BarStatus
          /\ Start(p, "reactivate", "reactivate", [Blank EXCEPT !.member = m])
    /\ Unwritten

Bar(p) ==
    /\ Goto(p, "bar", "bar_sessions")
    /\ status' = [status EXCEPT ![loc[p].member] =
                    IF loc[p].op = "suspend" THEN "SUSPENDED" ELSE "DEACTIVATED"]
    /\ UNCHANGED <<tickets, challenges, devices, sessions, requests, cookies, loc, barred, faults, aged>>

\* mutant: suspend and deactivate forget the devices
RevokeMemberSessions_Only(p) ==
    /\ RevokeSessionsIn({s \in Sessions : sessions[s].member = loc[p].member})
    /\ pc[p] \in {"bar_sessions", "approve_sessions"}
    /\ Done(p)
    /\ UNCHANGED <<status, tickets, challenges, devices, requests, cookies, barred, faults, aged>>

\* revoke_all_for_member on sessions: suspend and deactivate do it before
\* the devices, the approval of a device change after them
RevokeMemberSessions(p) ==
    /\ RevokeSessionsIn({s \in Sessions : sessions[s].member = loc[p].member})
    /\ \/ Goto(p, "bar_sessions", "bar_devices") /\ UNCHANGED loc
       \/ pc[p] = "approve_sessions" /\ Done(p)
    /\ UNCHANGED <<status, tickets, challenges, devices, requests, cookies, barred, faults, aged>>

\* mutant: update_many with no filter on the member
RevokeMemberDevices_Everyone(p) ==
    /\ devices' = [d \in Devices |-> IF devices[d].state = "ACTIVE"
                                    THEN [devices[d] EXCEPT !.state = "REVOKED"] ELSE devices[d]]
    /\ \/ /\ pc[p] = "bar_devices"
          /\ Done(p)
          /\ barred' = barred \cup {loc[p].member}
       \/ /\ Goto(p, "approve_devices", "approve_sessions")
          /\ UNCHANGED <<loc, barred>>
    /\ UNCHANGED <<status, tickets, challenges, sessions, requests, cookies, faults, aged>>

\* revoke_all_for_member on devices
RevokeMemberDevices(p) ==
    /\ devices' = [d \in Devices |->
                     IF devices[d].state = "ACTIVE" /\ devices[d].member = loc[p].member
                     THEN [devices[d] EXCEPT !.state = "REVOKED"] ELSE devices[d]]
    /\ \/ /\ pc[p] = "bar_devices"
          /\ Done(p)
          /\ barred' = barred \cup {loc[p].member}
       \/ /\ Goto(p, "approve_devices", "approve_sessions")
          /\ UNCHANGED <<loc, barred>>
    /\ UNCHANGED <<status, tickets, challenges, sessions, requests, cookies, faults, aged>>

\* mutant: a status no other code knows
Reactivate_Typo(p) ==
    /\ pc[p] = "reactivate"
    /\ status' = [status EXCEPT ![loc[p].member] = "PENDING"]
    /\ barred' = barred \ {loc[p].member}
    /\ Done(p)
    /\ UNCHANGED <<tickets, challenges, devices, sessions, requests, cookies, faults, aged>>

\* mutant: the member's devices come back too
Reactivate_Restore(p) ==
    /\ pc[p] = "reactivate"
    /\ status' = [status EXCEPT ![loc[p].member] = "PENDING_ENROLLMENT"]
    /\ devices' = [d \in Devices |->
                     IF devices[d].state = "REVOKED" /\ devices[d].member = loc[p].member
                     THEN [devices[d] EXCEPT !.state = "ACTIVE"] ELSE devices[d]]
    /\ barred' = barred \ {loc[p].member}
    /\ Done(p)
    /\ UNCHANGED <<tickets, challenges, sessions, requests, cookies, faults, aged>>

Reactivate(p) ==
    /\ pc[p] = "reactivate"
    /\ status' = [status EXCEPT ![loc[p].member] = "PENDING_ENROLLMENT"]
    /\ barred' = barred \ {loc[p].member}
    /\ Done(p)
    /\ UNCHANGED <<tickets, challenges, devices, sessions, requests, cookies, faults, aged>>

\* find_one({"_id": oid}): the request in whatever status
ReviewStart(p) == \E r \in Requests, op \in {"approve", "reject"} :
    /\ requests[r].status \in ReqStatus
    /\ Start(p, op, op, [Blank EXCEPT !.member = requests[r].member, !.request = r])
    /\ Unwritten

\* mutant: approval revokes the sessions only
Approve_KeepDevices(p) ==
    /\ Goto(p, "approve", "approve_sessions")
    /\ SetRequest(loc[p].request, "APPROVED")
    /\ UNCHANGED <<status, tickets, challenges, devices, sessions, cookies, loc, barred, faults, aged>>

Approve(p) ==
    /\ Goto(p, "approve", "approve_devices")
    /\ SetRequest(loc[p].request, "APPROVED")
    /\ UNCHANGED <<status, tickets, challenges, devices, sessions, cookies, loc, barred, faults, aged>>

Reject(p) ==
    /\ pc[p] = "reject"
    /\ SetRequest(loc[p].request, "REJECTED")
    /\ Done(p)
    /\ UNCHANGED <<status, tickets, challenges, devices, sessions, cookies, barred, faults, aged>>

----------------------------------------------------------------------------
(* Time, the cleanup job, and restarts                                     *)

\* expires_at passes (whether a TTL index or cleanup then deletes the
\* document makes no difference: every query filters on expires_at)
Expire ==
    /\ \/ /\ \E t \in Tickets : /\ tickets[t].state = "valid"
                                /\ tickets' = [tickets EXCEPT ![t].state = "spent"]
          /\ UNCHANGED <<challenges, sessions>>
       \/ /\ \E c \in Challenges : /\ challenges[c].state = "valid"
                                   /\ challenges' = [challenges EXCEPT ![c].state = "spent"]
          /\ UNCHANGED <<tickets, sessions>>
       \/ /\ \E s \in Sessions : /\ sessions[s].state = "valid"
                                 /\ sessions' = [sessions EXCEPT ![s].state = "spent"]
          /\ UNCHANGED <<tickets, challenges>>
    /\ UNCHANGED <<status, devices, requests, cookies, pc, loc, barred, faults, aged>>

\* 30 days go by: every ticket, challenge and session alive now is expired
\* then, and every request pending now is stale
MonthPasses ==
    /\ \A p \in Handlers : pc[p] = "idle"
    /\ tickets' = [t \in Tickets |-> IF tickets[t].state = "none" THEN tickets[t]
                                     ELSE [tickets[t] EXCEPT !.state = "spent"]]
    /\ challenges' = [c \in Challenges |-> IF challenges[c].state = "none" THEN challenges[c]
                                           ELSE [challenges[c] EXCEPT !.state = "spent"]]
    /\ sessions' = [s \in Sessions |-> IF sessions[s].state = "none" THEN sessions[s]
                                       ELSE [sessions[s] EXCEPT !.state = "spent"]]
    /\ aged' = {r \in Requests : requests[r].status = "PENDING"}
    /\ UNCHANGED <<status, devices, requests, cookies, pc, loc, barred, faults>>

\* run_cleanup, step 6: the stale pending requests are deleted
DeleteStaleRequests ==
    /\ \E r \in aged : requests[r].status = "PENDING"
    /\ requests' = [r \in Requests |-> IF r \in aged /\ requests[r].status = "PENDING"
                                       THEN [status |-> "deleted", member |-> None]
                                       ELSE requests[r]]
    /\ UNCHANGED <<status, tickets, challenges, devices, sessions, cookies, pc, loc,
                   barred, aged, faults>>

\* a database call raises, or the process dies: the handler is gone with
\* what it has written so far in place
Fail(p) ==
    /\ faults < MaxFaults
    /\ pc[p] # "idle"
    /\ faults' = faults + 1
    /\ Done(p)
    /\ UNCHANGED <<docs, cookies, barred, aged>>

\* the bound on documents is reached: the insert raises
OutOfIds(p) ==
    /\ \/ pc[p] = "issue_ticket" /\ FreshTicket = {}
       \/ pc[p] \in {"reg_options", "login_options"} /\ NextChallenge = {}
       \/ pc[p] = "create_request" /\ NextRequest = {}
       \/ pc[p] = "reg_device" /\ FreshDevice = {}
       \/ pc[p] \in {"reg_session", "login_session"} /\ FreshSession = {}
    /\ Done(p)
    /\ Unwritten

----------------------------------------------------------------------------
Enrolment(p) ==
    \/ VerifyOtpStart(p) \/ OtpRefused(p) \/ OtpAccepted(p) \/ ReadLatestRequest(p)
    \/ IssueTicket(p) \/ ReadPending(p) \/ CreateRequest(p)
Registration(p) ==
    \/ BeginRegistration(p) \/ CreateRegChallenge(p) \/ FinishRegistration(p)
    \/ RegFindChallenge(p) \/ UseChallenge(p) \/ RegUseTicket(p)
    \/ RegCreateDevice(p) \/ RegCreateCredential(p) \/ RegActivate(p)
    \/ RegReadRequest(p) \/ RegCompleteRequest(p) \/ NewSession(p) \/ RegRespond(p)
Login(p) ==
    \/ BeginLogin(p) \/ CreateLoginChallenge(p) \/ FinishLogin(p)
    \/ LoginFindChallenge(p) \/ LoginReadMember(p)
Access(p) ==
    \/ GateSession(p) \/ GateMember(p) \/ GateDevice(p) \/ Served(p)
    \/ RemoveDevice(p) \/ RemoveSessions(p) \/ Logout(p) \/ RevokeSession(p)
Admin(p) ==
    \/ AdminStart(p) \/ Bar(p) \/ RevokeMemberSessions(p) \/ RevokeMemberDevices(p)
    \/ Reactivate(p) \/ ReviewStart(p) \/ Approve(p) \/ Reject(p)

Step(p) == Enrolment(p) \/ Registration(p) \/ Login(p) \/ Access(p) \/ Admin(p)
Environment == Expire \/ MonthPasses \/ DeleteStaleRequests

Next == \/ \E p \in Handlers : Step(p) \/ Fail(p) \/ OutOfIds(p)
        \/ Environment

Spec == Init /\ [][Next]_vars

\* asyncio runs every ready handler: one that waits for the database goes on
\* once the answer is there.  Only the revocations need it here: neither need
\* a request arrive, nor need any other handler ever finish.
Revoke(p) == RevokeMemberSessions(p) \/ RevokeMemberDevices(p)
FairSpec == Spec /\ \A p \in Handlers : WF_vars(Revoke(p))

----------------------------------------------------------------------------
TicketType    == [state : {"none", "valid", "spent"}, member : Members \cup {None}]
ChallengeType == [state : {"none", "valid", "spent"},
                  subject : Members \cup Devices \cup {None}]
DeviceType    == [state : {"none", "ACTIVE", "REVOKED"}, member : Members \cup {None},
                  cred : Nat \cup {None}, ticket : Tickets \cup {None}]
SessionType   == [state : {"none", "valid", "spent"}, member : Members \cup {None},
                  device : Devices \cup {None}]
RequestType   == [status : ReqStatus \cup {"none", "deleted"}, member : Members \cup {None}]
LocType       == [op : Ops \cup {None}, member : Members \cup {None},
                  ticket : Tickets \cup {None}, chal : Challenges \cup {None},
                  device : Devices \cup {None}, session : Sessions \cup {None},
                  request : Requests \cup {None}, dead : BOOLEAN, shut : BOOLEAN]

TypeOK ==
    /\ status \in [Members -> Statuses]
    /\ tickets \in [Tickets -> TicketType]
    /\ challenges \in [Challenges -> ChallengeType]
    /\ devices \in [Devices -> DeviceType]
    /\ sessions \in [Sessions -> SessionType]
    /\ requests \in [Requests -> RequestType]
    /\ cookies \subseteq Devices \cup Sessions
    /\ pc \in [Handlers -> Labels]
    /\ loc \in [Handlers -> LocType]
    /\ barred \subseteq Members
    /\ aged \subseteq Requests
    /\ faults \in 0 .. MaxFaults

At(m, labels) == \E p \in Handlers : pc[p] \in labels /\ loc[p].member = m

\* d carries a passkey of member m
Enrols(d, m) == /\ d \in Devices
                /\ devices[d].state # "none"
                /\ devices[d].cred # None
                /\ devices[d].member = m

\* A member's session always stands on a passkey: it names a device that was
\* enrolled with a credential, for the very member the session speaks for
\* (finish_registration and finish_login are a member's only ways in; the
\* password sessions of administrators have no device: module Membership).
SessionBacked == \A s \in Sessions :
    sessions[s].state # "none" => Enrols(sessions[s].device, sessions[s].member)

\* A request that the gate let through presented a passkey-backed device of
\* the member whose session it presented, and one that was not yet revoked
\* when the request arrived: require_active_member reads three documents at
\* three moments, and no revocation made before the first is missed.
GrantSound == \A p \in Handlers : pc[p] = "granted" =>
    /\ ~loc[p].dead
    /\ devices[loc[p].device].cred # None
    /\ devices[loc[p].device].member = sessions[loc[p].session].member

\* While no handler is cut short: a SUSPENDED or DEACTIVATED member has no
\* usable trusted device (one whose cookie a client holds), whatever logins,
\* registrations and reactivations ran into the suspension, once no
\* suspension is still under way.
BarredHasNoDevice == faults = 0 =>
    \A m \in Members :
        /\ status[m] \in BarStatus
        /\ ~At(m, {"bar_sessions", "bar_devices"})
        => \A d \in Devices \cap cookies :
               devices[d].member = m => devices[d].state # "ACTIVE"

\* While no handler is cut short and cleanup deletes no request: from the
\* approval of a device change until a new passkey closes the request, none
\* of the member's devices is usable (approve_device_change_request revokes
\* them, finish_registration marks the request COMPLETED before the new
\* device's cookie leaves the server).  A deleted newer request would bring
\* an older approval, already used, back as the latest one.
ApprovalRetiresDevices ==
    (faults = 0 /\ \A r \in Requests : requests[r].status # "deleted") =>
    \A m \in Members :
        /\ LatestApproved(m)
        /\ ~At(m, {"approve_devices"})
        => \A d \in Devices \cap cookies :
               devices[d].member = m => devices[d].state # "ACTIVE"

\* A member never has more requests waiting for review, or about to be stored,
\* than there are slots that can ask for a device change at the same time:
\* two that both find none pending both store one (no index forbids it), but
\* whoever comes after is stopped, whatever is reviewed or cleaned up meanwhile.
Askers == {p \in Handlers : MayRun[p] \cap {"verify_otp", "request_device_change"} # {}}
Asking(m) == {p \in Handlers : pc[p] = "create_request" /\ loc[p].member = m}
PendingBounded == \A m \in Members :
    Cardinality(Pending(m)) + Cardinality(Asking(m)) <= Cardinality(Askers)

\* Revocation is final: a revoked device, an ended session and a used-up
\* ticket never come back (reactivate_member restores none of them), and no
\* device or session ever changes hands or loses its passkey.
Final ==
    /\ \A d \in Devices : devices[d].state # "none" =>
          /\ devices'[d].state # "none"
          /\ devices'[d].member = devices[d].member
          /\ devices[d].cred # None => devices'[d].cred # None
          /\ devices[d].state = "REVOKED" => devices'[d].state = "REVOKED"
    /\ \A s \in Sessions : sessions[s].state # "none" =>
          /\ sessions'[s].state # "none"
          /\ sessions'[s].member = sessions[s].member
          /\ sessions'[s].device = sessions[s].device
          /\ sessions[s].state = "spent" => sessions'[s].state = "spent"
    /\ \A t \in Tickets : tickets[t].state # "none" =>
          /\ tickets'[t].state # "none"
          /\ tickets'[t].member = tickets[t].member
          /\ tickets[t].state = "spent" => tickets'[t].state = "spent"
RevocationFinal == [][Final]_vars

\* Nothing is left that could let a barred member in: no ticket, and no
\* enrolment or registration under way.
Shut(m) ==
    /\ status[m] \in BarStatus
    /\ \A t \in Tickets : tickets[t].member = m => tickets[t].state # "valid"
    /\ ~At(m, {"otp_enroll", "otp_change", "read_latest", "issue_ticket", "reg_challenge",
               "reg_use_challenge", "reg_use_ticket", "reg_device", "reg_credential",
               "reg_activate", "reactivate"})

\* Once the tickets of a barred member are gone the bar holds until an
\* administrator calls reactivate: no step of anybody else reopens it.
ShutUntilReactivated ==
    [][\A m \in Members : Shut(m) => Shut(m)' \/ At(m, {"reactivate"})']_vars

\* A suspension or deactivation that has begun revokes, in the end, every
\* device the member then had, unless a handler is cut short: nothing the
\* members' own requests do meanwhile can hold it up or undo it.
RevocationCompletes == \A d \in Devices :
    (devices[d].state = "ACTIVE" /\ At(devices[d].member, {"bar_sessions"}))
        ~> (devices[d].state = "REVOKED" \/ faults > 0)

----------------------------------------------------------------------------
(* What all of this amounts to, member by member: MemberAccounts           *)

SignIns == [session : Sessions, device : Devices]
SignInsOf(m, st) == {x \in SignIns : /\ sessions[x.session].state = st
                                    /\ sessions[x.session].member = m
                                    /\ sessions[x.session].device = x.device}

Account(m) ==
    [standing |-> status[m],
     keys     |-> {d \in Devices : Enrols(d, m) /\ devices[d].state = "ACTIVE"},
     retired  |-> {d \in Devices : Enrols(d, m) /\ devices[d].state = "REVOKED"},
     open     |-> SignInsOf(m, "valid"),
     ended    |-> SignInsOf(m, "spent")]

Accounted == [m \in Members |-> Account(m)]
Accounts  == INSTANCE MemberAccounts WITH accounts <- Accounted

\* Whatever documents a handler writes, in whatever order and however stale
\* what it has read: every step changes the account of one member only, in
\* one of the few ways MemberAccounts allows, or none; only time touches
\* everybody's.
IsAccounts == Accounts!Spec

----------------------------------------------------------------------------
(* The inductive strengthening of the invariants above                     *)

RegHasDevice == {"reg_credential", "reg_activate", "reg_request", "reg_complete",
                 "reg_session", "reg_respond"}
RegHasPasskey == RegHasDevice \ {"reg_credential"}
Registering  == {"reg_challenge", "reg_use_challenge", "reg_use_ticket", "reg_device"}
                \cup RegHasDevice
LoggingIn == {"login_options", "login_challenge", "login_use_challenge", "login_member",
              "login_session"}
Gated     == {"gate_member", "gate_device", "granted", "remove_device", "remove_sessions"}

\* Every document belongs to a member.
Owned ==
    /\ \A t \in Tickets : tickets[t].state # "none" => tickets[t].member \in Members
    /\ \A d \in Devices : devices[d].state # "none" => devices[d].member \in Members
    /\ \A s \in Sessions : sessions[s].state # "none" => sessions[s].member \in Members
    /\ \A r \in Requests : requests[r].status \in ReqStatus => requests[r].member \in Members

\* A cookie in a client's hands stands for a device with a passkey, or for a
\* session that was created.
Delivered ==
    /\ \A d \in Devices \cap cookies : Enrols(d, devices[d].member)
    /\ \A s \in Sessions \cap cookies : sessions[s].state # "none"

\* What a handler at each control point can count on.
Knows(p) ==
    /\ pc[p] \notin {"idle", "revoke_session"} => loc[p].member \in Members
    /\ pc[p] = "revoke_session" => /\ loc[p].session \in Sessions
                                   /\ sessions[loc[p].session].state # "none"
    /\ pc[p] \in Registering => /\ loc[p].ticket \in Tickets
                                /\ tickets[loc[p].ticket].state # "none"
                                /\ loc[p].chal \in Challenges
    /\ pc[p] = "reg_credential" => /\ loc[p].device \in Devices
                                   /\ devices[loc[p].device].state # "none"
                                   /\ devices[loc[p].device].member = loc[p].member
    /\ pc[p] \in RegHasPasskey \cup LoggingIn => Enrols(loc[p].device, loc[p].member)
    /\ pc[p] = "reg_respond" => /\ loc[p].session \in Sessions
                                /\ sessions[loc[p].session].state # "none"
    /\ pc[p] \in Gated => /\ loc[p].session \in Sessions
                          /\ sessions[loc[p].session].state # "none"
                          /\ sessions[loc[p].session].member = loc[p].member
                          /\ Enrols(loc[p].device, devices[loc[p].device].member)
                          /\ loc[p].dead => devices[loc[p].device].state = "REVOKED"
    /\ pc[p] = "granted" => /\ ~loc[p].dead
                            /\ devices[loc[p].device].member = loc[p].member

Inv == TypeOK /\ Owned /\ Delivered /\ SessionBacked /\ \A p \in Handlers : Knows(p)

----------------------------------------------------------------------------
(* What the documentation claims and the code does not keep                *)

\* One OTP success, hence one enrolment ticket, registers at most one device
\* with a passkey (finish_registration consumes the ticket without looking
\* whether another request consumed it since both found it valid).
TicketSingleUse == \A d, e \in Devices :
    /\ devices[d].ticket # None /\ devices[d].ticket = devices[e].ticket
    /\ devices[d].cred # None   /\ devices[e].cred # None
    => d = e

\* A request by a member who was suspended before it arrived, and not
\* reactivated since, is never let through (a ticket issued before the
\* suspension still registers a device, and activate_member looks at nothing).
BarredRefused == \A p \in Handlers : pc[p] = "granted" => ~loc[p].shut
============================================================================
