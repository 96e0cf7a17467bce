----------------------------- MODULE Membership -----------------------------
(***************************************************************************)
(* How member documents come to be: the bootstrap of the first             *)
(* administrator at start-up (domain/bootstrap_service.py), its password   *)
(* login (domain/admin_auth_service.py), the CSV import                    *)
(* (domain/import_service.py) and the approval of staged records           *)
(* (domain/member_service.py), over MembersRepository and the unique       *)
(* indexes of core/database.py.  What happens to an approved member is     *)
(* module DeviceTrust; of the lifecycle only what an administrator can do  *)
(* to its own record is here, for that decides who can do all the rest.    *)
(*                                                                         *)
(* As there, an action is one database operation with the code up to the   *)
(* next await.  The bootstrap environment variables are set: without them  *)
(* no administrator is ever created, and nothing here happens.             *)
(***************************************************************************)
EXTENDS Naturals, Sequences, FiniteSets

CONSTANTS
    Emails,         \* normalised addresses
    AdminEmail,     \* ADMIN_BOOTSTRAP_EMAIL
    Ids,            \* what _generate_candidate_id may return
    AdminId,        \* the "ADM-..." id of the bootstrap administrator
    Files,          \* CSV files as sequences of rows: an address, or None for
                    \* a row that _validate_row refuses
    Handlers,       \* slots for requests being served at the same time
    MaxTries,       \* _MAX_ID_GENERATION_ATTEMPTS
    MaxFaults,      \* bound on errors, crashes and restarts
    None

ASSUME EmailsAssumption == AdminEmail \in Emails /\ IsFiniteSet(Emails)
ASSUME IdsAssumption == AdminId \notin Ids /\ None \notin Emails \cup Ids \cup {AdminId}
ASSUME FilesAssumption == Files \subseteq Seq(Emails \cup {None})
ASSUME BoundsAssumption == MaxFaults \in Nat /\ MaxTries \in Nat \ {0}

VARIABLES
    members,    \* members; a larger id is a later insert
    completed,  \* system_state: admin_bootstrap_completed
    boot,       \* what run_admin_bootstrap does next, "up" once it returned
    signedIn,   \* the administrator holds a valid session
    ticket,     \* an enrolment of the administrator is under way
    pc, loc,    \* the handlers: the next operation, and what was read
    report,     \* the import run recorded last
    faults

access == <<signedIn, ticket>>
vars   == <<members, completed, boot, access, pc, loc, report, faults>>

\* addresses are unique, so no more documents than these are ever inserted
Docs == 1 .. Cardinality(Emails)

NoMember == [status |-> "none", email |-> None, role |-> None, id |-> None]
Blank    == [file |-> <<>>, i |-> 0, good |-> {}, errors |-> {}, staged |-> {},
             doc |-> 0, id |-> None, tries |-> 0]
NoReport == [file |-> <<>>, errors |-> {}, staged |-> {}]

Init ==
    /\ members = [d \in Docs |-> NoMember]
    /\ completed = FALSE
    /\ boot = "flag"
    /\ signedIn = FALSE
    /\ ticket = FALSE
    /\ pc = [p \in Handlers |-> "idle"]
    /\ loc = [p \in Handlers |-> Blank]
    /\ report = NoReport
    /\ faults = 0

Stored     == {d \in Docs : members[d].status # "none"}
EmailsIn   == {members[d].email : d \in Stored}
IdsIn      == {members[d].id : d \in Stored} \ {None}
Admins     == {d \in Stored : members[d].role = "admin"}

\* insert_one of an address that the unique index lets in, as document d
InsertMember(d, email, role, id, st) ==
    /\ d \in Docs \ Stored
    /\ \A x \in 1 .. (d - 1) : x \in Stored
    /\ members' = [members EXCEPT ![d] = [status |-> st, email |-> email, role |-> role, id |-> id]]

Start(p, l, read) ==
    /\ boot = "up"
    /\ pc[p] = "idle"
    /\ pc' = [pc EXCEPT ![p] = l]
    /\ loc' = [loc EXCEPT ![p] = read]

Goto(p, l) == pc' = [pc EXCEPT ![p] = l]

Done(p) == Goto(p, "idle") /\ loc' = [loc EXCEPT ![p] = Blank]

----------------------------------------------------------------------------
(* run_admin_bootstrap, before the first request is served                 *)

BootFlag ==
    /\ boot = "flag"
    /\ boot' = IF completed THEN "up" ELSE "find"
    /\ UNCHANGED <<members, completed, access, pc, loc, report, faults>>

\* mutant: an address found is taken for a bootstrap recorded
BootFind_Forget ==
    /\ boot = "find"
    /\ boot' = IF AdminEmail \in EmailsIn THEN "up" ELSE "insert"
    /\ UNCHANGED <<members, completed, access, pc, loc, report, faults>>

BootFind ==
    /\ boot = "find"
    /\ boot' = IF AdminEmail \in EmailsIn THEN "mark" ELSE "insert"
    /\ UNCHANGED <<members, completed, access, pc, loc, report, faults>>

\* mutant: the flag first, the document after it
BootInsert_MarkFirst ==
    /\ boot = "insert"
    /\ IF completed
       THEN /\ \E d \in Docs : InsertMember(d, AdminEmail, "admin", AdminId, "PENDING_ENROLLMENT")
            /\ boot' = "mark"
       ELSE UNCHANGED <<members, boot>>
    /\ completed' = TRUE
    /\ UNCHANGED <<access, pc, loc, report, faults>>

\* the audit entry comes between this and the next; an error in it is Restart
BootInsert ==
    /\ boot = "insert"
    /\ \E d \in Docs : InsertMember(d, AdminEmail, "admin", AdminId, "PENDING_ENROLLMENT")
    /\ boot' = "mark"
    /\ UNCHANGED <<completed, access, pc, loc, report, faults>>

BootMark ==
    /\ boot = "mark"
    /\ completed' = TRUE
    /\ boot' = "up"
    /\ UNCHANGED <<members, access, pc, loc, report, faults>>

Boot == BootFlag \/ BootFind \/ BootInsert \/ BootMark

----------------------------------------------------------------------------
(* AdminAuthService.login and logout; only the administrator's right       *)
(* password matters here                                                   *)

\* mutant: the status is not looked at
LoginFind_AnyStatus(p) == \E d \in Admins :
    /\ Start(p, IF members[d].status # "ACTIVE" THEN "activate" ELSE "new_session",
             [Blank EXCEPT !.doc = d])
    /\ UNCHANGED <<members, completed, boot, access, report, faults>>

LoginFind(p) == \E d \in Admins :
    /\ members[d].status # "SUSPENDED"
    /\ Start(p, IF members[d].status = "PENDING_ENROLLMENT" THEN "activate" ELSE "new_session",
             [Blank EXCEPT !.doc = d])
    /\ UNCHANGED <<members, completed, boot, access, report, faults>>

\* activate_member, whatever the status is now
Activate(p) ==
    /\ pc[p] = "activate"
    /\ members' = [members EXCEPT ![loc[p].doc].status = "ACTIVE"]
    /\ Goto(p, "new_session")
    /\ UNCHANGED <<completed, boot, access, loc, report, faults>>

NewSession(p) ==
    /\ pc[p] = "new_session"
    /\ signedIn' = TRUE
    /\ Done(p)
    /\ UNCHANGED <<members, completed, boot, ticket, report, faults>>

\* logout, or the session expires
SessionEnds ==
    /\ signedIn
    /\ signedIn' = FALSE
    /\ UNCHANGED <<members, completed, boot, ticket, pc, loc, report, faults>>

----------------------------------------------------------------------------
(* require_admin_session, before every operation of an administrator       *)

GateSession(p) ==
    /\ signedIn
    /\ Start(p, "gate", Blank)
    /\ UNCHANGED <<members, completed, boot, access, report, faults>>

\* mutant: the session alone admits
GateMember_SessionOnly(p) ==
    /\ pc[p] = "gate"
    /\ Goto(p, "admitted")
    /\ UNCHANGED <<members, completed, boot, access, loc, report, faults>>

GateMember(p) == \E d \in Admins :
    /\ pc[p] = "gate"
    /\ Goto(p, IF members[d].status = "SUSPENDED" THEN "idle" ELSE "admitted")
    /\ UNCHANGED <<members, completed, boot, access, loc, report, faults>>

\* the handler of an operation starts
Begin(p, l, read) ==
    /\ pc[p] = "admitted"
    /\ Goto(p, l)
    /\ loc' = [loc EXCEPT ![p] = read]

----------------------------------------------------------------------------
(* import_csv                                                              *)

ImportStart(p) == \E file \in Files :
    /\ Begin(p, IF file = <<>> THEN "record" ELSE "validate",
             [Blank EXCEPT !.file = file, !.i = 1])
    /\ UNCHANGED <<members, completed, boot, access, report, faults>>

\* seen_emails_in_file
Seen(p) == {loc[p].file[j] : j \in loc[p].good}
Refused(p, row) == row = None \/ row \in Seen(p) \/ row \in EmailsIn

\* mutant: break where continue belongs
Validate_Break(p) ==
    /\ pc[p] = "validate"
    /\ LET i == loc[p].i  refused == Refused(p, loc[p].file[i]) IN
       /\ loc' = IF refused THEN [loc EXCEPT ![p].errors = @ \cup {i}]
                 ELSE [loc EXCEPT ![p].good = @ \cup {i}, ![p].i = @ + 1]
       /\ Goto(p, IF i < Len(loc[p].file) /\ ~refused THEN "validate"
                  ELSE IF loc'[p].good = {} THEN "record" ELSE "insert")
    /\ UNCHANGED <<members, completed, boot, access, report, faults>>

\* one row of the first loop (a row refused without a query is a step that
\* no other handler can see)
Validate(p) ==
    /\ pc[p] = "validate"
    /\ LET i == loc[p].i IN
       /\ loc' = IF Refused(p, loc[p].file[i])
                 THEN [loc EXCEPT ![p].errors = @ \cup {i}, ![p].i = @ + 1]
                 ELSE [loc EXCEPT ![p].good = @ \cup {i}, ![p].i = @ + 1]
       /\ Goto(p, IF i < Len(loc[p].file) THEN "validate"
                  ELSE IF loc'[p].good = {} THEN "record" ELSE "insert")
    /\ UNCHANGED <<members, completed, boot, access, report, faults>>

\* the second loop: the row it comes to, and what is noted when it is done
NextRow(p) == {i \in loc[p].good : \A j \in loc[p].good : i <= j}

Past(p, i, errors, staged) ==
    /\ loc' = [loc EXCEPT ![p].good = @ \ {i}, ![p].errors = @ \cup errors, ![p].staged = @ \cup staged]
    /\ Goto(p, IF loc[p].good = {i} THEN "record" ELSE "insert")

\* mutant: the exception is logged, and the row forgotten
Insert_Silent(p) == \E i \in NextRow(p) :
    /\ pc[p] = "insert"
    /\ \/ /\ loc[p].file[i] \in EmailsIn
          /\ Past(p, i, {}, {})
          /\ UNCHANGED members
       \/ \E d \in Docs :
             /\ loc[p].file[i] \notin EmailsIn
             /\ InsertMember(d, loc[p].file[i], "member", None, "STAGED")
             /\ Past(p, i, {}, {<<i, d>>})
    /\ UNCHANGED <<completed, boot, access, report, faults>>

Insert(p) == \E i \in NextRow(p) :
    /\ pc[p] = "insert"
    /\ \/ /\ loc[p].file[i] \in EmailsIn
          /\ Past(p, i, {i}, {})
          /\ UNCHANGED members
       \/ \E d \in Docs :
             /\ loc[p].file[i] \notin EmailsIn
             /\ InsertMember(d, loc[p].file[i], "member", None, "STAGED")
             /\ Past(p, i, {}, {<<i, d>>})
    /\ UNCHANGED <<completed, boot, access, report, faults>>

\* any other exception of the insert, before or after it took effect, is
\* reported as a duplicate too
InsertFails(p) == \E i \in NextRow(p) :
    /\ faults < MaxFaults
    /\ pc[p] = "insert"
    /\ \/ UNCHANGED members
       \/ \E d \in Docs : /\ loc[p].file[i] \notin EmailsIn
                          /\ InsertMember(d, loc[p].file[i], "member", None, "STAGED")
    /\ Past(p, i, {i}, {})
    /\ faults' = faults + 1
    /\ UNCHANGED <<completed, boot, access, report>>

\* import_runs_repo.create_run (the counts follow from staged and the file)
RecordRun(p) ==
    /\ pc[p] = "record"
    /\ report' = [file |-> loc[p].file, errors |-> loc[p].errors, staged |-> loc[p].staged]
    /\ Done(p)
    /\ UNCHANGED <<members, completed, boot, access, faults>>

----------------------------------------------------------------------------
(* approve_staged_member                                                   *)

\* mutant: the status is not looked at
ApproveFind_Unchecked(p) == \E d \in Stored :
    /\ Begin(p, "pick_id", [Blank EXCEPT !.doc = d])
    /\ UNCHANGED <<members, completed, boot, access, report, faults>>

ApproveFind(p) == \E d \in Stored :
    /\ members[d].status = "STAGED"
    /\ Begin(p, "pick_id", [Blank EXCEPT !.doc = d])
    /\ UNCHANGED <<members, completed, boot, access, report, faults>>

\* mutant: one round too many
PickId_OneMore(p) == \E id \in Ids :
    /\ pc[p] = "pick_id"
    /\ IF id \notin IdsIn
       THEN Goto(p, "issue") /\ loc' = [loc EXCEPT ![p].id = id]
       ELSE IF loc[p].tries < MaxTries
       THEN pc' = pc /\ loc' = [loc EXCEPT ![p].tries = @ + 1]
       ELSE Done(p)
    /\ UNCHANGED <<members, completed, boot, access, report, faults>>

\* one round of _generate_unique_member_id
PickId(p) == \E id \in Ids :
    /\ pc[p] = "pick_id"
    /\ IF id \notin IdsIn
       THEN Goto(p, "issue") /\ loc' = [loc EXCEPT ![p].id = id]
       ELSE IF loc[p].tries + 1 < MaxTries
       THEN pc' = pc /\ loc' = [loc EXCEPT ![p].tries = @ + 1]
       ELSE Done(p)
    /\ UNCHANGED <<members, completed, boot, access, report, faults>>

\* mutant: the index on member_id is not unique
Issue_NoIndex(p) ==
    /\ pc[p] = "issue"
    /\ members' = [members EXCEPT ![loc[p].doc].id = loc[p].id,
                                  ![loc[p].doc].status = "PENDING_ENROLLMENT"]
    /\ Done(p)
    /\ UNCHANGED <<completed, boot, access, report, faults>>

\* approve_and_issue_id, by _id, whatever the status now; raises when another
\* document has the id
Issue(p) ==
    /\ pc[p] = "issue"
    /\ members' = IF \E d \in Stored \ {loc[p].doc} : members[d].id = loc[p].id THEN members
                  ELSE [members EXCEPT ![loc[p].doc].id = loc[p].id,
                                       ![loc[p].doc].status = "PENDING_ENROLLMENT"]
    /\ Done(p)
    /\ UNCHANGED <<completed, boot, access, report, faults>>

----------------------------------------------------------------------------
(* suspend_member, deactivate_member and reactivate_member, of the         *)
(* administrator itself; SUSPENDED stands for DEACTIVATED too.  Suspension *)
(* uses nothing of the record it finds.                                    *)

SuspendFind(p) == \E d \in Admins :
    /\ Begin(p, "suspend", [Blank EXCEPT !.doc = d])
    /\ UNCHANGED <<members, completed, boot, access, report, faults>>

Suspend(p) ==
    /\ pc[p] = "suspend"
    /\ members' = [members EXCEPT ![loc[p].doc].status = "SUSPENDED"]
    /\ Goto(p, "end_sessions")
    /\ UNCHANGED <<completed, boot, access, loc, report, faults>>

\* the devices come after this, in module DeviceTrust
EndSessions(p) ==
    /\ pc[p] = "end_sessions"
    /\ signedIn' = FALSE
    /\ Done(p)
    /\ UNCHANGED <<members, completed, boot, ticket, report, faults>>

ReactivateFind(p) == \E d \in Admins :
    /\ members[d].status = "SUSPENDED"
    /\ Begin(p, "reactivate", [Blank EXCEPT !.doc = d])
    /\ UNCHANGED <<members, completed, boot, access, report, faults>>

Reactivate(p) ==
    /\ pc[p] = "reactivate"
    /\ members' = [members EXCEPT ![loc[p].doc].status = "PENDING_ENROLLMENT"]
    /\ Done(p)
    /\ UNCHANGED <<completed, boot, access, report, faults>>

----------------------------------------------------------------------------
(* Enrolment (module DeviceTrust), errors and restarts                     *)

Enrol == \E d \in Stored \ Admins :
    /\ boot = "up"
    /\ members[d].status = "PENDING_ENROLLMENT"
    /\ members' = [members EXCEPT ![d].status = "ACTIVE"]
    /\ UNCHANGED <<completed, boot, access, pc, loc, report, faults>>

\* the administrator's own enrolment, or the change of its device, begins
\* with a status that allows it
TicketIssued == \E d \in Admins :
    /\ boot = "up"
    /\ members[d].status # "SUSPENDED"
    /\ ticket' = TRUE
    /\ UNCHANGED <<members, completed, boot, signedIn, pc, loc, report, faults>>

\* and ends with activate_member and a session, whatever the status is now;
\* there may be another ticket
TicketUsed == \E d \in Admins :
    /\ boot = "up" /\ ticket
    /\ members' = [members EXCEPT ![d].status = "ACTIVE"]
    /\ signedIn' = TRUE
    /\ ticket' \in BOOLEAN
    /\ UNCHANGED <<completed, boot, pc, loc, report, faults>>

TicketExpires ==
    /\ ticket
    /\ ticket' = FALSE
    /\ UNCHANGED <<members, completed, boot, signedIn, pc, loc, report, faults>>

Fail(p) ==
    /\ faults < MaxFaults
    /\ pc[p] # "idle"
    /\ faults' = faults + 1
    /\ Done(p)
    /\ UNCHANGED <<members, completed, boot, access, report>>

\* the process ends, at start-up or later, and is started again
Restart ==
    /\ faults < MaxFaults
    /\ faults' = faults + 1
    /\ boot' = "flag"
    /\ pc' = [p \in Handlers |-> "idle"]
    /\ loc' = [p \in Handlers |-> Blank]
    /\ UNCHANGED <<members, completed, access, report>>

Login(p)  == LoginFind(p) \/ Activate(p) \/ NewSession(p)
Import(p) == ImportStart(p) \/ Validate(p) \/ Insert(p) \/ InsertFails(p) \/ RecordRun(p)
Approve(p) == ApproveFind(p) \/ PickId(p) \/ Issue(p)

Gate(p) == GateSession(p) \/ GateMember(p)
Lifecycle(p) == SuspendFind(p) \/ Suspend(p) \/ EndSessions(p) \/ ReactivateFind(p) \/ Reactivate(p)
Enrolment == Enrol \/ TicketIssued \/ TicketUsed \/ TicketExpires

Next == \/ \E p \in Handlers : \/ Login(p) \/ Gate(p) \/ Import(p) \/ Approve(p)
                               \/ Lifecycle(p) \/ Fail(p)
        \/ Boot \/ SessionEnds \/ Enrolment \/ Restart

Spec == Init /\ [][Next]_vars

\* the start-up is one coroutine that nothing else holds up
FairSpec == Spec /\ WF_vars(Boot)

----------------------------------------------------------------------------
MemberType == [status : {"none", "STAGED", "PENDING_ENROLLMENT", "ACTIVE", "SUSPENDED"},
               email : Emails \cup {None}, role : {"admin", "member", None},
               id : Ids \cup {AdminId, None}]
Labels     == {"idle", "activate", "new_session", "gate", "admitted", "validate", "insert", "record",
               "pick_id", "issue", "suspend", "end_sessions", "reactivate"}

LocType == [file : Files \cup {<<>>}, i : Nat, good : SUBSET Nat, errors : SUBSET Nat,
            staged : SUBSET (Nat \X Docs), doc : Docs \cup {0}, id : Ids \cup {None},
            tries : 0 .. (MaxTries - 1)]

Rows(file) == 1 .. Len(file)

TypeOK ==
    /\ members \in [Docs -> MemberType]
    /\ completed \in BOOLEAN /\ signedIn \in BOOLEAN /\ ticket \in BOOLEAN
    /\ boot \in {"flag", "find", "insert", "mark", "up"}
    /\ pc \in [Handlers -> Labels] /\ loc \in [Handlers -> LocType]
    /\ report \in [file : Files \cup {<<>>}, errors : SUBSET Nat, staged : SUBSET (Nat \X Docs)]
    /\ faults \in 0 .. MaxFaults

\* An import run gives an account of every row of its file, whatever ran at
\* the same time: a row is reported as an error or staged, never both, and a
\* row counted as staged has a member document, its own, with its address.
RowsAccounted ==
    LET staged == {s[1] : s \in report.staged} IN
    /\ staged \cup report.errors = Rows(report.file)
    /\ staged \cap report.errors = {}
    /\ \A s, t \in report.staged : s # t => s[1] # t[1] /\ s[2] # t[2]
    /\ \A s \in report.staged : members[s[2]].email = report.file[s[1]]

\* Without faults, after an import the system knows every valid address of
\* the file: no row is refused but for an address that is there.
ImportComplete == faults = 0 =>
    \A i \in Rows(report.file) : report.file[i] \in EmailsIn \cup {None}

\* A record has a member id from its approval on and not before, and no two
\* records have the same one (two approvals may pick the same candidate).
IdsSound ==
    /\ \A d \in Stored : members[d].id = None <=> members[d].status = "STAGED"
    /\ \A d, e \in Stored : members[d].id = members[e].id /\ d # e => members[d].id = None

\* However often the start-up is cut short, there is at most one bootstrap
\* administrator, and there is one as soon as the bootstrap is recorded as
\* completed: imports cannot take its address before it exists.
BootstrapSound ==
    /\ Cardinality(Admins) <= 1
    /\ completed => Admins # {}

\* The bootstrap is recorded as completed in the end, also when the start-up
\* was cut short between the administrator's insert and the record.
BootstrapCompletes == <>completed

\* Every administrator is suspended, and nothing is under way that could
\* undo it: no login past its status check, no request past the gate, no
\* enrolment begun before.
LockedOut ==
    /\ Admins # {} /\ \A d \in Admins : members[d].status = "SUSPENDED"
    /\ ~ticket
    /\ \A p \in Handlers : pc[p] \notin {"activate", "admitted", "reactivate"}

\* Such a lockout is for good, even with a session that a late login left:
\* no login, import, approval or restart of the process, with the bootstrap
\* it runs, lets an administrator back in.
LockoutIsFinal == [][LockedOut => LockedOut']_vars

----------------------------------------------------------------------------
(* What it all amounts to                                                  *)

\* the documents by their addresses
Registered == [e \in Emails |->
    IF \E d \in Docs : members[d].email = e THEN members[CHOOSE d \in Docs : members[d].email = e]
    ELSE NoMember]

Registry == INSTANCE MemberRegistry WITH registry <- Registered

\* Start-up, imports, approvals, logins and suspensions, at the same time and
\* cut short anywhere, are to the outside one change of one record after the
\* other: the administrator first, one record for an address, and no member
\* id in two records.
IsRegistry == Registry!Spec

----------------------------------------------------------------------------
(* What the documentation claims and the code does not keep                *)

\* A record that was approved is not approved again: its member id stays
\* (approve_and_issue_id does not look at the status).
IssuedOnce ==
    [][\A d \in Docs : members[d].id # None => members'[d].id = members[d].id]_vars
=============================================================================
