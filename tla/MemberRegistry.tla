--------------------------- MODULE MemberRegistry ---------------------------
(***************************************************************************)
(* What the members collection promises to the rest of the system, whoever *)
(* writes it and however often the process fails: a registry with at most  *)
(* one record for an address, changed one record at a time.  The           *)
(* administrator comes first; records are never removed and keep their     *)
(* role; and a member id, once issued, is nobody else's.  Module           *)
(* Membership implements it, with the handlers that read, wait and write.  *)
(***************************************************************************)
CONSTANTS Emails, AdminEmail, Ids, AdminId, None

VARIABLE registry

Absent == [status |-> "none", email |-> None, role |-> None, id |-> None]
Known  == {e \in Emails : registry[e] # Absent}

Init == registry = [e \in Emails |-> Absent]

Put(e, record) == registry' = [registry EXCEPT ![e] = record]
Become(e, st)  == registry' = [registry EXCEPT ![e].status = st]

Appoint(e) ==
    /\ Known = {} /\ e = AdminEmail
    /\ Put(e, [status |-> "PENDING_ENROLLMENT", email |-> e, role |-> "admin", id |-> AdminId])

Stage(e) ==
    /\ AdminEmail \in Known /\ e \notin Known
    /\ Put(e, [status |-> "STAGED", email |-> e, role |-> "member", id |-> None])

\* not only once: see IssuedOnce in Membership
Issue(e) == \E id \in Ids :
    /\ e \in Known /\ registry[e].role = "member"
    /\ \A x \in Known \ {e} : registry[x].id # id
    /\ Put(e, [status |-> "PENDING_ENROLLMENT", email |-> e, role |-> "member", id |-> id])

\* an enrolment ends, an administrator suspends or reactivates: by member id,
\* so never before one is issued
Change(e) == \E st \in {"ACTIVE", "SUSPENDED", "PENDING_ENROLLMENT"} :
    /\ e \in Known /\ registry[e].id # None
    /\ Become(e, st)

Next == \E e \in Emails :
    /\ registry'[e] # registry[e]
    /\ Appoint(e) \/ Stage(e) \/ Issue(e) \/ Change(e)

Spec == Init /\ [][Next]_registry
=============================================================================
