----------------------------- MODULE Monitoring -----------------------------
(***************************************************************************)
(* Rate limiters and security flags: what a call to identify, otp/verify   *)
(* or the administrators' login goes through when it fails.  The limiter   *)
(* (core/rate_limit.py) keeps its windows in memory; SecurityService       *)
(* (domain/security_service.py) stores an event, counts the recent ones of *)
(* the same target and gathers them in a flag that an administrator        *)
(* resolves (repositories/security_repo.py, api/admin.py).                 *)
(*                                                                         *)
(* An action is one database operation with the code up to the next await. *)
(* The limiter's lock is never contended, for the code that holds it does  *)
(* not await: record_and_check is one step.  Queries name the event type,  *)
(* so types never interfere and one is modelled.                           *)
(***************************************************************************)
EXTENDS Naturals, Sequences, FiniteSets

CONSTANTS
    Handlers,    \* slots for requests being served at the same time
    Buckets,     \* "<policy>:<address>"
    Targets,     \* member ids
    Unknown,     \* the target of an event with no member
    MaxCalls,    \* max_calls of the limiters
    Window,      \* window_seconds, in ticks of the clock
    Hour,        \* the hour record_event looks back, in ticks
    Threshold,   \* the event type's threshold
    MaxEvents,   \* bound on events ever recorded
    MaxTime,     \* bound on the clock
    MaxFaults    \* bound on errors and restarts

ASSUME HandlersAssumption == IsFiniteSet(Handlers) /\ Unknown \notin Targets
ASSUME TicksAssumption == {MaxCalls, Window, Hour, Threshold} \subseteq Nat \ {0}
ASSUME BoundsAssumption == {MaxEvents, MaxTime, MaxFaults} \subseteq Nat

VARIABLES
    now,
    store,     \* the limiters' windows: per bucket, the calls it remembers
    passed,    \* history: the calls let through lately, remembered or not
    restarts,  \* history: how often the process lost its memory
    events,    \* security_events, in the order of their inserts
    flags,     \* security_flags; a larger id is a later insert
    pc, loc,   \* the handlers: the next operation, and what was read
    lost,      \* history: events whose handler was cut short
    faults

limiter == <<store, passed, restarts>>
vars == <<now, limiter, events, flags, pc, loc, lost, faults>>

Times  == 0 .. MaxTime
Events == 1 .. Len(events)

\* a handler creates at most one flag, for the event it recorded
FlagIds == 1 .. MaxEvents
NoFlag  == [status |-> "none", target |-> Unknown, resolved |-> 0,
            evidence |-> [e \in 1 .. MaxEvents |-> 0]]
Blank   == [target |-> Unknown, event |-> 0, recent |-> {}, flag |-> 0, listed |-> {}]

Init ==
    /\ now = 0
    /\ store = [b \in Buckets |-> {}] /\ passed = store
    /\ restarts = 0
    /\ events = <<>>
    /\ flags = [f \in FlagIds |-> NoFlag]
    /\ pc = [p \in Handlers |-> "idle"]
    /\ loc = [p \in Handlers |-> Blank]
    /\ lost = {}
    /\ faults = 0

Goto(p, l) == pc' = [pc EXCEPT ![p] = l]
Done(p)    == Goto(p, "idle") /\ loc' = [loc EXCEPT ![p] = Blank]

----------------------------------------------------------------------------
(* InMemoryRateLimitStore.record_and_check                                 *)

\* The order of a window's timestamps is never read, so a window is a set;
\* nth tells the calls of one instant apart.  As many numbers as LimitKept
\* lets calls through always leave one free.
CallType == [at : Times, nth : 1 .. MaxCalls * (1 + MaxFaults)]
ThisCall(b) == {c \in CallType \ (store[b] \cup passed[b]) :
    /\ c.at = now
    /\ \A n \in 1 .. (c.nth - 1) : [c EXCEPT !.nth = n] \in store[b] \cup passed[b]}

Within(calls) == {c \in calls : c.at + Window > now}

Admit(b) == \E c \in ThisCall(b) :
    /\ Cardinality(Within(store[b])) < MaxCalls
    /\ store' = [store EXCEPT ![b] = Within(@) \cup {c}]
    /\ passed' = [passed EXCEPT ![b] = Within(@) \cup {c}]
    /\ UNCHANGED restarts

\* mutant: the call is recorded before it is counted
Refuse_Recorded(b) == \E c \in ThisCall(b) :
    /\ Cardinality(Within(store[b])) >= MaxCalls
    /\ store' = [store EXCEPT ![b] = Within(@) \cup {c}]
    /\ UNCHANGED <<passed, restarts>>

Refuse(b) ==
    /\ Cardinality(Within(store[b])) >= MaxCalls
    /\ store' = [store EXCEPT ![b] = Within(@)]
    /\ UNCHANGED <<passed, restarts>>

\* a call let through may come to report an event; the others end unseen
Call(p) == \E b \in Buckets :
    /\ pc[p] = "idle"
    /\ \/ Refuse(b) /\ UNCHANGED <<pc, loc>>
       \/ Admit(b) /\ UNCHANGED <<pc, loc>>
       \/ /\ Admit(b)
          /\ Goto(p, "record")
          /\ \E t \in Targets \cup {Unknown} : loc' = [loc EXCEPT ![p].target = t]
    /\ UNCHANGED <<now, events, flags, lost, faults>>

----------------------------------------------------------------------------
(* SecurityService.record_event                                            *)

Record(p) ==
    /\ pc[p] = "record"
    /\ Len(events) < MaxEvents
    /\ events' = Append(events, [target |-> loc[p].target, made |-> now])
    /\ loc' = [loc EXCEPT ![p].event = Len(events) + 1]
    /\ Goto(p, "count")
    /\ UNCHANGED <<now, limiter, flags, lost, faults>>

\* the query names the member; without one it names no target at all
Scope(t) == {e \in Events : t = Unknown \/ events[e].target = t}

\* mutant: the threshold has to be exceeded
Count_Above(p) ==
    LET recent == {e \in Scope(loc[p].target) : events[e].made + Hour >= now} IN
    /\ pc[p] = "count"
    /\ IF Cardinality(recent) > Threshold
       THEN Goto(p, "find_open") /\ loc' = [loc EXCEPT ![p].recent = recent]
       ELSE Done(p)
    /\ UNCHANGED <<now, limiter, events, flags, lost, faults>>

Count(p) ==
    LET recent == {e \in Scope(loc[p].target) : events[e].made + Hour >= now} IN
    /\ pc[p] = "count"
    /\ IF Cardinality(recent) >= Threshold
       THEN Goto(p, "find_open") /\ loc' = [loc EXCEPT ![p].recent = recent]
       ELSE Done(p)
    /\ UNCHANGED <<now, limiter, events, flags, lost, faults>>

Made       == {f \in FlagIds : flags[f].status # "none"}
OpenFor(t) == {f \in Made : flags[f].status = "OPEN" /\ flags[f].target = t}
Listed(f)  == {e \in 1 .. MaxEvents : flags[f].evidence[e] > 0}

\* mutant: the flag is looked up by the event type where its rule belongs
FindOpen_Blind(p) ==
    /\ pc[p] = "find_open"
    /\ Goto(p, "create")
    /\ UNCHANGED <<now, limiter, events, flags, loc, lost, faults>>

\* find_open_for_target, then which ids the flag lacks
FindOpen(p) ==
    /\ pc[p] = "find_open"
    /\ \/ /\ OpenFor(loc[p].target) = {}
          /\ Goto(p, "create")
          /\ UNCHANGED loc
       \/ \E f \in OpenFor(loc[p].target) :
             IF loc[p].recent \subseteq Listed(f) THEN Done(p)
             ELSE /\ Goto(p, "push")
                  /\ loc' = [loc EXCEPT ![p].flag = f, ![p].listed = Listed(f)]
    /\ UNCHANGED <<now, limiter, events, flags, lost, faults>>

With(evidence, S) == [e \in 1 .. MaxEvents |-> evidence[e] + IF e \in S THEN 1 ELSE 0]

CreateFlag(p) == \E f \in FlagIds \ Made :
    /\ pc[p] = "create"
    /\ \A x \in 1 .. (f - 1) : x \in Made
    /\ flags' = [flags EXCEPT ![f] = [status |-> "OPEN", target |-> loc[p].target, resolved |-> 0,
                                      evidence |-> With(NoFlag.evidence, loc[p].recent)]]
    /\ Done(p)
    /\ UNCHANGED <<now, limiter, events, lost, faults>>

\* mutant: all recent ids, those the flag has among them
Push_All(p) ==
    /\ pc[p] = "push"
    /\ flags' = [flags EXCEPT ![loc[p].flag].evidence = With(@, loc[p].recent)]
    /\ Done(p)
    /\ UNCHANGED <<now, limiter, events, lost, faults>>

\* by _id: whatever the flag's status and evidence are by now
Push(p) ==
    /\ pc[p] = "push"
    /\ flags' = [flags EXCEPT ![loc[p].flag].evidence = With(@, loc[p].recent \ loc[p].listed)]
    /\ Done(p)
    /\ UNCHANGED <<now, limiter, events, lost, faults>>

----------------------------------------------------------------------------
(* The administrator, time, errors and restarts                            *)

\* mutant: a status that no query of the flags knows
Resolve_Closed == \E f \in Made :
    /\ flags' = [flags EXCEPT ![f].status = "CLOSED", ![f].resolved = now]
    /\ UNCHANGED <<now, limiter, events, pc, loc, lost, faults>>

\* resolve_security_flag takes any flag, a resolved one too
Resolve == \E f \in Made :
    /\ flags' = [flags EXCEPT ![f].status = "RESOLVED", ![f].resolved = now]
    /\ UNCHANGED <<now, limiter, events, pc, loc, lost, faults>>

Tick ==
    /\ now < MaxTime
    /\ now' = now + 1
    /\ UNCHANGED <<limiter, events, flags, pc, loc, lost, faults>>

Fail(p) ==
    /\ faults < MaxFaults
    /\ pc[p] # "idle"
    /\ faults' = faults + 1
    /\ lost' = lost \cup ({loc[p].event} \ {0})
    /\ Done(p)
    /\ UNCHANGED <<now, limiter, events, flags>>

\* the process is restarted: its windows and its handlers are gone
Restart ==
    /\ faults < MaxFaults
    /\ faults' = faults + 1
    /\ restarts' = restarts + 1
    /\ store' = [b \in Buckets |-> {}]
    /\ lost' = lost \cup ({loc[p].event : p \in Handlers} \ {0})
    /\ pc' = [p \in Handlers |-> "idle"]
    /\ loc' = [p \in Handlers |-> Blank]
    /\ UNCHANGED <<now, passed, events, flags>>

Handler(p) == Call(p) \/ Record(p) \/ Count(p) \/ FindOpen(p) \/ CreateFlag(p) \/ Push(p)

Next == \/ \E p \in Handlers : Handler(p) \/ Fail(p)
        \/ Resolve \/ Tick \/ Restart

Spec == Init /\ [][Next]_vars

----------------------------------------------------------------------------
Evidence == [1 .. MaxEvents -> Nat]
FlagType == [status : {"none", "OPEN", "RESOLVED"}, target : Targets \cup {Unknown},
             resolved : Times, evidence : Evidence]
LocType  == [target : Targets \cup {Unknown}, event : 0 .. MaxEvents,
             recent : SUBSET (1 .. MaxEvents), flag : 0 .. MaxEvents,
             listed : SUBSET (1 .. MaxEvents)]
Labels   == {"idle", "record", "count", "find_open", "create", "push"}

TypeOK ==
    /\ now \in Times /\ restarts \in 0 .. faults /\ faults \in 0 .. MaxFaults
    /\ store \in [Buckets -> SUBSET CallType] /\ passed \in [Buckets -> SUBSET CallType]
    /\ events \in Seq([target : Targets \cup {Unknown}, made : Times])
    /\ Len(events) <= MaxEvents
    /\ flags \in [FlagIds -> FlagType]
    /\ pc \in [Handlers -> Labels] /\ loc \in [Handlers -> LocType]
    /\ lost \subseteq Events

\* A restart forgets a bucket's window, and may let through as many calls
\* again, never more; and a caller that was refused is not held off by its
\* refused calls: whatever fills its window was let through.
LimitKept == \A b \in Buckets :
    LET recent == Cardinality(Within(passed[b])) IN
    /\ recent <= MaxCalls * (1 + restarts)
    /\ Cardinality(Within(store[b])) <= recent

\* Handlers that found no open flag for a target and are about to make one
Flagging(t) == {p \in Handlers : pc[p] = "create" /\ loc[p].target = t}

\* Two events that cross the threshold together may both make a flag, so a
\* target may have several open ones; but never more than there were
\* handlers at work at once: later events join a flag that is open.
FlagsBounded == \A t \in Targets \cup {Unknown} :
    Cardinality(OpenFor(t)) + Cardinality(Flagging(t)) <= Cardinality(Handlers)

\* A flag lists an event more than once only for handlers that added it at
\* the same time, each of them from what it read before.
EvidenceBounded == \A f \in Made : \A e \in Events :
    flags[f].evidence[e] <= Cardinality(Handlers)

\* Once the handler of an event has finished, and was not cut short, a burst
\* that the event completes is in the administrators' hands: if the target
\* has the threshold's number of events within the hour, then one of its
\* flags lists them all, and that flag is open or was resolved after the
\* event came in.
BurstFlagged == \A e \in Events \ lost :
    LET t     == events[e].target
        burst == {x \in Scope(t) : x <= e /\ events[x].made + Hour >= now}
    IN Cardinality(burst) >= Threshold /\ (\A p \in Handlers : loc[p].event # e) =>
       \E f \in Made : /\ flags[f].target = t
                       /\ burst \subseteq Listed(f)
                       /\ flags[f].status = "OPEN" \/ flags[f].resolved >= events[e].made
=============================================================================
