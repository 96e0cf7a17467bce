-------------------------- MODULE MonitoringProofs --------------------------
(***************************************************************************)
(* Proofs about Monitoring, for any number of handlers, buckets, targets   *)
(* and events: every burst that was not cut short is in a flag, the flags  *)
(* and their duplicates are bounded by the handlers at work, and a limiter *)
(* lets a limit's worth of calls through per window and restart.  The last *)
(* one is not inductive: Windows bounds apart what the limiter remembers   *)
(* and what a restart made it forget.                                      *)
(***************************************************************************)
EXTENDS Monitoring, FiniteSetTheorems, TLAPS

EventType == [target : Targets \cup {Unknown}, made : Times]

Types ==
    /\ now \in Times
    /\ events \in Seq(EventType) /\ Len(events) <= MaxEvents
    /\ flags \in [FlagIds -> FlagType]
    /\ pc \in [Handlers -> Labels] /\ loc \in [Handlers -> LocType]

\* the events that count when event e is looked at
Burst(e) == {x \in Scope(events[e].target) : x <= e /\ events[x].made + Hour >= now}

\* somebody has attended to the flag since, or will
Attended(f, time) == flags[f].status = "OPEN" \/ flags[f].resolved >= time

Knows(p) ==
    /\ pc[p] \in {"idle", "record"} => loc[p].event = 0
    /\ pc[p] \in {"count", "find_open", "create", "push"} =>
          /\ loc[p].event \in Events
          /\ events[loc[p].event].target = loc[p].target
    /\ pc[p] \in {"find_open", "create", "push"} => Burst(loc[p].event) \subseteq loc[p].recent
    /\ pc[p] = "push" => /\ loc[p].flag \in Made
                         /\ flags[loc[p].flag].target = loc[p].target
                         /\ loc[p].listed \subseteq Listed(loc[p].flag)
                         /\ Attended(loc[p].flag, events[loc[p].event].made)

InFlag(e) == \E f \in Made : /\ flags[f].target = events[e].target
                             /\ Burst(e) \subseteq Listed(f)
                             /\ Attended(f, events[e].made)

Finished(e) == \A p \in Handlers : loc[p].event # e

\* handlers about to add event e to flag f
Pushing(f, e) == {p \in Handlers : pc[p] = "push" /\ loc[p].flag = f /\ e \in loc[p].recent \ loc[p].listed}

Copies == \A f \in Made : \A e \in 1 .. MaxEvents :
    flags[f].evidence[e] + Cardinality(Pushing(f, e)) <= Cardinality(Handlers)

Inv ==
    /\ Types
    /\ \A x \in Events : events[x].made <= now
    /\ \A p \in Handlers : Knows(p)
    /\ \A e \in Events \ lost :
          Cardinality(Burst(e)) >= Threshold /\ Finished(e) => InFlag(e)
    /\ FlagsBounded
    /\ Copies

----------------------------------------------------------------------------
(* What no step takes back                                                 *)

Kept ==
    /\ Types'
    /\ Events \subseteq Events' /\ \A x \in Events : events'[x] = events[x]
    /\ now <= now'
    /\ lost \subseteq lost'
    /\ \A f \in Made : /\ f \in Made'
                       /\ flags'[f].target = flags[f].target
                       /\ Listed(f) \subseteq Listed(f)'
                       /\ \A t \in Times : t <= now /\ Attended(f, t) => Attended(f, t)'

LEMMA Constants ==
  /\ MaxEvents \in Nat /\ MaxTime \in Nat /\ MaxFaults \in Nat
  /\ Hour \in Nat /\ Threshold \in Nat \ {0} /\ IsFiniteSet(Handlers)
  BY BoundsAssumption, TicksAssumption, HandlersAssumption

LEMMA EventTypes ==
  ASSUME Types
  PROVE  /\ \A e \in Events : /\ events[e] \in EventType /\ e \in Nat
                              /\ events[e].target \in Targets \cup {Unknown}
                              /\ events[e].made \in Times /\ events[e].made \in Nat
         /\ now \in Nat /\ Events \subseteq 1 .. MaxEvents
<1>1. now \in Nat /\ \A t \in Times : t \in Nat
  BY Constants DEF Types, Times
<1>2. Len(events) \in Nat /\ Events = 1 .. Len(events)
  BY DEF Types, Events
<1>3. \A e \in Events : events[e] \in EventType
  BY <1>2 DEF Types
<1>4. Events \subseteq 1 .. MaxEvents /\ \A e \in Events : e \in Nat
  BY <1>2, Constants DEF Types
<1> QED BY <1>1, <1>3, <1>4 DEF EventType

LEMMA BurstKept ==
  ASSUME Types, Kept, NEW e \in Events
  PROVE  Burst(e)' \subseteq Burst(e)
<1>1. ASSUME NEW x \in Burst(e)' PROVE x \in Burst(e)
  <2>1. /\ x \in Events' /\ x <= e /\ events'[x].made + Hour >= now'
        /\ events'[e].target = Unknown \/ events'[x].target = events'[e].target
    BY DEF Burst, Scope
  <2>2. x \in Events
    BY <2>1 DEF Events, Types
  <2>3. events'[x] = events[x] /\ events'[e] = events[e] /\ now <= now'
    BY <2>2 DEF Kept
  <2>4. events[x].made \in Nat /\ now \in Nat /\ now' \in Nat /\ Hour \in Nat
    BY <2>2, EventTypes, Constants DEF Kept, Types, Times
  <2> QED BY <2>1, <2>2, <2>3, <2>4 DEF Burst, Scope
<1> QED BY <1>1

LEMMA BurstFinite ==
  ASSUME Types, NEW e \in Events
  PROVE  IsFiniteSet(Burst(e)) /\ Cardinality(Burst(e)) \in Nat
<1>1. Burst(e) \subseteq 1 .. MaxEvents
  BY EventTypes DEF Burst, Scope
<1>2. IsFiniteSet(1 .. MaxEvents)
  BY Constants, FS_Interval
<1> QED BY <1>1, <1>2, FS_Subset, FS_CardinalityType

LEMMA KnowsKept ==
  ASSUME Inv, Kept, NEW r \in Handlers, pc'[r] = pc[r], loc'[r] = loc[r]
  PROVE  Knows(r)'
<1>1. Knows(r) /\ Types
  BY DEF Inv
<1>2. PICK k : k = loc[r].event
  OBVIOUS
<1>3. ASSUME k \in Events
      PROVE  /\ k \in Events' /\ events'[k] = events[k]
             /\ Burst(k)' \subseteq Burst(k)
             /\ events[k].made \in Times /\ events[k].made <= now
  BY <1>1, <1>3, BurstKept, EventTypes DEF Kept, Inv
<1>4. CASE pc[r] \in {"idle", "record"}
  BY <1>1, <1>4 DEF Knows
<1>5. CASE pc[r] \in {"count", "find_open", "create", "push"}
  <2>1. k \in Events /\ events[k].target = loc[r].target
    BY <1>1, <1>2, <1>5 DEF Knows
  <2>2. pc[r] # "count" => Burst(k)' \subseteq loc'[r].recent
    BY <1>1, <1>2, <1>3, <1>5, <2>1 DEF Knows
  <2>3. CASE pc[r] # "push"
    BY <1>2, <1>3, <1>5, <2>1, <2>2, <2>3 DEF Knows, Burst, Scope
  <2>4. CASE pc[r] = "push"
    <3>1. PICK f \in Made, t \in Times : /\ f = loc[r].flag /\ t = events[k].made /\ t <= now
                                         /\ flags[f].target = loc[r].target
                                         /\ loc[r].listed \subseteq Listed(f)
                                         /\ Attended(f, t)
      BY <1>1, <1>2, <1>3, <2>1, <2>4 DEF Knows
    <3>2. /\ f \in Made' /\ flags'[f].target = flags[f].target
          /\ Listed(f) \subseteq Listed(f)' /\ Attended(f, t)'
      BY <3>1 DEF Kept
    <3> QED BY <1>2, <1>3, <2>1, <2>2, <2>4, <3>1, <3>2 DEF Knows, Burst, Scope, Attended, Listed
  <2> QED BY <2>3, <2>4
<1> QED BY <1>1, <1>4, <1>5 DEF Types, Labels

LEMMA InFlagKept ==
  ASSUME Inv, Kept, NEW e \in Events, InFlag(e)
  PROVE  InFlag(e)'
<1>1. PICK f \in Made : /\ flags[f].target = events[e].target
                        /\ Burst(e) \subseteq Listed(f)
                        /\ Attended(f, events[e].made)
  BY DEF InFlag
<1>2. PICK t \in Times : t = events[e].made /\ t <= now
  BY EventTypes DEF Inv
<1>3. /\ f \in Made' /\ flags'[f].target = flags[f].target
      /\ Listed(f) \subseteq Listed(f)' /\ Attended(f, t)'
  BY <1>1, <1>2 DEF Kept
<1>4. Burst(e)' \subseteq Burst(e) /\ events'[e] = events[e]
  BY BurstKept DEF Inv, Kept
<1> QED BY <1>1, <1>2, <1>3, <1>4 DEF InFlag, Attended

----------------------------------------------------------------------------
(* Putting a step together                                                 *)

Moves(p) == \A r \in Handlers \ {p} : pc'[r] = pc[r] /\ loc'[r] = loc[r]

MadeBefore == \A x \in Events : events[x].made <= now

\* what a handler that lets go of an event owes
Settles(p) == \A e \in Events \ lost' :
    loc[p].event = e /\ loc'[p].event # e /\ Cardinality(Burst(e)) >= Threshold => InFlag(e)'

LEMMA Together ==
  ASSUME Inv, Kept, \A r \in Handlers : Knows(r)' /\ Settles(r), MadeBefore',
         FlagsBounded', Copies', \A e \in Events' \ Events : ~ Finished(e)'
  PROVE  Inv'
<1>1. ASSUME NEW e \in Events' \ lost', Cardinality(Burst(e))' >= Threshold, Finished(e)'
      PROVE  InFlag(e)'
  <2>1. e \in Events /\ e \notin lost
    BY <1>1 DEF Kept
  <2>2. Cardinality(Burst(e)) >= Threshold
    <3>1. Burst(e)' \subseteq Burst(e) /\ IsFiniteSet(Burst(e)) /\ Cardinality(Burst(e)) \in Nat
      BY <2>1, BurstKept, BurstFinite DEF Inv
    <3>2. PICK B : B = Burst(e)'
      OBVIOUS
    <3>3. Cardinality(B) <= Cardinality(Burst(e)) /\ Cardinality(B) \in Nat
      BY <3>1, <3>2, FS_Subset, FS_CardinalityType
    <3>4. Cardinality(B) >= Threshold
      BY <1>1, <3>2
    <3> QED BY <3>1, <3>3, <3>4, Constants
  <2>3. CASE Finished(e)
    BY <2>1, <2>2, <2>3, InFlagKept DEF Inv
  <2>4. CASE ~ Finished(e)
    BY <1>1, <2>1, <2>2, <2>4 DEF Finished, Settles
  <2> QED BY <2>3, <2>4
<1> QED BY <1>1 DEF Inv, Kept, MadeBefore

LEMMA HandlerStep ==
  ASSUME Inv, Kept, NEW p \in Handlers, Moves(p), Knows(p)', Settles(p), MadeBefore',
         FlagsBounded', Copies', \A e \in Events' \ Events : loc'[p].event = e
  PROVE  Inv'
<1>1. \A r \in Handlers \ {p} : Knows(r)' /\ Settles(r)
  BY KnowsKept DEF Moves, Settles
<1>2. \A e \in Events' \ Events : ~ Finished(e)'
  BY DEF Finished
<1> QED BY <1>1, <1>2, Together

\* the sets that are counted
Counted(S) == IsFiniteSet(S) /\ Cardinality(S) \in Nat

LEMMA Counts ==
  /\ Cardinality(Handlers) \in Nat
  /\ \A S \in SUBSET Handlers : Counted(S) /\ Cardinality(S) <= Cardinality(Handlers)
  /\ \A S \in SUBSET FlagIds : Counted(S)
<1>1. IsFiniteSet(Handlers) /\ IsFiniteSet(FlagIds)
  BY Constants, FS_Interval DEF FlagIds
<1>2. \A S \in SUBSET Handlers : Counted(S) /\ Cardinality(S) <= Cardinality(Handlers)
  BY <1>1, FS_Subset, FS_CardinalityType DEF Counted
<1>3. \A S \in SUBSET FlagIds : Counted(S)
  BY <1>1, FS_Subset, FS_CardinalityType DEF Counted
<1> QED BY <1>1, <1>2, <1>3, FS_CardinalityType

LEMMA CountSubset ==
  ASSUME NEW S, Counted(S), NEW R \in SUBSET S
  PROVE  Counted(R) /\ Cardinality(R) <= Cardinality(S)
BY FS_Subset, FS_CardinalityType DEF Counted

LEMMA BoundKept ==
  ASSUME Inv, NEW t \in Targets \cup {Unknown},
         NEW O \in SUBSET OpenFor(t), NEW F \in SUBSET Flagging(t)
  PROVE  Cardinality(O) + Cardinality(F) <= Cardinality(Handlers)
<1>1. OpenFor(t) \in SUBSET FlagIds /\ Flagging(t) \in SUBSET Handlers
  BY DEF OpenFor, Made, Flagging
<1>2. /\ Cardinality(OpenFor(t)) \in Nat /\ Cardinality(Flagging(t)) \in Nat
      /\ Cardinality(O) <= Cardinality(OpenFor(t)) /\ Cardinality(F) <= Cardinality(Flagging(t))
      /\ Cardinality(O) \in Nat /\ Cardinality(F) \in Nat /\ Cardinality(Handlers) \in Nat
  BY <1>1, Counts, CountSubset DEF Counted
<1>3. Cardinality(OpenFor(t)) + Cardinality(Flagging(t)) <= Cardinality(Handlers)
  BY DEF Inv, FlagsBounded
<1> QED BY <1>2, <1>3

LEMMA CopiesKept ==
  ASSUME Inv, NEW f \in Made, NEW e \in 1 .. MaxEvents, NEW P \in SUBSET Pushing(f, e)
  PROVE  flags[f].evidence[e] + Cardinality(P) <= Cardinality(Handlers)
<1>1. Pushing(f, e) \in SUBSET Handlers
  BY DEF Pushing
<1>2. /\ Cardinality(Pushing(f, e)) \in Nat /\ Cardinality(P) <= Cardinality(Pushing(f, e))
      /\ Cardinality(P) \in Nat /\ Cardinality(Handlers) \in Nat
  BY <1>1, Counts, CountSubset DEF Counted
<1>3. flags[f].evidence[e] \in Nat
  BY DEF Inv, Types, FlagType, Evidence, Made
<1>4. flags[f].evidence[e] + Cardinality(Pushing(f, e)) <= Cardinality(Handlers)
  BY DEF Inv, Copies
<1> QED BY <1>2, <1>3, <1>4

LEMMA FlagsKept ==
  ASSUME Inv, Made' = Made,
         \A f \in Made : /\ flags'[f].evidence = flags[f].evidence
                         /\ flags'[f].target = flags[f].target
                         /\ flags'[f].status = "OPEN" => flags[f].status = "OPEN",
         \A r \in Handlers : pc'[r] \notin {"create", "push"} \/ (pc'[r] = pc[r] /\ loc'[r] = loc[r])
  PROVE  FlagsBounded' /\ Copies'
<1>1. ASSUME NEW t \in Targets \cup {Unknown}
      PROVE  Cardinality(OpenFor(t))' + Cardinality(Flagging(t))' <= Cardinality(Handlers)
  <2>1. PICK O, F : O = OpenFor(t)' /\ F = Flagging(t)'
    OBVIOUS
  <2>2. O \subseteq OpenFor(t) /\ F \subseteq Flagging(t)
    BY <2>1 DEF OpenFor, Flagging
  <2>3. Cardinality(O) + Cardinality(F) <= Cardinality(Handlers)
    BY <2>2, BoundKept
  <2> QED BY <2>1, <2>3
<1>2. ASSUME NEW f \in Made, NEW e \in 1 .. MaxEvents
      PROVE  flags'[f].evidence[e] + Cardinality(Pushing(f, e))' <= Cardinality(Handlers)
  <2>1. PICK P : P = Pushing(f, e)'
    OBVIOUS
  <2>2. P \subseteq Pushing(f, e)
    BY <2>1 DEF Pushing
  <2>3. flags[f].evidence[e] + Cardinality(P) <= Cardinality(Handlers)
    BY <2>2, CopiesKept
  <2> QED BY <2>1, <2>3
<1>3. FlagsBounded'
  BY <1>1 DEF FlagsBounded
<1> QED BY <1>2, <1>3 DEF Copies

\* steps that write no flag
LEMMA FlagsAlone ==
  ASSUME Inv, Types', flags' = flags, Events \subseteq Events', now <= now', lost \subseteq lost',
         \A x \in Events : events'[x] = events[x],
         \A r \in Handlers : pc'[r] \notin {"create", "push"} \/ (pc'[r] = pc[r] /\ loc'[r] = loc[r])
  PROVE  Kept /\ FlagsBounded' /\ Copies'
<1>1. Made' = Made /\ \A f \in Made : Listed(f)' = Listed(f)
  BY DEF Made, Listed
<1>2. \A f \in Made, t \in Times : Attended(f, t)' <=> Attended(f, t)
  BY DEF Attended
<1>3. Kept
  BY <1>1, <1>2 DEF Kept
<1> QED BY <1>1, <1>3, FlagsKept

----------------------------------------------------------------------------
(* The steps                                                               *)

LEMMA BlankType == Blank \in LocType /\ Blank.event = 0
<1>1. 0 \in 0 .. MaxEvents
  BY Constants
<1> QED BY <1>1 DEF Blank, LocType

LEMMA DoneMoves ==
  ASSUME Types, NEW p \in Handlers, Done(p)
  PROVE  /\ pc' \in [Handlers -> Labels] /\ loc' \in [Handlers -> LocType]
         /\ pc'[p] = "idle" /\ loc'[p].event = 0 /\ Moves(p) /\ Knows(p)'
<1>1. /\ pc' \in [Handlers -> Labels] /\ loc' \in [Handlers -> LocType]
      /\ pc'[p] = "idle" /\ loc'[p].event = 0 /\ Moves(p)
  BY BlankType DEF Types, Done, Goto, Labels, Moves
<1> QED BY <1>1 DEF Knows

LEMMA CallStep ==
  ASSUME Inv, NEW p \in Handlers, Call(p)
  PROVE  Inv'
<1>0. Types /\ Knows(p) /\ UNCHANGED <<now, events, flags, lost>> /\ pc[p] = "idle" /\ loc[p].event = 0
  BY DEF Inv, Call, Knows
<1>1. /\ pc' \in [Handlers -> Labels] /\ loc' \in [Handlers -> LocType]
      /\ pc'[p] \in {"idle", "record"} /\ loc'[p].event = 0 /\ Moves(p)
  <2>1. CASE UNCHANGED <<pc, loc>>
    BY <1>0, <2>1 DEF Types, Moves
  <2>2. CASE Goto(p, "record") /\ \E t \in Targets \cup {Unknown} : loc' = [loc EXCEPT ![p].target = t]
    <3>1. PICK t \in Targets \cup {Unknown} : loc' = [loc EXCEPT ![p].target = t]
      BY <2>2
    <3>2. PICK l \in LocType : l = loc[p]
      BY <1>0 DEF Types
    <3>3. PICK k : k = [l EXCEPT !.target = t]
      OBVIOUS
    <3>4. k \in LocType /\ k.event = l.event
      BY <3>3 DEF LocType
    <3>5. loc' = [loc EXCEPT ![p] = k]
      BY <1>0, <3>1, <3>2, <3>3 DEF Types
    <3> QED BY <1>0, <2>2, <3>2, <3>4, <3>5 DEF Types, Goto, Labels, Moves
  <2> QED BY <2>1, <2>2 DEF Call
<1>2. Types'
  BY <1>0, <1>1 DEF Types
<1>3. Kept /\ FlagsBounded' /\ Copies'
  <2>1. Events' = Events /\ now <= now'
    BY <1>0, EventTypes DEF Events
  <2> QED BY <1>0, <1>1, <1>2, <2>1, FlagsAlone DEF Moves
<1>4. Knows(p)' /\ Settles(p) /\ MadeBefore' /\ Events' = Events
  BY <1>0, <1>1 DEF Knows, Settles, MadeBefore, Inv, Events
<1> QED BY <1>1, <1>3, <1>4, HandlerStep

LEMMA RecordStep ==
  ASSUME Inv, NEW p \in Handlers, Record(p)
  PROVE  Inv'
<1>0. Types /\ Knows(p) /\ UNCHANGED <<now, flags, lost>> /\ pc[p] = "record" /\ loc[p].event = 0
  BY DEF Inv, Record, Knows
<1>1. PICK n \in Nat : n = Len(events)
  BY <1>0 DEF Types
<1>2. PICK l \in LocType : l = loc[p]
  BY <1>0 DEF Types
<1>3. PICK r \in EventType : r = [target |-> l.target, made |-> now]
  BY <1>0 DEF LocType, EventType, Types
<1>4. /\ n < MaxEvents /\ events' = Append(events, r) /\ loc' = [loc EXCEPT ![p].event = n + 1]
      /\ Goto(p, "count")
  BY <1>1, <1>2, <1>3 DEF Record
<1>5. PICK k : k = [l EXCEPT !.event = n + 1]
  OBVIOUS
<1>6. n + 1 \in 0 .. MaxEvents
  BY <1>1, <1>4, Constants
<1>7. k \in LocType /\ k.event = n + 1 /\ k.target = l.target
  BY <1>5, <1>6 DEF LocType
<1>8. /\ loc' = [loc EXCEPT ![p] = k]
  BY <1>0, <1>2, <1>4, <1>5 DEF Types
<1>9. /\ pc' \in [Handlers -> Labels] /\ loc' \in [Handlers -> LocType]
      /\ pc'[p] = "count" /\ loc'[p] = k /\ Moves(p)
  BY <1>0, <1>4, <1>7, <1>8 DEF Types, Goto, Labels, Moves
<1>10. /\ events' \in Seq(EventType) /\ Len(events') = n + 1 /\ events'[n + 1] = r
       /\ \A x \in 1 .. n : events'[x] = events[x]
  BY <1>0, <1>1, <1>4 DEF Types
<1>11. Events = 1 .. n /\ Events' = 1 .. (n + 1) /\ n + 1 \in Events' /\ Events' \ Events = {n + 1}
  BY <1>1, <1>10 DEF Events
<1>12. Types'
  BY <1>0, <1>6, <1>9, <1>10, Constants DEF Types
<1>13. now \in Nat /\ now' = now /\ r.made = now /\ r.target = l.target
  BY <1>0, <1>3, EventTypes
<1>14. Kept /\ FlagsBounded' /\ Copies'
  BY <1>0, <1>9, <1>10, <1>11, <1>12, <1>13, FlagsAlone DEF Moves
<1>15. Knows(p)'
  BY <1>7, <1>9, <1>10, <1>11, <1>13 DEF Knows
<1>16. MadeBefore'
  <2> SUFFICES ASSUME NEW x \in Events' PROVE events'[x].made <= now'
    BY DEF MadeBefore
  <2>1. CASE x \in Events
    BY <1>10, <1>11, <1>13, <2>1 DEF Inv
  <2>2. CASE x = n + 1
    BY <1>10, <1>13, <2>2
  <2> QED BY <1>11, <2>1, <2>2
<1>17. Settles(p)
  BY <1>0, <1>11 DEF Settles
<1> QED BY <1>7, <1>9, <1>11, <1>14, <1>15, <1>16, <1>17, HandlerStep

\* a handler that ends without a write
LEMMA DoneStep ==
  ASSUME Inv, NEW p \in Handlers, Done(p), UNCHANGED <<now, events, flags>>,
         lost \subseteq lost', Settles(p)
  PROVE  Inv'
<1>1. /\ Types /\ pc' \in [Handlers -> Labels] /\ loc' \in [Handlers -> LocType]
      /\ pc'[p] = "idle" /\ Moves(p) /\ Knows(p)'
  BY DoneMoves DEF Inv
<1>2. Types'
  BY <1>1 DEF Types
<1>3. Events' = Events /\ now <= now' /\ MadeBefore'
  BY <1>1, EventTypes DEF Events, MadeBefore, Inv
<1>4. Kept /\ FlagsBounded' /\ Copies'
  BY <1>1, <1>2, <1>3, FlagsAlone DEF Moves
<1> QED BY <1>1, <1>3, <1>4, HandlerStep

LEMMA CountStep ==
  ASSUME Inv, NEW p \in Handlers, Count(p)
  PROVE  Inv'
<1>0. /\ Types /\ Knows(p) /\ UNCHANGED <<now, events, flags, lost>> /\ pc[p] = "count"
      /\ Events' = Events
  BY DEF Inv, Count, Events
<1>1. PICK k \in Events, l \in LocType : l = loc[p] /\ k = l.event /\ events[k].target = l.target
  BY <1>0 DEF Knows, Types
<1>2. PICK R : R = {e \in Scope(l.target) : events[e].made + Hour >= now}
  OBVIOUS
<1>3. /\ R \subseteq 1 .. MaxEvents /\ IsFiniteSet(R) /\ Cardinality(R) \in Nat /\ Burst(k) \subseteq R
  <2>1. R \subseteq 1 .. MaxEvents
    BY <1>0, <1>2, EventTypes DEF Scope
  <2>2. IsFiniteSet(1 .. MaxEvents)
    BY Constants, FS_Interval
  <2>3. Burst(k) \subseteq R
    BY <1>1, <1>2 DEF Burst, Scope
  <2> QED BY <2>1, <2>2, <2>3, FS_Subset, FS_CardinalityType
<1>4. CASE Cardinality(R) >= Threshold
  <2>1. Goto(p, "find_open") /\ loc' = [loc EXCEPT ![p].recent = R]
    BY <1>1, <1>2, <1>4 DEF Count
  <2>2. PICK m : m = [l EXCEPT !.recent = R]
    OBVIOUS
  <2>3. m \in LocType /\ m.event = k /\ m.target = l.target /\ m.recent = R
    BY <1>1, <1>3, <2>2 DEF LocType
  <2>4. loc' = [loc EXCEPT ![p] = m]
    BY <1>0, <1>1, <2>1, <2>2 DEF Types
  <2>5. /\ pc' \in [Handlers -> Labels] /\ loc' \in [Handlers -> LocType]
        /\ pc'[p] = "find_open" /\ loc'[p] = m /\ Moves(p)
    BY <1>0, <2>1, <2>3, <2>4 DEF Types, Goto, Labels, Moves
  <2>6. Types'
    BY <1>0, <2>5 DEF Types
  <2>7. now <= now' /\ MadeBefore'
    BY <1>0, EventTypes DEF MadeBefore, Inv
  <2>8. Kept /\ FlagsBounded' /\ Copies'
    BY <1>0, <2>5, <2>6, <2>7, FlagsAlone DEF Moves
  <2>9. Burst(k)' = Burst(k)
    BY <1>0 DEF Burst, Scope
  <2>10. Knows(p)'
    BY <1>0, <1>1, <1>3, <2>3, <2>5, <2>9 DEF Knows
  <2>11. Settles(p)
    BY <1>1, <2>3, <2>5 DEF Settles
  <2> QED BY <1>0, <2>5, <2>7, <2>8, <2>10, <2>11, HandlerStep
<1>5. CASE ~ (Cardinality(R) >= Threshold)
  <2>1. Done(p)
    BY <1>1, <1>2, <1>5 DEF Count
  <2>2. ~ (Cardinality(Burst(k)) >= Threshold)
    <3>1. Cardinality(Burst(k)) <= Cardinality(R) /\ Cardinality(Burst(k)) \in Nat
      BY <1>3, FS_Subset, FS_CardinalityType
    <3> QED BY <1>3, <1>5, <3>1, Constants
  <2>3. Settles(p)
    BY <1>1, <2>2 DEF Settles
  <2> QED BY <1>0, <2>1, <2>3, DoneStep
<1> QED BY <1>4, <1>5

LEMMA FailStep ==
  ASSUME Inv, NEW p \in Handlers, Fail(p)
  PROVE  Inv'
<1>1. /\ Done(p) /\ UNCHANGED <<now, events, flags>> /\ lost' = lost \cup ({loc[p].event} \ {0})
  BY DEF Fail
<1>2. \A e \in Events : e # 0
  BY EventTypes DEF Inv, Events
<1>3. Settles(p)
  BY <1>1, <1>2 DEF Settles
<1> QED BY <1>1, <1>3, DoneStep

LEMMA RestartStep ==
  ASSUME Inv, Restart
  PROVE  Inv'
<1>1. /\ UNCHANGED <<now, events, flags>> /\ Types /\ Events' = Events
      /\ lost' = lost \cup ({loc[p].event : p \in Handlers} \ {0})
      /\ pc' = [p \in Handlers |-> "idle"] /\ loc' = [p \in Handlers |-> Blank]
  BY DEF Restart, Inv, Events
<1>2. Types'
  BY <1>1, BlankType DEF Types, Labels
<1>3. now <= now' /\ MadeBefore'
  BY <1>1, EventTypes DEF MadeBefore, Inv
<1>4. Kept /\ FlagsBounded' /\ Copies'
  BY <1>1, <1>2, <1>3, FlagsAlone
<1>5. \A r \in Handlers : Knows(r)'
  BY <1>1, BlankType DEF Knows
<1>6. \A r \in Handlers : Settles(r)
  <2>1. \A e \in Events : e # 0
    BY <1>1, EventTypes DEF Events
  <2> QED BY <1>1, <2>1 DEF Settles
<1> QED BY <1>1, <1>3, <1>4, <1>5, <1>6, Together

LEMMA TickStep ==
  ASSUME Inv, Tick
  PROVE  Inv'
<1>1. /\ now < MaxTime /\ now' = now + 1 /\ UNCHANGED <<events, flags, pc, loc, lost>>
      /\ Types /\ Events' = Events
  BY DEF Tick, Inv, Events
<1>2. now \in Nat /\ now' \in Times /\ now <= now'
  BY <1>1, EventTypes, Constants DEF Times
<1>3. Types'
  BY <1>1, <1>2 DEF Types
<1>4. MadeBefore'
  <2> SUFFICES ASSUME NEW x \in Events PROVE events[x].made <= now'
    BY <1>1 DEF MadeBefore
  <2>1. events[x].made <= now /\ events[x].made \in Nat
    BY <1>1, EventTypes DEF Inv
  <2> QED BY <1>1, <1>2, <2>1
<1>5. Kept /\ FlagsBounded' /\ Copies'
  BY <1>1, <1>2, <1>3, FlagsAlone
<1>6. \A r \in Handlers : Knows(r)' /\ Settles(r)
  BY <1>1, <1>5, KnowsKept DEF Settles
<1> QED BY <1>1, <1>4, <1>5, <1>6, Together

LEMMA FindOpenStep ==
  ASSUME Inv, NEW p \in Handlers, FindOpen(p)
  PROVE  Inv'
<1>0. /\ Types /\ Knows(p) /\ UNCHANGED <<now, events, flags, lost>> /\ pc[p] = "find_open"
      /\ Events' = Events
  BY DEF Inv, FindOpen, Events
<1>1. PICK k \in Events, l \in LocType : /\ l = loc[p] /\ k = l.event /\ events[k].target = l.target
                                         /\ Burst(k) \subseteq l.recent
  BY <1>0 DEF Knows, Types
<1>2. Made' = Made /\ \A f \in Made : Listed(f)' = Listed(f)
  BY <1>0 DEF Made, Listed
<1>3. \A f \in Made, t \in Times : Attended(f, t)' <=> Attended(f, t)
  BY <1>0 DEF Attended
<1>4. now <= now' /\ MadeBefore'
  BY <1>0, EventTypes DEF MadeBefore, Inv
<1>5. Burst(k)' = Burst(k)
  BY <1>0 DEF Burst, Scope
<1>6. Types' => Kept
  BY <1>0, <1>2, <1>3, <1>4 DEF Kept
<1>7. l.target \in Targets \cup {Unknown} /\ Cardinality(Handlers) \in Nat
  BY <1>0, Counts DEF LocType
<1>8. CASE OpenFor(l.target) = {} /\ Goto(p, "create") /\ UNCHANGED loc
  <2>1. /\ pc' \in [Handlers -> Labels] /\ loc' \in [Handlers -> LocType]
        /\ pc'[p] = "create" /\ loc'[p] = l /\ Moves(p)
    BY <1>0, <1>1, <1>8 DEF Types, Goto, Labels, Moves
  <2>2. Types'
    BY <1>0, <2>1 DEF Types
  <2>3. Knows(p)'
    BY <1>0, <1>1, <1>5, <2>1 DEF Knows
  <2>4. Settles(p)
    BY <1>8 DEF Settles
  <2>5. FlagsBounded'
    <3> SUFFICES ASSUME NEW t \in Targets \cup {Unknown}
                 PROVE  Cardinality(OpenFor(t))' + Cardinality(Flagging(t))' <= Cardinality(Handlers)
      BY DEF FlagsBounded
    <3>1. PICK O, F : O = OpenFor(t)' /\ F = Flagging(t)'
      OBVIOUS
    <3>2. O = OpenFor(t) /\ F \subseteq Handlers
      BY <1>0, <1>2, <3>1 DEF OpenFor, Flagging
    <3>3. CASE t = l.target
      <4>1. O = {} /\ Cardinality(O) = 0
        BY <1>8, <3>2, <3>3, FS_EmptySet
      <4>2. Cardinality(F) <= Cardinality(Handlers) /\ Cardinality(F) \in Nat
        BY <3>2, Counts DEF Counted
      <4> QED BY <1>7, <3>1, <4>1, <4>2
    <3>4. CASE t # l.target
      <4>1. F \subseteq Flagging(t)
        BY <2>1, <3>1, <3>4 DEF Flagging, Moves
      <4>2. Cardinality(O) + Cardinality(F) <= Cardinality(Handlers)
        BY <3>2, <4>1, BoundKept
      <4> QED BY <3>1, <4>2
    <3> QED BY <3>3, <3>4
  <2>6. Copies'
    <3> SUFFICES ASSUME NEW f \in Made, NEW e \in 1 .. MaxEvents
                 PROVE  flags'[f].evidence[e] + Cardinality(Pushing(f, e))' <= Cardinality(Handlers)
      BY <1>2 DEF Copies
    <3>1. PICK P : P = Pushing(f, e)'
      OBVIOUS
    <3>2. P \subseteq Pushing(f, e)
      BY <2>1, <3>1 DEF Pushing, Moves
    <3>3. flags[f].evidence[e] + Cardinality(P) <= Cardinality(Handlers)
      BY <3>2, CopiesKept
    <3> QED BY <1>0, <3>1, <3>3
  <2> QED BY <1>0, <1>4, <1>6, <2>1, <2>2, <2>3, <2>4, <2>5, <2>6, HandlerStep
<1>9. ASSUME NEW f \in OpenFor(l.target), l.recent \subseteq Listed(f), Done(p)
      PROVE  Inv'
  <2>1. f \in Made /\ flags[f].target = l.target /\ flags[f].status = "OPEN"
    BY DEF OpenFor
  <2>2. InFlag(k)'
    BY <1>0, <1>1, <1>2, <1>5, <1>9, <2>1 DEF InFlag, Attended
  <2>3. Settles(p)
    BY <1>1, <2>2 DEF Settles
  <2> QED BY <1>0, <1>9, <2>3, DoneStep
<1>10. ASSUME NEW f \in OpenFor(l.target), Goto(p, "push"),
              loc' = [loc EXCEPT ![p].flag = f, ![p].listed = Listed(f)]
       PROVE  Inv'
  <2>1. f \in Made /\ f \in FlagIds /\ flags[f].target = l.target /\ flags[f].status = "OPEN"
    BY DEF OpenFor, Made
  <2>2. PICK m : m = [l EXCEPT !.flag = f, !.listed = Listed(f)]
    OBVIOUS
  <2>3. f \in 0 .. MaxEvents /\ Listed(f) \subseteq 1 .. MaxEvents
    BY <2>1, Constants DEF FlagIds, Listed
  <2>4. /\ m \in LocType /\ m.event = k /\ m.target = l.target /\ m.recent = l.recent
        /\ m.flag = f /\ m.listed = Listed(f)
    BY <1>1, <2>2, <2>3 DEF LocType
  <2>5. loc' = [loc EXCEPT ![p] = m]
    BY <1>0, <1>1, <1>10, <2>2 DEF Types
  <2>6. /\ pc' \in [Handlers -> Labels] /\ loc' \in [Handlers -> LocType]
        /\ pc'[p] = "push" /\ loc'[p] = m /\ Moves(p)
    BY <1>0, <1>10, <2>4, <2>5 DEF Types, Goto, Labels, Moves
  <2>7. Types'
    BY <1>0, <2>6 DEF Types
  <2>8. Knows(p)'
    BY <1>0, <1>1, <1>2, <1>5, <2>1, <2>4, <2>6 DEF Knows, Attended
  <2>9. Settles(p)
    BY <1>1, <2>4, <2>6 DEF Settles
  <2>10. FlagsBounded'
    <3> SUFFICES ASSUME NEW t \in Targets \cup {Unknown}
                 PROVE  Cardinality(OpenFor(t))' + Cardinality(Flagging(t))' <= Cardinality(Handlers)
      BY DEF FlagsBounded
    <3>1. PICK O, F : O = OpenFor(t)' /\ F = Flagging(t)'
      OBVIOUS
    <3>2. O \subseteq OpenFor(t) /\ F \subseteq Flagging(t)
      BY <1>0, <1>2, <2>6, <3>1 DEF OpenFor, Flagging, Moves
    <3>3. Cardinality(O) + Cardinality(F) <= Cardinality(Handlers)
      BY <3>2, BoundKept
    <3> QED BY <3>1, <3>3
  <2>11. Copies'
    <3> SUFFICES ASSUME NEW g \in Made, NEW e \in 1 .. MaxEvents
                 PROVE  flags'[g].evidence[e] + Cardinality(Pushing(g, e))' <= Cardinality(Handlers)
      BY <1>2 DEF Copies
    <3>1. PICK P : P = Pushing(g, e)'
      OBVIOUS
    <3>2. CASE g = f /\ e \notin Listed(f)
      <4>1. flags[g].evidence[e] \in Nat /\ ~ (flags[g].evidence[e] > 0)
        BY <1>0, <3>2 DEF Types, FlagType, Evidence, Made, Listed
      <4>2. P \subseteq Handlers
        BY <3>1 DEF Pushing
      <4>3. Cardinality(P) <= Cardinality(Handlers) /\ Cardinality(P) \in Nat
        BY <4>2, Counts DEF Counted
      <4> QED BY <1>0, <1>7, <3>1, <4>1, <4>3
    <3>3. CASE ~ (g = f /\ e \notin Listed(f))
      <4>1. P \subseteq Pushing(g, e)
        BY <2>4, <2>6, <3>1, <3>3 DEF Pushing, Moves
      <4>2. flags[g].evidence[e] + Cardinality(P) <= Cardinality(Handlers)
        BY <4>1, CopiesKept
      <4> QED BY <1>0, <3>1, <4>2
    <3> QED BY <3>2, <3>3
  <2> QED BY <1>0, <1>4, <1>6, <2>6, <2>7, <2>8, <2>9, <2>10, <2>11, HandlerStep
<1> QED BY <1>1, <1>8, <1>9, <1>10 DEF FindOpen

LEMMA ResolveStep ==
  ASSUME Inv, Resolve
  PROVE  Inv'
<1>1. PICK f \in Made : flags' = [flags EXCEPT ![f].status = "RESOLVED", ![f].resolved = now]
  BY DEF Resolve
<1>2. UNCHANGED <<now, events, pc, loc, lost>> /\ Types /\ Events' = Events /\ f \in FlagIds
  BY DEF Resolve, Inv, Events, Made
<1>3. PICK l \in FlagType : l = flags[f]
  BY <1>2 DEF Types
<1>4. PICK m : m = [l EXCEPT !.status = "RESOLVED", !.resolved = now]
  OBVIOUS
<1>5. /\ m \in FlagType /\ m.status = "RESOLVED" /\ m.resolved = now
      /\ m.target = l.target /\ m.evidence = l.evidence
  BY <1>2, <1>4 DEF FlagType, Types
<1>6. flags' = [flags EXCEPT ![f] = m]
  BY <1>1, <1>2, <1>3, <1>4 DEF Types
<1>7. Types'
  BY <1>2, <1>5, <1>6 DEF Types
<1>8. flags'[f] = m /\ \A g \in FlagIds \ {f} : flags'[g] = flags[g]
  BY <1>2, <1>6 DEF Types
<1>9. Made' = Made
  BY <1>1, <1>2, <1>5, <1>8 DEF Made
<1>10. \A g \in Made : /\ flags'[g].evidence = flags[g].evidence
                       /\ flags'[g].target = flags[g].target
                       /\ flags'[g].status = "OPEN" => flags[g].status = "OPEN"
  BY <1>3, <1>5, <1>8 DEF Made
<1>11. \A g \in Made : Listed(g) \subseteq Listed(g)'
  BY <1>10 DEF Listed
<1>12. \A g \in Made : \A t \in Times : t <= now /\ Attended(g, t) => Attended(g, t)'
  BY <1>5, <1>8 DEF Attended, Made
<1>13. now <= now' /\ MadeBefore'
  BY <1>2, EventTypes DEF MadeBefore, Inv
<1>14. Kept
  BY <1>2, <1>7, <1>9, <1>10, <1>11, <1>12, <1>13 DEF Kept
<1>15. FlagsBounded' /\ Copies'
  BY <1>2, <1>9, <1>10, FlagsKept
<1>16. \A r \in Handlers : Knows(r)' /\ Settles(r)
  BY <1>2, <1>14, KnowsKept DEF Settles
<1> QED BY <1>2, <1>13, <1>14, <1>15, <1>16, Together

LEMMA CreateStep ==
  ASSUME Inv, NEW p \in Handlers, CreateFlag(p)
  PROVE  Inv'
<1>0. /\ Types /\ Knows(p) /\ UNCHANGED <<now, events, lost>> /\ pc[p] = "create" /\ Done(p)
      /\ Events' = Events
  BY DEF Inv, CreateFlag, Events
<1>1. PICK k \in Events, l \in LocType : /\ l = loc[p] /\ k = l.event /\ events[k].target = l.target
                                         /\ Burst(k) \subseteq l.recent
  BY <1>0 DEF Knows, Types
<1>2. PICK f \in FlagIds \ Made :
         flags' = [flags EXCEPT ![f] = [status |-> "OPEN", target |-> l.target, resolved |-> 0,
                                        evidence |-> With(NoFlag.evidence, l.recent)]]
  BY <1>1 DEF CreateFlag
<1>3. PICK m : m = [status |-> "OPEN", target |-> l.target, resolved |-> 0,
                    evidence |-> With(NoFlag.evidence, l.recent)]
  OBVIOUS
<1>4. /\ m.status = "OPEN" /\ m.target = l.target /\ m \in FlagType
      /\ \A e \in 1 .. MaxEvents : m.evidence[e] = IF e \in l.recent THEN 1 ELSE 0
  <2>1. \A e \in 1 .. MaxEvents : m.evidence[e] = IF e \in l.recent THEN 1 ELSE 0
    BY <1>3 DEF With, NoFlag
  <2>2. m.evidence \in Evidence
    BY <1>3, <2>1 DEF With, Evidence, NoFlag
  <2>3. 0 \in Times /\ l.target \in Targets \cup {Unknown}
    BY Constants DEF Times, LocType
  <2>4. m.status = "OPEN" /\ m.target = l.target /\ m.resolved = 0
    BY <1>3
  <2>5. m \in FlagType
    BY <1>3, <2>2, <2>3 DEF FlagType
  <2> QED BY <2>1, <2>4, <2>5
<1>5. flags' = [flags EXCEPT ![f] = m]
  BY <1>2, <1>3
<1>6. /\ flags' \in [FlagIds -> FlagType] /\ flags'[f] = m
      /\ \A g \in FlagIds \ {f} : flags'[g] = flags[g]
  BY <1>0, <1>4, <1>5 DEF Types
<1>7. /\ pc' \in [Handlers -> Labels] /\ loc' \in [Handlers -> LocType]
      /\ pc'[p] = "idle" /\ loc'[p].event = 0 /\ Moves(p) /\ Knows(p)'
  BY <1>0, DoneMoves
<1>8. Types'
  BY <1>0, <1>6, <1>7 DEF Types
<1>9. Made' = Made \cup {f}
  BY <1>4, <1>6 DEF Made
<1>10. \A g \in Made : flags'[g] = flags[g]
  BY <1>6 DEF Made
<1>11. now <= now' /\ MadeBefore'
  BY <1>0, EventTypes DEF MadeBefore, Inv
<1>12. Kept
  BY <1>0, <1>8, <1>9, <1>10, <1>11 DEF Kept, Listed, Attended
<1>13. Settles(p)
  <2>1. Burst(k)' = Burst(k) /\ Burst(k) \subseteq 1 .. MaxEvents
    BY <1>0, EventTypes DEF Burst, Scope
  <2>2. Listed(f)' = l.recent \cap (1 .. MaxEvents)
    BY <1>4, <1>6 DEF Listed
  <2>3. InFlag(k)'
    BY <1>0, <1>1, <1>4, <1>6, <1>9, <2>1, <2>2 DEF InFlag, Attended
  <2> QED BY <1>1, <2>3 DEF Settles
<1>14. FlagsBounded'
  <2> SUFFICES ASSUME NEW t \in Targets \cup {Unknown}
               PROVE  Cardinality(OpenFor(t))' + Cardinality(Flagging(t))' <= Cardinality(Handlers)
    BY DEF FlagsBounded
  <2>1. PICK O, F : O = OpenFor(t)' /\ F = Flagging(t)'
    OBVIOUS
  <2>2. CASE t = l.target
    <3>1. O \subseteq OpenFor(t) \cup {f} /\ OpenFor(t) \subseteq FlagIds
      BY <1>6, <1>9, <1>10, <2>1 DEF OpenFor, Made
    <3>2. F \subseteq Flagging(t) \ {p} /\ p \in Flagging(t) /\ Flagging(t) \subseteq Handlers
      BY <1>0, <1>1, <1>7, <2>1, <2>2 DEF Flagging, Moves
    <3>3. Counted(OpenFor(t)) /\ Counted(Flagging(t)) /\ Cardinality(Handlers) \in Nat
      BY <3>1, <3>2, Counts
    <3>4. Counted(OpenFor(t) \cup {f}) /\ Cardinality(OpenFor(t) \cup {f}) <= Cardinality(OpenFor(t)) + 1
      BY <3>3, FS_AddElement, FS_CardinalityType DEF Counted
    <3>5. /\ Counted(Flagging(t) \ {p})
          /\ Cardinality(Flagging(t) \ {p}) = Cardinality(Flagging(t)) - 1
      BY <3>2, <3>3, FS_RemoveElement, FS_CardinalityType DEF Counted
    <3>6. Counted(O) /\ Cardinality(O) <= Cardinality(OpenFor(t) \cup {f})
      BY <3>1, <3>4, CountSubset
    <3>7. Counted(F) /\ Cardinality(F) <= Cardinality(Flagging(t) \ {p})
      BY <3>2, <3>5, CountSubset
    <3>8. Cardinality(OpenFor(t)) + Cardinality(Flagging(t)) <= Cardinality(Handlers)
      BY BoundKept
    <3>9. Cardinality(O) + Cardinality(F) <= Cardinality(Handlers)
      BY <3>3, <3>4, <3>5, <3>6, <3>7, <3>8 DEF Counted
    <3> QED BY <2>1, <3>9
  <2>3. CASE t # l.target
    <3>1. O \subseteq OpenFor(t)
      BY <1>4, <1>6, <1>9, <1>10, <2>1, <2>3 DEF OpenFor
    <3>2. F \subseteq Flagging(t)
      BY <1>7, <2>1 DEF Flagging, Moves
    <3>3. Cardinality(O) + Cardinality(F) <= Cardinality(Handlers)
      BY <3>1, <3>2, BoundKept
    <3> QED BY <2>1, <3>3
  <2> QED BY <2>2, <2>3
<1>15. Copies'
  <2> SUFFICES ASSUME NEW g \in Made', NEW e \in 1 .. MaxEvents
               PROVE  flags'[g].evidence[e] + Cardinality(Pushing(g, e))' <= Cardinality(Handlers)
    BY DEF Copies
  <2>1. PICK P : P = Pushing(g, e)'
    OBVIOUS
  <2>2. CASE g = f
    <3>1. P = {} /\ Cardinality(P) = 0
      <4>1. ASSUME NEW r \in P PROVE FALSE
        <5>1. r \in Handlers /\ pc'[r] = "push" /\ loc'[r].flag = f
          BY <2>1, <2>2, <4>1 DEF Pushing
        <5>2. pc[r] = "push" /\ loc[r].flag = f
          BY <1>7, <5>1 DEF Moves
        <5> QED BY <1>2, <5>1, <5>2 DEF Inv, Knows
      <4> QED BY <4>1, FS_EmptySet
    <3>2. flags'[g].evidence[e] \in {0, 1}
      BY <1>4, <1>6, <2>2
    <3>3. Cardinality(Handlers) \in Nat /\ Cardinality(Handlers) # 0
      BY Constants, FS_EmptySet, FS_CardinalityType
    <3> QED BY <2>1, <3>1, <3>2, <3>3
  <2>3. CASE g # f
    <3>1. g \in Made /\ flags'[g] = flags[g]
      BY <1>9, <1>10, <2>3
    <3>2. P \subseteq Pushing(g, e)
      BY <1>7, <2>1 DEF Pushing, Moves
    <3>3. flags[g].evidence[e] + Cardinality(P) <= Cardinality(Handlers)
      BY <3>1, <3>2, CopiesKept
    <3> QED BY <2>1, <3>1, <3>3
  <2> QED BY <2>2, <2>3
<1> QED BY <1>0, <1>7, <1>11, <1>12, <1>13, <1>14, <1>15, HandlerStep

LEMMA PushStep ==
  ASSUME Inv, NEW p \in Handlers, Push(p)
  PROVE  Inv'
<1>0. /\ Types /\ Knows(p) /\ UNCHANGED <<now, events, lost>> /\ pc[p] = "push" /\ Done(p)
      /\ Events' = Events
  BY DEF Inv, Push, Events
<1>1. PICK k \in Events, l \in LocType, f \in Made :
         /\ l = loc[p] /\ k = l.event /\ f = l.flag /\ events[k].target = l.target
         /\ Burst(k) \subseteq l.recent
         /\ flags[f].target = l.target /\ l.listed \subseteq Listed(f)
         /\ Attended(f, events[k].made)
  BY <1>0 DEF Knows, Types
<1>2. f \in FlagIds
  BY DEF Made
<1>3. PICK q \in FlagType : q = flags[f]
  BY <1>0, <1>2 DEF Types
<1>4. PICK new : new = l.recent \ l.listed
  OBVIOUS
<1>5. PICK m : m = [q EXCEPT !.evidence = With(q.evidence, new)]
  OBVIOUS
<1>6. flags' = [flags EXCEPT ![f] = m]
  BY <1>0, <1>1, <1>2, <1>3, <1>4, <1>5 DEF Push, Types
<1>7. /\ m \in FlagType /\ m.status = q.status /\ m.target = q.target /\ m.resolved = q.resolved
      /\ \A e \in 1 .. MaxEvents : /\ q.evidence[e] \in Nat
                                  /\ m.evidence[e] = q.evidence[e] + IF e \in new THEN 1 ELSE 0
  <2>1. q.evidence \in Evidence /\ With(q.evidence, new) \in Evidence
    <3>1. q.evidence \in [1 .. MaxEvents -> Nat]
      BY DEF FlagType, Evidence
    <3>2. PICK v \in [1 .. MaxEvents -> Nat] : v = q.evidence
      BY <3>1
    <3>3. PICK w : w = With(v, new)
      OBVIOUS
    <3>4. w = [e \in 1 .. MaxEvents |-> v[e] + IF e \in new THEN 1 ELSE 0]
      BY <3>3 DEF With
    <3>5. ASSUME NEW e \in 1 .. MaxEvents PROVE w[e] \in Nat
      <4>1. w[e] = v[e] + IF e \in new THEN 1 ELSE 0
        BY <3>4
      <4>2. v[e] \in Nat
        BY <3>2
      <4> QED BY <4>1, <4>2
    <3>6. w \in [1 .. MaxEvents -> Nat]
      BY <3>4, <3>5
    <3> QED BY <3>2, <3>3, <3>6 DEF Evidence
  <2>2. m \in FlagType /\ m.status = q.status /\ m.target = q.target /\ m.resolved = q.resolved
    BY <1>5, <2>1 DEF FlagType
  <2>3. m.evidence = With(q.evidence, new)
    BY <1>5 DEF FlagType
  <2> QED BY <2>1, <2>2, <2>3 DEF With, Evidence
<1>8. /\ flags' \in [FlagIds -> FlagType] /\ flags'[f] = m
      /\ \A g \in FlagIds \ {f} : flags'[g] = flags[g]
  BY <1>0, <1>2, <1>6, <1>7 DEF Types
<1>9. /\ pc' \in [Handlers -> Labels] /\ loc' \in [Handlers -> LocType]
      /\ pc'[p] = "idle" /\ loc'[p].event = 0 /\ Moves(p) /\ Knows(p)'
  BY <1>0, DoneMoves
<1>10. Types'
  BY <1>0, <1>8, <1>9 DEF Types
<1>11. /\ Made' = Made
       /\ \A g \in Made : /\ flags'[g].status = flags[g].status /\ flags'[g].target = flags[g].target
                          /\ flags'[g].resolved = flags[g].resolved
  BY <1>2, <1>3, <1>7, <1>8 DEF Made
<1>12. Listed(f) \subseteq Listed(f)' /\ new \subseteq Listed(f)'
  <2>1. new \subseteq 1 .. MaxEvents
    BY <1>4 DEF LocType
  <2> QED BY <1>3, <1>7, <1>8, <2>1 DEF Listed
<1>13. \A g \in Made : Listed(g) \subseteq Listed(g)'
  BY <1>8, <1>12 DEF Listed, Made
<1>14. \A g \in Made, t \in Times : Attended(g, t) => Attended(g, t)'
  BY <1>11 DEF Attended
<1>15. now <= now' /\ MadeBefore'
  BY <1>0, EventTypes DEF MadeBefore, Inv
<1>16. Kept
  BY <1>0, <1>10, <1>11, <1>13, <1>14, <1>15 DEF Kept
<1>17. Settles(p)
  <2>1. Burst(k)' = Burst(k)
    BY <1>0 DEF Burst, Scope
  <2>2. Burst(k)' \subseteq Listed(f)'
    BY <1>1, <1>4, <1>12, <2>1
  <2>3. InFlag(k)'
    BY <1>0, <1>1, <1>11, <2>2 DEF InFlag, Attended
  <2> QED BY <1>1, <2>3 DEF Settles
<1>18. FlagsBounded'
  <2> SUFFICES ASSUME NEW t \in Targets \cup {Unknown}
               PROVE  Cardinality(OpenFor(t))' + Cardinality(Flagging(t))' <= Cardinality(Handlers)
    BY DEF FlagsBounded
  <2>1. PICK O, F : O = OpenFor(t)' /\ F = Flagging(t)'
    OBVIOUS
  <2>2. O \subseteq OpenFor(t) /\ F \subseteq Flagging(t)
    BY <1>9, <1>11, <2>1 DEF OpenFor, Flagging, Moves
  <2>3. Cardinality(O) + Cardinality(F) <= Cardinality(Handlers)
    BY <2>2, BoundKept
  <2> QED BY <2>1, <2>3
<1>19. Copies'
  <2> SUFFICES ASSUME NEW g \in Made, NEW e \in 1 .. MaxEvents
               PROVE  flags'[g].evidence[e] + Cardinality(Pushing(g, e))' <= Cardinality(Handlers)
    BY <1>11 DEF Copies
  <2>1. PICK P : P = Pushing(g, e)'
    OBVIOUS
  <2>2. P \subseteq Pushing(g, e) /\ p \notin P
    BY <1>9, <2>1 DEF Pushing, Moves
  <2>3. CASE g = f /\ e \in new
    <3>1. p \in Pushing(f, e) /\ Pushing(f, e) \subseteq Handlers
      BY <1>0, <1>1, <1>4, <2>3 DEF Pushing
    <3>2. P \cup {p} \subseteq Pushing(f, e) /\ P \subseteq Handlers
      BY <2>2, <2>3, <3>1
    <3>3. Counted(P)
      BY <3>2, Counts
    <3>4. Cardinality(P \cup {p}) = Cardinality(P) + 1
      BY <2>2, <3>3, FS_AddElement DEF Counted
    <3>5. flags[f].evidence[e] + Cardinality(P \cup {p}) <= Cardinality(Handlers)
      BY <3>2, CopiesKept
    <3>6. flags'[g].evidence[e] = flags[f].evidence[e] + 1 /\ flags[f].evidence[e] \in Nat
      BY <1>3, <1>7, <1>8, <2>3
    <3> QED BY <2>1, <3>3, <3>4, <3>5, <3>6, Counts DEF Counted
  <2>4. CASE ~ (g = f /\ e \in new)
    <3>1. flags'[g].evidence[e] = flags[g].evidence[e]
      BY <1>3, <1>7, <1>8, <2>4 DEF Made
    <3>2. flags[g].evidence[e] + Cardinality(P) <= Cardinality(Handlers)
      BY <2>2, CopiesKept
    <3> QED BY <2>1, <3>1, <3>2
  <2> QED BY <2>3, <2>4
<1> QED BY <1>0, <1>9, <1>15, <1>16, <1>17, <1>18, <1>19, HandlerStep

LEMMA IdleStep ==
  ASSUME Inv, UNCHANGED vars
  PROVE  Inv'
<1>1. UNCHANGED <<now, events, flags, pc, loc, lost>> /\ Types /\ Events' = Events
  BY DEF vars, Inv, Events
<1>2. Types'
  BY <1>1 DEF Types
<1>3. now <= now' /\ MadeBefore'
  BY <1>1, EventTypes DEF MadeBefore, Inv
<1>4. Kept /\ FlagsBounded' /\ Copies'
  BY <1>1, <1>2, <1>3, FlagsAlone
<1>5. \A r \in Handlers : Knows(r)' /\ Settles(r)
  BY <1>1, <1>4, KnowsKept DEF Settles
<1> QED BY <1>1, <1>3, <1>4, <1>5, Together

----------------------------------------------------------------------------
LEMMA InvInit ==
  ASSUME Init
  PROVE  Inv
<1>1. events = <<>> /\ Events = {} /\ now = 0 /\ 0 \in Times
  BY Constants DEF Init, Events, Times
<1>2. NoFlag \in FlagType /\ NoFlag.status = "none"
  <2>1. [e \in 1 .. MaxEvents |-> 0] \in Evidence
    BY DEF Evidence
  <2> QED BY <1>1, <2>1 DEF NoFlag, FlagType
<1>3. Types
  BY <1>1, <1>2, BlankType, Constants DEF Types, Init, Labels
<1>4. Made = {}
  BY <1>2 DEF Init, Made
<1>5. \A p \in Handlers : Knows(p)
  BY BlankType DEF Knows, Init
<1>6. FlagsBounded
  <2> SUFFICES ASSUME NEW t \in Targets \cup {Unknown}
               PROVE  Cardinality(OpenFor(t)) + Cardinality(Flagging(t)) <= Cardinality(Handlers)
    BY DEF FlagsBounded
  <2>1. OpenFor(t) = {} /\ Flagging(t) = {}
    BY <1>4 DEF OpenFor, Flagging, Init
  <2> QED BY <2>1, FS_EmptySet, Counts
<1> QED BY <1>1, <1>3, <1>4, <1>5, <1>6 DEF Inv, Copies

LEMMA InvNext ==
  ASSUME Inv, [Next]_vars
  PROVE  Inv'
<1>1. CASE UNCHANGED vars
  BY <1>1, IdleStep
<1>2. CASE \E p \in Handlers : Handler(p) \/ Fail(p)
  BY <1>2, CallStep, RecordStep, CountStep, FindOpenStep, CreateStep, PushStep, FailStep DEF Handler
<1>3. CASE Resolve \/ Tick \/ Restart
  BY <1>3, ResolveStep, TickStep, RestartStep
<1> QED BY <1>1, <1>2, <1>3 DEF Next

LEMMA InvAlways == Spec => []Inv
<1>1. Init => Inv
  BY InvInit
<1>2. Inv /\ [Next]_vars => Inv'
  BY InvNext
<1> QED BY <1>1, <1>2, PTL DEF Spec

\* A target never has more open flags than there were handlers at work at
\* once (SecurityService.record_event), whatever the interleaving of their
\* reads and inserts and whatever the administrators resolve.
THEOREM FlagsBoundedCorrect == Spec => []FlagsBounded
<1>1. Inv => FlagsBounded
  BY DEF Inv
<1> QED BY <1>1, InvAlways, PTL

\* A flag lists an event at most once per handler at work at the time
\* (the $push of repositories/security_repo.py).
THEOREM EvidenceBoundedCorrect == Spec => []EvidenceBounded
<1>1. Inv => EvidenceBounded
  <2> SUFFICES ASSUME Inv, NEW f \in Made, NEW e \in Events
               PROVE  flags[f].evidence[e] <= Cardinality(Handlers)
    BY DEF EvidenceBounded
  <2>1. e \in 1 .. MaxEvents /\ Pushing(f, e) \subseteq Handlers
    BY EventTypes DEF Inv, Pushing
  <2>2. flags[f].evidence[e] \in Nat
    BY <2>1 DEF Inv, Types, FlagType, Evidence, Made
  <2>3. flags[f].evidence[e] + Cardinality(Pushing(f, e)) <= Cardinality(Handlers)
    BY <2>1 DEF Inv, Copies
  <2> QED BY <2>1, <2>2, <2>3, Counts DEF Counted
<1> QED BY <1>1, InvAlways, PTL

\* A burst of events that reaches the threshold within the hour is in a flag
\* once the handler of its last event has finished and was not cut short; the
\* flag is open, or was resolved after that event came in.
THEOREM BurstFlaggedCorrect == Spec => []BurstFlagged
<1>1. Inv => BurstFlagged
  BY DEF Inv, BurstFlagged, InFlag, Burst, Attended, Finished
<1> QED BY <1>1, InvAlways, PTL

----------------------------------------------------------------------------
(* The limiter's windows                                                   *)

\* the calls let through lately that a restart made the limiter forget
Forgotten(b) == passed[b] \ store[b]

Windows == \A b \in Buckets :
    /\ store[b] \subseteq passed[b] /\ IsFiniteSet(passed[b])
    /\ Cardinality(Within(store[b])) <= MaxCalls
    /\ Cardinality(Within(Forgotten(b))) <= MaxCalls * restarts

LimiterTypes ==
    /\ restarts \in 0 .. faults /\ faults \in 0 .. MaxFaults
    /\ store \in [Buckets -> SUBSET CallType] /\ passed \in [Buckets -> SUBSET CallType]

Limits == LimiterTypes /\ Windows

LEMMA LimiterConstants ==
  MaxCalls \in Nat \ {0} /\ Window \in Nat \ {0} /\ \A c \in CallType : c.at \in Nat
  BY TicksAssumption, BoundsAssumption DEF CallType, Times

\* which steps write the windows
LEMMA LimiterSteps ==
  ASSUME Types, Limits, [Next]_vars
  PROVE  \/ UNCHANGED <<limiter>> /\ now <= now' /\ (faults' = faults \/ \E p \in Handlers : Fail(p))
         \/ UNCHANGED <<now, faults>> /\ \E b \in Buckets : Admit(b) \/ Refuse(b)
         \/ Restart
<1>0. now \in Nat
  BY Constants DEF Types, Times
<1>1. ASSUME NEW p \in Handlers, Call(p)
      PROVE  UNCHANGED <<now, faults>> /\ \E b \in Buckets : Admit(b) \/ Refuse(b)
  BY <1>1 DEF Call
<1>2. ASSUME NEW p \in Handlers, Record(p) \/ Count(p) \/ FindOpen(p) \/ CreateFlag(p) \/ Push(p)
      PROVE  UNCHANGED <<limiter, now, faults>>
  BY <1>2 DEF Record, Count, FindOpen, CreateFlag, Push
<1>3. ASSUME NEW p \in Handlers, Fail(p) PROVE UNCHANGED <<limiter, now>>
  BY <1>3 DEF Fail
<1>4. Resolve \/ UNCHANGED vars => UNCHANGED <<limiter, now, faults>>
  BY DEF Resolve, vars
<1>5. Tick => UNCHANGED <<limiter, faults>> /\ now' = now + 1
  BY DEF Tick
<1> QED BY <1>0, <1>1, <1>2, <1>3, <1>4, <1>5 DEF Next, Handler

LEMMA LimiterTypesNext ==
  ASSUME Types, Limits, [Next]_vars
  PROVE  LimiterTypes'
<1> USE DEF Limits, LimiterTypes
<1>0. /\ faults \in Nat /\ restarts \in Nat /\ MaxFaults \in Nat
      /\ \A b \in Buckets, S \in SUBSET CallType : Within(S) \in SUBSET CallType /\ ThisCall(b) \subseteq CallType
  BY Constants DEF Within, ThisCall
<1>1. ASSUME UNCHANGED <<limiter>>, faults' = faults PROVE LimiterTypes'
  BY <1>1 DEF limiter
<1>2. ASSUME NEW p \in Handlers, UNCHANGED <<limiter>>, Fail(p) PROVE LimiterTypes'
  <2>1. UNCHANGED <<store, passed, restarts>> /\ faults' = faults + 1 /\ faults < MaxFaults
    BY <1>2 DEF limiter, Fail
  <2> QED BY <1>0, <2>1
<1>3. ASSUME NEW b \in Buckets, Admit(b), faults' = faults PROVE LimiterTypes'
  <2>1. PICK c \in CallType : /\ store' = [store EXCEPT ![b] = Within(@) \cup {c}]
                              /\ passed' = [passed EXCEPT ![b] = Within(@) \cup {c}]
                              /\ restarts' = restarts
    BY <1>0, <1>3 DEF Admit
  <2> QED BY <1>0, <1>3, <2>1
<1>4. ASSUME NEW b \in Buckets, Refuse(b), faults' = faults PROVE LimiterTypes'
  BY <1>0, <1>4 DEF Refuse
<1>5. Restart => LimiterTypes'
  BY <1>0 DEF Restart
<1> QED BY <1>1, <1>2, <1>3, <1>4, <1>5, LimiterSteps

LEMMA FewerWithin ==
  ASSUME NEW S, IsFiniteSet(S), NEW R \in SUBSET S
  PROVE  /\ IsFiniteSet(R) /\ Cardinality(R) \in Nat /\ Cardinality(S) \in Nat
         /\ Cardinality(R) <= Cardinality(S)
BY FS_Subset, FS_CardinalityType

LEMMA WindowsAlone ==
  ASSUME Types, Limits, UNCHANGED <<limiter>>, now' \in Nat, now <= now'
  PROVE  Windows'
<1> SUFFICES ASSUME NEW b \in Buckets
             PROVE  /\ store'[b] \subseteq passed'[b] /\ IsFiniteSet(passed'[b])
                    /\ Cardinality(Within(store[b])') <= MaxCalls
                    /\ Cardinality(Within(Forgotten(b))') <= MaxCalls * restarts'
  BY DEF Windows
<1>1. store' = store /\ passed' = passed /\ restarts' = restarts
  BY DEF limiter
<1>2. store[b] \subseteq passed[b] /\ IsFiniteSet(passed[b]) /\ passed[b] \subseteq CallType
  BY DEF Limits, Windows, LimiterTypes
<1>3. now \in Nat /\ MaxCalls \in Nat /\ restarts \in Nat
  BY Constants, LimiterConstants DEF Types, Times, Limits, LimiterTypes
<1>4. ASSUME NEW S \in SUBSET passed[b] PROVE \A T : T = {c \in S : c.at + Window > now'} =>
         T \subseteq Within(S) /\ IsFiniteSet(Within(S)) /\ Cardinality(T) <= Cardinality(Within(S))
                      /\ Cardinality(T) \in Nat /\ Cardinality(Within(S)) \in Nat
  <2> TAKE T
  <2> HAVE T = {c \in S : c.at + Window > now'}
  <2>1. T \subseteq Within(S)
    BY <1>2, <1>3, LimiterConstants DEF Within
  <2>2. IsFiniteSet(Within(S))
    BY <1>2, FS_Subset DEF Within
  <2> QED BY <2>1, <2>2, FewerWithin
<1>5. PICK T, F : T = Within(store[b])' /\ F = Within(Forgotten(b))'
  OBVIOUS
<1>6. T = {c \in store[b] : c.at + Window > now'} /\ F = {c \in Forgotten(b) : c.at + Window > now'}
  BY <1>1, <1>5 DEF Within, Forgotten
<1>7. /\ Cardinality(T) <= Cardinality(Within(store[b])) /\ Cardinality(T) \in Nat
      /\ Cardinality(Within(store[b])) \in Nat
  BY <1>2, <1>4, <1>6
<1>8. /\ Cardinality(F) <= Cardinality(Within(Forgotten(b))) /\ Cardinality(F) \in Nat
      /\ Cardinality(Within(Forgotten(b))) \in Nat
  BY <1>2, <1>4, <1>6 DEF Forgotten
<1>9. Cardinality(T) <= MaxCalls
  BY <1>3, <1>7 DEF Limits, Windows
<1>10. Cardinality(F) <= MaxCalls * restarts
  BY <1>3, <1>8 DEF Limits, Windows
<1> QED BY <1>1, <1>2, <1>5, <1>9, <1>10

\* what is known of a bucket before a step that keeps the clock
LEMMA WindowFacts ==
  ASSUME Limits, NEW b \in Buckets
  PROVE  /\ store[b] \subseteq passed[b]
         /\ Within(passed[b]) = Within(Forgotten(b)) \cup Within(store[b])
         /\ IsFiniteSet(passed[b]) /\ IsFiniteSet(Within(passed[b]))
         /\ IsFiniteSet(Within(store[b])) /\ IsFiniteSet(Within(Forgotten(b)))
         /\ Cardinality(Within(passed[b])) \in Nat /\ Cardinality(Within(store[b])) \in Nat
         /\ Cardinality(Within(Forgotten(b))) \in Nat
         /\ Cardinality(Within(store[b])) <= Cardinality(Within(passed[b]))
         /\ Cardinality(Within(passed[b])) <= Cardinality(Within(Forgotten(b))) + Cardinality(Within(store[b]))
<1>1. store[b] \subseteq passed[b] /\ IsFiniteSet(passed[b])
  BY DEF Limits, Windows
<1>2. Within(passed[b]) = Within(Forgotten(b)) \cup Within(store[b])
  BY <1>1 DEF Within, Forgotten
<1>3. Within(passed[b]) \in SUBSET passed[b]
  BY DEF Within
<1>4. IsFiniteSet(Within(passed[b])) /\ Cardinality(Within(passed[b])) \in Nat
  BY <1>1, <1>3, FewerWithin
<1>5. /\ IsFiniteSet(Within(store[b])) /\ Cardinality(Within(store[b])) \in Nat
      /\ Cardinality(Within(store[b])) <= Cardinality(Within(passed[b]))
  BY <1>2, <1>4, FewerWithin
<1>6. IsFiniteSet(Within(Forgotten(b))) /\ Cardinality(Within(Forgotten(b))) \in Nat
  BY <1>2, <1>4, FewerWithin
<1>7. PICK S, T : S = Within(Forgotten(b)) /\ T = Within(store[b])
  OBVIOUS
<1>8. Cardinality(S \cap T) \in Nat
  BY <1>6, <1>7, FewerWithin
<1>9. Cardinality(S \cup T) = Cardinality(S) + Cardinality(T) - Cardinality(S \cap T)
  BY <1>5, <1>6, <1>7, FS_Union
<1>10. Cardinality(S \cup T) <= Cardinality(S) + Cardinality(T)
  BY <1>5, <1>6, <1>7, <1>8, <1>9
<1> QED BY <1>1, <1>2, <1>4, <1>5, <1>6, <1>7, <1>10

LEMMA AdmitWindows ==
  ASSUME Types, Limits, NEW b \in Buckets, Admit(b), now' = now
  PROVE  Windows'
<1>1. PICK c \in ThisCall(b) :
           /\ Cardinality(Within(store[b])) < MaxCalls
           /\ store' = [store EXCEPT ![b] = Within(store[b]) \cup {c}]
           /\ passed' = [passed EXCEPT ![b] = Within(passed[b]) \cup {c}]
           /\ restarts' = restarts
  BY DEF Admit
<1>2. c \in CallType /\ c.at = now /\ now \in Nat
  BY Constants DEF ThisCall, Types, Times
<1>3. c.at + Window > now
  BY <1>2, LimiterConstants
<1>4. /\ store'[b] = Within(store[b]) \cup {c} /\ passed'[b] = Within(passed[b]) \cup {c}
      /\ \A x \in Buckets \ {b} : store'[x] = store[x] /\ passed'[x] = passed[x]
  BY <1>1 DEF Limits, LimiterTypes
<1>5. store'[b] \subseteq passed'[b] /\ IsFiniteSet(passed'[b])
  <2>1. IsFiniteSet(Within(passed[b]) \cup {c})
    BY WindowFacts, FS_AddElement
  <2> QED BY <1>4, <2>1, WindowFacts
<1>6. Cardinality(Within(store[b])') <= MaxCalls
  <2>1. Within(store[b])' = Within(store[b]) \cup {c}
    BY <1>3, <1>4 DEF Within
  <2>2. PICK S : S = Within(store[b])
    OBVIOUS
  <2>3. IsFiniteSet(S) /\ Cardinality(S) \in Nat /\ Cardinality(S) < MaxCalls
    BY <1>1, <2>2, WindowFacts
  <2>4. Cardinality(S \cup {c}) \in {Cardinality(S), Cardinality(S) + 1}
    BY <2>3, FS_AddElement
  <2>5. Cardinality(S \cup {c}) <= MaxCalls
    BY <2>3, <2>4, LimiterConstants
  <2> QED BY <2>1, <2>2, <2>5
<1>7. Cardinality(Within(Forgotten(b))') <= MaxCalls * restarts'
  <2>1. Within(Forgotten(b))' \subseteq Within(Forgotten(b))
    BY <1>4 DEF Within, Forgotten
  <2>2. PICK F : F = Within(Forgotten(b))'
    OBVIOUS
  <2>3. Cardinality(F) <= Cardinality(Within(Forgotten(b))) /\ Cardinality(F) \in Nat
    BY <2>1, <2>2, WindowFacts, FewerWithin
  <2>4. Cardinality(F) <= MaxCalls * restarts
    BY <2>3, WindowFacts, LimiterConstants DEF Limits, Windows, LimiterTypes
  <2> QED BY <1>1, <2>2, <2>4
<1>8. ASSUME NEW x \in Buckets \ {b}
      PROVE  /\ store'[x] = store[x] /\ passed'[x] = passed[x]
             /\ Within(store[x])' = Within(store[x]) /\ Within(Forgotten(x))' = Within(Forgotten(x))
  BY <1>4, <1>8 DEF Within, Forgotten
<1> QED BY <1>1, <1>5, <1>6, <1>7, <1>8 DEF Limits, Windows

LEMMA RefuseWindows ==
  ASSUME Types, Limits, NEW b \in Buckets, Refuse(b), now' = now
  PROVE  Windows'
<1>1. /\ store'[b] = Within(store[b]) /\ passed' = passed /\ restarts' = restarts
      /\ \A x \in Buckets \ {b} : store'[x] = store[x]
  BY DEF Refuse, Limits, LimiterTypes
<1>2. \A x \in Buckets : Within(store[x])' = Within(store[x]) /\ Within(Forgotten(x))' = Within(Forgotten(x))
  BY <1>1 DEF Within, Forgotten
<1>3. \A x \in Buckets : store'[x] \subseteq passed'[x]
  BY <1>1 DEF Limits, Windows, Within
<1> QED BY <1>1, <1>2, <1>3 DEF Limits, Windows

LEMMA RestartWindows ==
  ASSUME Types, Limits, Restart
  PROVE  Windows'
<1>1. /\ passed' = passed /\ restarts' = restarts + 1 /\ now' = now
      /\ \A b \in Buckets : store'[b] = {}
  BY DEF Restart
<1> SUFFICES ASSUME NEW b \in Buckets
             PROVE  /\ store'[b] \subseteq passed'[b] /\ IsFiniteSet(passed'[b])
                    /\ Cardinality(Within(store[b])') <= MaxCalls
                    /\ Cardinality(Within(Forgotten(b))') <= MaxCalls * restarts'
  BY DEF Windows
<1>2. Within(store[b])' = {} /\ Within(Forgotten(b))' = Within(passed[b])
  BY <1>1 DEF Within, Forgotten
<1>3. Cardinality({}) = 0
  BY FS_EmptySet
<1>4. PICK n \in Nat, m \in Nat : n = restarts /\ m = MaxCalls
  BY Constants, LimiterConstants DEF Limits, LimiterTypes
<1>5. Cardinality(Within(store[b])) <= m /\ Cardinality(Within(Forgotten(b))) <= m * n
  BY <1>4 DEF Limits, Windows
<1>6. m * (n + 1) = m * n + m /\ m * n \in Nat
  BY <1>4
<1>7. Cardinality(Within(passed[b])) <= m * (n + 1)
  BY <1>5, <1>6, WindowFacts
<1> QED BY <1>1, <1>2, <1>3, <1>4, <1>7, WindowFacts

LEMMA LostNext ==
  ASSUME Inv, lost \subseteq Events, [Next]_vars
  PROVE  (lost \subseteq Events)'
<1>1. \A p \in Handlers : {loc[p].event} \ {0} \subseteq Events
  BY DEF Inv, Knows, Types, Labels
<1>2. CASE UNCHANGED <<events, lost>>
  BY <1>2 DEF Events
<1>3. ASSUME NEW p \in Handlers, Record(p) PROVE (lost \subseteq Events)'
  <2>1. Len(events') = Len(events) + 1 /\ Len(events) \in Nat /\ lost' = lost
    BY <1>3 DEF Record, Inv, Types
  <2> QED BY <2>1 DEF Events
<1>4. ASSUME NEW p \in Handlers, Fail(p) PROVE (lost \subseteq Events)'
  <2>1. events' = events /\ lost' = lost \cup ({loc[p].event} \ {0})
    BY <1>4 DEF Fail
  <2> QED BY <1>1, <2>1 DEF Events
<1>5. CASE Restart
  <2>1. events' = events /\ lost' = lost \cup ({loc[p].event : p \in Handlers} \ {0})
    BY <1>5 DEF Restart
  <2> QED BY <1>1, <2>1 DEF Events
<1>6. \A p \in Handlers : Call(p) \/ Count(p) \/ FindOpen(p) \/ CreateFlag(p) \/ Push(p) => UNCHANGED <<events, lost>>
  BY DEF Call, Count, FindOpen, CreateFlag, Push
<1>7. Resolve \/ Tick \/ UNCHANGED vars => UNCHANGED <<events, lost>>
  BY DEF Resolve, Tick, vars
<1> QED BY <1>2, <1>3, <1>4, <1>5, <1>6, <1>7 DEF Next, Handler

LEMMA LimitsAlways == Spec => [](Inv /\ Limits /\ lost \subseteq Events)
<1>1. Init => Limits
  <2> SUFFICES ASSUME Init PROVE Limits
    OBVIOUS
  <2>1. \A b \in Buckets : store[b] = {} /\ passed[b] = {} /\ Within(store[b]) = {} /\ Within(Forgotten(b)) = {}
    BY DEF Init, Within, Forgotten
  <2>2. IsFiniteSet({}) /\ Cardinality({}) = 0
    BY FS_EmptySet
  <2>3. restarts = 0 /\ MaxCalls * 0 = 0
    BY LimiterConstants DEF Init
  <2>4. Windows
    BY <2>1, <2>2, <2>3, LimiterConstants DEF Windows
  <2> QED BY <2>4, Constants DEF Init, Limits, LimiterTypes
<1>2. Inv /\ Limits /\ [Next]_vars => Limits'
  <2> SUFFICES ASSUME Inv, Limits, [Next]_vars PROVE Windows'
    BY LimiterTypesNext DEF Limits, Inv
  <2>1. now' \in Nat
    BY InvNext, Constants DEF Inv, Types, Times
  <2> QED BY <2>1, LimiterSteps, WindowsAlone, AdmitWindows, RefuseWindows, RestartWindows DEF Inv
<1>3. Init => Inv /\ lost \subseteq Events
  BY InvInit DEF Init
<1>4. Inv /\ lost \subseteq Events /\ [Next]_vars => Inv' /\ (lost \subseteq Events)'
  BY InvNext, LostNext
<1> QED BY <1>1, <1>2, <1>3, <1>4, PTL DEF Spec

\* A limiter lets through at most its limit within a window, plus as many
\* again for each restart, which forgets the windows; and the window that
\* refuses a caller holds only calls that were let through.
THEOREM LimitKeptCorrect == Spec => []LimitKept
<1>1. Inv /\ Limits => LimitKept
  <2> SUFFICES ASSUME Limits, NEW b \in Buckets
               PROVE  /\ Cardinality(Within(passed[b])) <= MaxCalls * (1 + restarts)
                      /\ Cardinality(Within(store[b])) <= Cardinality(Within(passed[b]))
    BY DEF LimitKept
  <2>1. PICK n \in Nat, m \in Nat : n = restarts /\ m = MaxCalls
    BY Constants, LimiterConstants DEF Limits, LimiterTypes
  <2>2. Cardinality(Within(store[b])) <= m /\ Cardinality(Within(Forgotten(b))) <= m * n
    BY <2>1 DEF Limits, Windows
  <2>3. m * (1 + n) = m * n + m /\ m * n \in Nat
    BY <2>1
  <2>4. Cardinality(Within(passed[b])) <= m * (1 + n)
    BY <2>2, <2>3, WindowFacts
  <2> QED BY <2>1, <2>4, WindowFacts
<1> QED BY <1>1, LimitsAlways, PTL

\* Windows, events, flags and handlers keep their types; above all a flag is
\* open or resolved and nothing else, and no handler that was cut short left
\* an event behind that was not stored.
THEOREM TypeCorrect == Spec => []TypeOK
<1>1. Inv /\ Limits /\ lost \subseteq Events => TypeOK
  BY DEF Inv, Types, EventType, Limits, LimiterTypes, TypeOK
<1> QED BY <1>1, LimitsAlways, PTL
=============================================================================
