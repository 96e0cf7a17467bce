---------------------------- MODULE OtpChallenge ----------------------------
(***************************************************************************)
(* One-time codes of one member for one purpose: OTPService.issue_challenge*)
(* and verify_challenge over OTPRepository (domain/otp_service.py,         *)
(* repositories/otp_repo.py), with the TTL index and the cleanup job that  *)
(* delete expired challenges (core/database.py, jobs/cleanup.py).  Every   *)
(* query names member and purpose, so other pairs never interfere.         *)
(*                                                                         *)
(* As in DeviceTrust, an action is one database operation with the code up *)
(* to the next await; time only passes between two of them.                *)
(***************************************************************************)
EXTENDS Naturals, FiniteSets

CONSTANTS
    Handlers,       \* slots for requests being served at the same time
    MaxChallenges,  \* bound on challenges ever issued
    MaxAttempts,    \* otp_max_attempts
    DailyCap,       \* otp_daily_cap
    Cooldown,       \* otp_resend_cooldown_seconds, in ticks of the clock
    Lifetime,       \* otp_expire_minutes, in ticks
    DayLength,      \* a day, in ticks
    MaxTime,        \* bound on the clock
    MaxFaults       \* bound on handlers cut short by an error or a crash

ASSUME ParametersAssumption ==
    /\ IsFiniteSet(Handlers) /\ Handlers # {}
    /\ {MaxAttempts, DailyCap, Lifetime, DayLength} \subseteq Nat \ {0}
    /\ {MaxChallenges, Cooldown, MaxTime, MaxFaults} \subseteq Nat

VARIABLES
    otps,       \* otp_challenges; a larger id is a later insert
    now,
    midnight,   \* when the day began (now with hour, minute, second set to 0)
    pc,         \* the operation a handler is about to make
    chal,       \* the challenge it found, 0 for none
    wrong,      \* history: wrong codes compared with each challenge
    accepted,   \* history: verifications each challenge let through
    faults

vars == <<otps, now, midnight, pc, chal, wrong, accepted, faults>>

Challenges == 1 .. MaxChallenges
NoChallenge == [exists |-> FALSE, attempts |-> 0, used |-> FALSE, made |-> 0, ends |-> 0]

\* made = 0 and ends = 0: never issued (Lifetime is positive)
Issued == {c \in Challenges : otps[c].ends # 0}
Found  == {c \in Challenges : otps[c].exists}

\* find_active_challenge's filter, and the document its sort puts first
Active == {c \in Found : ~otps[c].used /\ otps[c].ends > now}
Newest(S) == {c \in S : \A x \in S : x <= c}

\* count_today
CountedToday == {c \in Found : otps[c].made >= midnight}

Init ==
    /\ otps = [c \in Challenges |-> NoChallenge]
    /\ now = 1
    /\ midnight = 0
    /\ pc = [p \in Handlers |-> "idle"]
    /\ chal = [p \in Handlers |-> 0]
    /\ wrong = [c \in Challenges |-> 0]
    /\ accepted = [c \in Challenges |-> 0]
    /\ faults = 0

Goto(p, to) == pc' = [pc EXCEPT ![p] = to]

\* a handler answers, or raises: its locals are gone
Done(p) == Goto(p, "idle") /\ chal' = [chal EXCEPT ![p] = 0]

----------------------------------------------------------------------------
(* issue_challenge                                                         *)

\* mutant: one more than the cap
IssueCount_OffByOne(p) ==
    /\ pc[p] = "idle"
    /\ Cardinality(CountedToday) <= DailyCap
    /\ Goto(p, "cooldown")
    /\ UNCHANGED <<otps, now, midnight, chal, wrong, accepted, faults>>

\* count_today; a refusal only records a security event
IssueCount(p) ==
    /\ pc[p] = "idle"
    /\ Cardinality(CountedToday) < DailyCap
    /\ Goto(p, "cooldown")
    /\ UNCHANGED <<otps, now, midnight, chal, wrong, accepted, faults>>

\* find_last_challenge_any_state
IssueCooldown(p) ==
    /\ pc[p] = "cooldown"
    /\ Goto(p, IF \E c \in Newest(Found) : now - otps[c].made < Cooldown THEN "idle" ELSE "create")
    /\ UNCHANGED <<otps, now, midnight, chal, wrong, accepted, faults>>

\* create_challenge; the raw code goes out by mail
IssueCreate(p) == \E c \in Challenges \ Issued :
    /\ pc[p] = "create"
    /\ \A x \in 1 .. (c - 1) : x \in Issued
    /\ otps' = [otps EXCEPT ![c] = [exists |-> TRUE, attempts |-> 0, used |-> FALSE,
                                    made |-> now, ends |-> now + Lifetime]]
    /\ Done(p)
    /\ UNCHANGED <<now, midnight, wrong, accepted, faults>>

----------------------------------------------------------------------------
(* verify_challenge                                                        *)

\* mutant: the attempts found are not looked at
VerifyFind_NoLimit(p) == \E c \in Newest(Active) :
    /\ pc[p] = "idle"
    /\ chal' = [chal EXCEPT ![p] = c]
    /\ \/ /\ Goto(p, "consume")
          /\ UNCHANGED wrong
       \/ /\ Goto(p, "increment")
          /\ wrong' = [wrong EXCEPT ![c] = @ + 1]
    /\ UNCHANGED <<otps, now, midnight, accepted, faults>>

\* mutant: the code is compared before the limit is looked at
VerifyFind_CompareFirst(p) == \E c \in Newest(Active) :
    /\ pc[p] = "idle"
    /\ chal' = [chal EXCEPT ![p] = c]
    /\ \/ /\ Goto(p, "consume")
          /\ UNCHANGED wrong
       \/ /\ otps[c].attempts >= MaxAttempts
          /\ Goto(p, "expire")
          /\ UNCHANGED wrong
       \/ /\ otps[c].attempts < MaxAttempts
          /\ Goto(p, "increment")
          /\ wrong' = [wrong EXCEPT ![c] = @ + 1]
    /\ UNCHANGED <<otps, now, midnight, accepted, faults>>

\* find_active_challenge, then the comparison of the code submitted, which is
\* the right one or a wrong one (with no challenge found, a refusal)
VerifyFind(p) == \E c \in Newest(Active) :
    /\ pc[p] = "idle"
    /\ chal' = [chal EXCEPT ![p] = c]
    /\ \/ /\ otps[c].attempts >= MaxAttempts
          /\ Goto(p, "expire")
          /\ UNCHANGED wrong
       \/ /\ otps[c].attempts < MaxAttempts
          /\ Goto(p, "consume")
          /\ UNCHANGED wrong
       \/ /\ otps[c].attempts < MaxAttempts
          /\ Goto(p, "increment")
          /\ wrong' = [wrong EXCEPT ![c] = @ + 1]
    /\ UNCHANGED <<otps, now, midnight, accepted, faults>>

\* mutant: the attempt is not counted
Increment_Lost(p) ==
    /\ pc[p] = "increment"
    /\ Done(p)
    /\ UNCHANGED <<otps, now, midnight, wrong, accepted, faults>>

\* increment_attempts: find_one_and_update answers the new value, and the
\* service 0 when cleanup has deleted the challenge
Increment(p) ==
    /\ pc[p] = "increment"
    /\ IF chal[p] \in Found
       THEN /\ otps' = [otps EXCEPT ![chal[p]].attempts = @ + 1]
            /\ IF otps[chal[p]].attempts + 1 >= MaxAttempts
               THEN Goto(p, "expire") /\ UNCHANGED chal
               ELSE Done(p)
       ELSE Done(p) /\ UNCHANGED otps
    /\ UNCHANGED <<now, midnight, wrong, accepted, faults>>

\* mutant: otp_expiry() where utc_now() belongs
ExpireChallenge_Later(p) ==
    /\ pc[p] = "expire"
    /\ otps' = IF chal[p] \in Found THEN [otps EXCEPT ![chal[p]].ends = now + Lifetime] ELSE otps
    /\ Done(p)
    /\ UNCHANGED <<now, midnight, wrong, accepted, faults>>

\* expire_challenge: unconditional, even on one that has been consumed
ExpireChallenge(p) ==
    /\ pc[p] = "expire"
    /\ otps' = IF chal[p] \in Found THEN [otps EXCEPT ![chal[p]].ends = now] ELSE otps
    /\ Done(p)
    /\ UNCHANGED <<now, midnight, wrong, accepted, faults>>

\* mutant: the code is accepted and left active
Consume_NoMark(p) ==
    /\ pc[p] = "consume"
    /\ accepted' = [accepted EXCEPT ![chal[p]] = @ + 1]
    /\ Done(p)
    /\ UNCHANGED <<otps, now, midnight, wrong, faults>>

\* consume_challenge: unconditional, and its result is not looked at
Consume(p) ==
    /\ pc[p] = "consume"
    /\ otps' = IF chal[p] \in Found THEN [otps EXCEPT ![chal[p]].used = TRUE] ELSE otps
    /\ accepted' = [accepted EXCEPT ![chal[p]] = @ + 1]
    /\ Done(p)
    /\ UNCHANGED <<now, midnight, wrong, faults>>

----------------------------------------------------------------------------
(* Time, deletion of expired challenges, and restarts                      *)

Tick ==
    /\ now < MaxTime
    /\ now' = now + 1
    /\ midnight' = IF now' = midnight + DayLength THEN now' ELSE midnight
    /\ UNCHANGED <<otps, pc, chal, wrong, accepted, faults>>

\* the TTL monitor or run_cleanup, step 1: delete where expires_at <= now
Prune == \E c \in Found :
    /\ otps[c].ends <= now
    /\ otps' = [otps EXCEPT ![c].exists = FALSE]
    /\ UNCHANGED <<now, midnight, pc, chal, wrong, accepted, faults>>

\* a database call raises, or the process dies
Fail(p) ==
    /\ faults < MaxFaults
    /\ pc[p] # "idle"
    /\ faults' = faults + 1
    /\ Done(p)
    /\ UNCHANGED <<otps, now, midnight, wrong, accepted>>

Step(p) == \/ IssueCount(p) \/ IssueCooldown(p) \/ IssueCreate(p)
           \/ VerifyFind(p) \/ Increment(p) \/ ExpireChallenge(p) \/ Consume(p)

Next == (\E p \in Handlers : Step(p) \/ Fail(p)) \/ Tick \/ Prune

Spec == Init /\ [][Next]_vars

----------------------------------------------------------------------------
Labels == {"idle", "cooldown", "create", "increment", "expire", "consume"}
AttemptsLimit == MaxAttempts - 1 + Cardinality(Handlers)
ChallengeType == [exists : BOOLEAN, attempts : 0 .. AttemptsLimit, used : BOOLEAN,
                  made : Nat, ends : Nat]

TypeOK ==
    /\ otps \in [Challenges -> ChallengeType]
    /\ now \in 1 .. (1 + MaxTime)
    /\ midnight \in Nat
    /\ pc \in [Handlers -> Labels]
    /\ chal \in [Handlers -> Challenges \cup {0}]
    /\ wrong \in [Challenges -> Nat]
    /\ accepted \in [Challenges -> Nat]
    /\ faults \in 0 .. MaxFaults

\* handlers that have compared a wrong code with c and not yet counted it
Uncounted(c) == {p \in Handlers : pc[p] = "increment" /\ chal[p] = c}

\* The budget of wrong codes one challenge really allows: attempts is read
\* when the challenge is found and incremented one database call later, so
\* every other handler in flight, and every handler cut short in between,
\* gets one more guess than otp_max_attempts.
GuessBudget == \A c \in Challenges :
    wrong[c] <= AttemptsLimit + faults

\* One code lets at most one verification per handler through, ever: the
\* handlers that had found the challenge before the first of them consumed it
\* (consume_challenge is unconditional), and none that comes later.
AcceptBudget == \A c \in Challenges : accepted[c] <= Cardinality(Handlers)

\* The daily cap as far as the stored challenges go: the count and the insert
\* are two calls, so every other handler in flight can add one.
CapSlack == Cardinality(CountedToday) <= DailyCap + Cardinality(Handlers) - 1

\* A challenge that is consumed, expired or deleted never becomes active
\* again, whatever stale handlers still write to it (an increment, an expiry
\* and a consumption all go by _id only).
Inert == \A c \in Issued \ Active : c \notin Active'
DeadStaysDead == [][Inert]_vars

\* handlers let on by VerifyFind whose comparison has left no mark on c yet
Comparing(c) == {p \in Handlers : pc[p] \in {"increment", "consume"} /\ chal[p] = c}

\* Wrong codes and acceptances draw on one budget: the attempts counted on a
\* challenge, the verifications it let through and the handlers still about to
\* do either.  So each attempt that racing handlers count beyond the limit is
\* one handler less that can still get the code accepted, and an acceptance
\* is one guess less; a handler cut short gives its place back.
TryBudget == \A c \in Challenges :
    otps[c].attempts + accepted[c] + Cardinality(Comparing(c)) <= AttemptsLimit

----------------------------------------------------------------------------
(* What the documentation claims and the code does not keep                *)

\* At most otp_daily_cap codes are mailed in a day, to one that asks for them
\* one at a time (an expired challenge is deleted, and no longer counted).
DailyCapKept ==
    Cardinality({c \in Issued : otps[c].made >= midnight}) <= DailyCap
============================================================================
