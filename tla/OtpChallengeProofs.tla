------------------------ MODULE OtpChallengeProofs --------------------------
(***************************************************************************)
(* Proofs of the safety properties of OtpChallenge for any number of       *)
(* handlers and any limits.  A stored challenge's wrong codes are counted, *)
(* in a handler's hands, or lost with a handler that was cut short (Ledger)*)
(* and a handler in flight towards an insert has passed the cap (Slots).   *)
(***************************************************************************)
EXTENDS OtpChallenge, FiniteSetTheorems, TLAPS

\* handlers that have passed the daily cap and not yet inserted
Creating == {p \in Handlers : pc[p] \in {"cooldown", "create"}}

Slots == Cardinality(CountedToday) + Cardinality(Creating) <= DailyCap + Cardinality(Handlers) - 1

Ledger(c) ==
    /\ otps[c].attempts + Cardinality(Uncounted(c)) <= AttemptsLimit
    /\ c \in Found => wrong[c] <= otps[c].attempts + Cardinality(Uncounted(c)) + faults
    /\ c \notin Issued => wrong[c] = 0
    /\ wrong[c] <= AttemptsLimit + faults

Inv ==
    /\ TypeOK
    /\ \A p \in Handlers : pc[p] \in {"increment", "expire", "consume"} => chal[p] \in Challenges
    /\ \A c \in Challenges : Ledger(c)
    /\ Slots

----------------------------------------------------------------------------
LEMMA Constants ==
  /\ MaxAttempts \in Nat \ {0} /\ DailyCap \in Nat \ {0} /\ Lifetime \in Nat \ {0}
  /\ DayLength \in Nat \ {0} /\ MaxChallenges \in Nat /\ MaxFaults \in Nat /\ MaxTime \in Nat
  /\ IsFiniteSet(Handlers) /\ Cardinality(Handlers) \in Nat \ {0}
  /\ IsFiniteSet(Challenges)
  /\ AttemptsLimit \in Nat \ {0}
<1>1. IsFiniteSet(Handlers) /\ Cardinality(Handlers) \in Nat \ {0}
  BY ParametersAssumption, FS_CardinalityType, FS_EmptySet
<1>2. IsFiniteSet(Challenges)
  <2>1. 1 \in Int /\ MaxChallenges \in Int
    BY ParametersAssumption
  <2> QED BY <2>1, FS_Interval DEF Challenges
<1> QED BY <1>1, <1>2, ParametersAssumption DEF AttemptsLimit

(* A set of handlers that misses one of them leaves room for that one.     *)
LEMMA Room ==
  ASSUME NEW S \in SUBSET Handlers
  PROVE  /\ IsFiniteSet(S) /\ Cardinality(S) \in Nat /\ Cardinality(S) <= Cardinality(Handlers)
         /\ \A p \in Handlers \ S : /\ Cardinality(S) <= Cardinality(Handlers) - 1
                                    /\ Cardinality(S \cup {p}) = Cardinality(S) + 1
         /\ \A p \in S : /\ Cardinality(S) >= 1
                         /\ Cardinality(S \ {p}) = Cardinality(S) - 1
<1>1. IsFiniteSet(S) /\ Cardinality(S) \in Nat /\ Cardinality(S) <= Cardinality(Handlers)
  BY Constants, FS_Subset, FS_CardinalityType
<1>2. ASSUME NEW p \in Handlers \ S
      PROVE  /\ Cardinality(S) <= Cardinality(Handlers) - 1
             /\ Cardinality(S \cup {p}) = Cardinality(S) + 1
  <2>1. Cardinality(S \cup {p}) = Cardinality(S) + 1
    BY <1>1, <1>2, FS_AddElement
  <2>2. S \cup {p} \in SUBSET Handlers
    OBVIOUS
  <2>3. Cardinality(S \cup {p}) <= Cardinality(Handlers)
    BY <2>2, Constants, FS_Subset
  <2> QED BY <1>1, <2>1, <2>3, Constants
<1>3. ASSUME NEW p \in S
      PROVE  /\ Cardinality(S) >= 1
             /\ Cardinality(S \ {p}) = Cardinality(S) - 1
  <2>1. Cardinality(S \ {p}) = Cardinality(S) - 1 /\ IsFiniteSet(S \ {p})
    BY <1>1, <1>3, FS_RemoveElement
  <2>2. Cardinality(S \ {p}) \in Nat
    BY <2>1, FS_CardinalityType
  <2> QED BY <1>1, <2>1, <2>2
<1> QED BY <1>1, <1>2, <1>3

(* A set of challenges has a size, and a larger one is at least as large.  *)
LEMMA Sizes ==
  ASSUME NEW S \in SUBSET Challenges, NEW T \in SUBSET Challenges
  PROVE  /\ Cardinality(S) \in Nat
         /\ S \subseteq T => Cardinality(S) <= Cardinality(T)
         /\ \A c : S \subseteq T \cup {c} => Cardinality(S) <= Cardinality(T) + 1
<1>1. IsFiniteSet(S) /\ IsFiniteSet(T) /\ Cardinality(S) \in Nat /\ Cardinality(T) \in Nat
  BY Constants, FS_Subset, FS_CardinalityType
<1>2. S \subseteq T => Cardinality(S) <= Cardinality(T)
  BY <1>1, FS_Subset
<1>3. ASSUME NEW c, S \subseteq T \cup {c} PROVE Cardinality(S) <= Cardinality(T) + 1
  <2>1. IsFiniteSet(T \cup {c}) /\ Cardinality(T \cup {c}) <= Cardinality(T) + 1
    <3>1. /\ IsFiniteSet(T \cup {c})
          /\ Cardinality(T \cup {c}) = IF c \in T THEN Cardinality(T) ELSE Cardinality(T) + 1
      BY <1>1, FS_AddElement
    <3> QED BY <1>1, <3>1
  <2>2. Cardinality(T \cup {c}) \in Nat /\ Cardinality(S) <= Cardinality(T \cup {c})
    BY <1>3, <2>1, FS_Subset, FS_CardinalityType
  <2> QED BY <1>1, <2>1, <2>2
<1> QED BY <1>1, <1>2, <1>3

LEMMA SetTypes ==
  /\ CountedToday \in SUBSET Challenges /\ Creating \in SUBSET Handlers
  /\ \A c : Uncounted(c) \in SUBSET Handlers
  BY DEF CountedToday, Found, Creating, Uncounted

(* The handlers that are neither counting a wrong code nor creating a      *)
(* challenge may come and go without changing the two sets.                *)
LEMMA Bystanders ==
  ASSUME TypeOK, NEW p \in Handlers, NEW to, Goto(p, to),
         chal' = chal \/ (\E x : chal' = [chal EXCEPT ![p] = x])
  PROVE  /\ (pc[p] # "increment" /\ to # "increment") =>
              \A c \in Challenges : Uncounted(c)' = Uncounted(c)
         /\ Creating' = IF to \in {"cooldown", "create"} THEN Creating \cup {p} ELSE Creating \ {p}
         /\ pc'[p] = to /\ \A q \in Handlers \ {p} : pc'[q] = pc[q] /\ chal'[q] = chal[q]
<1>1. pc'[p] = to /\ \A q \in Handlers \ {p} : pc'[q] = pc[q] /\ chal'[q] = chal[q]
  BY DEF TypeOK, Goto
<1>2. (pc[p] # "increment" /\ to # "increment") => \A c \in Challenges : Uncounted(c)' = Uncounted(c)
  BY <1>1 DEF Uncounted
<1>3. Creating' = IF to \in {"cooldown", "create"} THEN Creating \cup {p} ELSE Creating \ {p}
  BY <1>1 DEF Creating
<1> QED BY <1>1, <1>2, <1>3

(* What keeps Ledger when neither wrong codes nor handlers counting them   *)
(* change: attempts stay, and no challenge comes back from the deleted.    *)
LEMMA LedgerKept ==
  ASSUME NEW c \in Challenges, Ledger(c), Uncounted(c)' = Uncounted(c), wrong'[c] = wrong[c],
         faults' = faults, otps'[c].attempts = otps[c].attempts,
         c \in Found' => c \in Found, c \in Issued => c \in Issued'
  PROVE  Ledger(c)'
  BY DEF Ledger

LEMMA InvInit == Init => Inv
<1> SUFFICES ASSUME Init PROVE Inv
  OBVIOUS
<1>1. TypeOK
  BY Constants DEF Init, TypeOK, NoChallenge, ChallengeType, Labels
<1>2. CountedToday = {} /\ Creating = {} /\ \A c : Uncounted(c) = {}
  BY DEF Init, CountedToday, Found, NoChallenge, Creating, Uncounted
<1>3. Cardinality({}) = 0
  BY FS_EmptySet
<1>4. \A c \in Challenges : Ledger(c)
  BY <1>2, <1>3, Constants DEF Init, Ledger, Found, NoChallenge
<1>5. Slots
  BY <1>2, <1>3, Constants DEF Slots
<1> QED BY <1>1, <1>4, <1>5 DEF Inv, Init

----------------------------------------------------------------------------
LEMMA IssueKeeps ==
  ASSUME Inv, NEW p \in Handlers, IssueCount(p) \/ IssueCooldown(p) \/ IssueCreate(p)
  PROVE  Inv'
<1> USE DEF Inv
<1>0. /\ Cardinality(CountedToday) \in Nat /\ Cardinality(Creating) \in Nat
      /\ Cardinality(Handlers) \in Nat \ {0} /\ DailyCap \in Nat \ {0}
  BY Constants, SetTypes, Sizes, Room
<1>1. CASE IssueCount(p)
  <2>1. PICK to : Goto(p, to) /\ to = "cooldown"
    BY <1>1 DEF IssueCount
  <2>2. Creating' = Creating \cup {p} /\ \A c \in Challenges : Uncounted(c)' = Uncounted(c)
    BY <1>1, <2>1, Bystanders DEF IssueCount
  <2>3. TypeOK'
    BY <1>1 DEF IssueCount, Goto, TypeOK, Labels
  <2>4. CountedToday' = CountedToday /\ Found' = Found /\ Issued' = Issued
    BY <1>1 DEF IssueCount, CountedToday, Found, Issued
  <2>5. \A c \in Challenges : Ledger(c)'
    BY <1>1, <2>2, <2>4, LedgerKept DEF IssueCount
  <2>6. Cardinality(Creating) <= Cardinality(Handlers) - 1 /\ Cardinality(Creating \cup {p}) = Cardinality(Creating) + 1
    BY <1>1, Room, SetTypes DEF IssueCount, Creating
  <2>7. Slots'
    BY <1>0, <1>1, <2>2, <2>4, <2>6 DEF Slots, IssueCount
  <2> QED BY <1>1, <2>1, <2>3, <2>5, <2>7, Bystanders DEF IssueCount
<1>2. CASE IssueCooldown(p)
  <2>1. PICK to \in {"idle", "create"} : Goto(p, to)
    BY <1>2 DEF IssueCooldown
  <2>2. Creating' \in {Creating, Creating \ {p}} /\ \A c \in Challenges : Uncounted(c)' = Uncounted(c)
    BY <1>2, <2>1, Bystanders DEF IssueCooldown, Creating
  <2>3. TypeOK'
    BY <1>2, <2>1 DEF IssueCooldown, Goto, TypeOK, Labels
  <2>4. CountedToday' = CountedToday /\ Found' = Found /\ Issued' = Issued
    BY <1>2 DEF IssueCooldown, CountedToday, Found, Issued
  <2>5. \A c \in Challenges : Ledger(c)'
    BY <1>2, <2>2, <2>4, LedgerKept DEF IssueCooldown
  <2>6. Cardinality(Creating') <= Cardinality(Creating) /\ Cardinality(Creating') \in Nat
    <3>1. p \in Creating
      BY <1>2 DEF IssueCooldown, Creating
    <3> QED BY <1>0, <2>2, <3>1, Room, SetTypes
  <2>7. Slots'
    BY <1>0, <2>4, <2>6 DEF Slots
  <2> QED BY <1>2, <2>1, <2>3, <2>5, <2>7, Bystanders DEF IssueCooldown
<1>3. CASE IssueCreate(p)
  <2>1. PICK c \in Challenges \ Issued : IssueCreate(p)!(c)
    BY <1>3 DEF IssueCreate
  <2>2. Creating' = Creating \ {p} /\ \A x \in Challenges : Uncounted(x)' = Uncounted(x)
    <3>1. /\ Goto(p, "idle") /\ pc[p] = "create"
          /\ chal' = chal \/ (\E x : chal' = [chal EXCEPT ![p] = x])
      BY <2>1 DEF Done
    <3> QED BY <3>1, Bystanders
  <2>3. TypeOK'
    <3>1. [exists |-> TRUE, attempts |-> 0, used |-> FALSE, made |-> now, ends |-> now + Lifetime] \in ChallengeType
      BY Constants DEF ChallengeType, TypeOK
    <3> QED BY <2>1, <3>1 DEF Done, Goto, TypeOK, Labels
  <2>4. \A x \in Challenges \ {c} : otps'[x] = otps[x]
    BY <2>1 DEF TypeOK
  <2>5. otps'[c].attempts = 0 /\ otps'[c].ends # 0
    BY <2>1, Constants DEF TypeOK
  <2>6. \A x \in Challenges : Ledger(x)'
    <3>1. Ledger(c)'
      <4>1. Cardinality(Uncounted(c)) \in Nat /\ faults \in Nat /\ AttemptsLimit \in Nat
            /\ otps[c].attempts \in Nat
        BY Constants, SetTypes, Room DEF TypeOK, ChallengeType
      <4>2. Ledger(c) /\ c \notin Issued /\ c \in Issued'
        BY <2>1, <2>5 DEF Issued
      <4>3. /\ wrong'[c] = wrong[c] /\ faults' = faults /\ Uncounted(c)' = Uncounted(c)
            /\ otps'[c].attempts = 0
        BY <2>1, <2>2, <2>5
      <4> QED BY <4>1, <4>2, <4>3 DEF Ledger
    <3>2. ASSUME NEW x \in Challenges \ {c} PROVE Ledger(x)'
      BY <2>1, <2>2, <2>4, LedgerKept DEF Found, Issued
    <3> QED BY <3>1, <3>2
  <2>7. CountedToday' \subseteq CountedToday \cup {c}
    BY <2>1, <2>4 DEF CountedToday, Found
  <2>8. Cardinality(CountedToday') <= Cardinality(CountedToday) + 1 /\ Cardinality(CountedToday') \in Nat
    <3>1. CountedToday' \in SUBSET Challenges
      BY DEF CountedToday, Found
    <3> QED BY <2>7, <3>1, Sizes, SetTypes
  <2>9. Cardinality(Creating \ {p}) = Cardinality(Creating) - 1
    BY <2>1, Room, SetTypes DEF Creating
  <2>10. Slots'
    BY <1>0, <2>2, <2>8, <2>9 DEF Slots
  <2> QED BY <2>1, <2>3, <2>6, <2>10, Bystanders DEF Done
<1> QED BY <1>1, <1>2, <1>3

(* A step that creates no challenge and lets nobody past the cap.          *)
LEMMA SlotsKept ==
  ASSUME Slots, CountedToday' \subseteq CountedToday, Creating' \subseteq Creating
  PROVE  Slots'
<1>1. /\ CountedToday \in SUBSET Challenges /\ CountedToday' \in SUBSET Challenges
      /\ Creating \in SUBSET Handlers /\ Creating' \in SUBSET Handlers
  BY SetTypes
<1>2. /\ Cardinality(CountedToday') <= Cardinality(CountedToday)
      /\ Cardinality(CountedToday) \in Nat /\ Cardinality(CountedToday') \in Nat
  BY <1>1, Sizes
<1>3. /\ Cardinality(Creating') <= Cardinality(Creating)
      /\ Cardinality(Creating) \in Nat /\ Cardinality(Creating') \in Nat
  BY <1>1, Room, FS_Subset
<1> QED BY <1>2, <1>3, Constants DEF Slots

LEMMA VerifyFindKeeps ==
  ASSUME Inv, NEW p \in Handlers, VerifyFind(p)
  PROVE  Inv'
<1> USE DEF Inv
<1>1. PICK c \in Newest(Active) : VerifyFind(p)!(c)
  BY DEF VerifyFind
<1>2. c \in Challenges /\ c \in Found /\ c \in Issued
  BY DEF Newest, Active, Found, Issued, TypeOK
<1>3. PICK to \in {"expire", "consume", "increment"} :
        /\ Goto(p, to)
        /\ to = "increment" => otps[c].attempts < MaxAttempts /\ wrong' = [wrong EXCEPT ![c] = @ + 1]
        /\ to # "increment" => wrong' = wrong
  BY <1>1
<1>4. pc[p] = "idle" /\ chal' = [chal EXCEPT ![p] = c] /\ pc'[p] = to /\ chal'[p] = c
      /\ \A q \in Handlers \ {p} : pc'[q] = pc[q] /\ chal'[q] = chal[q]
  BY <1>1, <1>3, Bystanders DEF TypeOK
<1>5. TypeOK'
  BY <1>1, <1>2, <1>3 DEF TypeOK, Goto, Labels
<1>6. Slots'
  <2>1. CountedToday' = CountedToday
    BY <1>1 DEF CountedToday, Found
  <2>2. Creating' \subseteq Creating
    BY <1>3, <1>4 DEF Creating
  <2> QED BY <2>1, <2>2, SlotsKept
<1>7. Found' = Found /\ Issued' = Issued
  BY <1>1 DEF Found, Issued
<1>8. ASSUME NEW x \in Challenges PROVE Ledger(x)'
  <2>1. CASE to = "increment" /\ x = c
    <3>1. Uncounted(c)' = Uncounted(c) \cup {p} /\ p \notin Uncounted(c)
      BY <1>4, <2>1 DEF Uncounted
    <3>2. /\ Cardinality(Uncounted(c)) <= Cardinality(Handlers) - 1
          /\ Cardinality(Uncounted(c) \cup {p}) = Cardinality(Uncounted(c)) + 1
          /\ Cardinality(Uncounted(c)) \in Nat
      BY <3>1, Room, SetTypes
    <3>3. wrong'[c] = wrong[c] + 1 /\ otps' = otps /\ faults' = faults
      BY <1>1, <1>2, <1>3, <2>1 DEF TypeOK
    <3>4. wrong[c] <= otps[c].attempts + Cardinality(Uncounted(c)) + faults
      BY <1>2 DEF Ledger
    <3>5. /\ otps[c].attempts \in Nat /\ otps[c].attempts <= MaxAttempts - 1 /\ MaxAttempts \in Nat
          /\ wrong[c] \in Nat /\ faults \in Nat /\ Cardinality(Handlers) \in Nat
      BY <1>2, <1>3, <2>1, Constants DEF TypeOK, ChallengeType
    <3>6. /\ otps'[c].attempts + Cardinality(Uncounted(c)') <= AttemptsLimit
          /\ wrong'[c] <= otps'[c].attempts + Cardinality(Uncounted(c)') + faults'
          /\ wrong'[c] <= AttemptsLimit + faults'
      BY <3>1, <3>2, <3>3, <3>4, <3>5 DEF AttemptsLimit
    <3> QED BY <1>2, <1>7, <2>1, <3>6 DEF Ledger
  <2>2. CASE to # "increment" \/ x # c
    <3>1. Uncounted(x)' = Uncounted(x)
      BY <1>4, <2>2 DEF Uncounted
    <3>2. wrong'[x] = wrong[x]
      BY <1>2, <1>3, <2>2 DEF TypeOK
    <3> QED BY <1>1, <1>7, <3>1, <3>2, LedgerKept
  <2> QED BY <2>1, <2>2
<1> QED BY <1>2, <1>4, <1>5, <1>6, <1>8

(* Expiring, consuming and deleting: no attempt, no wrong code, no place.  *)
LEMMA EndingKeeps ==
  ASSUME Inv, TypeOK',
         \A c \in Challenges : /\ otps'[c].attempts = otps[c].attempts
                               /\ otps'[c].made = otps[c].made
                               /\ otps'[c].exists => otps[c].exists
                               /\ otps[c].ends # 0 => otps'[c].ends # 0,
         midnight' >= midnight, wrong' = wrong, faults' = faults,
         \A c \in Challenges : Uncounted(c)' = Uncounted(c),
         Creating' \subseteq Creating,
         \A q \in Handlers : pc'[q] \in {"increment", "expire", "consume"} =>
                               pc'[q] = pc[q] /\ chal'[q] = chal[q]
  PROVE  Inv'
<1> USE DEF Inv
<1>1. CountedToday' \subseteq CountedToday
  BY DEF CountedToday, Found, TypeOK, ChallengeType
<1>2. \A c \in Challenges : Ledger(c)'
  BY LedgerKept DEF Found, Issued
<1> QED BY <1>1, <1>2, SlotsKept

LEMMA IncrementKeeps ==
  ASSUME Inv, NEW p \in Handlers, Increment(p)
  PROVE  Inv'
<1> USE DEF Inv
<1>1. PICK c \in Challenges : c = chal[p] /\ pc[p] = "increment"
  BY DEF Increment
<1>2. PICK to \in {"expire", "idle"} : Goto(p, to) /\ (to = "expire" => UNCHANGED chal)
  BY DEF Increment, Done
<1>3. chal' = chal \/ chal' = [chal EXCEPT ![p] = 0]
  BY DEF Increment, Done
<1>4. pc'[p] = to /\ \A q \in Handlers \ {p} : pc'[q] = pc[q] /\ chal'[q] = chal[q]
  BY <1>2, <1>3, Bystanders
<1>5. Uncounted(c)' = Uncounted(c) \ {p} /\ p \in Uncounted(c)
  BY <1>1, <1>4 DEF Uncounted
<1>6. \A x \in Challenges \ {c} : Uncounted(x)' = Uncounted(x)
  BY <1>1, <1>4 DEF Uncounted
<1>7. /\ Cardinality(Uncounted(c)) >= 1 /\ Cardinality(Uncounted(c)) \in Nat
      /\ Cardinality(Uncounted(c)') = Cardinality(Uncounted(c)) - 1
  BY <1>5, Room, SetTypes
<1>8. \/ c \in Found /\ otps' = [otps EXCEPT ![c].attempts = otps[c].attempts + 1]
      \/ c \notin Found /\ otps' = otps
  BY <1>1 DEF Increment
<1>9. otps[c].attempts \in Nat /\ faults \in Nat /\ wrong[c] \in Nat /\ AttemptsLimit \in Nat
  BY Constants DEF TypeOK, ChallengeType
<1>10. otps[c].attempts + 1 \in 0 .. AttemptsLimit
  BY <1>7, <1>9 DEF Ledger
<1>11. otps' \in [Challenges -> ChallengeType]
  BY <1>8, <1>10 DEF TypeOK, ChallengeType
<1>12. /\ \A x \in Challenges : /\ otps'[x].exists = otps[x].exists /\ otps'[x].made = otps[x].made
                                /\ otps'[x].ends = otps[x].ends
       /\ \A x \in Challenges \ {c} : otps'[x].attempts = otps[x].attempts
       /\ otps'[c].attempts = IF c \in Found THEN otps[c].attempts + 1 ELSE otps[c].attempts
  BY <1>8 DEF TypeOK, ChallengeType
<1>13. TypeOK'
  BY <1>2, <1>3, <1>11 DEF Increment, TypeOK, Goto, Labels
<1>14. Slots'
  <2>1. CountedToday' = CountedToday
    BY <1>12 DEF Increment, CountedToday, Found
  <2>2. Creating' \subseteq Creating
    BY <1>4 DEF Creating
  <2> QED BY <2>1, <2>2, SlotsKept
<1>15. Ledger(c)'
  <2>1. wrong' = wrong /\ faults' = faults /\ (c \in Found' => c \in Found)
        /\ (c \in Issued => c \in Issued') /\ Ledger(c)
    BY <1>12 DEF Increment, Found, Issued
  <2> QED BY <2>1, <1>7, <1>9, <1>12 DEF Ledger
<1>16. ASSUME NEW x \in Challenges \ {c} PROVE Ledger(x)'
  BY <1>6, <1>12, LedgerKept DEF Increment, Found, Issued
<1> QED BY <1>1, <1>2, <1>3, <1>4, <1>13, <1>14, <1>15, <1>16

LEMMA FailKeeps ==
  ASSUME Inv, NEW p \in Handlers, Fail(p)
  PROVE  Inv'
<1> USE DEF Inv
<1>1. Goto(p, "idle") /\ (\E x : chal' = [chal EXCEPT ![p] = x])
  BY DEF Fail, Done
<1>2. pc'[p] = "idle" /\ \A q \in Handlers \ {p} : pc'[q] = pc[q] /\ chal'[q] = chal[q]
  BY <1>1, Bystanders
<1>3. TypeOK'
  BY Constants DEF Fail, Done, Goto, TypeOK, Labels
<1>4. Slots'
  <2>1. CountedToday' = CountedToday
    BY DEF Fail, CountedToday, Found
  <2>2. Creating' \subseteq Creating
    BY <1>2 DEF Creating
  <2> QED BY <2>1, <2>2, SlotsKept
<1>5. ASSUME NEW c \in Challenges PROVE Ledger(c)'
  <2>1. Uncounted(c)' = Uncounted(c) \ {p}
    BY <1>2 DEF Uncounted
  <2>2. /\ Cardinality(Uncounted(c)') \in Nat /\ Cardinality(Uncounted(c)) \in Nat
        /\ Cardinality(Uncounted(c)') \in {Cardinality(Uncounted(c)), Cardinality(Uncounted(c)) - 1}
    <3>1. CASE p \in Uncounted(c)
      BY <2>1, <3>1, Room, SetTypes
    <3>2. CASE p \notin Uncounted(c)
      <4>1. Uncounted(c)' = Uncounted(c)
        BY <2>1, <3>2
      <4> QED BY <4>1, Room, SetTypes
    <3> QED BY <3>1, <3>2
  <2>3. otps' = otps /\ wrong' = wrong /\ faults' = faults + 1 /\ faults \in Nat
    BY Constants DEF Fail, TypeOK
  <2>4. otps[c].attempts \in Nat /\ wrong[c] \in Nat /\ AttemptsLimit \in Nat /\ Ledger(c)
        /\ Found' = Found /\ Issued' = Issued
    BY <2>3, Constants DEF TypeOK, ChallengeType, Found, Issued
  <2> QED BY <2>2, <2>3, <2>4 DEF Ledger
<1> QED BY <1>1, <1>2, <1>3, <1>4, <1>5

LEMMA InvNext == Inv /\ [Next]_vars => Inv'
<1> SUFFICES ASSUME Inv, [Next]_vars PROVE Inv'
  OBVIOUS
<1> USE DEF Inv
<1>1. ASSUME NEW p \in Handlers, ExpireChallenge(p) \/ Consume(p) PROVE Inv'
  <2>1. Goto(p, "idle") /\ (\E x : chal' = [chal EXCEPT ![p] = x]) /\ pc[p] \in {"expire", "consume"}
        /\ UNCHANGED <<now, midnight, wrong, faults>>
    BY <1>1 DEF ExpireChallenge, Consume, Done
  <2>2. /\ pc'[p] = "idle" /\ \A q \in Handlers \ {p} : pc'[q] = pc[q] /\ chal'[q] = chal[q]
        /\ \A c \in Challenges : Uncounted(c)' = Uncounted(c)
    BY <2>1, Bystanders
  <2>3. Creating' \subseteq Creating
    BY <2>2 DEF Creating
  <2>4. PICK c \in Challenges : \/ otps' = otps
                                \/ otps' = [otps EXCEPT ![c].ends = now]
                                \/ otps' = [otps EXCEPT ![c].used = TRUE]
    BY <1>1 DEF ExpireChallenge, Consume
  <2>5. /\ otps' \in [Challenges -> ChallengeType]
        /\ \A x \in Challenges : /\ otps'[x].attempts = otps[x].attempts
                                 /\ otps'[x].made = otps[x].made
                                 /\ otps'[x].exists = otps[x].exists
                                 /\ otps[x].ends # 0 => otps'[x].ends # 0
    <3>1. CASE otps' = otps
      BY <3>1 DEF TypeOK
    <3>2. CASE otps' = [otps EXCEPT ![c].ends = now]
      BY <3>2 DEF TypeOK, ChallengeType
    <3>3. CASE otps' = [otps EXCEPT ![c].used = TRUE]
      BY <3>3 DEF TypeOK, ChallengeType
    <3> QED BY <2>4, <3>1, <3>2, <3>3
  <2>6. TypeOK'
    BY <1>1, <2>1, <2>5 DEF ExpireChallenge, Consume, Done, Goto, TypeOK, Labels
  <2> QED BY <2>1, <2>2, <2>3, <2>5, <2>6, EndingKeeps DEF TypeOK
<1>2. CASE Tick
  <2>1. TypeOK' /\ midnight' >= midnight
    BY <1>2, Constants DEF Tick, TypeOK
  <2>2. Creating' = Creating /\ \A c \in Challenges : Uncounted(c)' = Uncounted(c)
    BY <1>2 DEF Tick, Creating, Uncounted
  <2> QED BY <1>2, <2>1, <2>2, EndingKeeps DEF Tick
<1>3. CASE Prune
  <2>1. PICK c \in Found : otps' = [otps EXCEPT ![c].exists = FALSE]
    BY <1>3 DEF Prune
  <2>2. /\ otps' \in [Challenges -> ChallengeType]
        /\ \A x \in Challenges : /\ otps'[x].attempts = otps[x].attempts
                                 /\ otps'[x].made = otps[x].made
                                 /\ otps'[x].exists => otps[x].exists
                                 /\ otps[x].ends # 0 => otps'[x].ends # 0
    BY <2>1 DEF TypeOK, ChallengeType, Found
  <2>3. TypeOK'
    BY <1>3, <2>2 DEF Prune, TypeOK
  <2>4. Creating' = Creating /\ \A x \in Challenges : Uncounted(x)' = Uncounted(x)
    BY <1>3 DEF Prune, Creating, Uncounted
  <2> QED BY <1>3, <2>2, <2>3, <2>4, EndingKeeps DEF Prune, TypeOK
<1>4. CASE UNCHANGED vars
  <2>1. TypeOK' /\ midnight' >= midnight
    BY <1>4 DEF vars, TypeOK
  <2>2. Creating' = Creating /\ \A c \in Challenges : Uncounted(c)' = Uncounted(c)
    BY <1>4 DEF vars, Creating, Uncounted
  <2> QED BY <1>4, <2>1, <2>2, EndingKeeps DEF vars
<1> QED BY <1>1, <1>2, <1>3, <1>4, IssueKeeps, VerifyFindKeeps, IncrementKeeps, FailKeeps
        DEF Next, Step

LEMMA Invariance == Spec => []Inv
  BY InvInit, InvNext, PTL DEF Spec

----------------------------------------------------------------------------
(* The theorems                                                            *)

(* Challenges, counters and handlers keep their types, and the stored      *)
(* attempts of a challenge stay within what the handlers can overshoot.    *)
THEOREM TypeCorrect == Spec => []TypeOK
  BY Invariance, PTL DEF Inv

(* However many requests race, and whichever are cut short, one challenge  *)
(* never has more wrong codes compared with it than its real budget.       *)
THEOREM GuessBudgetCorrect == Spec => []GuessBudget
<1>1. Inv => GuessBudget
  BY DEF Inv, Ledger, GuessBudget
<1> QED BY <1>1, Invariance, PTL

(* The stored challenges of a day exceed the daily cap by at most the      *)
(* number of handlers that can overtake each other.                        *)
THEOREM CapSlackCorrect == Spec => []CapSlack
<1>1. Inv => CapSlack
  <2> SUFFICES ASSUME Inv PROVE CapSlack
    OBVIOUS
  <2>1. Cardinality(CountedToday) \in Nat /\ Cardinality(Creating) \in Nat
    BY SetTypes, Sizes, Room
  <2> QED BY <2>1, Constants DEF Inv, Slots, CapSlack
<1> QED BY <1>1, Invariance, PTL

(* A challenge that is issued stays so, and one that is not active never   *)
(* comes back.                                                             *)
LEMMA InertStep == Inv /\ [Next]_vars => Inert
<1> SUFFICES ASSUME Inv, [Next]_vars PROVE Inert
  OBVIOUS
<1> DEFINE Dead(c) == ~otps[c].exists \/ otps[c].used \/ ~(otps[c].ends > now)
<1> SUFFICES ASSUME NEW c \in Challenges, c \in Issued, Dead(c) PROVE Dead(c)'
  BY DEF Inert, Issued, Active, Found
<1> USE DEF Inv, TypeOK, ChallengeType
<1>1. ASSUME NEW p \in Handlers, IssueCount(p) \/ IssueCooldown(p) \/ VerifyFind(p) \/ Fail(p)
      PROVE  Dead(c)'
  BY <1>1 DEF IssueCount, IssueCooldown, VerifyFind, Fail
<1>2. ASSUME NEW p \in Handlers, IssueCreate(p) PROVE Dead(c)'
  <2>1. otps'[c] = otps[c] /\ now' = now
    BY <1>2 DEF IssueCreate
  <2> QED BY <2>1
<1>3. ASSUME NEW p \in Handlers, Increment(p) PROVE Dead(c)'
  BY <1>3 DEF Increment
<1>4. ASSUME NEW p \in Handlers, ExpireChallenge(p) PROVE Dead(c)'
  BY <1>4 DEF ExpireChallenge
<1>5. ASSUME NEW p \in Handlers, Consume(p) PROVE Dead(c)'
  BY <1>5 DEF Consume
<1>6. CASE Tick
  BY <1>6 DEF Tick
<1>7. CASE Prune
  BY <1>7 DEF Prune
<1>8. CASE UNCHANGED vars
  BY <1>8 DEF vars
<1> HIDE DEF Dead, Inv
<1> QED BY <1>1, <1>2, <1>3, <1>4, <1>5, <1>6, <1>7, <1>8 DEF Next, Step

LEMMA StillIssued == Inv /\ [Next]_vars => Issued \subseteq Issued'
<1> SUFFICES ASSUME Inv, [Next]_vars, NEW c \in Challenges, otps[c].ends # 0
             PROVE  otps'[c].ends # 0
  BY DEF Issued
<1> USE DEF Inv, TypeOK, ChallengeType
<1>1. ASSUME NEW p \in Handlers, IssueCount(p) \/ IssueCooldown(p) \/ VerifyFind(p) \/ Fail(p)
      PROVE  otps'[c].ends # 0
  BY <1>1 DEF IssueCount, IssueCooldown, VerifyFind, Fail
<1>2. ASSUME NEW p \in Handlers, IssueCreate(p) PROVE otps'[c].ends # 0
  BY <1>2 DEF IssueCreate, Issued
<1>3. ASSUME NEW p \in Handlers, Increment(p) PROVE otps'[c].ends # 0
  BY <1>3 DEF Increment
<1>4. ASSUME NEW p \in Handlers, ExpireChallenge(p) PROVE otps'[c].ends # 0
  BY <1>4 DEF ExpireChallenge
<1>5. ASSUME NEW p \in Handlers, Consume(p) PROVE otps'[c].ends # 0
  BY <1>5 DEF Consume
<1>6. CASE Tick \/ UNCHANGED vars
  BY <1>6 DEF Tick, vars
<1>7. CASE Prune
  BY <1>7 DEF Prune
<1> HIDE DEF Inv
<1> QED BY <1>1, <1>2, <1>3, <1>4, <1>5, <1>6, <1>7 DEF Next, Step

(* A challenge that is no longer active stays so through every later write *)
(* of a stale handler, the passing of time and the deletion of documents.  *)
THEOREM DeadStaysDeadCorrect == Spec => DeadStaysDead
  BY InertStep, Invariance, PTL DEF Spec, DeadStaysDead

----------------------------------------------------------------------------
(* How often one code is accepted: once it has been, its challenge is dead *)
(* and only the handlers that had found it before can accept it again.     *)
Accepting(c) == {p \in Handlers : pc[p] = "consume" /\ chal[p] = c}

Admitted ==
    /\ \A p \in Handlers : pc[p] = "consume" => chal[p] \in Issued
    /\ \A c \in Challenges :
          /\ accepted[c] > 0 => c \in Issued \ Active
          /\ accepted[c] + Cardinality(Accepting(c)) <= Cardinality(Handlers)

LEMMA AdmittedInit == Init => Admitted
<1> SUFFICES ASSUME Init PROVE Admitted
  OBVIOUS
<1>1. \A c \in Challenges : Accepting(c) = {}
  BY DEF Init, Accepting
<1>2. Cardinality({}) = 0
  BY FS_EmptySet
<1> QED BY <1>1, <1>2, Constants DEF Init, Admitted

(* A step that accepts nothing and lets nobody on to accept.               *)
LEMMA AdmittedKept ==
  ASSUME Inv, [Next]_vars, Admitted, accepted' = accepted,
         \A c \in Challenges : Accepting(c)' \subseteq Accepting(c),
         \A p \in Handlers : pc'[p] = "consume" => pc[p] = "consume" /\ chal'[p] = chal[p]
  PROVE  Admitted'
<1>1. Issued \subseteq Issued' /\ Inert
  BY InertStep, StillIssued
<1>2. ASSUME NEW c \in Challenges
      PROVE  accepted'[c] + Cardinality(Accepting(c)') <= Cardinality(Handlers)
  <2>1. Accepting(c) \in SUBSET Handlers /\ Accepting(c)' \in SUBSET Handlers
    BY DEF Accepting
  <2>2. /\ Cardinality(Accepting(c)') <= Cardinality(Accepting(c))
        /\ Cardinality(Accepting(c)) \in Nat /\ Cardinality(Accepting(c)') \in Nat
    BY <2>1, Room, FS_Subset
  <2> QED BY <2>2, Constants DEF Admitted, Inv, TypeOK
<1> QED BY <1>1, <1>2 DEF Admitted, Inert

LEMMA AdmittedNext == Inv /\ Admitted /\ [Next]_vars => Admitted'
<1> SUFFICES ASSUME Inv, Admitted, [Next]_vars PROVE Admitted'
  OBVIOUS
<1>1. Issued \subseteq Issued' /\ Inert
  BY InertStep, StillIssued
<1>2. ASSUME NEW p \in Handlers, VerifyFind(p) PROVE Admitted'
  <2>1. PICK c \in Newest(Active) : VerifyFind(p)!(c)
    BY <1>2 DEF VerifyFind
  <2>2. c \in Challenges /\ c \in Issued /\ c \in Active
    BY DEF Newest, Active, Found, Issued, Inv, TypeOK
  <2>3. /\ pc[p] = "idle" /\ chal'[p] = c /\ accepted' = accepted
        /\ \A q \in Handlers \ {p} : pc'[q] = pc[q] /\ chal'[q] = chal[q]
    BY <2>1 DEF Goto, Inv, TypeOK
  <2>4. ASSUME NEW x \in Challenges \ {c} PROVE Accepting(x)' = Accepting(x)
    BY <2>3 DEF Accepting
  <2>5. accepted[c] = 0
    BY <2>2 DEF Admitted, Inv, TypeOK
  <2>6. accepted'[c] + Cardinality(Accepting(c)') <= Cardinality(Handlers)
    <3>1. Accepting(c)' \in SUBSET Handlers
      BY DEF Accepting
    <3> QED BY <2>3, <2>5, <3>1, Room
  <2> QED BY <1>1, <2>2, <2>3, <2>4, <2>6 DEF Admitted, Inert
<1>3. ASSUME NEW p \in Handlers, Consume(p) PROVE Admitted'
  <2>1. PICK c \in Challenges : c = chal[p] /\ pc[p] = "consume"
    BY <1>3 DEF Consume, Inv
  <2>2. /\ pc'[p] = "idle" /\ accepted'[c] = accepted[c] + 1
        /\ \A x \in Challenges \ {c} : accepted'[x] = accepted[x]
        /\ \A q \in Handlers \ {p} : pc'[q] = pc[q] /\ chal'[q] = chal[q]
    BY <1>3, <2>1 DEF Consume, Done, Goto, Inv, TypeOK
  <2>3. Accepting(c)' = Accepting(c) \ {p} /\ p \in Accepting(c)
        /\ \A x \in Challenges \ {c} : Accepting(x)' = Accepting(x)
    BY <2>1, <2>2 DEF Accepting
  <2>4. accepted'[c] + Cardinality(Accepting(c)') <= Cardinality(Handlers)
    <3>1. Accepting(c) \in SUBSET Handlers
      BY DEF Accepting
    <3>2. /\ Cardinality(Accepting(c) \ {p}) = Cardinality(Accepting(c)) - 1
          /\ Cardinality(Accepting(c)) \in Nat
      BY <2>3, <3>1, Room
    <3> QED BY <2>2, <2>3, <3>2, Constants DEF Admitted, Inv, TypeOK
  <2>5. c \in Issued' /\ c \notin Active'
    <3>1. c \in Issued'
      BY <1>1, <2>1 DEF Admitted
    <3>2. c \notin Active'
      BY <1>3, <2>1 DEF Consume, Active, Found, Inv, TypeOK, ChallengeType
    <3> QED BY <3>1, <3>2
  <2> QED BY <1>1, <2>1, <2>2, <2>3, <2>4, <2>5 DEF Admitted, Inert
<1>4. ASSUME NEW p \in Handlers,
             \/ IssueCount(p) \/ IssueCooldown(p) \/ IssueCreate(p)
             \/ Increment(p) \/ ExpireChallenge(p) \/ Fail(p)
      PROVE  Admitted'
  <2>1. /\ accepted' = accepted /\ pc'[p] # "consume"
        /\ \A q \in Handlers \ {p} : pc'[q] = pc[q] /\ chal'[q] = chal[q]
    BY <1>4 DEF IssueCount, IssueCooldown, IssueCreate, Increment, ExpireChallenge, Fail,
                Done, Goto, Inv, TypeOK
  <2>2. \A c \in Challenges : Accepting(c)' \subseteq Accepting(c)
    BY <2>1 DEF Accepting
  <2> QED BY <2>1, <2>2, AdmittedKept
<1>5. CASE Tick \/ Prune \/ UNCHANGED vars
  <2>1. accepted' = accepted /\ pc' = pc /\ chal' = chal
    BY <1>5 DEF Tick, Prune, vars
  <2>2. \A c \in Challenges : Accepting(c)' \subseteq Accepting(c)
    BY <2>1 DEF Accepting
  <2> QED BY <2>1, <2>2, AdmittedKept
<1> QED BY <1>2, <1>3, <1>4, <1>5 DEF Next, Step

(* One code lets at most one verification per handler through, however the *)
(* unconditional consumptions race.                                        *)
THEOREM AcceptBudgetCorrect == Spec => []AcceptBudget
<1>1. Inv /\ Admitted => AcceptBudget
  <2> SUFFICES ASSUME Inv, Admitted, NEW c \in Challenges
               PROVE  accepted[c] <= Cardinality(Handlers)
    BY DEF AcceptBudget
  <2>1. Accepting(c) \in SUBSET Handlers
    BY DEF Accepting
  <2>2. Cardinality(Accepting(c)) \in Nat
    BY <2>1, Room
  <2> QED BY <2>2, Constants DEF Admitted, Inv, TypeOK
<1>2. Spec => [](Inv /\ Admitted)
  BY InvInit, InvNext, AdmittedInit, AdmittedNext, PTL DEF Spec
<1> QED BY <1>1, <1>2, PTL

----------------------------------------------------------------------------
(* The budget that wrong codes and acceptances share: a challenge that was *)
(* accepted lets nobody on, and one that was not has room for everybody    *)
(* who finds an attempt left.                                              *)
Tries(c) == otps[c].attempts + accepted[c] + Cardinality(Comparing(c)) <= AttemptsLimit

LEMMA TriesTypes ==
  ASSUME Inv, NEW c \in Challenges
  PROVE  /\ otps[c].attempts \in Nat /\ accepted[c] \in Nat /\ AttemptsLimit \in Nat
         /\ Comparing(c) \in SUBSET Handlers /\ Cardinality(Comparing(c)) \in Nat
<1>1. Comparing(c) \in SUBSET Handlers
  BY DEF Comparing
<1> QED BY <1>1, Room, Constants DEF Inv, TypeOK, ChallengeType

LEMMA TriesInit == Init => TryBudget
<1> SUFFICES ASSUME Init, NEW c \in Challenges PROVE Tries(c)
  BY DEF TryBudget, Tries
<1>1. Comparing(c) = {}
  BY DEF Init, Comparing
<1>2. Cardinality({}) = 0
  BY FS_EmptySet
<1> QED BY <1>1, <1>2, Constants DEF Init, NoChallenge, Tries

(* A step that counts nothing, accepts nothing and lets nobody on.         *)
LEMMA TriesKept ==
  ASSUME Inv, Inv', NEW c \in Challenges, Tries(c), accepted'[c] = accepted[c],
         otps'[c].attempts <= otps[c].attempts, Comparing(c)' \subseteq Comparing(c)
  PROVE  Tries(c)'
<1>1. /\ otps[c].attempts \in Nat /\ accepted[c] \in Nat /\ AttemptsLimit \in Nat
      /\ Comparing(c) \in SUBSET Handlers /\ Cardinality(Comparing(c)) \in Nat
  BY TriesTypes
<1>2. otps'[c].attempts \in Nat
  BY DEF Inv, TypeOK, ChallengeType
<1>3. Comparing(c)' \in SUBSET Handlers
  BY <1>1
<1>4. Cardinality(Comparing(c)') \in Nat /\ Cardinality(Comparing(c)') <= Cardinality(Comparing(c))
  BY <1>1, <1>3, Room, FS_Subset
<1> QED BY <1>1, <1>2, <1>4 DEF Tries

(* A handler that counts its attempt, or accepts, gives up its place.      *)
LEMMA TriesMoved ==
  ASSUME Inv, Inv', NEW c \in Challenges, NEW p \in Handlers, Tries(c), p \in Comparing(c),
         Comparing(c)' = Comparing(c) \ {p},
         \/ otps'[c].attempts \in {otps[c].attempts, otps[c].attempts + 1} /\ accepted'[c] = accepted[c]
         \/ otps'[c].attempts = otps[c].attempts /\ accepted'[c] = accepted[c] + 1
  PROVE  Tries(c)'
<1>1. /\ otps[c].attempts \in Nat /\ accepted[c] \in Nat /\ AttemptsLimit \in Nat
      /\ Comparing(c) \in SUBSET Handlers /\ Cardinality(Comparing(c)) \in Nat
  BY TriesTypes
<1>2. Cardinality(Comparing(c)') = Cardinality(Comparing(c)) - 1
  BY <1>1, Room
<1> QED BY <1>1, <1>2 DEF Tries

LEMMA TriesNext == Inv /\ Inv' /\ Admitted /\ TryBudget /\ [Next]_vars => TryBudget'
<1> SUFFICES ASSUME Inv, Inv', Admitted, TryBudget, [Next]_vars, NEW c \in Challenges
             PROVE  Tries(c)'
  BY DEF TryBudget, Tries
<1>0. Tries(c)
  BY DEF TryBudget, Tries
<1>1. ASSUME NEW p \in Handlers, VerifyFind(p) PROVE Tries(c)'
  <2>1. PICK x \in Newest(Active) : VerifyFind(p)!(x)
    BY <1>1 DEF VerifyFind
  <2>2. /\ chal'[p] = x /\ otps' = otps /\ accepted' = accepted
        /\ pc'[p] \in {"increment", "consume"} => otps[x].attempts < MaxAttempts
        /\ \A q \in Handlers \ {p} : pc'[q] = pc[q] /\ chal'[q] = chal[q]
    BY <2>1 DEF Goto, Inv, TypeOK
  <2>3. CASE x = c /\ pc'[p] \in {"increment", "consume"}
    <3>1. c \in Active
      BY <2>3 DEF Newest
    <3>2. accepted[c] = 0
      BY <3>1 DEF Admitted, Inv, TypeOK
    <3>3. Comparing(c)' \in SUBSET Handlers
      BY DEF Comparing
    <3>4. Cardinality(Comparing(c)') <= Cardinality(Handlers) /\ Cardinality(Comparing(c)') \in Nat
      BY <3>3, Room
    <3>5. otps[c].attempts \in Nat /\ otps[c].attempts < MaxAttempts /\ MaxAttempts \in Nat
          /\ Cardinality(Handlers) \in Nat
      BY <2>2, <2>3, TriesTypes, Constants
    <3> QED BY <2>2, <3>2, <3>4, <3>5 DEF Tries, AttemptsLimit
  <2>4. CASE ~(x = c /\ pc'[p] \in {"increment", "consume"})
    <3>1. Comparing(c)' \subseteq Comparing(c)
      BY <2>2, <2>4 DEF Comparing
    <3>2. otps'[c].attempts <= otps[c].attempts
      BY <2>2, TriesTypes
    <3> QED BY <1>0, <2>2, <3>1, <3>2, TriesKept
  <2> QED BY <2>3, <2>4
<1>2. ASSUME NEW p \in Handlers, Increment(p) \/ Consume(p) PROVE Tries(c)'
  <2>1. PICK x \in Challenges : x = chal[p] /\ pc[p] \in {"increment", "consume"}
    BY <1>2 DEF Increment, Consume, Inv
  <2>2. /\ pc'[p] \notin {"increment", "consume"}
        /\ \A q \in Handlers \ {p} : pc'[q] = pc[q] /\ chal'[q] = chal[q]
    BY <1>2 DEF Increment, Consume, Done, Goto, Inv, TypeOK
  <2>3. Comparing(c)' = Comparing(c) \ {p}
    BY <2>2 DEF Comparing
  <2>4. \/ /\ otps'[x].attempts \in {otps[x].attempts, otps[x].attempts + 1}
           /\ accepted'[x] = accepted[x]
        \/ otps'[x].attempts = otps[x].attempts /\ accepted'[x] = accepted[x] + 1
    BY <1>2, <2>1 DEF Increment, Consume, Inv, TypeOK, ChallengeType
  <2>5. x # c => otps'[c] = otps[c] /\ accepted'[c] = accepted[c]
    BY <1>2, <2>1 DEF Increment, Consume, Inv, TypeOK
  <2>6. CASE x = c
    <3>1. p \in Comparing(c)
      BY <2>1, <2>6 DEF Comparing
    <3> QED BY <1>0, <2>3, <2>4, <2>6, <3>1, TriesMoved
  <2>7. CASE x # c
    <3>1. otps'[c].attempts <= otps[c].attempts
      BY <2>5, <2>7, TriesTypes
    <3> QED BY <1>0, <2>3, <2>5, <2>7, <3>1, TriesKept
  <2> QED BY <2>6, <2>7
<1>3. ASSUME NEW p \in Handlers, IssueCount(p) \/ IssueCooldown(p) \/ IssueCreate(p)
                                 \/ ExpireChallenge(p) \/ Fail(p)
      PROVE  Tries(c)'
  <2>1. /\ accepted' = accepted /\ pc'[p] \notin {"increment", "consume"}
        /\ \A q \in Handlers \ {p} : pc'[q] = pc[q] /\ chal'[q] = chal[q]
    BY <1>3 DEF IssueCount, IssueCooldown, IssueCreate, ExpireChallenge, Fail, Done, Goto, Inv, TypeOK
  <2>2. Comparing(c)' \subseteq Comparing(c)
    BY <2>1 DEF Comparing
  <2>3. otps'[c].attempts \in {0, otps[c].attempts}
    BY <1>3 DEF IssueCount, IssueCooldown, IssueCreate, ExpireChallenge, Fail, Inv, TypeOK, ChallengeType
  <2>4. otps'[c].attempts <= otps[c].attempts
    BY <2>3, TriesTypes
  <2> QED BY <1>0, <2>1, <2>2, <2>4, TriesKept
<1>4. CASE Tick \/ Prune \/ UNCHANGED vars
  <2>1. accepted' = accepted /\ pc' = pc /\ chal' = chal
    BY <1>4 DEF Tick, Prune, vars
  <2>2. Comparing(c)' \subseteq Comparing(c)
    BY <2>1 DEF Comparing
  <2>3. otps'[c].attempts = otps[c].attempts
    BY <1>4 DEF Tick, Prune, vars, Inv, TypeOK, ChallengeType
  <2>4. otps'[c].attempts <= otps[c].attempts
    BY <2>3, TriesTypes
  <2> QED BY <1>0, <2>1, <2>2, <2>4, TriesKept
<1> QED BY <1>1, <1>2, <1>3, <1>4 DEF Next, Step

(* However verifications race, wrong codes counted, acceptances and the    *)
(* handlers about to do either stay within one budget for a challenge.     *)
THEOREM TryBudgetCorrect == Spec => []TryBudget
  BY InvInit, InvNext, AdmittedInit, AdmittedNext, TriesInit, TriesNext, PTL DEF Spec
============================================================================
