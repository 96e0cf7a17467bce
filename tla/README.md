# Verified Community Directory: TLA+ models and proofs

The program (`src/community-directory/backend/app`) is the backend of a private
community directory: a FastAPI application in one asyncio process over MongoDB.
Members are imported from CSV files by an administrator, approved, enrol with an
e-mailed code and a passkey, and from then on need a trusted device *and* a session
for every request. They publish posts and alerts with media that administrators
moderate. What makes it hard is that no operation uses a transaction: a handler
reads a document, awaits, and later writes by `_id` alone, while other handlers, the
cleanup job and MongoDB's TTL monitor do the same.

## 1. The system

| Part | State it keeps | Operations | Interacts with |
|---|---|---|---|
| Bootstrap (`domain/bootstrap_service.py`) | `system_state`, one `members` document | `run_admin_bootstrap`, awaited before the first request | administrator login, import (both need an administrator) |
| Administrator login (`domain/admin_auth_service.py`) | `sessions` without device, `members.status` | `login`, `logout` | everything under `api/admin.py` |
| Import (`domain/import_service.py`) | `members` (STAGED), `import_runs` | `import_csv` | unique index on the address |
| Approval (`domain/member_service.py`) | `members.member_id`, `status` | `approve_staged_member` | unique index on `member_id` |
| OTP (`domain/otp_service.py`) | `otp_challenges` | `issue_challenge`, `verify_challenge` | `AuthService`, TTL index, cleanup |
| Enrolment and device change (`domain/auth_service.py`) | `enrollment_tickets`, `device_change_requests` | `verify_otp` | OTP below it, registration after it |
| Passkeys (`domain/webauthn_service.py`) | `webauthn_challenges`, `webauthn_credentials`, `devices`, `sessions` | begin/finish registration and login | tickets, requests, `members.status` |
| Access gate (`core/dependencies.py`) | none | `require_active_session`, `require_active_member`, `require_admin` (that and a role check), `require_admin_session` | reads what everybody else writes |
| Member lifecycle (`domain/member_service.py`) | `members.status`, and the member's sessions and devices | suspend, deactivate, reactivate | races with all of the above |
| Device routes (`api/devices.py`, `api/admin.py`) | `devices`, `sessions`, `device_change_requests` | remove device, request change, approve, reject | |
| Posts (`domain/post_service.py`) | `posts`, `media_objects.linked_post_id` | create, resolve, remove, report, list | media |
| Media (`domain/media_service.py`) | `media_objects` | upload intent, confirm, access URL | posts, cleanup |
| Cleanup (`jobs/cleanup.py`) | none | deletes what is expired, stale or orphaned | every collection above |
| Rate limiters (`core/rate_limit.py`) | windows in memory | `record_and_check` | routes |
| Security events and flags (`domain/security_service.py`) | `security_events`, `security_flags` | `record_event`, resolve | written by most services, read by administrators only |
| Audit, backup, directory search, privacy filter, adapters, configuration | see section 7 | | |

Components call each other directly; they share state only through the database.
There are no queues and no callbacks. The concurrency is between handlers (each
`await` on the database is a point where others run), the jobs, and the clock; the
failures are a database call that raises and the process that ends and is started
again (`restart: unless-stopped`).

What makes each part correct:

* device trust: a session stands on a passkey; revocation is final and complete; a
  barred member stays out; an approved device change retires the old devices; the
  gate refuses what was revoked before the request;
* OTP: the attempt limit, the single use and the cap hold up to what concurrency
  allows, and dead challenges stay dead;
* posts and media: what was checked attachment by attachment still holds when it is
  linked; access to media follows ownership, links and moderation; cleanup takes
  nothing that is in use;
* membership: exactly one bootstrap administrator, every imported row accounted for,
  ids unique and given at approval; to the outside a registry that changes one record
  at a time;
* monitoring: the limiter lets a limit's worth of calls through per window, and a burst of
  security events ends in a flag an administrator sees, not in a pile of them.

## 2. Modules

One action is one database operation together with the code up to the next `await`:
asyncio runs that piece without interruption and MongoDB makes a single-document
operation atomic. `pc[p]` names the operation that handler slot `p` makes next and
`loc[p]` (`chal[p]` in OtpChallenge) holds what it has read. A handler that raises
drops its locals and leaves what it has written (`Fail`, bounded by `MaxFaults`).
Log lines and audit entries are left out, and security events everywhere but in `Monitoring`.

| Module | Models | State and code |
|---|---|---|
| `DeviceTrust` | tickets, passkeys, devices, sessions, requests, gate, lifecycle | `status`, `tickets`, `challenges`, `devices` (with their credential), `sessions`, `requests` are the collections; `cookies` the tokens clients hold; `barred`, `aged` and the fields `dead`, `shut`, `ticket` are history |
| `MemberAccounts` | what `DeviceTrust` promises | `accounts`, a record per member: `standing` (the status), `keys` and `retired` (devices with a passkey, trusted or revoked), `open` and `ended` (sessions, each with the device it stands on); one account changes at a time, except when time ends all sessions |
| `OtpChallenge` | codes of one member and purpose (every query names both) | `otps`; `now`, `midnight` the clock; `wrong`, `accepted` count per challenge what verification did |
| `PostsMedia` | posts, alerts, media, moderation, orphans | `posts`, `media`; `old` marks more than 24 hours |
| `Membership` | bootstrap, the administrator's login, gate, suspension and reactivation, import, approval | `members`, `completed` (the flag), `boot` (the start-up coroutine), `signedIn` and `ticket` (what the administrator holds), `report` (the last import run; the stored document has the counts, the answer the ids) |
| `MemberRegistry` | what `Membership` promises | `registry`, a record per address: the administrator first, then others staged, issued an id, changed in status, one record at a time |
| `Monitoring` | rate limiter, security events, flags, their resolution | `store` (the windows in memory, as sets of calls: `ThisCall` tells the calls of one instant apart, and nothing the limiter does depends on their order), `events`, `flags`, `now`; `passed`, `restarts`, `lost` are history |
| `MC*` | the instances for TLC | |
| `*Proofs` | the theorems about the module they are named for | |

The modules meet where one hands documents to the other: `Membership` ends where a
member is PENDING_ENROLLMENT, which is where `DeviceTrust` starts (its `Enrol` and the
administrator's `Ticket...` actions are the only traces of it); `DeviceTrust` takes `verify_challenge` as one step that accepts
or raises, which `OtpChallenge` opens up; the requests in `PostsMedia` have passed the
gate of `DeviceTrust`; a request of `Monitoring` is any that a limiter guards and that
reports an event. They share no other variable, so they are checked apart.

Abstractions worth knowing:

* A WebAuthn answer `c` verifies exactly if `c` is the newest valid challenge of its
  subject: that is what `find_valid` compares it with. `cred` records the
  challenge a credential came from, and a duplicate credential id makes the insert raise.
* Tokens and cookies are the ids of the documents whose hash they match. A client can
  present only what some client was given (`cookies`).
* A CSV file is a sequence of addresses, with `None` for rows `_validate_row` refuses.
* `MonthPasses` lets 30 days go by while no request is served. `Expire` lets one
  document expire at any time.
* Bounds on documents: `OutOfIds`/`OutOfPosts` make the insert raise when an instance
  has no more ids, so that reaching a bound is an error path and never a stop.

Definitions named `X_Something` after the comment "mutant" are bugs a change of that
code could introduce; nothing refers to them. For each property one of them, put in the
place of the definition it is a form of, makes TLC find the property violated.

## 3. What is checked

| Run | Question | Properties |
|---|---|---|
| `EnrolAndBar` | enrolments with two tickets against suspend, deactivate, reactivate | `TypeOK`, `SessionBacked`, `BarredHasNoDevice`, `ShutUntilReactivated`, `RevocationFinal`, `IsAccounts` (refinement) |
| `ChangeDevice` | OTP, request, review, and two registrations of new passkeys at once | `ApprovalRetiresDevices`, `PendingBounded` |
| `AtTheGate` | two members' requests inside the gate while devices, sessions and status change; does a suspension that has begun finish? | `GrantSound`, `RevocationCompletes` (liveness), `IsAccounts` (refinement) |
| `Otp` | issue and verify by concurrent handlers, against the clock | `TypeOK`, `GuessBudget`, `AcceptBudget`, `TryBudget`, `CapSlack`, `DeadStaysDead` |
| `PostsMedia` | creation of posts against every other request and cleanup | `TypeOK`, `LinkSound`, `AttachmentsLinked`, `GrantJustified`, `ModerationHolds`, `LinksKept` |
| `Membership` | start-up with a restart anywhere; logins, imports, approvals and suspensions of the administrator in pairs | `TypeOK`, `RowsAccounted`, `ImportComplete`, `IdsSound`, `BootstrapSound`, `BootstrapCompletes` (liveness), `LockoutIsFinal`, `IsRegistry` (refinement) |
| `Monitoring` | two handlers that report events of one type while flags are resolved and the process restarts | `TypeOK`, `LimitKept`, `FlagsBounded`, `EvidenceBounded`, `BurstFlagged` |

Premises that are part of a property and say something about the code:

* `BarredHasNoDevice` and `ApprovalRetiresDevices` are stated for behaviours without faults.
  The code has no recovery: a suspension or an approval cut short stays half done.
  `AttachmentsLinked` speaks, faults or not, of every post whose creation was not cut short itself
  (`cut` remembers those), and `RevocationCompletes` of suspensions in which nothing fails.
* Two things the code allows are exceptions of the media properties, and no property rules them out:
  cleanup may delete an attachment, a day old and not linked yet, under a `create_post` that has checked it
  (`AttachmentsLinked` names that outcome, `LinksKept` starts at the link), and an author's
  next post takes over media that a removed one shows (`ModerationHolds` judges what is hidden when the request arrives).
* `ApprovalRetiresDevices` also supposes that cleanup has deleted no request: deleting
  a newer pending one makes an older approval, never completed, the latest again.
* `BarredHasNoDevice` speaks of devices whose cookie a client holds. A device created
  by a registration that was itself overtaken by the suspension is ACTIVE until that
  registration answers; when it does, the member is ACTIVE again (see below).
* `LockoutIsFinal` says when a suspension of the administrator is final: when no login is past its
  status check, no request past the gate and no ticket out. Each of the three undoes it, because
  `activate_member` and `update_status` look at no status.
* `BurstFlagged` speaks of events whose handler was not cut short, and takes a flag resolved after
  the event came in for attention paid. `FlagsBounded` and `EvidenceBounded` state what the
  read-then-write of `record_event` really keeps: as many open flags for a target, and as many
  copies of an event in a flag, as there are handlers at once, never more.
* `IsAccounts` states, per member, what the handlers amount to: ACTIVE only with a passkey on file,
  a session only for a device with the member's own passkey, nothing revoked or ended that comes
  back, nobody's account touched by a step for somebody else. `Activate` asks for no particular
  standing before it, because `activate_member` does not (see `BarredRefused` below), and a passkey may be
  enrolled into the retired ones, when a revocation has come between device and credential.
* `LimitKept` counts restarts, since each forgets the windows. What it rules out is a refused call
  that holds its caller off, or a window that is not a window.
* `GuessBudget`, `AcceptBudget`, `TryBudget` and `CapSlack` state the bounds the code really keeps;
  the documentation's are tighter by the number of handlers in flight (`PHASE_4`, lines 42-44).
  `TryBudget` joins the first two: handlers that are past the check of `attempts` can overshoot it, by
  wrong codes or by acceptances, but each place is used once.

Five runs show where the code disagrees with its own documentation or tests:

| Run | Property | What TLC shows |
|---|---|---|
| `TicketSingleUse` | `TicketSingleUse` | two registrations that both found one ticket valid register two devices (`PHASE_5_WEBAUTHN_DEVICES.md:78`) |
| `BarredRefused` | `BarredRefused` | a ticket from before a suspension reopens the account after it (`member_service.py:132`) |
| `OtpDailyCap` | `DailyCapKept` | a code expires, its challenge is deleted and no longer counted, and another goes out the same day (`PHASE_4_OTP_SESSIONS.md:44`) |
| `RemovedHidden` | `RemovedStaysHidden` | `resolve_emergency` brings a removed alert back (`playwright_setup.md:99`, a general claim with an inbox post as its example) |
| `ApprovedTwice` | `IssuedOnce` | two concurrent approvals give one record two ids (`PHASE_2_ADMIN_IMPORT.md:71`) |

Other disagreements met on the way, which no run of their own shows: the comment in
`auth_service.py` that a second device needs a request (a member in the middle of a
first enrolment may finish with two tickets); approve and reject work on a
request in any status (`admin.py:249`, `:289`); two verifications may both create a
pending request (`auth_service.py:166`); the bootstrap's docstring says it does
nothing "if members exist", and the code looks at the flag and its own address only
(`bootstrap_service.py:23`).

### Bounds, and why they are enough

* Handlers: two or three slots. Every race the code has is between the one that read and
  the one that wrote in between; the third slot in the `DeviceTrust` runs is the
  administrator. `MayRun` gives every slot the operations of the run's question, so
  that the interleavings of the others do not drown it; the three runs together serve
  every operation.
* `EnrolAndBar`: two tickets and two challenges, for two registrations in flight; one session
  is enough for a member to have one that a suspension must end.
* `ChangeDevice`: an old device and two new ones, one ticket that two registrations may share,
  two challenges, two requests so that one can be newer than the approved one. Logins play
  no part in it: they create no device.
* `AtTheGate`: two members with a device each, so that a session and a device of different
  members can be presented together; one fault. It has no symmetry, for `RevocationCompletes`. With two
  members it is the run in which a step could touch the wrong account (`IsAccounts`); `EnrolAndBar` is the
  one in which passkeys are enrolled.
* `Otp`: three challenges, attempt limit 2, cap 1, a code that lives two ticks in a day of
  three: cap, cooldown, expiry and midnight all happen. The clock stops at `MaxTime` and
  challenges run out, so the instance ends: both OTP configurations switch the deadlock check off.
* `OtpDailyCap`: one handler and a code that lives one tick, so that it runs out, unused, within the day.
* `PostsMedia`: lists of one and two attachments that overlap, two posts for a second link,
  one fault.
* `Membership`: two files with a duplicate, a malformed row and the
  administrator's own address, and two imports of the same file at once; two ids for two
  members, so that candidates collide, and two tries; one fault, which may
  be a restart at any step of the start-up. A lockout with no session and no ticket is
  a state where really nothing more happens: the deadlock check is off.
* `Monitoring`: two handlers, a limit of two calls in a window of one tick, threshold two and three
  events, in an hour of one tick out of three: windows and hours end, an event comes after
  the flag, both handlers find no flag at once, and there is an event more than handlers, so that
  flags or copies that the bound does not allow would show. When the clock and the events have run
  out the instance ends: the deadlock check is off.

### Fairness

`DeviceTrust` assumes weak fairness of the two revocations (`Revoke`) of a suspension that has
begun: asyncio resumes every coroutine whose database answer has arrived. Nothing is assumed of
requests that have not come. `Membership` assumes it of the start-up coroutine, which
runs alone (`main.py` awaits it before it serves), with faults bounded as everywhere.

## 4. What is proved

The theorems hold for every value of the constants that satisfies the `ASSUME`s: any
sets of members, documents and handlers, any bounds, any attachment lists up to the
code's limit of three.

* `DeviceTrustProofs`: `TypeCorrect`, `SessionBackedCorrect`, `GrantSoundCorrect`,
  `RevocationFinalCorrect`. The inductive invariant `Inv` adds to the type invariant and
  `SessionBacked`: `Owned` (every document belongs to a member), `Delivered` (a cookie in a
  client's hands stands for a device with a passkey or an existing session), and `Knows(p)`,
  what a handler at each control point can count on. `Knows` is where the argument lies:
  what a handler has read goes stale, but the facts in it (a device once enrolled keeps its
  owner and passkey, a revoked device stays revoked) are the ones no other action can
  undo. `RevocationFinal` then follows action by action.
* `DeviceTrustBarProofs`: `BarredHasNoDeviceCorrect`, `ApprovalRetiresDevicesCorrect`,
  `PendingBoundedCorrect`, `ShutUntilReactivatedCorrect`. Neither of the first two is inductive, because a
  device counts only once its cookie is with a client, and by then the handler that created it
  has forgotten why that was all right. The strengthenings (`BarRevokes`, `ApprovalRevokes`) count a
  device as held from the moment on at which the member's status, or the request, no longer depends on
  the registration that created it: such a device is ACTIVE under a bar, or an approval,
  only while the handler that bars or approves has still to revoke it. The approval needs besides
  that requests are created in order (`RequestsOK`), so that the latest one of a member is only
  replaced by a pending one. `PendingBounded` counts, as the OTP bounds do: a handler goes on
  to create a request only when none is pending, so all that are pending then come from handlers that
  were about to create theirs, each in a slot that can ask (`AskersAsk`); `Handlers` has to be
  finite for that (`HandlersAssumption`). `ShutUntilReactivated`
  goes through the ways into the account, each of which starts with a ticket, a status or a handler that
  `Shut` excludes.
* `DeviceTrustAccountsProofs`: `IsAccountsCorrect`, the refinement of `MemberAccounts`, and
  `AccountsSoundCorrect`, what the accounts promise (`Sound`). The mapping
  (`Account`) reads the documents of a member only, and `Inv` supplies whose they are: `Knows` for the
  device a registration enrols and the one a login uses, `SessionBacked` for the sessions a device
  removal ends. There is a lemma for each kind of change (standing, passkey enrolled, passkeys retired,
  sign-in, sign-out, lapse of time), and for each field of an account that a step may leave alone; the
  writers of the three collections are then matched with them one by one.
  `Sound` is then proved of the accounts alone, without a look at the handlers (`SoundStep` has one case
  for one changed account, `SoundLapse` one for time), and carried over to the documents by the
  refinement: an ACTIVE member has enrolled a passkey, passkeys and sessions are one member's each, a
  session stands on a passkey of its own member. It is no property of a run: the runs check `IsAccounts`,
  from which it follows.
* `OtpChallengeProofs`: `TypeCorrect`, `GuessBudgetCorrect`, `CapSlackCorrect`,
  `DeadStaysDeadCorrect`, `AcceptBudgetCorrect`, `TryBudgetCorrect`. The bounds are
  counting arguments: the wrong codes counted and those compared and not yet counted, the
  challenges of today and the handlers between count and insert, the
  acceptances and the handlers about to consume, and for `TryBudget` all tries on a challenge
  together: an accepted challenge is dead (`Admitted`), so whoever is let on finds no acceptance
  yet and an attempt left. A handler that moves on shrinks one set by one as it increases the
  other side by one; the lemmas about cardinalities say so once.
* `PostsMediaProofs`: `TypeCorrect`, `LinkSoundCorrect`, `AttachmentsLinkedCorrect`,
  `GrantJustifiedCorrect`, `ModerationHoldsCorrect`, `LinksKeptCorrect`. `Inv` adds
  `Knows(p)` (the prefix of the list that was vetted stays vetted: confirmed or deleted, and
  the author's) and `TurnsToCome` (an attachment that is not linked yet lies ahead of the
  handler that links them).
* `MembershipProofs`: `TypeCorrect`, `RowsAccountedCorrect`, `ImportCompleteCorrect`,
  `IdsSoundCorrect`, `BootstrapSoundCorrect`, `LockoutIsFinalCorrect`, `IsRegistryCorrect`. Every
  write of a document is one of three kinds: a new document, a new status, an issued id. Each kind
  keeps what the documents promise (`DocsOK`: addresses and ids unique, the role fixed by the
  address, an id from the approval on), never takes back what a handler has read (`Stable`), and is
  a step of the registry. So the proof has no case for pairs of actions: a handler's own step is
  looked at once, and everybody else's knowledge (`Knows`, `Accounts`) is kept by a lemma
  (`OthersKept`). `Accounts` says that the rows an import has passed are errors, staged, or
  still to come, and `AdminFirst` that nothing is stored before the administrator. `LockoutIsFinal`
  goes through the actions once more, with the invariant to exclude a second administrator;
  `IsRegistry` maps each address to its document, which is unique by `DocsOK`.
* `MonitoringProofs`: `TypeCorrect`, `LimitKeptCorrect`, `FlagsBoundedCorrect`, `EvidenceBoundedCorrect`,
  `BurstFlaggedCorrect`. `Inv` keeps `BurstFlagged` together with what makes it inductive: whatever a
  handler has counted contains the burst of its event, and a flag it is about to extend has its target,
  lists what it read there and is open or was resolved after the event (`Knows`). Flags are never taken
  back (`Kept`) and a burst only shrinks as time passes (`BurstKept`), so a burst once in a flag stays
  there. `Copies` counts the copies of an event in a flag together with the handlers about to add one.
  `LimitKept` needs `Windows`: the calls of the last window that the store remembers, and those that a
  restart made it forget, are bounded apart, by the limit and by a limit per restart.

Model-checked only: the liveness properties `RevocationCompletes` and `BootstrapCompletes`. They rest on
fairness, hence on ENABLED, which TLAPS does not reason about. Every invariant, action property and
refinement that a passing run checks is also a theorem. The five properties of the runs that end in a
violation are false, and nothing is proved of them.

## 5. How to run

    tlc -workers 2 -config MCEnrolAndBar.cfg MCDeviceTrust.tla
    tlapm DeviceTrustProofs.tla

`PROJECT.json` names the module and configuration of every run.

## 6. Plan

1. Done: `DeviceTrust`, `OtpChallenge`, `PostsMedia`, `Membership` with the administrator's own
   account, `Monitoring`, their runs; the abstract specifications `MemberRegistry` and `MemberAccounts`
   and the refinements; the theorems of section 4.
2. Proofs about single operators that several modules use the same way (the newest of a set of numbered
   documents, sets that grow by one), stated once.
3. What `MemberRegistry` promises its users, proved of the registry alone and carried over, as
   `AccountsSoundCorrect` does it for the accounts.
4. The signature counter of a passkey, and the counts of posts' reports.

## 7. Not modelled

* Audit log: append-only, never read by an operation. That writing it may raise is in
  `Fail` and `Restart`.
* Backup: reads the collections one after the other, so a backup is no snapshot; there is no
  restore in the code to state a property of.
* Directory search and privacy filter: a query and a pure projection of one document.
* `report_post` and `list_feed`, `edit_member`, the passkeys' signature counters: no property
  depends on them.
* Configuration, logging, error formats, hashing, schemas, SMTP, object storage, health
  routes, the HTML reference interface: no protocol state, or pure I/O.
