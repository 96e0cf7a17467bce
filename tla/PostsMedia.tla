----------------------------- MODULE PostsMedia -----------------------------
(***************************************************************************)
(* Posts, emergency alerts and their media: PostService and MediaService   *)
(* over PostsRepository and MediaRepository (domain/post_service.py,       *)
(* domain/media_service.py, repositories/posts_repo.py, media_repo.py),    *)
(* the moderation routes of api/admin.py and step 5 of jobs/cleanup.py.    *)
(*                                                                         *)
(* Every request below has passed the access gate (module DeviceTrust).  As*)
(* there, an action is one database operation with the code up to the next *)
(* await; nothing spans the posts and the media_objects collections.       *)
(***************************************************************************)
EXTENDS Naturals, Sequences

CONSTANTS
    Members, Admins,    \* member_ids, and those whose role is admin
    Posts, Media,       \* document ids
    Attachments,        \* the media_ids lists a client may send
    Handlers,           \* slots for requests being served at the same time
    MayRun,             \* [Handlers -> SUBSET Ops], what each slot may serve
    MaxFaults,          \* bound on handlers cut short by an error or a crash
    None

ASSUME PeopleAssumption == Admins \subseteq Members /\ None \notin Members \cup Posts \cup Media

\* create_post refuses more than three attachments
ASSUME BoundsAssumption ==
    /\ MaxFaults \in Nat
    /\ Attachments \subseteq Seq(Media)
    /\ \A list \in Attachments : Len(list) <= 3

Ops == {"confirm", "create", "moderate", "view"}

ASSUME MayRunAssumption == MayRun \in [Handlers -> SUBSET Ops]

VARIABLES
    posts,      \* posts
    media,      \* media_objects; old: created more than 24 hours ago
    pc, loc,    \* the handlers: the next operation, and what was read
    faults,
    cut         \* history: posts whose create_post was cut short while linking

vars == <<posts, media, pc, loc, faults, cut>>

NoPost  == [status |-> "none", kind |-> None, author |-> None, media |-> <<>>]
NoMedia == [state |-> "none", owner |-> None, link |-> None, old |-> FALSE]

\* hidden is history: all the posts that showed the media asked for were
\* removed inbox posts when the request arrived
Blank == [who |-> None, kind |-> None, list |-> <<>>, i |-> 0, post |-> None,
          media |-> None, hidden |-> FALSE]

Init ==
    /\ posts = [q \in Posts |-> NoPost]
    /\ media = [x \in Media |-> NoMedia]
    /\ pc = [p \in Handlers |-> "idle"]
    /\ loc = [p \in Handlers |-> Blank]
    /\ faults = 0
    /\ cut = {}

Stored == {x \in Media : media[x].state \in {"PENDING", "CONFIRMED"}}
Listed(q) == {posts[q].media[i] : i \in DOMAIN posts[q].media}

Start(p, op, l, read) ==
    /\ pc[p] = "idle"
    /\ op \in MayRun[p]
    /\ pc' = [pc EXCEPT ![p] = l]
    /\ loc' = [loc EXCEPT ![p] = read]

Goto(p, l) == pc' = [pc EXCEPT ![p] = l]

Done(p) == Goto(p, "idle") /\ loc' = [loc EXCEPT ![p] = Blank]

\* a check on what was just read: go on, or answer with a refusal
GoOnIf(p, ok, to) == IF ok THEN Goto(p, to) /\ UNCHANGED loc ELSE Done(p)

----------------------------------------------------------------------------
(* Uploads                                                                 *)

UploadIntent == \E x \in Media, m \in Members :
    /\ media[x].state = "none"
    /\ media' = [media EXCEPT ![x] = [state |-> "PENDING", owner |-> m,
                                      link |-> None, old |-> FALSE]]
    /\ UNCHANGED <<posts, pc, loc, faults, cut>>

MayConfirm(m, x) == m = media[x].owner \/ m \in Admins

ConfirmFind(p) == \E m \in Members, x \in Stored :
    /\ MayConfirm(m, x)
    /\ Start(p, "confirm", "confirm", [Blank EXCEPT !.who = m, !.media = x])
    /\ UNCHANGED <<posts, media, faults, cut>>

Confirm(p) ==
    /\ pc[p] = "confirm"
    /\ media' = IF loc[p].media \in Stored
                THEN [media EXCEPT ![loc[p].media].state = "CONFIRMED"] ELSE media
    /\ Done(p)
    /\ UNCHANGED <<posts, faults, cut>>

----------------------------------------------------------------------------
(* create_post                                                             *)

CreateStart(p) == \E m \in Members, kind \in {"INBOX", "EMERGENCY"}, list \in Attachments :
    /\ Start(p, "create", IF list = <<>> THEN "insert" ELSE "validate",
             [Blank EXCEPT !.who = m, !.kind = kind, !.list = list, !.i = 1])
    /\ UNCHANGED <<posts, media, faults, cut>>

ListedNow(p) == loc[p].list[loc[p].i]
LastOne(p)   == loc[p].i = Len(loc[p].list)

\* one pass of either loop over media_ids
NextOne(p) == pc' = pc /\ loc' = [loc EXCEPT ![p].i = @ + 1]

Acceptable(x, m) == /\ x \in Stored
                    /\ media[x].state = "CONFIRMED"
                    /\ media[x].owner = m

\* mutant: only the first attachment is looked at
Validate_FirstOnly(p) ==
    /\ pc[p] = "validate"
    /\ IF Acceptable(ListedNow(p), loc[p].who)
       THEN Goto(p, "insert") /\ loc' = [loc EXCEPT ![p].i = 1]
       ELSE Done(p)
    /\ UNCHANGED <<posts, media, faults, cut>>

Validate(p) ==
    /\ pc[p] = "validate"
    /\ IF ~Acceptable(ListedNow(p), loc[p].who) THEN Done(p)
       ELSE IF LastOne(p) THEN Goto(p, "insert") /\ loc' = [loc EXCEPT ![p].i = 1]
       ELSE NextOne(p)
    /\ UNCHANGED <<posts, media, faults, cut>>

InsertPost(p) == \E q \in Posts :
    /\ pc[p] = "insert"
    /\ posts[q].status = "none"
    /\ posts' = [posts EXCEPT ![q] = [status |-> "ACTIVE", kind |-> loc[p].kind,
                                      author |-> loc[p].who, media |-> loc[p].list]]
    /\ IF loc[p].list = <<>> THEN Done(p)
       ELSE Goto(p, "link") /\ loc' = [loc EXCEPT ![p].post = q]
    /\ UNCHANGED <<media, faults, cut>>

\* mutant: the last attachment is left out
LinkMedia_OffByOne(p) ==
    /\ pc[p] = "link"
    /\ IF LastOne(p) THEN Done(p) /\ UNCHANGED media
       ELSE /\ media' = IF ListedNow(p) \in Stored
                        THEN [media EXCEPT ![ListedNow(p)].link = loc[p].post] ELSE media
            /\ NextOne(p)
    /\ UNCHANGED <<posts, faults, cut>>

\* link_to_post, by _id: whatever the media was linked to before
LinkMedia(p) ==
    /\ pc[p] = "link"
    /\ media' = IF ListedNow(p) \in Stored
                THEN [media EXCEPT ![ListedNow(p)].link = loc[p].post] ELSE media
    /\ IF LastOne(p) THEN Done(p) ELSE NextOne(p)
    /\ UNCHANGED <<posts, faults, cut>>

----------------------------------------------------------------------------
(* Moderation (the actor passed require_admin or require_admin_session)    *)

Shown(q) == posts[q].status # "none"

ResolveFind(p) == \E q \in Posts :
    /\ Shown(q) /\ posts[q].kind = "EMERGENCY"
    /\ Start(p, "moderate", "resolve", [Blank EXCEPT !.post = q])
    /\ UNCHANGED <<posts, media, faults, cut>>

RemoveFind(p) == \E q \in Posts :
    /\ Shown(q)
    /\ Start(p, "moderate", "remove", [Blank EXCEPT !.post = q])
    /\ UNCHANGED <<posts, media, faults, cut>>

\* mutant: ARCHIVED, a status that only a comment knows
Moderate_Archive(p) ==
    /\ pc[p] \in {"resolve", "remove"}
    /\ posts' = [posts EXCEPT ![loc[p].post].status = "ARCHIVED"]
    /\ Done(p)
    /\ UNCHANGED <<media, faults, cut>>

\* neither update looks at the status found
Moderate(p) ==
    /\ \/ /\ pc[p] = "resolve"
          /\ posts' = [posts EXCEPT ![loc[p].post].status = "RESOLVED"]
       \/ /\ pc[p] = "remove"
          /\ posts' = [posts EXCEPT ![loc[p].post].status = "REMOVED"]
    /\ Done(p)
    /\ UNCHANGED <<media, faults, cut>>

----------------------------------------------------------------------------
(* get_access_url                                                          *)

Hidden(x) == \A q \in Posts : Shown(q) /\ x \in Listed(q) =>
                posts[q].kind = "INBOX" /\ posts[q].status = "REMOVED"

\* mutant: media of no post yet are taken for public
FindMedia_Open(p) == \E m \in Members, x \in Stored :
    /\ media[x].state = "CONFIRMED"
    /\ Start(p, "view", IF media[x].link = None THEN "granted" ELSE "read_post",
             [Blank EXCEPT !.who = m, !.media = x, !.post = media[x].link, !.hidden = Hidden(x)])
    /\ UNCHANGED <<posts, media, faults, cut>>

FindMedia(p) == \E m \in Members, x \in Stored :
    /\ media[x].state = "CONFIRMED"
    /\ \/ /\ media[x].link = None
          /\ m = media[x].owner \/ m \in Admins
          /\ Start(p, "view", "granted", [Blank EXCEPT !.who = m, !.media = x, !.hidden = Hidden(x)])
       \/ /\ media[x].link # None
          /\ Start(p, "view", "read_post", [Blank EXCEPT !.who = m, !.media = x,
                                                 !.post = media[x].link, !.hidden = Hidden(x)])
    /\ UNCHANGED <<posts, media, faults, cut>>

\* mutant: moderation is not looked at
ReadPost_AnyStatus(p) ==
    /\ pc[p] = "read_post"
    /\ Goto(p, "granted")
    /\ UNCHANGED <<posts, media, loc, faults, cut>>

ReadPost(p) ==
    /\ pc[p] = "read_post"
    /\ GoOnIf(p, posts[loc[p].post].status # "REMOVED" \/ loc[p].who \in Admins, "granted")
    /\ UNCHANGED <<posts, media, faults, cut>>

\* the presigned URL goes out
SendUrl(p) ==
    /\ pc[p] = "granted"
    /\ Done(p)
    /\ UNCHANGED <<posts, media, faults, cut>>

----------------------------------------------------------------------------
(* Time, the cleanup job, and restarts                                     *)

Age == \E x \in Stored :
    /\ ~media[x].old
    /\ media' = [media EXCEPT ![x].old = TRUE]
    /\ UNCHANGED <<posts, pc, loc, faults, cut>>

\* mutant: linked or not
DeleteOrphan_Any == \E x \in Stored :
    /\ media[x].old
    /\ media' = [media EXCEPT ![x].state = "deleted"]
    /\ UNCHANGED <<posts, pc, loc, faults, cut>>

\* delete_many is atomic for each document only
DeleteOrphan == \E x \in Stored :
    /\ media[x].old
    /\ media[x].link = None
    /\ media' = [media EXCEPT ![x].state = "deleted"]
    /\ UNCHANGED <<posts, pc, loc, faults, cut>>

Fail(p) ==
    /\ faults < MaxFaults
    /\ pc[p] # "idle"
    /\ faults' = faults + 1
    /\ cut' = IF pc[p] = "link" THEN cut \cup {loc[p].post} ELSE cut
    /\ Done(p)
    /\ UNCHANGED <<posts, media>>

\* the bound on posts is reached: the insert raises
OutOfPosts(p) ==
    /\ pc[p] = "insert"
    /\ \A q \in Posts : posts[q].status # "none"
    /\ Done(p)
    /\ UNCHANGED <<posts, media, faults, cut>>

----------------------------------------------------------------------------
Upload(p)     == ConfirmFind(p) \/ Confirm(p)
Create(p)     == CreateStart(p) \/ Validate(p) \/ InsertPost(p) \/ LinkMedia(p) \/ OutOfPosts(p)
Moderation(p) == ResolveFind(p) \/ RemoveFind(p) \/ Moderate(p)
View(p)       == FindMedia(p) \/ ReadPost(p) \/ SendUrl(p)

Next == \/ \E p \in Handlers : Upload(p) \/ Create(p) \/ Moderation(p) \/ View(p) \/ Fail(p)
        \/ UploadIntent \/ Age \/ DeleteOrphan

Spec == Init /\ [][Next]_vars

----------------------------------------------------------------------------
PostType  == [status : {"none", "ACTIVE", "RESOLVED", "REMOVED"},
              kind : {"INBOX", "EMERGENCY", None}, author : Members \cup {None},
              media : Attachments \cup {<<>>}]
MediaType == [state : {"none", "PENDING", "CONFIRMED", "deleted"}, owner : Members \cup {None},
              link : Posts \cup {None}, old : BOOLEAN]
LocType   == [who : Members \cup {None}, kind : {"INBOX", "EMERGENCY", None},
              list : Attachments \cup {<<>>}, i : 0 .. 3, post : Posts \cup {None},
              media : Media \cup {None}, hidden : BOOLEAN]
Labels    == {"idle", "confirm", "validate", "insert", "link", "resolve", "remove",
              "read_post", "granted"}

TypeOK ==
    /\ posts \in [Posts -> PostType]
    /\ media \in [Media -> MediaType]
    /\ pc \in [Handlers -> Labels]
    /\ loc \in [Handlers -> LocType]
    /\ faults \in 0 .. MaxFaults
    /\ cut \subseteq Posts

\* A linked media object is confirmed, belongs to the author of the post it is
\* linked to, and is among the post's attachments: what create_post found out
\* attachment by attachment still holds when it links them, one by one, later.
LinkSound == \A x \in Media : media[x].link # None =>
    /\ media[x].state = "CONFIRMED"
    /\ Shown(media[x].link)
    /\ posts[media[x].link].author = media[x].owner
    /\ x \in Listed(media[x].link)

Linking(q) == \E p \in Handlers : pc[p] = "link" /\ loc[p].post = q

\* Once create_post is done with a post, every attachment of it is linked,
\* unless cleanup took it for an orphan before it was (the post then lists an
\* attachment that is gone), or the handler was cut short at that very post:
\* nothing makes up for the links it did not get to, and no other post suffers.
AttachmentsLinked ==
    \A q \in Posts \ cut : Shown(q) /\ ~Linking(q) =>
        \A x \in Listed(q) : media[x].link # None \/ media[x].state = "deleted"

\* Access to media that only its owner and administrators may see is granted
\* to nobody else: a link, once there, is not taken away while the handler
\* that saw it goes on.
GrantJustified == \A p \in Handlers : pc[p] = "granted" =>
    \/ loc[p].who \in Admins
    \/ loc[p].who = media[loc[p].media].owner
    \/ media[loc[p].media].link # None

\* Media that only removed inbox posts show when a request arrives goes to
\* nobody but administrators and, before create_post has linked it, its owner.
ModerationHolds == \A p \in Handlers :
    pc[p] = "granted" /\ loc[p].hidden /\ loc[p].who \notin Admins =>
        loc[p].post = None /\ loc[p].who = media[loc[p].media].owner

\* A post's attachments are never taken away once linked: a linked media
\* object stays linked and stored, and no post changes author or list.
Kept ==
    /\ \A x \in Media : media[x].link # None =>
          media'[x].link # None /\ media'[x].state = "CONFIRMED"
    /\ \A q \in Posts : Shown(q) =>
          posts'[q].author = posts[q].author /\ posts'[q].media = posts[q].media
LinksKept == [][Kept]_vars

----------------------------------------------------------------------------
(* The inductive strengthening of the invariants above                     *)

\* x passed create_post's checks for author m, at some time
Vetted(x, m) == /\ x \in Media
                /\ media[x].owner = m
                /\ media[x].state \in {"CONFIRMED", "deleted"}

\* What a handler at each control point can count on.
Knows(p) ==
    /\ pc[p] \in {"confirm", "read_post", "granted"} =>
          loc[p].media \in Media /\ media[loc[p].media].state # "none"
    /\ pc[p] \in {"validate", "insert", "link"} =>
          loc[p].list \in Attachments /\ loc[p].who \in Members
    /\ pc[p] \in {"validate", "link"} => loc[p].i \in 1 .. Len(loc[p].list)
    /\ pc[p] = "validate" => \A j \in 1 .. (loc[p].i - 1) : Vetted(loc[p].list[j], loc[p].who)
    /\ pc[p] = "insert" => loc[p].i = 1
    /\ pc[p] \in {"insert", "link"} =>
          \A j \in 1 .. Len(loc[p].list) : Vetted(loc[p].list[j], loc[p].who)
    /\ pc[p] \in {"link", "resolve", "remove", "read_post"} =>
          loc[p].post \in Posts /\ Shown(loc[p].post)
    /\ pc[p] = "link" => /\ posts[loc[p].post].author = loc[p].who
                         /\ posts[loc[p].post].media = loc[p].list
    /\ pc[p] = "resolve" => posts[loc[p].post].kind = "EMERGENCY"
    /\ pc[p] = "read_post" =>
          /\ media[loc[p].media].link # None
          /\ loc[p].hidden => /\ posts[loc[p].post].kind = "INBOX"
                              /\ posts[loc[p].post].status = "REMOVED"

\* An attachment not linked yet, and not deleted, has its turn to come.
TurnsToCome ==
    \A q \in Posts \ cut : Shown(q) => \A j \in 1 .. Len(posts[q].media) :
        \/ media[posts[q].media[j]].link # None
        \/ media[posts[q].media[j]].state = "deleted"
        \/ \E p \in Handlers : pc[p] = "link" /\ loc[p].post = q /\ loc[p].i <= j

Inv == /\ TypeOK /\ LinkSound /\ TurnsToCome /\ GrantJustified /\ ModerationHolds
       /\ \A p \in Handlers : Knows(p)

----------------------------------------------------------------------------
(* What the documentation claims and the code does not keep                *)

\* A post that a moderator removed is not visible to members again
\* (resolve_emergency sets RESOLVED on a removed alert too).
RemovedStaysHidden ==
    [][\A q \in Posts : posts[q].status = "REMOVED" => posts'[q].status = "REMOVED"]_vars
============================================================================
