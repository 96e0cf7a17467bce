-------------------------- MODULE PostsMediaProofs --------------------------
(***************************************************************************)
(* Proofs of the safety properties of PostsMedia for any members, posts,   *)
(* media and handlers.  The argument: posts never change author or list and*)
(* removed inbox posts stay removed, media never change owner and linked   *)
(* ones stay (Stable); so what a handler has read about them stays true    *)
(* (Knows), and the other handlers need not be looked at step by step.     *)
(***************************************************************************)
EXTENDS PostsMedia, SequenceTheorems, TLAPS

Stable ==
    /\ \A q \in Posts : Shown(q) =>
          /\ posts'[q].status # "none"
          /\ posts'[q].author = posts[q].author
          /\ posts'[q].kind = posts[q].kind
          /\ posts'[q].media = posts[q].media
          /\ posts[q].kind = "INBOX" /\ posts[q].status = "REMOVED" => posts'[q].status = "REMOVED"
    /\ \A x \in Media :
          /\ media[x].state # "none" =>
                media'[x].state # "none" /\ media'[x].owner = media[x].owner
          /\ media[x].state \in {"CONFIRMED", "deleted"} =>
                media'[x].state \in {"CONFIRMED", "deleted"}
          /\ media[x].state = "deleted" => media'[x].state = "deleted"
          /\ media[x].link # None => media'[x].link # None /\ media'[x].state = "CONFIRMED"

Moves(p) == \A r \in Handlers \ {p} : pc'[r] = pc[r] /\ loc'[r] = loc[r]

----------------------------------------------------------------------------
(* Lists of attachments are sequences of media, three at most.             *)
LEMMA Lists ==
  ASSUME NEW list \in Attachments
  PROVE  /\ Len(list) \in 0 .. 3 /\ DOMAIN list = 1 .. Len(list)
         /\ \A j \in 1 .. Len(list) : list[j] \in Media
         /\ list # <<>> => Len(list) # 0
<1>1. list \in Seq(Media) /\ Len(list) <= 3
  BY BoundsAssumption
<1>2. list # <<>> => Len(list) # 0
  BY <1>1, EmptySeq
<1>3. Len(list) \in Nat /\ DOMAIN list = 1 .. Len(list)
  BY <1>1, LenProperties
<1>4. \A j \in 1 .. Len(list) : list[j] \in Media
  BY <1>1, ElementOfSeq
<1> QED BY <1>1, <1>2, <1>3, <1>4

(* The same of a stored post's list.                                       *)
LEMMA StoredLists ==
  ASSUME TypeOK, NEW q \in Posts
  PROVE  /\ Len(posts[q].media) \in 0 .. 3 /\ DOMAIN posts[q].media = 1 .. Len(posts[q].media)
         /\ \A j \in 1 .. Len(posts[q].media) : posts[q].media[j] \in Media
         /\ Listed(q) = {posts[q].media[j] : j \in 1 .. Len(posts[q].media)}
         /\ posts[q].media \in Attachments \cup {<<>>}
<1>1. posts[q].media \in Attachments \cup {<<>>}
  BY DEF TypeOK, PostType
<1>2. CASE posts[q].media \in Attachments
  BY <1>1, <1>2, Lists DEF Listed
<1>3. CASE posts[q].media = <<>>
  <2>1. Len(<<>>) = 0 /\ DOMAIN <<>> = 1 .. 0
    OBVIOUS
  <2>2. Len(posts[q].media) = 0 /\ DOMAIN posts[q].media = 1 .. 0
    BY <1>3, <2>1
  <2> QED BY <1>1, <2>2 DEF Listed
<1> QED BY <1>1, <1>2, <1>3

LEMMA BlankType == Blank \in LocType
  BY DEF Blank, LocType

LEMMA InvInit == Init => Inv
<1> SUFFICES ASSUME Init PROVE Inv
  OBVIOUS
<1>1. NoPost \in PostType /\ NoMedia \in MediaType
  BY DEF NoPost, NoMedia, PostType, MediaType
<1>2. TypeOK
  BY <1>1, BlankType, BoundsAssumption DEF Init, TypeOK, Labels
<1>3. LinkSound /\ TurnsToCome /\ GrantJustified /\ ModerationHolds
  BY DEF Init, NoPost, NoMedia, LinkSound, TurnsToCome, GrantJustified, ModerationHolds, Shown
<1>4. \A p \in Handlers : Knows(p)
  BY DEF Init, Knows
<1> QED BY <1>2, <1>3, <1>4 DEF Inv

----------------------------------------------------------------------------
(* What a handler's move is, and what the handlers that do not move keep   *)

Grant(p) == pc[p] = "granted" =>
    /\ \/ loc[p].who \in Admins
       \/ loc[p].who = media[loc[p].media].owner
       \/ media[loc[p].media].link # None
    /\ loc[p].hidden /\ loc[p].who \notin Admins =>
          loc[p].post = None /\ loc[p].who = media[loc[p].media].owner

LEMMA Grants == GrantJustified /\ ModerationHolds <=> \A p \in Handlers : Grant(p)
  BY DEF GrantJustified, ModerationHolds, Grant

LEMMA StartMoves ==
  ASSUME TypeOK, NEW p \in Handlers, NEW op, NEW l \in Labels, NEW read \in LocType,
         Start(p, op, l, read)
  PROVE  /\ pc' \in [Handlers -> Labels] /\ loc' \in [Handlers -> LocType]
         /\ pc[p] = "idle" /\ pc'[p] = l /\ loc'[p] = read /\ Moves(p)
  BY DEF TypeOK, Start, Moves

LEMMA GotoMoves ==
  ASSUME TypeOK, NEW p \in Handlers, NEW l \in Labels, Goto(p, l), loc' = loc
  PROVE  /\ pc' \in [Handlers -> Labels] /\ loc' \in [Handlers -> LocType]
         /\ pc'[p] = l /\ loc'[p] = loc[p] /\ Moves(p)
  BY DEF TypeOK, Goto, Moves

LEMMA DoneMoves ==
  ASSUME TypeOK, NEW p \in Handlers, Done(p)
  PROVE  /\ pc' \in [Handlers -> Labels] /\ loc' \in [Handlers -> LocType]
         /\ pc'[p] = "idle" /\ Moves(p) /\ Knows(p)' /\ Grant(p)'
<1>1. /\ pc' \in [Handlers -> Labels] /\ loc' \in [Handlers -> LocType]
      /\ pc'[p] = "idle" /\ Moves(p)
  BY BlankType DEF TypeOK, Done, Goto, Labels, Moves
<1> QED BY <1>1 DEF Knows, Grant

LEMMA KnowsKept ==
  ASSUME Inv, Stable, NEW r \in Handlers, pc'[r] = pc[r], loc'[r] = loc[r]
  PROVE  Knows(r)' /\ Grant(r)'
<1> USE DEF Inv
<1>1. ASSUME NEW x, NEW m, Vetted(x, m) PROVE Vetted(x, m)'
  BY <1>1 DEF Vetted, Stable
<1>2. ASSUME NEW q \in Posts, Shown(q)
      PROVE  /\ Shown(q)' /\ posts'[q].author = posts[q].author /\ posts'[q].kind = posts[q].kind
             /\ posts'[q].media = posts[q].media
             /\ posts[q].kind = "INBOX" /\ posts[q].status = "REMOVED" => posts'[q].status = "REMOVED"
  BY <1>2 DEF Stable, Shown
<1>3. Knows(r)
  OBVIOUS
<1>4. /\ pc[r] = "validate" => \A j \in 1 .. (loc[r].i - 1) : Vetted(loc[r].list[j], loc[r].who)'
      /\ pc[r] \in {"insert", "link"} =>
            \A j \in 1 .. Len(loc[r].list) : Vetted(loc[r].list[j], loc[r].who)'
  BY <1>1, <1>3 DEF Knows
<1>5. /\ pc[r] = "read_post" => media'[loc[r].media].link # None
      /\ pc[r] \in {"confirm", "read_post", "granted"} => media'[loc[r].media].state # "none"
  BY <1>3 DEF Knows, Stable
<1>6. pc[r] = "validate" => \A j \in 1 .. (loc'[r].i - 1) : Vetted(loc[r].list[j], loc[r].who)'
  BY <1>4
<1>7. Knows(r)'
  BY <1>2, <1>3, <1>4, <1>5, <1>6 DEF Knows, Vetted
<1>8. Grant(r)'
  <2>1. SUFFICES ASSUME pc[r] = "granted" PROVE Grant(r)'
    BY DEF Grant
  <2>2. Grant(r) /\ loc[r].media \in Media /\ media[loc[r].media].state # "none"
    BY <2>1, <1>3, Grants DEF Knows
  <2> QED BY <2>1, <2>2 DEF Grant, Stable
<1> QED BY <1>7, <1>8

LEMMA LinkKept ==
  ASSUME Inv, Stable, \A x \in Media : media'[x].link = media[x].link
  PROVE  LinkSound'
  BY DEF Inv, TypeOK, MediaType, LinkSound, Stable, Shown, Listed

LEMMA TurnsKept ==
  ASSUME Inv, Stable, cut' = cut, \A q \in Posts : Shown(q)' => Shown(q),
         \A r \in Handlers : pc[r] = "link" => pc'[r] = "link" /\ loc'[r] = loc[r]
  PROVE  TurnsToCome'
<1> SUFFICES ASSUME NEW q \in Posts \ cut, Shown(q)', NEW j \in 1 .. Len(posts'[q].media)
             PROVE  \/ media'[posts'[q].media[j]].link # None
                    \/ media'[posts'[q].media[j]].state = "deleted"
                    \/ \E p \in Handlers : pc'[p] = "link" /\ loc'[p].post = q /\ loc'[p].i <= j
  BY DEF TurnsToCome
<1>1. Shown(q) /\ posts'[q].media = posts[q].media
  BY DEF Stable, Shown
<1>2. posts[q].media[j] \in Media
  BY <1>1, StoredLists DEF Inv
<1>3. \/ media[posts[q].media[j]].link # None
      \/ media[posts[q].media[j]].state = "deleted"
      \/ \E p \in Handlers : pc[p] = "link" /\ loc[p].post = q /\ loc[p].i <= j
  BY <1>1 DEF Inv, TurnsToCome
<1> QED BY <1>1, <1>2, <1>3 DEF Stable

LEMMA Keep ==
  ASSUME Inv, TypeOK', Stable, LinkSound', TurnsToCome',
         \A r \in Handlers : \/ pc'[r] = pc[r] /\ loc'[r] = loc[r]
                             \/ Knows(r)' /\ Grant(r)'
  PROVE  Inv'
<1>1. \A r \in Handlers : Knows(r)' /\ Grant(r)'
  BY KnowsKept
<1>2. GrantJustified' /\ ModerationHolds'
  BY <1>1 DEF Grant, GrantJustified, ModerationHolds
<1> QED BY <1>1, <1>2 DEF Inv

----------------------------------------------------------------------------
(* Moves that only read                                                    *)

LEMMA Quiet ==
  ASSUME Inv, NEW p \in Handlers, UNCHANGED <<posts, media, faults, cut>>,
         pc' \in [Handlers -> Labels], loc' \in [Handlers -> LocType],
         Moves(p), pc[p] # "link", Knows(p)' /\ Grant(p)'
  PROVE  Inv' /\ Stable
<1>1. Stable
  BY DEF Stable, Inv, TypeOK, MediaType, LinkSound, Shown
<1>2. TypeOK'
  BY DEF Inv, TypeOK
<1>3. LinkSound'
  BY <1>1, LinkKept
<1>4. TurnsToCome'
  BY <1>1, TurnsKept DEF Moves, Shown
<1> QED BY <1>1, <1>2, <1>3, <1>4, Keep DEF Moves

LEMMA UploadReads == ASSUME Inv, NEW p \in Handlers, ConfirmFind(p) PROVE Inv' /\ Stable
<1>1. PICK m \in Members, x \in Stored : ConfirmFind(p)!(m, x)
  BY DEF ConfirmFind
<1> DEFINE read == [Blank EXCEPT !.who = m, !.media = x]
<1>2. read \in LocType /\ "confirm" \in Labels /\ x \in Media
  BY BlankType DEF LocType, Labels, Stored
<1>3. /\ pc' \in [Handlers -> Labels] /\ loc' \in [Handlers -> LocType]
      /\ pc[p] = "idle" /\ pc'[p] = "confirm" /\ loc'[p] = read /\ Moves(p)
  BY <1>1, <1>2, StartMoves DEF Inv
<1>4. Knows(p)' /\ Grant(p)'
  <2>1. loc'[p].media = x /\ media'[x].state # "none"
    BY <1>1, <1>3 DEF Blank, Stored
  <2> QED BY <1>2, <1>3, <2>1 DEF Knows, Grant
<1> QED BY <1>1, <1>3, <1>4, Quiet

LEMMA ModerationReads ==
  ASSUME Inv, NEW p \in Handlers, ResolveFind(p) \/ RemoveFind(p)
  PROVE  Inv' /\ Stable
<1>1. PICK q \in Posts, l \in {"resolve", "remove"} :
        /\ Start(p, "moderate", l, [Blank EXCEPT !.post = q])
        /\ l = "resolve" => posts[q].kind = "EMERGENCY"
        /\ Shown(q)
        /\ UNCHANGED <<posts, media, faults, cut>>
  BY DEF ResolveFind, RemoveFind
<1> DEFINE read == [Blank EXCEPT !.post = q]
<1>2. read \in LocType /\ l \in Labels /\ read.post = q
  BY BlankType DEF LocType, Labels, Blank
<1>3. /\ pc' \in [Handlers -> Labels] /\ loc' \in [Handlers -> LocType]
      /\ pc[p] = "idle" /\ pc'[p] = l /\ loc'[p] = read /\ Moves(p)
  BY <1>1, <1>2, StartMoves DEF Inv
<1>4. Knows(p)' /\ Grant(p)'
  BY <1>1, <1>2, <1>3 DEF Knows, Grant, Shown
<1> QED BY <1>1, <1>3, <1>4, Quiet

LEMMA ViewReads ==
  ASSUME Inv, NEW p \in Handlers, FindMedia(p) \/ ReadPost(p) \/ SendUrl(p)
  PROVE  Inv' /\ Stable
<1>1. CASE FindMedia(p)
  <2>1. PICK m \in Members, x \in Stored : FindMedia(p)!(m, x)
    BY <1>1 DEF FindMedia
  <2>2. x \in Media /\ media[x].state # "none" /\ media[x].link \in Posts \cup {None}
        /\ Hidden(x) \in BOOLEAN
    BY DEF Stored, Hidden, Inv, TypeOK, MediaType
  <2>3. CASE media[x].link = None
    <3> DEFINE read == [Blank EXCEPT !.who = m, !.media = x, !.hidden = Hidden(x)]
    <3>1. read \in LocType /\ "granted" \in Labels
      BY <2>2, BlankType DEF LocType, Labels
    <3>2. Start(p, "view", "granted", read)
      BY <2>1, <2>3
    <3>3. /\ pc' \in [Handlers -> Labels] /\ loc' \in [Handlers -> LocType]
          /\ pc[p] = "idle" /\ pc'[p] = "granted" /\ loc'[p] = read /\ Moves(p)
      BY <3>1, <3>2, StartMoves DEF Inv
    <3>4. loc'[p].media = x /\ loc'[p].who = m /\ loc'[p].post = None
      BY <3>3 DEF Blank
    <3>5. Knows(p)' /\ Grant(p)'
      BY <2>1, <2>2, <2>3, <3>3, <3>4 DEF Knows, Grant
    <3> QED BY <2>1, <3>3, <3>5, Quiet
  <2>4. CASE media[x].link # None
    <3> DEFINE q == media[x].link
               read == [Blank EXCEPT !.who = m, !.media = x, !.post = q, !.hidden = Hidden(x)]
    <3>1. read \in LocType /\ "read_post" \in Labels
      BY <2>2, BlankType DEF LocType, Labels
    <3>2. Start(p, "view", "read_post", read)
      BY <2>1, <2>4
    <3>3. /\ pc' \in [Handlers -> Labels] /\ loc' \in [Handlers -> LocType]
          /\ pc[p] = "idle" /\ pc'[p] = "read_post" /\ loc'[p] = read /\ Moves(p)
      BY <3>1, <3>2, StartMoves DEF Inv
    <3>4. loc'[p].media = x /\ loc'[p].post = q /\ loc'[p].hidden = Hidden(x)
      BY <3>3 DEF Blank
    <3>5. q \in Posts /\ Shown(q) /\ x \in Listed(q)
      BY <2>2, <2>4 DEF Inv, LinkSound
    <3>6. Hidden(x) => posts[q].kind = "INBOX" /\ posts[q].status = "REMOVED"
      BY <3>5 DEF Hidden
    <3>7. Knows(p)' /\ Grant(p)'
      BY <2>1, <2>2, <2>4, <3>3, <3>4, <3>5, <3>6 DEF Knows, Grant, Shown
    <3> QED BY <2>1, <3>3, <3>7, Quiet
  <2> QED BY <2>3, <2>4
<1>2. CASE ReadPost(p)
  <2>1. /\ loc[p].media \in Media /\ media[loc[p].media].state # "none"
        /\ media[loc[p].media].link # None
        /\ loc[p].hidden => posts[loc[p].post].status = "REMOVED"
    BY <1>2 DEF ReadPost, Inv, Knows
  <2>2. CASE posts[loc[p].post].status # "REMOVED" \/ loc[p].who \in Admins
    <3>1. Goto(p, "granted") /\ loc' = loc /\ "granted" \in Labels
      BY <1>2, <2>2 DEF ReadPost, GoOnIf, Labels
    <3>2. /\ pc' \in [Handlers -> Labels] /\ loc' \in [Handlers -> LocType]
          /\ pc'[p] = "granted" /\ loc'[p] = loc[p] /\ Moves(p)
      BY <3>1, GotoMoves DEF Inv
    <3>3. Knows(p)' /\ Grant(p)'
      BY <1>2, <2>1, <2>2, <3>2 DEF ReadPost, Knows, Grant
    <3> QED BY <1>2, <3>2, <3>3, Quiet DEF ReadPost
  <2>3. CASE ~(posts[loc[p].post].status # "REMOVED" \/ loc[p].who \in Admins)
    BY <1>2, <2>3, DoneMoves, Quiet DEF ReadPost, GoOnIf, Inv
  <2> QED BY <2>2, <2>3
<1>3. CASE SendUrl(p)
  BY <1>3, DoneMoves, Quiet DEF SendUrl, Inv
<1> QED BY <1>1, <1>2, <1>3

LEMMA CreateReads ==
  ASSUME Inv, NEW p \in Handlers, CreateStart(p) \/ Validate(p) \/ OutOfPosts(p)
  PROVE  Inv' /\ Stable
<1>1. CASE CreateStart(p)
  <2>1. PICK m \in Members, kind \in {"INBOX", "EMERGENCY"}, list \in Attachments :
          CreateStart(p)!(m, kind, list)
    BY <1>1 DEF CreateStart
  <2> DEFINE read == [Blank EXCEPT !.who = m, !.kind = kind, !.list = list, !.i = 1]
             l == IF list = <<>> THEN "insert" ELSE "validate"
  <2>2. read \in LocType /\ l \in Labels
    <3>1. 1 \in 0 .. 3 /\ list \in Attachments \cup {<<>>}
      OBVIOUS
    <3>2. read \in LocType
      BY <3>1, BlankType DEF LocType
    <3>3. l \in Labels
      BY DEF Labels
    <3> QED BY <3>2, <3>3
  <2>3. read.who = m /\ read.list = list /\ read.i = 1
    BY DEF Blank
  <2>4. /\ pc' \in [Handlers -> Labels] /\ loc' \in [Handlers -> LocType]
        /\ pc[p] = "idle" /\ pc'[p] = l /\ loc'[p] = read /\ Moves(p)
    <3>1. Start(p, "create", l, read)
      BY <2>1
    <3>2. TypeOK
      BY DEF Inv
    <3> HIDE DEF read, l
    <3> QED BY <2>2, <3>1, <3>2, StartMoves
  <2>5. Len(list) \in 0 .. 3 /\ (list # <<>> => Len(list) # 0) /\ (list = <<>> => Len(list) = 0)
    BY Lists
  <2>6. Knows(p)' /\ Grant(p)'
    BY <2>3, <2>4, <2>5 DEF Knows, Grant
  <2> QED BY <2>1, <2>4, <2>6, Quiet
<1>2. CASE Validate(p)
  <2>1. /\ loc[p].list \in Attachments /\ loc[p].who \in Members
        /\ loc[p].i \in 1 .. Len(loc[p].list) /\ Len(loc[p].list) \in 0 .. 3
        /\ \A j \in 1 .. (loc[p].i - 1) : Vetted(loc[p].list[j], loc[p].who)
        /\ loc[p] \in LocType
    BY <1>2, Lists DEF Validate, Inv, Knows, TypeOK
  <2>2. CASE ~Acceptable(ListedNow(p), loc[p].who)
    BY <1>2, <2>2, DoneMoves, Quiet DEF Validate, Inv
  <2>3. CASE Acceptable(ListedNow(p), loc[p].who)
    <3>2. \A j \in 1 .. loc[p].i : Vetted(loc[p].list[j], loc[p].who)
      <4>1. Vetted(loc[p].list[loc[p].i], loc[p].who)
        BY <2>3 DEF Acceptable, ListedNow, Stored, Vetted
      <4> QED BY <2>1, <4>1
    <3>3. PICK l \in {"insert", "validate"}, n \in 1 .. 3 :
            /\ Goto(p, l) /\ loc' = [loc EXCEPT ![p].i = n]
            /\ l = "insert" => n = 1 /\ loc[p].i = Len(loc[p].list)
            /\ l = "validate" => n = loc[p].i + 1 /\ n <= Len(loc[p].list)
      <4>1. CASE LastOne(p)
        BY <1>2, <2>3, <4>1 DEF Validate, LastOne
      <4>2. CASE ~LastOne(p)
        <5>1. loc[p].i + 1 \in 1 .. 3 /\ loc[p].i + 1 <= Len(loc[p].list)
          <6>1. PICK k \in Int, n \in Int : k = loc[p].i /\ n = Len(loc[p].list)
            BY <2>1
          <6>2. k \in 1 .. n /\ n \in 0 .. 3 /\ k # n
            BY <2>1, <4>2, <6>1 DEF LastOne
          <6>3. k + 1 \in 1 .. 3 /\ k + 1 <= n
            BY <6>2
          <6> QED BY <6>1, <6>3
        <5>2. Goto(p, "validate") /\ loc' = [loc EXCEPT ![p].i = loc[p].i + 1]
          BY <1>2, <2>3, <4>2 DEF Validate, NextOne, Goto, Inv, TypeOK
        <5> QED BY <5>1, <5>2
      <4> QED BY <4>1, <4>2
    <3>4. /\ pc' \in [Handlers -> Labels] /\ loc' \in [Handlers -> LocType]
          /\ pc'[p] = l /\ Moves(p)
      BY <3>3 DEF Goto, Inv, TypeOK, Labels, LocType, Moves
    <3>5. loc'[p].list = loc[p].list /\ loc'[p].who = loc[p].who /\ loc'[p].i = n
      BY <3>3 DEF Inv, TypeOK, LocType
    <3>6. /\ l = "validate" => \A j \in 1 .. (loc'[p].i - 1) : Vetted(loc[p].list[j], loc[p].who)
          /\ l = "insert" => \A j \in 1 .. Len(loc[p].list) : Vetted(loc[p].list[j], loc[p].who)
      BY <2>1, <3>2, <3>3, <3>5
    <3>7. Knows(p)' /\ Grant(p)'
      <4>1. /\ l = "validate" => (\A j \in 1 .. (loc[p].i - 1) : Vetted(loc[p].list[j], loc[p].who))'
            /\ l = "insert" => (\A j \in 1 .. Len(loc[p].list) : Vetted(loc[p].list[j], loc[p].who))'
        BY <1>2, <3>5, <3>6 DEF Validate, Vetted
      <4>2. l = "validate" => (loc[p].i \in 1 .. Len(loc[p].list))'
        BY <2>1, <3>3, <3>5
      <4> QED BY <2>1, <3>3, <3>4, <3>5, <4>1, <4>2 DEF Knows, Grant
    <3> QED BY <1>2, <3>4, <3>7, Quiet DEF Validate
  <2> QED BY <2>2, <2>3
<1>3. CASE OutOfPosts(p)
  BY <1>3, DoneMoves, Quiet DEF OutOfPosts, Inv
<1> QED BY <1>1, <1>2, <1>3

----------------------------------------------------------------------------
(* Moves that write                                                        *)

(* A write to one media object that links nothing.                         *)
LEMMA MediaWrite ==
  ASSUME Inv, NEW x \in Media, NEW y \in MediaType, media' = [media EXCEPT ![x] = y],
         y.link = media[x].link,
         media[x].state # "none" => y.state # "none" /\ y.owner = media[x].owner,
         media[x].state \in {"CONFIRMED", "deleted"} => y.state \in {"CONFIRMED", "deleted"},
         media[x].state = "deleted" => y.state = "deleted",
         media[x].link # None => y.state = "CONFIRMED",
         UNCHANGED <<posts, faults, cut>>,
         pc' \in [Handlers -> Labels], loc' \in [Handlers -> LocType],
         \A r \in Handlers : pc[r] = "link" => pc'[r] = "link" /\ loc'[r] = loc[r],
         \A r \in Handlers : \/ pc'[r] = pc[r] /\ loc'[r] = loc[r]
                             \/ Knows(r)' /\ Grant(r)'
  PROVE  Inv' /\ Stable
<1>1. /\ media' \in [Media -> MediaType] /\ media'[x] = y
      /\ \A z \in Media \ {x} : media'[z] = media[z]
  BY DEF Inv, TypeOK
<1>2. TypeOK'
  BY <1>1 DEF Inv, TypeOK
<1>3. Stable
  BY <1>1 DEF Stable, Shown, Inv, LinkSound
<1>4. LinkSound'
  BY <1>1, <1>3, LinkKept
<1>5. TurnsToCome'
  BY <1>3, TurnsKept DEF Shown
<1> QED BY <1>2, <1>3, <1>4, <1>5, Keep

LEMMA EnvironmentWrites == ASSUME Inv, UploadIntent \/ Age \/ DeleteOrphan PROVE Inv' /\ Stable
<1> USE DEF Inv
<1>0. pc' = pc /\ loc' = loc /\ UNCHANGED <<posts, faults, cut>>
  BY DEF UploadIntent, Age, DeleteOrphan
<1>1. CASE UploadIntent
  <2>1. PICK x \in Media, m \in Members : UploadIntent!(x, m)
    BY <1>1 DEF UploadIntent
  <2> DEFINE y == [state |-> "PENDING", owner |-> m, link |-> None, old |-> FALSE]
  <2>2. y \in MediaType
    BY DEF MediaType
  <2>3. media[x].link = None
    BY <2>1 DEF LinkSound
  <2> HIDE DEF Inv
  <2> QED BY <1>0, <2>1, <2>2, <2>3, MediaWrite DEF Inv, TypeOK
<1>2. CASE Age
  <2>1. PICK x \in Stored : Age!(x)
    BY <1>2 DEF Age
  <2> DEFINE y == [media[x] EXCEPT !.old = TRUE]
  <2>2. x \in Media /\ y \in MediaType
    BY DEF Stored, TypeOK, MediaType
  <2>3. y.link = media[x].link /\ y.owner = media[x].owner /\ y.state = media[x].state
    BY <2>2 DEF TypeOK, MediaType
  <2>4. media[x].link # None => y.state = "CONFIRMED"
    BY <2>2, <2>3 DEF LinkSound
  <2>5. media' = [media EXCEPT ![x] = y]
    BY <2>1, <2>2 DEF TypeOK
  <2> HIDE DEF y, Inv
  <2> QED BY <1>0, <2>2, <2>3, <2>4, <2>5, MediaWrite DEF Inv, TypeOK
<1>3. CASE DeleteOrphan
  <2>1. PICK x \in Stored : DeleteOrphan!(x)
    BY <1>3 DEF DeleteOrphan
  <2> DEFINE y == [media[x] EXCEPT !.state = "deleted"]
  <2>2. x \in Media /\ y \in MediaType
    BY DEF Stored, TypeOK, MediaType
  <2>3. y.link = media[x].link /\ y.owner = media[x].owner /\ y.state = "deleted"
    BY <2>2 DEF TypeOK, MediaType
  <2>4. media[x].link = None
    BY <2>1
  <2>5. media' = [media EXCEPT ![x] = y]
    BY <2>1, <2>2 DEF TypeOK
  <2> HIDE DEF y, Inv
  <2> QED BY <1>0, <2>2, <2>3, <2>4, <2>5, MediaWrite DEF Inv, TypeOK
<1> QED BY <1>1, <1>2, <1>3

LEMMA ConfirmWrites == ASSUME Inv, NEW p \in Handlers, Confirm(p) PROVE Inv' /\ Stable
<1>1. /\ pc' \in [Handlers -> Labels] /\ loc' \in [Handlers -> LocType]
      /\ pc'[p] = "idle" /\ Moves(p) /\ Knows(p)' /\ Grant(p)'
  BY DoneMoves DEF Confirm, Inv
<1>2. pc[p] = "confirm" /\ loc[p].media \in Media /\ UNCHANGED <<posts, faults, cut>>
  BY DEF Confirm, Inv, Knows
<1>3. CASE loc[p].media \in Stored
  <2> DEFINE x == loc[p].media
             y == [media[x] EXCEPT !.state = "CONFIRMED"]
  <2>1. y \in MediaType /\ y.link = media[x].link /\ y.owner = media[x].owner
        /\ y.state = "CONFIRMED" /\ media[x].state # "deleted"
    BY <1>2, <1>3 DEF Stored, Inv, TypeOK, MediaType
  <2>2. media' = [media EXCEPT ![x] = y]
    BY <1>2, <1>3 DEF Confirm, Inv, TypeOK
  <2> HIDE DEF y
  <2> QED BY <1>1, <1>2, <2>1, <2>2, MediaWrite DEF Moves
<1>4. CASE loc[p].media \notin Stored
  <2>1. media' = media
    BY <1>4 DEF Confirm
  <2> QED BY <1>1, <1>2, <2>1, Quiet
<1> QED BY <1>3, <1>4

LEMMA ModerationWrites == ASSUME Inv, NEW p \in Handlers, Moderate(p) PROVE Inv' /\ Stable
<1>1. /\ pc' \in [Handlers -> Labels] /\ loc' \in [Handlers -> LocType]
      /\ pc'[p] = "idle" /\ Moves(p) /\ Knows(p)' /\ Grant(p)'
  BY DoneMoves DEF Moderate, Inv
<1>2. PICK q \in Posts, st \in {"RESOLVED", "REMOVED"} :
        /\ Shown(q) /\ posts' = [posts EXCEPT ![q].status = st]
        /\ posts[q].kind = "INBOX" => st = "REMOVED"
  BY DEF Moderate, Inv, Knows
<1>3. pc[p] # "link" /\ UNCHANGED <<media, faults, cut>>
  BY DEF Moderate
<1>4. TypeOK'
  BY <1>1, <1>2, <1>3 DEF Inv, TypeOK, PostType
<1>5. /\ \A s \in Posts \ {q} : posts'[s] = posts[s]
      /\ posts'[q].status = st /\ posts'[q].author = posts[q].author
      /\ posts'[q].kind = posts[q].kind /\ posts'[q].media = posts[q].media
  BY <1>2 DEF Inv, TypeOK, PostType
<1>6. Stable
  BY <1>2, <1>3, <1>5 DEF Stable, Shown, Inv, LinkSound
<1>7. LinkSound'
  BY <1>3, <1>6, LinkKept
<1>8. TurnsToCome'
  <2>1. \A s \in Posts : Shown(s)' => Shown(s)
    BY <1>2, <1>5 DEF Shown
  <2> QED BY <1>1, <1>3, <1>6, <2>1, TurnsKept DEF Moves
<1> QED BY <1>1, <1>4, <1>6, <1>7, <1>8, Keep DEF Moves

LEMMA InsertWrites == ASSUME Inv, NEW p \in Handlers, InsertPost(p) PROVE Inv' /\ Stable
<1> DEFINE list == loc[p].list
<1>1. PICK q \in Posts : InsertPost(p)!(q)
  BY DEF InsertPost
<1>2. /\ list \in Attachments /\ loc[p].who \in Members /\ loc[p].i = 1 /\ loc[p] \in LocType
      /\ \A j \in 1 .. Len(list) : Vetted(list[j], loc[p].who)
      /\ UNCHANGED <<media, faults, cut>>
  BY <1>1 DEF Inv, Knows, TypeOK
<1> DEFINE new == [status |-> "ACTIVE", kind |-> loc[p].kind, author |-> loc[p].who,
                   media |-> loc[p].list]
<1>3. new \in PostType /\ posts' = [posts EXCEPT ![q] = new]
  BY <1>1, <1>2 DEF PostType, LocType
<1>4. /\ posts' \in [Posts -> PostType] /\ posts'[q] = new
      /\ \A s \in Posts \ {q} : posts'[s] = posts[s]
  BY <1>3 DEF Inv, TypeOK
<1>5. Stable
  BY <1>1, <1>2, <1>4 DEF Stable, Shown, Inv, LinkSound
<1>6. LinkSound'
  BY <1>2, <1>5, LinkKept
<1>7. /\ pc' \in [Handlers -> Labels] /\ loc' \in [Handlers -> LocType]
      /\ Moves(p) /\ Knows(p)' /\ Grant(p)'
      /\ list # <<>> => pc'[p] = "link" /\ loc'[p].post = q /\ loc'[p].i = 1
  <2>1. CASE list = <<>>
    BY <1>1, <2>1, DoneMoves DEF Inv
  <2>2. CASE list # <<>>
    <3>1. Goto(p, "link") /\ loc' = [loc EXCEPT ![p].post = q]
      BY <1>1, <2>2
    <3>2. /\ pc' \in [Handlers -> Labels] /\ loc' \in [Handlers -> LocType]
          /\ pc'[p] = "link" /\ Moves(p)
      BY <3>1, SMTT(30) DEF Goto, Inv, TypeOK, Labels, LocType, Moves
    <3>3. loc'[p].list = list /\ loc'[p].who = loc[p].who /\ loc'[p].i = 1 /\ loc'[p].post = q
      BY <1>2, <3>1 DEF Inv, TypeOK, LocType
    <3>4. 1 \in 1 .. Len(list)
      BY <1>2, <2>2, Lists
    <3>5. (\A j \in 1 .. Len(loc[p].list) : Vetted(loc[p].list[j], loc[p].who))'
      BY <1>2, <3>3 DEF Vetted
    <3>6. Knows(p)' /\ Grant(p)'
      BY <1>2, <1>4, <3>2, <3>3, <3>4, <3>5 DEF Knows, Grant, Shown
    <3> QED BY <3>2, <3>3, <3>6
  <2> QED BY <2>1, <2>2
<1>8. TurnsToCome'
  <2> SUFFICES ASSUME NEW s \in Posts \ cut, Shown(s)', NEW j \in 1 .. Len(posts'[s].media)
               PROVE  \/ media'[posts'[s].media[j]].link # None
                      \/ media'[posts'[s].media[j]].state = "deleted"
                      \/ \E r \in Handlers : pc'[r] = "link" /\ loc'[r].post = s /\ loc'[r].i <= j
    BY <1>2 DEF TurnsToCome
  <2>1. CASE s = q
    <3>1. list # <<>>
      <4>1. list = <<>> => Len(list) = 0
        OBVIOUS
      <4>2. j \in 1 .. Len(list)
        BY <1>4, <2>1
      <4> QED BY <4>1, <4>2
    <3>2. 1 <= j
      BY <1>2, <1>4, <2>1, Lists
    <3> QED BY <1>7, <2>1, <3>1, <3>2
  <2>2. CASE s # q
    <3>1. posts'[s] = posts[s] /\ Shown(s)
      BY <1>4, <2>2 DEF Shown
    <3>2. \/ media[posts[s].media[j]].link # None
          \/ media[posts[s].media[j]].state = "deleted"
          \/ \E r \in Handlers : pc[r] = "link" /\ loc[r].post = s /\ loc[r].i <= j
      BY <3>1 DEF Inv, TurnsToCome
    <3> QED BY <1>1, <1>2, <1>7, <3>1, <3>2 DEF Moves
  <2> QED BY <2>1, <2>2
<1>9. TypeOK'
  BY <1>2, <1>4, <1>7 DEF Inv, TypeOK
<1> QED BY <1>5, <1>6, <1>7, <1>8, <1>9, Keep DEF Moves

(* What create_post found out about an attachment holds when its turn to be*)
(* linked comes, and the attachments before it are done with.              *)
LEMMA LinkWrites == ASSUME Inv, NEW p \in Handlers, LinkMedia(p) PROVE Inv' /\ Stable
<1> DEFINE list == loc[p].list
           x == list[loc[p].i]
           q == loc[p].post
<1>1. /\ pc[p] = "link" /\ list \in Attachments /\ loc[p].who \in Members
      /\ loc[p].i \in 1 .. Len(list) /\ Len(list) \in 0 .. 3 /\ loc[p] \in LocType
      /\ \A j \in 1 .. Len(list) : Vetted(list[j], loc[p].who)
      /\ q \in Posts /\ Shown(q) /\ posts[q].author = loc[p].who /\ posts[q].media = list
      /\ UNCHANGED <<posts, faults, cut>>
  BY Lists DEF LinkMedia, Inv, Knows, TypeOK
<1>2. x \in Media /\ media[x].owner = posts[q].author /\ media[x].state \in {"CONFIRMED", "deleted"}
      /\ x \in Listed(q)
  <2>1. Vetted(x, loc[p].who)
    BY <1>1
  <2>2. x \in Listed(q)
    BY <1>1, StoredLists DEF Inv
  <2> QED BY <1>1, <2>1, <2>2 DEF Vetted
<1>3. PICK y \in MediaType :
        /\ media' = [media EXCEPT ![x] = y]
        /\ y.state = media[x].state /\ y.owner = media[x].owner
        /\ y.link = IF media[x].state = "CONFIRMED" THEN q ELSE media[x].link
  <2>1. CASE x \in Stored
    <3>1. [media[x] EXCEPT !.link = q] \in MediaType /\ media[x].state = "CONFIRMED"
      BY <1>1, <1>2, <2>1 DEF Inv, TypeOK, MediaType, Stored
    <3>2. media' = [media EXCEPT ![x] = [media[x] EXCEPT !.link = q]]
      BY <1>2, <2>1 DEF LinkMedia, ListedNow, Inv, TypeOK
    <3>3. /\ [media[x] EXCEPT !.link = q].state = media[x].state
          /\ [media[x] EXCEPT !.link = q].owner = media[x].owner
          /\ [media[x] EXCEPT !.link = q].link = q
      BY <1>2 DEF Inv, TypeOK, MediaType
    <3> QED BY <3>1, <3>2, <3>3
  <2>2. CASE x \notin Stored
    <3>1. media' = [media EXCEPT ![x] = media[x]] /\ media[x].state # "CONFIRMED"
          /\ media[x] \in MediaType
      BY <1>2, <2>2 DEF LinkMedia, ListedNow, Stored, Inv, TypeOK
    <3> QED BY <3>1
  <2> QED BY <2>1, <2>2
<1>4. /\ media' \in [Media -> MediaType] /\ media'[x] = y
      /\ \A z \in Media \ {x} : media'[z] = media[z]
  BY <1>2, <1>3 DEF Inv, TypeOK
<1>5. q # None
  BY <1>1, PeopleAssumption
<1>6. Stable
  BY <1>1, <1>2, <1>3, <1>4, <1>5 DEF Stable, Shown, Inv, LinkSound
<1>7. LinkSound'
  <2>1. ASSUME NEW z \in Media, media'[z].link # None
        PROVE  /\ media'[z].state = "CONFIRMED" /\ Shown(media[z].link)'
               /\ posts'[media'[z].link].author = media'[z].owner
               /\ z \in Listed(media[z].link)'
    <3>1. CASE z = x /\ media[x].state = "CONFIRMED"
      <4>1. y.link = q /\ y.state = "CONFIRMED" /\ y.owner = posts[q].author
        BY <1>2, <1>3, <3>1
      <4>2. media'[z] = y /\ media'[z].link = q
        BY <1>4, <3>1, <4>1
      <4>3. posts' = posts
        BY <1>1
      <4>4. Shown(media[z].link)' /\ posts'[media'[z].link].author = media'[z].owner
        BY <1>1, <4>1, <4>2, <4>3 DEF Shown
      <4>5. z \in Listed(media[z].link)'
        BY <1>2, <3>1, <4>2, <4>3 DEF Listed
      <4> QED BY <4>1, <4>2, <4>4, <4>5
    <3>2. CASE ~(z = x /\ media[x].state = "CONFIRMED")
      <4>1. media'[z].link = media[z].link /\ media'[z].state = media[z].state
            /\ media'[z].owner = media[z].owner
        BY <1>3, <1>4, <3>2
      <4> QED BY <1>1, <2>1, <4>1 DEF Inv, LinkSound, Shown, Listed
    <3> QED BY <3>1, <3>2
  <2> QED BY <2>1 DEF LinkSound
<1>8. /\ pc' \in [Handlers -> Labels] /\ loc' \in [Handlers -> LocType]
      /\ Moves(p) /\ Knows(p)' /\ Grant(p)'
      /\ \/ loc[p].i = Len(list)
         \/ pc'[p] = "link" /\ loc'[p].post = q /\ loc'[p].i = loc[p].i + 1
  <2>1. CASE LastOne(p)
    BY <2>1, DoneMoves DEF LinkMedia, LastOne, Inv
  <2>2. CASE ~LastOne(p)
    <3>1. pc' = pc /\ loc' = [loc EXCEPT ![p].i = loc[p].i + 1]
      BY <2>2 DEF LinkMedia, NextOne, Inv, TypeOK
    <3>2. loc[p].i + 1 \in 1 .. Len(list) /\ loc[p].i + 1 \in 0 .. 3
      <4>1. PICK k \in Int, n \in Int : k = loc[p].i /\ n = Len(list)
        BY <1>1
      <4>2. k \in 1 .. n /\ n \in 0 .. 3 /\ k # n
        BY <1>1, <2>2, <4>1 DEF LastOne
      <4>3. k + 1 \in 1 .. n /\ k + 1 \in 0 .. 3
        BY <4>2
      <4> QED BY <4>1, <4>3
    <3>3. loc' \in [Handlers -> LocType] /\ Moves(p)
      BY <3>1, <3>2 DEF Inv, TypeOK, LocType, Moves
    <3>4. loc'[p].list = list /\ loc'[p].who = loc[p].who /\ loc'[p].post = q
          /\ loc'[p].i = loc[p].i + 1
      BY <3>1 DEF Inv, TypeOK, LocType
    <3>5. (\A j \in 1 .. Len(loc[p].list) : Vetted(loc[p].list[j], loc[p].who))'
      <4>1. ASSUME NEW z, NEW m, Vetted(z, m) PROVE Vetted(z, m)'
        BY <1>6, <4>1 DEF Vetted, Stable
      <4> QED BY <1>1, <3>4, <4>1 DEF Vetted
    <3>6. Knows(p)' /\ Grant(p)'
      BY <1>1, <3>1, <3>2, <3>4, <3>5 DEF Knows, Grant, Shown
    <3> QED BY <1>1, <3>1, <3>3, <3>4, <3>6 DEF Inv, TypeOK
  <2> QED BY <2>1, <2>2
<1>9. TurnsToCome'
  <2> SUFFICES ASSUME NEW s \in Posts \ cut, Shown(s), NEW j \in 1 .. Len(posts[s].media)
               PROVE  \/ media'[posts[s].media[j]].link # None
                      \/ media'[posts[s].media[j]].state = "deleted"
                      \/ \E r \in Handlers : pc'[r] = "link" /\ loc'[r].post = s /\ loc'[r].i <= j
    BY <1>1 DEF TurnsToCome, Shown
  <2> DEFINE z == posts[s].media[j]
  <2>1. z \in Media
    BY StoredLists DEF Inv
  <2>2. \/ media[z].link # None
        \/ media[z].state = "deleted"
        \/ \E r \in Handlers : pc[r] = "link" /\ loc[r].post = s /\ loc[r].i <= j
    BY DEF Inv, TurnsToCome
  <2>3. CASE media[z].link # None \/ media[z].state = "deleted"
    BY <1>6, <2>1, <2>3 DEF Stable
  <2>4. ASSUME NEW r \in Handlers, pc[r] = "link", loc[r].post = s, loc[r].i <= j
        PROVE  \/ media'[z].link # None
               \/ media'[z].state = "deleted"
               \/ \E t \in Handlers : pc'[t] = "link" /\ loc'[t].post = s /\ loc'[t].i <= j
    <3>1. CASE r # p
      BY <1>8, <2>4, <3>1 DEF Moves
    <3>2. CASE r = p /\ j = loc[p].i
      <4>1. z = x
        BY <1>1, <2>4, <3>2
      <4> QED BY <1>2, <1>3, <1>4, <1>5, <4>1
    <3>3. CASE r = p /\ j # loc[p].i
      <4>1. PICK k \in Int, n \in Int : k = loc[p].i /\ n = Len(list)
        BY <1>1
      <4>2. j \in 1 .. n /\ k <= j /\ k # j
        BY <1>1, <2>4, <3>3, <4>1
      <4>3. k + 1 <= j /\ k # n
        BY <4>2
      <4>4. pc'[p] = "link" /\ loc'[p].post = q /\ loc'[p].i = k + 1
        BY <1>8, <4>1, <4>3
      <4> QED BY <2>4, <3>3, <4>3, <4>4
    <3> QED BY <3>1, <3>2, <3>3
  <2> QED BY <2>2, <2>3, <2>4
<1>10. TypeOK'
  BY <1>1, <1>4, <1>8 DEF Inv, TypeOK
<1> QED BY <1>6, <1>7, <1>8, <1>9, <1>10, Keep DEF Moves

LEMMA FailWrites == ASSUME Inv, NEW p \in Handlers, Fail(p) PROVE Inv' /\ Stable
<1>1. /\ pc' \in [Handlers -> Labels] /\ loc' \in [Handlers -> LocType]
      /\ Moves(p) /\ Knows(p)' /\ Grant(p)'
  BY DoneMoves DEF Fail, Inv
<1>2. faults' \in 0 .. MaxFaults /\ UNCHANGED <<posts, media>>
  BY BoundsAssumption DEF Fail, Inv, TypeOK
<1>3. /\ cut' \subseteq Posts /\ cut \subseteq cut'
      /\ pc[p] = "link" => loc[p].post \in cut'
  BY DEF Fail, Inv, TypeOK, Knows
<1>4. Stable
  BY <1>2 DEF Stable, Inv, TypeOK, MediaType, LinkSound, Shown
<1>5. TurnsToCome'
  <2> SUFFICES ASSUME NEW q \in Posts \ cut', Shown(q), NEW j \in 1 .. Len(posts[q].media)
               PROVE  \/ media[posts[q].media[j]].link # None
                      \/ media[posts[q].media[j]].state = "deleted"
                      \/ \E r \in Handlers : pc'[r] = "link" /\ loc'[r].post = q /\ loc'[r].i <= j
    BY <1>2 DEF TurnsToCome, Shown
  <2>1. \/ media[posts[q].media[j]].link # None
        \/ media[posts[q].media[j]].state = "deleted"
        \/ \E r \in Handlers : pc[r] = "link" /\ loc[r].post = q /\ loc[r].i <= j
    BY <1>3 DEF Inv, TurnsToCome
  <2> QED BY <1>1, <1>3, <2>1 DEF Moves
<1>6. TypeOK' /\ LinkSound'
  BY <1>1, <1>2, <1>3, <1>4, LinkKept DEF Inv, TypeOK
<1> QED BY <1>1, <1>4, <1>5, <1>6, Keep DEF Moves

LEMMA InvNext == Inv /\ [Next]_vars => Inv' /\ Stable
<1> SUFFICES ASSUME Inv, [Next]_vars PROVE Inv' /\ Stable
  OBVIOUS
<1>1. CASE UploadIntent \/ Age \/ DeleteOrphan
  BY <1>1, EnvironmentWrites
<1>2. ASSUME NEW p \in Handlers, Upload(p) PROVE Inv' /\ Stable
  BY <1>2, UploadReads, ConfirmWrites DEF Upload
<1>3. ASSUME NEW p \in Handlers, Create(p) PROVE Inv' /\ Stable
  BY <1>3, CreateReads, InsertWrites, LinkWrites DEF Create
<1>4. ASSUME NEW p \in Handlers, Moderation(p) PROVE Inv' /\ Stable
  BY <1>4, ModerationReads, ModerationWrites DEF Moderation
<1>5. ASSUME NEW p \in Handlers, View(p) PROVE Inv' /\ Stable
  BY <1>5, ViewReads DEF View
<1>6. ASSUME NEW p \in Handlers, Fail(p) PROVE Inv' /\ Stable
  BY <1>6, FailWrites
<1>7. CASE UNCHANGED vars
  <2>1. Inv'
    BY <1>7 DEF vars, Inv, TypeOK, LinkSound, TurnsToCome, GrantJustified, ModerationHolds, Knows,
                Vetted, Shown, Listed
  <2>2. Stable
    BY <1>7 DEF vars, Stable, Inv, TypeOK, MediaType, LinkSound, Shown
  <2> QED BY <2>1, <2>2
<1> QED BY <1>1, <1>2, <1>3, <1>4, <1>5, <1>6, <1>7 DEF Next

LEMMA Invariance == Spec => []Inv
  BY InvInit, InvNext, PTL DEF Spec

----------------------------------------------------------------------------
(* The results                                                             *)

(* Every document and every handler has its type: statuses are ACTIVE,     *)
(* RESOLVED or REMOVED, and no handler runs past the end of media_ids.     *)
THEOREM TypeCorrect == Spec => []TypeOK
  BY Invariance, PTL DEF Inv

(* Linked media is confirmed, its post exists, has the same author and     *)
(* lists it (create_post, link_to_post).                                   *)
THEOREM LinkSoundCorrect == Spec => []LinkSound
  BY Invariance, PTL DEF Inv

(* A post whose create_post was not cut short has, once answered, all its  *)
(* attachments linked, those cleanup deleted excepted.                     *)
THEOREM AttachmentsLinkedCorrect == Spec => []AttachmentsLinked
<1>1. ASSUME Inv PROVE AttachmentsLinked
  <2> SUFFICES ASSUME NEW q \in Posts \ cut, Shown(q), ~Linking(q), NEW x \in Listed(q)
               PROVE  media[x].link # None \/ media[x].state = "deleted"
    BY DEF AttachmentsLinked
  <2>1. PICK j \in 1 .. Len(posts[q].media) : x = posts[q].media[j]
    BY <1>1, StoredLists DEF Inv
  <2> QED BY <1>1, <2>1 DEF Inv, TurnsToCome, Linking
<1> QED BY <1>1, Invariance, PTL

(* get_access_url grants an unlinked media object to its owner and         *)
(* administrators only, up to the moment the URL goes out.                 *)
THEOREM GrantJustifiedCorrect == Spec => []GrantJustified
  BY Invariance, PTL DEF Inv

(* get_access_url grants what only removed inbox posts show to             *)
(* administrators only, or to the owner while it is not linked.            *)
THEOREM ModerationHoldsCorrect == Spec => []ModerationHolds
  BY Invariance, PTL DEF Inv

(* No step unlinks or deletes a linked media object, or changes a post's   *)
(* author or attachments.                                                  *)
THEOREM LinksKeptCorrect == Spec => LinksKept
<1>1. ASSUME Inv, [Next]_vars PROVE [Kept]_vars
  <2>1. Stable
    BY <1>1, InvNext
  <2> QED BY <2>1 DEF Kept, Stable, Shown
<1> QED BY <1>1, Invariance, PTL DEF Spec, LinksKept
=============================================================================
