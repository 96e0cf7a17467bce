---------------------------- MODULE MCPostsMedia ----------------------------
(* Instances of PostsMedia for TLC.                                         *)
EXTENDS PostsMedia, TLC

CONSTANTS ann, admin, x, y, q1, q2, h1, h2

\* one attachment, or two
Lists == {<<x>>, <<y, x>>}

\* one author at work while another request of any kind is served
Feed == [h \in Handlers |-> IF h = h1 THEN {"create"} ELSE Ops]

Sym == Permutations(Posts)
============================================================================
