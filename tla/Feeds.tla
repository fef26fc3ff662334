--------------------------------- MODULE Feeds ---------------------------------
(***************************************************************************)
(* Where published posts are found: the dashboard's feed, the hub of a     *)
(* goal and the page of a group.  Feed and hub list the newest published   *)
(* first and stop at a limit; the group's page lists in the order of       *)
(* creation.  A list is the set of the posts that stay within the limit.   *)
(* Posts are numbered in the order of creation, and published in any other.*)
(* A reader walks through the three in one tab, and follows goals and      *)
(* joins groups in another.                                                *)
(***************************************************************************)
EXTENDS Integers, FiniteSets

CONSTANTS
    Posts,          \* 1 .. n, in the order of creation
    Goals,          \* the SDGs
    Homes,          \* the groups
    HomeOf,         \* the group of each post
    TagsOf,         \* the goals of each post
    FeedLimit       \* 25 in feed and hub, 24 on the page of a group

ASSUME FeedsAssumption ==
    /\ Posts \subseteq Nat /\ IsFiniteSet(Posts)
    /\ HomeOf \in [Posts -> Homes]
    /\ TagsOf \in [Posts -> SUBSET Goals]
    /\ FeedLimit \in Nat \ {0}

VARIABLES
    postState,      \* status, and publishedAt (0: never published)
    published,      \* how many publications there have been, the clock
    joined,         \* the groups the reader belongs to
    followed,       \* the goals the reader follows
    screen          \* the page in the tab and what has been read for it

feedVars == <<postState, published, joined, followed, screen>>

Page == {"none", "dashboard", "hub", "group"}

\* A page that is being read, from the first of its reads to the last.
TabStep == {"reading", "read", "shown"}

IsPublished(p) == postState[p].status = "published"

\* Mutant: ORDER BY created_at DESC.
NewerByCreation(p, q) == p > q

\* ORDER BY published_at DESC.
Newer(p, q) == postState[p].publishedAt > postState[q].publishedAt

\* LIMIT: a post is listed while so few are ahead of it.
WithinLimit(ahead) == Cardinality(ahead) < FeedLimit

Newest(posts) == {p \in posts : WithinLimit({q \in posts : Newer(q, p)})}

listPostsForFeed(sdgIds) ==
    Newest({p \in Posts : IsPublished(p) /\
               (HomeOf[p] \in joined \/ TagsOf[p] \intersect sdgIds # {})})

\* Tags are written with the post and never change: the first of the two statements,
\* which looks the tagged posts up, is left out.
listPostsBySdg(goal) == Newest({p \in Posts : IsPublished(p) /\ goal \in TagsOf[p]})

\* The oldest posts of the group, by creation.
listPostsInGroup(home) ==
    LET posts == {p \in Posts : IsPublished(p) /\ HomeOf[p] = home}
    IN  {p \in posts : WithinLimit({q \in posts : q < p})}

Toggled(set, x) == IF x \in set THEN set \ {x} ELSE set \union {x}

-------------------------------------------------------------------------------
FeedsInit ==
    /\ postState = [p \in Posts |-> [status |-> "absent", publishedAt |-> 0]]
    /\ published = 0
    /\ joined = {}
    /\ followed = {}
    /\ screen = [page |-> "none", step |-> "shown", goals |-> {}, follows |-> {},
              posts |-> {}, at |-> 0]

\* Posts are created in the order of their numbers, and held until moderated.
AddPost(p) ==
    /\ postState[p].status = "absent"
    /\ \A q \in Posts : q < p => postState[q].status # "absent"
    /\ postState' = [postState EXCEPT ![p].status = "held"]
    /\ UNCHANGED <<published, joined, followed, screen>>

PublishPost(p) ==
    /\ postState[p].status = "held"
    /\ published' = published + 1
    /\ postState' = [postState EXCEPT
          ![p] = [status |-> "published", publishedAt |-> published + 1]]
    /\ UNCHANGED <<joined, followed, screen>>

\* The publication date of a withdrawn post is kept.
WithdrawPost(p) ==
    /\ IsPublished(p)
    /\ postState' = [postState EXCEPT ![p].status = "withdrawn"]
    /\ UNCHANGED <<published, joined, followed, screen>>

\* In the other tab.
JoinOrLeave(home) ==
    /\ joined' = Toggled(joined, home)
    /\ UNCHANGED <<postState, published, followed, screen>>

FollowOrUnfollow(g) ==
    /\ followed' = Toggled(followed, g)
    /\ UNCHANGED <<postState, published, joined, screen>>

\* The dashboard reads the followed goals first.
OpenDashboard ==
    /\ screen' = [page |-> "dashboard", step |-> "read", goals |-> Goals,
               follows |-> followed, posts |-> {}, at |-> 0]
    /\ UNCHANGED <<postState, published, joined, followed>>

\* They go into the query of the feed, which reads the memberships itself.
ReadFeed ==
    /\ screen.page = "dashboard"
    /\ screen.step = "read"
    /\ screen' = [screen EXCEPT !.step = "shown", !.posts = listPostsForFeed(screen.follows),
                          !.at = published]
    /\ UNCHANGED <<postState, published, joined, followed>>

\* The hub of a goal reads its posts first,
OpenHub(g) ==
    /\ screen' = [page |-> "hub", step |-> "read", goals |-> {g}, follows |-> {},
               posts |-> listPostsBySdg(g), at |-> published]
    /\ UNCHANGED <<postState, published, joined, followed>>

\* and then whether the reader follows it.
ReadFollowing ==
    /\ screen.page = "hub"
    /\ screen.step = "read"
    /\ screen' = [screen EXCEPT !.step = "shown", !.follows = followed \intersect screen.goals]
    /\ UNCHANGED <<postState, published, joined, followed>>

OpenGroup(home) ==
    /\ screen' = [page |-> "group", step |-> "shown", goals |-> {}, follows |-> {},
               posts |-> listPostsInGroup(home), at |-> published]
    /\ UNCHANGED <<postState, published, joined, followed>>

\* A goal's button, on the dashboard or on its hub, does what the page was
\* rendered with, and the page is read again.  Following twice inserts nothing,
\* unfollowing twice deletes nothing.
PressFollow(g) ==
    /\ screen.step = "shown"
    /\ g \in screen.goals
    /\ followed' = IF g \in screen.follows THEN followed \ {g} ELSE followed \union {g}
    /\ screen' = [screen EXCEPT !.step = "reading"]
    /\ UNCHANGED <<postState, published, joined>>

FeedsNext ==
    \/ \E p \in Posts : AddPost(p) \/ PublishPost(p) \/ WithdrawPost(p)
    \/ \E home \in Homes : JoinOrLeave(home) \/ OpenGroup(home)
    \/ \E g \in Goals : FollowOrUnfollow(g) \/ PressFollow(g) \/ OpenHub(g)
    \/ OpenDashboard
    \/ ReadFeed
    \/ ReadFollowing

FeedsSpec == FeedsInit /\ [][FeedsNext]_feedVars

-------------------------------------------------------------------------------
(***************************************************************************)
(* Properties.                                                             *)
(***************************************************************************)

\* Types.
FeedsTypeOK ==
    /\ postState \in [Posts -> [status : {"absent", "held", "published", "withdrawn"},
                                publishedAt : 0 .. Cardinality(Posts)]]
    /\ published \in 0 .. Cardinality(Posts)
    /\ joined \subseteq Homes
    /\ followed \subseteq Goals
    /\ screen \in [page : Page, step : TabStep, goals : SUBSET Goals,
                follows : SUBSET Goals, posts : SUBSET Posts, at : 0 .. Cardinality(Posts)]

\* A list that was read at time `at` leaves out no post it should have, unless
\* it is full of posts that were published later.
NothingNewerLeftOut(list, at, goals) ==
    \A p \in Posts :
        \/ ~IsPublished(p)
        \/ TagsOf[p] \intersect goals = {}
        \/ postState[p].publishedAt > at
        \/ p \in list
        \/ /\ Cardinality(list) = FeedLimit
           /\ \A q \in list :
                 postState[q].publishedAt > postState[p].publishedAt

\* A post that moderation held for long is not lost behind those that were
\* created after it and published before it: feed and hub show what was
\* published last, for the goals that are shown as followed.
FreshPostsAreSeen ==
    /\ screen.page = "dashboard" /\ screen.step # "read" =>
          NothingNewerLeftOut(screen.posts, screen.at, screen.follows)
    /\ screen.page = "hub" => NothingNewerLeftOut(screen.posts, screen.at, screen.goals)
===============================================================================
