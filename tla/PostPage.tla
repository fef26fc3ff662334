-------------------------------- MODULE PostPage --------------------------------
(***************************************************************************)
(* The thread under a post, as one request renders it for one viewer while *)
(* the moderation goes on: five queries for the comments, one for each     *)
(* status and each at its own time, what the viewer may read, and the tree. *)
(***************************************************************************)
EXTENDS Naturals, FiniteSets, Sequences

CONSTANTS
    PageComments,      \* comments of the post
    CreatedAt,         \* their created_at
    CommentLimit,      \* rows a query answers at most: 200
    ParentOf,          \* parent_comment_id, or NoParent
    NoParent,
    OwnComments        \* those the viewer wrote

ASSUME PageAssumption ==
    /\ CreatedAt \in [PageComments -> Nat]
    /\ CommentLimit \in Nat
    /\ ParentOf \in [PageComments -> PageComments \union {NoParent}]
    /\ NoParent \notin PageComments
    /\ OwnComments \subseteq PageComments
    /\ IsFiniteSet(PageComments)
    /\ \A S \in SUBSET PageComments :        \* a reply comes after its parent
          S # {} => \E c \in S : ParentOf[c] \notin S

VARIABLES
    commentStatus,
    viewerIsMod,       \* the viewer's role in the group is moderator
    page,              \* the step of the request
    asked,             \* statuses whose query has been answered
    fetched,           \* the comments each query answered
    settled            \* comments whose status has not changed since the request (history)

pageVars == <<commentStatus, viewerIsMod, page, asked, fetched, settled>>

statuses == <<"published", "pending_ai", "pending_review", "rejected", "withdrawn">>
Statuses == {statuses[i] : i \in DOMAIN statuses}

-------------------------------------------------------------------------------
(***************************************************************************)
(* What the viewer may read.                                               *)
(***************************************************************************)

isCommentVisible(c, s) == s = "published" \/ viewerIsMod \/ c \in OwnComments

-------------------------------------------------------------------------------
(***************************************************************************)
(* The rows of the five queries.                                           *)
(***************************************************************************)

Position(s) == CHOOSE i \in DOMAIN statuses : statuses[i] = s

\* Of the rows of one comment the first is kept.
Unique ==
    {row \in PageComments \X Statuses :
        /\ row[1] \in fetched[row[2]]
        /\ \A s \in Statuses :
              row[1] \in fetched[s] => Position(row[2]) <= Position(s)}

\* ORDER BY created_at LIMIT: the oldest rows, those of one time in any order.
Oldest(rows) ==
    {first \in SUBSET rows :
        /\ Cardinality(first) =
              IF Cardinality(rows) <= CommentLimit THEN Cardinality(rows) ELSE CommentLimit
        /\ \A c \in first, d \in rows \ first : CreatedAt[c] <= CreatedAt[d]}

Visible == {entry \in Unique : isCommentVisible(entry[1], entry[2])}

VisibleIds == {entry[1] : entry \in Visible}

-------------------------------------------------------------------------------
(***************************************************************************)
(* buildCommentTree: what the page shows is what its roots lead to.        *)
(***************************************************************************)

\* Mutant: orphans are left out.
RootsProper == {c \in VisibleIds : ParentOf[c] = NoParent}

\* A comment whose parent is not shown is shown at the root.
Roots == {c \in VisibleIds : ParentOf[c] \notin VisibleIds}

Children(parents) == {c \in VisibleIds : ParentOf[c] \in parents}

\* The least set with the roots in it and, with a comment, its children.
Rendered ==
    {c \in VisibleIds :
        \A shown \in SUBSET VisibleIds :
            Roots \subseteq shown /\ Children(shown) \subseteq shown => c \in shown}

-------------------------------------------------------------------------------
(***************************************************************************)
(* The request and the world around it.                                    *)
(***************************************************************************)

PageInit ==
    /\ commentStatus \in [PageComments -> Statuses]
    /\ viewerIsMod \in BOOLEAN
    /\ page = "fetching"
    /\ asked = {}
    /\ fetched = [s \in Statuses |-> {}]
    /\ settled = PageComments

\* What the worker, a moderator or the author does to a comment: the changes of
\* status of ModerationPipeline.
Moves(s) ==
    CASE s = "pending_ai" -> {"published", "pending_review", "rejected"}
      [] s = "pending_review" -> {"published", "rejected"}
      [] s = "rejected" -> {"published"}
      [] s = "published" -> {"withdrawn"}
      [] s = "withdrawn" -> {}

ChangeComment(c) ==
    /\ page = "fetching"
    /\ \E s \in Moves(commentStatus[c]) :
          commentStatus' = [commentStatus EXCEPT ![c] = s]
    /\ settled' = settled \ {c}
    /\ UNCHANGED <<viewerIsMod, page, asked, fetched>>

\* listCommentsForPost for one status, without an offset: the page never asks
\* for the rows after the first CommentLimit.
ListComments(s) ==
    /\ page = "fetching"
    /\ s \notin asked
    /\ asked' = asked \union {s}
    /\ \E first \in Oldest({c \in PageComments : commentStatus[c] = s}) :
          fetched' = [fetched EXCEPT ![s] = first]
    /\ UNCHANGED <<commentStatus, viewerIsMod, page, settled>>

\* Promise.all: the answers are all there.
Render ==
    /\ page = "fetching"
    /\ asked = Statuses
    /\ page' = "rendered"
    /\ UNCHANGED <<commentStatus, viewerIsMod, asked, fetched, settled>>

PageNext ==
    \/ Render
    \/ \E s \in Statuses : ListComments(s)
    \/ \E c \in PageComments : ChangeComment(c)

PageSpec == PageInit /\ [][PageNext]_pageVars

-------------------------------------------------------------------------------
(***************************************************************************)
(* Properties.                                                             *)
(***************************************************************************)

\* Types.
PageTypeOK ==
    /\ commentStatus \in [PageComments -> Statuses]
    /\ viewerIsMod \in BOOLEAN
    /\ page \in {"fetching", "rendered"}
    /\ asked \subseteq Statuses
    /\ fetched \in [Statuses -> SUBSET PageComments]
    /\ settled \subseteq PageComments

\* The query of status s was full, with comments none of which is younger.
CutOff(c, s) ==
    /\ Cardinality(fetched[s]) = CommentLimit
    /\ \A d \in fetched[s] : CreatedAt[d] <= CreatedAt[c]

\* The thread shows every comment the viewer may read whose status did not
\* change during the request, whatever became of its ancestors and of the
\* others, unless CommentLimit comments as old fill the query of its status; a
\* reply to a comment that is not shown is shown at the root.  And it shows each
\* comment it fetched twice in one status only.
ThreadIsFaithful ==
    page = "rendered" =>
        /\ \A c \in settled :
              isCommentVisible(c, commentStatus[c]) =>
                  \/ c \in Rendered /\ <<c, commentStatus[c]>> \in Visible
                  \/ c \notin VisibleIds /\ CutOff(c, commentStatus[c])
        /\ Cardinality(Visible) = Cardinality(VisibleIds)
===============================================================================
