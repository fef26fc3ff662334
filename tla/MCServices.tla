------------------------------ MODULE MCServices ------------------------------
(***************************************************************************)
(* A small instance of each of the services around the pipeline.  They     *)
(* share no state, so that a behaviour follows one of them, the focus,     *)
(* while the others stay where they start: the states are the sum of       *)
(* theirs and not the product.                                             *)
(***************************************************************************)
EXTENDS McpServer, RateLimit, TranslationCache, CommunityAgent, Notifications,
        PostPage, PostForm, GuardAdapter, Listings, Feeds, Outcomes

CONSTANTS p1, p2, p3, c1, toggle1, toggle2, toggle3, comment, postBody, u1, u2

MCPlugins == {p1, p2, p3}
MCPaths == <<p1, p2, p1, p3>>
MCHooksOf ==
    (p1 :> {"afterPublish"}) @@ (p2 :> HookName) @@ (p3 :> {"beforePublish"})
MCCalls == {c1}

MCToggles == {toggle1, toggle2, toggle3}
MCItems == {comment, postBody}
MCComments == {comment}
MCTextOf == (toggle1 :> comment) @@ (toggle2 :> postBody) @@ (toggle3 :> postBody)

MCUsers == {u1, u2}

\* A reply, and two comments that compete for the one row of a query.
MCParentOf == <<0, 0, 2>>
MCCreatedAt == <<1, 2, 3>>
MCGroupSdgs == <<1, 2>>

\* A code with two axes, the one with the highest score, one without an axis
\* and the one whose axis the auxiliary model scores, too.
MCGuardCodes == {"S3", "S4", "S6", "S13"}
MCAuxNumbers == {-50, 3, 50, 95}

MCHomeOf == <<1, 1, 1>>
MCTagsOf == <<{1}, {1, 2}, {1}>>

-------------------------------------------------------------------------------
VARIABLE focus

Inits ==
    /\ McpInit
    /\ RateInit
    /\ TrInit
    /\ AgentInit
    /\ NotesInit
    /\ PageInit
    /\ FormInit
    /\ GuardInit
    /\ ListInit
    /\ FeedsInit
    /\ OutcomesInit

\* Those with several initial states start in one of them when not in focus.
StayPut ==
    /\ focus # "agent" => digestEnabled /\ member = Users /\ optedIn = Users
    /\ focus # "thread" => viewerIsMod /\ commentStatus = [c \in PageComments |-> "published"]
    /\ focus # "guard" => auxEnabled
    /\ focus # "listing" => listing = "directory"

\* The oldest comment is published when the page is requested.
OldestPublished == commentStatus[1] = "published"

ServicesInit ==
    /\ focus \in {"plugins", "limiter", "translation", "agent", "bell", "thread",
                 "form", "guard", "listing", "feed", "outcomes"}
    /\ Inits
    /\ StayPut
    /\ OldestPublished

NotMcpServer == <<rateVars, trVars, agentVars, noteVars, pageVars, formVars,
                  guardVars, listVars, feedVars, outcomeVars>>
NotRateLimit == <<mcpVars, trVars, agentVars, noteVars, pageVars, formVars,
                  guardVars, listVars, feedVars, outcomeVars>>
NotTranslationCache == <<mcpVars, rateVars, agentVars, noteVars, pageVars,
                         formVars, guardVars, listVars, feedVars, outcomeVars>>
NotCommunityAgent == <<mcpVars, rateVars, trVars, noteVars, pageVars, formVars,
                       guardVars, listVars, feedVars, outcomeVars>>
NotNotifications == <<mcpVars, rateVars, trVars, agentVars, pageVars, formVars,
                      guardVars, listVars, feedVars, outcomeVars>>
NotPostPage == <<mcpVars, rateVars, trVars, agentVars, noteVars, formVars,
                 guardVars, listVars, feedVars, outcomeVars>>
NotPostForm == <<mcpVars, rateVars, trVars, agentVars, noteVars, pageVars,
                 guardVars, listVars, feedVars, outcomeVars>>
NotGuardAdapter == <<mcpVars, rateVars, trVars, agentVars, noteVars, pageVars,
                     formVars, listVars, feedVars, outcomeVars>>
NotListings == <<mcpVars, rateVars, trVars, agentVars, noteVars, pageVars,
                 formVars, guardVars, feedVars, outcomeVars>>
NotFeeds == <<mcpVars, rateVars, trVars, agentVars, noteVars, pageVars,
              formVars, guardVars, listVars, outcomeVars>>
NotOutcomes == <<mcpVars, rateVars, trVars, agentVars, noteVars, pageVars,
                 formVars, guardVars, listVars, feedVars>>

ServicesNext ==
    \/ focus = "plugins" /\ McpNext /\ UNCHANGED <<focus, NotMcpServer>>
    \/ focus = "limiter" /\ RateNext /\ UNCHANGED <<focus, NotRateLimit>>
    \/ focus = "translation" /\ TrNext /\ UNCHANGED <<focus, NotTranslationCache>>
    \/ focus = "agent" /\ AgentNext /\ UNCHANGED <<focus, NotCommunityAgent>>
    \/ focus = "bell" /\ NotesNext /\ UNCHANGED <<focus, NotNotifications>>
    \/ focus = "thread" /\ PageNext /\ UNCHANGED <<focus, NotPostPage>>
    \/ focus = "form" /\ FormNext /\ UNCHANGED <<focus, NotPostForm>>
    \/ focus = "guard" /\ GuardNext /\ UNCHANGED <<focus, NotGuardAdapter>>
    \/ focus = "listing" /\ ListNext /\ UNCHANGED <<focus, NotListings>>
    \/ focus = "feed" /\ FeedsNext /\ UNCHANGED <<focus, NotFeeds>>
    \/ focus = "outcomes" /\ OutcomesNext /\ UNCHANGED <<focus, NotOutcomes>>

servicesVars == <<focus, mcpVars, NotMcpServer>>

ServicesSpec ==
    /\ ServicesInit
    /\ [][ServicesNext]_servicesVars
    /\ \A t \in Toggles :
          WF_servicesVars(/\ focus = "translation"
                          /\ Serves(t)
                          /\ UNCHANGED <<focus, NotTranslationCache>>)

-------------------------------------------------------------------------------
\* The types of all of them.
ServicesTypeOK ==
    /\ McpTypeOK
    /\ RateTypeOK
    /\ TrTypeOK
    /\ AgentTypeOK
    /\ NotesTypeOK
    /\ PageTypeOK
    /\ FormTypeOK
    /\ GuardTypeOK
    /\ ListTypeOK
    /\ FeedsTypeOK
    /\ OutcomesTypeOK
===============================================================================
