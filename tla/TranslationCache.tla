---------------------------- MODULE TranslationCache ----------------------------
(***************************************************************************)
(* Translating a body or a comment of one post: the toggle under the text, *)
(* the server action, the cache in Postgres and the provider behind it.    *)
(* Every toggle runs in a browser of its own.                              *)
(***************************************************************************)
EXTENDS Naturals, FiniteSets

CONSTANTS
    Toggles,           \* mounted toggles
    Items,             \* the texts they stand under
    Comments,          \* the texts that are comments; the others are the post's body
    TextOf             \* the text of each toggle

ASSUME TranslationAssumption ==
    /\ IsFiniteSet(Toggles)
    /\ Comments \subseteq Items
    /\ TextOf \in [Toggles -> Items]

VARIABLES
    mode,              \* State.mode of a toggle
    request,           \* the step of its request; "dropped": it threw outside the try
    rows               \* number of rows of post_translations for each text

trVars == <<mode, request, rows>>

Mode == {"original", "loading", "translated", "error"}
Step == {"none", "limit", "lookup", "headers", "body", "insert", "hit", "failed", "dropped"}

TrInit ==
    /\ mode = [t \in Toggles |-> "original"]
    /\ request = [t \in Toggles |-> "none"]
    /\ rows = [i \in Items |-> 0]

Move(t, from, to) ==
    /\ request[t] = from
    /\ request' = [request EXCEPT ![t] = to]

-------------------------------------------------------------------------------
(***************************************************************************)
(* The toggle.                                                             *)
(***************************************************************************)

\* The button is disabled while the toggle is loading.
RequestTranslation(t) ==
    /\ mode[t] \in {"original", "error"}
    /\ Move(t, "none", "limit")
    /\ mode' = [mode EXCEPT ![t] = "loading"]
    /\ UNCHANGED rows

ShowOriginal(t) ==
    /\ mode[t] = "translated"
    /\ mode' = [mode EXCEPT ![t] = "original"]
    /\ UNCHANGED <<request, rows>>

\* The action's answer.
Receive(t) ==
    /\ \/ /\ Move(t, "hit", "none")
          /\ mode' = [mode EXCEPT ![t] = "translated"]
       \/ /\ Move(t, "failed", "none")
          /\ mode' = [mode EXCEPT ![t] = "error"]
    /\ UNCHANGED rows

-------------------------------------------------------------------------------
(***************************************************************************)
(* translateContentAction.                                                 *)
(***************************************************************************)

\* rateLimitAction stands before the try: its error rejects the action, and
\* nothing in the toggle catches it.
Throttle(t) ==
    /\ Move(t, "limit", "dropped")
    /\ UNCHANGED <<mode, rows>>

\* Signed in and valid, or answered with an error.
Admit(t) ==
    /\ \E to \in {"lookup", "failed"} : Move(t, "limit", to)
    /\ UNCHANGED <<mode, rows>>

\* Mutant: the cache is looked up by comment only, which no body matches.
LookupByComment(t) ==
    /\ Move(t, "lookup", IF rows[TextOf[t]] > 0 /\ TextOf[t] \in Comments
                         THEN "hit" ELSE "headers")
    /\ UNCHANGED <<mode, rows>>

\* translateWithCache looks for a row, and asks the provider when there is none.
Lookup(t) ==
    /\ Move(t, "lookup", IF rows[TextOf[t]] > 0 THEN "hit" ELSE "headers")
    /\ UNCHANGED <<mode, rows>>

\* fetch has settled and its timer is cleared: headers that say ok, whose body
\* is to be read yet, or any other status, or no connection.
Headers(t) ==
    /\ \E to \in {"body", "failed"} : Move(t, "headers", to)
    /\ UNCHANGED <<mode, rows>>

\* Mutant: the timer is not set, so it never fires.
NoAbort(t) == FALSE /\ UNCHANGED trVars

\* The timer: TranslationTimeout.
Abort(t) ==
    /\ Move(t, "headers", "failed")
    /\ UNCHANGED <<mode, rows>>

\* No timer is left for the body; it may be no translation.
ReadBody(t) ==
    /\ \E to \in {"insert", "failed"} : Move(t, "body", to)
    /\ UNCHANGED <<mode, rows>>

\* onConflictDoNothing over the unique index, whose comment_id is NULL for a
\* body: no two NULLs conflict.
Insert(t) ==
    /\ Move(t, "insert", "hit")
    /\ rows' = [rows EXCEPT ![TextOf[t]] =
          IF TextOf[t] \in Comments /\ @ > 0 THEN @ ELSE @ + 1]
    /\ UNCHANGED mode

\* The database throws.
QueryFails(t) ==
    /\ \E from \in {"lookup", "insert"} : Move(t, from, "failed")
    /\ UNCHANGED <<mode, rows>>

TrNext ==
    \E t \in Toggles :
        \/ RequestTranslation(t)
        \/ ShowOriginal(t)
        \/ Receive(t)
        \/ Throttle(t)
        \/ Admit(t)
        \/ Lookup(t)
        \/ Headers(t)
        \/ Abort(t)
        \/ ReadBody(t)
        \/ Insert(t)
        \/ QueryFails(t)

\* The server goes on with what it can go on with, its timer fires, and its
\* answer arrives.  The provider owes nothing: neither headers nor a body.
Serves(t) ==
    \/ Throttle(t)
    \/ Admit(t)
    \/ Lookup(t)
    \/ Abort(t)
    \/ Insert(t)
    \/ Receive(t)

TrSpec == TrInit /\ [][TrNext]_trVars /\ \A t \in Toggles : WF_trVars(Serves(t))

-------------------------------------------------------------------------------
(***************************************************************************)
(* Properties.                                                             *)
(***************************************************************************)

\* Types.
TrTypeOK ==
    /\ mode \in [Toggles -> Mode]
    /\ request \in [Toggles -> Step]
    /\ rows \in [Items -> Nat]

\* A comment is cached once; a body at most once for each toggle that asked
\* before its first row was there, however their requests overlap afterwards.
RowsBounded ==
    \A i \in Items :
        rows[i] <= IF i \in Comments THEN 1
                   ELSE Cardinality({t \in Toggles : TextOf[t] = i})

\* A toggle that is loading comes out of it, whatever the provider does, unless
\* the limiter threw or the provider has sent its headers and not its body.
LoadingEnds ==
    \A t \in Toggles :
        mode[t] = "loading" ~>
            mode[t] # "loading" \/ request[t] \in {"dropped", "body"}
===============================================================================
