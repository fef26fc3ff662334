-------------------------------- MODULE PostForm --------------------------------
(***************************************************************************)
(* The form of a new post in one browser: the body and its preview, which  *)
(* is rendered asynchronously, and the choice of goals, one of them        *)
(* primary, that the form submits as a list.                               *)
(***************************************************************************)
EXTENDS Naturals, SequencesExt, Lists

CONSTANTS
    MaxEdits,          \* bound on the edits of the body
    Renders,           \* clicks on the preview tab that can be under way at a time
    Sdgs,
    GroupSdgs          \* the group's goals, its primary goal first

NoSdg == 0             \* null: the goals are numbered from 1

ASSUME FormAssumption ==
    /\ MaxEdits \in Nat
    /\ GroupSdgs \in Seq(Sdgs)
    /\ IsInjective(GroupSdgs)
    /\ NoSdg \notin Sdgs

Idle == [busy |-> FALSE, body |-> 0]

VARIABLES
    tab,
    body,              \* the edit the textarea holds
    previewHtml,       \* the edit the preview shows
    previewRendered,   \* previewRenderedRef
    render,            \* per click: whether it waits for marked, and for which edit
    overlapped,        \* an edit fell into a render since the write tab was clicked (history)
    selected,          \* the Set of goals, in the order of its insertions
    primary

formVars == <<tab, body, previewHtml, previewRendered, render, overlapped, selected,
              primary>>

FormInit ==
    /\ tab = "write"
    /\ body = 0
    /\ previewHtml = 0
    /\ previewRendered = FALSE
    /\ render = [r \in Renders |-> Idle]
    /\ overlapped = FALSE
    /\ selected = GroupSdgs
    /\ primary = IF GroupSdgs = <<>> THEN NoSdg ELSE Head(GroupSdgs)

-------------------------------------------------------------------------------
(***************************************************************************)
(* The body and its preview.                                               *)
(***************************************************************************)

Rendering == \E r \in Renders : render[r].busy

\* handleBodyChange.  The textarea is there on the write tab only.
EditBody ==
    /\ tab = "write"
    /\ body < MaxEdits
    /\ body' = body + 1
    /\ previewRendered' = FALSE
    /\ overlapped' = (overlapped \/ Rendering)
    /\ UNCHANGED <<tab, previewHtml, render, selected, primary>>

\* handleTabChange("preview") with a rendering that is current: it only switches.
ShowPreview ==
    /\ previewRendered
    /\ tab' = "preview"
    /\ UNCHANGED <<body, previewHtml, previewRendered, render, overlapped, selected,
                   primary>>

\* Otherwise it waits for marked and the body it was given.
StartRender(r) ==
    /\ ~previewRendered
    /\ ~render[r].busy
    /\ render' = [render EXCEPT ![r] = [busy |-> TRUE, body |-> body]]
    /\ UNCHANGED <<tab, body, previewHtml, previewRendered, overlapped, selected, primary>>

EndRender(r) ==
    /\ render[r].busy
    /\ previewHtml' = render[r].body
    /\ previewRendered' = TRUE
    /\ tab' = "preview"
    /\ render' = [render EXCEPT ![r] = Idle]
    /\ UNCHANGED <<body, overlapped, selected, primary>>

\* Mutant: the write tab leaves the flag alone.
KeepsRendering == previewRendered

\* What handleTabChange("write") makes of the flag.
ForgetsRendering == FALSE

ShowWrite ==
    /\ tab' = "write"
    /\ previewRendered' = ForgetsRendering
    /\ overlapped' = Rendering
    /\ UNCHANGED <<body, previewHtml, render, selected, primary>>

-------------------------------------------------------------------------------
(***************************************************************************)
(* SdgMultiSelect.                                                         *)
(***************************************************************************)

FirstOf(sdgs) == IF sdgs = <<>> THEN NoSdg ELSE Head(sdgs)

\* The first of the remaining is promoted when the primary is taken out.
Promoted(id, remaining) == IF id = primary THEN FirstOf(remaining) ELSE primary

toggleSdg(id) ==
    /\ IF id \in ToSet(selected)
       THEN LET remaining == Without(selected, id)
            IN  /\ selected' = remaining
                /\ primary' = Promoted(id, remaining)
       ELSE /\ selected' = Append(selected, id)
            /\ primary' = IF selected = <<>> THEN id ELSE primary
    /\ UNCHANGED <<tab, body, previewHtml, previewRendered, render, overlapped>>

\* The radio stands beside a selected goal.
makePrimary(id) ==
    /\ id \in ToSet(selected)
    /\ primary' = id
    /\ UNCHANGED <<tab, body, previewHtml, previewRendered, render, overlapped, selected>>

\* The list the form action submits.
SdgIds ==
    (IF primary = NoSdg THEN <<>> ELSE <<primary>>)
        \o Without(selected, primary)

FormNext ==
    \/ EditBody
    \/ ShowPreview
    \/ ShowWrite
    \/ \E r \in Renders : StartRender(r) \/ EndRender(r)
    \/ \E id \in Sdgs : toggleSdg(id) \/ makePrimary(id)

FormSpec == FormInit /\ [][FormNext]_formVars

-------------------------------------------------------------------------------
(***************************************************************************)
(* Properties.                                                             *)
(***************************************************************************)

\* Types.
FormTypeOK ==
    /\ tab \in {"write", "preview"}
    /\ body \in 0..MaxEdits
    /\ previewHtml \in 0..MaxEdits
    /\ previewRendered \in BOOLEAN
    /\ render \in [Renders -> [busy : BOOLEAN, body : 0..MaxEdits]]
    /\ overlapped \in BOOLEAN
    /\ selected \in Seq(Sdgs)
    /\ primary \in Sdgs \union {NoSdg}

\* The preview shows the body that is going to be submitted, unless the author
\* has typed while a rendering was under way; going back to the write tab and
\* waiting for what is under way repairs that.
PreviewIsCurrent ==
    tab = "preview" /\ ~Rendering /\ ~overlapped => previewHtml = body

\* However goals are toggled and made primary, the form submits each selected
\* goal once, and no other.
SdgListIsSelection ==
    /\ ToSet(SdgIds) = ToSet(selected)
    /\ Len(SdgIds) = Len(selected)

\* The author submits what the form shows: the text of the preview, the goals
\* that are marked.
FormSendsWhatItShows == PreviewIsCurrent /\ SdgListIsSelection
===============================================================================
