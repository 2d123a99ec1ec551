----------------------------- MODULE SessionList -----------------------------
(***************************************************************************)
(* The lists a session is ended from: the sessions section of the admin    *)
(* console (frontend/src/pages/admin/SessionsSection.tsx), the sessions    *)
(* of one user (users/UserSessions.tsx) and the ones of the account page   *)
(* (AccountPage.tsx, SessionsCard).  Requests overlap with each other and  *)
(* with the refetch each of them causes; other browsers end sessions too.  *)
(***************************************************************************)
EXTENDS Naturals, FiniteSets

CONSTANTS Session, Current,   \* the sessions on the list; the one of this browser
          SlSteps, SlFaults, SlOthers  \* bounds: clicks, failures, sessions ended elsewhere

VARIABLES
    view,       \* which list: "admin", "user" or "mine"
    alive,      \* server: the sessions not ended
    rows,       \* query cache: the list on show
    unread,     \* the list could not be fetched: an error is shown in its place
    read,       \* the fetch under way: "idle", "asked", "served"; and what it brings
    endAsked,   \* the question on show: which sessions to end, {} without one
    ending,     \* requests under way
    locked,     \* the question's buttons are busy
    reported,   \* ghost: sessions whose end was reported as done
    signedOut,  \* this browser's own session has ended and the server said so
    slSteps, slFaults, slOthers

slVars == <<view, alive, rows, unread, read, endAsked, ending, locked, reported, signedOut, slSteps,
            slFaults, slOthers>>

NoFetch == [at |-> "idle", got |-> {}]
SlInit ==
    /\ view \in {"admin", "user", "mine"} /\ alive = Session /\ rows = Session /\ unread = FALSE
    /\ read = NoFetch /\ endAsked = {} /\ ending = {} /\ locked = FALSE /\ reported = {}
    /\ signedOut = FALSE /\ slSteps = 0 /\ slFaults = 0 /\ slOthers = 0

SlClick == slSteps < SlSteps /\ slSteps' = slSteps + 1 /\ ~signedOut
NoClick == UNCHANGED <<view, slSteps, slOthers>>

\* Mutant of Invalidate: a fetch under way is left to bring the list.
InvalidateJoins == read' = IF read.at = "idle" THEN [NoFetch EXCEPT !.at = "asked"] ELSE read

\* invalidateQueries: a fetch under way is given up for a new one.
Invalidate == read' = [NoFetch EXCEPT !.at = "asked"]

----------------------------------------------------------------------------
\* "End session" of a row, or its D key; "Sign out others".  The first asks for one session,
\* never this browser's own; the second is disabled without others.
Ask(s) ==
    /\ SlClick /\ view = "admin" /\ endAsked = {} /\ ~unread /\ s \in rows \ {Current}
    /\ endAsked' = {s}
    /\ UNCHANGED <<view, alive, rows, unread, read, ending, locked, reported, signedOut,
                   slFaults, slOthers>>

AskOthers ==
    /\ SlClick /\ view = "mine" /\ endAsked = {} /\ rows \ {Current} # {}
    /\ endAsked' = rows \ {Current}
    /\ UNCHANGED <<view, alive, rows, unread, read, ending, locked, reported, signedOut,
                   slFaults, slOthers>>

\* AlertDialog: confirmed once; Escape closes it even while it is busy, and it is busy still
\* if it is opened again.
Confirm ==
    /\ SlClick /\ endAsked # {} /\ ~locked /\ locked' = TRUE
    /\ ending' = ending \cup {[end |-> endAsked, by |-> "dialog", at |-> "sent"]}
    /\ UNCHANGED <<view, alive, rows, unread, read, endAsked, reported, signedOut, slFaults,
                   slOthers>>
Dismiss ==
    /\ SlClick /\ endAsked # {} /\ endAsked' = {}
    /\ UNCHANGED <<view, alive, rows, unread, read, ending, locked, reported, signedOut,
                   slFaults, slOthers>>

\* The button of a row: on the account page not for this browser, and again and again; in a
\* user's drawer for any session, one at a time.
EndRow(s) ==
    /\ SlClick /\ endAsked = {} /\ ~unread /\ s \in rows
    /\ \/ view = "mine" /\ s # Current /\ [end |-> {s}, by |-> "row", at |-> "sent"] \notin ending
       \/ view = "user" /\ ending = {}
    /\ ending' = ending \cup {[end |-> {s}, by |-> "row", at |-> "sent"]}
    /\ UNCHANGED <<view, alive, rows, unread, read, endAsked, locked, reported, signedOut,
                   slFaults, slOthers>>

\* The refresh button; a window that gets the focus again.
Refresh ==
    /\ SlClick /\ read.at = "idle" /\ Invalidate
    /\ UNCHANGED <<view, alive, rows, unread, endAsked, ending, locked, reported, signedOut,
                   slFaults, slOthers>>

----------------------------------------------------------------------------
\* The server: a session is ended once or again; one that is gone for good is not found.  All
\* others are ended whichever the list had.
Ended(e) == IF view = "mine" /\ e.by = "dialog" THEN Session \ {Current} ELSE e.end

ServerEnds(e) ==
    /\ e.at = "sent" /\ Current \in alive /\ alive' = alive \ Ended(e)
    /\ ending' = (ending \ {e}) \cup {[e EXCEPT !.at = "done"]}
    /\ UNCHANGED <<rows, unread, read, endAsked, locked, reported, signedOut, slFaults>> /\ NoClick

\* A request of a session that has ended is refused: this browser is signed out.
EndRefused(e) ==
    /\ e.at = "sent" /\ Current \notin alive /\ ending' = ending \ {e} /\ signedOut' = TRUE
    /\ UNCHANGED <<alive, rows, unread, read, endAsked, locked, reported, slFaults>> /\ NoClick

\* The answer is a success: reported, and the list fetched again.  What the dialog asked for
\* waits for that list.
EndAnswer(e) ==
    /\ e.at = "done" /\ reported' = reported \cup Ended(e) /\ Invalidate
    /\ ending' = (ending \ {e}) \cup (IF e.by = "dialog" THEN {[e EXCEPT !.at = "listing"]} ELSE {})
    /\ UNCHANGED <<alive, rows, unread, endAsked, locked, signedOut, slFaults>> /\ NoClick

\* The list is there, or failed: the question is closed, whichever is open by now.
DialogDone(e) ==
    /\ e.at = "listing" /\ read.at = "idle"
    /\ ending' = ending \ {e} /\ endAsked' = {} /\ locked' = FALSE
    /\ UNCHANGED <<alive, rows, unread, read, reported, signedOut, slFaults>> /\ NoClick

\* Refused, or the answer lost after the end: nothing is fetched.  The admin's question stays
\* open for another try, "sign out others" closes all the same.
EndFails(e) ==
    /\ slFaults < SlFaults /\ slFaults' = slFaults + 1 /\ e.at \in {"sent", "done"}
    /\ ending' = ending \ {e}
    /\ IF e.by = "dialog" THEN locked' = FALSE /\ endAsked' = IF view = "mine" THEN {} ELSE endAsked
       ELSE UNCHANGED <<locked, endAsked>>
    /\ UNCHANGED <<alive, rows, unread, read, reported, signedOut>> /\ NoClick

\* The fetch reads the sessions, and brings them; without its own session it is refused.
FetchServed ==
    /\ read.at = "asked" /\ read' = [at |-> "served", got |-> alive]
    /\ UNCHANGED <<alive, rows, unread, endAsked, ending, locked, reported, signedOut, slFaults>> /\ NoClick
FetchAnswer ==
    /\ read.at = "served" /\ read' = NoFetch
    /\ IF Current \in read.got THEN rows' = read.got /\ unread' = FALSE /\ UNCHANGED signedOut
       ELSE signedOut' = TRUE /\ UNCHANGED <<rows, unread>>
    /\ UNCHANGED <<alive, endAsked, ending, locked, reported, slFaults>> /\ NoClick
FetchFails ==
    /\ slFaults < SlFaults /\ slFaults' = slFaults + 1 /\ read.at # "idle"
    /\ read' = NoFetch /\ unread' = TRUE
    /\ UNCHANGED <<alive, rows, endAsked, ending, locked, reported, signedOut>> /\ NoClick

\* A session is ended elsewhere.
OtherEnds(s) ==
    /\ slOthers < SlOthers /\ slOthers' = slOthers + 1 /\ s \in alive /\ alive' = alive \ {s}
    /\ UNCHANGED <<view, rows, unread, read, endAsked, ending, locked, reported, signedOut,
                   slSteps, slFaults>>

SlNext ==
    \/ \E s \in Session : Ask(s) \/ EndRow(s) \/ OtherEnds(s)
    \/ AskOthers \/ Confirm \/ Dismiss \/ Refresh
    \/ \E e \in ending : \/ ServerEnds(e) \/ EndRefused(e) \/ EndAnswer(e)
                          \/ DialogDone(e) \/ EndFails(e)
    \/ FetchServed \/ FetchAnswer \/ FetchFails

\* Requests are answered.
SlFairness ==
    /\ WF_slVars(FetchServed) /\ WF_slVars(FetchAnswer)
    /\ WF_slVars(\E e \in ending : ServerEnds(e) \/ EndRefused(e) \/ EndAnswer(e) \/ DialogDone(e))

----------------------------------------------------------------------------
SlTypeOK ==
    /\ view \in {"admin", "user", "mine"} /\ alive \subseteq Session /\ rows \subseteq Session
    /\ read \in [at: {"idle", "asked", "served"}, got: SUBSET Session]
    /\ endAsked \subseteq Session /\ {unread, locked, signedOut} \subseteq BOOLEAN
    /\ ending \subseteq [end: SUBSET Session, by: {"row", "dialog"}, at: {"sent", "done", "listing"}]

\* What was reported as ended leaves the list for good, whatever else was fetched or ended
\* meanwhile, unless the list gives way to an error or this browser is signed out; and no
\* question stays busy for ever.
SessionsSettle ==
    <>[](signedOut \/ ((unread \/ rows \cap reported = {}) /\ (locked => endAsked = {})))

=============================================================================
