------------------------------ MODULE AddLead ------------------------------
(***************************************************************************)
(* The add-lead dialog of one browser tab against webhook intake: a        *)
(* submission is a message of the signed-in user with an event id made     *)
(* when the form is first submitted; every later attempt sends the same    *)
(* message, until the server has taken it or says it never will.           *)
(*                                                                         *)
(* An attempt may be lost on the way, time out while the server still      *)
(* works on it, or have its answer lost.  Polling (each second for half a  *)
(* minute, then on demand) reads the receipt as it then is.                *)
(***************************************************************************)
EXTENDS Intake

ASSUME DialogAssumption == None \notin Handlers

VARIABLES
    dialog,     \* its React state
    opened,     \* events whose lead the dialog has opened
    abandoned,  \* events of submissions gone with the page that held them
    drawn       \* event ids crypto.randomUUID() has returned

dialogVars == <<dialog, opened, abandoned, drawn>>
vars == <<intakeVars, dialogVars>>

\* pending: the handler of the attempt being waited for.
Blank == [open |-> FALSE, submitted |-> None, pending |-> None, accepted |-> None]
Drafts == {m \in Messages : m.by = User}

DialogInit ==
    /\ dialog = Blank
    /\ opened = {} /\ abandoned = {} /\ drawn = {}

-----------------------------------------------------------------------------
(* Deliberately wrong variants, one step away from the code: a run in which  *)
(* one of them takes the place of its original must fail.                    *)

AnyRefusal(verdict) ==                              \* for Hopeless
    verdict \in {"invalid", "unauthorized", "overloaded", "conflict"}

-----------------------------------------------------------------------------
\* 400, 413 and 422: the form is unlocked and the next submission is a new event.
Hopeless(verdict) == verdict = "invalid"

\* The attempt reaches a handler, or is lost.
Post(h, m) ==
    \/ Receive(h, m) /\ dialog' = [dialog EXCEPT !.submitted = m, !.pending = h]
    \/ /\ Fault
       /\ dialog' = [dialog EXCEPT !.submitted = m]
       /\ UNCHANGED <<dbVars, handler, cacheVars, told>>

Submit(h, m) ==
    /\ dialog.open /\ dialog.submitted = None
    /\ m.event \notin drawn
    /\ drawn' = drawn \cup {m.event}
    /\ Post(h, m)
    /\ UNCHANGED <<opened, abandoned>>

Retry(h) ==
    /\ dialog.open /\ dialog.submitted # None
    /\ dialog.pending = None /\ dialog.accepted = None
    /\ Post(h, dialog.submitted)
    /\ UNCHANGED <<opened, abandoned, drawn>>

\* The dialog is unmounted with its page: a reload, or a lost session.
Forget ==
    /\ dialog' = Blank
    /\ abandoned' = IF dialog.submitted = None THEN abandoned
                    ELSE abandoned \cup {dialog.submitted.event}

\* The answer to the attempt being waited for.
Hear(h) ==
    LET verdict == handler[h].verdict IN
    /\ dialog.pending = h
    /\ Reply(h)
    /\ IF verdict = "unauthorized" THEN Forget
       ELSE /\ dialog' = [dialog EXCEPT
                  !.pending = None,
                  !.submitted = IF Hopeless(verdict) THEN None ELSE @,
                  !.accepted = IF verdict \in {"created", "repeated"}
                               THEN receipts[Slot(handler[h].msg)].state ELSE None]
            /\ UNCHANGED abandoned
    /\ UNCHANGED <<opened, drawn>>

\* No answer within 15 seconds, or the connection is gone.
TimeOut ==
    /\ dialog.pending # None
    /\ Fault
    /\ dialog' = [dialog EXCEPT !.pending = None]
    /\ UNCHANGED <<dbVars, handler, cacheVars, told, opened, abandoned, drawn>>

Poll ==
    /\ dialog.open /\ dialog.accepted # None
    /\ dialog' = [dialog EXCEPT !.accepted = receipts[Slot(dialog.submitted)].state]
    /\ UNCHANGED <<intakeVars, opened, abandoned, drawn>>

\* The effect: open the lead once, close and clear the dialog.
Finish ==
    /\ dialog.open /\ dialog.accepted = "processed"
    /\ opened' = opened \cup {dialog.submitted.event}
    /\ dialog' = Blank
    /\ UNCHANGED <<intakeVars, abandoned, drawn>>

\* Closing keeps everything.
Toggle ==
    /\ dialog' = [dialog EXCEPT !.open = ~@]
    /\ UNCHANGED <<intakeVars, opened, abandoned, drawn>>

Unmount ==
    /\ dialog # Blank
    /\ Forget
    /\ UNCHANGED <<intakeVars, opened, drawn>>

-----------------------------------------------------------------------------
User_ ==
    \/ \E h \in Handlers : Retry(h) \/ Hear(h) \/ \E m \in Drafts : Submit(h, m)
    \/ TimeOut \/ Poll \/ Finish \/ Toggle \/ Unmount

\* Bound: other senders leave one handler free, as there are many more of them
\* (MAX_INFLIGHT_REQUESTS) than the model has.
Room(h) == \E g \in Handlers \ {h} : At(g, "idle")

\* Everyone else; a reply to an attempt no longer waited for is dropped.
Rest ==
    /\ \/ \E h \in Handlers : \/ dialog.pending # h /\ Reply(h)
                              \/ \E m \in Messages \ Drafts : Room(h) /\ Receive(h, m)
       \/ Server
       \/ Outside
    /\ UNCHANGED dialogVars

\* A crash also ends the connection of the attempt being waited for.
Die ==
    /\ Crash
    /\ dialog' = [dialog EXCEPT !.pending = None]
    /\ UNCHANGED <<opened, abandoned, drawn>>

DialogNext == User_ \/ Rest \/ Die

\* The process, the worker and the network make progress, and the user, while a
\* submission is unsettled, presses on and reopens the dialog.
Fairness ==
    /\ \A h \in Handlers :
         /\ WF_vars(Progress(h) /\ UNCHANGED dialogVars)
         /\ WF_vars(Hear(h)) /\ WF_vars(dialog.pending # h /\ Reply(h) /\ UNCHANGED dialogVars)
    /\ WF_vars(Counted /\ UNCHANGED dialogVars)
    /\ WF_vars(Lapse /\ UNCHANGED dialogVars)
    /\ \A s \in Slots :
         WF_vars((\E o \in {"processed", "failed"} : Settle(s, o)) /\ UNCHANGED dialogVars)
    /\ SF_vars(\E h \in Handlers : Retry(h) /\ handler' # handler)
    /\ SF_vars(Poll) /\ SF_vars(Finish)
    /\ WF_vars(dialog.submitted # None /\ ~dialog.open /\ Toggle)

DialogSpec == Init /\ DialogInit /\ [][DialogNext]_vars
FairDialogSpec == DialogSpec /\ Fairness

-----------------------------------------------------------------------------
(* Properties. *)

\* A receipt the dialog caused is one it still shows, has opened, or lost with its
\* page: a retry never turns one submission into two events.
NoOrphanedSubmission ==
    \A s \in Slots : s[1] = "manual" /\ receipts[s] # NoReceipt =>
        \/ s[2] \in opened \cup abandoned
        \/ dialog.submitted # None /\ s[2] = dialog.submitted.event

\* A submission gets somewhere: its lead is opened, the server refuses it for
\* good, its page is left, or its receipt has failed and waits for a replay.
SubmissionSettles ==
    \A m \in Drafts : dialog.submitted = m ~>
        dialog.submitted # m \/ receipts[Slot(m)].state = "failed"
=============================================================================
