----------------------------- MODULE MCAddLead -----------------------------
(***************************************************************************)
(* The dialog in two stories: the user makes a submission the server will  *)
(* refuse besides a good one, or a good one while a keyed sender fills the *)
(* backlog.                                                                *)
(***************************************************************************)
EXTENDS AddLead, TLC

CONSTANT key
OneKey == {key}
Msg(by, event, content) == [by |-> by, event |-> event, content |-> content]
Good == Msg(User, 1, "a")
Mistake == Msg(User, 2, "x")
Other == Msg(key, 1, "a")
ThreeMessages == {Good, Mistake, Other}
OnlyMistake == {Mistake}

VARIABLE story

StoryInit == Init /\ DialogInit /\ story \in {"mistake", "sender"}

\* The good submission and the mistake share no handler with a sender, and beside the
\* sender, whose key stays active, the dialog is not closed on a submission.
StoryNext ==
    /\ DialogNext
    /\ UNCHANGED story
    /\ story = "mistake" => \A h \in Handlers : handler'[h].msg # Other
    /\ story = "sender" =>
        /\ Mistake.event \notin drawn'
        /\ credential'[key] # "revoked"
        /\ dialog'.submitted # None => dialog'.open

StorySpec == StoryInit /\ [][StoryNext]_<<vars, story>> /\ Fairness
=============================================================================
