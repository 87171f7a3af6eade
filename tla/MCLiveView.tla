----------------------------- MODULE MCLiveView -----------------------------
(***************************************************************************)
(* The view of a server that changes, in two stories: the profile beside   *)
(* the stream, or the list with its notice. No action of the profile, once *)
(* it is there, reads or writes what the list page has, and the other way  *)
(* round; both follow the stream.                                          *)
(***************************************************************************)
EXTENDS LiveView, TLC

VARIABLE story

StoryInit == ViewInit /\ story \in {"profile", "list"}

\* No list page is opened beside the profile; beside the list the profile comes once,
\* and nothing changes the catalogue.
StoryNext ==
    /\ ViewNext
    /\ UNCHANGED story
    /\ story = "profile" => ~notice'.open /\ listFetch'.at # "read" /\ ~list'.error
    /\ story = "list" =>
        /\ server'.catalog = 0
        /\ me' = NotYet => meFetch'.at # "idle"
        /\ me' # NotYet => meFetch' = NoFetch

\* The fairness of ViewFairSpec where it is needed.
StoryFairness ==
    /\ WF_viewVars(story = "profile" /\ Connect) /\ WF_viewVars(story = "profile" /\ Cut)
    /\ SF_viewVars(story = "profile" /\ Push) /\ SF_viewVars(story = "profile" /\ Deliver)
    /\ SF_viewVars(story = "profile" /\ ReadMe) /\ SF_viewVars(story = "profile" /\ MeArrives)

StorySpec == StoryInit /\ [][StoryNext]_<<viewVars, story>> /\ StoryFairness
=============================================================================
