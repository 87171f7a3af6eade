------------------------------- MODULE MCApi --------------------------------
(***************************************************************************)
(* What the API does with a request: the bucket of the rate limiter, the   *)
(* session behind its token, and the intake of an event.  The models share *)
(* no state, so that a run of one with the others at rest shows what any   *)
(* interleaving would: part says which one moves.                          *)
(***************************************************************************)
EXTENDS Sessions, RateLimiter, Intake, TLC

CONSTANT sender

\* Rate limiter: clocks move by at most three milliseconds at once.
FewSteps == 1 .. 3

\* Intake: two messages with one event id under one key, the user's own event of that
\* id, and a message the schema refuses.
OneKey == {sender}
Msg(by, event, content) == [by |-> by, event |-> event, content |-> content]
BadMessages == {Msg(sender, 2, "x")}
Rival == Msg(sender, 1, "b")
FourMessages == {Msg(sender, 1, "a"), Rival, Msg(User, 1, "a")} \cup BadMessages

Symmetry == Permutations(Requests) \cup Permutations(Sessions) \cup Permutations(Handlers)

VARIABLE part

ApiInit ==
    /\ part \in {"session", "limiter", "rivals", "sources"}
    /\ SessionInit /\ LimiterInit /\ Init

\* Bounds: the malformed message and the rival come in one part, the user's event of the
\* same id in the other.
Served == {handler[h].msg : h \in Handlers}
Bounds ==
    /\ part = "rivals" => {m \in Messages : m.by = User} \cap Served' = {}
    /\ part = "sources" => (Malformed \cup {Rival}) \cap Served' = {}

ApiNext ==
    \/ /\ part = "session" /\ SessionNext
       /\ UNCHANGED <<part, limiterVars, intakeVars>>
    \/ /\ part = "limiter" /\ LimiterNext
       /\ UNCHANGED <<part, sessionVars, intakeVars>>
    \/ /\ part \in {"rivals", "sources"} /\ Next
       /\ UNCHANGED <<part, sessionVars, limiterVars>>

ApiSpec == ApiInit /\ [][ApiNext /\ Bounds]_<<part, sessionVars, limiterVars, intakeVars>>
=============================================================================
