----------------------------- MODULE Admission -----------------------------
(***************************************************************************)
(* One API process from its first request to its end: the request          *)
(* middleware with its in-flight count, the outbox cycle and the queue     *)
(* worker of JobsService, and what a signal makes of them (main.ts and the *)
(* order in which Nest closes an application: destroy hooks, the HTTP      *)
(* server, then the database and Redis).                                   *)
(*                                                                         *)
(* A response ends with 'finish' when it is sent and with 'close' when its *)
(* connection goes, which may come before or without the other; a handler  *)
(* runs on whether or not its client is there.                             *)
(***************************************************************************)
EXTENDS Naturals, FiniteSets

CONSTANTS
    Requests,       \* requests under way at once
    StreamRequests, \* those that are GET /dashboard/stream
    MaxInflight     \* MAX_INFLIGHT_REQUESTS

ASSUME AdmissionAssumption ==
    /\ IsFiniteSet(Requests) /\ StreamRequests \subseteq Requests
    /\ MaxInflight \in Nat \ {0}

VARIABLES
    phase,      \* up, draining (destroy hooks), closing (HTTP server), closed, ended
    request,    \* what became of each request
    inflight,   \* RequestMiddleware.inflight
    stopping,   \* JobsService.stopping, and how far stop() has come
    cycle,      \* an outbox cycle runs (JobsService.running)
    job         \* the BullMQ worker processes a job

admissionVars == <<phase, request, inflight, stopping, cycle, job>>

\* at: where the request is; gone: its connection is closed; released: the closure's flag.
Fresh == [at |-> "idle", gone |-> FALSE, released |-> TRUE]

AdmissionTypeOK ==
    /\ phase \in {"up", "draining", "closing", "closed", "ended"}
    /\ request \in [Requests -> [at : {"idle", "limiting", "running", "sending", "sent"},
                                 gone : BOOLEAN, released : BOOLEAN]]
    /\ inflight \in 0 .. MaxInflight
    /\ stopping \in {"no", "cycle", "worker", "done"}
    /\ cycle \in BOOLEAN /\ job \in BOOLEAN

AdmissionInit ==
    /\ phase = "up"
    /\ request = [r \in Requests |-> Fresh]
    /\ inflight = 0
    /\ stopping = "no"
    /\ cycle = FALSE
    /\ job = FALSE

-----------------------------------------------------------------------------
(* Deliberately wrong variants, one step away from the code: a run in which  *)
(* one of them takes the place of its original must fail.                    *)

ReleaseTwice(r) == inflight' = IF inflight > 0 THEN inflight - 1 ELSE 0 \* for Release
KeepSlot(r) == UNCHANGED inflight                                       \* for OnClose
TickAlways == ~cycle                                                    \* for MayTick

-----------------------------------------------------------------------------
ProcessAlive == phase \notin {"closed", "ended"}
Serving == phase \in {"up", "draining", "closing"}

Set(r, at) == request' = [request EXCEPT ![r].at = at]

\* The handler or the middleware still works on it.
Working(r) == request[r].at \in {"limiting", "running"}

-----------------------------------------------------------------------------
(* RequestMiddleware. *)

Busy == inflight >= MaxInflight

\* Admitted; while the process drains, or is busy, the answer is a 503 at once.
Admit(r) ==
    /\ phase = "up"
    /\ request[r].at = "idle"
    /\ IF r \in StreamRequests
       THEN /\ request' = [request EXCEPT ![r] = [Fresh EXCEPT !.at = "limiting"]]
            /\ UNCHANGED inflight
       ELSE /\ ~Busy
            /\ inflight' = inflight + 1
            /\ request' = [request EXCEPT ![r] =
                   [at |-> "limiting", gone |-> FALSE, released |-> FALSE]]
    /\ UNCHANGED <<phase, stopping, cycle, job>>

\* The limiter answers: on to the handler, or to a 429 or 503.
Limited(r) ==
    /\ Serving
    /\ request[r].at = "limiting"
    /\ \E at \in {"running", "sending"} : Set(r, at)
    /\ UNCHANGED <<phase, inflight, stopping, cycle, job>>

\* The handler is done and its response is written; a stream lasts until it closes.
Respond(r) ==
    /\ Serving
    /\ request[r].at = "running"
    /\ r \in StreamRequests => phase # "up" \/ request[r].gone
    /\ Set(r, "sending")
    /\ UNCHANGED <<phase, inflight, stopping, cycle, job>>

Release(r) == inflight' = IF request[r].released THEN inflight ELSE inflight - 1

\* res 'finish': the response is sent.
Finish(r) ==
    /\ Serving
    /\ request[r].at = "sending"
    /\ Release(r)
    /\ request' = [request EXCEPT
           ![r] = IF @.gone THEN Fresh ELSE [@ EXCEPT !.at = "sent", !.released = TRUE]]
    /\ UNCHANGED <<phase, stopping, cycle, job>>

\* A response to a client that is gone need not finish.
Discard(r) ==
    /\ Serving
    /\ request[r].at = "sending" /\ request[r].gone
    /\ request' = [request EXCEPT ![r] = Fresh]
    /\ UNCHANGED <<phase, inflight, stopping, cycle, job>>

\* res 'close': the connection is gone, after the response or before.
OnClose(r) == Release(r)

Disconnect(r) ==
    /\ Serving
    /\ request[r].at # "idle" /\ ~request[r].gone
    /\ OnClose(r)
    /\ request' = [request EXCEPT
           ![r] = IF @.at = "sent" THEN Fresh
                  ELSE [@ EXCEPT !.gone = TRUE, !.released = TRUE]]
    /\ UNCHANGED <<phase, stopping, cycle, job>>

-----------------------------------------------------------------------------
(* JobsService. *)

MayTick == stopping = "no" /\ ~cycle

StartCycle ==
    /\ ProcessAlive /\ MayTick
    /\ cycle' = TRUE
    /\ UNCHANGED <<phase, request, inflight, stopping, job>>

EndCycle ==
    /\ ProcessAlive /\ cycle
    /\ cycle' = FALSE
    /\ UNCHANGED <<phase, request, inflight, stopping, job>>

\* The worker takes jobs until it is being closed.
StartJob ==
    /\ ProcessAlive /\ stopping \in {"no", "cycle"}
    /\ ~job
    /\ job' = TRUE
    /\ UNCHANGED <<phase, request, inflight, stopping, cycle>>

EndJob ==
    /\ ProcessAlive /\ job
    /\ job' = FALSE
    /\ UNCHANGED <<phase, request, inflight, stopping, cycle>>

\* stop(): await running, then await worker.close(), then the queue.
CycleDrained ==
    /\ stopping = "cycle" /\ ~cycle
    /\ stopping' = "worker"
    /\ UNCHANGED <<phase, request, inflight, cycle, job>>

\* After thirty seconds stop() would close the worker by force, but the exit timer of
\* the signal is older and has ended the process by then.
WorkerClosed ==
    /\ stopping = "worker" /\ ~job
    /\ stopping' = "done"
    /\ UNCHANGED <<phase, request, inflight, cycle, job>>

-----------------------------------------------------------------------------
(* The signal and what follows. *)

Signal ==
    /\ phase = "up"
    /\ phase' = "draining"
    /\ stopping' = "cycle"
    /\ UNCHANGED <<request, inflight, cycle, job>>

HooksDone ==
    /\ phase = "draining" /\ stopping = "done"
    /\ phase' = "closing"
    /\ UNCHANGED <<request, inflight, stopping, cycle, job>>

\* server.close() waits for the open connections; the database is closed after it.
ServerClosed ==
    /\ phase = "closing"
    /\ \A r \in Requests : request[r].at = "idle" \/ request[r].gone
    /\ phase' = "closed"
    /\ UNCHANGED <<request, inflight, stopping, cycle, job>>

End ==
    /\ phase = "closed"
    /\ phase' = "ended"
    /\ UNCHANGED <<request, inflight, stopping, cycle, job>>

\* Thirty seconds after the signal the process exits, whatever is left.
Deadline ==
    /\ phase \in {"draining", "closing", "closed"}
    /\ phase' = "ended"
    /\ UNCHANGED <<request, inflight, stopping, cycle, job>>

-----------------------------------------------------------------------------
Serve(r) == Limited(r) \/ Respond(r) \/ Finish(r) \/ Discard(r)

AdmissionNext ==
    \/ \E r \in Requests : Admit(r) \/ Serve(r) \/ Disconnect(r)
    \/ StartCycle \/ EndCycle \/ StartJob \/ EndJob \/ CycleDrained \/ WorkerClosed
    \/ Signal \/ HooksDone \/ ServerClosed \/ End \/ Deadline

AdmissionSpec == AdmissionInit /\ [][AdmissionNext]_admissionVars

\* Handlers, cycles and jobs end (statements time out after ten seconds, requests
\* after fifteen), a sent response frees its connection, and hooks are run.
AdmissionFairness ==
    /\ \A r \in Requests : WF_admissionVars(Serve(r)) /\ WF_admissionVars(request[r].at = "sent" /\ Disconnect(r))
    /\ WF_admissionVars(EndCycle) /\ SF_admissionVars(EndJob)
    /\ WF_admissionVars(CycleDrained) /\ WF_admissionVars(WorkerClosed)
    /\ WF_admissionVars(HooksDone) /\ WF_admissionVars(ServerClosed) /\ WF_admissionVars(End)

AdmissionFairSpec == AdmissionSpec /\ AdmissionFairness

-----------------------------------------------------------------------------
(* Properties. *)

\* The count is that of the ordinary requests whose response is still open, each
\* counted until it first finishes or closes and never twice.
Open(r) ==
    /\ r \notin StreamRequests
    /\ request[r].at \in {"limiting", "running", "sending"}
    /\ ~request[r].gone

CountIsExact == inflight = Cardinality({r \in Requests : Open(r)})

\* When the database is closed no cycle and no job is under way, and no request is
\* worked on for a client that still waits.
NothingIsCutOff ==
    phase = "closed" =>
        /\ ~cycle /\ ~job
        /\ \A r \in Requests : Working(r) => request[r].gone

\* A process that is full is so only for a while.
SlotsReturn == (inflight = MaxInflight /\ phase = "up") ~> (inflight < MaxInflight \/ phase # "up")

\* After a signal the process ends by itself: with fairness of its own steps alone
\* the deadline is not needed.
ShutdownEnds == phase = "draining" ~> phase = "ended"
=============================================================================
