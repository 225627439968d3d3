-------------------------- MODULE ServerLifecycle ---------------------------
(***************************************************************************)
(* server.ts and api/lifecycle.ts: how the process ends on SIGTERM or      *)
(* SIGINT while requests are under way.                                    *)
(*                                                                         *)
(* shutdown arms a timer and closes the server.  A closed server takes no  *)
(* new connection and drops the idle ones; a connection that waits for an  *)
(* answer stays, is idle again once it has it, and may be used for another *)
(* request.  The process ends by itself when nothing keeps its event loop  *)
(* going: no socket, no timer (the one of shutdown does not count), and no *)
(* handler that waits for an adapter, not even one whose client hung up    *)
(* (an adapter's call has a socket or a timer of its own to wait with).    *)
(***************************************************************************)
EXTENDS Naturals

CONSTANT Connections       \* the connections clients may open

VARIABLES
    up,                    \* the process runs
    accepting,             \* acceptingRequests, what GET /health/ready tells
    listening,             \* the server takes connections
    shuttingDown,
    timer,                 \* forceExitTimer
    closed,                \* the callback of server.close has run
    exitCode,              \* process.exitCode; one that was never set counts as 0
    conn,                  \* "none", "idle", "busy" with a request, or "gone" when the
                           \* client has hung up and the handler still runs
    cut                    \* history: connections whose handler was cut off

vars == << up, accepting, listening, shuttingDown, timer, closed, exitCode, conn, cut >>

serverVars == << up, accepting, listening, shuttingDown, timer, closed, exitCode, cut >>

In(places) == { c \in Connections : conn[c] \in places }

Init ==
    /\ up = TRUE
    /\ accepting = TRUE
    /\ listening = TRUE
    /\ shuttingDown = FALSE
    /\ timer = "off"
    /\ closed = FALSE
    /\ exitCode = 0
    /\ conn = [ c \in Connections |-> "none" ]
    /\ cut = {}

-----------------------------------------------------------------------------
\* Clients and handlers.

Moves(c, from, to) ==
    /\ up
    /\ conn[c] = from
    /\ conn' = [ conn EXCEPT ![c] = to ]
    /\ UNCHANGED serverVars

Connect(c) == listening /\ Moves(c, "none", "idle")

Request(c) == Moves(c, "idle", "busy")

\* The connection is kept for another request, or closed with the answer.
Answer(c) == Moves(c, "busy", "idle") \/ Moves(c, "busy", "none")

HangUp(c) == Moves(c, "busy", "gone")

\* The client leaves, or the keep-alive timeout has passed.
LeaveIdle(c) == Moves(c, "idle", "none")

\* The adapter has answered the handler; its response goes nowhere.
HandlerEnds(c) == Moves(c, "gone", "none")

-----------------------------------------------------------------------------
\* shutdown and what it sets going.

\* Mutant of Shutdown: the server is closed and no timer is armed.
ShutdownUntimed ==
    /\ up
    /\ ~shuttingDown
    /\ shuttingDown' = TRUE
    /\ accepting' = FALSE
    /\ listening' = FALSE
    /\ conn' = [ c \in Connections |-> IF conn[c] = "idle" THEN "none" ELSE conn[c] ]
    /\ UNCHANGED << up, timer, closed, exitCode, cut >>

\* The first signal; later ones return at once.  beginShutdown and server.close are
\* called in one tick.
Shutdown ==
    /\ up
    /\ ~shuttingDown
    /\ shuttingDown' = TRUE
    /\ accepting' = FALSE
    /\ timer' = "armed"
    /\ listening' = FALSE
    /\ conn' = [ c \in Connections |-> IF conn[c] = "idle" THEN "none" ELSE conn[c] ]
    /\ UNCHANGED << up, closed, exitCode, cut >>

\* The callback of server.close: the last connection has ended.  Its error branch is
\* for a server that was not listening, which the guard of shutdown rules out.
Closed ==
    /\ up
    /\ shuttingDown
    /\ ~closed
    /\ In({ "idle", "busy" }) = {}
    /\ closed' = TRUE
    /\ timer' = "cleared"
    /\ exitCode' = 0
    /\ UNCHANGED << up, accepting, listening, shuttingDown, conn, cut >>

\* Mutant of ForceExit: the process exits without a code.
ForceExitSilently ==
    /\ up
    /\ timer = "armed"
    /\ up' = FALSE
    /\ timer' = "cleared"
    /\ cut' = In({ "busy", "gone" })
    /\ conn' = [ c \in Connections |-> "none" ]
    /\ UNCHANGED << accepting, listening, shuttingDown, closed, exitCode >>

\* The timer of shutdown fires: process.exit cuts off whatever is under way.
ForceExit ==
    /\ up
    /\ timer = "armed"
    /\ exitCode' = 1
    /\ up' = FALSE
    /\ timer' = "cleared"
    /\ cut' = In({ "busy", "gone" })
    /\ conn' = [ c \in Connections |-> "none" ]
    /\ UNCHANGED << accepting, listening, shuttingDown, closed >>

\* The event loop is empty: no socket is left once the server is closed.
EmptyLoop ==
    /\ up
    /\ closed
    /\ In({ "gone" }) = {}
    /\ up' = FALSE
    /\ cut' = In({ "busy", "gone" })
    /\ UNCHANGED << accepting, listening, shuttingDown, timer, closed, exitCode, conn >>

Next ==
    \/ \E c \in Connections :
            \/ Connect(c) \/ Request(c) \/ Answer(c)
            \/ HangUp(c) \/ LeaveIdle(c) \/ HandlerEnds(c)
    \/ Shutdown \/ Closed \/ ForceExit \/ EmptyLoop

\* Timers fire, callbacks are called, and an event loop with nothing left to wait for
\* ends.  That an adapter ever answers a handler is not assumed: nothing bounds its
\* call.
Fairness ==
    /\ WF_vars(Closed)
    /\ WF_vars(ForceExit)
    /\ WF_vars(EmptyLoop)

Spec == Init /\ [][Next]_vars /\ Fairness

-----------------------------------------------------------------------------
\* Properties.

\* A process that ends with code 0 has cut nothing off: every request it took ran to
\* its end, those of clients that hung up included.
CleanExitMeansDrained == (~up /\ exitCode = 0) => cut = {}

\* All connections have ended and all that keeps the process up are handlers whose
\* clients hung up.
OnlyHungUpLeft == closed /\ In({ "gone" }) # {} /\ In({ "idle", "busy" }) = {}

\* A signal ends the process, whatever clients do with the connections they have and
\* however long they are kept waiting, unless it comes to wait for nothing but
\* handlers whose clients hung up.  The callback of server.close clears the timer
\* (server.ts:45) though such a handler may still wait, and then nothing bounds it;
\* api-contract.md:85 has no such exception.
ShutdownEnds == shuttingDown ~> (~up \/ OnlyHungUpLeft)
=============================================================================
