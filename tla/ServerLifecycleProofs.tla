----------------------- MODULE ServerLifecycleProofs ------------------------
(***************************************************************************)
(* Theorems about ServerLifecycle, for every set of connections.           *)
(*                                                                         *)
(* The exit code is 0 until the timer of shutdown fires, and that ends the *)
(* process in the same step.  The process ends by itself only after the    *)
(* server is closed, and a closed server never has a connection again, so  *)
(* the handlers left by then are those of clients that hung up.            *)
(***************************************************************************)
EXTENDS ServerLifecycle, TLAPS

IInv ==
    /\ exitCode = 0 => cut = {}
    /\ exitCode # 0 => ~up
    /\ conn \in [ Connections -> { "none", "idle", "busy", "gone" } ]
    /\ closed => ~listening /\ In({ "idle", "busy" }) = {}
    /\ shuttingDown => ~listening

\* A step of a connection keeps the invariant, provided that one which was not open
\* is opened only on a server that listens.
LEMMA ConnectionStep ==
    ASSUME IInv, NEW c \in Connections, NEW from,
           NEW to \in { "none", "idle", "busy", "gone" }, Moves(c, from, to),
           to \in { "idle", "busy" } => listening \/ from \in { "idle", "busy" }
    PROVE  IInv'
<1>1. conn' \in [ Connections -> { "none", "idle", "busy", "gone" } ]
    BY DEF IInv, Moves
<1>2. closed' => In({ "idle", "busy" })' = {}
    <2>1. SUFFICES ASSUME closed, NEW d \in Connections, conn'[d] \in { "idle", "busy" }
                   PROVE  FALSE
        BY DEF Moves, serverVars, In
    <2>2. conn[d] \notin { "idle", "busy" } /\ conn[c] \notin { "idle", "busy" } /\ ~listening
        BY <2>1 DEF IInv, In
    <2>3. CASE d = c
        BY <2>1, <2>2, <2>3 DEF IInv, Moves
    <2>4. CASE d # c
        BY <2>1, <2>2, <2>4 DEF IInv, Moves
    <2>5. QED
        BY <2>3, <2>4
<1>3. QED
    BY <1>1, <1>2 DEF IInv, Moves, serverVars

LEMMA NextIInv == IInv /\ [Next]_vars => IInv'
<1> SUFFICES ASSUME IInv, [Next]_vars PROVE IInv'
    OBVIOUS
<1>1. ASSUME NEW c \in Connections,
             \/ Connect(c) \/ Request(c) \/ Answer(c)
             \/ HangUp(c) \/ LeaveIdle(c) \/ HandlerEnds(c)
      PROVE  IInv'
    BY <1>1, ConnectionStep DEF Connect, Request, Answer, HangUp, LeaveIdle, HandlerEnds
<1>2. CASE Shutdown
    BY <1>2 DEF Shutdown, IInv, In
<1>3. CASE Closed
    BY <1>3 DEF Closed, IInv, In
<1>4. CASE ForceExit
    BY <1>4 DEF ForceExit, IInv, In
<1>5. CASE EmptyLoop
    <2>1. In({ "busy", "gone" }) = {}
        BY <1>5 DEF EmptyLoop, IInv, In
    <2>2. QED
        BY <1>5, <2>1 DEF EmptyLoop, IInv, In
<1>6. CASE UNCHANGED vars
    BY <1>6 DEF vars, IInv, In
<1>7. QED
    BY <1>1, <1>2, <1>3, <1>4, <1>5, <1>6 DEF Next

\* A process that exits with code 0 has cut off no handler: those of waiting clients
\* answered before the server was closed, those of clients that hung up ended before
\* the event loop was empty (the callbacks of server.close and of the timer in
\* server.ts).
THEOREM CleanExits == Spec => []CleanExitMeansDrained
<1>1. Init => IInv
    BY DEF Init, IInv, In
<1>2. IInv => CleanExitMeansDrained
    BY DEF IInv, CleanExitMeansDrained
<1>3. QED
    BY <1>1, <1>2, NextIInv, PTL DEF Spec
=============================================================================
