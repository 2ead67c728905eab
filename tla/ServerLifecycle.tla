---------------------------- MODULE ServerLifecycle ----------------------------
(***************************************************************************)
(* The life of the sample server's process, sample-server/main.go: one     *)
(* goroutine listens and serves, main waits for a signal and shuts the     *)
(* server down within a deadline.  net/http is external: Shutdown closes   *)
(* the listener and the idle connections, ListenAndServe then returns      *)
(* ErrServerClosed, and Shutdown returns nil once no connection is left,   *)
(* or the context's error.  A connection that was accepted before may      *)
(* still bring its request.                                                *)
(***************************************************************************)
EXTENDS Naturals

CONSTANTS
    Request,        \* the requests clients send
    ShutdownTimeout \* the deadline of the context given to Shutdown, in ticks

ASSUME TimeoutAssumption == ShutdownTimeout \in Nat

VARIABLES
    main,           \* where the main goroutine is
    listener,       \* the listener of ListenAndServe
    quit,           \* signals in the channel quit, whose capacity is one
    request,        \* what became of each request
    elapsed,        \* ticks since Shutdown was called
    exit,           \* how the process ended, "no" while it runs
    logged          \* what main has logged about its end

vars == <<main, listener, quit, request, elapsed, exit, logged>>

Init ==
    /\ main     = "launch"
    /\ listener = "down"
    /\ quit     = 0
    /\ request  = [q \in Request |-> "unsent"]
    /\ elapsed  = 0
    /\ exit     = "no"
    /\ logged   = {}

Accepted == {q \in Request : request[q] = "accepted"}

Active == {q \in Request : request[q] = "active"}

\* The process ends, and every goroutine with it: the requests being handled get
\* no answer, those not read yet were never let in.
Exit(how) ==
    /\ exit' = how
    /\ request' = [q \in Request |-> IF q \in Active THEN "cut" ELSE request[q]]

Running == exit = "no"

ShuttingDown == main = "shutdown"

-----------------------------------------------------------------------------
(* ListenAndServe, in its own goroutine.                                   *)

Listen ==
    /\ Running /\ listener = "down"
    /\ listener' = IF ShuttingDown THEN "closed" ELSE "open"
    /\ UNCHANGED <<main, quit, request, elapsed, exit, logged>>

\* Mutant: any error of ListenAndServe is fatal, ErrServerClosed too.
FatalAlways(state) == TRUE

\* The port is taken, or accepting fails for good: os.Exit(1).  A listener that
\* Shutdown has closed gives ErrServerClosed, which is ignored.
Fatal(state) == state # "closed"

ListenFails ==
    /\ Running
    /\ Fatal(listener)
    /\ Exit("failed")
    /\ UNCHANGED <<main, listener, quit, elapsed, logged>>

\* The connection for request q is accepted; nothing is read from it yet.
Accept(q) ==
    /\ Running /\ listener = "open" /\ request[q] = "unsent"
    /\ request' = [request EXCEPT ![q] = "accepted"]
    /\ UNCHANGED <<main, listener, quit, elapsed, exit, logged>>

\* Its handler starts, during a shutdown too: only the listener is closed.
Serve(q) ==
    /\ Running /\ request[q] = "accepted"
    /\ request' = [request EXCEPT ![q] = "active"]
    /\ UNCHANGED <<main, listener, quit, elapsed, exit, logged>>

Answer(q) ==
    /\ Running /\ request[q] = "active"
    /\ request' = [request EXCEPT ![q] = "answered"]
    /\ UNCHANGED <<main, listener, quit, elapsed, exit, logged>>

\* Shutdown closes a connection on which no request has come.
CloseIdle(q) ==
    /\ Running /\ ShuttingDown /\ request[q] = "accepted"
    /\ request' = [request EXCEPT ![q] = "unsent"]
    /\ UNCHANGED <<main, listener, quit, elapsed, exit, logged>>

-----------------------------------------------------------------------------
(* The main goroutine.                                                     *)

Notify ==
    /\ Running /\ main = "launch"
    /\ main' = "waiting"
    /\ UNCHANGED <<listener, quit, request, elapsed, exit, logged>>

\* Mutant: a channel that never drops a signal.
DeliverAll == quit + 1

\* The signal package does not block on a full channel: it drops the signal.
Deliver == 1

\* SIGINT or SIGTERM.  Before signal.Notify it kills; after, it goes to quit,
\* or nowhere when quit is full.
Signal ==
    /\ Running
    /\ \/ /\ main = "launch"
          /\ Exit("killed")
          /\ UNCHANGED quit
       \/ /\ main # "launch"
          /\ quit' = Deliver
          /\ UNCHANGED <<request, exit>>
    /\ UNCHANGED <<main, listener, elapsed, logged>>

BeginShutdown ==
    /\ Running /\ main = "waiting" /\ quit = 1
    /\ quit' = 0
    /\ main' = "shutdown"
    /\ listener' = IF listener = "open" THEN "closed" ELSE listener
    /\ UNCHANGED <<request, elapsed, exit, logged>>

Tick ==
    /\ Running /\ ShuttingDown /\ elapsed < ShutdownTimeout
    /\ elapsed' = elapsed + 1
    /\ UNCHANGED <<main, listener, quit, request, exit, logged>>

Drained == Accepted = {} /\ Active = {}

\* Shutdown returns nil.
ShutdownDone ==
    /\ Running /\ ShuttingDown
    /\ Drained
    /\ Exit("clean")
    /\ logged' = logged \cup {"exited cleanly"}
    /\ UNCHANGED <<main, listener, quit, elapsed>>

\* Mutant: Shutdown is called without a deadline.
DeadlineNever == FALSE

DeadlinePassed == elapsed = ShutdownTimeout

\* Shutdown returns the context's error, and main goes on to the same end.
ShutdownTimesOut ==
    /\ Running /\ ShuttingDown
    /\ DeadlinePassed
    /\ Exit("forced")
    /\ logged' = logged \cup {"forced to shutdown", "exited cleanly"}
    /\ UNCHANGED <<main, listener, quit, elapsed>>

Next ==
    \/ Listen
    \/ ListenFails
    \/ \E q \in Request : Accept(q) \/ Serve(q) \/ Answer(q) \/ CloseIdle(q)
    \/ Notify
    \/ Signal
    \/ BeginShutdown
    \/ Tick
    \/ ShutdownDone
    \/ ShutdownTimesOut

Spec == Init /\ [][Next]_vars

\* main runs, time passes and Shutdown notices both of the things it waits for.
\* Nothing is assumed of the requests: a handler may never return.
Fairness ==
    /\ WF_vars(Notify)
    /\ WF_vars(BeginShutdown)
    /\ WF_vars(Tick)
    /\ WF_vars(ShutdownDone \/ ShutdownTimesOut)

FairSpec == Spec /\ Fairness

-----------------------------------------------------------------------------
(* Properties.                                                             *)

\* The variables hold what main and net/http can be in.
TypeOK ==
    /\ main \in {"launch", "waiting", "shutdown"}
    /\ listener \in {"down", "open", "closed"}
    /\ quit \in {0, 1}
    /\ request \in [Request -> {"unsent", "accepted", "active", "answered", "cut"}]
    /\ elapsed \in 0..ShutdownTimeout
    /\ exit \in {"no", "failed", "killed", "clean", "forced"}
    /\ logged \subseteq {"forced to shutdown", "exited cleanly"}

\* Once shutdown has begun, a request under way is cut only at the deadline: not
\* by ListenAndServe returning, not by a second signal, not by the end of main.
\* That holds of the requests that start during the shutdown too.
GraceKept ==
    ShuttingDown /\ (\E q \in Request : request[q] = "cut") =>
        exit = "forced" /\ elapsed = ShutdownTimeout

\* A signal ends the process, though a handler may hang and though the signal
\* may find quit full or main already shutting down.
SignalEndsProcess == quit = 1 ~> ~Running

\* What makes GraceKept inductive: a running process has cut nobody, the
\* listener is closed by Shutdown and open only before, and lets requests in.
LifecycleCoherent ==
    /\ Running => \A q \in Request : request[q] # "cut"
    /\ listener = "closed" => ShuttingDown
    /\ listener = "open" => ~ShuttingDown
    /\ listener = "down" => \A q \in Request : request[q] = "unsent"

\* The inductive invariant.
IInv == TypeOK /\ LifecycleCoherent /\ GraceKept

\* What main logs last, "Sample server exited cleanly", said of an exit that
\* left a request without an answer.
CleanExitTrue ==
    "exited cleanly" \in logged => \A q \in Request : request[q] # "cut"

=============================================================================
