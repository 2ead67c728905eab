------------------------- MODULE ServerLifecycleProofs -------------------------
(***************************************************************************)
(* Proofs about ServerLifecycle, for every set of requests and every       *)
(* ShutdownTimeout.  GraceKept is not inductive: that ListenAndServe does  *)
(* not end the process during a shutdown needs LifecycleCoherent, that the *)
(* listener is then never open and, if it was never opened, nobody is in.  *)
(***************************************************************************)
EXTENDS ServerLifecycle, TLAPS

\* When the process ends, the requests under way are cut and no others.
LEMMA ExitCuts ==
    ASSUME NEW how, TypeOK, LifecycleCoherent, Running, Exit(how)
    PROVE  /\ request' \in [Request -> {"unsent", "accepted", "active", "answered", "cut"}]
           /\ \A q \in Request : request'[q] = "cut" <=> request[q] = "active"
           /\ \A q \in Request : request[q] # "active" => request'[q] = request[q]
  BY DEF Exit, Active, TypeOK, LifecycleCoherent, Running

\* The ticks stop at the deadline.
LEMMA TickBound ==
    ASSUME NEW n \in 0..ShutdownTimeout, n < ShutdownTimeout
    PROVE  n + 1 \in 0..ShutdownTimeout
  BY TimeoutAssumption

\* The process starts with nothing listening and nothing logged.
LEMMA InitIInv == Init => IInv
  BY TimeoutAssumption DEF Init, IInv, TypeOK, LifecycleCoherent, GraceKept,
     Running, ShuttingDown

\* Every action keeps the inductive invariant.
LEMMA StepIInv == IInv /\ [Next]_vars => IInv'
  <1> SUFFICES ASSUME IInv, [Next]_vars PROVE IInv'
      OBVIOUS
  <1> TypeOK /\ LifecycleCoherent /\ GraceKept
      BY DEF IInv
  <1> USE TimeoutAssumption DEF TypeOK, LifecycleCoherent, Running, ShuttingDown
  <1> USE DEF GraceKept, IInv
  <1>1. CASE Listen
      BY <1>1 DEF Listen
  <1>2. CASE ListenFails
      <2>1. request' \in [Request -> {"unsent", "accepted", "active", "answered", "cut"}]
          BY <1>2, ExitCuts DEF ListenFails
      <2>2. ShuttingDown => \A q \in Request : request[q] = "unsent"
          BY <1>2 DEF ListenFails, Fatal
      <2>3. \A q \in Request : request[q] = "unsent" => request'[q] = "unsent"
          BY <1>2, ExitCuts DEF ListenFails
      <2> QED BY <1>2, <2>1, <2>2, <2>3 DEF ListenFails, Exit
  <1>3. ASSUME NEW q \in Request, Accept(q) \/ Serve(q) \/ CloseIdle(q) PROVE IInv'
      BY <1>3 DEF Accept, Serve, CloseIdle
  <1>4. ASSUME NEW q \in Request, Answer(q) PROVE IInv'
      BY <1>4 DEF Answer
  <1>5. CASE Notify
      BY <1>5 DEF Notify
  <1>6. CASE Signal
      <2>1. CASE main = "launch"
          BY <1>6, <2>1, ExitCuts DEF Signal, Exit
      <2>2. CASE main # "launch"
          BY <1>6, <2>2 DEF Signal, Deliver
      <2> QED BY <2>1, <2>2
  <1>7. CASE BeginShutdown
      BY <1>7 DEF BeginShutdown
  <1>8. CASE Tick
      <2>1. elapsed' \in 0..ShutdownTimeout
          BY <1>8, TickBound DEF Tick
      <2>2. UNCHANGED <<main, listener, quit, request, exit, logged>> /\ Running
          BY <1>8 DEF Tick
      <2> QED BY <2>1, <2>2
  <1>9. CASE ShutdownDone
      <2>1. \A q \in Request : request[q] # "active"
          BY <1>9 DEF ShutdownDone, Drained, Active
      <2> QED BY <1>9, <2>1, ExitCuts DEF ShutdownDone, Exit
  <1>10. CASE ShutdownTimesOut
      BY <1>10, ExitCuts DEF ShutdownTimesOut, DeadlinePassed, Exit
  <1>11. CASE UNCHANGED vars
      BY <1>11 DEF vars
  <1> QED BY <1>1, <1>2, <1>3, <1>4, <1>5, <1>6, <1>7, <1>8, <1>9, <1>10, <1>11 DEF Next

\* IInv holds in every reachable state.
LEMMA Inductive == Spec => []IInv
  BY InitIInv, StepIInv, PTL DEF Spec

\* The variables hold what main and net/http can be in, and quit never more
\* than the one signal its buffer has room for.
THEOREM TypeCorrect == Spec => []TypeOK
  <1>1. IInv => TypeOK
      BY DEF IInv
  <1> QED BY Inductive, <1>1, PTL

\* Once a shutdown has begun, only its deadline cuts a request short, however
\* the signals, ListenAndServe and the requests interleave.
THEOREM GraceCorrect == Spec => []GraceKept
  <1>1. IInv => GraceKept
      BY DEF IInv
  <1> QED BY Inductive, <1>1, PTL

=============================================================================
