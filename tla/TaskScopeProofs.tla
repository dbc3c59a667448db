-------------------------- MODULE TaskScopeProofs --------------------------
(***************************************************************************)
(* Proofs about TaskScope, for every set of children, whichever of them    *)
(* may throw or end inside spawn: join comes back with a result of its own *)
(* only after the last child, and with the failure if there was one.       *)
(***************************************************************************)
EXTENDS TaskScope, FiniteSetTheorems, TLAPS

TypeOK ==
    /\ active \in Nat /\ tokens \in Nat
    /\ first_exception \in Children \cup {NoChild}
    /\ scope_stop \in BOOLEAN /\ closed \in BOOLEAN /\ cancelled \in BOOLEAN
    /\ child \in [Children -> {"new", "running", "ending", "closing", "sending", "done"}]
    /\ join_pc \in {"idle", "checking", "looking", "receiving", "waiting", "done"}
    /\ wake \in {"none", "value", "closed"}
    /\ result \in Results
    /\ token \in {"idle", "callback", "stopped"}
    /\ home \in {"loop", "other"} /\ here \in Children \cup {NoChild}

\* join is suspended in recv and nothing has been delivered to it.
Sleeping == join_pc = "waiting" /\ wake = "none"

\* Somebody is left who will send or close: a child that runs, or the last one
\* between its decrement of active and its close of completions.
SomebodyLeft == Running # {} \/ \E c \in Children : child[c] = "closing"

\* The safety core of JoinEnds: join sleeps only while somebody is left to wake it,
\* on an open channel, and never on a stop of its token that it has not acted upon.
JoinSleepsForCause ==
    Sleeping => /\ SomebodyLeft /\ ~closed
                /\ token = "stopped" => cancelled

\* What join relies on from its look at active until it sleeps: the last child has
\* closed completions or is about to, ...
CloseIsDue == join_pc \in {"receiving", "waiting"} => SomebodyLeft \/ closed

\* ... and a stop that came after its look at the token is in completions.
StopIsThere ==
    join_pc \in {"looking", "receiving"} /\ token = "stopped" /\ ~cancelled
        => tokens > 0 \/ closed

\* active counts the children that run, and the results of join and its
\* sleeping agree with what it saw.
ScopeInv ==
    /\ TypeOK
    /\ active = Cardinality(Running)
    /\ JoinWaitsForChildren
    /\ CloseIsDue
    /\ StopIsThere
    /\ JoinSleepsForCause

\* Nobody is active exactly when the set of running children is empty.
LEMMA RunningFacts ==
    ASSUME TypeOK
    PROVE  /\ IsFiniteSet(Running) /\ Cardinality(Running) \in Nat
           /\ Cardinality(Running) = 0 <=> Running = {}
<1>1. Running \subseteq Children /\ IsFiniteSet(Children)
  BY ScopeAssumption DEF Running
<1>2. IsFiniteSet(Running)
  BY <1>1, FS_Subset
<1> QED
  BY <1>2, FS_CardinalityType, FS_EmptySet

\* A child that starts is one more, and a child that ends is one less.
LEMMA RunningGrows ==
    ASSUME TypeOK, NEW c \in Children, child[c] = "new",
           child' = [child EXCEPT ![c] = "running"]
    PROVE  Cardinality(Running') = Cardinality(Running) + 1
<1>1. Running' = Running \cup {c} /\ c \notin Running
  BY DEF Running, TypeOK
<1> QED
  BY <1>1, RunningFacts, FS_AddElement

\* A child that ends is one running child less, and if it was the last one it is
\* about to close completions.
LEMMA RunningShrinks ==
    ASSUME TypeOK, active = Cardinality(Running), NEW c \in Children,
           child[c] \in {"running", "ending"}, RunChildEnd(c)
    PROVE  /\ active' = Cardinality(Running') /\ active' \in Nat
           /\ Running # {} /\ SomebodyLeft'
<1>1. Running' = Running \ {c} /\ c \in Running
  BY DEF Running, TypeOK, RunChildEnd
<1>2. Cardinality(Running') = active - 1 /\ active > 0
  BY <1>1, RunningFacts, FS_RemoveElement
<1>3. active' = active - 1 /\ active' \in Nat
  BY <1>2 DEF RunChildEnd, TypeOK
<1>4. SomebodyLeft'
  <2>1. CASE active = 1
    BY <2>1 DEF RunChildEnd, SomebodyLeft, TypeOK
  <2>2. CASE active # 1
    <3>1. Cardinality(Running') # 0
      BY <1>2, <2>2 DEF TypeOK
    <3>2. Running' # {}
      BY <3>1, FS_EmptySet
    <3> QED
      BY <3>2 DEF SomebodyLeft
  <2> QED
    BY <2>1, <2>2
<1> QED
  BY <1>1, <1>2, <1>3, <1>4

\* A step that leaves the children alone leaves their number.
LEMMA SameRunning ==
    ASSUME ScopeInv, UNCHANGED <<active, child>>
    PROVE  active' = Cardinality(Running')
<1>1. Running' = Running
  BY DEF Running
<1> QED
  BY <1>1 DEF ScopeInv

\* A step of the completions channel keeps its types.
LEMMA SendTypes ==
    ASSUME TypeOK, Send \/ CloseCompletions \/ UNCHANGED chan
    PROVE  /\ tokens' \in Nat /\ closed' \in BOOLEAN
           /\ wake' \in {"none", "value", "closed"}
<1>1. CASE Send
  BY <1>1 DEF TypeOK, Send
<1>2. CASE CloseCompletions
  <2>1. closed' \in BOOLEAN
    BY <1>2, Zenon DEF CloseCompletions
  <2>2. tokens' \in Nat /\ wake' \in {"none", "value", "closed"}
    BY <1>2 DEF TypeOK, CloseCompletions
  <2> QED
    BY <2>1, <2>2
<1>3. CASE UNCHANGED chan
  BY <1>3 DEF TypeOK, chan
<1> QED
  BY <1>1, <1>2, <1>3

\* Whatever is sent, or the close, leaves nobody asleep.
LEMMA SendWakes ==
    ASSUME TypeOK, Send \/ CloseCompletions, UNCHANGED join_pc
    PROVE  ~Sleeping'
BY DEF TypeOK, Send, CloseCompletions, Sleeping

\* spawn counts its child before it runs, and returns.
LEMMA SpawnSteps ==
    ASSUME ScopeInv, SpawnReturns \/ \E c \in Children : Spawn(c)
    PROVE  ScopeInv'
<1>1. ASSUME NEW c \in Children, Spawn(c) PROVE ScopeInv'
  <2>1. TypeOK'
    BY <1>1 DEF ScopeInv, TypeOK, Spawn, chan
  <2>2. active' = Cardinality(Running')
    BY <1>1, RunningGrows DEF ScopeInv, Spawn
  <2>3. join_pc' = "idle"
    BY <1>1 DEF Spawn
  <2> QED
    BY <2>1, <2>2, <2>3 DEF ScopeInv, JoinWaitsForChildren, Joined, CloseIsDue,
                            StopIsThere, JoinSleepsForCause, Sleeping
<1>2. CASE SpawnReturns
  <2>1. TypeOK' /\ UNCHANGED <<active, Running, SomebodyLeft>>
    BY <1>2 DEF ScopeInv, TypeOK, SpawnReturns, chan, Running, SomebodyLeft
  <2> QED
    BY <1>2, <2>1 DEF ScopeInv, SpawnReturns, chan, JoinWaitsForChildren, Joined,
                      CloseIsDue, StopIsThere, JoinSleepsForCause, Sleeping
<1> QED
  BY <1>1, <1>2

\* The decrement of active by a child that has returned or thrown.
LEMMA RunChildEndStep ==
    ASSUME ScopeInv, NEW c \in Children, child[c] \in {"running", "ending"},
           RunChildEnd(c)
    PROVE  ScopeInv'
<1>1. /\ active' = Cardinality(Running') /\ active' \in Nat
      /\ Running # {} /\ SomebodyLeft'
  BY RunningShrinks DEF ScopeInv
<1>2. TypeOK'
  BY <1>1 DEF ScopeInv, TypeOK, RunChildEnd, chan, threads
<1>3. JoinWaitsForChildren'
  BY <1>1 DEF ScopeInv, RunChildEnd, JoinWaitsForChildren, Joined
<1>4. CloseIsDue' /\ StopIsThere' /\ JoinSleepsForCause'
  BY <1>1 DEF ScopeInv, RunChildEnd, chan, CloseIsDue, StopIsThere,
              JoinSleepsForCause, Sleeping
<1> QED
  BY <1>1, <1>2, <1>3, <1>4 DEF ScopeInv

\* What the child then does to completions: the last one closes it, so that join
\* does not need it any more.
LEMMA ChildSignalsStep ==
    ASSUME ScopeInv, NEW c \in Children, ChildSignals(c)
    PROVE  ScopeInv'
<1>1. /\ child[c] \in Signalling /\ child' = [child EXCEPT ![c] = "done"]
      /\ UNCHANGED <<active, first_exception, scope_stop, join_pc, cancelled, result,
                     token, home, here>>
  BY DEF ChildSignals, threads
<1>2. Send \/ CloseCompletions \/ UNCHANGED chan
  BY DEF ChildSignals
<1>3. TypeOK'
  <2>1. child' \in [Children -> {"new", "running", "ending", "closing", "sending", "done"}]
    BY <1>1 DEF ScopeInv, TypeOK
  <2> QED
    BY <1>1, <1>2, <2>1, SendTypes DEF ScopeInv, TypeOK
<1>4. Running' = Running
  BY <1>1 DEF ScopeInv, TypeOK, Running, Signalling
<1>5. JoinWaitsForChildren'
  BY <1>1, <1>4 DEF ScopeInv, JoinWaitsForChildren, Joined
<1>6. CASE child[c] = "closing" /\ CloseCompletions
  <2>1. closed' = TRUE
    BY <1>6 DEF CloseCompletions
  <2>2. ~Sleeping'
    BY <1>1, <1>6, SendWakes DEF ScopeInv
  <2> QED
    BY <1>1, <1>3, <1>4, <1>5, <2>1, <2>2
    DEF ScopeInv, CloseIsDue, StopIsThere, JoinSleepsForCause
<1>7. CASE child[c] = "sending" /\ ~closed /\ Send
  <2>1. SomebodyLeft => SomebodyLeft'
    BY <1>1, <1>4, <1>7 DEF ScopeInv, TypeOK, SomebodyLeft
  <2>2. ~Sleeping'
    BY <1>1, <1>7, SendWakes DEF ScopeInv
  <2>3. tokens' >= tokens /\ closed' = closed
    BY <1>7 DEF Send, ScopeInv, TypeOK
  <2>4. tokens \in Nat /\ tokens' \in Nat
    BY <1>3 DEF ScopeInv, TypeOK
  <2>5. CloseIsDue'
    BY <1>1, <2>1, <2>3 DEF ScopeInv, CloseIsDue
  <2>6. StopIsThere'
    BY <1>1, <2>3, <2>4 DEF ScopeInv, StopIsThere
  <2> QED
    BY <1>1, <1>3, <1>4, <1>5, <2>2, <2>5, <2>6
    DEF ScopeInv, JoinSleepsForCause
<1>8. CASE child[c] = "sending" /\ closed /\ UNCHANGED chan
  BY <1>1, <1>3, <1>4, <1>5, <1>8
  DEF ScopeInv, chan, CloseIsDue, StopIsThere, JoinSleepsForCause, Sleeping
<1> QED
  BY <1>6, <1>7, <1>8 DEF ChildSignals

\* A child that throws is kept for join.
LEMMA ChildThrowsStep ==
    ASSUME ScopeInv, NEW c \in Children, ChildThrows(c)
    PROVE  ScopeInv'
<1>1. Running' = Running /\ c \in Running
  BY DEF ScopeInv, TypeOK, Running, ChildThrows, MayEnd
<1>2. TypeOK'
  BY DEF ScopeInv, TypeOK, ChildThrows, chan, threads
<1>3. JoinWaitsForChildren'
  BY <1>1 DEF ScopeInv, ChildThrows, JoinWaitsForChildren, Joined
<1>4. SomebodyLeft'
  BY <1>1 DEF SomebodyLeft
<1>5. CloseIsDue' /\ StopIsThere' /\ JoinSleepsForCause'
  BY <1>4 DEF ScopeInv, ChildThrows, CloseIsDue, StopIsThere, JoinSleepsForCause,
              Sleeping, chan
<1> QED
  BY <1>1, <1>2, <1>3, <1>5 DEF ScopeInv, ChildThrows

\* The end of join: nobody runs any more.
LEMMA FinishStep ==
    ASSUME ScopeInv, NEW k \in BOOLEAN, Finish(k), active = 0,
           UNCHANGED <<active, first_exception, child>>
    PROVE  JoinWaitsForChildren' /\ join_pc' = "done" /\ result' \in Results
<1>1. Running' = {}
  BY RunningFacts DEF ScopeInv, Running
<1> QED
  BY <1>1 DEF Finish, JoinWaitsForChildren, Joined, Results

\* Once join is done, only its result is left to look at.
LEMMA DoneStep ==
    ASSUME ScopeInv, TypeOK', UNCHANGED <<active, child>>, JoinWaitsForChildren',
           join_pc' = "done"
    PROVE  ScopeInv'
BY SameRunning DEF ScopeInv, CloseIsDue, StopIsThere, JoinSleepsForCause, Sleeping

\* The catch clause: join is done, with a result of its own if nobody runs.
LEMMA CaughtStep ==
    ASSUME ScopeInv, Caught, UNCHANGED <<active, first_exception, child>>
    PROVE  JoinWaitsForChildren' /\ join_pc' = "done" /\ result' \in Results
<1>1. CASE active = 0 /\ Finish(cancelled)
  BY <1>1, FinishStep DEF ScopeInv, TypeOK
<1>2. CASE join_pc' = "done" /\ result' = "closed error"
  BY <1>2 DEF JoinWaitsForChildren, Joined, Results
<1> QED
  BY <1>1, <1>2 DEF Caught

\* join registers its callback, and looks at its token.
LEMMA JoinLooksAtToken ==
    ASSUME ScopeInv, JoinStart \/ JoinCheck
    PROVE  ScopeInv'
<1>1. CASE JoinStart
  <2>1. TypeOK'
    BY <1>1, SendTypes DEF ScopeInv, TypeOK, JoinStart, chan, threads
  <2>2. join_pc' = "checking" /\ UNCHANGED <<active, child>>
    BY <1>1 DEF JoinStart
  <2> QED
    BY <2>1, <2>2, SameRunning
    DEF ScopeInv, JoinWaitsForChildren, Joined, CloseIsDue, StopIsThere,
        JoinSleepsForCause, Sleeping
<1>2. CASE JoinCheck
  <2>1. TypeOK'
    BY <1>2 DEF ScopeInv, TypeOK, JoinCheck, chan, threads
  <2>2. join_pc' = "looking" /\ UNCHANGED <<active, child>>
        /\ (token' = "stopped" => cancelled')
    BY <1>2 DEF JoinCheck
  <2> QED
    BY <2>1, <2>2, SameRunning
    DEF ScopeInv, JoinWaitsForChildren, Joined, CloseIsDue, StopIsThere,
        JoinSleepsForCause, Sleeping
<1> QED
  BY <1>1, <1>2

\* join looks at active: it is done, or a child runs that will wake it.
LEMMA JoinLookStep ==
    ASSUME ScopeInv, JoinLook
    PROVE  ScopeInv'
<1>1. UNCHANGED <<active, first_exception, scope_stop, child, chan, cancelled, token,
                  threads>>
  BY DEF JoinLook
<1>2. CASE active = 0 /\ Finish(cancelled)
  <2>1. JoinWaitsForChildren' /\ join_pc' = "done" /\ result' \in Results
    BY <1>1, <1>2, FinishStep DEF ScopeInv, TypeOK
  <2>2. TypeOK'
    BY <1>1, <2>1 DEF ScopeInv, TypeOK, chan, threads
  <2> QED
    BY <1>1, <2>1, <2>2, DoneStep
<1>3. CASE active # 0 /\ join_pc' = "receiving" /\ UNCHANGED result
  <2>1. TypeOK'
    BY <1>1, <1>3 DEF ScopeInv, TypeOK, chan, threads
  <2>2. SomebodyLeft'
    <3>1. Running # {}
      BY <1>3, RunningFacts DEF ScopeInv
    <3> QED
      BY <1>1, <3>1 DEF Running, SomebodyLeft
  <2>3. StopIsThere'
    BY <1>1, <1>3 DEF ScopeInv, StopIsThere, JoinLook, chan
  <2> QED
    BY <1>1, <1>3, <2>1, <2>2, <2>3, SameRunning
    DEF ScopeInv, JoinWaitsForChildren, Joined, CloseIsDue, JoinSleepsForCause, Sleeping
<1> QED
  BY <1>2, <1>3 DEF JoinLook

\* join receives: it goes on, is done, or sleeps for a cause.
LEMMA JoinReceiveStep ==
    ASSUME ScopeInv, JoinReceive
    PROVE  ScopeInv'
<1>1. /\ join_pc = "receiving"
      /\ UNCHANGED <<active, first_exception, scope_stop, child, cancelled, token,
                     home, here>>
  BY DEF JoinReceive, threads
<1>2. CASE /\ tokens > 0 /\ tokens' = tokens - 1
           /\ join_pc' = "checking" /\ UNCHANGED <<closed, wake, result>>
  <2>1. TypeOK'
    BY <1>1, <1>2 DEF ScopeInv, TypeOK
  <2> QED
    BY <1>1, <1>2, <2>1, SameRunning
    DEF ScopeInv, JoinWaitsForChildren, Joined, CloseIsDue, StopIsThere,
        JoinSleepsForCause, Sleeping
<1>3. CASE Caught /\ UNCHANGED chan
  <2>1. JoinWaitsForChildren' /\ join_pc' = "done" /\ result' \in Results
    BY <1>1, <1>3, CaughtStep
  <2>2. TypeOK'
    BY <1>1, <1>3, <2>1 DEF ScopeInv, TypeOK, chan
  <2> QED
    BY <1>1, <2>1, <2>2, DoneStep
<1>4. CASE tokens = 0 /\ ~closed /\ join_pc' = "waiting" /\ UNCHANGED <<chan, result>>
  <2>1. TypeOK'
    BY <1>1, <1>4 DEF ScopeInv, TypeOK, chan
  <2>2. SomebodyLeft
    BY <1>1, <1>4 DEF ScopeInv, CloseIsDue
  <2>3. SomebodyLeft'
    BY <1>1, <2>2 DEF SomebodyLeft, Running
  <2>4. ~closed' /\ (token' = "stopped" => cancelled')
    BY <1>1, <1>4 DEF ScopeInv, StopIsThere, chan
  <2> QED
    BY <1>1, <1>4, <2>1, <2>3, <2>4, SameRunning
    DEF ScopeInv, JoinWaitsForChildren, Joined, CloseIsDue, StopIsThere,
        JoinSleepsForCause
<1> QED
  BY <1>2, <1>3, <1>4 DEF JoinReceive

\* The suspended recv comes back.
LEMMA JoinResumeStep ==
    ASSUME ScopeInv, JoinResume
    PROVE  ScopeInv'
<1>1. /\ wake' = "none" /\ home' = "loop"
      /\ UNCHANGED <<active, first_exception, scope_stop, tokens, closed, child,
                     cancelled, token, here>>
  BY DEF JoinResume
<1>2. CASE join_pc' = "checking" /\ UNCHANGED result
  <2>1. TypeOK'
    BY <1>1, <1>2 DEF ScopeInv, TypeOK
  <2> QED
    BY <1>1, <1>2, <2>1, SameRunning
    DEF ScopeInv, JoinWaitsForChildren, Joined, CloseIsDue, StopIsThere,
        JoinSleepsForCause, Sleeping
<1>3. CASE Caught
  <2>1. JoinWaitsForChildren' /\ join_pc' = "done" /\ result' \in Results
    BY <1>1, <1>3, CaughtStep
  <2>2. TypeOK'
    BY <1>1, <2>1 DEF ScopeInv, TypeOK
  <2> QED
    BY <1>1, <2>1, <2>2, DoneStep
<1> QED
  BY <1>2, <1>3 DEF JoinResume

\* Every step of join.
LEMMA JoinSteps ==
    ASSUME ScopeInv, Join
    PROVE  ScopeInv'
BY JoinLooksAtToken, JoinLookStep, JoinReceiveStep, JoinResumeStep DEF Join

\* A stop of the token, and its callback: what it sends reaches join, asleep or on
\* its way to sleep.
LEMMA StopSteps ==
    ASSUME ScopeInv, RequestStop \/ CallbackSend
    PROVE  ScopeInv'
<1>1. UNCHANGED <<active, first_exception, child, join_pc, cancelled, result, home, here>>
  BY DEF RequestStop, CallbackSend, threads
<1>2. TypeOK'
  BY <1>1, SendTypes DEF ScopeInv, TypeOK, RequestStop, CallbackSend, chan
<1>3. UNCHANGED <<Running, SomebodyLeft>>
  BY <1>1 DEF Running, SomebodyLeft
<1>4. JoinWaitsForChildren'
  BY <1>1, <1>3 DEF ScopeInv, JoinWaitsForChildren, Joined
<1>5. CloseIsDue' /\ StopIsThere' /\ JoinSleepsForCause'
  <2>1. CASE RequestStop
    <3>1. UNCHANGED chan /\ (token' = "stopped" => join_pc \notin {"looking", "receiving", "waiting"})
      BY <2>1 DEF RequestStop, Registered
    <3> QED
      BY <1>1, <1>3, <3>1 DEF ScopeInv, chan, CloseIsDue, StopIsThere,
                              JoinSleepsForCause, Sleeping
  <2>2. CASE CallbackSend /\ closed /\ UNCHANGED chan
    BY <1>1, <1>3, <2>2 DEF ScopeInv, chan, CloseIsDue, StopIsThere,
                            JoinSleepsForCause, Sleeping
  <2>3. CASE CallbackSend /\ ~closed /\ Send
    <3>1. ~Sleeping'
      BY <1>1, <2>3, SendWakes DEF ScopeInv
    <3>2. closed' = closed
      BY <2>3 DEF Send
    <3>3. join_pc # "waiting" => tokens' > 0
      BY <2>3 DEF Send, ScopeInv, TypeOK
    <3> QED
      BY <1>1, <1>3, <3>1, <3>2, <3>3 DEF ScopeInv, CloseIsDue, StopIsThere,
                                          JoinSleepsForCause
  <2> QED
    BY <2>1, <2>2, <2>3 DEF CallbackSend
<1> QED
  BY <1>1, <1>2, <1>3, <1>4, <1>5, SameRunning DEF ScopeInv

\* Types, the count of the children and the result of join are inductive
\* together.
THEOREM ScopeInvariant == Spec => []ScopeInv
<1>1. Init => ScopeInv
  <2> SUFFICES ASSUME Init PROVE ScopeInv
    OBVIOUS
  <2>1. TypeOK
    BY DEF Init, TypeOK, Results
  <2>2. Running = {}
    BY DEF Init, Running
  <2> QED
    BY <2>1, <2>2, FS_EmptySet DEF Init, ScopeInv, JoinWaitsForChildren, Joined,
                                   CloseIsDue, StopIsThere, JoinSleepsForCause, Sleeping
<1>2. ScopeInv /\ [Next]_vars => ScopeInv'
  <2> SUFFICES ASSUME ScopeInv, [Next]_vars PROVE ScopeInv'
    OBVIOUS
  <2>1. CASE SpawnReturns \/ \E c \in Children : Spawn(c)
    BY <2>1, SpawnSteps
  <2>2. ASSUME NEW c \in Children, ChildReturns(c) \/ ChildEnds(c) PROVE ScopeInv'
    BY <2>2, RunChildEndStep DEF ChildReturns, ChildEnds, MayEnd
  <2>3. ASSUME NEW c \in Children, ChildThrows(c) PROVE ScopeInv'
    BY <2>3, ChildThrowsStep
  <2>4. ASSUME NEW c \in Children, ChildSignals(c) PROVE ScopeInv'
    BY <2>4, ChildSignalsStep
  <2>5. CASE UNCHANGED vars
    <3>1. TypeOK' /\ UNCHANGED <<active, Running, SomebodyLeft>>
      BY <2>5 DEF vars, chan, threads, ScopeInv, TypeOK, Running, SomebodyLeft
    <3>2. JoinWaitsForChildren' /\ CloseIsDue' /\ StopIsThere' /\ JoinSleepsForCause'
      BY <2>5, <3>1 DEF vars, chan, ScopeInv, JoinWaitsForChildren, Joined, CloseIsDue,
                        StopIsThere, JoinSleepsForCause, Sleeping
    <3> QED
      BY <3>1, <3>2 DEF ScopeInv
  <2> QED
    BY <2>1, <2>2, <2>3, <2>4, <2>5, JoinSteps, StopSteps DEF Next, Child
<1> QED
  BY <1>1, <1>2, PTL DEF Spec

\* Structured concurrency (task_scope.hpp:83-125): join comes back with a
\* result of its own only when no child runs, and with the failure exactly if
\* a child has thrown.
THEOREM JoinIsStructured == Spec => []JoinWaitsForChildren
<1>1. ScopeInv => JoinWaitsForChildren
  BY DEF ScopeInv
<1> QED
  BY <1>1, ScopeInvariant, PTL

\* The wakeups of join (task_scope.hpp:72-81, 109-123, 155-167): the last child, a close
\* and the callback of the stop token always reach it, on whichever thread it started,
\* so join is never found asleep with nothing left to wait for.
THEOREM JoinIsWoken == Spec => []JoinSleepsForCause
<1>1. ScopeInv => JoinSleepsForCause
  BY DEF ScopeInv
<1> QED
  BY <1>1, ScopeInvariant, PTL

\* The catch clause of join (task_scope.hpp:111-123): the closed error of completions
\* becomes the result of join only while a child runs.
THEOREM JoinKeepsItsResult == Spec => ClosedErrorNeedsChild
<1>1. ScopeInv /\ [Next]_vars => [Running = {} => result' # "closed error" \/ result = result']_vars
  <2> SUFFICES ASSUME ScopeInv, Next, Running = {}, result' # result
               PROVE  result' # "closed error"
    OBVIOUS
  <2>1. active = 0
    BY RunningFacts DEF ScopeInv
  <2>2. ASSUME NEW k, Finish(k) PROVE result' # "closed error"
    BY <2>2 DEF Finish
  <2>3. JoinLook \/ JoinReceive \/ JoinResume
    BY DEF Next, Join, Child, Spawn, SpawnReturns, ChildReturns, ChildThrows, ChildEnds,
           RunChildEnd, ChildSignals, JoinStart, JoinCheck, RequestStop, CallbackSend
  <2>4. Finish(cancelled)
    BY <2>1, <2>3 DEF JoinLook, JoinReceive, JoinResume, Caught
  <2> QED
    BY <2>2, <2>4
<1> QED
  BY <1>1, ScopeInvariant, PTL DEF Spec, ClosedErrorNeedsChild
=============================================================================
