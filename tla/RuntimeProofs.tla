--------------------------- MODULE RuntimeProofs ---------------------------
(***************************************************************************)
(* Proofs about Runtime, for every set of ops and every scenario: a        *)
(* coroutine is resumed only while it is suspended but for the known cases,*)
(* work that is reported as cancelled never runs, and a periodic task is   *)
(* never faster than its interval.                                         *)
(***************************************************************************)
EXTENDS Runtime, FiniteSetTheorems, SequenceTheorems, TLAPS

Pcs == {"new", "spawned", "suspending", "asleep", "ticking", "waiting", "raced",
        "working", "controlling", "calling", "closing", "done"}
Endings == {"none", "ok", "cancelled", "error", "stopped", "requested", "refused",
            "timeout", "threw"}
Work == {"idle", "queued", "running", "finished", "cancelled"}
Tokens == {"own", "cancel", "timer"} \X (Ops \cup {None} \cup Nat)
Whats == {"begin", "start", "cancel", "resume", "startwork", "cancelwork", "call", "walk"}
Closures == Whats \X Ops

EndTypes ==
    /\ pc \in [Ops -> Pcs] /\ result \in [Ops -> Endings]
    /\ queue \in Seq(Closures) /\ watch \in [Ops -> SUBSET Tokens]
    /\ stopped \subseteq Tokens /\ resumed \subseteq Ops
    /\ fault \in Ops \cup {None}
SleepTypes ==
    /\ due \in [Ops -> Int] /\ delay \in [Ops -> Int] /\ completed \subseteq Ops
WorkTypes == uv \in [Ops -> Work] /\ ran \subseteq Ops
TickTypes ==
    /\ ticks \in [Ops -> Int] /\ began \in [Ops -> Int] /\ next \in [Ops -> Int]
StartTypes == inline \in Seq(Ops) /\ token \in [Ops -> Tokens]
RestTypes ==
    /\ timer \in [expiry : Int, source : Nat]
    /\ shut \in {"no", "flag", "walked", "exited"} /\ now \in Nat
TypeOK ==
    /\ call \in Scenarios
    /\ EndTypes /\ SleepTypes /\ WorkTypes /\ TickTypes /\ StartTypes /\ RestTypes

-----------------------------------------------------------------------------
(* The invariant                                                             *)

In(c, s) == \E i \in 1..Len(s) : s[i] = c
Once(c, s) == \A i, j \in 1..Len(s) : s[i] = c /\ s[j] = c => i = j
Timed == Sleeps \cup Periodic
Asleep(o) == pc[o] \in {"asleep", "suspending"}

\* What is begun once.
BeginInv(o) ==
    /\ Once(<<"begin", o>>, queue) /\ Once(<<"startwork", o>>, queue)
    /\ In(<<"begin", o>>, queue) =>
          /\ pc[o] # "new" /\ (pc[o] = "spawned" \/ Kind(o) = "control")
          /\ Kind(o) \notin {"call", "destroy", "cancel", "none"}
    /\ In(<<"call", o>>, queue) => Kind(o) = "call"

\* Where a coroutine is suspended tells what it waits for, and where its stop
\* callback is.
PlaceInv(o) ==
    /\ Asleep(o) => Kind(o) \in Timed
    /\ pc[o] = "suspending" => call[o].outside
    /\ pc[o] = "working" => Kind(o) = "blocking"
    /\ pc[o] = "closing" => Kind(o) = "destroy"
    /\ pc[o] = "ticking" => Kind(o) \in Periodic
    /\ pc[o] \in {"waiting", "raced"} => Kind(o) \in Waits
    /\ watch[o] # {} => \/ Kind(o) \in Waits \/ Asleep(o)
                        \/ Kind(o) = "blocking" /\ pc[o] = "working"

\* A sleep that has not been completed is suspended and nobody has resumed it; one
\* that somebody resumes is suspended until the closure has run.
SleepInv(o) ==
    /\ due[o] # 0 \/ In(<<"start", o>>, queue) \/ In(<<"cancel", o>>, queue) =>
          Kind(o) \in Timed /\ (o \in completed \/ (Asleep(o) /\ o \notin resumed))
    /\ due[o] # 0 => o \notin completed
    /\ Asleep(o) /\ o \in resumed => o \in completed
    /\ Kind(o) \notin Waits =>
          /\ Once(<<"resume", o>>, queue)
          /\ In(<<"resume", o>>, queue) => Asleep(o) /\ o \in resumed /\ o \in completed

\* The pool has the work of suspended ops only, and has run none that it can still
\* give up.
WorkInv(o) ==
    /\ In(<<"startwork", o>>, queue) =>
          Kind(o) = "blocking" /\ pc[o] \in {"working", "done"} /\ uv[o] = "idle"
    /\ In(<<"cancelwork", o>>, queue) => Kind(o) = "blocking" /\ pc[o] \in {"working", "done"}
    /\ uv[o] # "idle" => Kind(o) = "blocking" /\ pc[o] = "working"
    /\ Kind(o) = "blocking" /\ pc[o] # "done" /\ uv[o] \in {"idle", "queued", "cancelled"} =>
          o \notin ran
    /\ Kind(o) = "blocking" /\ result[o] = "cancelled" => pc[o] = "done" /\ o \notin ran

OpInv(o) == BeginInv(o) /\ PlaceInv(o) /\ SleepInv(o) /\ WorkInv(o)
OpsInv == FaultsAreKnown /\ \A o \in Ops : OpInv(o)
RuntimeInv == TypeOK /\ OpsInv

-----------------------------------------------------------------------------
(* The queue of closures                                                     *)

\* Posting a closure.
LEMMA PostFacts ==
    ASSUME NEW s \in Seq(Closures), NEW d \in Closures, NEW c
    PROVE  /\ Append(s, d) \in Seq(Closures)
           /\ In(c, Append(s, d)) => In(c, s) \/ c = d
           /\ Once(c, s) /\ (c # d \/ ~In(c, s)) => Once(c, Append(s, d))
<1>1. /\ Append(s, d) \in Seq(Closures) /\ Len(Append(s, d)) = Len(s) + 1
      /\ \A i \in 1..Len(s) : Append(s, d)[i] = s[i]
      /\ Append(s, d)[Len(s) + 1] = d
      /\ Len(s) \in Nat
    BY SMT
<1> QED  BY <1>1, SMT DEF In, Once

\* Taking the first closure.
LEMMA TakeFacts ==
    ASSUME NEW s \in Seq(Closures), s # <<>>, NEW c
    PROVE  /\ Tail(s) \in Seq(Closures) /\ Head(s) \in Closures
           /\ In(Head(s), s)
           /\ In(c, Tail(s)) => In(c, s)
           /\ Once(c, s) => Once(c, Tail(s))
           /\ Once(Head(s), s) => ~In(Head(s), Tail(s))
<1>1. /\ Tail(s) \in Seq(Closures) /\ Len(s) \in Nat /\ Len(s) # 0
      /\ Len(Tail(s)) = Len(s) - 1
      /\ \A i \in 1..Len(Tail(s)) : Tail(s)[i] = s[i + 1]
      /\ Head(s) = s[1] /\ s[1] \in Closures
    BY SMT
<1> QED  BY <1>1, SMT DEF In, Once

\* Posting several closures.
LEMMA PostAllFacts ==
    ASSUME NEW s \in Seq(Closures), NEW t \in Seq(Closures), NEW c
    PROVE  /\ s \o t \in Seq(Closures)
           /\ In(c, s \o t) => In(c, s) \/ In(c, t)
           /\ Once(c, s) /\ ~In(c, t) => Once(c, s \o t)
<1>1. /\ s \o t \in Seq(Closures) /\ Len(s \o t) = Len(s) + Len(t)
      /\ Len(s) \in Nat /\ Len(t) \in Nat
      /\ \A i \in 1..Len(s) + Len(t) :
            (s \o t)[i] = IF i <= Len(s) THEN s[i] ELSE t[i - Len(s)]
    BY SMT
<1>2. In(c, s \o t) => In(c, s) \/ In(c, t)
  <2> SUFFICES ASSUME NEW i \in 1..Len(s \o t), (s \o t)[i] = c
               PROVE  In(c, s) \/ In(c, t)
      BY DEF In
  <2>1. CASE i <= Len(s)
      BY <1>1, <2>1, SMT DEF In
  <2>2. CASE i > Len(s)
    <3>1. i - Len(s) \in 1..Len(t) /\ t[i - Len(s)] = c
        BY <1>1, <2>2, SMT
    <3> QED  BY <3>1 DEF In
  <2> QED  BY <1>1, <2>1, <2>2, SMT
<1>3. ASSUME Once(c, s), ~In(c, t)
      PROVE  Once(c, s \o t)
  <2>1. \A i \in 1..Len(s \o t) : (s \o t)[i] = c => i \in 1..Len(s) /\ s[i] = c
    <3> SUFFICES ASSUME NEW i \in 1..Len(s \o t), (s \o t)[i] = c
                 PROVE  i \in 1..Len(s) /\ s[i] = c
        OBVIOUS
    <3>1. CASE i <= Len(s)
        BY <1>1, <3>1, SMT
    <3>2. CASE i > Len(s)
      <4>1. i - Len(s) \in 1..Len(t) /\ t[i - Len(s)] = c
          BY <1>1, <3>2, SMT
      <4> QED  BY <4>1, <1>3 DEF In
    <3> QED  BY <1>1, <3>1, <3>2, SMT
  <2> QED  BY <2>1, <1>3, SMT DEF Once
<1> QED  BY <1>1, <1>2, <1>3

\* A finite set can be listed.
LEMMA ListFacts ==
    ASSUME NEW S, IsFiniteSet(S)
    PROVE  SetToSeq(S) \in Seq(S)
<1>1. PICK f \in Bijection(1..Cardinality(S), S) : TRUE
    BY FS_CardinalityType DEF ExistsBijection
<1>2. f \in [1..Cardinality(S) -> S] /\ IsInjective(f)
    BY <1>1 DEF Bijection, Injection
<1>3. SetToSeq(S) \in [1..Cardinality(S) -> S]
    BY <1>2 DEF SetToSeq
<1> QED  BY <1>3, FS_CardinalityType, IsASeq

\* The callbacks of a token are closures of the ops that watch it.
LEMMA CallbacksFacts ==
    ASSUME TypeOK, NEW tok, NEW w
    PROVE  /\ Callbacks(tok, w) \in Seq(Closures)
           /\ \A c : In(c, Callbacks(tok, w)) => \E o \in Watchers(tok, w) : c = Closure(o)
<1> DEFINE W == Watchers(tok, w)
           S == {Closure(o) : o \in W}
           f == [o \in W |-> Closure(o)]
<1>1. W \subseteq Ops /\ IsFiniteSet(W)
  <2>1. W \in SUBSET Ops
      BY DEF Watchers
  <2> QED  BY <2>1, FS_Subset, RuntimeAssumption
<1>2. f \in Surjection(W, S)
    BY DEF Surjection
<1>3. IsFiniteSet(S)
    BY <1>1, <1>2, FS_Surjection
<1>4. S \subseteq Closures
    BY <1>1 DEF Closure, Closures, Whats
<1>5. Callbacks(tok, w) \in Seq(S)
    BY <1>3, ListFacts DEF Callbacks
<1>6. ASSUME NEW c, In(c, Callbacks(tok, w))
      PROVE  \E o \in W : c = Closure(o)
  <2>1. c \in S
      BY <1>5, <1>6, ElementOfSeq DEF In
  <2> QED  BY <2>1
<1>7. Callbacks(tok, w) \in Seq(Closures)
    BY <1>4, <1>5, SeqMonotonic
<1> QED  BY <1>6, <1>7

-----------------------------------------------------------------------------
(* What an op does to the others.  A step first takes or posts closures of   *)
(* its own op, which leaves a queue q, and then runs stop callbacks.         *)

\* The callbacks of a token, which are the only thing the op x notices.
Told(x, q) ==
    /\ pc'[x] = pc[x] \/ (Kind(x) = "control" /\ pc'[x] = "done")
    /\ result'[x] = result[x] \/ Kind(x) = "control"
    /\ watch'[x] = watch[x]
    /\ Kind(x) \notin Waits => (x \in resumed' <=> x \in resumed)
    /\ \A w \in Whats :
          /\ In(<<w, x>>, queue') =>
                In(<<w, x>>, q) \/ (watch[x] # {} /\ <<w, x>> = Closure(x))
          /\ Once(<<w, x>>, q) /\ <<w, x>> # Closure(x) => Once(<<w, x>>, queue')
Untouched(x) ==
    /\ due'[x] = due[x] \/ due'[x] = 0
    /\ x \in completed' <=> x \in completed
    /\ uv'[x] = uv[x] /\ (x \in ran' <=> x \in ran)

\* The op x keeps what holds of it.
LEMMA ToldStep ==
    ASSUME NEW x \in Ops, OpInv(x), call' = call, Told(x, queue), Untouched(x)
    PROVE  OpInv(x)'
<1>1. /\ Kind(x)' = Kind(x)
      /\ \A w \in Whats : In(<<w, x>>, queue') =>
            In(<<w, x>>, queue) \/ (watch[x] # {} /\ <<w, x>> = Closure(x))
    BY DEF Told, Kind
<1>0. \A w : <<w, x>> = Closure(x) =>
            \/ Kind(x) \in Waits /\ w = "resume"
            \/ Kind(x) \notin Waits /\ Kind(x) = "blocking" /\ w = "cancelwork"
            \/ Kind(x) \notin Waits /\ Kind(x) # "blocking" /\ w = "cancel"
  <2>1. \/ Kind(x) \in Waits /\ Closure(x) = <<"resume", x>>
        \/ Kind(x) \notin Waits /\ Kind(x) = "blocking" /\ Closure(x) = <<"cancelwork", x>>
        \/ Kind(x) \notin Waits /\ Kind(x) # "blocking" /\ Closure(x) = <<"cancel", x>>
      BY DEF Closure, Waits
  <2> QED  BY <2>1
<1>2. /\ In(<<"begin", x>>, queue') => In(<<"begin", x>>, queue)
      /\ In(<<"startwork", x>>, queue') => In(<<"startwork", x>>, queue)
      /\ In(<<"start", x>>, queue') => In(<<"start", x>>, queue)
      /\ In(<<"call", x>>, queue') => In(<<"call", x>>, queue)
      /\ In(<<"cancel", x>>, queue') =>
            \/ In(<<"cancel", x>>, queue)
            \/ watch[x] # {} /\ Kind(x) \notin Waits \cup {"blocking"}
      /\ In(<<"resume", x>>, queue') => In(<<"resume", x>>, queue) \/ Kind(x) \in Waits
      /\ In(<<"cancelwork", x>>, queue') =>
            \/ In(<<"cancelwork", x>>, queue)
            \/ watch[x] # {} /\ Kind(x) = "blocking" /\ Kind(x) \notin Waits
    BY <1>0, <1>1 DEF Whats
<1>3. /\ Once(<<"begin", x>>, queue) => Once(<<"begin", x>>, queue')
      /\ Once(<<"startwork", x>>, queue) => Once(<<"startwork", x>>, queue')
      /\ Kind(x) \notin Waits /\ Once(<<"resume", x>>, queue) => Once(<<"resume", x>>, queue')
    BY <1>0 DEF Told, Whats
<1>4. BeginInv(x)'
    BY <1>1, <1>2, <1>3 DEF OpInv, BeginInv, Told
<1>5. PlaceInv(x)'
    BY <1>1 DEF OpInv, PlaceInv, Told, Asleep, Kind, Waits, Timed, Sleeps, Periodic
<1>6. SleepInv(x)'
    BY <1>1, <1>2, <1>3
    DEF OpInv, PlaceInv, SleepInv, Told, Untouched, Asleep, Timed, Sleeps, Periodic, Waits
<1>7. WorkInv(x)'
    BY <1>1, <1>2
    DEF OpInv, PlaceInv, WorkInv, Told, Untouched, Asleep, Timed, Sleeps, Periodic, Waits
<1> QED  BY <1>4, <1>5, <1>6, <1>7 DEF OpInv

\* q is the queue but for closures of o.
Rest(q, o) ==
    /\ q \in Seq(Closures)
    /\ \A x \in Ops \ {o}, w \in Whats :
          /\ In(<<w, x>>, q) => In(<<w, x>>, queue)
          /\ Once(<<w, x>>, queue) => Once(<<w, x>>, q)

\* The ops other than o keep what holds of them.
LEMMA OthersStep ==
    ASSUME NEW o, NEW q, Rest(q, o), \A x \in Ops \ {o} : OpInv(x) /\ Untouched(x) /\ Told(x, q),
           call' = call
    PROVE  \A x \in Ops \ {o} : OpInv(x)'
<1> SUFFICES ASSUME NEW x \in Ops \ {o} PROVE OpInv(x)'
    OBVIOUS
<1>1. Told(x, q) /\ OpInv(x) /\ Untouched(x)
    OBVIOUS
<1>2. Told(x, queue)
    BY <1>1 DEF Told, Rest
<1> QED  BY <1>1, <1>2, ToldStep

\* The queue, the queue without its first closure, and with closures of o more.
LEMMA RestFacts ==
    ASSUME TypeOK, NEW o \in Ops
    PROVE  /\ Rest(queue, o)
           /\ queue # <<>> /\ Head(queue)[2] = o => Rest(Tail(queue), o)
           /\ \A q, w : w \in Whats /\ Rest(q, o) => Rest(Append(q, <<w, o>>), o)
<1>1. queue \in Seq(Closures)
    BY DEF TypeOK, EndTypes
<1>2. Rest(queue, o)
    BY <1>1 DEF Rest
<1>3. queue # <<>> => Rest(Tail(queue), o)
  <2> SUFFICES ASSUME queue # <<>> PROVE Rest(Tail(queue), o)
      OBVIOUS
  <2>1. Tail(queue) \in Seq(Closures)
      BY <1>1, TakeFacts
  <2>2. ASSUME NEW c
        PROVE  (In(c, Tail(queue)) => In(c, queue)) /\ (Once(c, queue) => Once(c, Tail(queue)))
      BY <1>1, TakeFacts
  <2> QED  BY <2>1, <2>2 DEF Rest
<1>4. ASSUME NEW q, NEW v \in Whats, Rest(q, o)
      PROVE  Rest(Append(q, <<v, o>>), o)
  <2>1. q \in Seq(Closures) /\ <<v, o>> \in Closures
      BY <1>4 DEF Rest, Closures
  <2>2. Append(q, <<v, o>>) \in Seq(Closures)
      BY <2>1, PostFacts
  <2>3. ASSUME NEW x \in Ops \ {o}, NEW w \in Whats
        PROVE  /\ In(<<w, x>>, Append(q, <<v, o>>)) => In(<<w, x>>, queue)
               /\ Once(<<w, x>>, queue) => Once(<<w, x>>, Append(q, <<v, o>>))
    <3>1. <<w, x>> # <<v, o>>
        OBVIOUS
    <3>2. /\ In(<<w, x>>, q) => In(<<w, x>>, queue)
          /\ Once(<<w, x>>, queue) => Once(<<w, x>>, q)
        BY <1>4 DEF Rest
    <3> QED  BY <2>1, <3>1, <3>2, PostFacts
  <2> QED  BY <2>2, <2>3 DEF Rest
<1> QED  BY <1>2, <1>3, <1>4

\* request_stop()
LEMMA StopEffect ==
    ASSUME TypeOK, NEW tok \in Tokens, NEW w \in [Ops -> SUBSET Tokens],
           NEW q \in Seq(Closures), Stop(tok, w, q)
    PROVE  /\ queue' \in Seq(Closures) /\ stopped' \subseteq Tokens
           /\ resumed' \subseteq Ops /\ fault' \in Ops \cup {None}
           /\ fault' = fault \/ shut # "no"
           /\ \A x \in Ops : Kind(x) \notin Waits \/ w[x] = {} =>
                  (x \in resumed' <=> x \in resumed)
           /\ \A x \in Ops, v \in Whats :
                  /\ In(<<v, x>>, queue') =>
                        In(<<v, x>>, q) \/ (w[x] # {} /\ <<v, x>> = Closure(x))
                  /\ Once(<<v, x>>, q) /\ (w[x] = {} \/ <<v, x>> # Closure(x)) =>
                        Once(<<v, x>>, queue')
<1> DEFINE W == Watchers(tok, w)
<1>1. EndTypes
    BY DEF TypeOK
<1>2. \/ queue' = q /\ (resumed' = resumed) /\ (stopped' = stopped \/ stopped' = stopped \cup {tok})
         /\ (fault' = fault \/ (shut # "no" /\ fault' \in W))
      \/ queue' = q \o Callbacks(tok, w) /\ stopped' = stopped \cup {tok} /\ fault' = fault
         /\ resumed' = resumed \cup {o \in W : Kind(o) \in Waits}
    BY DEF Stop
<1>3. W \subseteq Ops /\ \A x \in W : tok \in w[x]
    BY DEF Watchers
<1>4. ASSUME NEW x \in Ops, NEW v \in Whats
      PROVE  /\ In(<<v, x>>, q \o Callbacks(tok, w)) =>
                   In(<<v, x>>, q) \/ (w[x] # {} /\ <<v, x>> = Closure(x))
             /\ Once(<<v, x>>, q) /\ (w[x] = {} \/ <<v, x>> # Closure(x)) =>
                   Once(<<v, x>>, q \o Callbacks(tok, w))
  <2>1. /\ Callbacks(tok, w) \in Seq(Closures)
        /\ In(<<v, x>>, Callbacks(tok, w)) => \E o \in W : <<v, x>> = Closure(o)
      BY CallbacksFacts
  <2>2. \A o : Closure(o)[2] = o
      BY DEF Closure
  <2>3. In(<<v, x>>, Callbacks(tok, w)) => w[x] # {} /\ <<v, x>> = Closure(x)
      BY <2>1, <2>2, <1>3
  <2> QED  BY <2>1, <2>3, PostAllFacts
<1>5. q \o Callbacks(tok, w) \in Seq(Closures)
    BY CallbacksFacts, PostAllFacts
<1>6. queue' \in Seq(Closures) /\ stopped' \subseteq Tokens /\ resumed' \subseteq Ops
    BY <1>1, <1>2, <1>3, <1>5 DEF EndTypes
<1>7. fault' \in Ops \cup {None} /\ (fault' = fault \/ shut # "no")
    BY <1>1, <1>2, <1>3 DEF EndTypes
<1>8. ASSUME NEW x \in Ops, Kind(x) \notin Waits \/ w[x] = {}
      PROVE  x \in resumed' <=> x \in resumed
    BY <1>2, <1>3, <1>8
<1>9. ASSUME NEW x \in Ops, NEW v \in Whats
      PROVE  /\ In(<<v, x>>, queue') =>
                   In(<<v, x>>, q) \/ (w[x] # {} /\ <<v, x>> = Closure(x))
             /\ Once(<<v, x>>, q) /\ (w[x] = {} \/ <<v, x>> # Closure(x)) =>
                   Once(<<v, x>>, queue')
    BY <1>2, <1>4
<1> QED  BY <1>6, <1>7, <1>8, <1>9

\* What the scenario says of an op and of its parent.
LEMMA CallFacts ==
    ASSUME TypeOK, NEW o \in Ops
    PROVE  /\ call[o] \in Calls /\ Kind(o) \in Kinds /\ call[o].n \in Int
           /\ Parent(o) \in Ops \cup {None}
           /\ Parent(o) # None => Kind(Parent(o)) = "control"
           /\ Kind(o) = "wait2" => Parent(o) # None
           /\ call[o].outside => Kind(o) = "sleep"
           /\ Kind(o) \in Periodic => call[o].n >= Ms
BY RuntimeAssumption DEF TypeOK, Calls, Kind, Parent

\* The end of a coroutine.
Ended(o, r, q) ==
    /\ EndTypes'
    /\ pc'[o] = "done" /\ result'[o] = r /\ watch'[o] = {}
    /\ o \in resumed' <=> o \in resumed
    /\ \A w \in Whats : /\ In(<<w, o>>, queue') => In(<<w, o>>, q)
                        /\ Once(<<w, o>>, q) => Once(<<w, o>>, queue')
    /\ \A x \in Ops \ {o} : Told(x, q)
    /\ fault' = fault \/ shut # "no"

\* What the end of o changes.
LEMMA FinishEffect ==
    ASSUME TypeOK, NEW o \in Ops, NEW r \in Endings, NEW q \in Seq(Closures), Finish(o, r, q)
    PROVE  Ended(o, r, q)
<1> DEFINE p == Parent(o)
           first == p # None /\ result[p] = "none"
           ends == IF first THEN {o, p} ELSE {o}
<1>1. EndTypes /\ call[o] \in Calls
    BY CallFacts DEF TypeOK
<1>2. /\ pc' = [x \in Ops |-> IF x \in ends THEN "done" ELSE pc[x]]
      /\ result' = [x \in Ops |-> CASE x = o -> r
                                    [] x # o /\ x \in ends -> Outcome(o, r)
                                    [] OTHER -> result[x]]
      /\ watch' = [watch EXCEPT ![o] = {}]
      /\ IF first THEN Stop(<<"cancel", p>>, watch', q)
         ELSE queue' = q /\ UNCHANGED <<stopped, resumed, fault>>
    BY DEF Finish
<1>3. Outcome(o, r) \in Endings
    BY DEF Outcome, Endings
<1>4. pc' \in [Ops -> Pcs] /\ result' \in [Ops -> Endings] /\ watch' \in [Ops -> SUBSET Tokens]
    BY <1>1, <1>2, <1>3 DEF EndTypes, Pcs
<1>5. pc'[o] = "done" /\ result'[o] = r /\ watch'[o] = {}
    BY <1>1, <1>2 DEF EndTypes
<1>6. ASSUME NEW x \in Ops \ {o}
      PROVE  /\ pc'[x] = pc[x] \/ (Kind(x) = "control" /\ pc'[x] = "done")
             /\ result'[x] = result[x] \/ Kind(x) = "control"
             /\ watch'[x] = watch[x]
    BY <1>1, <1>2, CallFacts DEF EndTypes
<1>7. /\ queue' \in Seq(Closures) /\ stopped' \subseteq Tokens
      /\ resumed' \subseteq Ops /\ fault' \in Ops \cup {None}
      /\ fault' = fault \/ shut # "no"
      /\ \A x \in Ops : Kind(x) \notin Waits \/ watch'[x] = {} =>
             (x \in resumed' <=> x \in resumed)
      /\ \A x \in Ops, v \in Whats :
             /\ In(<<v, x>>, queue') =>
                   In(<<v, x>>, q) \/ (watch'[x] # {} /\ <<v, x>> = Closure(x))
             /\ Once(<<v, x>>, q) /\ (watch'[x] = {} \/ <<v, x>> # Closure(x)) =>
                   Once(<<v, x>>, queue')
  <2>1. CASE first
    <3>1. <<"cancel", p>> \in Tokens
        BY CallFacts DEF Tokens
    <3> QED  BY <1>2, <1>4, <2>1, <3>1, StopEffect
  <2>2. CASE ~first
      BY <1>1, <1>2, <2>2 DEF EndTypes
  <2> QED  BY <2>1, <2>2
<1>8. EndTypes'
    BY <1>4, <1>7 DEF EndTypes
<1>9. ASSUME NEW x \in Ops \ {o} PROVE Told(x, q)
    BY <1>6, <1>7 DEF Told
<1> QED  BY <1>5, <1>7, <1>8, <1>9 DEF Ended

-----------------------------------------------------------------------------
(* The steps of an op that is not suspended                                  *)

\* o runs, and q is the queue: nothing will resume it, or start anything of it.
Awake(o, q) ==
    /\ Rest(q, o)
    /\ ~In(<<"begin", o>>, q) /\ Once(<<"startwork", o>>, q)
    /\ In(<<"startwork", o>>, q) => Kind(o) = "blocking"
    /\ In(<<"call", o>>, q) => Kind(o) = "call"
    /\ In(<<"start", o>>, q) \/ In(<<"cancel", o>>, q) => Kind(o) \in Timed /\ o \in completed
    /\ due[o] = 0
    /\ Kind(o) \notin Waits => ~In(<<"resume", o>>, q)
    /\ In(<<"cancelwork", o>>, q) => Kind(o) = "blocking"

\* It ends.
LEMMA EndStep ==
    ASSUME TypeOK, OpsInv, NEW o \in Ops, NEW r \in Endings, NEW q, Awake(o, q),
           Finish(o, r, q), call' = call, shut' = shut, UNCHANGED sleepVars,
           \A x \in Ops \ {o} : uv'[x] = uv[x] /\ (x \in ran' <=> x \in ran),
           uv'[o] = "idle", Kind(o) = "blocking" /\ r = "cancelled" => o \notin ran'
    PROVE  EndTypes' /\ SleepTypes' /\ OpsInv'
<1>1. Ended(o, r, q)
    BY FinishEffect DEF Awake, Rest
<1>2. \A x \in Ops \ {o} : OpInv(x)'
  <2>1. \A x \in Ops \ {o} : OpInv(x) /\ Untouched(x) /\ Told(x, q)
      BY <1>1 DEF OpsInv, Untouched, Ended, sleepVars
  <2> QED  BY <2>1, OthersStep DEF Awake
<1>3. Kind(o)' = Kind(o) /\ due' = due /\ completed' = completed
    BY DEF Kind, sleepVars
<1>4. /\ ~In(<<"begin", o>>, queue') /\ Once(<<"startwork", o>>, queue')
      /\ In(<<"startwork", o>>, queue') => Kind(o) = "blocking"
      /\ In(<<"call", o>>, queue') => Kind(o) = "call"
      /\ In(<<"start", o>>, queue') \/ In(<<"cancel", o>>, queue') =>
            Kind(o) \in Timed /\ o \in completed
      /\ Kind(o) \notin Waits => ~In(<<"resume", o>>, queue')
      /\ In(<<"cancelwork", o>>, queue') => Kind(o) = "blocking"
      /\ pc'[o] = "done" /\ result'[o] = r /\ watch'[o] = {}
    BY <1>1 DEF Ended, Awake, Whats
<1>5. OpInv(o)'
  <2>1. BeginInv(o)'
      BY <1>3, <1>4 DEF BeginInv, In, Once
  <2>2. PlaceInv(o)'
      BY <1>3, <1>4 DEF PlaceInv, Asleep
  <2>3. SleepInv(o)'
      BY <1>3, <1>4 DEF SleepInv, Asleep, Awake, In, Once
  <2>4. WorkInv(o)'
      BY <1>3, <1>4 DEF WorkInv
  <2> QED  BY <2>1, <2>2, <2>3, <2>4 DEF OpInv
<1>6. FaultsAreKnown'
  <2>1. fault' = fault \/ shut' # "no"
      BY <1>1 DEF Ended
  <2> QED  BY <2>1 DEF OpsInv, FaultsAreKnown, Kind
<1>7. EndTypes' /\ SleepTypes'
    BY <1>1 DEF Ended, TypeOK, SleepTypes, sleepVars
<1> QED  BY <1>2, <1>5, <1>6, <1>7 DEF OpsInv

\* It suspends, and q is the queue then.
Suspended(o, at, toks, q) ==
    /\ EndTypes'
    /\ pc'[o] = at /\ watch'[o] = toks /\ o \notin resumed'
    /\ result' = result /\ queue' = q /\ fault' = fault
    /\ \A x \in Ops \ {o} : Told(x, q)

\* What a suspension of o changes.
LEMMA SuspendEffect ==
    ASSUME TypeOK, NEW o \in Ops, NEW at \in Pcs, NEW toks \in SUBSET Tokens,
           NEW q \in Seq(Closures),
           pc' = [pc EXCEPT ![o] = at], watch' = [watch EXCEPT ![o] = toks],
           queue' = q, resumed' = resumed \ {o}, result' = result, fault' = fault,
           stopped' = stopped \/ stopped' = stopped \cup {token[o]}
    PROVE  Suspended(o, at, toks, q)
<1>1. EndTypes /\ token[o] \in Tokens
    BY DEF TypeOK, StartTypes
<1>2. EndTypes'
    BY <1>1 DEF EndTypes
<1>3. pc'[o] = at /\ watch'[o] = toks
    BY <1>1 DEF EndTypes
<1>4. ASSUME NEW x \in Ops \ {o} PROVE Told(x, q)
    BY <1>1 DEF Told, EndTypes
<1> QED  BY <1>2, <1>3, <1>4 DEF Suspended

\* The other ops, and the faults, after a suspension.
LEMMA SuspendedOthers ==
    ASSUME TypeOK, OpsInv, NEW o \in Ops, NEW at, NEW toks, NEW q, Rest(q, o),
           Suspended(o, at, toks, q), call' = call, shut' = shut,
           \A x \in Ops \ {o} : Untouched(x), OpInv(o)'
    PROVE  OpsInv'
<1>1. \A x \in Ops \ {o} : OpInv(x)'
  <2>1. \A x \in Ops \ {o} : OpInv(x) /\ Untouched(x) /\ Told(x, q)
      BY DEF OpsInv, Suspended
  <2> QED  BY <2>1, OthersStep
<1>2. FaultsAreKnown'
    BY DEF OpsInv, FaultsAreKnown, Kind, Suspended
<1> QED  BY <1>1, <1>2 DEF OpsInv

\* It falls asleep with the start of its timer posted, perhaps behind its cancel.
LEMMA AsleepStep ==
    ASSUME TypeOK, OpsInv, NEW o \in Ops, NEW q, NEW p, NEW at, NEW toks \in SUBSET Tokens,
           NEW ms \in Int,
           Awake(o, q), p = q \/ p = Append(q, <<"cancel", o>>),
           Kind(o) \in Timed, at = "asleep" \/ (at = "suspending" /\ call[o].outside),
           Suspended(o, at, toks, Append(p, <<"start", o>>)),
           delay' = [delay EXCEPT ![o] = ms], completed' = completed \ {o}, due' = due,
           call' = call, shut' = shut, UNCHANGED workVars
    PROVE  EndTypes' /\ SleepTypes' /\ OpsInv'
<1> DEFINE q2 == Append(p, <<"start", o>>)
<1>1. /\ q \in Seq(Closures) /\ <<"start", o>> \in Closures /\ <<"cancel", o>> \in Closures
      /\ p \in Seq(Closures)
  <2>1. q \in Seq(Closures) /\ <<"start", o>> \in Closures /\ <<"cancel", o>> \in Closures
      BY DEF Awake, Rest, Closures, Whats
  <2> QED  BY <2>1, PostFacts
<1>2. Rest(q2, o)
  <2>1. Rest(q, o) /\ "cancel" \in Whats /\ "start" \in Whats
      BY DEF Awake, Whats
  <2>2. Rest(Append(q, <<"cancel", o>>), o)
      BY <2>1, RestFacts
  <2>3. Rest(p, o)
      BY <2>1, <2>2
  <2> QED  BY <2>1, <2>3, RestFacts
<1>3. ASSUME NEW c
      PROVE  In(c, q2) => In(c, q) \/ c = <<"start", o>> \/ c = <<"cancel", o>>
    BY <1>1, PostFacts
<1>4. Kind(o)' = Kind(o) /\ Kind(o) \notin {"blocking", "control", "call"} \cup Waits
    BY DEF Kind, Timed, Sleeps, Periodic, Waits
<1>5. /\ ~In(<<"begin", o>>, queue') /\ ~In(<<"startwork", o>>, queue')
      /\ ~In(<<"call", o>>, queue') /\ ~In(<<"resume", o>>, queue')
      /\ ~In(<<"cancelwork", o>>, queue')
    BY <1>3, <1>4 DEF Suspended, Awake
<1>6. BeginInv(o)'
    BY <1>4, <1>5 DEF BeginInv, In, Once
<1>7. PlaceInv(o)'
    BY <1>4 DEF PlaceInv, Suspended, Asleep
<1>8. SleepInv(o)'
    BY <1>4, <1>5 DEF SleepInv, Suspended, Asleep, Awake, In, Once
<1>9. WorkInv(o)'
  <2>1. uv[o] = "idle"
      BY <1>4 DEF OpsInv, OpInv, WorkInv
  <2> QED  BY <1>4, <1>5, <2>1 DEF WorkInv, workVars
<1>10. OpInv(o)'
    BY <1>6, <1>7, <1>8, <1>9 DEF OpInv
<1>11. \A x \in Ops \ {o} : Untouched(x)
    BY DEF Untouched, workVars
<1>12. EndTypes' /\ SleepTypes'
    BY DEF Suspended, TypeOK, SleepTypes
<1> QED  BY <1>2, <1>10, <1>11, <1>12, SuspendedOthers

\* It suspends without a timer.
LEMMA PausedStep ==
    ASSUME TypeOK, OpsInv, NEW o \in Ops, NEW q, NEW at \in {"ticking", "waiting", "controlling"},
           NEW toks \in SUBSET Tokens, Awake(o, q), Suspended(o, at, toks, q),
           at = "ticking" => Kind(o) \in Periodic, at = "waiting" => Kind(o) \in Waits,
           Kind(o) # "blocking", Kind(o) \in Waits \/ toks = {},
           UNCHANGED sleepVars, call' = call, shut' = shut, UNCHANGED workVars
    PROVE  EndTypes' /\ SleepTypes' /\ OpsInv'
<1>1. Kind(o)' = Kind(o) /\ due' = due /\ completed' = completed /\ uv' = uv /\ ran' = ran
    BY DEF Kind, sleepVars, workVars
<1>2. /\ ~In(<<"begin", o>>, queue') /\ ~In(<<"startwork", o>>, queue')
      /\ In(<<"call", o>>, queue') => Kind(o) = "call"
      /\ In(<<"start", o>>, queue') \/ In(<<"cancel", o>>, queue') =>
            Kind(o) \in Timed /\ o \in completed
      /\ Kind(o) \notin Waits => ~In(<<"resume", o>>, queue')
      /\ ~In(<<"cancelwork", o>>, queue')
    BY DEF Suspended, Awake
<1>3. BeginInv(o)'
    BY <1>1, <1>2 DEF BeginInv, In, Once
<1>4. PlaceInv(o)'
    BY <1>1 DEF PlaceInv, Suspended, Asleep
<1>5. SleepInv(o)'
    BY <1>1, <1>2 DEF SleepInv, Suspended, Asleep, Awake, In, Once
<1>6. WorkInv(o)'
  <2>1. uv[o] = "idle"
      BY DEF OpsInv, OpInv, WorkInv
  <2> QED  BY <1>1, <1>2, <2>1 DEF WorkInv
<1>7. OpInv(o)'
    BY <1>3, <1>4, <1>5, <1>6 DEF OpInv
<1>8. \A x \in Ops \ {o} : Untouched(x)
    BY <1>1 DEF Untouched
<1>9. EndTypes' /\ SleepTypes'
    BY <1>1 DEF Suspended, TypeOK, SleepTypes, sleepVars
<1> QED  BY <1>7, <1>8, <1>9, SuspendedOthers DEF Awake

-----------------------------------------------------------------------------
(* Sleeping, and periodic tasks                                              *)

\* An op that is not asleep, or whose resumption has just been taken, is awake.
LEMMA AwakeFacts ==
    ASSUME NEW o \in Ops, OpInv(o), NEW q, Rest(q, o),
           \A w \in Whats : /\ In(<<w, o>>, q) => In(<<w, o>>, queue)
                            /\ Once(<<w, o>>, queue) => Once(<<w, o>>, q),
           ~In(<<"begin", o>>, q),
           ~Asleep(o) \/ (~In(<<"resume", o>>, q) /\ o \in completed)
    PROVE  Awake(o, q)
<1>1. /\ In(<<"startwork", o>>, q) => In(<<"startwork", o>>, queue)
      /\ In(<<"start", o>>, q) => In(<<"start", o>>, queue)
      /\ In(<<"call", o>>, q) => In(<<"call", o>>, queue)
      /\ In(<<"cancel", o>>, q) => In(<<"cancel", o>>, queue)
      /\ In(<<"resume", o>>, q) => In(<<"resume", o>>, queue)
      /\ In(<<"cancelwork", o>>, q) => In(<<"cancelwork", o>>, queue)
      /\ Once(<<"startwork", o>>, q)
    BY DEF Whats, OpInv, BeginInv
<1> QED  BY <1>1 DEF Awake, OpInv, BeginInv, SleepInv, WorkInv

\* Two closures are posted one after the other.
LEMMA PostTwo ==
    ASSUME NEW s \in Seq(Closures), NEW c \in Closures, NEW d \in Closures
    PROVE  s \o <<c, d>> = Append(Append(s, c), d)
BY SMT

\* sleep_for ends at once, or falls asleep.
LEMMA SleepCases ==
    ASSUME NEW o, NEW ms, NEW q, NEW at,
           Sleep(o, ms, q, at, FALSE) \/ Sleep(o, ms, q, at, Finish(o, "ok", q))
    PROVE  \/ /\ \E r \in {"cancelled", "error", "ok"} : Finish(o, r, q)
              /\ UNCHANGED sleepVars
           \/ /\ delay' = [delay EXCEPT ![o] = ms] /\ completed' = completed \ {o} /\ due' = due
              /\ \/ Suspend(o, at, {token[o]}, Append(q, <<"start", o>>))
                 \/ SuspendRaced(o, at, q \o << <<"cancel", o>>, <<"start", o>> >>)
BY DEF Sleep

\* sleep_for keeps the invariant.
LEMMA SleepStep ==
    ASSUME TypeOK, OpsInv, NEW o \in Ops, NEW ms \in Int, NEW q, NEW at, Awake(o, q),
           Kind(o) \in Timed, at = "asleep" \/ (at = "suspending" /\ call[o].outside),
           Sleep(o, ms, q, at, FALSE) \/ Sleep(o, ms, q, at, Finish(o, "ok", q)),
           call' = call, shut' = shut, UNCHANGED workVars
    PROVE  EndTypes' /\ SleepTypes' /\ OpsInv'
<1>1. Kind(o) # "blocking" /\ uv[o] = "idle"
  <2>1. Kind(o) # "blocking"
      BY DEF Timed, Sleeps, Periodic
  <2> QED  BY <2>1 DEF OpsInv, OpInv, WorkInv
<1>2. CASE UNCHANGED sleepVars /\ \E r \in {"cancelled", "error", "ok"} : Finish(o, r, q)
  <2>1. PICK r \in {"cancelled", "error", "ok"} : Finish(o, r, q)
      BY <1>2
  <2>2. r \in Endings
      BY DEF Endings
  <2>3. /\ \A x \in Ops \ {o} : uv'[x] = uv[x] /\ (x \in ran' <=> x \in ran)
        /\ uv'[o] = "idle"
      BY <1>1 DEF workVars
  <2> QED  BY <1>1, <1>2, <2>1, <2>2, <2>3, EndStep
<1>3. CASE /\ delay' = [delay EXCEPT ![o] = ms] /\ completed' = completed \ {o} /\ due' = due
           /\ \/ Suspend(o, at, {token[o]}, Append(q, <<"start", o>>))
              \/ SuspendRaced(o, at, q \o << <<"cancel", o>>, <<"start", o>> >>)
  <2>1. /\ q \in Seq(Closures) /\ <<"start", o>> \in Closures /\ <<"cancel", o>> \in Closures
        /\ at \in Pcs /\ {token[o]} \in SUBSET Tokens
      BY DEF Awake, Rest, Closures, Whats, Pcs, TypeOK, StartTypes
  <2>2. /\ Append(q, <<"start", o>>) \in Seq(Closures)
        /\ Append(q, <<"cancel", o>>) \in Seq(Closures)
      BY <2>1, PostFacts
  <2>3. Append(Append(q, <<"cancel", o>>), <<"start", o>>) \in Seq(Closures)
      BY <2>1, <2>2, PostFacts
  <2>4. CASE Suspend(o, at, {token[o]}, Append(q, <<"start", o>>))
    <3>1. Suspended(o, at, {token[o]}, Append(q, <<"start", o>>))
        BY <2>1, <2>2, <2>4, SuspendEffect DEF Suspend
    <3> QED  BY <1>3, <2>1, <3>1, AsleepStep
  <2>5. CASE SuspendRaced(o, at, q \o << <<"cancel", o>>, <<"start", o>> >>)
    <3> DEFINE p == Append(q, <<"cancel", o>>)
    <3>1. SuspendRaced(o, at, Append(p, <<"start", o>>))
        BY <2>1, <2>5, PostTwo
    <3> HIDE DEF p
    <3>2. Append(p, <<"start", o>>) \in Seq(Closures)
        BY <2>3 DEF p
    <3>3. Suspended(o, at, {token[o]}, Append(p, <<"start", o>>))
        BY <2>1, <3>1, <3>2, SuspendEffect DEF SuspendRaced
    <3>4. p = Append(q, <<"cancel", o>>)
        BY DEF p
    <3> QED  BY <1>3, <2>1, <3>3, <3>4, AsleepStep
  <2> QED  BY <1>3, <2>4, <2>5
<1> QED  BY <1>2, <1>3, SleepCases

\* The callable of a periodic task is called, or the task ends.
LEMMA StartTickStep ==
    ASSUME TypeOK, OpsInv, NEW o \in Ops, NEW q, Awake(o, q), Kind(o) \in Periodic,
           StartTick(o, q), UNCHANGED sleepVars, call' = call, shut' = shut, UNCHANGED workVars
    PROVE  EndTypes' /\ SleepTypes' /\ OpsInv' /\ ticks' \in [Ops -> Int]
<1>1. Kind(o) # "blocking" /\ uv[o] = "idle" /\ ticks \in [Ops -> Int]
  <2>1. Kind(o) # "blocking"
      BY DEF Periodic
  <2> QED  BY <2>1 DEF OpsInv, OpInv, WorkInv, TypeOK, TickTypes
<1>2. CASE Finish(o, "stopped", q) /\ UNCHANGED ticks
  <2>1. "stopped" \in Endings
      BY DEF Endings
  <2>2. /\ \A x \in Ops \ {o} : uv'[x] = uv[x] /\ (x \in ran' <=> x \in ran)
        /\ uv'[o] = "idle"
      BY <1>1 DEF workVars
  <2> QED  BY <1>1, <1>2, <2>1, <2>2, EndStep
<1>3. CASE Suspend(o, "ticking", {}, q) /\ ticks' = [ticks EXCEPT ![o] = @ + 1]
  <2>1. q \in Seq(Closures) /\ "ticking" \in Pcs /\ {} \in SUBSET Tokens
      BY DEF Awake, Rest, Pcs
  <2>2. Suspended(o, "ticking", {}, q)
      BY <1>3, <2>1, SuspendEffect DEF Suspend
  <2>3. EndTypes' /\ SleepTypes' /\ OpsInv'
      BY <1>1, <2>1, <2>2, PausedStep
  <2> QED  BY <1>1, <1>3, <2>3
<1> QED  BY <1>2, <1>3 DEF StartTick

\* The interval and the slots are numbers.
LEMMA SlotFacts ==
    ASSUME TypeOK, NEW o \in Ops, Kind(o) \in Periodic, NEW base \in Int
    PROVE  /\ ToMs(call[o].n) \in Int /\ Interval(o) \in Nat \ {0}
           /\ NextSlot(o, base) \in Int /\ ToMs(NextSlot(o, base) - now) \in Int
<1>1. Ms \in Nat \ {0} /\ call[o].n \in Int /\ call[o].n >= Ms /\ now \in Nat
    BY CallFacts, RuntimeAssumption DEF TypeOK, RestTypes
<1>2. ToMs(call[o].n) \in Int /\ ToMs(call[o].n) > 0
    BY <1>1, SMT DEF ToMs
<1>3. Interval(o) \in Nat \ {0}
    BY <1>1, <1>2, SMT DEF Interval
<1>4. NextSlot(o, base) \in Int
  <2> DEFINE I == Interval(o)
             k == (now - base) \div I
  <2>1. k \in Int
      BY <1>1, <1>3, SMT
  <2>2. base + (k + 1) * I \in Int
      BY <1>3, <2>1, SMT
  <2> QED  BY <2>2 DEF NextSlot
<1>5. ToMs(NextSlot(o, base) - now) \in Int
    BY <1>1, <1>4, SMT DEF ToMs
<1> QED  BY <1>2, <1>3, <1>4, <1>5

\* So does a sleep to the next slot of a task with a fixed rate.
LEMMA SleepToSlotStep ==
    ASSUME TypeOK, OpsInv, NEW o \in Ops, NEW q, NEW base \in Int, Awake(o, q),
           Kind(o) \in Periodic, SleepToSlot(o, base, q), call' = call, shut' = shut,
           UNCHANGED workVars
    PROVE  /\ EndTypes' /\ SleepTypes' /\ OpsInv'
           /\ ticks' \in [Ops -> Int] /\ next' \in [Ops -> Int]
<1> DEFINE ms == ToMs(NextSlot(o, base) - now)
<1>1. NextSlot(o, base) \in Int /\ ms \in Int
    BY SlotFacts
<1>2. next' \in [Ops -> Int] /\ ticks \in [Ops -> Int]
    BY <1>1 DEF SleepToSlot, TypeOK, TickTypes
<1>3. CASE Sleep(o, ms, q, "asleep", FALSE) /\ UNCHANGED ticks
  <2>1. Kind(o) \in Timed
      BY DEF Timed
  <2>2. EndTypes' /\ SleepTypes' /\ OpsInv'
      BY <1>1, <1>3, <2>1, SleepStep
  <2> QED  BY <1>2, <1>3, <2>2
<1>4. CASE StartTick(o, q) /\ UNCHANGED sleepVars
    BY <1>2, <1>4, StartTickStep
<1> QED  BY <1>3, <1>4 DEF SleepToSlot

\* So does the sleep of a task with a fixed delay.
LEMMA SleepIntervalStep ==
    ASSUME TypeOK, OpsInv, NEW o \in Ops, NEW q, Awake(o, q),
           Kind(o) \in Periodic, SleepInterval(o, q), call' = call, shut' = shut,
           UNCHANGED workVars
    PROVE  /\ EndTypes' /\ SleepTypes' /\ OpsInv'
           /\ ticks' \in [Ops -> Int] /\ next' \in [Ops -> Int]
<1>1. ToMs(call[o].n) \in Int /\ Kind(o) \in Timed
    BY SlotFacts, 0 \in Int DEF Timed
<1>2. EndTypes' /\ SleepTypes' /\ OpsInv'
    BY <1>1, SleepStep DEF SleepInterval
<1> QED  BY <1>2 DEF SleepInterval, TypeOK, TickTypes

-----------------------------------------------------------------------------
(* The first steps of a coroutine                                            *)

\* o has not run, and q is the queue.
Fresh(o, q) ==
    /\ Awake(o, q) /\ uv[o] = "idle" /\ ~In(<<"startwork", o>>, q)
    /\ Kind(o) = "blocking" => o \notin ran /\ result[o] # "cancelled"

\* What the steps below leave to their callers.
Same == call' = call /\ shut' = shut /\ now' = now

\* It ends at once.
LEMMA FinishStep ==
    ASSUME RuntimeInv, NEW o \in Ops, NEW r \in Endings, NEW q, Fresh(o, q),
           Finish(o, r, q), Same, UNCHANGED sleepVars, UNCHANGED workVars
    PROVE  EndTypes' /\ SleepTypes' /\ OpsInv'
<1>1. /\ \A x \in Ops \ {o} : uv'[x] = uv[x] /\ (x \in ran' <=> x \in ran)
      /\ uv'[o] = "idle" /\ (Kind(o) = "blocking" => o \notin ran')
    BY DEF workVars, Fresh
<1> QED  BY <1>1, EndStep DEF RuntimeInv, Fresh, Same

\* A sleep begins.
LEMMA BeginSleepStep ==
    ASSUME RuntimeInv, NEW o \in Ops, NEW q, Fresh(o, q), BeginSleep(o, q), Same,
           inline' \in Seq(Ops)
    PROVE  RuntimeInv'
<1>1. TypeOK /\ OpsInv /\ Awake(o, q) /\ call' = call /\ shut' = shut /\ now' = now
    BY DEF RuntimeInv, Fresh, Same
<1>2. UNCHANGED <<token, workVars, tickVars, timer>>
    BY DEF BeginSleep
<1>3. call[o].n \in Int /\ now \in Nat /\ Ms \in Nat \ {0}
    BY <1>1, CallFacts, RuntimeAssumption DEF TypeOK, RestTypes
<1>4. ToMs(call[o].n) \in Int /\ ToMs(call[o].n - now) \in Int
    BY <1>3, SMT DEF ToMs
<1>5. EndTypes' /\ SleepTypes' /\ OpsInv'
  <2>1. CASE /\ Kind(o) \in {"sleep", "timeout"}
             /\ Sleep(o, ToMs(call[o].n), q, "asleep", Finish(o, "ok", q))
    <3>1. Kind(o) \in Timed
        BY <2>1 DEF Timed, Sleeps
    <3> QED  BY <1>1, <1>2, <1>4, <2>1, <3>1, SleepStep
  <2>2. CASE Kind(o) = "until" /\ SleepUntil(o, call[o].n, q, Finish(o, "ok", q))
    <3>1. Kind(o) \in Timed
        BY <2>2 DEF Timed, Sleeps
    <3>2. CASE Finish(o, "ok", q) /\ UNCHANGED sleepVars
      <4>1. "ok" \in Endings /\ UNCHANGED workVars
          BY <1>2 DEF Endings
      <4> QED  BY <3>2, <4>1, FinishStep
    <3>3. CASE Sleep(o, ToMs(call[o].n - now), q, "asleep", Finish(o, "ok", q))
        BY <1>1, <1>2, <1>4, <3>1, <3>3, SleepStep
    <3> QED  BY <2>2, <3>2, <3>3 DEF SleepUntil
  <2> QED  BY <2>1, <2>2 DEF BeginSleep
<1>6. WorkTypes' /\ TickTypes' /\ StartTypes' /\ RestTypes' /\ call' \in Scenarios
    BY <1>1, <1>2 DEF TypeOK, WorkTypes, TickTypes, StartTypes, RestTypes, workVars, tickVars
<1> QED  BY <1>5, <1>6 DEF RuntimeInv, TypeOK

\* A periodic task begins.
LEMMA BeginPeriodicStep ==
    ASSUME RuntimeInv, NEW o \in Ops, NEW q, Fresh(o, q), Kind(o) \in Periodic,
           BeginPeriodic(o, q), Same, inline' \in Seq(Ops)
    PROVE  RuntimeInv'
<1>1. TypeOK /\ OpsInv /\ Awake(o, q) /\ call' = call /\ shut' = shut /\ now' = now
    BY DEF RuntimeInv, Fresh, Same
<1>2. UNCHANGED <<token, workVars, timer>>
    BY DEF BeginPeriodic
<1>3. began' \in [Ops -> Int]
    BY <1>1 DEF BeginPeriodic, TypeOK, TickTypes, RestTypes
<1>4. /\ EndTypes' /\ SleepTypes' /\ OpsInv'
      /\ ticks' \in [Ops -> Int] /\ next' \in [Ops -> Int]
  <2>1. CASE SleepInterval(o, q)
      BY <1>1, <1>2, <2>1, SleepIntervalStep
  <2>2. CASE StartTick(o, q) /\ UNCHANGED <<next, sleepVars>>
    <3>1. UNCHANGED sleepVars /\ UNCHANGED workVars /\ next' = next
        BY <1>2, <2>2
    <3> QED  BY <1>1, <2>2, <3>1, StartTickStep DEF TypeOK, TickTypes
  <2>3. CASE SleepToSlot(o, now + Interval(o), q)
    <3>1. now + Interval(o) \in Int
      <4>1. \A b \in Int : Interval(o) \in Nat \ {0}
          BY <1>1, SlotFacts
      <4>2. now \in Nat
          BY <1>1 DEF TypeOK, RestTypes
      <4> QED  BY <4>1, <4>2, SMT
    <3> QED  BY <1>1, <1>2, <2>3, <3>1, SleepToSlotStep
  <2> QED  BY <2>1, <2>2, <2>3 DEF BeginPeriodic
<1>5. WorkTypes' /\ StartTypes' /\ RestTypes' /\ call' \in Scenarios
    BY <1>1, <1>2 DEF TypeOK, WorkTypes, StartTypes, RestTypes, workVars
<1> QED  BY <1>3, <1>4, <1>5 DEF RuntimeInv, TypeOK, TickTypes

\* A wait whose stop comes before await_suspend returns.
LEMMA RacedWaitStep ==
    ASSUME RuntimeInv, NEW o \in Ops, NEW q, Fresh(o, q), Kind(o) \in Waits, NEW p \in Ops,
           pc' = [pc EXCEPT ![o] = "raced"], queue' = Append(q, <<"resume", o>>),
           stopped' = stopped \cup {<<"own", p>>}, resumed' = resumed \cup {o},
           UNCHANGED <<result, watch, fault>>, Same, UNCHANGED sleepVars, UNCHANGED workVars
    PROVE  EndTypes' /\ SleepTypes' /\ OpsInv'
<1>1. EndTypes /\ SleepTypes /\ Awake(o, q) /\ OpInv(o) /\ TypeOK
    BY DEF RuntimeInv, TypeOK, Fresh, OpsInv
<1>2. q \in Seq(Closures) /\ <<"resume", o>> \in Closures /\ Rest(q, o) /\ "resume" \in Whats
    BY <1>1 DEF Awake, Rest, Closures, Whats
<1>3. Rest(queue', o) /\ queue' \in Seq(Closures)
  <2>1. Rest(Append(q, <<"resume", o>>), o)
      BY <1>1, <1>2, RestFacts
  <2> QED  BY <2>1 DEF Rest
<1>4. EndTypes'
    BY <1>1, <1>3 DEF EndTypes, Pcs, Tokens
<1>5. SleepTypes' /\ due' = due /\ completed' = completed /\ uv' = uv /\ ran' = ran
    BY <1>1 DEF SleepTypes, sleepVars, workVars
<1>6. \A x \in Ops \ {o} : OpInv(x) /\ Untouched(x) /\ Told(x, queue')
    BY <1>1, <1>5 DEF RuntimeInv, OpsInv, Untouched, Told, EndTypes
<1>7. \A x \in Ops \ {o} : OpInv(x)'
  <2> DEFINE q2 == queue'
  <2>1. Rest(q2, o) /\ \A x \in Ops \ {o} : OpInv(x) /\ Untouched(x) /\ Told(x, q2)
      BY <1>3, <1>6
  <2>2. call' = call
      BY DEF Same
  <2> HIDE DEF q2
  <2> QED  BY <2>1, <2>2, OthersStep
<1>8. Kind(o)' = Kind(o) /\ Kind(o) \notin Timed \cup {"blocking", "call"}
    BY DEF Kind, Same, Waits, Timed, Sleeps, Periodic
<1>9. ASSUME NEW c, c # <<"resume", o>>
      PROVE  In(c, queue') => In(c, q)
    BY <1>2, <1>9, PostFacts
<1>10. /\ ~In(<<"begin", o>>, queue') /\ ~In(<<"startwork", o>>, queue')
       /\ ~In(<<"call", o>>, queue') /\ ~In(<<"start", o>>, queue')
       /\ ~In(<<"cancel", o>>, queue') /\ ~In(<<"cancelwork", o>>, queue')
    BY <1>1, <1>8, <1>9 DEF Awake
<1>11. pc'[o] = "raced"
    BY <1>1 DEF EndTypes
<1>12. OpInv(o)'
  <2>1. BeginInv(o)'
      BY <1>8, <1>10 DEF BeginInv, In, Once
  <2>2. PlaceInv(o)'
      BY <1>8, <1>11 DEF PlaceInv, Asleep
  <2>3. SleepInv(o)'
      BY <1>1, <1>5, <1>8, <1>10, <1>11 DEF SleepInv, Asleep, Awake
  <2>4. WorkInv(o)'
      BY <1>5, <1>8, <1>10, <1>11 DEF WorkInv, Fresh
  <2> QED  BY <2>1, <2>2, <2>3, <2>4 DEF OpInv
<1>13. FaultsAreKnown'
    BY DEF RuntimeInv, OpsInv, FaultsAreKnown, Kind, Same
<1> QED  BY <1>4, <1>5, <1>7, <1>12, <1>13 DEF OpsInv

\* wait_for_stop begins.
LEMMA BeginWaitStep ==
    ASSUME RuntimeInv, NEW o \in Ops, NEW q, NEW rest \in Seq(Ops), Fresh(o, q),
           Kind(o) \in Waits, BeginWait(o, q, rest), Same
    PROVE  RuntimeInv'
<1>1. TypeOK /\ OpsInv /\ Awake(o, q) /\ call' = call /\ shut' = shut /\ now' = now
    BY DEF RuntimeInv, Fresh, Same
<1>2. UNCHANGED <<token, sleepVars, workVars, tickVars, timer>>
    BY DEF BeginWait
<1> DEFINE p == IF Kind(o) = "wait" THEN o ELSE Parent(o)
<1>3. p \in Ops /\ WaitTokens(o) \in SUBSET Tokens
    BY <1>1, CallFacts DEF WaitTokens, Waits, Tokens, TypeOK, StartTypes
<1>4. inline' \in Seq(Ops) /\ EndTypes' /\ SleepTypes' /\ OpsInv'
  <2>1. CASE Finish(o, "requested", q) /\ inline' = rest
    <3>1. "requested" \in Endings
        BY DEF Endings
    <3> QED  BY <1>2, <2>1, <3>1, FinishStep
  <2>2. CASE Suspend(o, "waiting", WaitTokens(o), q) /\ inline' = rest
    <3>1. q \in Seq(Closures) /\ "waiting" \in Pcs
        BY <1>1 DEF Awake, Rest, Pcs
    <3>2. Suspended(o, "waiting", WaitTokens(o), q)
        BY <1>1, <1>3, <2>2, <3>1, SuspendEffect DEF Suspend
    <3>3. Kind(o) # "blocking"
        BY DEF Waits
    <3> QED  BY <1>1, <1>2, <1>3, <2>2, <3>2, <3>3, PausedStep
  <2>3. CASE /\ pc' = [pc EXCEPT ![o] = "raced"] /\ inline' = <<o>> \o rest
             /\ queue' = Append(q, <<"resume", o>>)
             /\ stopped' = stopped \cup {<<"own", p>>}
             /\ resumed' = resumed \cup {o}
             /\ UNCHANGED <<result, watch, fault>>
    <3>1. inline' \in Seq(Ops)
        BY <2>3, <<o>> \in Seq(Ops), ConcatProperties
    <3> QED  BY <1>2, <1>3, <2>3, <3>1, RacedWaitStep
  <2> QED  BY <2>1, <2>2, <2>3 DEF BeginWait
<1>5. WorkTypes' /\ TickTypes' /\ StartTypes' /\ RestTypes' /\ call' \in Scenarios
    BY <1>1, <1>2, <1>4 DEF TypeOK, WorkTypes, TickTypes, StartTypes, RestTypes, workVars, tickVars
<1> QED  BY <1>4, <1>5 DEF RuntimeInv, TypeOK

\* blocking suspends with the start of its work posted, perhaps behind its cancel.
LEMMA WorkingStep ==
    ASSUME RuntimeInv, NEW o \in Ops, NEW q, NEW p, NEW toks \in SUBSET Tokens, Fresh(o, q),
           Kind(o) = "blocking", p = q \/ p = Append(q, <<"cancelwork", o>>),
           Suspended(o, "working", toks, Append(p, <<"startwork", o>>)),
           Same, UNCHANGED sleepVars, UNCHANGED workVars
    PROVE  EndTypes' /\ SleepTypes' /\ OpsInv'
<1> DEFINE q2 == Append(p, <<"startwork", o>>)
<1>1. /\ TypeOK /\ OpsInv /\ Awake(o, q) /\ call' = call /\ shut' = shut
      /\ due' = due /\ completed' = completed /\ uv' = uv /\ ran' = ran
    BY DEF RuntimeInv, Fresh, Same, sleepVars, workVars
<1>2. /\ q \in Seq(Closures) /\ Rest(q, o) /\ "startwork" \in Whats /\ "cancelwork" \in Whats
      /\ <<"startwork", o>> \in Closures /\ <<"cancelwork", o>> \in Closures
    BY <1>1 DEF Awake, Rest, Closures, Whats
<1>3. Append(q, <<"cancelwork", o>>) \in Seq(Closures) /\ Rest(Append(q, <<"cancelwork", o>>), o)
    BY <1>1, <1>2, PostFacts, RestFacts
<1>4. p \in Seq(Closures) /\ Rest(p, o)
    BY <1>2, <1>3
<1>5. Rest(q2, o)
    BY <1>1, <1>2, <1>4, RestFacts
<1>6. ASSUME NEW c
      PROVE  In(c, q2) => In(c, q) \/ c = <<"startwork", o>> \/ c = <<"cancelwork", o>>
    BY <1>2, <1>4, PostFacts
<1>7. Kind(o)' = Kind(o) /\ Kind(o) \notin Timed \cup {"control", "call"} \cup Waits
    BY <1>1 DEF Kind, Timed, Sleeps, Periodic, Waits
<1>8. /\ ~In(<<"begin", o>>, queue') /\ ~In(<<"start", o>>, queue')
      /\ ~In(<<"call", o>>, queue') /\ ~In(<<"resume", o>>, queue')
      /\ ~In(<<"cancel", o>>, queue')
    BY <1>1, <1>6, <1>7 DEF Suspended, Awake
<1>9. Once(<<"startwork", o>>, queue')
  <2>1. ~In(<<"startwork", o>>, p)
    <3>1. ~In(<<"startwork", o>>, q) /\ <<"startwork", o>> # <<"cancelwork", o>>
        BY DEF Fresh
    <3> QED  BY <1>2, <3>1, PostFacts
  <2>2. Once(<<"startwork", o>>, p)
      BY <2>1 DEF Once, In
  <2>3. Once(<<"startwork", o>>, q2)
      BY <1>2, <1>4, <2>1, <2>2, PostFacts
  <2> QED  BY <2>3 DEF Suspended
<1>10. BeginInv(o)'
    BY <1>7, <1>8, <1>9 DEF BeginInv, In, Once
<1>11. PlaceInv(o)'
    BY <1>7 DEF PlaceInv, Suspended, Asleep
<1>12. SleepInv(o)'
    BY <1>1, <1>7, <1>8 DEF SleepInv, Suspended, Asleep, Awake, In, Once
<1>13. WorkInv(o)'
    BY <1>1, <1>7 DEF WorkInv, Suspended, Fresh
<1>14. OpInv(o)'
    BY <1>10, <1>11, <1>12, <1>13 DEF OpInv
<1>15. \A x \in Ops \ {o} : Untouched(x)
    BY <1>1 DEF Untouched
<1>16. EndTypes' /\ SleepTypes'
    BY <1>1 DEF Suspended, TypeOK, SleepTypes, sleepVars
<1> QED  BY <1>1, <1>5, <1>14, <1>15, <1>16, SuspendedOthers

\* blocking begins.
LEMMA BeginBlockingStep ==
    ASSUME RuntimeInv, NEW o \in Ops, NEW q, Fresh(o, q), Kind(o) = "blocking",
           BeginBlocking(o, q), Same, inline' \in Seq(Ops)
    PROVE  RuntimeInv'
<1>1. TypeOK /\ Awake(o, q) /\ call' = call /\ shut' = shut /\ now' = now
    BY DEF RuntimeInv, Fresh, Same
<1>2. UNCHANGED <<token, sleepVars, workVars, tickVars, timer>>
    BY DEF BeginBlocking
<1>3. /\ q \in Seq(Closures) /\ "working" \in Pcs /\ {token[o]} \in SUBSET Tokens
      /\ <<"startwork", o>> \in Closures /\ <<"cancelwork", o>> \in Closures
    BY <1>1 DEF Awake, Rest, Closures, Whats, Pcs, TypeOK, StartTypes
<1>4. /\ Append(q, <<"startwork", o>>) \in Seq(Closures)
      /\ Append(q, <<"cancelwork", o>>) \in Seq(Closures)
    BY <1>3, PostFacts
<1>5. EndTypes' /\ SleepTypes' /\ OpsInv'
  <2>1. CASE \E r \in {"cancelled", "error"} : Finish(o, r, q)
    <3>1. PICK r \in {"cancelled", "error"} : Finish(o, r, q)
        BY <2>1
    <3>2. r \in Endings
        BY DEF Endings
    <3> QED  BY <1>2, <3>1, <3>2, FinishStep
  <2>2. CASE Suspend(o, "working", {token[o]}, Append(q, <<"startwork", o>>))
    <3>1. Suspended(o, "working", {token[o]}, Append(q, <<"startwork", o>>))
        BY <1>1, <1>3, <1>4, <2>2, SuspendEffect DEF Suspend
    <3> QED  BY <1>2, <1>3, <3>1, WorkingStep
  <2>3. CASE SuspendRaced(o, "working", q \o << <<"cancelwork", o>>, <<"startwork", o>> >>)
    <3> DEFINE p == Append(q, <<"cancelwork", o>>)
    <3>1. SuspendRaced(o, "working", Append(p, <<"startwork", o>>))
        BY <1>3, <2>3, PostTwo
    <3>2. Append(p, <<"startwork", o>>) \in Seq(Closures)
        BY <1>3, <1>4, PostFacts
    <3>3. p = Append(q, <<"cancelwork", o>>)
        OBVIOUS
    <3> HIDE DEF p
    <3>4. Suspended(o, "working", {token[o]}, Append(p, <<"startwork", o>>))
        BY <1>1, <1>3, <3>1, <3>2, SuspendEffect DEF SuspendRaced
    <3> QED  BY <1>2, <1>3, <3>3, <3>4, WorkingStep
  <2> QED  BY <2>1, <2>2, <2>3 DEF BeginBlocking
<1>6. WorkTypes' /\ TickTypes' /\ StartTypes' /\ RestTypes' /\ call' \in Scenarios
    BY <1>1, <1>2 DEF TypeOK, WorkTypes, TickTypes, StartTypes, RestTypes, workVars, tickVars
<1> QED  BY <1>5, <1>6 DEF RuntimeInv, TypeOK

\* The contenders of a controlled call can be listed.
LEMMA StartingFacts ==
    ASSUME NEW o
    PROVE  Starting(o) \in Seq(Ops)
<1>1. ASSUME NEW kinds PROVE Contenders(o, kinds) \in Seq(Ops)
  <2> DEFINE S == {c \in Ops : Parent(c) = o /\ Kind(c) \in kinds}
  <2>1. S \in SUBSET Ops
      OBVIOUS
  <2>2. IsFiniteSet(S)
      BY <2>1, FS_Subset, RuntimeAssumption
  <2>3. SetToSeq(S) \in Seq(S)
      BY <2>2, ListFacts
  <2> QED  BY <2>1, <2>3, SeqMonotonic DEF Contenders
<1> QED  BY <1>1, ConcatProperties DEF Starting

\* A controlled call begins.
LEMMA BeginControlStep ==
    ASSUME RuntimeInv, NEW o \in Ops, NEW q, NEW rest \in Seq(Ops), Fresh(o, q),
           Kind(o) = "control", BeginControl(o, q, rest), Same
    PROVE  RuntimeInv'
<1>1. TypeOK /\ OpsInv /\ Awake(o, q) /\ call' = call /\ shut' = shut /\ now' = now
    BY DEF RuntimeInv, Fresh, Same
<1>2. UNCHANGED <<token, sleepVars, workVars, tickVars, timer>>
    BY DEF BeginControl
<1>3. inline' \in Seq(Ops) /\ EndTypes' /\ SleepTypes' /\ OpsInv'
  <2>1. CASE inline' = rest /\ \E r \in {"cancelled", "timeout"} : Finish(o, r, q)
    <3>1. PICK r \in {"cancelled", "timeout"} : Finish(o, r, q)
        BY <2>1
    <3>2. r \in Endings
        BY DEF Endings
    <3> QED  BY <1>2, <2>1, <3>1, <3>2, FinishStep
  <2>2. CASE Suspend(o, "controlling", {}, q) /\ inline' = Starting(o) \o rest
    <3>1. q \in Seq(Closures) /\ "controlling" \in Pcs /\ {} \in SUBSET Tokens
        BY <1>1 DEF Awake, Rest, Pcs
    <3>2. Suspended(o, "controlling", {}, q)
        BY <1>1, <2>2, <3>1, SuspendEffect DEF Suspend
    <3>3. EndTypes' /\ SleepTypes' /\ OpsInv'
        BY <1>1, <1>2, <3>1, <3>2, PausedStep
    <3>4. inline' \in Seq(Ops)
        BY <2>2, StartingFacts, ConcatProperties
    <3> QED  BY <3>3, <3>4
  <2> QED  BY <2>1, <2>2 DEF BeginControl
<1>4. WorkTypes' /\ TickTypes' /\ StartTypes' /\ RestTypes' /\ call' \in Scenarios
    BY <1>1, <1>2, <1>3 DEF TypeOK, WorkTypes, TickTypes, StartTypes, RestTypes, workVars, tickVars
<1> QED  BY <1>3, <1>4 DEF RuntimeInv, TypeOK

\* The steady_timer is given another expiry.
LEMMA ArmStep ==
    ASSUME RuntimeInv, NEW o \in Ops, NEW q, Fresh(o, q), Arm(o, q), Same, inline' \in Seq(Ops)
    PROVE  RuntimeInv'
<1>1. TypeOK /\ call' = call /\ shut' = shut /\ now' = now
    BY DEF RuntimeInv, Same
<1>2. UNCHANGED <<token, sleepVars, workVars, tickVars>> /\ Finish(o, "ok", q)
    BY DEF Arm
<1>3. EndTypes' /\ SleepTypes' /\ OpsInv'
  <2>1. "ok" \in Endings
      BY DEF Endings
  <2> QED  BY <1>2, <2>1, FinishStep
<1>4. timer' \in [expiry : Int, source : Nat]
  <2>1. call[o].n \in Int /\ now \in Nat /\ timer.source \in Nat
      BY <1>1, CallFacts DEF TypeOK, RestTypes
  <2> QED  BY <2>1, SMT DEF Arm
<1>5. WorkTypes' /\ TickTypes' /\ StartTypes' /\ RestTypes' /\ call' \in Scenarios
    BY <1>1, <1>2, <1>4 DEF TypeOK, WorkTypes, TickTypes, StartTypes, RestTypes, workVars, tickVars
<1> QED  BY <1>3, <1>5 DEF RuntimeInv, TypeOK

\* A wait for the steady_timer begins.
LEMMA BeginTimerWaitStep ==
    ASSUME RuntimeInv, NEW o \in Ops, NEW q, Fresh(o, q), Kind(o) = "timer",
           BeginTimerWait(o, q), Same, inline' \in Seq(Ops)
    PROVE  RuntimeInv'
<1> DEFINE tok == <<"timer", timer.source>>
           ms == ToMs(timer.expiry - now)
<1>1. TypeOK /\ OpsInv /\ Awake(o, q) /\ call' = call /\ shut' = shut /\ now' = now
    BY DEF RuntimeInv, Fresh, Same
<1>2. UNCHANGED <<workVars, tickVars, timer>> /\ token' = [token EXCEPT ![o] = tok]
    BY DEF BeginTimerWait
<1>3. tok \in Tokens /\ ms \in Int
  <2>1. timer.source \in Nat /\ timer.expiry \in Int /\ now \in Nat /\ Ms \in Nat \ {0}
      BY <1>1, RuntimeAssumption DEF TypeOK, RestTypes
  <2>2. ms \in Int
      BY <2>1, SMT DEF ToMs
  <2> QED  BY <2>1, <2>2 DEF Tokens
<1>4. EndTypes' /\ SleepTypes' /\ OpsInv'
  <2>1. CASE UNCHANGED sleepVars /\ \E r \in {"cancelled", "ok", "error"} : Finish(o, r, q)
    <3>1. PICK r \in {"cancelled", "ok", "error"} : Finish(o, r, q)
        BY <2>1
    <3>2. r \in Endings
        BY DEF Endings
    <3> QED  BY <1>2, <2>1, <3>1, <3>2, FinishStep
  <2>2. CASE /\ delay' = [delay EXCEPT ![o] = ms] /\ completed' = completed \ {o}
             /\ due' = due /\ Suspend(o, "asleep", {tok}, Append(q, <<"start", o>>))
    <3>1. /\ q \in Seq(Closures) /\ <<"start", o>> \in Closures /\ "asleep" \in Pcs
          /\ {tok} \in SUBSET Tokens /\ Kind(o) \in Timed
        BY <1>1, <1>3 DEF Awake, Rest, Closures, Whats, Pcs, Timed, Sleeps
    <3>2. Append(q, <<"start", o>>) \in Seq(Closures)
        BY <3>1, PostFacts
    <3>3. Suspended(o, "asleep", {tok}, Append(q, <<"start", o>>))
        BY <1>1, <2>2, <3>1, <3>2, SuspendEffect DEF Suspend
    <3> QED  BY <1>1, <1>2, <1>3, <2>2, <3>1, <3>3, AsleepStep
  <2> QED  BY <2>1, <2>2 DEF BeginTimerWait
<1>5. WorkTypes' /\ TickTypes' /\ StartTypes' /\ RestTypes' /\ call' \in Scenarios
    BY <1>1, <1>2, <1>3 DEF TypeOK, WorkTypes, TickTypes, StartTypes, RestTypes, workVars, tickVars
<1> QED  BY <1>4, <1>5 DEF RuntimeInv, TypeOK

\* A coroutine runs for the first time.
LEMMA BeginOpStep ==
    ASSUME RuntimeInv, NEW o \in Ops, NEW q, NEW rest \in Seq(Ops), Fresh(o, q),
           BeginOp(o, q, rest), Same
    PROVE  RuntimeInv'
<1>1. CASE BeginSleep(o, q) /\ inline' = rest
    BY <1>1, BeginSleepStep
<1>2. CASE Kind(o) \in Periodic /\ BeginPeriodic(o, q) /\ inline' = rest
    BY <1>2, BeginPeriodicStep
<1>3. CASE Kind(o) \in Waits /\ BeginWait(o, q, rest)
    BY <1>3, BeginWaitStep
<1>4. CASE Kind(o) = "blocking" /\ BeginBlocking(o, q) /\ inline' = rest
    BY <1>4, BeginBlockingStep
<1>5. CASE Kind(o) = "control" /\ BeginControl(o, q, rest)
    BY <1>5, BeginControlStep
<1>6. CASE Kind(o) = "timer" /\ BeginTimerWait(o, q) /\ inline' = rest
    BY <1>6, BeginTimerWaitStep
<1>7. CASE Kind(o) = "arm" /\ Arm(o, q) /\ inline' = rest
    BY <1>7, ArmStep
<1> QED  BY <1>1, <1>2, <1>3, <1>4, <1>5, <1>6, <1>7 DEF BeginOp

-----------------------------------------------------------------------------
(* What the loop runs                                                        *)

\* The first closure and the rest of the queue.
LEMMA FirstPosted ==
    ASSUME TypeOK, queue # <<>>, NEW what, NEW o, NEW q,
           what = Head(queue)[1], o = Head(queue)[2], q = Tail(queue)
    PROVE  /\ what \in Whats /\ o \in Ops /\ q \in Seq(Closures) /\ Rest(q, o)
           /\ In(<<what, o>>, queue)
           /\ Once(<<what, o>>, queue) => ~In(<<what, o>>, q)
           /\ \A c : (In(c, q) => In(c, queue)) /\ (Once(c, queue) => Once(c, q))
<1>1. queue \in Seq(Closures)
    BY DEF TypeOK, EndTypes
<1>2. Head(queue) \in Closures /\ In(Head(queue), queue) /\ q \in Seq(Closures)
      /\ (Once(Head(queue), queue) => ~In(Head(queue), q))
    BY <1>1, TakeFacts
<1>3. Head(queue) = <<what, o>> /\ what \in Whats /\ o \in Ops
    BY <1>2 DEF Closures
<1>4. ASSUME NEW c PROVE (In(c, q) => In(c, queue)) /\ (Once(c, queue) => Once(c, q))
    BY <1>1, TakeFacts
<1>5. Rest(q, o)
    BY <1>3, RestFacts
<1> QED  BY <1>2, <1>3, <1>4, <1>5

\* A step of one op that runs no stop callback.
LEMMA OneOpStep ==
    ASSUME RuntimeInv, NEW o \in Ops, Rest(queue', o), call' = call,
           \A x \in Ops \ {o} : /\ pc'[x] = pc[x] /\ result'[x] = result[x]
                                /\ watch'[x] = watch[x] /\ (x \in resumed' <=> x \in resumed)
                                /\ Untouched(x),
           OpInv(o)', FaultsAreKnown'
    PROVE  OpsInv'
<1> DEFINE q == queue'
<1>1. Rest(q, o) /\ \A x \in Ops \ {o} : OpInv(x) /\ Untouched(x) /\ Told(x, q)
    BY DEF RuntimeInv, OpsInv, Told
<1> HIDE DEF q
<1>2. \A x \in Ops \ {o} : OpInv(x)'
    BY <1>1, OthersStep
<1> QED  BY <1>2 DEF OpsInv

\* No new fault.
LEMMA NoFaultStep ==
    ASSUME RuntimeInv, call' = call, shut' = shut, fault' = fault \/ shut' # "no"
    PROVE  FaultsAreKnown'
BY DEF RuntimeInv, OpsInv, FaultsAreKnown, Kind

\* A closure is taken, and nothing comes of it but that timers are closed.
LEMMA TakenStep ==
    ASSUME RuntimeInv, NEW q \in Seq(Closures), queue' = q,
           \A c : (In(c, q) => In(c, queue)) /\ (Once(c, queue) => Once(c, q)),
           UNCHANGED <<call, pc, result, watch, stopped, resumed, fault>>,
           \A x \in Ops : Untouched(x), shut # "no" => shut' # "no"
    PROVE  EndTypes' /\ OpsInv'
<1>1. EndTypes'
    BY DEF RuntimeInv, TypeOK, EndTypes
<1>2. \A x \in Ops : OpInv(x) /\ Told(x, queue)
    BY DEF RuntimeInv, OpsInv, Told
<1>3. \A x \in Ops : OpInv(x)'
    BY <1>2, ToldStep
<1>4. FaultsAreKnown'
    BY DEF RuntimeInv, OpsInv, FaultsAreKnown, Kind
<1> QED  BY <1>1, <1>3, <1>4 DEF OpsInv

\* The loop begins a coroutine that has been spawned.
LEMMA RunBeginStep ==
    ASSUME RuntimeInv, queue # <<>>, NEW o, NEW q, Head(queue)[1] = "begin",
           o = Head(queue)[2], q = Tail(queue), BeginOp(o, q, <<>>), Same
    PROVE  RuntimeInv'
<1>1. /\ o \in Ops /\ Rest(q, o) /\ In(<<"begin", o>>, queue)
      /\ Once(<<"begin", o>>, queue) => ~In(<<"begin", o>>, q)
      /\ \A c : (In(c, q) => In(c, queue)) /\ (Once(c, queue) => Once(c, q))
    BY FirstPosted DEF RuntimeInv
<1>2. OpInv(o)
    BY <1>1 DEF RuntimeInv, OpsInv
<1>3. ~In(<<"begin", o>>, q) /\ (pc[o] = "spawned" \/ Kind(o) = "control")
    BY <1>1, <1>2 DEF OpInv, BeginInv
<1>4. ~Asleep(o)
    BY <1>2, <1>3 DEF Asleep, OpInv, PlaceInv, Timed, Sleeps, Periodic
<1>5. Awake(o, q)
    BY <1>1, <1>2, <1>3, <1>4, AwakeFacts
<1>6. uv[o] = "idle" /\ ~In(<<"startwork", o>>, q)
    BY <1>1, <1>2, <1>3 DEF OpInv, WorkInv
<1>7. Kind(o) = "blocking" => o \notin ran /\ result[o] # "cancelled"
    BY <1>2, <1>3, <1>6 DEF OpInv, WorkInv
<1>8. Fresh(o, q)
    BY <1>5, <1>6, <1>7 DEF Fresh
<1> QED  BY <1>1, <1>8, BeginOpStep, EmptySeq

\* The loop starts the timer of a sleep.
LEMMA RunStartStep ==
    ASSUME RuntimeInv, queue # <<>>, NEW o, NEW q, Head(queue)[1] = "start",
           o = Head(queue)[2], q = Tail(queue), StartTimer(o), queue' = q, call' = call, shut' = shut,
           UNCHANGED <<pc, result, watch, stopped, resumed, fault>>, UNCHANGED workVars
    PROVE  EndTypes' /\ SleepTypes' /\ OpsInv'
<1>1. /\ o \in Ops /\ Rest(q, o) /\ In(<<"start", o>>, queue) /\ q \in Seq(Closures)
      /\ \A c : (In(c, q) => In(c, queue)) /\ (Once(c, queue) => Once(c, q))
    BY FirstPosted DEF RuntimeInv
<1>2. OpInv(o) /\ TypeOK
    BY <1>1 DEF RuntimeInv, OpsInv
<1>3. /\ due' = IF o \in completed THEN due ELSE [due EXCEPT ![o] = (ToMs(now) + delay[o]) * Ms]
      /\ completed' = completed /\ delay' = delay /\ uv' = uv /\ ran' = ran
    BY DEF StartTimer, workVars
<1>4. EndTypes' /\ SleepTypes'
  <2>1. EndTypes'
      BY <1>1, <1>2 DEF TypeOK, EndTypes
  <2>2. due' \in [Ops -> Int]
    <3>1. now \in Nat /\ Ms \in Nat \ {0} /\ delay[o] \in Int /\ due \in [Ops -> Int]
        BY <1>1, <1>2, RuntimeAssumption DEF TypeOK, RestTypes, SleepTypes
    <3>2. (ToMs(now) + delay[o]) * Ms \in Int
        BY <3>1, SMT DEF ToMs
    <3> QED  BY <1>3, <3>1, <3>2
  <2> QED  BY <1>2, <1>3, <2>1, <2>2 DEF TypeOK, SleepTypes
<1>5. /\ Kind(o)' = Kind(o) /\ Kind(o) \in Timed
      /\ o \in completed \/ (Asleep(o) /\ o \notin resumed)
      /\ Kind(o) \notin {"blocking", "control"} \cup Waits
  <2>1. Kind(o)' = Kind(o) /\ Kind(o) \in Timed
        /\ (o \in completed \/ (Asleep(o) /\ o \notin resumed))
      BY <1>1, <1>2 DEF Kind, OpInv, SleepInv
  <2> QED  BY <2>1 DEF Timed, Sleeps, Periodic, Waits
<1>6. OpInv(o)'
  <2>1. BeginInv(o)'
      BY <1>1, <1>2, <1>5 DEF BeginInv, OpInv
  <2>2. PlaceInv(o)'
      BY <1>2, <1>5 DEF PlaceInv, OpInv, Asleep
  <2>3. SleepInv(o)'
    <3>1. o \in completed => due'[o] = due[o]
        BY <1>3
    <3> QED  BY <1>1, <1>2, <1>3, <1>5, <3>1 DEF SleepInv, OpInv, Asleep
  <2>4. WorkInv(o)'
      BY <1>1, <1>2, <1>3, <1>5 DEF WorkInv, OpInv
  <2> QED  BY <2>1, <2>2, <2>3, <2>4 DEF OpInv
<1>7. \A x \in Ops \ {o} : Untouched(x)
    BY <1>2, <1>3 DEF Untouched, TypeOK, SleepTypes
<1>8. Rest(queue', o)
    BY <1>1
<1>9. FaultsAreKnown'
    BY NoFaultStep
<1> QED  BY <1>1, <1>4, <1>6, <1>7, <1>8, <1>9, OneOpStep

\* A sleep is completed, and its coroutine resumed.
LEMMA CompleteStep ==
    ASSUME RuntimeInv, NEW o \in Ops, NEW q, Rest(q, o),
           \A c : (In(c, q) => In(c, queue)) /\ (Once(c, queue) => Once(c, q)),
           Kind(o) \in Timed, o \notin completed, Asleep(o), o \notin resumed,
           completed' = completed \cup {o}, due' = [due EXCEPT ![o] = 0],
           ResumeOnRuntime(o, q), delay' = delay, call' = call, shut' = shut, UNCHANGED workVars
    PROVE  EndTypes' /\ SleepTypes' /\ OpsInv'
<1>1. OpInv(o) /\ TypeOK /\ q \in Seq(Closures) /\ <<"resume", o>> \in Closures /\ "resume" \in Whats
    BY DEF RuntimeInv, OpsInv, Rest, Closures, Whats
<1>2. /\ resumed' = resumed \cup {o} /\ UNCHANGED <<pc, result, watch, stopped>>
      /\ \/ queue' = Append(q, <<"resume", o>>) /\ fault' = fault
         \/ queue' = q /\ fault' = o /\ shut # "no"
    BY DEF ResumeOnRuntime
<1>3. Rest(queue', o)
  <2>1. Rest(Append(q, <<"resume", o>>), o)
      BY <1>1, RestFacts
  <2> QED  BY <1>2, <2>1
<1>4. ASSUME NEW c, c # <<"resume", o>>
      PROVE  /\ In(c, queue') => In(c, queue)
             /\ Once(c, queue) => Once(c, queue')
    BY <1>1, <1>2, <1>4, PostFacts
<1>5. Kind(o)' = Kind(o) /\ Kind(o) \notin {"blocking", "control"} \cup Waits
    BY DEF Kind, Timed, Sleeps, Periodic, Waits
<1>6. Once(<<"resume", o>>, queue')
  <2>1. ~In(<<"resume", o>>, q) /\ Once(<<"resume", o>>, q)
      BY <1>1, <1>5 DEF OpInv, SleepInv
  <2> QED  BY <1>1, <1>2, <2>1, PostFacts
<1>7. EndTypes' /\ SleepTypes'
    BY <1>1, <1>2, <1>3 DEF TypeOK, EndTypes, SleepTypes, Rest
<1>8. due'[o] = 0 /\ uv' = uv /\ ran' = ran /\ pc'[o] = pc[o]
    BY <1>1, <1>2 DEF TypeOK, SleepTypes, workVars
<1>9. OpInv(o)'
  <2>1. BeginInv(o)'
      BY <1>1, <1>2, <1>4, <1>5 DEF BeginInv, OpInv
  <2>2. PlaceInv(o)'
      BY <1>1, <1>2, <1>5 DEF PlaceInv, OpInv, Asleep
  <2>3. SleepInv(o)'
      BY <1>2, <1>5, <1>6, <1>8 DEF SleepInv, Asleep
  <2>4. WorkInv(o)'
      BY <1>1, <1>2, <1>4, <1>5, <1>8 DEF WorkInv, OpInv
  <2> QED  BY <2>1, <2>2, <2>3, <2>4 DEF OpInv
<1>10. \A x \in Ops \ {o} : Untouched(x) /\ (x \in resumed' <=> x \in resumed)
    BY <1>1, <1>2, <1>8 DEF Untouched, TypeOK, SleepTypes
<1>11. FaultsAreKnown'
    BY <1>2, NoFaultStep
<1> QED  BY <1>2, <1>3, <1>7, <1>9, <1>10, <1>11, OneOpStep

\* The loop cancels a sleep.
LEMMA RunCancelStep ==
    ASSUME RuntimeInv, queue # <<>>, NEW o, NEW q, Head(queue)[1] = "cancel",
           o = Head(queue)[2], q = Tail(queue), Cancel(o, q), call' = call, shut' = shut,
           UNCHANGED workVars
    PROVE  EndTypes' /\ SleepTypes' /\ OpsInv'
<1>1. /\ o \in Ops /\ Rest(q, o) /\ In(<<"cancel", o>>, queue) /\ q \in Seq(Closures)
      /\ \A c : (In(c, q) => In(c, queue)) /\ (Once(c, queue) => Once(c, q))
    BY FirstPosted DEF RuntimeInv
<1>2. CASE o \in completed
  <2>1. queue' = q /\ UNCHANGED <<due, delay, completed, uv, ran>>
        /\ UNCHANGED <<call, pc, result, watch, stopped, resumed, fault>>
      BY <1>2 DEF Cancel, sleepVars, workVars
  <2>2. \A x \in Ops : Untouched(x)
      BY <2>1 DEF Untouched
  <2>3. EndTypes' /\ OpsInv'
      BY <1>1, <2>1, <2>2, TakenStep
  <2> QED  BY <2>1, <2>3 DEF RuntimeInv, TypeOK, SleepTypes
<1>3. CASE o \notin completed
  <2>1. Kind(o) \in Timed /\ Asleep(o) /\ o \notin resumed
      BY <1>1, <1>3 DEF RuntimeInv, OpsInv, OpInv, SleepInv
  <2> QED  BY <1>1, <1>3, <2>1, CompleteStep DEF Cancel
<1> QED  BY <1>2, <1>3

\* The loop resumes a coroutine.
LEMMA RunResumeStep ==
    ASSUME RuntimeInv, queue # <<>>, NEW o, NEW q, Head(queue)[1] = "resume",
           o = Head(queue)[2], q = Tail(queue), RunResume(o, q), call' = call, shut' = shut,
           now' = now, UNCHANGED sleepVars, UNCHANGED workVars
    PROVE  EndTypes' /\ SleepTypes' /\ OpsInv' /\ ticks' \in [Ops -> Int]
<1>1. /\ o \in Ops /\ Rest(q, o) /\ In(<<"resume", o>>, queue) /\ q \in Seq(Closures)
      /\ Once(<<"resume", o>>, queue) => ~In(<<"resume", o>>, q)
      /\ \A c : (In(c, q) => In(c, queue)) /\ (Once(c, queue) => Once(c, q))
    BY FirstPosted DEF RuntimeInv
<1>2. OpInv(o) /\ TypeOK /\ ticks \in [Ops -> Int]
    BY <1>1 DEF RuntimeInv, OpsInv, TypeOK, TickTypes
<1>3. CASE /\ pc[o] \notin {"asleep", "waiting"} /\ fault' = o /\ queue' = q
           /\ UNCHANGED <<pc, result, watch, stopped, resumed, ticks>>
  <2>1. \A x \in Ops : Untouched(x)
      BY DEF Untouched, sleepVars, workVars
  <2>2. Kind(o) \in Waits \/ call[o].outside
      BY <1>1, <1>2, <1>3 DEF OpInv, SleepInv, PlaceInv, Asleep
  <2>3. FaultsAreKnown'
      BY <1>3, <2>2 DEF FaultsAreKnown, Kind
  <2>4. \A x \in Ops : OpInv(x) /\ Told(x, queue)
      BY <1>1, <1>3 DEF RuntimeInv, OpsInv, Told
  <2>5. \A x \in Ops : OpInv(x)'
      BY <2>1, <2>4, ToldStep
  <2>6. EndTypes' /\ SleepTypes'
      BY <1>1, <1>2, <1>3 DEF TypeOK, EndTypes, SleepTypes, sleepVars
  <2> QED  BY <1>2, <1>3, <2>3, <2>5, <2>6 DEF OpsInv
<1>4. CASE pc[o] \in {"asleep", "waiting"}
  <2>1. /\ ~In(<<"begin", o>>, q) /\ Kind(o) # "blocking"
        /\ ~Asleep(o) \/ (~In(<<"resume", o>>, q) /\ o \in completed)
    <3>1. Kind(o) \in Timed \cup Waits /\ (Kind(o) \in Timed => Kind(o) \notin Waits)
        BY <1>2, <1>4 DEF OpInv, PlaceInv, Asleep, Timed, Sleeps, Periodic, Waits
    <3>2. ~In(<<"begin", o>>, q) /\ Kind(o) # "blocking"
        BY <1>1, <1>2, <1>4, <3>1 DEF OpInv, BeginInv, Timed, Sleeps, Periodic, Waits
    <3>3. Asleep(o) => ~In(<<"resume", o>>, q) /\ o \in completed
        BY <1>1, <1>2, <3>1 DEF OpInv, SleepInv, PlaceInv
    <3> QED  BY <3>2, <3>3
  <2>2. Awake(o, q)
      BY <1>1, <1>2, <2>1, AwakeFacts
  <2>3. uv[o] = "idle"
      BY <1>2, <2>1 DEF OpInv, WorkInv
  <2>4. CASE UNCHANGED ticks /\ \E r \in {"requested", "cancelled", "ok"} : Finish(o, r, q)
    <3>1. PICK r \in {"requested", "cancelled", "ok"} : Finish(o, r, q)
        BY <2>4
    <3>2. r \in Endings
        BY DEF Endings
    <3>3. /\ \A x \in Ops \ {o} : uv'[x] = uv[x] /\ (x \in ran' <=> x \in ran)
          /\ uv'[o] = "idle"
        BY <2>3 DEF workVars
    <3>4. EndTypes' /\ SleepTypes' /\ OpsInv'
        BY <1>1, <1>2, <2>1, <2>2, <3>1, <3>2, <3>3, EndStep DEF RuntimeInv
    <3> QED  BY <1>2, <2>4, <3>4
  <2>5. CASE Kind(o) \in Periodic /\ StartTick(o, q)
      BY <1>1, <1>2, <2>2, <2>5, StartTickStep DEF RuntimeInv
  <2> QED  BY <1>4, <2>4, <2>5 DEF RunResume
<1> QED  BY <1>3, <1>4 DEF RunResume

\* The loop gives the pool the work of blocking.
LEMMA RunStartWorkStep ==
    ASSUME RuntimeInv, queue # <<>>, NEW o, NEW q, Head(queue)[1] = "startwork",
           o = Head(queue)[2], q = Tail(queue), StartWork(o, q), call' = call, shut' = shut,
           UNCHANGED sleepVars, ran' = ran
    PROVE  EndTypes' /\ SleepTypes' /\ WorkTypes' /\ OpsInv'
<1>1. /\ o \in Ops /\ Rest(q, o) /\ In(<<"startwork", o>>, queue) /\ q \in Seq(Closures)
      /\ Once(<<"startwork", o>>, queue) => ~In(<<"startwork", o>>, q)
      /\ \A c : (In(c, q) => In(c, queue)) /\ (Once(c, queue) => Once(c, q))
    BY FirstPosted DEF RuntimeInv
<1>2. /\ OpInv(o) /\ TypeOK /\ WorkTypes
      /\ due' = due /\ delay' = delay /\ completed' = completed
    BY <1>1 DEF RuntimeInv, OpsInv, TypeOK, sleepVars
<1>3. /\ Kind(o) = "blocking" /\ uv[o] = "idle" /\ ~In(<<"startwork", o>>, q)
      /\ Kind(o)' = Kind(o)
    BY <1>1, <1>2 DEF OpInv, WorkInv, BeginInv, Kind
<1>4. SleepTypes'
    BY <1>2 DEF TypeOK, SleepTypes
<1>5. CASE queue' = q /\ UNCHANGED <<uv, pc, result, watch, stopped, resumed, fault>>
  <2>1. \A x \in Ops : Untouched(x)
      BY <1>2, <1>5 DEF Untouched
  <2>2. EndTypes' /\ OpsInv'
      BY <1>1, <1>5, <2>1, TakenStep
  <2> QED  BY <1>2, <1>4, <1>5, <2>2 DEF WorkTypes
<1>6. CASE /\ pc[o] = "working" /\ queue' = q
           /\ uv' = [uv EXCEPT ![o] = "queued"]
           /\ UNCHANGED <<pc, result, watch, stopped, resumed, fault>>
  <2>1. EndTypes' /\ WorkTypes'
      BY <1>1, <1>2, <1>6 DEF TypeOK, EndTypes, WorkTypes, Work
  <2>2. uv'[o] = "queued" /\ \A x \in Ops \ {o} : Untouched(x)
      BY <1>1, <1>2, <1>6 DEF WorkTypes, Untouched
  <2>3. OpInv(o)'
    <3>1. BeginInv(o)'
        BY <1>1, <1>2, <1>3, <1>6 DEF BeginInv, OpInv
    <3>2. PlaceInv(o)'
        BY <1>2, <1>3, <1>6 DEF PlaceInv, OpInv, Asleep
    <3>3. SleepInv(o)'
        BY <1>1, <1>2, <1>3, <1>6 DEF SleepInv, OpInv, Asleep
    <3>4. WorkInv(o)'
        BY <1>1, <1>2, <1>3, <1>6, <2>2 DEF WorkInv, OpInv
    <3> QED  BY <3>1, <3>2, <3>3, <3>4 DEF OpInv
  <2>4. Rest(queue', o)
      BY <1>1, <1>6
  <2>5. FaultsAreKnown'
      BY <1>6, NoFaultStep
  <2> QED  BY <1>1, <1>4, <1>6, <2>1, <2>2, <2>3, <2>4, <2>5, OneOpStep
<1>7. CASE pc[o] = "working" /\ Finish(o, "error", q) /\ UNCHANGED uv
  <2>1. ~In(<<"begin", o>>, q)
      BY <1>1, <1>2, <1>3, <1>7 DEF OpInv, BeginInv
  <2>2. Awake(o, q)
      BY <1>1, <1>2, <1>7, <2>1, AwakeFacts DEF Asleep
  <2>3. "error" \in Endings
      BY DEF Endings
  <2>4. EndTypes' /\ SleepTypes' /\ OpsInv'
      BY <1>1, <1>2, <1>3, <1>7, <2>2, <2>3, EndStep DEF RuntimeInv
  <2> QED  BY <1>2, <1>7, <2>4 DEF WorkTypes
<1> QED  BY <1>5, <1>6, <1>7 DEF StartWork

\* The loop takes the work back that has not begun.
LEMMA RunCancelWorkStep ==
    ASSUME RuntimeInv, queue # <<>>, NEW o, NEW q, Head(queue)[1] = "cancelwork",
           o = Head(queue)[2], q = Tail(queue), CancelWork(o, q), call' = call, shut' = shut,
           UNCHANGED sleepVars, ran' = ran
    PROVE  EndTypes' /\ SleepTypes' /\ WorkTypes' /\ OpsInv'
<1>1. /\ o \in Ops /\ Rest(q, o) /\ In(<<"cancelwork", o>>, queue) /\ q \in Seq(Closures)
      /\ \A c : (In(c, q) => In(c, queue)) /\ (Once(c, queue) => Once(c, q))
    BY FirstPosted DEF RuntimeInv
<1>2. /\ OpInv(o) /\ TypeOK /\ WorkTypes
      /\ due' = due /\ delay' = delay /\ completed' = completed
    BY <1>1 DEF RuntimeInv, OpsInv, TypeOK, sleepVars
<1>3. Kind(o) = "blocking" /\ pc[o] \in {"working", "done"} /\ Kind(o)' = Kind(o)
    BY <1>1, <1>2 DEF OpInv, WorkInv, Kind
<1>4. SleepTypes'
    BY <1>2 DEF TypeOK, SleepTypes
<1>5. CASE queue' = q /\ UNCHANGED <<uv, pc, result, watch, stopped, resumed, fault>>
  <2>1. \A x \in Ops : Untouched(x)
      BY <1>2, <1>5 DEF Untouched
  <2>2. EndTypes' /\ OpsInv'
      BY <1>1, <1>5, <2>1, TakenStep
  <2> QED  BY <1>2, <1>4, <1>5, <2>2 DEF WorkTypes
<1>6. CASE pc[o] # "done" /\ uv[o] = "idle" /\ Finish(o, "cancelled", q) /\ UNCHANGED uv
  <2>1. ~In(<<"begin", o>>, q)
      BY <1>1, <1>2, <1>3, <1>6 DEF OpInv, BeginInv
  <2>2. Awake(o, q)
      BY <1>1, <1>2, <1>3, <2>1, AwakeFacts DEF Asleep
  <2>3. "cancelled" \in Endings /\ o \notin ran'
      BY <1>2, <1>3, <1>6 DEF Endings, OpInv, WorkInv
  <2>4. EndTypes' /\ SleepTypes' /\ OpsInv'
      BY <1>1, <1>2, <1>6, <2>2, <2>3, EndStep DEF RuntimeInv
  <2> QED  BY <1>2, <1>6, <2>4 DEF WorkTypes
<1>7. CASE /\ pc[o] # "done" /\ uv[o] = "queued" /\ uv' = [uv EXCEPT ![o] = "cancelled"]
           /\ queue' = q /\ UNCHANGED <<pc, result, watch, stopped, resumed, fault>>
  <2>1. EndTypes' /\ WorkTypes'
      BY <1>1, <1>2, <1>7 DEF TypeOK, EndTypes, WorkTypes, Work
  <2>2. uv'[o] = "cancelled" /\ \A x \in Ops \ {o} : Untouched(x)
      BY <1>1, <1>2, <1>7 DEF WorkTypes, Untouched
  <2>3. OpInv(o)'
    <3>1. BeginInv(o)'
        BY <1>1, <1>2, <1>3, <1>7 DEF BeginInv, OpInv
    <3>2. PlaceInv(o)'
        BY <1>2, <1>3, <1>7 DEF PlaceInv, OpInv, Asleep
    <3>3. SleepInv(o)'
        BY <1>1, <1>2, <1>3, <1>7 DEF SleepInv, OpInv, Asleep
    <3>4. WorkInv(o)'
        BY <1>1, <1>2, <1>3, <1>7, <2>2 DEF WorkInv, OpInv
    <3> QED  BY <3>1, <3>2, <3>3, <3>4 DEF OpInv
  <2>4. Rest(queue', o)
      BY <1>1, <1>7
  <2>5. FaultsAreKnown'
      BY <1>7, NoFaultStep
  <2> QED  BY <1>1, <1>4, <1>7, <2>1, <2>2, <2>3, <2>4, <2>5, OneOpStep
<1> QED  BY <1>2, <1>5, <1>6, <1>7 DEF CancelWork, OpInv, WorkInv

\* The loop runs the function of call.
LEMMA RunCallStep ==
    ASSUME RuntimeInv, queue # <<>>, NEW o, NEW q, Head(queue)[1] = "call",
           o = Head(queue)[2], q = Tail(queue), RunCall(o, q), call' = call, shut' = shut,
           UNCHANGED sleepVars, UNCHANGED workVars
    PROVE  EndTypes' /\ SleepTypes' /\ OpsInv'
<1>1. /\ o \in Ops /\ Rest(q, o) /\ In(<<"call", o>>, queue) /\ q \in Seq(Closures)
      /\ \A c : (In(c, q) => In(c, queue)) /\ (Once(c, queue) => Once(c, q))
    BY FirstPosted DEF RuntimeInv
<1>2. /\ OpInv(o) /\ TypeOK /\ EndTypes /\ SleepTypes
      /\ due' = due /\ delay' = delay /\ completed' = completed /\ uv' = uv /\ ran' = ran
    BY <1>1 DEF RuntimeInv, OpsInv, TypeOK, sleepVars, workVars
<1>3. /\ pc' = [pc EXCEPT ![o] = "done"] /\ queue' = q
      /\ \E r \in {"ok", "threw"} : result' = [result EXCEPT ![o] = r]
      /\ UNCHANGED <<watch, stopped, resumed, fault>>
    BY DEF RunCall
<1>4. EndTypes' /\ SleepTypes'
    BY <1>1, <1>2, <1>3 DEF EndTypes, SleepTypes, Pcs, Endings
<1>5. /\ Kind(o) = "call" /\ Kind(o)' = Kind(o) /\ pc'[o] = "done"
      /\ Kind(o) \notin Timed \cup Waits \cup {"blocking", "control"}
    BY <1>1, <1>2, <1>3
    DEF OpInv, BeginInv, Kind, EndTypes, Timed, Sleeps, Periodic, Waits
<1>6. OpInv(o)'
  <2>1. BeginInv(o)'
      BY <1>1, <1>2, <1>3, <1>5 DEF BeginInv, OpInv
  <2>2. PlaceInv(o)'
      BY <1>2, <1>3, <1>5 DEF PlaceInv, OpInv, Asleep
  <2>3. SleepInv(o)'
      BY <1>1, <1>2, <1>3, <1>5 DEF SleepInv, OpInv, PlaceInv, Asleep
  <2>4. WorkInv(o)'
      BY <1>1, <1>2, <1>3, <1>5 DEF WorkInv, OpInv
  <2> QED  BY <2>1, <2>2, <2>3, <2>4 DEF OpInv
<1>7. \A x \in Ops \ {o} : Untouched(x) /\ pc'[x] = pc[x] /\ result'[x] = result[x]
    BY <1>2, <1>3 DEF Untouched, EndTypes
<1>8. Rest(queue', o) /\ FaultsAreKnown'
    BY <1>1, <1>3, NoFaultStep
<1> QED  BY <1>1, <1>3, <1>4, <1>6, <1>7, <1>8, OneOpStep

\* The loop runs the last closure of the destructor.
LEMMA RunWalkStep ==
    ASSUME RuntimeInv, queue # <<>>, NEW q, q = Tail(queue), Walk(q), call' = call,
           delay' = delay, completed' = completed, UNCHANGED workVars
    PROVE  EndTypes' /\ SleepTypes' /\ OpsInv' /\ shut' = "walked"
<1>1. q \in Seq(Closures)
      /\ \A c : (In(c, q) => In(c, queue)) /\ (Once(c, queue) => Once(c, q))
    BY FirstPosted DEF RuntimeInv
<1>2. /\ shut' = "walked" /\ due' = [o \in Ops |-> 0] /\ queue' = q
      /\ UNCHANGED <<pc, result, watch, stopped, resumed, fault>>
    BY DEF Walk
<1>3. \A x \in Ops : Untouched(x)
    BY <1>2 DEF Untouched, workVars
<1>4. EndTypes' /\ OpsInv'
    BY <1>1, <1>2, <1>3, TakenStep
<1>5. SleepTypes'
    BY <1>2 DEF RuntimeInv, TypeOK, SleepTypes
<1> QED  BY <1>2, <1>4, <1>5

\* The loop runs the first closure.
LEMMA RunPostedStep ==
    ASSUME RuntimeInv, RunPosted
    PROVE  RuntimeInv'
<1> DEFINE what == Head(queue)[1]
           o == Head(queue)[2]
           q == Tail(queue)
<1>1. TypeOK /\ queue # <<>>
    BY DEF RuntimeInv, RunPosted
<1>2. CASE what = "begin" /\ BeginOp(o, q, <<>>) /\ UNCHANGED <<call, now, shut>>
    BY <1>1, <1>2, RunBeginStep DEF Same
<1>3. CASE /\ what = "start" /\ StartTimer(o) /\ queue' = q
           /\ UNCHANGED <<call, now, pc, result, watch, stopped, resumed, fault, inline, token,
                          workVars, tickVars, timer, shut>>
  <2>1. EndTypes' /\ SleepTypes' /\ OpsInv'
      BY <1>1, <1>3, RunStartStep
  <2> QED  BY <1>1, <1>3, <2>1
           DEF RuntimeInv, TypeOK, WorkTypes, TickTypes, StartTypes, RestTypes, workVars, tickVars
<1>4. CASE /\ what = "cancel" /\ Cancel(o, q)
           /\ UNCHANGED <<call, now, inline, token, workVars, tickVars, timer, shut>>
  <2>1. EndTypes' /\ SleepTypes' /\ OpsInv'
      BY <1>1, <1>4, RunCancelStep
  <2> QED  BY <1>1, <1>4, <2>1
           DEF RuntimeInv, TypeOK, WorkTypes, TickTypes, StartTypes, RestTypes, workVars, tickVars
<1>5. CASE /\ what = "resume" /\ RunResume(o, q)
           /\ UNCHANGED <<call, now, inline, token, sleepVars, workVars, began, next, timer, shut>>
  <2>1. EndTypes' /\ SleepTypes' /\ OpsInv' /\ ticks' \in [Ops -> Int]
      BY <1>1, <1>5, RunResumeStep
  <2> QED  BY <1>1, <1>5, <2>1
           DEF RuntimeInv, TypeOK, WorkTypes, TickTypes, StartTypes, RestTypes, workVars
<1>6. CASE /\ what = "startwork" /\ StartWork(o, q)
           /\ UNCHANGED <<call, now, inline, token, sleepVars, ran, tickVars, timer, shut>>
  <2>1. EndTypes' /\ SleepTypes' /\ WorkTypes' /\ OpsInv'
      BY <1>1, <1>6, RunStartWorkStep
  <2> QED  BY <1>1, <1>6, <2>1 DEF RuntimeInv, TypeOK, TickTypes, StartTypes, RestTypes, tickVars
<1>7. CASE /\ what = "cancelwork" /\ CancelWork(o, q)
           /\ UNCHANGED <<call, now, inline, token, sleepVars, ran, tickVars, timer, shut>>
  <2>1. EndTypes' /\ SleepTypes' /\ WorkTypes' /\ OpsInv'
      BY <1>1, <1>7, RunCancelWorkStep
  <2> QED  BY <1>1, <1>7, <2>1 DEF RuntimeInv, TypeOK, TickTypes, StartTypes, RestTypes, tickVars
<1>8. CASE /\ what = "call" /\ RunCall(o, q)
           /\ UNCHANGED <<call, now, inline, token, sleepVars, workVars, tickVars, timer, shut>>
  <2>1. EndTypes' /\ SleepTypes' /\ OpsInv'
      BY <1>1, <1>8, RunCallStep
  <2> QED  BY <1>1, <1>8, <2>1
           DEF RuntimeInv, TypeOK, WorkTypes, TickTypes, StartTypes, RestTypes, workVars, tickVars
<1>9. CASE /\ what = "walk" /\ Walk(q)
           /\ UNCHANGED <<call, now, inline, token, delay, completed, workVars, tickVars, timer>>
  <2>1. EndTypes' /\ SleepTypes' /\ OpsInv' /\ shut' = "walked"
      BY <1>1, <1>9, RunWalkStep
  <2> QED  BY <1>1, <1>9, <2>1
           DEF RuntimeInv, TypeOK, WorkTypes, TickTypes, StartTypes, RestTypes, workVars, tickVars
<1> QED  BY <1>2, <1>3, <1>4, <1>5, <1>6, <1>7, <1>8, <1>9 DEF RunPosted

\* The loop goes on with a contender or a wait that was raced.
LEMMA RunInlineStep ==
    ASSUME RuntimeInv, RunInline
    PROVE  RuntimeInv'
<1> DEFINE o == Head(inline)
           rest == Tail(inline)
<1>1. TypeOK /\ inline \in Seq(Ops) /\ inline # <<>> /\ Same
    BY DEF RuntimeInv, TypeOK, StartTypes, RunInline, Same
<1>2. o \in Ops /\ rest \in Seq(Ops) /\ OpInv(o) /\ Rest(queue, o)
  <2>1. o \in Ops /\ rest \in Seq(Ops)
      BY <1>1, HeadTailProperties
  <2> QED  BY <1>1, <2>1, RestFacts DEF RuntimeInv, OpsInv
<1>3. CASE pc[o] = "new" /\ BeginOp(o, queue, rest)
  <2>1. ~In(<<"begin", o>>, queue) /\ ~Asleep(o)
      BY <1>2, <1>3 DEF OpInv, BeginInv, Asleep
  <2>2. Awake(o, queue)
      BY <1>2, <2>1, AwakeFacts
  <2>3. uv[o] = "idle" /\ ~In(<<"startwork", o>>, queue)
        /\ (Kind(o) = "blocking" => o \notin ran /\ result[o] # "cancelled")
      BY <1>2, <1>3 DEF OpInv, WorkInv
  <2>4. Fresh(o, queue)
      BY <2>2, <2>3 DEF Fresh
  <2> QED  BY <1>1, <1>2, <1>3, <2>4, BeginOpStep
<1>4. CASE /\ pc[o] = "raced" /\ Finish(o, "requested", queue) /\ inline' = rest
           /\ UNCHANGED <<token, sleepVars, workVars, tickVars, timer>>
  <2>1. /\ Kind(o) \in Waits /\ Kind(o) \notin {"blocking", "control"}
        /\ ~In(<<"begin", o>>, queue) /\ ~Asleep(o) /\ uv[o] = "idle"
      BY <1>2, <1>4 DEF OpInv, BeginInv, PlaceInv, WorkInv, Asleep, Waits
  <2>2. Awake(o, queue)
      BY <1>2, <2>1, AwakeFacts
  <2>3. /\ \A x \in Ops \ {o} : uv'[x] = uv[x] /\ (x \in ran' <=> x \in ran)
        /\ uv'[o] = "idle" /\ "requested" \in Endings
      BY <1>4, <2>1 DEF workVars, Endings
  <2>4. EndTypes' /\ SleepTypes' /\ OpsInv'
      BY <1>1, <1>2, <1>4, <2>1, <2>2, <2>3, EndStep DEF RuntimeInv, Same
  <2> QED  BY <1>1, <1>2, <1>4, <2>4
           DEF RuntimeInv, TypeOK, WorkTypes, TickTypes, StartTypes, RestTypes, workVars, tickVars, Same
<1> QED  BY <1>3, <1>4 DEF RunInline

\* A timer fires.
LEMMA FireStep ==
    ASSUME RuntimeInv, NEW o \in Ops, Fire(o)
    PROVE  RuntimeInv'
<1>1. /\ due[o] # 0 /\ completed' = completed \cup {o} /\ due' = [due EXCEPT ![o] = 0]
      /\ ResumeOnRuntime(o, queue)
      /\ UNCHANGED <<call, inline, token, delay, workVars, tickVars, timer, shut, now>>
    BY DEF Fire
<1>2. Kind(o) \in Timed /\ o \notin completed /\ Asleep(o) /\ o \notin resumed
    BY <1>1 DEF RuntimeInv, OpsInv, OpInv, SleepInv
<1>3. Rest(queue, o)
    BY RestFacts DEF RuntimeInv
<1>4. EndTypes' /\ SleepTypes' /\ OpsInv'
    BY <1>1, <1>2, <1>3, CompleteStep
<1> QED  BY <1>1, <1>4
         DEF RuntimeInv, TypeOK, WorkTypes, TickTypes, StartTypes, RestTypes, workVars, tickVars

\* The callable of a task returns.
LEMMA TickEndsStep ==
    ASSUME RuntimeInv, NEW o \in Ops, TickEnds(o)
    PROVE  RuntimeInv'
<1>1. /\ pc[o] = "ticking" /\ TypeOK /\ OpsInv
      /\ UNCHANGED <<call, inline, token, workVars, began, timer, shut, now>>
    BY DEF RuntimeInv, TickEnds
<1>2. OpInv(o) /\ Rest(queue, o)
    BY <1>1, RestFacts DEF OpsInv
<1>3. /\ Kind(o) \in Periodic /\ Kind(o) \notin {"blocking", "control"} /\ ~Asleep(o)
      /\ ~In(<<"begin", o>>, queue) /\ uv[o] = "idle"
    BY <1>1, <1>2 DEF OpInv, PlaceInv, BeginInv, WorkInv, Asleep, Periodic
<1>4. Awake(o, queue)
    BY <1>2, <1>3, AwakeFacts
<1>5. /\ EndTypes' /\ SleepTypes' /\ OpsInv'
      /\ ticks' \in [Ops -> Int] /\ next' \in [Ops -> Int]
  <2>1. CASE /\ \E r \in {"stopped", "error"} : Finish(o, r, queue)
             /\ UNCHANGED <<sleepVars, ticks, next>>
    <3>1. PICK r \in {"stopped", "error"} : Finish(o, r, queue)
        BY <2>1
    <3>2. /\ \A x \in Ops \ {o} : uv'[x] = uv[x] /\ (x \in ran' <=> x \in ran)
          /\ uv'[o] = "idle" /\ r \in Endings
        BY <1>1, <1>3 DEF workVars, Endings
    <3>3. EndTypes' /\ SleepTypes' /\ OpsInv'
        BY <1>1, <1>3, <1>4, <2>1, <3>1, <3>2, EndStep
    <3> QED  BY <1>1, <2>1, <3>3 DEF TypeOK, TickTypes
  <2>2. CASE SleepToSlot(o, next[o] + Interval(o), queue)
    <3>1. \A b \in Int : Interval(o) \in Nat \ {0}
        BY <1>1, <1>3, SlotFacts
    <3>2. next[o] \in Int
        BY <1>1 DEF TypeOK, TickTypes
    <3>3. next[o] + Interval(o) \in Int
        BY <3>1, <3>2, SMT
    <3> QED  BY <1>1, <1>3, <1>4, <2>2, <3>3, SleepToSlotStep
  <2>3. CASE SleepInterval(o, queue)
      BY <1>1, <1>3, <1>4, <2>3, SleepIntervalStep
  <2> QED  BY <2>1, <2>2, <2>3 DEF TickEnds, NextRound
<1> QED  BY <1>1, <1>5
         DEF RuntimeInv, TypeOK, WorkTypes, TickTypes, StartTypes, RestTypes, workVars

\* A step that leaves the coroutines and the queue alone.
LEMMA PoolWorkStep ==
    ASSUME RuntimeInv, NEW o \in Ops, PoolWork(o)
    PROVE  RuntimeInv'
<1>1. /\ uv[o] \in {"queued", "running"}
      /\ uv' = [uv EXCEPT ![o] = IF uv[o] = "queued" THEN "running" ELSE "finished"]
      /\ ran' = ran \cup {o}
      /\ UNCHANGED <<call, endVars, inline, token, sleepVars, tickVars, timer, shut, now>>
    BY DEF PoolWork
<1>2. OpInv(o) /\ TypeOK /\ Rest(queue', o) /\ WorkTypes
    BY <1>1, RestFacts DEF RuntimeInv, OpsInv, TypeOK, endVars
<1>3. /\ UNCHANGED <<pc, result, queue, watch, stopped, resumed, fault, due, delay, completed>>
      /\ uv'[o] \in {"running", "finished"}
      /\ Kind(o) = "blocking" /\ pc[o] = "working" /\ Kind(o)' = Kind(o)
    BY <1>1, <1>2 DEF endVars, sleepVars, WorkTypes, OpInv, WorkInv, Kind
<1>4. OpInv(o)'
  <2>1. BeginInv(o)'
      BY <1>2, <1>3 DEF BeginInv, OpInv
  <2>2. PlaceInv(o)'
      BY <1>2, <1>3 DEF PlaceInv, OpInv, Asleep
  <2>3. SleepInv(o)'
      BY <1>2, <1>3 DEF SleepInv, OpInv, Asleep
  <2>4. WorkInv(o)'
      BY <1>1, <1>2, <1>3 DEF WorkInv, OpInv
  <2> QED  BY <2>1, <2>2, <2>3, <2>4 DEF OpInv
<1>5. \A x \in Ops \ {o} : Untouched(x)
    BY <1>1, <1>2, <1>3 DEF Untouched, WorkTypes
<1>6. FaultsAreKnown'
    BY <1>1, <1>3, NoFaultStep
<1>7. OpsInv'
    BY <1>1, <1>2, <1>3, <1>4, <1>5, <1>6, OneOpStep
<1>8. WorkTypes'
    BY <1>1, <1>2 DEF WorkTypes, Work
<1> QED  BY <1>1, <1>2, <1>7, <1>8
         DEF RuntimeInv, TypeOK, EndTypes, SleepTypes, TickTypes, StartTypes, RestTypes,
             endVars, sleepVars, tickVars

\* The pool has done the work, and the coroutine goes on.
LEMMA WorkDoneStep ==
    ASSUME RuntimeInv, NEW o \in Ops, WorkDone(o)
    PROVE  RuntimeInv'
<1>1. /\ uv[o] \in {"finished", "cancelled"} /\ uv' = [uv EXCEPT ![o] = "idle"]
      /\ UNCHANGED <<call, inline, token, sleepVars, ran, tickVars, timer, shut, now>>
    BY DEF WorkDone
<1>2. PICK r \in {"cancelled", "ok", "threw"} :
          Finish(o, r, queue) /\ (r = "cancelled" => uv[o] = "cancelled")
    BY DEF WorkDone
<1>3. OpInv(o) /\ TypeOK /\ Rest(queue, o) /\ WorkTypes
    BY RestFacts DEF RuntimeInv, OpsInv, TypeOK
<1>4. /\ Kind(o) = "blocking" /\ pc[o] = "working" /\ ~Asleep(o) /\ ~In(<<"begin", o>>, queue)
    BY <1>1, <1>3 DEF OpInv, WorkInv, BeginInv, Asleep
<1>5. Awake(o, queue)
    BY <1>3, <1>4, AwakeFacts
<1>6. /\ \A x \in Ops \ {o} : uv'[x] = uv[x] /\ (x \in ran' <=> x \in ran)
      /\ uv'[o] = "idle" /\ (r = "cancelled" => o \notin ran') /\ r \in Endings
    BY <1>1, <1>2, <1>3, <1>4 DEF WorkTypes, OpInv, WorkInv, Endings
<1>7. EndTypes' /\ SleepTypes' /\ OpsInv'
    BY <1>1, <1>2, <1>3, <1>5, <1>6, EndStep DEF RuntimeInv
<1>8. WorkTypes'
    BY <1>1, <1>3 DEF WorkTypes, Work
<1> QED  BY <1>1, <1>3, <1>7, <1>8
         DEF RuntimeInv, TypeOK, TickTypes, StartTypes, RestTypes, tickVars

-----------------------------------------------------------------------------
(* What threads do                                                           *)

\* The variables of `quiet' keep their types.
LEMMA QuietTypes ==
    ASSUME RuntimeInv, quiet' = quiet, EndTypes', OpsInv',
           shut' \in {"no", "flag", "walked", "exited"}
    PROVE  RuntimeInv'
BY DEF RuntimeInv, TypeOK, SleepTypes, WorkTypes, TickTypes, StartTypes, RestTypes, quiet,
       sleepVars, workVars, tickVars

\* A thread does something of one op that does not sleep or work.
LEMMA ThreadStep ==
    ASSUME RuntimeInv, NEW o \in Ops, quiet' = quiet, Rest(queue', o), EndTypes',
           shut' = shut \/ shut' # "no",
           \A x \in Ops \ {o} : pc'[x] = pc[x] /\ result'[x] = result[x],
           watch' = watch, resumed' = resumed, FaultsAreKnown',
           shut' \in {"no", "flag", "walked", "exited"}, OpInv(o)'
    PROVE  RuntimeInv'
<1>1. call' = call /\ \A x \in Ops \ {o} : Untouched(x)
    BY DEF quiet, sleepVars, workVars, Untouched
<1>2. OpsInv'
    BY <1>1, OneOpStep
<1> QED  BY <1>2, QuietTypes

\* What holds of an op that has not begun, or whose thread goes on, and of which a
\* closure is posted.
LEMMA ThreadOp ==
    ASSUME RuntimeInv, NEW o \in Ops, quiet' = quiet, EndTypes', watch' = watch, resumed' = resumed,
           pc[o] \in {"new", "closing"}, NEW w \in {"begin", "call", "walk"},
           queue' = queue \/ queue' = Append(queue, <<w, o>>),
           w = "begin" => /\ pc[o] = "new" /\ pc'[o] \in {"spawned", "done"}
                          /\ pc'[o] = "done" => queue' = queue
                          /\ Kind(o) \notin {"call", "destroy", "cancel", "none"},
           w = "call" => Kind(o) = "call",
           pc'[o] \in {"spawned", "calling", "closing", "done"},
           result'[o] = result[o] \/ (pc'[o] = "done" /\ result'[o] # "cancelled"),
           pc'[o] = "closing" => Kind(o) = "destroy"
    PROVE  OpInv(o)' /\ Rest(queue', o)
<1>1. OpInv(o) /\ TypeOK /\ queue \in Seq(Closures) /\ w \in Whats /\ <<w, o>> \in Closures
    BY DEF RuntimeInv, OpsInv, TypeOK, EndTypes, Whats, Closures
<1>2. Rest(queue', o)
  <2>1. Rest(queue, o) /\ Rest(Append(queue, <<w, o>>), o)
      BY <1>1, RestFacts
  <2> QED  BY <2>1
<1>3. ASSUME NEW c, c # <<w, o>>
      PROVE  (In(c, queue') => In(c, queue)) /\ (Once(c, queue) => Once(c, queue'))
    BY <1>1, <1>3, PostFacts
<1>4. UNCHANGED <<due, delay, completed, uv, ran>> /\ Kind(o)' = Kind(o)
    BY DEF quiet, sleepVars, workVars, Kind
<1>5. BeginInv(o)'
  <2>1. CASE w = "begin"
    <3>1. ~In(<<"begin", o>>, queue) /\ Once(<<"begin", o>>, queue)
        BY <1>1, <2>1 DEF OpInv, BeginInv
    <3>2. Once(<<"begin", o>>, queue')
        BY <1>1, <2>1, <3>1, PostFacts
    <3>3. In(<<"begin", o>>, queue') => pc'[o] = "spawned"
        BY <2>1, <3>1
    <3> QED  BY <1>1, <1>3, <1>4, <2>1, <3>2, <3>3 DEF OpInv, BeginInv
  <2>2. CASE w # "begin"
    <3>1. ~In(<<"begin", o>>, queue)
        BY <1>1, <2>2 DEF OpInv, BeginInv, PlaceInv
    <3> QED  BY <1>1, <1>3, <1>4, <2>2, <3>1 DEF OpInv, BeginInv
  <2> QED  BY <2>1, <2>2
<1>6. PlaceInv(o)'
    BY <1>1, <1>4 DEF OpInv, PlaceInv, Asleep
<1>7. SleepInv(o)'
    BY <1>1, <1>3, <1>4 DEF OpInv, SleepInv, Asleep
<1>8. WorkInv(o)'
    BY <1>1, <1>3, <1>4 DEF OpInv, WorkInv
<1> QED  BY <1>2, <1>5, <1>6, <1>7, <1>8 DEF OpInv

\* A coroutine is spawned by another thread.
LEMMA SpawnStep ==
    ASSUME RuntimeInv, NEW o \in Ops, Spawn(o)
    PROVE  RuntimeInv'
<1>1. /\ pc[o] = "new" /\ Kind(o) \notin {"call", "destroy", "cancel", "none"}
      /\ UNCHANGED <<quiet, watch, stopped, resumed, shut, fault>>
      /\ \/ /\ queue' = Append(queue, <<"begin", o>>)
            /\ pc' = [pc EXCEPT ![o] = "spawned"] /\ result' = result
         \/ /\ pc' = [pc EXCEPT ![o] = "done"] /\ queue' = queue
            /\ result' = [result EXCEPT ![o] = "refused"]
    BY DEF Spawn, Post
<1>2. EndTypes /\ shut \in {"no", "flag", "walked", "exited"}
    BY DEF RuntimeInv, TypeOK, RestTypes
<1>3. <<"begin", o>> \in Closures /\ queue \in Seq(Closures)
    BY <1>2 DEF Closures, Whats, EndTypes
<1>4. queue' \in Seq(Closures)
    BY <1>1, <1>3, PostFacts
<1>5. EndTypes'
    BY <1>1, <1>2, <1>4 DEF EndTypes, Pcs, Endings
<1>6. /\ pc'[o] \in {"spawned", "done"} /\ (pc'[o] = "done" => queue' = queue)
      /\ result'[o] = result[o] \/ (pc'[o] = "done" /\ result'[o] # "cancelled")
      /\ \A x \in Ops \ {o} : pc'[x] = pc[x] /\ result'[x] = result[x]
    BY <1>1, <1>2 DEF EndTypes
<1>7. OpInv(o)' /\ Rest(queue', o)
    BY <1>1, <1>5, <1>6, ThreadOp
<1>8. FaultsAreKnown'
    BY <1>1, NoFaultStep DEF quiet
<1> QED  BY <1>1, <1>2, <1>5, <1>6, <1>7, <1>8, ThreadStep

\* call posts its function.
LEMMA CallStep ==
    ASSUME RuntimeInv, NEW o \in Ops, Call(o)
    PROVE  RuntimeInv'
<1>1. /\ pc[o] = "new" /\ Kind(o) = "call"
      /\ UNCHANGED <<quiet, watch, stopped, resumed, shut, fault>>
      /\ \/ /\ queue' = Append(queue, <<"call", o>>)
            /\ pc' = [pc EXCEPT ![o] = "calling"] /\ result' = result
         \/ /\ pc' = [pc EXCEPT ![o] = "done"] /\ queue' = queue
            /\ result' = [result EXCEPT ![o] = "error"]
    BY DEF Call, Post
<1>2. EndTypes /\ shut \in {"no", "flag", "walked", "exited"}
    BY DEF RuntimeInv, TypeOK, RestTypes
<1>3. <<"call", o>> \in Closures /\ queue \in Seq(Closures)
    BY <1>2 DEF Closures, Whats, EndTypes
<1>4. queue' \in Seq(Closures)
    BY <1>1, <1>3, PostFacts
<1>5. EndTypes'
    BY <1>1, <1>2, <1>4 DEF EndTypes, Pcs, Endings
<1>6. /\ pc'[o] \in {"calling", "done"}
      /\ result'[o] = result[o] \/ (pc'[o] = "done" /\ result'[o] # "cancelled")
      /\ \A x \in Ops \ {o} : pc'[x] = pc[x] /\ result'[x] = result[x]
    BY <1>1, <1>2 DEF EndTypes
<1>7. OpInv(o)' /\ Rest(queue', o)
  <2>1. "call" \in {"begin", "call", "walk"}
      OBVIOUS
  <2> QED  BY <1>1, <1>5, <1>6, <2>1, ThreadOp
<1>8. FaultsAreKnown'
    BY <1>1, NoFaultStep DEF quiet
<1> QED  BY <1>1, <1>2, <1>5, <1>6, <1>7, <1>8, ThreadStep

\* Another thread stops a token, and its own op, if any, ends or does nothing.
LEMMA CancelTimerStep ==
    ASSUME RuntimeInv, NEW o \in Ops, CancelTimer(o)
    PROVE  RuntimeInv'
<1> DEFINE tok == <<"timer", timer.source>>
<1>1. /\ pc[o] = "new" /\ Kind(o) = "cancel" /\ Stop(tok, watch, queue)
      /\ pc' = [pc EXCEPT ![o] = "done"] /\ result' = [result EXCEPT ![o] = "ok"]
      /\ quiet' = quiet /\ watch' = watch /\ shut' = shut
    BY DEF CancelTimer
<1>2. TypeOK /\ EndTypes /\ OpInv(o) /\ shut \in {"no", "flag", "walked", "exited"}
    BY DEF RuntimeInv, TypeOK, RestTypes, OpsInv
<1>3. tok \in Tokens /\ watch \in [Ops -> SUBSET Tokens] /\ queue \in Seq(Closures)
    BY <1>2 DEF Tokens, TypeOK, RestTypes, EndTypes
<1>4. /\ queue' \in Seq(Closures) /\ stopped' \subseteq Tokens
      /\ resumed' \subseteq Ops /\ fault' \in Ops \cup {None}
      /\ fault' = fault \/ shut # "no"
      /\ \A x \in Ops : Kind(x) \notin Waits \/ watch[x] = {} =>
             (x \in resumed' <=> x \in resumed)
      /\ \A x \in Ops, v \in Whats :
             /\ In(<<v, x>>, queue') =>
                   In(<<v, x>>, queue) \/ (watch[x] # {} /\ <<v, x>> = Closure(x))
             /\ Once(<<v, x>>, queue) /\ (watch[x] = {} \/ <<v, x>> # Closure(x)) =>
                   Once(<<v, x>>, queue')
    BY <1>1, <1>2, <1>3, StopEffect
<1>5. EndTypes'
    BY <1>1, <1>2, <1>4 DEF EndTypes, Pcs, Endings
<1>6. \A x \in Ops \ {o} : Told(x, queue)
    BY <1>1, <1>2, <1>4 DEF Told, EndTypes
<1>7. call' = call /\ \A x \in Ops : Untouched(x)
    BY <1>1 DEF quiet, sleepVars, workVars, Untouched
<1>8. \A x \in Ops \ {o} : OpInv(x)'
    BY <1>6, <1>7, ToldStep DEF RuntimeInv, OpsInv
<1>9. watch[o] = {} /\ pc'[o] = "done"
    BY <1>1, <1>2 DEF OpInv, PlaceInv, Asleep, Waits, EndTypes
<1>10. ASSUME NEW w \in Whats
       PROVE  /\ In(<<w, o>>, queue') => In(<<w, o>>, queue)
              /\ Once(<<w, o>>, queue) => Once(<<w, o>>, queue')
    BY <1>4, <1>9
<1>11. /\ Kind(o)' = Kind(o) /\ (o \in resumed' <=> o \in resumed)
       /\ UNCHANGED <<due, delay, completed, uv, ran>>
       /\ ~In(<<"begin", o>>, queue')
  <2>1. ~In(<<"begin", o>>, queue) /\ "begin" \in Whats
      BY <1>1, <1>2 DEF OpInv, BeginInv, Whats
  <2> QED  BY <1>1, <1>4, <1>7, <1>9, <1>10, <2>1 DEF Kind, quiet, sleepVars, workVars
<1>12. OpInv(o)'
  <2>1. BeginInv(o)'
      BY <1>2, <1>10, <1>11 DEF OpInv, BeginInv, Whats
  <2>2. PlaceInv(o)'
      BY <1>1, <1>9, <1>11 DEF PlaceInv, Asleep
  <2>3. SleepInv(o)'
      BY <1>1, <1>2, <1>9, <1>10, <1>11 DEF OpInv, SleepInv, Asleep, Whats
  <2>4. WorkInv(o)'
      BY <1>1, <1>2, <1>9, <1>10, <1>11 DEF OpInv, WorkInv, Whats
  <2> QED  BY <2>1, <2>2, <2>3, <2>4 DEF OpInv
<1>13. FaultsAreKnown'
    BY <1>1, <1>4, <1>7, NoFaultStep
<1>14. OpsInv'
    BY <1>8, <1>12, <1>13 DEF OpsInv
<1> QED  BY <1>1, <1>2, <1>5, <1>14, QuietTypes

\* Another thread stops the token of an op.
LEMMA RequestStopStep ==
    ASSUME RuntimeInv, NEW o \in Ops, RequestStop(o)
    PROVE  RuntimeInv'
<1> DEFINE tok == <<"own", o>>
<1>1. /\ Stop(tok, watch, queue) /\ UNCHANGED <<pc, result>>
      /\ quiet' = quiet /\ watch' = watch /\ shut' = shut
    BY DEF RequestStop
<1>2. TypeOK /\ EndTypes /\ shut \in {"no", "flag", "walked", "exited"}
    BY DEF RuntimeInv, TypeOK, RestTypes
<1>3. tok \in Tokens /\ watch \in [Ops -> SUBSET Tokens] /\ queue \in Seq(Closures)
    BY <1>2 DEF Tokens, EndTypes
<1>4. /\ queue' \in Seq(Closures) /\ stopped' \subseteq Tokens
      /\ resumed' \subseteq Ops /\ fault' \in Ops \cup {None}
      /\ fault' = fault \/ shut # "no"
      /\ \A x \in Ops : Kind(x) \notin Waits \/ watch[x] = {} =>
             (x \in resumed' <=> x \in resumed)
      /\ \A x \in Ops, v \in Whats :
             /\ In(<<v, x>>, queue') =>
                   In(<<v, x>>, queue) \/ (watch[x] # {} /\ <<v, x>> = Closure(x))
             /\ Once(<<v, x>>, queue) /\ (watch[x] = {} \/ <<v, x>> # Closure(x)) =>
                   Once(<<v, x>>, queue')
    BY <1>1, <1>2, <1>3, StopEffect
<1>5. EndTypes'
    BY <1>1, <1>2, <1>4 DEF EndTypes
<1>6. \A x \in Ops : Told(x, queue)
    BY <1>1, <1>4 DEF Told
<1>7. call' = call /\ \A x \in Ops : Untouched(x)
    BY <1>1 DEF quiet, sleepVars, workVars, Untouched
<1>8. \A x \in Ops : OpInv(x)'
    BY <1>6, <1>7, ToldStep DEF RuntimeInv, OpsInv
<1>9. FaultsAreKnown'
    BY <1>1, <1>4, <1>7, NoFaultStep
<1>10. OpsInv'
    BY <1>8, <1>9 DEF OpsInv
<1> QED  BY <1>1, <1>2, <1>5, <1>10, QuietTypes

\* A sleep is awaited outside the loop thread.
LEMMA OutsideSleepStep ==
    ASSUME RuntimeInv, NEW o \in Ops, OutsideSleep(o)
    PROVE  RuntimeInv'
<1>1. /\ pc[o] = "new" /\ call[o].outside
      /\ Sleep(o, ToMs(call[o].n), queue, "suspending", Finish(o, "ok", queue))
      /\ UNCHANGED <<call, inline, token, workVars, tickVars, timer, shut, now>>
    BY DEF OutsideSleep
<1>2. TypeOK /\ OpsInv /\ OpInv(o) /\ Rest(queue, o) /\ Kind(o) \in Timed
    BY <1>1, RestFacts, CallFacts DEF RuntimeInv, OpsInv, Timed, Sleeps
<1>3. ToMs(call[o].n) \in Int
  <2>1. call[o].n \in Int /\ Ms \in Nat \ {0}
      BY <1>2, CallFacts, RuntimeAssumption
  <2> QED  BY <2>1, SMT DEF ToMs
<1>4. Awake(o, queue)
  <2>1. ~In(<<"begin", o>>, queue) /\ ~Asleep(o)
      BY <1>1, <1>2 DEF OpInv, BeginInv, Asleep
  <2> QED  BY <1>2, <2>1, AwakeFacts
<1>5. EndTypes' /\ SleepTypes' /\ OpsInv'
    BY <1>1, <1>2, <1>3, <1>4, SleepStep
<1> QED  BY <1>1, <1>2, <1>5
         DEF RuntimeInv, TypeOK, WorkTypes, TickTypes, StartTypes, RestTypes, workVars, tickVars

\* Its await_suspend decides whether it suspends.
LEMMA OutsideDecidesStep ==
    ASSUME RuntimeInv, NEW o \in Ops, OutsideDecides(o)
    PROVE  RuntimeInv'
<1>1. /\ pc[o] = "suspending"
      /\ \/ fault' = o /\ pc' = pc
         \/ pc' = [pc EXCEPT ![o] = "asleep"] /\ fault' = fault
      /\ quiet' = quiet /\ UNCHANGED <<result, queue, watch, stopped, resumed, shut>>
    BY DEF OutsideDecides
<1>2. /\ EndTypes /\ OpInv(o) /\ Rest(queue', o) /\ call' = call
      /\ shut' \in {"no", "flag", "walked", "exited"}
  <2>1. Rest(queue, o)
      BY RestFacts DEF RuntimeInv
  <2> QED  BY <1>1, <2>1 DEF RuntimeInv, TypeOK, OpsInv, RestTypes, quiet
<1>3. EndTypes'
    BY <1>1, <1>2 DEF EndTypes, Pcs
<1>4. /\ pc'[o] \in {"suspending", "asleep"} /\ \A x \in Ops \ {o} : pc'[x] = pc[x]
      /\ UNCHANGED <<due, delay, completed, uv, ran>> /\ Kind(o)' = Kind(o)
      /\ Kind(o) = "sleep" /\ call[o].outside
  <2>1. Kind(o) = "sleep" /\ call[o].outside
      BY <1>1, <1>2, CallFacts DEF OpInv, PlaceInv, RuntimeInv
  <2> QED  BY <1>1, <1>2, <2>1 DEF EndTypes, quiet, sleepVars, workVars, Kind
<1>5. OpInv(o)'
  <2>1. BeginInv(o)'
      BY <1>1, <1>2, <1>4 DEF OpInv, BeginInv
  <2>2. PlaceInv(o)'
      BY <1>1, <1>2, <1>4 DEF OpInv, PlaceInv, Asleep
  <2>3. SleepInv(o)'
      BY <1>1, <1>2, <1>4 DEF OpInv, SleepInv, Asleep
  <2>4. WorkInv(o)'
      BY <1>1, <1>2, <1>4 DEF OpInv, WorkInv
  <2> QED  BY <2>1, <2>2, <2>3, <2>4 DEF OpInv
<1>6. FaultsAreKnown'
    BY <1>1, <1>2, <1>4 DEF RuntimeInv, OpsInv, FaultsAreKnown, Kind
<1> QED  BY <1>1, <1>2, <1>3, <1>4, <1>5, <1>6, ThreadStep

\* The destructor posts its last closure.
LEMMA DestroyStep ==
    ASSUME RuntimeInv, NEW o \in Ops, Destroy(o)
    PROVE  RuntimeInv'
<1>1. /\ pc[o] = "new" /\ shut' = "flag" /\ queue' = Append(queue, <<"walk", o>>)
      /\ pc' = [pc EXCEPT ![o] = "closing"] /\ Kind(o) = "destroy"
      /\ quiet' = quiet /\ UNCHANGED <<result, watch, stopped, resumed, fault>>
    BY DEF Destroy
<1>2. EndTypes /\ <<"walk", o>> \in Closures /\ queue \in Seq(Closures)
    BY DEF RuntimeInv, TypeOK, EndTypes, Closures, Whats
<1>3. EndTypes'
  <2>1. queue' \in Seq(Closures)
      BY <1>1, <1>2, PostFacts
  <2> QED  BY <1>1, <1>2, <2>1 DEF EndTypes, Pcs
<1>4. pc'[o] = "closing" /\ \A x \in Ops \ {o} : pc'[x] = pc[x]
    BY <1>1, <1>2 DEF EndTypes
<1>5. OpInv(o)' /\ Rest(queue', o)
  <2>1. "walk" \in {"begin", "call", "walk"}
      OBVIOUS
  <2> QED  BY <1>1, <1>3, <1>4, <2>1, ThreadOp
<1>6. FaultsAreKnown'
    BY <1>1 DEF FaultsAreKnown
<1> QED  BY <1>1, <1>3, <1>4, <1>5, <1>6, ThreadStep

\* The loop has nothing left and ends.
LEMMA LoopExitsStep ==
    ASSUME RuntimeInv, NEW o \in Ops, LoopExits(o)
    PROVE  RuntimeInv'
<1>1. /\ pc[o] = "closing" /\ shut' = "exited" /\ queue' = queue
      /\ pc' = [pc EXCEPT ![o] = "done"] /\ result' = [result EXCEPT ![o] = "ok"]
      /\ quiet' = quiet /\ UNCHANGED <<watch, stopped, resumed, fault>>
    BY DEF LoopExits
<1>2. EndTypes /\ Kind(o) = "destroy"
    BY <1>1 DEF RuntimeInv, TypeOK, OpsInv, OpInv, PlaceInv
<1>3. EndTypes'
    BY <1>1, <1>2 DEF EndTypes, Pcs, Endings
<1>4. /\ pc'[o] = "done" /\ result'[o] = "ok"
      /\ \A x \in Ops \ {o} : pc'[x] = pc[x] /\ result'[x] = result[x]
    BY <1>1, <1>2 DEF EndTypes
<1>5. OpInv(o)' /\ Rest(queue', o)
  <2>1. "walk" \in {"begin", "call", "walk"}
      OBVIOUS
  <2> QED  BY <1>1, <1>2, <1>3, <1>4, <2>1, ThreadOp
<1>6. FaultsAreKnown'
    BY <1>1 DEF FaultsAreKnown
<1> QED  BY <1>1, <1>3, <1>4, <1>5, <1>6, ThreadStep

-----------------------------------------------------------------------------
(* The invariant holds                                                       *)

\* Time passes, or nothing happens.
LEMMA IdleStep ==
    ASSUME RuntimeInv, now' = now \/ now' = now + 1,
           UNCHANGED <<call, endVars, inline, token, sleepVars, workVars, tickVars, timer, shut>>
    PROVE  RuntimeInv'
<1>1. UNCHANGED <<call, pc, result, queue, watch, stopped, resumed, fault, inline, token, due,
                  delay, completed, uv, ran, ticks, began, next, timer, shut>>
    BY DEF endVars, sleepVars, workVars, tickVars
<1>2. TypeOK'
  <2>1. now' \in Nat
      BY DEF RuntimeInv, TypeOK, RestTypes
  <2> QED  BY <1>1, <2>1
           DEF RuntimeInv, TypeOK, EndTypes, SleepTypes, WorkTypes, TickTypes, StartTypes, RestTypes
<1>3. \A x \in Ops : OpInv(x)'
  <2>1. \A x \in Ops : OpInv(x) /\ Told(x, queue) /\ Untouched(x)
      BY <1>1 DEF RuntimeInv, OpsInv, Told, Untouched
  <2> QED  BY <1>1, <2>1, ToldStep
<1>4. FaultsAreKnown'
    BY <1>1 DEF RuntimeInv, OpsInv, FaultsAreKnown, Kind
<1> QED  BY <1>2, <1>3, <1>4 DEF RuntimeInv, OpsInv

\* The invariant holds at the start.
LEMMA InitStep ==
    ASSUME Init
    PROVE  RuntimeInv
<1>1. call \in [Ops -> Calls] /\ call \in Scenarios
    BY RuntimeAssumption DEF Init
<1>2. ASSUME NEW o \in Ops PROVE Parent(o) \in Ops \cup {None}
    BY <1>1 DEF Parent, Calls
<1>3. token \in [Ops -> Tokens]
    BY <1>2 DEF Init, Tokens
<1>4. TypeOK
    BY <1>1, <1>3
    DEF Init, TypeOK, EndTypes, SleepTypes, WorkTypes, TickTypes, StartTypes, RestTypes,
        Pcs, Endings, Work
<1>5. \A c : ~In(c, queue)
    BY DEF Init, In
<1>6. ASSUME NEW o \in Ops PROVE OpInv(o)
  <2>1. pc[o] = "new" /\ result[o] = "none" /\ watch[o] = {} /\ due[o] = 0 /\ uv[o] = "idle"
        /\ o \notin ran /\ o \notin resumed
      BY DEF Init
  <2> QED  BY <1>5, <2>1
           DEF OpInv, BeginInv, PlaceInv, SleepInv, WorkInv, Asleep, Once, In
<1>7. FaultsAreKnown
    BY DEF Init, FaultsAreKnown
<1> QED  BY <1>4, <1>6, <1>7 DEF RuntimeInv, OpsInv

\* Types, where each coroutine is suspended, what the queue holds for it, and who
\* completes it.
THEOREM RuntimeInvariant == Spec => []RuntimeInv
<1>1. Init => RuntimeInv
    BY InitStep
<1>2. RuntimeInv /\ [Next]_vars => RuntimeInv'
  <2> SUFFICES ASSUME RuntimeInv, [Next]_vars PROVE RuntimeInv'
      OBVIOUS
  <2>1. CASE RunPosted
      BY <2>1, RunPostedStep
  <2>2. CASE RunInline
      BY <2>2, RunInlineStep
  <2>3. CASE TimePasses
      BY <2>3, IdleStep DEF TimePasses
  <2>4. ASSUME NEW o \in Ops, Fire(o) \/ TickEnds(o) \/ PoolWork(o) \/ WorkDone(o)
        PROVE  RuntimeInv'
      BY <2>4, FireStep, TickEndsStep, PoolWorkStep, WorkDoneStep
  <2>5. ASSUME NEW o \in Ops, Spawn(o) \/ Call(o) \/ CancelTimer(o) \/ RequestStop(o)
        PROVE  RuntimeInv'
      BY <2>5, SpawnStep, CallStep, CancelTimerStep, RequestStopStep
  <2>6. ASSUME NEW o \in Ops,
               OutsideSleep(o) \/ OutsideDecides(o) \/ Destroy(o) \/ LoopExits(o)
        PROVE  RuntimeInv'
      BY <2>6, OutsideSleepStep, OutsideDecidesStep, DestroyStep, LoopExitsStep
  <2>7. CASE UNCHANGED vars
      BY <2>7, IdleStep DEF vars
  <2> QED  BY <2>1, <2>2, <2>3, <2>4, <2>5, <2>6, <2>7 DEF Next
<1> QED  BY <1>1, <1>2, PTL DEF Spec

\* A coroutine is resumed only while it is suspended, and no exception leaves a
\* callback of the loop, but in the three known cases.
THEOREM FaultsKnown == Spec => []FaultsAreKnown
<1>1. RuntimeInv => FaultsAreKnown
    BY DEF RuntimeInv, OpsInv
<1> QED  BY <1>1, RuntimeInvariant, PTL

\* The function of blocking that is reported as cancelled has not been called, and
\* no worker thread has it or will have it.
THEOREM WorkIsNotRun == Spec => []CancelledWorkNeverRan
<1>1. RuntimeInv => CancelledWorkNeverRan
  <2> SUFFICES ASSUME RuntimeInv, NEW o \in Ops, Kind(o) = "blocking", result[o] = "cancelled"
               PROVE  o \notin ran /\ uv[o] \notin {"queued", "running"}
      BY DEF CancelledWorkNeverRan
  <2> QED  BY DEF RuntimeInv, OpsInv, OpInv, WorkInv
<1> QED  BY <1>1, RuntimeInvariant, PTL

-----------------------------------------------------------------------------
(* The pace of periodic tasks                                                *)

\* Cutting a time to milliseconds.
LEMMA CutFacts ==
    ASSUME NEW t \in Int
    PROVE  /\ ToMs(t) \in Int /\ ToMs(t) * Ms \in Int
           /\ ToMs(t) * Ms <= t /\ t - (Ms - 1) <= ToMs(t) * Ms
           /\ \A m \in Int : m * Ms <= t => m * Ms <= ToMs(t) * Ms
<1> DEFINE k == t \div Ms
<1>1. Ms \in Nat \ {0}
    BY RuntimeAssumption
<1>2. k \in Int /\ k * Ms \in Int /\ k * Ms <= t /\ t < k * Ms + Ms
    BY <1>1, SMT
<1>3. ASSUME NEW m \in Int, m * Ms <= t
      PROVE  m * Ms <= k * Ms
  <2> HIDE DEF k
  <2>1. CASE m <= k
      BY <1>1, <1>2, <2>1, SMT
  <2>2. CASE m >= k + 1
    <3>1. m * Ms >= (k + 1) * Ms
        BY <1>1, <1>2, <2>2, SMT
    <3>2. (k + 1) * Ms = k * Ms + Ms
        BY <1>1, <1>2, SMT
    <3>3. m * Ms \in Int
        BY <1>1, SMT
    <3> QED  BY <1>1, <1>2, <1>3, <3>1, <3>2, <3>3, SMT
  <2> QED  BY <1>2, <2>1, <2>2, SMT
<1>4. t - (Ms - 1) <= k * Ms
  <2> HIDE DEF k
  <2> QED  BY <1>1, <1>2, SMT
<1> QED  BY <1>2, <1>3, <1>4 DEF ToMs

LoopTime == ToMs(now) * Ms

\* The time that the ticks of o should have taken.
Paid(o) == (ticks[o] - (IF Kind(o) = "immediate" THEN 1 ELSE 0)) * Interval(o)

\* A task with a fixed delay counts from the time of the loop.
DelayInv(o) ==
    /\ Paid(o) <= LoopTime - began[o] + (Ms - 1)
    /\ Asleep(o) /\ o \notin completed => delay[o] * Ms = Interval(o)
    /\ due[o] # 0 => /\ \E m \in Int : due[o] = m * Ms
                     /\ Paid(o) + Interval(o) <= due[o] - began[o] + (Ms - 1)
    /\ Asleep(o) /\ o \in completed /\ token[o] \notin stopped =>
          Paid(o) + Interval(o) <= LoopTime - began[o] + (Ms - 1)

\* A task with a fixed rate sleeps to its next slot.
SlotInv(o) ==
    /\ Paid(o) <= now - began[o] + 2 * (Ms - 1)
    /\ pc[o] = "ticking" => next[o] >= began[o] + Paid(o)
    /\ Asleep(o) => next[o] >= began[o] + Paid(o) + Interval(o)
    /\ Asleep(o) /\ o \notin completed => now + delay[o] * Ms >= next[o] - (Ms - 1)
    /\ due[o] # 0 => due[o] >= next[o] - 2 * (Ms - 1)
    /\ Asleep(o) /\ o \in completed /\ token[o] \notin stopped =>
          now >= next[o] - 2 * (Ms - 1)

\* A sleep that is cancelled has been told to stop, and does not tick again.
TaskInv(o) ==
    Kind(o) \in Periodic =>
        /\ watch[o] \subseteq {token[o]}
        /\ In(<<"cancel", o>>, queue) => token[o] \in stopped
        /\ pc[o] \in {"new", "spawned"} => ticks[o] = 0
        /\ Kind(o) # "rate" => DelayInv(o)
        /\ Kind(o) = "rate" => SlotInv(o)
RateInv == \A o \in Ops : TaskInv(o)

\* A step in which the coroutine x does nothing, or is told to stop, or ends; and in
\* which its clock goes on.
Quieted(x) ==
    /\ pc'[x] \in {pc[x], "done"} \/ (pc[x] = "new" /\ pc'[x] = "spawned")
    /\ watch'[x] \subseteq watch[x] /\ stopped \subseteq stopped'
    /\ In(<<"cancel", x>>, queue') => In(<<"cancel", x>>, queue) \/ token[x] \in stopped'
Clocked(x) ==
    /\ call' = call /\ token'[x] = token[x] /\ now' \in {now, now + 1}
    /\ ticks'[x] = ticks[x] /\ began'[x] = began[x] /\ next'[x] = next[x]
    /\ delay'[x] = delay[x] /\ due'[x] \in {due[x], 0}
    /\ x \in completed' <=> x \in completed
Paced(x) == Quieted(x) /\ Clocked(x)

\* The times of a task are numbers.
LEMMA TaskTypes ==
    ASSUME TypeOK, NEW x \in Ops, Kind(x) \in Periodic
    PROVE  /\ Interval(x) \in Nat \ {0} /\ Paid(x) \in Int /\ began[x] \in Int /\ next[x] \in Int
           /\ delay[x] \in Int /\ due[x] \in Int /\ now \in Nat /\ Ms \in Nat \ {0}
           /\ ticks[x] \in Int /\ LoopTime \in Int /\ LoopTime <= now /\ now - (Ms - 1) <= LoopTime
           /\ delay[x] * Ms \in Int
<1>1. /\ began[x] \in Int /\ next[x] \in Int /\ delay[x] \in Int /\ due[x] \in Int
      /\ now \in Nat /\ ticks[x] \in Int /\ Ms \in Nat \ {0}
    BY RuntimeAssumption DEF TypeOK, TickTypes, SleepTypes, RestTypes
<1>2. 0 \in Int
    OBVIOUS
<1>3. Interval(x) \in Nat \ {0}
    BY <1>2, SlotFacts
<1>4. Paid(x) \in Int
  <2>1. \A i \in Int : (ticks[x] - i) * Interval(x) \in Int
      BY <1>1, <1>3, SMT
  <2> QED  BY <2>1 DEF Paid
<1>5. LoopTime \in Int /\ LoopTime <= now /\ now - (Ms - 1) <= LoopTime
    BY <1>1, CutFacts DEF LoopTime
<1>6. delay[x] * Ms \in Int
    BY <1>1, SMT
<1> QED  BY <1>1, <1>3, <1>4, <1>5, <1>6

\* The time of the loop does not go back.
LEMMA LoopTimeGrows ==
    ASSUME TypeOK, now' \in {now, now + 1}
    PROVE  LoopTime' \in Int /\ LoopTime' >= LoopTime
<1>1. now \in Nat /\ now' \in Nat
    BY DEF TypeOK, RestTypes
<1>2. LoopTime \in Int /\ LoopTime <= now /\ \E m \in Int : LoopTime = m * Ms
    BY <1>1, CutFacts DEF LoopTime
<1>3. LoopTime' \in Int /\ (\A m \in Int : m * Ms <= now' => m * Ms <= LoopTime')
    BY <1>1, CutFacts DEF LoopTime
<1>4. LoopTime <= now'
    BY <1>1, <1>2, SMT
<1> QED  BY <1>2, <1>3, <1>4

\* A task that does nothing itself keeps its pace.
LEMMA PacedStep ==
    ASSUME TypeOK, NEW x \in Ops, TaskInv(x), Paced(x)
    PROVE  TaskInv(x)'
<1>1. Kind(x)' = Kind(x) /\ Interval(x)' = Interval(x)
    BY DEF Paced, Clocked, Kind, Interval, ToMs
<1> SUFFICES ASSUME Kind(x) \in Periodic PROVE TaskInv(x)'
    BY <1>1 DEF TaskInv
<1>2. /\ Interval(x) \in Nat \ {0} /\ Paid(x) \in Int /\ began[x] \in Int /\ next[x] \in Int
      /\ delay[x] \in Int /\ due[x] \in Int /\ now \in Nat /\ Ms \in Nat \ {0}
      /\ LoopTime \in Int /\ LoopTime' \in Int /\ LoopTime' >= LoopTime
      /\ delay[x] * Ms \in Int /\ now' >= now /\ now' \in Nat
  <2>1. now' \in {now, now + 1}
      BY DEF Paced, Clocked
  <2> QED  BY <2>1, TaskTypes, LoopTimeGrows
<1>3. /\ Paid(x)' = Paid(x)
      /\ began'[x] = began[x] /\ next'[x] = next[x] /\ delay'[x] = delay[x]
      /\ due'[x] # 0 => due'[x] = due[x]
      /\ Asleep(x)' => Asleep(x)
      /\ pc'[x] = "ticking" => pc[x] = "ticking"
      /\ token'[x] = token[x] /\ (token[x] \notin stopped' => token[x] \notin stopped)
      /\ x \in completed' <=> x \in completed
    BY <1>1 DEF Paced, Quieted, Clocked, Asleep, Paid
<1>4. /\ watch'[x] \subseteq {token'[x]}
      /\ In(<<"cancel", x>>, queue') => token'[x] \in stopped'
      /\ pc'[x] \in {"new", "spawned"} => ticks'[x] = 0
    BY DEF Paced, Quieted, Clocked, TaskInv
<1>5. ASSUME Kind(x) # "rate" PROVE DelayInv(x)'
  <2>1. DelayInv(x)
      BY <1>5 DEF TaskInv
  <2>2. Paid(x)' <= LoopTime' - began'[x] + (Ms - 1)
      BY <1>2, <1>3, <2>1, SMT DEF DelayInv
  <2>3. Asleep(x)' /\ x \notin completed' => delay'[x] * Ms = Interval(x)'
      BY <1>1, <1>3, <2>1 DEF DelayInv
  <2>4. due'[x] # 0 => /\ \E m \in Int : due'[x] = m * Ms
                       /\ Paid(x)' + Interval(x)' <= due'[x] - began'[x] + (Ms - 1)
      BY <1>1, <1>3, <2>1 DEF DelayInv
  <2>5. ASSUME Asleep(x)', x \in completed', token'[x] \notin stopped'
        PROVE  Paid(x)' + Interval(x)' <= LoopTime' - began'[x] + (Ms - 1)
    <3>1. Paid(x) + Interval(x) <= LoopTime - began[x] + (Ms - 1)
        BY <1>3, <2>1, <2>5 DEF DelayInv
    <3> QED  BY <1>1, <1>2, <1>3, <3>1, SMT
  <2> QED  BY <2>2, <2>3, <2>4, <2>5 DEF DelayInv
<1>6. ASSUME Kind(x) = "rate" PROVE SlotInv(x)'
  <2>1. SlotInv(x)
      BY <1>6 DEF TaskInv
  <2>2. Paid(x)' <= now' - began'[x] + 2 * (Ms - 1)
      BY <1>2, <1>3, <2>1, SMT DEF SlotInv
  <2>3. ASSUME Asleep(x)', x \notin completed'
        PROVE  now' + delay'[x] * Ms >= next'[x] - (Ms - 1)
    <3>1. now + delay[x] * Ms >= next[x] - (Ms - 1)
        BY <1>3, <2>1, <2>3 DEF SlotInv
    <3> QED  BY <1>2, <1>3, <3>1, SMT
  <2>4. ASSUME Asleep(x)', x \in completed', token'[x] \notin stopped'
        PROVE  now' >= next'[x] - 2 * (Ms - 1)
    <3>1. now >= next[x] - 2 * (Ms - 1)
        BY <1>3, <2>1, <2>4 DEF SlotInv
    <3> QED  BY <1>2, <1>3, <3>1, SMT
  <2>5. /\ pc'[x] = "ticking" => next'[x] >= began'[x] + Paid(x)'
        /\ Asleep(x)' => next'[x] >= began'[x] + Paid(x)' + Interval(x)'
        /\ due'[x] # 0 => due'[x] >= next'[x] - 2 * (Ms - 1)
      BY <1>1, <1>3, <2>1 DEF SlotInv
  <2> QED  BY <2>2, <2>3, <2>4, <2>5 DEF SlotInv
<1> QED  BY <1>1, <1>4, <1>5, <1>6 DEF TaskInv

\* q has no closures that the queue does not have.
Part(q) == q \in Seq(Closures) /\ \A c : In(c, q) => In(c, queue)

\* A stop posts the cancel only of sleeps on its own token.
LEMMA StopQuiets ==
    ASSUME TypeOK, NEW tok, NEW w, NEW q \in Seq(Closures), Stop(tok, w, q),
           NEW x \in Ops, w[x] \subseteq {token[x]}
    PROVE  /\ stopped \subseteq stopped'
           /\ In(<<"cancel", x>>, queue') => In(<<"cancel", x>>, q) \/ token[x] \in stopped'
<1> DEFINE c == <<"cancel", x>>
<1>1. \/ queue' = q /\ stopped \subseteq stopped'
      \/ queue' = q \o Callbacks(tok, w) /\ stopped' = stopped \cup {tok}
    BY DEF Stop
<1>2. /\ Callbacks(tok, w) \in Seq(Closures)
      /\ In(c, Callbacks(tok, w)) => \E o \in Watchers(tok, w) : c = Closure(o)
    BY CallbacksFacts
<1>3. \A o : Closure(o)[2] = o
    BY DEF Closure
<1>4. In(c, Callbacks(tok, w)) => x \in Watchers(tok, w)
  <2> SUFFICES ASSUME NEW o \in Watchers(tok, w), c = Closure(o) PROVE x \in Watchers(tok, w)
      BY <1>2
  <2>1. c[2] = o
      BY <1>3
  <2> QED  BY <2>1
<1>5. x \in Watchers(tok, w) => tok = token[x]
    BY DEF Watchers
<1>6. In(c, q \o Callbacks(tok, w)) => In(c, q) \/ In(c, Callbacks(tok, w))
    BY <1>2, PostAllFacts
<1> QED  BY <1>1, <1>4, <1>5, <1>6

\* So does the end of a coroutine.
LEMMA FinishQuiets ==
    ASSUME TypeOK, NEW o \in Ops, NEW r, NEW q, Part(q), Finish(o, r, q),
           NEW x \in Ops, watch[x] \subseteq {token[x]}
    PROVE  Quieted(x)
<1>1. EndTypes /\ q \in Seq(Closures)
    BY DEF TypeOK, Part
<1>2. pc'[x] \in {pc[x], "done"} /\ watch' = [watch EXCEPT ![o] = {}]
    BY <1>1 DEF Finish, EndTypes
<1>3. watch'[x] \subseteq watch[x]
    BY <1>1, <1>2 DEF EndTypes
<1>4. \/ Stop(<<"cancel", Parent(o)>>, watch', q)
      \/ queue' = q /\ stopped' = stopped
    BY DEF Finish
<1>5. /\ stopped \subseteq stopped'
      /\ In(<<"cancel", x>>, queue') => In(<<"cancel", x>>, q) \/ token[x] \in stopped'
  <2>1. watch'[x] \subseteq {token[x]}
      BY <1>3
  <2>2. CASE Stop(<<"cancel", Parent(o)>>, watch', q)
      BY <1>1, <2>1, <2>2, StopQuiets
  <2> QED  BY <1>4, <2>2
<1> QED  BY <1>2, <1>3, <1>5 DEF Quieted, Part

\* A suspension of o, or what else posts closures of o only, leaves the others alone.
LEMMA OwnQuiets ==
    ASSUME TypeOK, NEW o \in Ops, NEW q, Part(q), NEW w \in Whats, NEW v \in Whats,
           \/ queue' = q
           \/ queue' = Append(q, <<w, o>>)
           \/ queue' = Append(Append(q, <<v, o>>), <<w, o>>),
           NEW x \in Ops \ {o}, pc'[x] = pc[x], watch'[x] = watch[x], stopped \subseteq stopped'
    PROVE  Quieted(x)
<1> DEFINE c == <<"cancel", x>>
<1>1. /\ q \in Seq(Closures) /\ <<w, o>> \in Closures /\ <<v, o>> \in Closures
      /\ c # <<w, o>> /\ c # <<v, o>>
    BY DEF Part, Closures
<1>2. Append(q, <<v, o>>) \in Seq(Closures) /\ (In(c, Append(q, <<v, o>>)) => In(c, q))
    BY <1>1, PostFacts
<1>3. In(c, Append(q, <<w, o>>)) => In(c, q)
    BY <1>1, PostFacts
<1>4. In(c, Append(Append(q, <<v, o>>), <<w, o>>)) => In(c, Append(q, <<v, o>>))
    BY <1>1, <1>2, PostFacts
<1>5. In(c, queue') => In(c, queue)
    BY <1>2, <1>3, <1>4 DEF Part
<1> QED  BY <1>5 DEF Quieted

\* A task that has just ended, or starts a tick, or falls asleep.
PaidInv(o) ==
    /\ Kind(o) # "rate" => Paid(o) <= LoopTime - began[o] + (Ms - 1)
    /\ Kind(o) = "rate" => Paid(o) <= now - began[o] + 2 * (Ms - 1)
\* Such a task has its pace if it has paid for its ticks.
LEMMA RestingTask ==
    ASSUME NEW o \in Ops, PaidInv(o)', due'[o] = 0, watch'[o] \subseteq {token'[o]},
           In(<<"cancel", o>>, queue') => token'[o] \in stopped',
           \/ pc'[o] = "done"
           \/ /\ pc'[o] = "ticking"
              /\ (Kind(o) = "rate")' => next'[o] >= began'[o] + Paid(o)'
           \/ /\ pc'[o] = "asleep" /\ o \notin completed'
              /\ (Kind(o) # "rate")' => delay'[o] * Ms = Interval(o)'
              /\ (Kind(o) = "rate")' => /\ next'[o] >= began'[o] + Paid(o)' + Interval(o)'
                                        /\ now' + delay'[o] * Ms >= next'[o] - (Ms - 1)
    PROVE  TaskInv(o)'
<1>1. pc'[o] \notin {"new", "spawned"}
    OBVIOUS
<1>2. (Kind(o) # "rate")' => DelayInv(o)'
    BY DEF DelayInv, PaidInv, Asleep
<1>3. (Kind(o) = "rate")' => SlotInv(o)'
    BY DEF SlotInv, PaidInv, Asleep
<1> QED  BY <1>1, <1>2, <1>3 DEF TaskInv

\* Multiplication distributes over the next number.
LEMMA Distribute ==
    ASSUME NEW a \in Int, NEW b \in Int
    PROVE  (a + 1) * b = a * b + b
BY SMT

\* A tick counts for one interval.
LEMMA TickPaid ==
    ASSUME TypeOK, NEW o \in Ops, Kind(o) \in Periodic, call' = call
    PROVE  /\ Interval(o)' = Interval(o)
           /\ ticks' = [ticks EXCEPT ![o] = @ + 1] => Paid(o)' = Paid(o) + Interval(o)
           /\ ticks' = ticks => Paid(o)' = Paid(o)
           /\ ticks[o] = 0 =>
                 Paid(o) = IF Kind(o) = "immediate" THEN -Interval(o) ELSE 0
<1> DEFINE I == Interval(o)
           i == IF Kind(o) = "immediate" THEN 1 ELSE 0
<1>1. /\ I \in Nat \ {0} /\ ticks[o] \in Int /\ ticks \in [Ops -> Int]
    BY TaskTypes DEF TypeOK, TickTypes
<1>2. Interval(o)' = I /\ Kind(o)' = Kind(o)
    BY DEF Interval, ToMs, Kind
<1>3. Paid(o) = (ticks[o] - i) * I /\ Paid(o)' = (ticks'[o] - i) * I /\ i \in {0, 1}
  <2>1. Paid(o) = (ticks[o] - i) * I
      BY DEF Paid
  <2>2. Paid(o)' = (ticks'[o] - i') * I'
      BY DEF Paid
  <2>3. i' = i /\ I' = I
      BY <1>2
  <2>4. i \in {0, 1}
      OBVIOUS
  <2> QED  BY <2>1, <2>2, <2>3, <2>4
<1> HIDE DEF I, i
<1>4. ((ticks[o] + 1) - i) * I = (ticks[o] - i) * I + I
  <2>1. ticks[o] - i \in Int /\ I \in Int /\ (ticks[o] + 1) - i = (ticks[o] - i) + 1
      BY <1>1, <1>3, SMT
  <2> QED  BY <2>1, Distribute
<1>5. ticks' = [ticks EXCEPT ![o] = @ + 1] => ticks'[o] = ticks[o] + 1
    BY <1>1
<1>6. ticks[o] = 0 => Paid(o) = IF i = 1 THEN -I ELSE 0
  <2>1. (0 - 1) * I = -I /\ (0 - 0) * I = 0
      BY <1>1, SMT
  <2>2. i = 1 /\ ticks[o] = 0 => Paid(o) = (0 - 1) * I
      BY <1>3, Zenon
  <2>3. i = 0 /\ ticks[o] = 0 => Paid(o) = (0 - 0) * I
      BY <1>3, Zenon
  <2> QED  BY <1>3, <2>1, <2>2, <2>3
<1>7. ASSUME ticks' = [ticks EXCEPT ![o] = @ + 1] PROVE Paid(o)' = Paid(o) + I
  <2>1. ticks'[o] = ticks[o] + 1
      BY <1>5, <1>7
  <2>2. Paid(o)' = ((ticks[o] + 1) - i) * I
      BY <1>3, <2>1
  <2> QED  BY <1>3, <1>4, <2>2
<1>8. ticks' = ticks => Paid(o)' = Paid(o)
    BY <1>3
<1>9. ticks[o] = 0 => Paid(o) = IF Kind(o) = "immediate" THEN -I ELSE 0
    BY <1>6 DEF i
<1> QED  BY <1>2, <1>7, <1>8, <1>9 DEF I

\* The next slot is not before its base.
LEMMA NextSlotFacts ==
    ASSUME TypeOK, NEW o \in Ops, Kind(o) \in Periodic, NEW base \in Int
    PROVE  NextSlot(o, base) >= base
<1> DEFINE I == Interval(o)
           k == (now - base) \div I
<1>1. I \in Nat \ {0} /\ now \in Nat
    BY TaskTypes
<1>2. CASE base > now
    BY <1>2 DEF NextSlot
<1>3. CASE ~(base > now)
  <2>1. k \in Nat
      BY <1>1, <1>3, SMT
  <2>2. NextSlot(o, base) = base + (k + 1) * I
      BY <1>3 DEF NextSlot
  <2> HIDE DEF k, I
  <2>3. (k + 1) * I \in Nat
      BY <1>1, <2>1, SMT
  <2> QED  BY <2>2, <2>3, SMT
<1> QED  BY <1>2, <1>3

\* A step of o, from the queue q: it ends, or pauses and posts closures of its own.
Pauses(o, q) ==
    /\ \E at \in Pcs : pc' = [pc EXCEPT ![o] = at]
    /\ \E toks \in SUBSET Tokens : watch' = [watch EXCEPT ![o] = toks]
    /\ stopped \subseteq stopped'
    /\ \E v, w \in Whats : \/ queue' = q
                           \/ queue' = Append(q, <<w, o>>)
                           \/ queue' = Append(Append(q, <<v, o>>), <<w, o>>)
Moves(o, q) == (\E r \in Endings : Finish(o, r, q)) \/ Pauses(o, q)

\* What is not a periodic task has no pace to keep.
LEMMA OtherKinds ==
    ASSUME NEW x, call' = call, Kind(x) \notin Periodic
    PROVE  TaskInv(x)'
BY DEF TaskInv, Kind

\* The step of one op leaves the tasks of the others to their pace.
LEMMA OthersPaced ==
    ASSUME TypeOK, RateInv, NEW o \in Ops, NEW q, Part(q), Moves(o, q),
           \A x \in Ops \ {o} : Clocked(x)
    PROVE  \A x \in Ops \ {o} : TaskInv(x)'
<1> SUFFICES ASSUME NEW x \in Ops \ {o} PROVE TaskInv(x)'
    OBVIOUS
<1>1. TaskInv(x) /\ Clocked(x) /\ call' = call
    BY DEF RateInv, Clocked
<1>2. CASE Kind(x) \notin Periodic
    BY <1>1, <1>2, OtherKinds
<1>3. CASE Kind(x) \in Periodic
  <2>1. watch[x] \subseteq {token[x]}
      BY <1>1, <1>3 DEF TaskInv
  <2>2. CASE \E r \in Endings : Finish(o, r, q)
      BY <2>1, <2>2, FinishQuiets, <1>1, PacedStep DEF Paced
  <2>3. CASE Pauses(o, q)
    <3>1. pc'[x] = pc[x] /\ watch'[x] = watch[x] /\ stopped \subseteq stopped'
        BY <2>3 DEF Pauses, TypeOK, EndTypes
    <3>2. Quieted(x)
        BY <2>3, <3>1, OwnQuiets DEF Pauses
    <3> QED  BY <1>1, <3>2, PacedStep DEF Paced
  <2> QED  BY <2>2, <2>3 DEF Moves
<1> QED  BY <1>2, <1>3

\* The end of o, with the clocks of all going on.
LEMMA FinishPaced ==
    ASSUME TypeOK, RateInv, NEW o \in Ops, NEW r \in Endings, NEW q, Part(q), Finish(o, r, q),
           \A x \in Ops : Clocked(x)
    PROVE  RateInv'
<1>1. \A x \in Ops \ {o} : TaskInv(x)'
    BY OthersPaced DEF Moves
<1>2. TaskInv(o)'
  <2>1. TaskInv(o) /\ Clocked(o) /\ call' = call
      BY DEF RateInv, Clocked
  <2>2. CASE Kind(o) \notin Periodic
      BY <2>1, <2>2, OtherKinds
  <2>3. CASE Kind(o) \in Periodic
    <3>1. watch[o] \subseteq {token[o]}
        BY <2>1, <2>3 DEF TaskInv
    <3> QED  BY <2>1, <3>1, FinishQuiets, PacedStep DEF Paced
  <2> QED  BY <2>2, <2>3
<1> QED  BY <1>1, <1>2 DEF RateInv

\* So do they when none of the periodic tasks moves, and when all are told something.
LEMMA AllPaced ==
    ASSUME TypeOK, RateInv, \A x \in Ops : Kind(x) \in Periodic => Paced(x), call' = call
    PROVE  RateInv'
<1> SUFFICES ASSUME NEW x \in Ops PROVE TaskInv(x)'
    BY DEF RateInv
<1>1. TaskInv(x)
    BY DEF RateInv
<1> QED  BY <1>1, PacedStep, OtherKinds

\* So does a coroutine that is no periodic task when it moves.
LEMMA MovesPaced ==
    ASSUME TypeOK, RateInv, NEW o \in Ops, Kind(o) \notin Periodic, NEW q, Part(q), Moves(o, q),
           \A x \in Ops \ {o} : Clocked(x), call' = call
    PROVE  RateInv'
<1>1. \A x \in Ops \ {o} : TaskInv(x)'
    BY OthersPaced
<1>2. TaskInv(o)'
    BY OtherKinds
<1> QED  BY <1>1, <1>2 DEF RateInv

\* sleep_for moves its own op only.
LEMMA SleepMoves ==
    ASSUME TypeOK, NEW o \in Ops, NEW ms, NEW q \in Seq(Closures), NEW at \in Pcs,
           Sleep(o, ms, q, at, FALSE) \/ Sleep(o, ms, q, at, Finish(o, "ok", q))
    PROVE  /\ Moves(o, q)
           /\ \A x \in Ops \ {o} : /\ delay'[x] = delay[x] /\ due'[x] = due[x]
                                   /\ x \in completed' <=> x \in completed
<1>1. CASE /\ \E r \in {"cancelled", "error", "ok"} : Finish(o, r, q)
           /\ UNCHANGED sleepVars
    BY <1>1 DEF Moves, Endings, sleepVars
<1>2. CASE /\ delay' = [delay EXCEPT ![o] = ms] /\ completed' = completed \ {o} /\ due' = due
           /\ \/ Suspend(o, at, {token[o]}, Append(q, <<"start", o>>))
              \/ SuspendRaced(o, at, q \o << <<"cancel", o>>, <<"start", o>> >>)
  <2>1. {token[o]} \in SUBSET Tokens /\ "start" \in Whats /\ "cancel" \in Whats
      BY DEF TypeOK, StartTypes, Whats
  <2>2. /\ <<"start", o>> \in Closures /\ <<"cancel", o>> \in Closures
        /\ q \o << <<"cancel", o>>, <<"start", o>> >> =
              Append(Append(q, <<"cancel", o>>), <<"start", o>>)
    <3>1. <<"start", o>> \in Closures /\ <<"cancel", o>> \in Closures
        BY <2>1 DEF Closures
    <3> QED  BY <3>1, PostTwo
  <2>3. Pauses(o, q)
    <3>1. CASE Suspend(o, at, {token[o]}, Append(q, <<"start", o>>))
        BY <2>1, <3>1 DEF Suspend, Pauses
    <3>2. CASE SuspendRaced(o, at, q \o << <<"cancel", o>>, <<"start", o>> >>)
        BY <2>1, <2>2, <3>2 DEF SuspendRaced, Pauses
    <3> QED  BY <1>2, <3>1, <3>2
  <2> QED  BY <1>2, <2>3 DEF Moves, TypeOK, SleepTypes
<1> QED  BY <1>1, <1>2, SleepCases

\* So do the callable of a task and its rounds.
LEMMA StartTickMoves ==
    ASSUME TypeOK, NEW o \in Ops, NEW q, StartTick(o, q)
    PROVE  Moves(o, q) /\ \A x \in Ops \ {o} : ticks'[x] = ticks[x]
<1>1. CASE Finish(o, "stopped", q) /\ UNCHANGED ticks
    BY <1>1 DEF Moves, Endings
<1>2. CASE Suspend(o, "ticking", {}, q) /\ ticks' = [ticks EXCEPT ![o] = @ + 1]
  <2>1. "ticking" \in Pcs /\ {} \in SUBSET Tokens /\ "start" \in Whats
      BY DEF Pcs, Whats
  <2>2. Pauses(o, q)
      BY <1>2, <2>1 DEF Suspend, Pauses
  <2> QED  BY <1>2, <2>2 DEF Moves, TypeOK, TickTypes
<1> QED  BY <1>1, <1>2 DEF StartTick

\* sleep_until a slot, too.
LEMMA SlotMoves ==
    ASSUME TypeOK, NEW o \in Ops, NEW base, NEW q \in Seq(Closures), SleepToSlot(o, base, q)
    PROVE  /\ Moves(o, q)
           /\ \A x \in Ops \ {o} : /\ delay'[x] = delay[x] /\ due'[x] = due[x]
                                   /\ x \in completed' <=> x \in completed
                                   /\ ticks'[x] = ticks[x] /\ next'[x] = next[x]
<1>1. \A x \in Ops \ {o} : next'[x] = next[x]
    BY DEF SleepToSlot, TypeOK, TickTypes
<1>2. CASE Sleep(o, ToMs(NextSlot(o, base) - now), q, "asleep", FALSE) /\ UNCHANGED ticks
  <2>1. "asleep" \in Pcs
      BY DEF Pcs
  <2> QED  BY <1>1, <1>2, <2>1, SleepMoves
<1>3. CASE StartTick(o, q) /\ UNCHANGED sleepVars
    BY <1>1, <1>3, StartTickMoves DEF sleepVars
<1> QED  BY <1>2, <1>3 DEF SleepToSlot

\* The sleep of a task with a fixed delay moves its own op only.
LEMMA IntervalMoves ==
    ASSUME TypeOK, NEW o \in Ops, NEW q \in Seq(Closures), SleepInterval(o, q)
    PROVE  /\ Moves(o, q)
           /\ \A x \in Ops \ {o} : /\ delay'[x] = delay[x] /\ due'[x] = due[x]
                                   /\ x \in completed' <=> x \in completed
                                   /\ ticks'[x] = ticks[x] /\ next'[x] = next[x]
<1>1. "asleep" \in Pcs /\ Sleep(o, ToMs(call[o].n), q, "asleep", FALSE) /\ UNCHANGED <<ticks, next>>
    BY DEF Pcs, SleepInterval
<1> QED  BY <1>1, SleepMoves

-----------------------------------------------------------------------------
(* The steps of a periodic task                                              *)

\* The task o is awake, and q is the queue.
Ready(o, q) ==
    /\ Kind(o) \in Periodic /\ Part(q) /\ due[o] = 0 /\ watch[o] \subseteq {token[o]}
    /\ In(<<"cancel", o>>, q) => token[o] \in stopped
Still(o) == call' = call /\ now' = now /\ token' = token

\* It ends, or its callable is called.
LEMMA OwnEnd ==
    ASSUME TypeOK, NEW o \in Ops, NEW q, Ready(o, q), NEW r, Finish(o, r, q), Still(o),
           due'[o] = 0, PaidInv(o)'
    PROVE  TaskInv(o)'
<1>1. /\ watch'[o] \subseteq watch[o] /\ stopped \subseteq stopped'
      /\ In(<<"cancel", o>>, queue') => In(<<"cancel", o>>, queue) \/ token[o] \in stopped'
    BY FinishQuiets DEF Ready, Quieted
<1>2. pc'[o] = "done" /\ watch'[o] = {}
    BY DEF Finish, TypeOK, EndTypes
<1>3. In(<<"cancel", o>>, queue') => token'[o] \in stopped'
  <2>1. \/ Stop(<<"cancel", Parent(o)>>, watch', q)
        \/ queue' = q /\ stopped' = stopped
      BY DEF Finish
  <2>2. In(<<"cancel", o>>, queue') => In(<<"cancel", o>>, q) \/ token[o] \in stopped'
    <3>1. CASE Stop(<<"cancel", Parent(o)>>, watch', q)
        BY <1>2, <3>1, StopQuiets DEF Ready, Part
    <3> QED  BY <2>1, <3>1
  <2> QED  BY <1>1, <2>2 DEF Ready, Still
<1> QED  BY <1>2, <1>3, RestingTask

\* Its callable is called.
LEMMA OwnTick ==
    ASSUME TypeOK, NEW o \in Ops, NEW q, Ready(o, q), Suspend(o, "ticking", {}, q), Still(o),
           due'[o] = 0, PaidInv(o)', (Kind(o) = "rate")' => next'[o] >= began'[o] + Paid(o)'
    PROVE  TaskInv(o)'
<1>1. /\ pc'[o] = "ticking" /\ watch'[o] = {}
      /\ In(<<"cancel", o>>, queue') => token'[o] \in stopped'
    BY DEF Suspend, Ready, Still, TypeOK, EndTypes
<1> QED  BY <1>1, RestingTask

\* It sleeps.
LEMMA OwnSleep ==
    ASSUME TypeOK, NEW o \in Ops, NEW q, Ready(o, q), NEW ms,
           Sleep(o, ms, q, "asleep", FALSE), Still(o), PaidInv(o)',
           Kind(o) # "rate" => ms * Ms = Interval(o)',
           Kind(o) = "rate" => /\ next'[o] >= began'[o] + Paid(o)' + Interval(o)'
                               /\ now + ms * Ms >= next'[o] - (Ms - 1)
    PROVE  TaskInv(o)'
<1>1. Kind(o)' = Kind(o) /\ now' = now /\ token'[o] = token[o]
    BY DEF Still, Kind
<1>2. CASE /\ \E r \in {"cancelled", "error", "ok"} : Finish(o, r, q)
           /\ UNCHANGED sleepVars
  <2>1. due'[o] = 0
      BY <1>2 DEF sleepVars, Ready
  <2> QED  BY <1>2, <2>1, OwnEnd
<1>3. CASE /\ delay' = [delay EXCEPT ![o] = ms] /\ completed' = completed \ {o} /\ due' = due
           /\ \/ Suspend(o, "asleep", {token[o]}, Append(q, <<"start", o>>))
              \/ SuspendRaced(o, "asleep", q \o << <<"cancel", o>>, <<"start", o>> >>)
  <2>1. /\ pc'[o] = "asleep" /\ watch'[o] = {token[o]} /\ delay'[o] = ms
        /\ o \notin completed' /\ due'[o] = 0
      BY <1>3 DEF Suspend, SuspendRaced, TypeOK, EndTypes, SleepTypes, Ready
  <2>2. In(<<"cancel", o>>, queue') => token'[o] \in stopped'
    <3>1. CASE Suspend(o, "asleep", {token[o]}, Append(q, <<"start", o>>))
      <4>1. q \in Seq(Closures) /\ <<"start", o>> \in Closures /\ <<"cancel", o>> # <<"start", o>>
          BY DEF Ready, Part, Closures, Whats
      <4>2. In(<<"cancel", o>>, queue') => In(<<"cancel", o>>, q)
          BY <3>1, <4>1, PostFacts DEF Suspend
      <4> QED  BY <1>1, <3>1, <4>2 DEF Suspend, Ready
    <3>2. CASE SuspendRaced(o, "asleep", q \o << <<"cancel", o>>, <<"start", o>> >>)
        BY <1>1, <3>2 DEF SuspendRaced
    <3> QED  BY <1>3, <3>1, <3>2
  <2> QED  BY <1>1, <2>1, <2>2, RestingTask
<1> QED  BY <1>2, <1>3, SleepCases

\* A tick that counts.
LEMMA TickOwn ==
    ASSUME TypeOK, NEW o \in Ops, NEW q, Ready(o, q), StartTick(o, q), Still(o), due'[o] = 0,
           ticks' = ticks => PaidInv(o)',
           ticks' = [ticks EXCEPT ![o] = @ + 1] =>
               PaidInv(o)' /\ ((Kind(o) = "rate")' => next'[o] >= began'[o] + Paid(o)')
    PROVE  TaskInv(o)'
<1>1. CASE Finish(o, "stopped", q) /\ UNCHANGED ticks
    BY <1>1, OwnEnd
<1>2. CASE Suspend(o, "ticking", {}, q) /\ ticks' = [ticks EXCEPT ![o] = @ + 1]
    BY <1>2, OwnTick
<1> QED  BY <1>1, <1>2 DEF StartTick

\* A task with a fixed delay sleeps for its interval.
LEMMA IntervalOwn ==
    ASSUME TypeOK, NEW o \in Ops, NEW q, Ready(o, q), Kind(o) # "rate", SleepInterval(o, q),
           Still(o), PaidInv(o)'
    PROVE  TaskInv(o)'
<1>1. Sleep(o, ToMs(call[o].n), q, "asleep", FALSE)
    BY DEF SleepInterval
<1>2. ToMs(call[o].n) * Ms = Interval(o)'
    BY DEF Still, Interval, ToMs
<1> QED  BY <1>1, <1>2, OwnSleep

\* A task with a fixed rate sleeps to the slot after base, or has no time to.
LEMMA SlotOwn ==
    ASSUME TypeOK, NEW o \in Ops, NEW q, Ready(o, q), Kind(o) = "rate", NEW base \in Int,
           SleepToSlot(o, base, q), Still(o), began'[o] \in Int,
           base >= began'[o] + Paid(o) + Interval(o),
           Paid(o) <= now - began'[o] + 2 * (Ms - 1)
    PROVE  TaskInv(o)'
<1> DEFINE slot == NextSlot(o, base)
           ms == ToMs(slot - now)
           I == Interval(o)
           B == began'[o]
<1>1. /\ I \in Nat \ {0} /\ Paid(o) \in Int /\ now \in Nat /\ Ms \in Nat \ {0}
      /\ B \in Int /\ slot \in Int /\ slot >= base
    BY TaskTypes, SlotFacts, NextSlotFacts DEF Ready
<1>2. ms \in Int /\ ms * Ms \in Int /\ ms * Ms >= slot - now - (Ms - 1)
  <2>1. slot - now \in Int
      BY <1>1, SMT
  <2> QED  BY <2>1, CutFacts
<1>3. /\ next'[o] = slot /\ Kind(o)' = Kind(o) /\ I' = I /\ now' = now
      /\ Interval(o)' = I
    BY DEF SleepToSlot, TypeOK, TickTypes, Still, Kind, Interval, ToMs
<1>4. /\ ticks' = [ticks EXCEPT ![o] = @ + 1] => Paid(o)' = Paid(o) + I
      /\ ticks' = ticks => Paid(o)' = Paid(o)
    BY TickPaid DEF Ready, Still
<1>5. ticks' = ticks => PaidInv(o)'
  <2>1. Paid(o) <= now - B + 2 * (Ms - 1)
      OBVIOUS
  <2> QED  BY <1>3, <1>4, <2>1 DEF PaidInv
<1>6. base >= B + Paid(o) + I
    OBVIOUS
<1> HIDE DEF slot, I, B
<1>7. CASE Sleep(o, ms, q, "asleep", FALSE) /\ UNCHANGED ticks
  <2>1. slot >= B + Paid(o) + I /\ now + ms * Ms >= slot - (Ms - 1)
    <3> HIDE DEF ms
    <3> QED  BY <1>1, <1>2, <1>6, SMT
  <2>2. next'[o] >= began'[o] + Paid(o)' + Interval(o)'
    <3>1. next'[o] >= B + Paid(o)' + I
        BY <1>3, <1>4, <1>7, <2>1
    <3> QED  BY <1>3, <3>1 DEF B
  <2> QED  BY <1>3, <1>5, <1>7, <2>1, <2>2, OwnSleep
<1>8. CASE StartTick(o, q) /\ UNCHANGED sleepVars /\ ms <= 0
  <2>1. due'[o] = 0
      BY <1>8 DEF sleepVars, Ready
  <2>2. slot - now <= Ms - 1
    <3>1. ms * Ms <= 0
      <4> HIDE DEF ms
      <4> QED  BY <1>1, <1>2, <1>8, SMT
    <3> HIDE DEF ms
    <3> QED  BY <1>1, <1>2, <3>1, SMT
  <2>3. Paid(o) + I <= now - B + 2 * (Ms - 1) /\ slot >= B + (Paid(o) + I)
      BY <1>1, <1>6, <2>2, SMT
  <2>4. ASSUME ticks' = [ticks EXCEPT ![o] = @ + 1]
        PROVE  PaidInv(o)' /\ next'[o] >= began'[o] + Paid(o)'
    <3>1. Paid(o)' = Paid(o) + I
        BY <1>4, <2>4
    <3>2. Paid(o)' <= now' - began'[o] + 2 * (Ms - 1) /\ next'[o] >= began'[o] + Paid(o)'
        BY <1>3, <2>3, <3>1 DEF B
    <3> QED  BY <1>3, <3>2 DEF PaidInv
  <2> QED  BY <1>5, <1>8, <2>1, <2>4, TickOwn
<1>9. ms > 0 \/ ms <= 0
  <2> HIDE DEF ms
  <2> QED  BY <1>2, SMT
<1>10. token[o] \in stopped /\ ms <= 0 => Sleep(o, ms, q, "asleep", FALSE) /\ UNCHANGED ticks
    BY DEF SleepToSlot, slot
<1> QED  BY <1>7, <1>8, <1>9, <1>10 DEF SleepToSlot, slot

\* A task begins.
LEMMA BeginOwn ==
    ASSUME TypeOK, NEW o \in Ops, NEW q, Ready(o, q), BeginPeriodic(o, q), Still(o), ticks[o] = 0
    PROVE  TaskInv(o)'
<1>1. /\ Interval(o) \in Nat \ {0} /\ now \in Nat /\ Ms \in Nat \ {0}
      /\ LoopTime \in Int /\ now - (Ms - 1) <= LoopTime
    BY TaskTypes DEF Ready
<1>2. /\ began'[o] = now /\ Kind(o)' = Kind(o) /\ now' = now /\ LoopTime' = LoopTime
    BY DEF BeginPeriodic, TypeOK, TickTypes, Still, Kind, LoopTime, ToMs
<1>3. /\ ticks' = [ticks EXCEPT ![o] = @ + 1] => Paid(o)' = Paid(o) + Interval(o)
      /\ ticks' = ticks => Paid(o)' = Paid(o)
      /\ Paid(o) = IF Kind(o) = "immediate" THEN -Interval(o) ELSE 0
    BY TickPaid DEF Ready, Still
<1>4. ASSUME Kind(o) # "rate", Paid(o)' <= 0, Paid(o)' \in Int PROVE PaidInv(o)'
  <2>1. Paid(o)' <= LoopTime - now + (Ms - 1)
      BY <1>1, <1>4, SMT
  <2>2. Paid(o)' <= LoopTime' - began'[o] + (Ms - 1)
      BY <1>2, <2>1
  <2> QED  BY <1>2, <1>4, <2>2 DEF PaidInv
<1>5. CASE Kind(o) = "every" /\ SleepInterval(o, q)
  <2>1. Paid(o)' = 0
      BY <1>3, <1>5 DEF SleepInterval
  <2> QED  BY <1>4, <1>5, <2>1, IntervalOwn
<1>6. CASE Kind(o) = "immediate" /\ StartTick(o, q) /\ UNCHANGED <<next, sleepVars>>
  <2>1. due'[o] = 0
      BY <1>6 DEF sleepVars, Ready
  <2>2. ticks' = [ticks EXCEPT ![o] = @ + 1] => Paid(o)' = 0
      BY <1>1, <1>3, <1>6, SMT
  <2>3. ticks' = ticks => Paid(o)' = -Interval(o) /\ -Interval(o) <= 0 /\ -Interval(o) \in Int
      BY <1>1, <1>3, <1>6, SMT
  <2>4. ticks' = ticks \/ ticks' = [ticks EXCEPT ![o] = @ + 1] => PaidInv(o)'
      BY <1>4, <1>6, <2>2, <2>3
  <2> QED  BY <1>2, <1>6, <2>1, <2>4, TickOwn
<1>7. CASE Kind(o) = "rate" /\ SleepToSlot(o, now + Interval(o), q)
  <2> DEFINE base == now + Interval(o)
  <2>1. base \in Int /\ base >= now + 0 + Interval(o) /\ 0 <= now - now + 2 * (Ms - 1)
      BY <1>1, SMT
  <2>2. Paid(o) = 0 /\ began'[o] = now
      BY <1>2, <1>3, <1>7
  <2>3. /\ base >= began'[o] + Paid(o) + Interval(o) /\ began'[o] \in Int
        /\ Paid(o) <= now - began'[o] + 2 * (Ms - 1)
      BY <1>1, <2>1, <2>2
  <2> QED  BY <1>7, <2>1, <2>3, SlotOwn
<1> QED  BY <1>5, <1>6, <1>7 DEF BeginPeriodic

\* A tick is over, and the next round begins.
LEMMA RoundOwn ==
    ASSUME TypeOK, NEW o \in Ops, NEW q, Ready(o, q), TaskInv(o), pc[o] = "ticking",
           \/ Kind(o) = "rate" /\ SleepToSlot(o, next[o] + Interval(o), q)
           \/ Kind(o) # "rate" /\ SleepInterval(o, q),
           Still(o), began' = began
    PROVE  TaskInv(o)'
<1>1. /\ Interval(o) \in Nat \ {0} /\ next[o] \in Int /\ began[o] \in Int /\ Paid(o) \in Int
      /\ began'[o] = began[o] /\ LoopTime' = LoopTime /\ Kind(o)' = Kind(o)
    BY TaskTypes DEF Ready, Still, LoopTime, ToMs, Kind
<1>2. CASE Kind(o) = "rate" /\ SleepToSlot(o, next[o] + Interval(o), q)
  <2> DEFINE base == next[o] + Interval(o)
  <2>1. next[o] >= began[o] + Paid(o) /\ Paid(o) <= now - began[o] + 2 * (Ms - 1)
      BY <1>2 DEF TaskInv, SlotInv, Ready
  <2>2. base \in Int /\ base >= began[o] + Paid(o) + Interval(o)
      BY <1>1, <2>1, SMT
  <2>3. /\ base >= began'[o] + Paid(o) + Interval(o) /\ began'[o] \in Int
        /\ Paid(o) <= now - began'[o] + 2 * (Ms - 1)
      BY <1>1, <2>1, <2>2
  <2> QED  BY <1>2, <2>2, <2>3, SlotOwn
<1>3. CASE Kind(o) # "rate" /\ SleepInterval(o, q)
  <2>1. Paid(o) <= LoopTime - began[o] + (Ms - 1)
      BY <1>3 DEF TaskInv, DelayInv, Ready
  <2>2. Paid(o)' = Paid(o)
      BY <1>3, TickPaid DEF Ready, Still, SleepInterval
  <2>3. PaidInv(o)'
      BY <1>1, <1>3, <2>1, <2>2 DEF PaidInv
  <2> QED  BY <1>3, <2>3, IntervalOwn
<1> QED  BY <1>2, <1>3

\* A sleep is over, and the callable is called.
LEMMA WakeOwn ==
    ASSUME TypeOK, NEW o \in Ops, NEW q, Ready(o, q), TaskInv(o), Asleep(o), o \in completed,
           token[o] \notin stopped, StartTick(o, q), UNCHANGED sleepVars, Still(o),
           began' = began, next' = next
    PROVE  TaskInv(o)'
<1>1. /\ Interval(o) \in Nat \ {0} /\ next[o] \in Int /\ began[o] \in Int /\ Paid(o) \in Int
      /\ now \in Nat /\ Ms \in Nat \ {0} /\ LoopTime \in Int
      /\ began'[o] = began[o] /\ LoopTime' = LoopTime /\ Kind(o)' = Kind(o)
      /\ now' = now /\ next'[o] = next[o]
    BY TaskTypes DEF Ready, Still, LoopTime, ToMs, Kind
<1>2. due'[o] = 0
    BY DEF sleepVars, Ready
<1>3. Suspend(o, "ticking", {}, q) /\ ticks' = [ticks EXCEPT ![o] = @ + 1]
    BY DEF StartTick
<1>4. Paid(o)' = Paid(o) + Interval(o)
    BY <1>3, TickPaid DEF Ready, Still
<1>5. CASE Kind(o) = "rate"
  <2>1. now >= next[o] - 2 * (Ms - 1) /\ next[o] >= began[o] + Paid(o) + Interval(o)
      BY <1>5 DEF TaskInv, SlotInv, Ready
  <2>2. /\ Paid(o) + Interval(o) <= now - began[o] + 2 * (Ms - 1)
        /\ next[o] >= began[o] + (Paid(o) + Interval(o))
      BY <1>1, <2>1, SMT
  <2>3. Paid(o)' <= now' - began'[o] + 2 * (Ms - 1) /\ next'[o] >= began'[o] + Paid(o)'
      BY <1>1, <1>4, <2>2
  <2>4. PaidInv(o)'
      BY <1>1, <1>5, <2>3 DEF PaidInv
  <2> QED  BY <1>2, <1>3, <2>3, <2>4, OwnTick
<1>6. CASE Kind(o) # "rate"
  <2>1. Paid(o) + Interval(o) <= LoopTime - began[o] + (Ms - 1)
      BY <1>6 DEF TaskInv, DelayInv, Ready
  <2>2. PaidInv(o)'
      BY <1>1, <1>4, <1>6, <2>1 DEF PaidInv
  <2> QED  BY <1>1, <1>2, <1>3, <1>6, <2>2, OwnTick
<1> QED  BY <1>5, <1>6

\* The timer of a task is started: it counts from the time of the loop.
LEMMA TimerOwn ==
    ASSUME TypeOK, NEW o \in Ops, TaskInv(o), Kind(o) \in Periodic, Asleep(o), o \notin completed,
           NEW q, Part(q), queue' = q,
           due' = [due EXCEPT ![o] = (ToMs(now) + delay[o]) * Ms], UNCHANGED <<delay, completed>>,
           Still(o), UNCHANGED <<pc, watch, stopped>>, UNCHANGED tickVars
    PROVE  TaskInv(o)'
<1> DEFINE P == Paid(o)
           I == Interval(o)
           D == delay[o] * Ms
           d == (ToMs(now) + delay[o]) * Ms
<1>1. /\ I \in Nat \ {0} /\ next[o] \in Int /\ began[o] \in Int /\ P \in Int
      /\ now \in Nat /\ Ms \in Nat \ {0} /\ LoopTime \in Int /\ D \in Int /\ delay[o] \in Int
      /\ now - (Ms - 1) <= LoopTime /\ ToMs(now) \in Int
  <2>1. now \in Int
      BY DEF TypeOK, RestTypes
  <2> QED  BY <2>1, TaskTypes, CutFacts
<1>2. /\ Kind(o)' = Kind(o) /\ P' = P /\ I' = I /\ LoopTime' = LoopTime /\ now' = now
      /\ began'[o] = began[o] /\ next'[o] = next[o] /\ delay'[o] = delay[o]
      /\ Asleep(o)' /\ pc'[o] = pc[o] /\ o \notin completed'
    BY DEF Still, Kind, Paid, Interval, LoopTime, ToMs, tickVars, Asleep
<1>3. due'[o] = d
    BY DEF TypeOK, SleepTypes
<1>4. d = LoopTime + D /\ \E m \in Int : d = m * Ms
  <2>1. \A a, b \in Int : (a + b) * Ms = a * Ms + b * Ms
      BY <1>1, SMT
  <2>2. ToMs(now) + delay[o] \in Int
      BY <1>1, SMT
  <2> QED  BY <1>1, <2>1, <2>2 DEF LoopTime
<1>5. /\ watch'[o] \subseteq {token'[o]}
      /\ In(<<"cancel", o>>, queue') => token'[o] \in stopped'
      /\ pc'[o] \notin {"new", "spawned"}
    BY DEF TaskInv, Still, Part, Asleep
<1> HIDE DEF P, I, D, d
<1>6. ASSUME Kind(o) # "rate" PROVE DelayInv(o)'
  <2>1. P <= LoopTime - began[o] + (Ms - 1) /\ D = I
      BY <1>6 DEF TaskInv, DelayInv, P, D, I
  <2>2. P + I <= d - began[o] + (Ms - 1)
      BY <1>1, <1>4, <2>1, SMT
  <2> QED  BY <1>2, <1>3, <1>4, <2>1, <2>2 DEF DelayInv, P, D, I
<1>7. ASSUME Kind(o) = "rate" PROVE SlotInv(o)'
  <2>1. /\ P <= now - began[o] + 2 * (Ms - 1) /\ next[o] >= began[o] + P + I
        /\ now + D >= next[o] - (Ms - 1)
      BY <1>7 DEF TaskInv, SlotInv, P, D, I
  <2>2. d >= next[o] - 2 * (Ms - 1)
      BY <1>1, <1>4, <2>1, SMT
  <2>3. pc'[o] # "ticking"
      BY <1>2 DEF Asleep
  <2> QED  BY <1>2, <1>3, <2>1, <2>2, <2>3 DEF SlotInv, P, D, I
<1> QED  BY <1>2, <1>5, <1>6, <1>7 DEF TaskInv

\* The sleep of a task is completed, by its timer or because it has been cancelled.
LEMMA CompleteOwn ==
    ASSUME TypeOK, NEW o \in Ops, TaskInv(o), Kind(o) \in Periodic, Asleep(o),
           token[o] \in stopped \/ (due[o] # 0 /\ now >= due[o]),
           NEW q, Part(q), completed' = completed \cup {o}, due' = [due EXCEPT ![o] = 0],
           ResumeOnRuntime(o, q), Still(o), delay' = delay, UNCHANGED tickVars
    PROVE  TaskInv(o)'
<1> DEFINE P == Paid(o)
           I == Interval(o)
<1>1. /\ I \in Nat \ {0} /\ next[o] \in Int /\ began[o] \in Int /\ P \in Int
      /\ now \in Nat /\ Ms \in Nat \ {0} /\ LoopTime \in Int /\ due[o] \in Int
    BY TaskTypes
<1>2. /\ Kind(o)' = Kind(o) /\ P' = P /\ I' = I /\ LoopTime' = LoopTime /\ now' = now
      /\ began'[o] = began[o] /\ next'[o] = next[o] /\ token'[o] = token[o]
      /\ UNCHANGED <<pc, watch, stopped>>
      /\ Asleep(o)' /\ o \in completed'
    BY DEF Still, Kind, Paid, Interval, LoopTime, ToMs, tickVars, Asleep, ResumeOnRuntime
<1>3. due'[o] = 0
    BY DEF TypeOK, SleepTypes
<1>4. In(<<"cancel", o>>, queue') => token'[o] \in stopped'
  <2>1. /\ q \in Seq(Closures) /\ <<"resume", o>> \in Closures /\ <<"cancel", o>> # <<"resume", o>>
        /\ queue' = q \/ queue' = Append(q, <<"resume", o>>)
      BY DEF Part, Closures, Whats, ResumeOnRuntime
  <2>2. In(<<"cancel", o>>, queue') => In(<<"cancel", o>>, q)
      BY <2>1, PostFacts
  <2> QED  BY <1>2, <2>2 DEF TaskInv, Part
<1>5. watch'[o] \subseteq {token'[o]} /\ pc'[o] \notin {"new", "spawned", "ticking"}
    BY <1>2 DEF TaskInv, Asleep
<1> HIDE DEF P, I
<1>6. ASSUME Kind(o) # "rate" PROVE DelayInv(o)'
  <2>1. P <= LoopTime - began[o] + (Ms - 1)
      BY <1>6 DEF TaskInv, DelayInv, P
  <2>2. ASSUME token[o] \notin stopped PROVE P + I <= LoopTime - began[o] + (Ms - 1)
    <3>1. (\E m \in Int : due[o] = m * Ms) /\ P + I <= due[o] - began[o] + (Ms - 1)
        BY <1>6, <2>2 DEF TaskInv, DelayInv, P, I
    <3>2. due[o] <= LoopTime
      <4>1. \A m \in Int : m * Ms <= now => m * Ms <= LoopTime
        <5>1. now \in Int
            BY <1>1
        <5> QED  BY <5>1, CutFacts DEF LoopTime
      <4>2. due[o] <= now
          BY <1>1, <2>2, SMT
      <4> QED  BY <3>1, <4>1, <4>2
    <3> QED  BY <1>1, <3>1, <3>2, SMT
  <2> QED  BY <1>2, <1>3, <2>1, <2>2 DEF DelayInv, P, I
<1>7. ASSUME Kind(o) = "rate" PROVE SlotInv(o)'
  <2>1. P <= now - began[o] + 2 * (Ms - 1) /\ next[o] >= began[o] + P + I
      BY <1>7 DEF TaskInv, SlotInv, P, I
  <2>2. ASSUME token[o] \notin stopped PROVE now >= next[o] - 2 * (Ms - 1)
    <3>1. due[o] >= next[o] - 2 * (Ms - 1)
        BY <1>7, <2>2 DEF TaskInv, SlotInv
    <3> QED  BY <1>1, <2>2, <3>1, SMT
  <2> QED  BY <1>2, <1>3, <1>5, <2>1, <2>2 DEF SlotInv, P, I
<1> QED  BY <1>2, <1>4, <1>5, <1>6, <1>7 DEF TaskInv

-----------------------------------------------------------------------------
(* Every step keeps the pace                                                 *)

\* A step that moves no periodic task, unless it is told to begin.
LEMMA CalmPaced ==
    ASSUME TypeOK, RateInv, NEW q, Part(q), NEW o \in Ops, NEW w \in Whats \ {"cancel"},
           queue' = q \/ queue' = Append(q, <<w, o>>),
           UNCHANGED <<call, watch, stopped, token, delay, completed>>, UNCHANGED tickVars,
           due' = due \/ due' = [x \in Ops |-> 0], now' \in {now, now + 1},
           \A x \in Ops : Kind(x) \in Periodic =>
               pc'[x] \in {pc[x], "done"} \/ (pc[x] = "new" /\ pc'[x] = "spawned")
    PROVE  RateInv'
<1>1. q \in Seq(Closures) /\ <<w, o>> \in Closures
    BY DEF Part, Closures
<1>2. ASSUME NEW x \in Ops, Kind(x) \in Periodic PROVE Paced(x)
  <2>1. <<"cancel", x>> # <<w, o>>
      OBVIOUS
  <2>2. In(<<"cancel", x>>, queue') => In(<<"cancel", x>>, queue)
      BY <1>1, <2>1, PostFacts DEF Part
  <2>3. Quieted(x)
      BY <1>2, <2>2 DEF Quieted
  <2>4. Clocked(x)
      BY DEF Clocked, tickVars
  <2> QED  BY <2>3, <2>4 DEF Paced
<1> QED  BY <1>2, AllPaced

\* A stop by another thread.
LEMMA StopPaced ==
    ASSUME TypeOK, RateInv, NEW tok, Stop(tok, watch, queue), quiet' = quiet, watch' = watch,
           \A x \in Ops : Kind(x) \in Periodic => pc'[x] = pc[x]
    PROVE  RateInv'
<1>1. queue \in Seq(Closures)
    BY DEF TypeOK, EndTypes
<1>2. ASSUME NEW x \in Ops, Kind(x) \in Periodic PROVE Paced(x)
  <2>1. watch[x] \subseteq {token[x]}
      BY <1>2 DEF RateInv, TaskInv
  <2>2. /\ stopped \subseteq stopped'
        /\ In(<<"cancel", x>>, queue') => In(<<"cancel", x>>, queue) \/ token[x] \in stopped'
      BY <1>1, <2>1, StopQuiets
  <2> QED  BY <1>2, <2>2 DEF Paced, Quieted, Clocked, quiet, sleepVars, tickVars
<1> QED  BY <1>2, AllPaced DEF quiet

\* The queue, and the queue without its first closure.
LEMMA PartFacts ==
    ASSUME TypeOK
    PROVE  Part(queue) /\ (queue # <<>> => Part(Tail(queue)))
<1>1. queue \in Seq(Closures)
    BY DEF TypeOK, EndTypes
<1>2. ASSUME queue # <<>> PROVE Part(Tail(queue))
  <2>1. Tail(queue) \in Seq(Closures)
      BY <1>1, <1>2, TakeFacts
  <2>2. ASSUME NEW c PROVE In(c, Tail(queue)) => In(c, queue)
      BY <1>1, <1>2, TakeFacts
  <2> QED  BY <2>1, <2>2 DEF Part
<1> QED  BY <1>1, <1>2 DEF Part

\* The first steps of a coroutine are its own.
LEMMA BeginMoves ==
    ASSUME TypeOK, NEW o \in Ops, NEW q, Part(q), NEW rest, BeginOp(o, q, rest), Same
    PROVE  Moves(o, q) /\ \A x \in Ops \ {o} : Clocked(x)
<1>1. q \in Seq(Closures) /\ call' = call /\ now' = now /\ "asleep" \in Pcs /\ "start" \in Whats
      /\ {token[o]} \in SUBSET Tokens
    BY DEF Part, Same, Pcs, Whats, TypeOK, StartTypes
<1>2. CASE BeginSleep(o, q)
  <2>1. UNCHANGED <<token, workVars, tickVars, timer>>
      BY <1>2 DEF BeginSleep
  <2>2. CASE \E ms : Sleep(o, ms, q, "asleep", Finish(o, "ok", q))
      BY <1>1, <2>1, <2>2, SleepMoves DEF Clocked, tickVars
  <2>3. CASE Finish(o, "ok", q) /\ UNCHANGED sleepVars
    <3>1. Moves(o, q)
        BY <2>3 DEF Moves, Endings
    <3> QED  BY <1>1, <2>1, <2>3, <3>1 DEF Clocked, tickVars, sleepVars
  <2> QED  BY <1>2, <2>2, <2>3 DEF BeginSleep, SleepUntil
<1>3. CASE BeginPeriodic(o, q)
  <2>1. token' = token /\ \A x \in Ops \ {o} : began'[x] = began[x]
      BY <1>3 DEF BeginPeriodic, TypeOK, TickTypes
  <2>2. CASE SleepInterval(o, q)
      BY <1>1, <2>1, <2>2, IntervalMoves DEF Clocked
  <2>3. CASE StartTick(o, q) /\ UNCHANGED <<next, sleepVars>>
      BY <1>1, <2>1, <2>3, StartTickMoves DEF Clocked, sleepVars
  <2>4. CASE SleepToSlot(o, now + Interval(o), q)
      BY <1>1, <2>1, <2>4, SlotMoves DEF Clocked
  <2> QED  BY <1>3, <2>2, <2>3, <2>4 DEF BeginPeriodic
<1>4. CASE BeginWait(o, q, rest) /\ Kind(o) \in Waits
  <2>1. UNCHANGED <<token, sleepVars, tickVars>>
      BY <1>4 DEF BeginWait
  <2>2. Moves(o, q)
    <3>1. WaitTokens(o) \in SUBSET Tokens /\ "waiting" \in Pcs /\ "raced" \in Pcs /\ "resume" \in Whats
          /\ "requested" \in Endings
        BY <1>1, <1>4, CallFacts DEF WaitTokens, Waits, Tokens, Pcs, Whats, Endings
    <3>2. CASE Finish(o, "requested", q)
        BY <3>1, <3>2 DEF Moves
    <3>3. CASE Suspend(o, "waiting", WaitTokens(o), q)
        BY <3>1, <3>3 DEF Moves, Pauses, Suspend
    <3>4. CASE /\ pc' = [pc EXCEPT ![o] = "raced"] /\ watch' = watch
               /\ queue' = Append(q, <<"resume", o>>) /\ stopped \subseteq stopped'
      <4>1. watch[o] \in SUBSET Tokens /\ watch' = [watch EXCEPT ![o] = watch[o]]
          BY <3>4 DEF TypeOK, EndTypes
      <4> QED  BY <3>1, <3>4, <4>1 DEF Moves, Pauses
    <3> QED  BY <1>4, <3>2, <3>3, <3>4 DEF BeginWait
  <2> QED  BY <1>1, <2>1, <2>2 DEF Clocked, sleepVars, tickVars
<1>5. CASE BeginBlocking(o, q)
  <2>1. UNCHANGED <<token, sleepVars, tickVars>>
      BY <1>5 DEF BeginBlocking
  <2>2. Moves(o, q)
    <3>1. /\ "working" \in Pcs /\ "cancelwork" \in Whats /\ "startwork" \in Whats
          /\ "cancelled" \in Endings /\ "error" \in Endings
          /\ q \o << <<"cancelwork", o>>, <<"startwork", o>> >> =
                 Append(Append(q, <<"cancelwork", o>>), <<"startwork", o>>)
      <4>1. <<"cancelwork", o>> \in Closures /\ <<"startwork", o>> \in Closures
          BY DEF Closures, Whats
      <4> QED  BY <1>1, <4>1, PostTwo DEF Pcs, Whats, Endings
    <3>2. CASE Finish(o, "cancelled", q) \/ Finish(o, "error", q)
        BY <3>1, <3>2 DEF Moves
    <3>3. CASE Suspend(o, "working", {token[o]}, Append(q, <<"startwork", o>>))
        BY <1>1, <3>1, <3>3 DEF Moves, Pauses, Suspend
    <3>4. CASE SuspendRaced(o, "working", q \o << <<"cancelwork", o>>, <<"startwork", o>> >>)
        BY <1>1, <3>1, <3>4 DEF Moves, Pauses, SuspendRaced
    <3> QED  BY <1>5, <3>2, <3>3, <3>4 DEF BeginBlocking
  <2> QED  BY <1>1, <2>1, <2>2 DEF Clocked, sleepVars, tickVars
<1>6. CASE BeginControl(o, q, rest)
  <2>1. UNCHANGED <<token, sleepVars, tickVars>>
      BY <1>6 DEF BeginControl
  <2>2. CASE Finish(o, "cancelled", q) \/ Finish(o, "timeout", q)
      BY <1>1, <2>1, <2>2 DEF Moves, Endings, Clocked, sleepVars, tickVars
  <2>3. CASE Suspend(o, "controlling", {}, q)
    <3>1. "controlling" \in Pcs /\ {} \in SUBSET Tokens
        BY DEF Pcs
    <3>2. Moves(o, q)
        BY <1>1, <2>3, <3>1 DEF Moves, Pauses, Suspend
    <3> QED  BY <1>1, <2>1, <3>2 DEF Clocked, sleepVars, tickVars
  <2> QED  BY <1>6, <2>2, <2>3 DEF BeginControl
<1>7. CASE BeginTimerWait(o, q)
  <2> DEFINE tok == <<"timer", timer.source>>
             ms == ToMs(timer.expiry - now)
  <2>1. tickVars' = tickVars /\ \A x \in Ops \ {o} : token'[x] = token[x]
      BY <1>7 DEF BeginTimerWait, TypeOK, StartTypes
  <2>2. CASE UNCHANGED sleepVars /\ \E r \in {"cancelled", "ok", "error"} : Finish(o, r, q)
      BY <1>1, <2>1, <2>2 DEF Moves, Endings, Clocked, sleepVars, tickVars
  <2>3. CASE /\ delay' = [delay EXCEPT ![o] = ms] /\ completed' = completed \ {o}
             /\ due' = due /\ Suspend(o, "asleep", {tok}, Append(q, <<"start", o>>))
    <3>1. {tok} \in SUBSET Tokens
        BY DEF TypeOK, RestTypes, Tokens
    <3>2. Moves(o, q)
        BY <1>1, <2>3, <3>1 DEF Moves, Pauses, Suspend
    <3> QED  BY <1>1, <2>1, <2>3, <3>2 DEF Clocked, tickVars, TypeOK, SleepTypes
  <2> QED  BY <1>7, <2>2, <2>3 DEF BeginTimerWait
<1>8. CASE Arm(o, q)
    BY <1>1, <1>8 DEF Arm, Moves, Endings, Clocked, sleepVars, tickVars
<1> QED  BY <1>2, <1>3, <1>4, <1>5, <1>6, <1>7, <1>8 DEF BeginOp

\* A coroutine begins that has not run.
LEMMA BeginPaced ==
    ASSUME RuntimeInv, RateInv, NEW o \in Ops, NEW q, Part(q), NEW rest, BeginOp(o, q, rest), Same,
           Kind(o) \in Periodic => pc[o] \in {"new", "spawned"}
    PROVE  RateInv'
<1>1. TypeOK /\ OpInv(o) /\ TaskInv(o) /\ call' = call /\ now' = now
    BY DEF RuntimeInv, OpsInv, RateInv, Same
<1>2. \A x \in Ops \ {o} : TaskInv(x)'
    BY <1>1, BeginMoves, OthersPaced
<1>3. CASE Kind(o) \notin Periodic
    BY <1>1, <1>2, <1>3, OtherKinds DEF RateInv
<1>4. CASE Kind(o) \in Periodic
  <2>1. BeginPeriodic(o, q)
      BY <1>4 DEF BeginOp, Periodic, Waits, BeginSleep
  <2>2. Ready(o, q) /\ ticks[o] = 0
      BY <1>1, <1>4 DEF Ready, TaskInv, Part, OpInv, SleepInv, Asleep
  <2>3. Still(o)
      BY <1>1, <2>1 DEF Still, BeginPeriodic
  <2>4. TaskInv(o)'
      BY <1>1, <2>1, <2>2, <2>3, BeginOwn
  <2> QED  BY <1>2, <2>4 DEF RateInv
<1> QED  BY <1>3, <1>4

\* The closures of a sleep.
LEMMA StartPaced ==
    ASSUME RuntimeInv, RateInv, queue # <<>>, NEW o, NEW q, Head(queue)[1] = "start",
           o = Head(queue)[2], q = Tail(queue), StartTimer(o), queue' = q,
           UNCHANGED <<call, now, token, pc, watch, stopped>>, UNCHANGED tickVars
    PROVE  RateInv'
<1>1. TypeOK /\ o \in Ops /\ In(<<"start", o>>, queue) /\ Part(q)
    BY FirstPosted, PartFacts DEF RuntimeInv
<1>2. /\ due' = IF o \in completed THEN due ELSE [due EXCEPT ![o] = (ToMs(now) + delay[o]) * Ms]
      /\ UNCHANGED <<delay, completed>> /\ "start" \in Whats \ {"cancel"}
    BY DEF StartTimer, Whats
<1>3. CASE o \in completed
    BY <1>1, <1>2, <1>3, CalmPaced
<1>4. CASE o \notin completed
  <2>1. \A x \in Ops \ {o} : Clocked(x)
      BY <1>1, <1>2, <1>4 DEF Clocked, tickVars, TypeOK, SleepTypes
  <2>2. Moves(o, q)
    <3>1. /\ pc[o] \in Pcs /\ pc' = [pc EXCEPT ![o] = pc[o]]
          /\ watch[o] \in SUBSET Tokens /\ watch' = [watch EXCEPT ![o] = watch[o]]
        BY <1>1 DEF TypeOK, EndTypes
    <3> QED  BY <1>2, <3>1 DEF Moves, Pauses
  <2>3. CASE Kind(o) \notin Periodic
      BY <1>1, <2>1, <2>2, <2>3, MovesPaced
  <2>4. CASE Kind(o) \in Periodic
    <3>1. TaskInv(o) /\ Asleep(o)
        BY <1>1, <1>4 DEF RateInv, RuntimeInv, OpsInv, OpInv, SleepInv
    <3>2. TaskInv(o)'
        BY <1>1, <1>2, <1>4, <2>4, <3>1, TimerOwn DEF Still
    <3> QED  BY <1>1, <2>1, <2>2, <3>2, OthersPaced DEF RateInv
  <2> QED  BY <2>3, <2>4
<1> QED  BY <1>3, <1>4

\* The sleep of o is completed.
LEMMA CompletePaced ==
    ASSUME RuntimeInv, RateInv, NEW o \in Ops, NEW q, Part(q), Asleep(o),
           Kind(o) \in Periodic => token[o] \in stopped \/ (due[o] # 0 /\ now >= due[o]),
           completed' = completed \cup {o}, due' = [due EXCEPT ![o] = 0],
           ResumeOnRuntime(o, q), Still(o), delay' = delay, UNCHANGED tickVars
    PROVE  RateInv'
<1>1. TypeOK /\ TaskInv(o) /\ "resume" \in Whats /\ call' = call
    BY DEF RuntimeInv, RateInv, Whats, Still
<1>2. \A x \in Ops \ {o} : Clocked(x)
    BY <1>1 DEF Clocked, tickVars, TypeOK, SleepTypes, Still
<1>3. Moves(o, q)
  <2>1. /\ pc[o] \in Pcs /\ pc' = [pc EXCEPT ![o] = pc[o]]
        /\ watch[o] \in SUBSET Tokens /\ watch' = [watch EXCEPT ![o] = watch[o]]
      BY <1>1 DEF TypeOK, EndTypes, ResumeOnRuntime
  <2>2. stopped' = stopped /\ (queue' = q \/ queue' = Append(q, <<"resume", o>>))
      BY DEF ResumeOnRuntime
  <2> QED  BY <1>1, <2>1, <2>2 DEF Moves, Pauses
<1>4. CASE Kind(o) \notin Periodic
    BY <1>1, <1>2, <1>3, <1>4, MovesPaced
<1>5. CASE Kind(o) \in Periodic
  <2>1. TaskInv(o)'
      BY <1>1, <1>5, CompleteOwn
  <2> QED  BY <1>1, <1>2, <1>3, <2>1, OthersPaced DEF RateInv
<1> QED  BY <1>4, <1>5

\* The cancel of a sleep keeps the pace.
LEMMA CancelPaced ==
    ASSUME RuntimeInv, RateInv, queue # <<>>, NEW o, NEW q, Head(queue)[1] = "cancel",
           o = Head(queue)[2], q = Tail(queue), Cancel(o, q), Still(o), UNCHANGED tickVars
    PROVE  RateInv'
<1>1. TypeOK /\ o \in Ops /\ In(<<"cancel", o>>, queue) /\ Part(q)
    BY FirstPosted, PartFacts DEF RuntimeInv
<1>2. CASE o \in completed
  <2>1. /\ queue' = q /\ UNCHANGED <<call, watch, stopped, token, delay, completed, due, pc, now>>
        /\ "start" \in Whats \ {"cancel"}
      BY <1>2 DEF Cancel, Still, sleepVars, Whats
  <2> QED  BY <1>1, <2>1, CalmPaced
<1>3. CASE o \notin completed
  <2>1. Asleep(o) /\ (Kind(o) \in Periodic => token[o] \in stopped)
      BY <1>1, <1>3 DEF RuntimeInv, OpsInv, OpInv, SleepInv, RateInv, TaskInv
  <2> QED  BY <1>1, <1>3, <2>1, CompletePaced DEF Cancel
<1> QED  BY <1>2, <1>3

\* So does the resumption of a coroutine.
LEMMA ResumePaced ==
    ASSUME RuntimeInv, RateInv, queue # <<>>, NEW o, NEW q, Head(queue)[1] = "resume",
           o = Head(queue)[2], q = Tail(queue), RunResume(o, q), Still(o),
           UNCHANGED sleepVars, UNCHANGED <<began, next>>
    PROVE  RateInv'
<1>1. TypeOK /\ o \in Ops /\ In(<<"resume", o>>, queue) /\ Part(q) /\ OpInv(o) /\ TaskInv(o)
    BY FirstPosted, PartFacts DEF RuntimeInv, OpsInv, RateInv
<1>2. CASE ticks' = ticks /\ \E r \in {"requested", "cancelled", "ok"} : Finish(o, r, q)
  <2>1. PICK r \in {"requested", "cancelled", "ok"} : Finish(o, r, q)
      BY <1>2
  <2>2. r \in Endings /\ \A x \in Ops : Clocked(x)
      BY <1>2 DEF Endings, Clocked, Still, sleepVars
  <2> QED  BY <1>1, <2>1, <2>2, FinishPaced
<1>3. CASE ticks' = ticks /\ queue' = q /\ UNCHANGED <<pc, watch, stopped>>
  <2>1. "start" \in Whats \ {"cancel"} /\ UNCHANGED tickVars
        /\ UNCHANGED <<call, token, now, due, delay, completed>>
      BY <1>3 DEF Whats, tickVars, Still, sleepVars
  <2> QED  BY <1>1, <1>3, <2>1, CalmPaced
<1>4. CASE /\ pc[o] = "asleep" /\ token[o] \notin stopped /\ Kind(o) \in Periodic
           /\ StartTick(o, q)
  <2>1. Asleep(o) /\ o \in completed /\ due[o] = 0
    <3>1. Kind(o) \notin Waits
        BY <1>4 DEF Periodic, Waits
    <3> QED  BY <1>1, <3>1 DEF OpInv, SleepInv
  <2>2. Ready(o, q)
      BY <1>1, <1>4, <2>1 DEF Ready, TaskInv, Part
  <2>3. TaskInv(o)'
      BY <1>1, <1>4, <2>1, <2>2, WakeOwn
  <2>4. Moves(o, q) /\ \A x \in Ops \ {o} : Clocked(x)
      BY <1>1, <1>4, StartTickMoves DEF Clocked, Still, sleepVars
  <2> QED  BY <1>1, <2>3, <2>4, OthersPaced DEF RateInv
<1> QED  BY <1>2, <1>3, <1>4 DEF RunResume

\* The closures of blocking, of call and of the destructor.
LEMMA RestPaced ==
    ASSUME RuntimeInv, RateInv, queue # <<>>, NEW o, NEW q, o = Head(queue)[2], q = Tail(queue),
           \/ Head(queue)[1] = "startwork" /\ StartWork(o, q) /\ UNCHANGED sleepVars
           \/ Head(queue)[1] = "cancelwork" /\ CancelWork(o, q) /\ UNCHANGED sleepVars
           \/ Head(queue)[1] = "call" /\ RunCall(o, q) /\ UNCHANGED sleepVars
           \/ Head(queue)[1] = "walk" /\ Walk(q) /\ UNCHANGED <<delay, completed>>,
           Still(o), UNCHANGED tickVars
    PROVE  RateInv'
<1>1. TypeOK /\ o \in Ops /\ Part(q) /\ "start" \in Whats \ {"cancel"}
    BY FirstPosted, PartFacts DEF RuntimeInv, Whats
<1>2. CASE UNCHANGED sleepVars /\ \E r \in {"error", "cancelled"} : Finish(o, r, q)
  <2>1. PICK r \in {"error", "cancelled"} : Finish(o, r, q)
      BY <1>2
  <2>2. r \in Endings /\ \A x \in Ops : Clocked(x)
      BY <1>2 DEF Endings, Clocked, Still, sleepVars, tickVars
  <2> QED  BY <1>1, <2>1, <2>2, FinishPaced
<1>3. CASE /\ queue' = q /\ UNCHANGED <<watch, stopped, delay, completed>>
           /\ due' = due \/ due' = [x \in Ops |-> 0]
           /\ pc' = pc \/ pc' = [pc EXCEPT ![o] = "done"]
  <2>1. \A x \in Ops : pc'[x] \in {pc[x], "done"}
      BY <1>1, <1>3 DEF TypeOK, EndTypes
  <2> QED  BY <1>1, <1>3, <2>1, CalmPaced DEF Still
<1> QED  BY <1>2, <1>3 DEF StartWork, CancelWork, RunCall, Walk, sleepVars

\* So does whatever closure the loop runs.
LEMMA RunPostedPaced ==
    ASSUME RuntimeInv, RateInv, RunPosted
    PROVE  RateInv'
<1> DEFINE what == Head(queue)[1]
           o == Head(queue)[2]
           q == Tail(queue)
<1>1. TypeOK /\ queue # <<>> /\ o \in Ops /\ Part(q) /\ In(<<what, o>>, queue)
    BY FirstPosted, PartFacts DEF RuntimeInv, RunPosted
<1>2. CASE what = "begin" /\ BeginOp(o, q, <<>>) /\ UNCHANGED <<call, now, shut>>
  <2>1. Kind(o) \in Periodic => pc[o] \in {"new", "spawned"}
      BY <1>1, <1>2 DEF RuntimeInv, OpsInv, OpInv, BeginInv, Periodic
  <2> QED  BY <1>1, <1>2, <2>1, BeginPaced DEF Same
<1>3. CASE /\ what = "start" /\ StartTimer(o) /\ queue' = q
           /\ UNCHANGED <<call, now, pc, watch, stopped, token, tickVars>>
    BY <1>1, <1>3, StartPaced
<1>4. CASE what = "cancel" /\ Cancel(o, q) /\ UNCHANGED <<call, now, token, tickVars>>
    BY <1>1, <1>4, CancelPaced DEF Still
<1>5. CASE /\ what = "resume" /\ RunResume(o, q)
           /\ UNCHANGED <<call, now, token, sleepVars, began, next>>
    BY <1>1, <1>5, ResumePaced DEF Still
<1>6. CASE /\ \/ what = "startwork" /\ StartWork(o, q) /\ UNCHANGED sleepVars
              \/ what = "cancelwork" /\ CancelWork(o, q) /\ UNCHANGED sleepVars
              \/ what = "call" /\ RunCall(o, q) /\ UNCHANGED sleepVars
              \/ what = "walk" /\ Walk(q) /\ UNCHANGED <<delay, completed>>
           /\ UNCHANGED <<call, now, token, tickVars>>
    BY <1>1, <1>6, RestPaced DEF Still
<1> QED  BY <1>2, <1>3, <1>4, <1>5, <1>6 DEF RunPosted

\* So does a contender.
LEMMA RunInlinePaced ==
    ASSUME RuntimeInv, RateInv, RunInline
    PROVE  RateInv'
<1> DEFINE o == Head(inline)
<1>1. TypeOK /\ inline \in Seq(Ops) /\ inline # <<>> /\ Same /\ Part(queue)
    BY PartFacts DEF RuntimeInv, TypeOK, StartTypes, RunInline, Same
<1>2. o \in Ops
    BY <1>1, HeadTailProperties
<1>3. CASE pc[o] = "new" /\ BeginOp(o, queue, Tail(inline))
    BY <1>1, <1>2, <1>3, BeginPaced
<1>4. CASE Finish(o, "requested", queue) /\ UNCHANGED <<token, sleepVars, tickVars>>
  <2>1. "requested" \in Endings /\ \A x \in Ops : Clocked(x)
      BY <1>1, <1>4 DEF Endings, Clocked, sleepVars, tickVars, Same
  <2> QED  BY <1>1, <1>2, <1>4, <2>1, FinishPaced
<1> QED  BY <1>3, <1>4 DEF RunInline

\* So does the end of a tick.
LEMMA TickEndsPaced ==
    ASSUME RuntimeInv, RateInv, NEW o \in Ops, TickEnds(o)
    PROVE  RateInv'
<1>1. /\ pc[o] = "ticking" /\ TypeOK /\ OpInv(o) /\ TaskInv(o) /\ Part(queue)
      /\ UNCHANGED <<call, token, began, now>> /\ queue \in Seq(Closures)
    BY PartFacts DEF RuntimeInv, OpsInv, RateInv, TickEnds, Part
<1>2. CASE /\ \E r \in {"stopped", "error"} : Finish(o, r, queue)
           /\ UNCHANGED <<sleepVars, ticks, next>>
  <2>1. PICK r \in {"stopped", "error"} : Finish(o, r, queue)
      BY <1>2
  <2>2. r \in Endings /\ \A x \in Ops : Clocked(x)
      BY <1>1, <1>2 DEF Endings, Clocked, sleepVars
  <2> QED  BY <1>1, <2>1, <2>2, FinishPaced
<1>3. CASE \/ Kind(o) = "rate" /\ SleepToSlot(o, next[o] + Interval(o), queue)
           \/ Kind(o) # "rate" /\ SleepInterval(o, queue)
  <2>1. Moves(o, queue) /\ \A x \in Ops \ {o} : Clocked(x)
      BY <1>1, <1>3, SlotMoves, IntervalMoves DEF Clocked
  <2>2. Ready(o, queue) /\ Still(o)
      BY <1>1 DEF Ready, Still, OpInv, PlaceInv, SleepInv, TaskInv, Asleep
  <2>3. TaskInv(o)'
      BY <1>1, <1>3, <2>2, RoundOwn
  <2> QED  BY <1>1, <2>1, <2>3, OthersPaced DEF RateInv
<1> QED  BY <1>2, <1>3 DEF TickEnds, NextRound

\* So does a timer that fires.
LEMMA FirePaced ==
    ASSUME RuntimeInv, RateInv, NEW o \in Ops, Fire(o)
    PROVE  RateInv'
<1>1. /\ due[o] # 0 /\ now >= due[o] /\ completed' = completed \cup {o}
      /\ due' = [due EXCEPT ![o] = 0] /\ ResumeOnRuntime(o, queue)
      /\ delay' = delay /\ UNCHANGED tickVars /\ Still(o)
    BY DEF Fire, Still
<1>2. Part(queue) /\ Asleep(o)
    BY <1>1, PartFacts DEF RuntimeInv, OpsInv, OpInv, SleepInv
<1> QED  BY <1>1, <1>2, CompletePaced

\* The thread pool, time, and steps that change nothing.
LEMMA IdlePaced ==
    ASSUME RuntimeInv, RateInv, UNCHANGED <<call, endVars, token, sleepVars, tickVars>>,
           now' \in {now, now + 1}, NEW o \in Ops
    PROVE  RateInv'
<1>1. /\ TypeOK /\ Part(queue) /\ "start" \in Whats \ {"cancel"} /\ queue' = queue
      /\ UNCHANGED <<watch, stopped, delay, completed, due, pc>>
    BY PartFacts DEF RuntimeInv, endVars, sleepVars, Whats
<1> QED  BY <1>1, CalmPaced

\* So does work that is done.
LEMMA WorkDonePaced ==
    ASSUME RuntimeInv, RateInv, NEW o \in Ops, WorkDone(o)
    PROVE  RateInv'
<1>1. PICK r \in {"cancelled", "ok", "threw"} : Finish(o, r, queue)
    BY DEF WorkDone
<1>2. r \in Endings /\ \A x \in Ops : Clocked(x)
    BY DEF WorkDone, Endings, Clocked, sleepVars, tickVars
<1>3. TypeOK /\ Part(queue)
    BY PartFacts DEF RuntimeInv
<1> QED  BY <1>1, <1>2, <1>3, FinishPaced

\* What the threads do.
LEMMA ThreadPaced ==
    ASSUME RuntimeInv, RateInv, NEW o \in Ops,
           Spawn(o) \/ Call(o) \/ OutsideDecides(o) \/ Destroy(o) \/ LoopExits(o)
    PROVE  RateInv'
<1>1. TypeOK /\ Part(queue) /\ pc \in [Ops -> Pcs] /\ OpInv(o)
    BY PartFacts DEF RuntimeInv, TypeOK, EndTypes, OpsInv
<1>2. UNCHANGED <<quiet, watch, stopped>>
    BY DEF Spawn, Call, Post, OutsideDecides, Destroy, LoopExits
<1>3. PICK w \in {"begin", "call", "walk", "start"} :
          queue' = queue \/ queue' = Append(queue, <<w, o>>)
    BY DEF Spawn, Call, Post, OutsideDecides, Destroy, LoopExits
<1>4. \A x \in Ops \ {o} : pc'[x] = pc[x]
    BY <1>1 DEF Spawn, Call, Post, OutsideDecides, Destroy, LoopExits
<1>5. Kind(o) \in Periodic => \/ pc'[o] \in {pc[o], "done"}
                              \/ pc[o] = "new" /\ pc'[o] = "spawned"
  <2>1. Kind(o) = "sleep" => Kind(o) \notin Periodic
      BY DEF Periodic
  <2>2. OutsideDecides(o) => Kind(o) = "sleep"
      BY <1>1, CallFacts DEF OutsideDecides, OpInv, PlaceInv
  <2>3. Call(o) => Kind(o) \notin Periodic
      BY DEF Call, Periodic
  <2>4. Destroy(o) => Kind(o) \notin Periodic
      BY DEF Destroy, Periodic
  <2>5. Spawn(o) \/ LoopExits(o) => \/ pc'[o] \in {pc[o], "done"}
                                    \/ pc[o] = "new" /\ pc'[o] = "spawned"
      BY <1>1 DEF Spawn, Post, LoopExits
  <2> QED  BY <2>1, <2>2, <2>3, <2>4, <2>5
<1>6. /\ w \in Whats \ {"cancel"} /\ UNCHANGED tickVars
      /\ UNCHANGED <<call, watch, stopped, token, delay, completed, due, now>>
    BY <1>2 DEF Whats, quiet, sleepVars
<1> QED  BY <1>1, <1>3, <1>4, <1>5, <1>6, CalmPaced

\* So does a stop by another thread.
LEMMA StopsPaced ==
    ASSUME RuntimeInv, RateInv, NEW o \in Ops, CancelTimer(o) \/ RequestStop(o)
    PROVE  RateInv'
<1>1. TypeOK /\ pc \in [Ops -> Pcs]
    BY DEF RuntimeInv, TypeOK, EndTypes
<1>2. quiet' = quiet /\ watch' = watch /\ \E tok : Stop(tok, watch, queue)
    BY DEF CancelTimer, RequestStop
<1>3. \A x \in Ops : Kind(x) \in Periodic => pc'[x] = pc[x]
    BY <1>1 DEF CancelTimer, RequestStop, Periodic
<1> QED  BY <1>1, <1>2, <1>3, StopPaced

\* So does a sleep that is awaited outside the loop thread.
LEMMA OutsidePaced ==
    ASSUME RuntimeInv, RateInv, NEW o \in Ops, OutsideSleep(o)
    PROVE  RateInv'
<1>1. /\ TypeOK /\ Part(queue) /\ queue \in Seq(Closures) /\ "suspending" \in Pcs
      /\ call[o].outside /\ Kind(o) \notin Periodic
  <2>1. Kind(o) = "sleep"
      BY CallFacts DEF RuntimeInv, OutsideSleep
  <2> QED  BY <2>1, PartFacts DEF RuntimeInv, Part, Pcs, Periodic, OutsideSleep
<1>2. /\ Moves(o, queue)
      /\ \A x \in Ops \ {o} : /\ delay'[x] = delay[x] /\ due'[x] = due[x]
                              /\ x \in completed' <=> x \in completed
    BY <1>1, SleepMoves DEF OutsideSleep
<1>3. call' = call /\ \A x \in Ops \ {o} : Clocked(x)
    BY <1>2 DEF OutsideSleep, Clocked, tickVars
<1> QED  BY <1>1, <1>2, <1>3, MovesPaced

\* Where each periodic task has got to in its slot, what it sleeps for and when it is
\* due.
THEOREM RateInvariant == Spec => [](RuntimeInv /\ RateInv)
<1>1. Init => RateInv
  <2> SUFFICES ASSUME Init, NEW o \in Ops, Kind(o) \in Periodic PROVE TaskInv(o)
      BY DEF RateInv, TaskInv
  <2>1. TypeOK
      BY InitStep DEF RuntimeInv
  <2>2. /\ Interval(o) \in Nat \ {0} /\ LoopTime \in Int /\ Ms \in Nat \ {0} /\ now \in Nat
        /\ now - (Ms - 1) <= LoopTime
      BY <2>1, TaskTypes
  <2>3. /\ pc[o] = "new" /\ watch[o] = {} /\ ticks[o] = 0 /\ began[o] = 0 /\ due[o] = 0 /\ now = 0
        /\ queue = <<>>
      BY DEF Init
  <2>4. Paid(o) = (0 - (IF Kind(o) = "immediate" THEN 1 ELSE 0)) * Interval(o)
      BY <2>3 DEF Paid
  <2>5. (0 - 1) * Interval(o) <= 0 /\ (0 - 0) * Interval(o) <= 0
        /\ (0 - 1) * Interval(o) \in Int /\ (0 - 0) * Interval(o) \in Int
      BY <2>2, SMT
  <2>6. Paid(o) \in Int /\ Paid(o) <= 0
      BY <2>4, <2>5
  <2>7. Paid(o) <= LoopTime - began[o] + (Ms - 1) /\ Paid(o) <= now - began[o] + 2 * (Ms - 1)
      BY <2>2, <2>3, <2>6, SMT
  <2>8. ~In(<<"cancel", o>>, queue)
      BY <2>3 DEF In
  <2> QED  BY <2>3, <2>7, <2>8 DEF TaskInv, DelayInv, SlotInv, Asleep
<1>2. RuntimeInv /\ RateInv /\ [Next]_vars => RateInv'
  <2> SUFFICES ASSUME RuntimeInv, RateInv, [Next]_vars PROVE RateInv'
      OBVIOUS
  <2>1. CASE RunPosted
      BY <2>1, RunPostedPaced
  <2>2. CASE RunInline
      BY <2>2, RunInlinePaced
  <2>3. CASE UNCHANGED <<call, endVars, token, sleepVars, tickVars>> /\ now' \in {now, now + 1}
    <3>1. CASE Ops = {}
        BY <3>1 DEF RateInv
    <3>2. CASE Ops # {}
        BY <2>3, <3>2, IdlePaced
    <3> QED  BY <3>1, <3>2
  <2>4. CASE TimePasses \/ UNCHANGED vars \/ \E o \in Ops : PoolWork(o)
      BY <2>3, <2>4 DEF TimePasses, vars, PoolWork
  <2>5. ASSUME NEW o \in Ops, Fire(o) \/ TickEnds(o) \/ WorkDone(o)
        PROVE  RateInv'
      BY <2>5, FirePaced, TickEndsPaced, WorkDonePaced
  <2>6. ASSUME NEW o \in Ops,
               Spawn(o) \/ Call(o) \/ OutsideDecides(o) \/ Destroy(o) \/ LoopExits(o)
        PROVE  RateInv'
      BY <2>6, ThreadPaced
  <2>7. ASSUME NEW o \in Ops, CancelTimer(o) \/ RequestStop(o) \/ OutsideSleep(o)
        PROVE  RateInv'
      BY <2>7, StopsPaced, OutsidePaced
  <2> QED  BY <2>1, <2>2, <2>4, <2>5, <2>6, <2>7 DEF Next
<1> QED  BY <1>1, <1>2, RuntimeInvariant, PTL DEF Spec

\* A periodic task is never faster than its interval: neither a late loop, nor a
\* long tick, nor a lost slot lets a tick come before its time, but for the
\* milliseconds that are cut off.
THEOREM TasksAreNotFaster == Spec => []RateBounded
<1>1. RuntimeInv /\ RateInv => RateBounded
  <2> SUFFICES ASSUME RuntimeInv, RateInv, NEW o \in Ops, Kind(o) \in Periodic
               PROVE  Paid(o) <= now - began[o]
                                   + (IF Kind(o) = "rate" THEN 2 ELSE 1) * (Ms - 1)
      BY DEF RateBounded, Paid
  <2>1. /\ Paid(o) \in Int /\ began[o] \in Int /\ now \in Nat /\ Ms \in Nat \ {0}
        /\ LoopTime \in Int /\ LoopTime <= now
      BY TaskTypes DEF RuntimeInv
  <2>2. CASE Kind(o) = "rate"
      BY <2>2 DEF RateInv, TaskInv, SlotInv
  <2>3. CASE Kind(o) # "rate"
    <3>1. Paid(o) <= LoopTime - began[o] + (Ms - 1)
        BY <2>3 DEF RateInv, TaskInv, DelayInv
    <3>2. Paid(o) <= now - began[o] + 1 * (Ms - 1)
        BY <2>1, <3>1, SMT
    <3> QED  BY <2>3, <3>2
  <2> QED  BY <2>2, <2>3
<1> QED  BY <1>1, RateInvariant, PTL
=============================================================================
