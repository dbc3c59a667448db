-------------------------- MODULE ListenersProofs --------------------------
(***************************************************************************)
(* Proofs about Listeners, for every set of calls and every scenario: no   *)
(* connection is lost, a cancelled accept costs one more, wait() tells the *)
(* truth about its child, what libuv watches is what the program asked for,*)
(* and whoever has to end has somebody who will end it.                    *)
(***************************************************************************)
EXTENDS Listeners, FiniteSetTheorems, SequenceTheorems, TLAPS

Pcs == {"new", "waiting", "calling", "adding", "receiving", "starting", "flagged",
        "draining", "detached", "done"}
Results == {"none", "ok", "error", "cancelled", "busy", "exited", "closed"}
Args == {c[o].arg : c \in Scenarios, o \in Ops}
Paths == Args \cup {None}
Posts == ({"cancel", "drop", "close_watch"} \X Ops)
         \cup ({"close_process"} \X (States \X Nat)) \cup ({"close_entries"} \X SUBSET Args)

OpTypes ==
    /\ call \in Scenarios /\ pc \in [Ops -> Pcs] /\ result \in [Ops -> Results]
    /\ queue \in Seq(Posts) /\ stopped \subseteq Ops
ServerRecs ==
    [handle : BOOLEAN, bound : BOOLEAN, listening : BOOLEAN,
     status : {"ok", "error", "cancelled"}, waiter : Ops \cup {None},
     pending : Seq(Nat), uv : {"idle", "listening", "closed"}, came : Nat,
     given : Seq(Nat), closed : SUBSET Nat, lost : SUBSET Nat]
ServerTypes == server \in ServerRecs
ProcRecs ==
    [state : States, on : [Ops -> States \cup {0}], child : [Ops -> Nat],
     handle : [States -> Nat], running : [States -> BOOLEAN],
     exited : [States -> BOOLEAN], waiter : [States -> Ops \cup {None}],
     status : [States -> {"ok", "cancelled"}], closed : [States -> BOOLEAN]]
ChildRecs ==
    [state : States, uv : {"open", "closed"}, alive : BOOLEAN, reported : BOOLEAN]
ProcessTypes == proc \in ProcRecs /\ children \in Seq(ChildRecs)
SignalRecs ==
    [set : BOOLEAN, closed : BOOLEAN, entries : SUBSET Args, drained : BOOLEAN, uv : SUBSET Args]
FileRecs ==
    [handle : BOOLEAN, closed : BOOLEAN, named : Paths, path : Paths, active : BOOLEAN, uv : Paths]
EventTypes == Args \cup (Paths \X Paths)
ChannelRecs == [buf : Seq(EventTypes), closed : BOOLEAN]
Busies == {None} \cup ({"add", "start"} \X Ops) \cup ({"signal"} \X Args) \cup ({"event"} \X Paths)
WatchTypes ==
    /\ signals \in SignalRecs /\ files \in FileRecs
    /\ events \in [{"signals", "files"} -> ChannelRecs] /\ raised \in Nat /\ busy \in Busies
TypeOK == OpTypes /\ ServerTypes /\ ProcessTypes /\ WatchTypes

-----------------------------------------------------------------------------
(* The invariant                                                             *)

In(c, s) == \E i \in 1..Len(s) : s[i] = c

\* Where an op is tells what it is, whether it has a result, and whether its stop
\* closure is due.
PlaceInv(o) ==
    /\ pc[o] # "done" => result[o] = "none"
    /\ pc[o] = "waiting" => Kind(o) \in {"accept", "wait"}
    /\ pc[o] = "adding" => Kind(o) = "add"
    /\ pc[o] = "starting" => Kind(o) = "start"
    /\ pc[o] = "receiving" => Kind(o) = "next"
    /\ pc[o] = "calling" => Kind(o) = "close_server"
    /\ pc[o] = "detached" => Kind(o) = "close_watch"
    /\ pc[o] \in {"flagged", "draining"} => Kind(o) \in {"close_signals", "close_watch"}
    /\ busy = <<"add", o>> => pc[o] = "adding"
    /\ busy = <<"start", o>> => pc[o] = "starting"
    /\ In(<<"cancel", o>>, queue) => o \in stopped /\ pc[o] \in {"waiting", "done"}
    /\ In(<<"drop", o>>, queue) => Kind(o) = "close_server" /\ pc[o] \in {"calling", "done"}
    /\ pc[o] = "waiting" /\ o \in stopped => In(<<"cancel", o>>, queue)
PlacesInv == \A o \in Ops : PlaceInv(o)

\* The accept that waits is the waiter, and a server that has let go of its handle
\* has no new one.
WaiterInv ==
    /\ \A o \in Ops : server.waiter = o <=> pc[o] = "waiting" /\ Kind(o) = "accept"
    /\ server.waiter # None => server.pending = <<>> /\ server.status = "ok"
    /\ server.listening => server.bound
    /\ server.bound => server.handle
    /\ server.uv = "closed" => ~server.handle /\ server.waiter = None
    /\ \A o \in Ops : In(<<"drop", o>>, queue) => ~server.handle
    /\ server.waiter # None /\ ~server.handle => \E o \in Ops : In(<<"drop", o>>, queue)

\* Each connection of the server s is in one place.
Line(s) == s.given \o s.pending
ConnsOf(s) ==
    /\ \A i, j \in DOMAIN Line(s) : i < j => Line(s)[i] < Line(s)[j]
    /\ Elements(Line(s)) \cup s.closed \cup s.lost = 1..s.came
    /\ Elements(Line(s)) \cap s.closed = {} /\ Elements(Line(s)) \cap s.lost = {}
    /\ s.closed \cap s.lost = {}
ConnsInv == ConnsOf(server)

\* A cancellation that no accept has reported yet has an accept that was stopped,
\* or the close of the server, behind it.
DebtInv ==
    Cardinality(Accepts \ stopped) + (IF server.status = "cancelled" THEN 1 ELSE 0)
        <= Cardinality(Accepts \cap stopped) + (IF server.uv = "closed" THEN 1 ELSE 0)
ServerInv == WaiterInv /\ ConnsInv /\ DebtInv

\* A wait that sleeps is the waiter of its state, and awaits a child of it that has
\* not been reported and is open, or is about to be closed.
WaitAt(o) ==
    LET h == proc.child[o]
    IN  /\ proc.on[o] \in States /\ proc.waiter[proc.on[o]] = o
        /\ h \in DOMAIN children
        /\ children[h].state = proc.on[o] /\ ~children[h].reported /\ children[h].uv = "open"
        /\ proc.handle[proc.on[o]] # h => In(<<"close_process", <<proc.on[o], h>> >>, queue)
\* What a wait has reported is true.
AnswerAt(o) ==
    /\ result[o] = "exited" => proc.child[o] \in DOMAIN children /\ ~children[proc.child[o]].alive
    /\ result[o] = "cancelled" =>
          o \in stopped \/ (proc.on[o] \in States /\ proc.closed[proc.on[o]])
WaiterAt(s) ==
    /\ proc.status[s] = "ok"
    /\ \A o \in Ops : proc.waiter[s] = o =>
          pc[o] = "waiting" /\ Kind(o) = "wait" /\ proc.on[o] = s
WaitInv ==
    /\ \A s \in States : WaiterAt(s)
    /\ \A o \in Ops : Kind(o) = "wait" => AnswerAt(o) /\ (pc[o] = "waiting" => WaitAt(o))

\* A child that has not been reported is the only one of its state, which is running.
ChildAt(h) ==
    LET s == children[h].state
    IN  /\ s <= proc.state
        /\ children[h].reported => ~children[h].alive
        /\ ~children[h].reported =>
              /\ proc.running[s] /\ proc.handle[s] \in {h, 0}
              /\ \A g \in DOMAIN children :
                    children[g].state = s /\ ~children[g].reported => g = h
\* The handle of a state is that of an open child, and a closure of close() has
\* one that the state has let go of.
StateAt(s) ==
    /\ proc.handle[s] # 0 =>
          /\ proc.handle[s] \in DOMAIN children
          /\ LET c == children[proc.handle[s]]
             IN  c.state = s /\ c.uv = "open" /\ (proc.exited[s] <=> c.reported)
    /\ s > proc.state => proc.handle[s] = 0
    /\ \A h \in Nat : In(<<"close_process", <<s, h>> >>, queue) =>
          /\ proc.closed[s] /\ proc.handle[s] # h
          /\ h \in DOMAIN children /\ children[h].state = s
ChildInv == (\A h \in DOMAIN children : ChildAt(h)) /\ (\A s \in States : StateAt(s))

\* There is a state for every spawn.
Spawned == {o \in Ops : Kind(o) = "spawn" /\ pc[o] = "done"}
ProcessInv == WaitInv /\ ChildInv /\ proc.state <= Cardinality(Spawned) + 1

\* The signals that libuv delivers.
SignalInv ==
    /\ \A n \in signals.uv : n \in signals.entries \/ Closing(n)
    /\ signals.entries \subseteq signals.uv
    /\ signals.drained => signals.entries = {}
    /\ (\E i \in 1..Len(queue) : queue[i][1] = "close_entries") => signals.drained
    /\ signals.closed /\ ~signals.drained =>
          \E o \in Ops : Kind(o) = "close_signals" /\ pc[o] \in {"flagged", "draining"}
\* The path that libuv watches; an event is about to be sent under its own path.
PathInv ==
    /\ files.closed => ~files.handle
    /\ \A o \in Ops : pc[o] = "detached" => ~files.handle
    /\ files.handle =>
          /\ files.uv # None => files.active /\ files.path = files.uv /\ files.named = files.uv
          /\ busy # None /\ busy[1] = "event" => busy[2] = files.named
          /\ \A e \in Elements(events["files"].buf) : e[1] = e[2]
    /\ ~files.handle =>
          \/ files.uv = None
          \/ \E o \in Ops : \/ Kind(o) = "close_watch" /\ pc[o] \in {"detached", "flagged", "draining"}
                            \/ In(<<"close_watch", o>>, queue)
WatchInv == fault = None => SignalInv /\ PathInv

ListenersInv == TypeOK /\ PlacesInv /\ ServerInv /\ ProcessInv /\ WatchInv

-----------------------------------------------------------------------------
(* Ops and closures                                                          *)

\* What the assumption says of the constants.
LEMMA ConstFacts ==
    /\ IsFiniteSet(Ops) /\ Cardinality(Ops) \in Nat /\ None \notin Ops
    /\ States = 1..(Cardinality(Ops) + 1) /\ States \subseteq Nat /\ 1 \in States
    /\ \A o \in Ops : None # <<"add", o>> /\ None # <<"start", o>>
<1>1. /\ IsFiniteSet(Ops) /\ None \notin Ops
      /\ \A o \in Ops : None # <<"add", o>> /\ None # <<"start", o>>
    BY ListenersAssumption
<1>2. Cardinality(Ops) \in Nat
    BY <1>1, FS_CardinalityType
<1> QED  BY <1>1, <1>2, SMT DEF States

\* The kind and the argument of an op.
LEMMA CallFacts ==
    ASSUME OpTypes, NEW o \in Ops
    PROVE  /\ Kind(o) \in Kinds /\ Arg(o) \in Args
           /\ Kind(o) = "next" => Arg(o) \in {"signals", "files"}
    BY ListenersAssumption DEF OpTypes, Kind, Arg, Args

\* Posting a closure.
LEMMA PostFacts ==
    ASSUME NEW s \in Seq(Posts), NEW d \in Posts
    PROVE  /\ Append(s, d) \in Seq(Posts)
           /\ \A c : In(c, Append(s, d)) <=> In(c, s) \/ c = d
<1>1. /\ Append(s, d) \in Seq(Posts) /\ Len(Append(s, d)) = Len(s) + 1
      /\ \A i \in 1..Len(s) : Append(s, d)[i] = s[i]
      /\ Append(s, d)[Len(s) + 1] = d
      /\ Len(s) \in Nat
    BY SMT
<1>2. ASSUME NEW c PROVE In(c, Append(s, d)) <=> In(c, s) \/ c = d
    BY <1>1, SMT DEF In
<1> QED  BY <1>1, <1>2

\* Taking the first closure.
LEMMA TakeFacts ==
    ASSUME NEW s \in Seq(Posts), s # <<>>
    PROVE  /\ Tail(s) \in Seq(Posts) /\ Head(s) \in Posts /\ In(Head(s), s)
           /\ \A c : In(c, s) <=> In(c, Tail(s)) \/ c = Head(s)
<1>1. /\ Tail(s) \in Seq(Posts) /\ Len(s) \in Nat /\ Len(s) # 0
      /\ Len(Tail(s)) = Len(s) - 1
      /\ \A i \in 1..Len(Tail(s)) : Tail(s)[i] = s[i + 1]
      /\ Head(s) = s[1] /\ s[1] \in Posts
    BY SMT
<1>2. In(Head(s), s)
    BY <1>1, SMT DEF In
<1>3. ASSUME NEW c PROVE In(c, s) <=> In(c, Tail(s)) \/ c = Head(s)
  <2>1. ASSUME In(c, s), c # Head(s) PROVE In(c, Tail(s))
    <3>1. PICK i \in 1..Len(s) : s[i] = c
        BY <2>1 DEF In
    <3>2. i - 1 \in 1..Len(Tail(s)) /\ Tail(s)[i - 1] = c
        BY <1>1, <2>1, <3>1, SMT
    <3> QED  BY <3>2 DEF In
  <2>2. ASSUME In(c, Tail(s)) PROVE In(c, s)
      BY <1>1, <2>2, SMT DEF In
  <2> QED  BY <1>2, <2>1, <2>2
<1> QED  BY <1>1, <1>2, <1>3

\* Closures of some kinds stay what they are.
QueueSame(W) == \A w \in W : \A x : In(<<w, x>>, queue') <=> In(<<w, x>>, queue)

\* A closure of another kind is posted, or taken.
LEMMA QueueKeeps ==
    ASSUME OpTypes, NEW W,
           \/ UNCHANGED queue
           \/ \E d \in Posts : d[1] \notin W /\ queue' = Append(queue, d)
           \/ queue # <<>> /\ Head(queue)[1] \notin W /\ queue' = Tail(queue)
    PROVE  QueueSame(W)
<1>0. queue \in Seq(Posts)
    BY DEF OpTypes
<1>1. CASE UNCHANGED queue
    BY <1>1 DEF QueueSame
<1>2. ASSUME NEW d \in Posts, d[1] \notin W, queue' = Append(queue, d)
      PROVE  QueueSame(W)
  <2>1. ASSUME NEW w \in W, NEW x PROVE <<w, x>> # d
      BY <1>2
  <2> QED  BY <1>0, <1>2, <2>1, PostFacts DEF QueueSame
<1>3. ASSUME queue # <<>>, Head(queue)[1] \notin W, queue' = Tail(queue)
      PROVE  QueueSame(W)
  <2>1. ASSUME NEW w \in W, NEW x PROVE <<w, x>> # Head(queue)
      BY <1>3
  <2> QED  BY <1>0, <1>3, <2>1, TakeFacts DEF QueueSame
<1> QED  BY <1>1, <1>2, <1>3

\* The closures of close() in the words of In.
LEMMA ClosingForm ==
    ASSUME NEW q \in Seq(Posts), NEW n
    PROVE  /\ (\E i \in DOMAIN q : q[i][1] = "close_entries" /\ n \in q[i][2])
                <=> \E A : In(<<"close_entries", A>>, q) /\ n \in A
           /\ (\E i \in 1..Len(q) : q[i][1] = "close_entries")
                <=> \E A : In(<<"close_entries", A>>, q)
<1>1. DOMAIN q = 1..Len(q) /\ \A i \in 1..Len(q) : q[i] \in Posts
    BY SMT
<1>2. \A d \in Posts : d = <<d[1], d[2]>>
    BY DEF Posts
<1>3. ASSUME NEW i \in DOMAIN q, q[i][1] = "close_entries"
      PROVE  In(<<"close_entries", q[i][2]>>, q)
    BY <1>1, <1>2, <1>3, Zenon DEF In
<1>4. ASSUME NEW A, In(<<"close_entries", A>>, q)
      PROVE  \E i \in DOMAIN q : q[i][1] = "close_entries" /\ q[i][2] = A
  <2>1. PICK i \in 1..Len(q) : q[i] = <<"close_entries", A>>
      BY <1>4 DEF In
  <2>2. q[i][1] = "close_entries" /\ q[i][2] = A
      BY <2>1
  <2> QED  BY <1>1, <2>1, <2>2
<1> QED  BY <1>1, <1>3, <1>4, Zenon

\* Ops end.
LEMMA EndFacts ==
    ASSUME OpTypes, NEW f, DOMAIN f \subseteq Ops, \A x \in DOMAIN f : f[x] \in Results,
           End(f)
    PROVE  /\ pc' \in [Ops -> Pcs] /\ result' \in [Ops -> Results]
           /\ \A x \in Ops : IF x \in DOMAIN f THEN pc'[x] = "done" /\ result'[x] = f[x]
                             ELSE pc'[x] = pc[x] /\ result'[x] = result[x]
<1>1. /\ pc' = [o \in Ops |-> IF o \in DOMAIN f THEN "done" ELSE pc[o]]
      /\ result' = [x \in (DOMAIN f) \cup (DOMAIN result) |->
                       IF x \in DOMAIN f THEN f[x] ELSE result[x]]
    BY DEF End, @@
<1>2. DOMAIN result = Ops /\ (DOMAIN f) \cup Ops = Ops
    BY DEF OpTypes
<1>3. result' = [x \in Ops |-> IF x \in DOMAIN f THEN f[x] ELSE result[x]]
    BY <1>1, <1>2
<1> QED  BY <1>1, <1>3 DEF OpTypes, Pcs

\* One op ends.
LEMMA EndsOne ==
    ASSUME OpTypes, NEW o \in Ops, NEW r \in Results, End(o :> r)
    PROVE  /\ pc' \in [Ops -> Pcs] /\ result' \in [Ops -> Results]
           /\ pc'[o] = "done" /\ result'[o] = r
           /\ \A x \in Ops \ {o} : pc'[x] = pc[x] /\ result'[x] = result[x]
<1>1. DOMAIN (o :> r) = {o} /\ (o :> r)[o] = r
    BY DEF :>
<1> QED  BY <1>1, EndFacts

\* No op ends.
LEMMA EndsNone ==
    ASSUME OpTypes, End(Nobody)
    PROVE  UNCHANGED <<pc, result>>
<1>1. DOMAIN Nobody = {}
    BY DEF Nobody
<1>2. /\ pc' = [o \in Ops |-> IF o \in DOMAIN Nobody THEN "done" ELSE pc[o]]
      /\ result' = [x \in (DOMAIN Nobody) \cup (DOMAIN result) |->
                       IF x \in DOMAIN Nobody THEN Nobody[x] ELSE result[x]]
    BY DEF End, @@
<1>3. pc' = [o \in Ops |-> pc[o]] /\ result' = [x \in Ops |-> result[x]]
    BY <1>1, <1>2 DEF OpTypes
<1> QED  BY <1>3 DEF OpTypes

\* An op ends, and those of f with it.
LEMMA EndsWith ==
    ASSUME OpTypes, NEW o \in Ops, NEW r \in Results, NEW f, DOMAIN f \subseteq Ops \ {o},
           \A x \in DOMAIN f : f[x] \in Results, End((o :> r) @@ f)
    PROVE  /\ pc' \in [Ops -> Pcs] /\ result' \in [Ops -> Results]
           /\ pc'[o] = "done" /\ result'[o] = r
           /\ \A x \in Ops \ {o} :
                 IF x \in DOMAIN f THEN pc'[x] = "done" /\ result'[x] = f[x]
                 ELSE pc'[x] = pc[x] /\ result'[x] = result[x]
<1> DEFINE g == (o :> r) @@ f
<1>1. DOMAIN g = {o} \cup DOMAIN f /\ g[o] = r /\ \A x \in DOMAIN f : g[x] = f[x]
    BY DEF :>, @@
<1>2. DOMAIN g \subseteq Ops /\ \A x \in DOMAIN g : g[x] \in Results
    BY <1>1
<1>3. End(g)
    OBVIOUS
<1> HIDE DEF g
<1> QED  BY <1>1, <1>2, <1>3, EndFacts

-----------------------------------------------------------------------------
(* What a step leaves alone                                                  *)

\* x has nothing to do with the step.
Stays(x) ==
    /\ pc'[x] = pc[x] /\ result'[x] = result[x]
    /\ \A w \in {"add", "start"} : busy' = <<w, x>> => busy = <<w, x>>
    /\ In(<<"cancel", x>>, queue') <=> In(<<"cancel", x>>, queue)
    /\ In(<<"drop", x>>, queue') => In(<<"drop", x>>, queue)
\* x ends.
Ends(x) ==
    /\ pc'[x] = "done"
    /\ \A w \in {"add", "start"} : busy' # <<w, x>>
    /\ In(<<"cancel", x>>, queue') => In(<<"cancel", x>>, queue)
    /\ In(<<"drop", x>>, queue') => In(<<"drop", x>>, queue)

\* Nothing else keeps an op in its place.
LEMMA PlacesStep ==
    ASSUME PlacesInv, UNCHANGED <<call, stopped>>,
           \A x \in Ops : Stays(x) \/ Ends(x) \/ PlaceInv(x)'
    PROVE  PlacesInv'
<1> SUFFICES ASSUME NEW x \in Ops PROVE PlaceInv(x)'
    BY DEF PlacesInv
<1>1. PlaceInv(x)
    BY DEF PlacesInv
<1>2. CASE Stays(x)
    BY <1>1, <1>2 DEF PlaceInv, Stays, Kind
<1>3. CASE Ends(x)
    BY <1>1, <1>3 DEF PlaceInv, Ends, Kind
<1> QED  BY <1>2, <1>3

\* The ops of some kinds are left alone.
KindsSame(K) == \A x \in Ops : Kind(x) \in K => pc'[x] = pc[x] /\ result'[x] = result[x]

\* A step that leaves the server alone.
LEMMA ServerFrame ==
    ASSUME OpTypes, ServerInv, UNCHANGED <<call, stopped, server>>,
           KindsSame({"accept"}), QueueSame({"drop"})
    PROVE  ServerInv'
<1>1. \A o \in Ops : Kind(o) = "accept" => pc'[o] = pc[o] /\ result'[o] = result[o]
    BY DEF KindsSame
<1>2. \A o \in Ops : In(<<"drop", o>>, queue') <=> In(<<"drop", o>>, queue)
    BY DEF QueueSame
<1>3. WaiterInv'
    BY <1>1, <1>2 DEF ServerInv, WaiterInv, Kind
<1>4. ConnsInv'
    BY DEF ServerInv, ConnsInv, ConnsOf, Line, Elements
<1>5. Accepts' = Accepts
    BY <1>1 DEF Accepts, Kind
<1>6. DebtInv'
    BY <1>5 DEF ServerInv, DebtInv
<1> QED  BY <1>3, <1>4, <1>6 DEF ServerInv

\* A step that leaves the process and its waits alone.
LEMMA WaitsFrame ==
    ASSUME OpTypes, ProcessInv, UNCHANGED <<call, procVars>>, stopped \subseteq stopped',
           KindsSame({"wait"}), QueueSame({"close_process"})
    PROVE  WaitInv' /\ ChildInv'
<1>1. \A o \in Ops : Kind(o) = "wait" =>
         pc'[o] = pc[o] /\ result'[o] = result[o]
    BY DEF KindsSame
<1>2. \A c : In(<<"close_process", c>>, queue') <=> In(<<"close_process", c>>, queue)
    BY DEF QueueSame
<1>3. UNCHANGED <<proc, children>> /\ \A o \in Ops : Kind(o)' = Kind(o)
    BY DEF procVars, Kind
<1>4. WaitInv'
  <2>0. WaitInv
      BY DEF ProcessInv
  <2>1. ASSUME NEW s \in States PROVE WaiterAt(s)'
      BY <1>1, <1>3, <2>0 DEF WaitInv, WaiterAt
  <2>2. ASSUME NEW o \in Ops, Kind(o) = "wait" PROVE AnswerAt(o)'
      BY <1>1, <1>3, <2>0, <2>2 DEF WaitInv, AnswerAt
  <2>3. ASSUME NEW o \in Ops, Kind(o) = "wait", pc'[o] = "waiting" PROVE WaitAt(o)'
      BY <1>1, <1>2, <1>3, <2>0, <2>3 DEF WaitInv, WaitAt
  <2> QED  BY <1>3, <2>1, <2>2, <2>3 DEF WaitInv
<1>5. ChildInv'
  <2>0. ChildInv
      BY DEF ProcessInv
  <2>1. ASSUME NEW h \in DOMAIN children PROVE ChildAt(h)'
      BY <1>3, <2>0 DEF ChildInv, ChildAt
  <2>2. ASSUME NEW s \in States PROVE StateAt(s)'
      BY <1>2, <1>3, <2>0 DEF ChildInv, StateAt
  <2> QED  BY <1>3, <2>1, <2>2 DEF ChildInv
<1> QED  BY <1>4, <1>5

\* A step that leaves the process alone.
LEMMA ProcessFrame ==
    ASSUME OpTypes, ProcessInv, UNCHANGED <<call, procVars>>, stopped \subseteq stopped',
           KindsSame({"wait", "spawn"}), QueueSame({"close_process"})
    PROVE  ProcessInv'
<1>1. KindsSame({"wait"})
    BY DEF KindsSame
<1>2. Spawned' = Spawned
    BY DEF KindsSame, Spawned, Kind
<1>3. UNCHANGED proc
    BY DEF procVars
<1> QED  BY <1>1, <1>2, <1>3, WaitsFrame DEF ProcessInv

\* A step that leaves the signals alone.
LEMMA SignalFrame ==
    ASSUME OpTypes, OpTypes', SignalInv, UNCHANGED <<call, signals>>,
           KindsSame({"close_signals"}), QueueSame({"close_entries"})
    PROVE  SignalInv'
<1>1. \A o \in Ops : Kind(o) = "close_signals" => pc'[o] = pc[o]
    BY DEF KindsSame
<1>2. \A c : In(<<"close_entries", c>>, queue') <=> In(<<"close_entries", c>>, queue)
    BY DEF QueueSame
<1>3. queue \in Seq(Posts) /\ queue' \in Seq(Posts)
    BY DEF OpTypes
<1>4. \A n : Closing(n)' <=> Closing(n)
    BY <1>2, <1>3, ClosingForm DEF Closing
<1>5. (\E i \in 1..Len(queue') : queue'[i][1] = "close_entries")
         <=> \E i \in 1..Len(queue) : queue[i][1] = "close_entries"
    BY <1>2, <1>3, ClosingForm
<1> QED  BY <1>1, <1>4, <1>5 DEF SignalInv, Kind

\* A step that leaves the file watcher alone, but for events that are taken.
LEMMA PathFrame ==
    ASSUME PlacesInv', PathInv, UNCHANGED <<call, files>>,
           KindsSame({"close_watch"}), QueueSame({"close_watch"}),
           busy' # None /\ busy'[1] = "event" => busy' = busy,
           Elements(events'["files"].buf) \subseteq Elements(events["files"].buf)
    PROVE  PathInv'
<1>1. \A o \in Ops : Kind(o) = "close_watch" => pc'[o] = pc[o]
    BY DEF KindsSame
<1>2. \A c : In(<<"close_watch", c>>, queue') <=> In(<<"close_watch", c>>, queue)
    BY DEF QueueSame
<1>3. \A o \in Ops : pc'[o] = "detached" => pc[o] = "detached"
    BY <1>1 DEF PlacesInv, PlaceInv, Kind
<1>4. files.handle => \A e \in Elements(events["files"].buf)' : e[1] = e[2]
    BY DEF PathInv, Elements
<1> QED  BY <1>1, <1>2, <1>3, <1>4 DEF PathInv, Kind

\* A step that leaves the watchers alone.
LEMMA WatchFrame ==
    ASSUME OpTypes, OpTypes', PlacesInv', SignalInv, PathInv,
           UNCHANGED <<call, busy, watchVars>>,
           KindsSame({"close_signals", "close_watch"}),
           QueueSame({"close_entries", "close_watch"})
    PROVE  SignalInv' /\ PathInv'
<1>1. /\ KindsSame({"close_signals"}) /\ KindsSame({"close_watch"})
      /\ QueueSame({"close_entries"}) /\ QueueSame({"close_watch"})
    BY DEF KindsSame, QueueSame
<1>2. UNCHANGED <<signals, files, events>>
    BY DEF watchVars
<1>3. Elements(events'["files"].buf) \subseteq Elements(events["files"].buf)
    BY <1>2
<1> QED  BY <1>1, <1>2, <1>3, SignalFrame, PathFrame

-----------------------------------------------------------------------------
(* Steps of one op                                                           *)

\* An op that is not in the middle of something ends.
LEMMA OneEnds ==
    ASSUME TypeOK, PlacesInv, NEW o \in Ops, NEW r \in Results, End(o :> r),
           \A w \in {"add", "start"} : busy' # <<w, o>>,
           busy' \in {busy, None}, queue' \in Seq(Posts), UNCHANGED <<call, stopped>>,
           \A x \in Ops : /\ In(<<"cancel", x>>, queue') <=> In(<<"cancel", x>>, queue)
                          /\ In(<<"drop", x>>, queue') => In(<<"drop", x>>, queue)
    PROVE  /\ OpTypes' /\ PlacesInv'
           /\ pc'[o] = "done" /\ result'[o] = r
           /\ \A x \in Ops \ {o} : pc'[x] = pc[x] /\ result'[x] = result[x]
           /\ \A K : Kind(o) \notin K => KindsSame(K)
<1>0. OpTypes
    BY DEF TypeOK
<1>1. /\ pc' \in [Ops -> Pcs] /\ result' \in [Ops -> Results]
      /\ pc'[o] = "done" /\ result'[o] = r
      /\ \A x \in Ops \ {o} : pc'[x] = pc[x] /\ result'[x] = result[x]
    BY <1>0, EndsOne
<1>2. OpTypes'
    BY <1>0, <1>1 DEF OpTypes
<1>3. PlacesInv'
  <2>1. Ends(o)
      BY <1>1 DEF Ends
  <2>2. ASSUME NEW x \in Ops \ {o} PROVE Stays(x)
      BY <1>1, ConstFacts DEF Stays
  <2> QED  BY <2>1, <2>2, PlacesStep
<1>4. ASSUME NEW K, Kind(o) \notin K PROVE KindsSame(K)
    BY <1>1, <1>4 DEF KindsSame
<1> QED  BY <1>1, <1>2, <1>3, <1>4

\* An op that the loop thread or another thread begins is in nothing's middle.
LEMMA NewFacts ==
    ASSUME TypeOK, PlacesInv, NEW o \in Ops, pc[o] \notin {"adding", "starting"}
    PROVE  \A w \in {"add", "start"} : busy # <<w, o>>
    BY DEF PlacesInv, PlaceInv

\* A coroutine calls something that ends at once and posts nothing.
LEMMA CallEnds ==
    ASSUME TypeOK, PlacesInv, NEW o \in Ops, NEW r \in Results, End(o :> r),
           pc[o] \notin {"adding", "starting"}, UNCHANGED <<call, queue, stopped, busy>>
    PROVE  /\ OpTypes' /\ PlacesInv'
           /\ pc'[o] = "done" /\ result'[o] = r
           /\ \A x \in Ops \ {o} : pc'[x] = pc[x] /\ result'[x] = result[x]
           /\ \A K : Kind(o) \notin K => KindsSame(K)
           /\ \A W : QueueSame(W)
<1>1. \A w \in {"add", "start"} : busy' # <<w, o>>
    BY NewFacts
<1>2. queue' \in Seq(Posts)
    BY DEF TypeOK, OpTypes
<1>3. \A W : QueueSame(W)
    BY DEF QueueSame
<1> QED  BY <1>1, <1>2, <1>3, OneEnds

\* A step of the server.
LEMMA ServerStepRest ==
    ASSUME ListenersInv, fault = None, UNCHANGED <<call, stopped, busy, procVars, watchVars>>,
           OpTypes', ServerTypes', PlacesInv', ServerInv',
           KindsSame({"wait", "spawn", "close_signals", "close_watch"}),
           QueueSame({"close_process", "close_entries", "close_watch"})
    PROVE  ListenersInv'
<1>1. /\ KindsSame({"wait", "spawn"}) /\ KindsSame({"close_signals", "close_watch"})
      /\ QueueSame({"close_process"}) /\ QueueSame({"close_entries", "close_watch"})
    BY DEF KindsSame, QueueSame
<1>2. ProcessInv'
    BY <1>1, ProcessFrame DEF ListenersInv, TypeOK
<1>3. SignalInv' /\ PathInv'
    BY <1>1, WatchFrame DEF ListenersInv, TypeOK, WatchInv
<1>4. ProcessTypes' /\ WatchTypes'
    BY DEF ListenersInv, TypeOK, ProcessTypes, WatchTypes, procVars, watchVars
<1> QED  BY <1>2, <1>3, <1>4 DEF ListenersInv, TypeOK, WatchInv

-----------------------------------------------------------------------------
(* The server                                                                *)

\* Binding and listening.
LEMMA BindStep ==
    ASSUME ListenersInv, NEW o \in Ops, Bind(o) \/ Listen(o), UNCHANGED <<procVars, watchVars>>
    PROVE  ListenersInv'
<1>1. /\ fault = None /\ pc[o] = "new" /\ Kind(o) \in {"bind", "listen"}
      /\ UNCHANGED <<call, queue, stopped, busy, fault>>
      /\ \E r \in Results : End(o :> r)
      /\ \/ server' = server
         \/ server.handle /\ server' = [server EXCEPT !.bound = TRUE]
         \/ server.bound /\ server' = [server EXCEPT !.listening = TRUE, !.uv = "listening"]
    BY DEF Bind, Listen, Begins, Idle, Results
<1>2. TypeOK /\ PlacesInv /\ ServerInv /\ OpTypes /\ ServerTypes
    BY DEF ListenersInv, TypeOK
<1>3. PICK r \in Results : End(o :> r)
    BY <1>1
<1>4. /\ OpTypes' /\ PlacesInv' /\ \A K : Kind(o) \notin K => KindsSame(K)
      /\ \A W : QueueSame(W)
    BY <1>1, <1>2, <1>3, CallEnds
<1>5. /\ KindsSame({"accept"}) /\ KindsSame({"wait", "spawn", "close_signals", "close_watch"})
    BY <1>1, <1>4
<1>7. /\ ServerTypes'
      /\ server'.waiter = server.waiter /\ server'.pending = server.pending
      /\ server'.status = server.status /\ server'.handle = server.handle
      /\ server'.given = server.given /\ server'.closed = server.closed
      /\ server'.lost = server.lost /\ server'.came = server.came
      /\ \/ server'.bound = server.bound
         \/ server'.bound = TRUE /\ server.handle
      /\ \/ server'.listening = server.listening /\ server'.uv = server.uv
         \/ server.bound /\ server'.bound = server.bound /\ server'.uv = "listening"
  <2>1. CASE server' = server
      BY <1>2, <2>1 DEF ServerTypes
  <2>2. CASE server.handle /\ server' = [server EXCEPT !.bound = TRUE]
      BY <1>2, <2>2 DEF ServerTypes, ServerRecs
  <2>3. CASE server.bound /\ server' = [server EXCEPT !.listening = TRUE, !.uv = "listening"]
      BY <1>2, <2>3 DEF ServerTypes, ServerRecs
  <2> QED  BY <1>1, <2>1, <2>2, <2>3
<1>8. WaiterInv'
  <2>1. \A x \in Ops : Kind(x) = "accept" => pc'[x] = pc[x]
      BY <1>5 DEF KindsSame
  <2>2. \A x \in Ops : In(<<"drop", x>>, queue') <=> In(<<"drop", x>>, queue)
      BY <1>1
  <2>3. WaiterInv
      BY <1>2 DEF ServerInv
  <2>4. \A x \in Ops : server'.waiter = x <=> pc'[x] = "waiting" /\ Kind(x)' = "accept"
      BY <1>1, <1>7, <2>1, <2>3 DEF WaiterInv, Kind
  <2>5. /\ server'.listening => server'.bound
        /\ server'.bound => server'.handle
        /\ server'.uv = "closed" => ~server'.handle /\ server'.waiter = None
      BY <1>7, <2>3 DEF WaiterInv
  <2> QED  BY <1>7, <2>2, <2>3, <2>4, <2>5 DEF WaiterInv
<1>9. ConnsInv'
  <2>1. Line(server') = Line(server)
      BY <1>7 DEF Line
  <2> QED  BY <1>2, <1>7, <2>1 DEF ServerInv, ConnsInv, ConnsOf
<1>10. DebtInv'
  <2>1. Accepts' = Accepts
      BY <1>1, <1>5 DEF Accepts, Kind, KindsSame
  <2>2. server.uv = "closed" => server'.uv = "closed"
      BY <1>2, <1>7 DEF ServerInv, WaiterInv
  <2>3. server'.uv = "closed" => server.uv = "closed"
      BY <1>7
  <2> QED  BY <1>1, <1>2, <1>7, <2>1, <2>2, <2>3 DEF ServerInv, DebtInv
<1> QED  BY <1>1, <1>4, <1>5, <1>7, <1>8, <1>9, <1>10, ServerStepRest DEF ServerInv

\* Lines of connections: one more, the first of the pending ones given, and the
\* pending ones taken off.
LEMMA LineFacts ==
    ASSUME NEW g \in Seq(Nat), NEW p \in Seq(Nat)
    PROVE  /\ g \o p \in Seq(Nat) /\ DOMAIN (g \o p) = 1..Len(g \o p)
           /\ \A c \in Nat : g \o Append(p, c) = Append(g \o p, c)
           /\ p # <<>> => Append(g, Head(p)) \o Tail(p) = g \o p
           /\ Elements(g \o p) = Elements(g) \cup Elements(p)
           /\ \A i \in DOMAIN g : i \in DOMAIN (g \o p) /\ (g \o p)[i] = g[i]
           /\ \A i \in DOMAIN p : Len(g) + i \in DOMAIN (g \o p) /\ (g \o p)[Len(g) + i] = p[i]
<1>1. /\ g \o p \in Seq(Nat) /\ Len(g \o p) = Len(g) + Len(p)
      /\ Len(g) \in Nat /\ Len(p) \in Nat
      /\ DOMAIN g = 1..Len(g) /\ DOMAIN p = 1..Len(p) /\ DOMAIN (g \o p) = 1..Len(g \o p)
      /\ \A i \in 1..Len(g) + Len(p) :
            (g \o p)[i] = IF i <= Len(g) THEN g[i] ELSE p[i - Len(g)]
    BY SMT
<1>2. ASSUME NEW c \in Nat PROVE g \o Append(p, c) = Append(g \o p, c)
    BY SMT
<1>3. ASSUME p # <<>> PROVE Append(g, Head(p)) \o Tail(p) = g \o p
  <2> DEFINE a == Append(g, Head(p))
             s == a \o Tail(p)
  <2>1. /\ Tail(p) \in Seq(Nat) /\ Head(p) \in Nat /\ Len(p) # 0 /\ Len(Tail(p)) = Len(p) - 1
        /\ \A i \in 1..Len(Tail(p)) : Tail(p)[i] = p[i + 1]
        /\ Head(p) = p[1]
      BY <1>3, SMT
  <2>2. /\ a \in Seq(Nat) /\ Len(a) = Len(g) + 1 /\ a[Len(g) + 1] = Head(p)
        /\ \A i \in 1..Len(g) : a[i] = g[i]
      BY <2>1, SMT
  <2> HIDE DEF a
  <2>3. /\ s \in Seq(Nat) /\ Len(s) = Len(a) + Len(Tail(p))
        /\ \A i \in 1..Len(s) : s[i] = IF i <= Len(a) THEN a[i] ELSE Tail(p)[i - Len(a)]
    <3>1. a \in Seq(Nat) /\ Tail(p) \in Seq(Nat)
        BY <2>1, <2>2
    <3> QED  BY <3>1, ConcatProperties DEF s
  <2> HIDE DEF s
  <2>4. Len(s) = Len(g \o p)
      BY <1>1, <2>1, <2>2, <2>3, SMT
  <2>5. ASSUME NEW i \in 1..Len(s) PROVE s[i] = (g \o p)[i]
    <3>1. CASE i <= Len(g)
        BY <1>1, <2>1, <2>2, <2>3, <2>4, <3>1, SMT
    <3>2. CASE i = Len(g) + 1
        BY <1>1, <2>1, <2>2, <2>3, <2>4, <3>2, SMT
    <3>3. CASE i > Len(g) + 1
      <4>0. i \in Nat /\ i <= Len(g) + Len(p) /\ Len(p) \in Nat
          BY <1>1, <2>4, SMT
      <4>1. i - Len(a) \in 1..Len(Tail(p)) /\ i - Len(a) + 1 = i - Len(g) /\ ~(i <= Len(a))
          BY <1>1, <2>1, <2>2, <3>3, <4>0, SMT
      <4>2. s[i] = p[i - Len(g)]
          BY <2>1, <2>3, <4>1
      <4>3. ~(i <= Len(g)) /\ i \in 1..Len(g) + Len(p)
          BY <1>1, <3>3, <4>0, SMT
      <4> QED  BY <1>1, <4>2, <4>3
    <3>4. i \in Nat
        BY <1>1, <2>3, <2>4, SMT
    <3>5. i <= Len(g) \/ i = Len(g) + 1 \/ i > Len(g) + 1
        BY <1>1, <3>4, SMT
    <3> QED  BY <3>1, <3>2, <3>3, <3>5
  <2> HIDE DEF s
  <2>6. s = g \o p
      BY <1>1, <2>3, <2>4, <2>5, SeqEqual
  <2> QED  BY <2>6 DEF s, a
<1>5. \A i \in DOMAIN g : i \in DOMAIN (g \o p) /\ (g \o p)[i] = g[i]
    BY <1>1, SMT
<1>6. \A i \in DOMAIN p : Len(g) + i \in DOMAIN (g \o p) /\ (g \o p)[Len(g) + i] = p[i]
  <2> TAKE i \in DOMAIN p
  <2>1. /\ Len(g) + i \in 1..Len(g) + Len(p) /\ ~(Len(g) + i <= Len(g))
        /\ (Len(g) + i) - Len(g) = i
      BY <1>1, SMT
  <2> QED  BY <1>1, <2>1
<1>7. Elements(g \o p) = Elements(g) \cup Elements(p)
  <2>1. ASSUME NEW i \in DOMAIN (g \o p) PROVE (g \o p)[i] \in Elements(g) \cup Elements(p)
    <3>1. CASE i <= Len(g)
        BY <1>1, <3>1, SMT DEF Elements
    <3>2. CASE i > Len(g)
      <4>1. i - Len(g) \in DOMAIN p /\ (g \o p)[i] = p[i - Len(g)]
          BY <1>1, <3>2, SMT
      <4> QED  BY <4>1 DEF Elements
    <3> QED  BY <1>1, <3>1, <3>2, SMT
  <2>2. ASSUME NEW i \in DOMAIN g PROVE g[i] \in Elements(g \o p)
    <3>1. i \in DOMAIN (g \o p) /\ (g \o p)[i] = g[i]
        BY <1>1, SMT
    <3> QED  BY <3>1 DEF Elements
  <2>3. ASSUME NEW i \in DOMAIN p PROVE p[i] \in Elements(g \o p)
    <3>1. Len(g) + i \in DOMAIN (g \o p) /\ (g \o p)[Len(g) + i] = p[i]
        BY <1>6
    <3> QED  BY <3>1 DEF Elements
  <2> QED  BY <2>1, <2>2, <2>3 DEF Elements
<1> QED  BY <1>1, <1>2, <1>3, <1>5, <1>6, <1>7

\* A connection comes, and joins the line or is lost.
LEMMA ConnsArrive ==
    ASSUME NEW s \in ServerRecs, NEW t \in ServerRecs, ConnsOf(s),
           t.came = s.came + 1, t.closed = s.closed,
           \/ Line(t) = Append(Line(s), s.came + 1) /\ t.lost = s.lost
           \/ Line(t) = Line(s) /\ t.lost = s.lost \cup {s.came + 1}
    PROVE  ConnsOf(t)
<1> DEFINE n == s.came + 1
           L == Line(s)
<1>1. /\ s.came \in Nat /\ n \in Nat /\ s.given \in Seq(Nat) /\ s.pending \in Seq(Nat)
      /\ 1..n = (1..s.came) \cup {n} /\ n \notin 1..s.came
    BY SMT DEF ServerRecs
<1>2. L \in Seq(Nat) /\ DOMAIN L = 1..Len(L)
    BY <1>1, LineFacts DEF Line
<1>3. /\ \A i, j \in DOMAIN L : i < j => L[i] < L[j]
      /\ Elements(L) \cup s.closed \cup s.lost = 1..s.came
      /\ Elements(L) \cap s.closed = {} /\ Elements(L) \cap s.lost = {}
      /\ s.closed \cap s.lost = {}
    BY DEF ConnsOf
<1> HIDE DEF L, n
<1>4. CASE Line(t) = Append(L, n) /\ t.lost = s.lost
  <2>1. /\ DOMAIN Append(L, n) = 1..Len(L) + 1 /\ Len(L) \in Nat
        /\ \A i \in 1..Len(L) : Append(L, n)[i] = L[i]
        /\ Append(L, n)[Len(L) + 1] = n
      BY <1>1, <1>2, SMT
  <2>2. Elements(Append(L, n)) = Elements(L) \cup {n}
      BY <1>2, <2>1, SMT DEF Elements
  <2>3. \A i \in 1..Len(L) : L[i] \in Nat /\ L[i] < n
    <3> TAKE i \in 1..Len(L)
    <3>1. L[i] \in 1..s.came
        BY <1>2, <1>3 DEF Elements
    <3> QED  BY <1>1, <3>1, SMT DEF n
  <2>4. \A i, j \in DOMAIN Append(L, n) : i < j => Append(L, n)[i] < Append(L, n)[j]
    <3> SUFFICES ASSUME NEW i \in 1..Len(L) + 1, NEW j \in 1..Len(L) + 1, i < j
                 PROVE  Append(L, n)[i] < Append(L, n)[j]
        BY <2>1
    <3>1. i \in 1..Len(L)
        BY <2>1, SMT
    <3>2. CASE j = Len(L) + 1
        BY <2>1, <2>3, <3>1, <3>2
    <3>3. CASE j \in 1..Len(L)
        BY <1>2, <1>3, <2>1, <3>1, <3>3
    <3> QED  BY <2>1, <3>2, <3>3, SMT
  <2> QED  BY <1>1, <1>3, <1>4, <2>2, <2>4 DEF ConnsOf, n
<1>5. CASE Line(t) = L /\ t.lost = s.lost \cup {n}
    BY <1>1, <1>3, <1>5 DEF ConnsOf, n
<1> QED  BY <1>4, <1>5 DEF L, n

\* The server closes the connections that nobody has accepted.
LEMMA ConnsDropped ==
    ASSUME NEW s \in ServerRecs, NEW t \in ServerRecs, ConnsOf(s),
           t.given = s.given, t.pending = <<>>, t.lost = s.lost, t.came = s.came,
           t.closed = s.closed \cup Elements(s.pending)
    PROVE  ConnsOf(t)
<1> DEFINE g == s.given
           p == s.pending
<1>1. g \in Seq(Nat) /\ p \in Seq(Nat) /\ <<>> \in Seq(Nat)
    BY DEF ServerRecs
<1>2. Line(t) = g /\ Line(s) = g \o p
  <2>1. g \o <<>> = g
      BY <1>1, SMT
  <2> QED  BY <2>1 DEF Line
<1>8. t.closed = s.closed \cup Elements(p)
    OBVIOUS
<1> HIDE DEF g, p
<1>3. /\ Elements(g \o p) = Elements(g) \cup Elements(p)
      /\ \A i \in DOMAIN g : i \in DOMAIN (g \o p) /\ (g \o p)[i] = g[i]
      /\ \A i \in DOMAIN p : Len(g) + i \in DOMAIN (g \o p) /\ (g \o p)[Len(g) + i] = p[i]
    BY <1>1, LineFacts
<1>4. /\ DOMAIN g = 1..Len(g) /\ DOMAIN p = 1..Len(p) /\ Len(g) \in Nat
      /\ \A i \in DOMAIN g : g[i] \in Nat
    BY <1>1, SMT
<1>5. /\ \A i, j \in DOMAIN (g \o p) : i < j => (g \o p)[i] < (g \o p)[j]
      /\ Elements(g \o p) \cup s.closed \cup s.lost = 1..s.came
      /\ Elements(g \o p) \cap s.closed = {} /\ Elements(g \o p) \cap s.lost = {}
      /\ s.closed \cap s.lost = {}
    BY <1>2 DEF ConnsOf
<1>6. \A i, j \in DOMAIN g : i < j => g[i] < g[j]
    BY <1>3, <1>5
<1>7. Elements(g) \cap Elements(p) = {}
  <2> SUFFICES ASSUME NEW i \in DOMAIN g, NEW j \in DOMAIN p, g[i] = p[j]
               PROVE  FALSE
      BY DEF Elements
  <2>1. i < Len(g) + j
      BY <1>4, SMT
  <2>2. g[i] < p[j]
      BY <1>3, <1>5, <2>1
  <2> QED  BY <1>4, <2>2, SMT
<1> QED  BY <1>2, <1>3, <1>5, <1>6, <1>7, <1>8 DEF ConnsOf

\* What await_resume of an accept leaves of a server, and reports.
LEMMA AwaitFacts ==
    ASSUME NEW o \in Ops, NEW s \in ServerRecs
    PROVE  LET t == AwaitResume(o, s)[1]
               r == AwaitResume(o, s)[2]
           IN  /\ t \in ServerRecs /\ r \in Results
               /\ t.handle = s.handle /\ t.bound = s.bound /\ t.listening = s.listening
               /\ t.waiter = s.waiter /\ t.uv = s.uv
               /\ Line(t) = Line(s) /\ t.closed = s.closed /\ t.lost = s.lost
               /\ t.came = s.came
               /\ s.pending = <<>> => t.pending = <<>>
               /\ o \in stopped => t.status = s.status /\ r = "cancelled"
               /\ o \notin stopped => t.status = "ok" /\ (r = "cancelled" <=> s.status = "cancelled")
<1> DEFINE t == AwaitResume(o, s)[1]
           r == AwaitResume(o, s)[2]
           g == [s EXCEPT !.pending = Tail(s.pending),
                          !.given = Append(s.given, Head(s.pending))]
<1>1. CASE o \in stopped
  <2>1. t = s /\ r = "cancelled"
      BY <1>1 DEF AwaitResume
  <2> QED  BY <1>1, <2>1 DEF Results
<1>2. CASE o \notin stopped /\ s.status # "ok"
  <2>1. t = [s EXCEPT !.status = "ok"] /\ r = s.status
      BY <1>2 DEF AwaitResume
  <2> HIDE DEF t, r
  <2>2. /\ t \in ServerRecs /\ t.status = "ok" /\ r \in {"error", "cancelled"}
        /\ t.handle = s.handle /\ t.bound = s.bound /\ t.listening = s.listening
        /\ t.waiter = s.waiter /\ t.uv = s.uv /\ t.given = s.given /\ t.pending = s.pending
        /\ t.closed = s.closed /\ t.lost = s.lost /\ t.came = s.came
      BY <1>2, <2>1 DEF ServerRecs
  <2> QED  BY <1>2, <2>1, <2>2 DEF t, r, Results, Line
<1>3. CASE o \notin stopped /\ s.status = "ok" /\ s.pending = <<>>
  <2>1. t = s /\ r = "error"
      BY <1>3 DEF AwaitResume
  <2> QED  BY <1>3, <2>1 DEF Results
<1>4. CASE o \notin stopped /\ s.status = "ok" /\ s.pending # <<>>
  <2>1. t = g /\ r = "ok"
      BY <1>4 DEF AwaitResume
  <2>2. s.pending \in Seq(Nat) /\ s.given \in Seq(Nat)
      BY DEF ServerRecs
  <2>3. Tail(s.pending) \in Seq(Nat) /\ Head(s.pending) \in Nat
      BY <1>4, <2>2, SMT
  <2>4. Append(s.given, Head(s.pending)) \in Seq(Nat)
      BY <2>2, <2>3, SMT
  <2>5. /\ g \in ServerRecs /\ g.status = s.status
        /\ g.handle = s.handle /\ g.bound = s.bound /\ g.listening = s.listening
        /\ g.waiter = s.waiter /\ g.uv = s.uv
        /\ g.given = Append(s.given, Head(s.pending)) /\ g.pending = Tail(s.pending)
        /\ g.closed = s.closed /\ g.lost = s.lost /\ g.came = s.came
      BY <2>2, <2>3, <2>4 DEF ServerRecs
  <2>6. Line(g) = Line(s)
    <3>1. Append(s.given, Head(s.pending)) \o Tail(s.pending) = s.given \o s.pending
        BY <1>4, <2>2, LineFacts
    <3> QED  BY <2>5, <3>1 DEF Line
  <2> HIDE DEF g, t, r
  <2> QED  BY <1>4, <2>1, <2>5, <2>6 DEF t, r, Results
<1> QED  BY <1>1, <1>2, <1>3, <1>4

\* The waiter of s is resumed: the server t after it, and the results f.
LEMMA ResumeFacts ==
    ASSUME NEW s \in ServerRecs
    PROVE  LET t == ResumeWaiter(s)[1]
               f == ResumeWaiter(s)[2]
           IN  /\ t \in ServerRecs /\ t.waiter = None
               /\ t.handle = s.handle /\ t.bound = s.bound /\ t.listening = s.listening
               /\ t.uv = s.uv /\ t.closed = s.closed /\ t.lost = s.lost /\ t.came = s.came
               /\ Line(t) = Line(s)
               /\ s.pending = <<>> => t.pending = <<>>
               /\ s.waiter = None => DOMAIN f = {} /\ t = s
               /\ s.waiter # None =>
                     /\ DOMAIN f = {s.waiter} /\ f[s.waiter] \in Results
                     /\ s.waiter \in stopped => t.status = s.status /\ f[s.waiter] = "cancelled"
                     /\ s.waiter \notin stopped =>
                          t.status = "ok" /\ (f[s.waiter] = "cancelled" <=> s.status = "cancelled")
<1> DEFINE t == ResumeWaiter(s)[1]
           f == ResumeWaiter(s)[2]
<1>1. CASE s.waiter = None
  <2>1. t = s /\ f = Nobody
      BY <1>1 DEF ResumeWaiter
  <2>2. DOMAIN Nobody = {}
      BY DEF Nobody
  <2> QED  BY <1>1, <2>1, <2>2
<1>2. CASE s.waiter # None
  <2> DEFINE w == s.waiter
             u == [s EXCEPT !.waiter = None]
             r == AwaitResume(w, u)
  <2>1. w \in Ops
      BY <1>2 DEF ServerRecs
  <2>2. /\ u \in ServerRecs /\ u.waiter = None /\ u.status = s.status
        /\ u.handle = s.handle /\ u.bound = s.bound /\ u.listening = s.listening
        /\ u.uv = s.uv /\ u.given = s.given /\ u.pending = s.pending
        /\ u.closed = s.closed /\ u.lost = s.lost /\ u.came = s.came
      BY DEF ServerRecs
  <2>3. Line(u) = Line(s)
      BY <2>2 DEF Line
  <2>4. t = r[1] /\ f = (w :> r[2])
      BY <1>2 DEF ResumeWaiter
  <2>5. DOMAIN f = {w} /\ f[w] = r[2]
      BY <2>4 DEF :>
  <2> HIDE DEF u, t, f, r
  <2>6. /\ r[1] \in ServerRecs /\ r[2] \in Results
        /\ r[1].handle = u.handle /\ r[1].bound = u.bound /\ r[1].listening = u.listening
        /\ r[1].waiter = u.waiter /\ r[1].uv = u.uv
        /\ Line(r[1]) = Line(u) /\ r[1].closed = u.closed /\ r[1].lost = u.lost
        /\ r[1].came = u.came
        /\ u.pending = <<>> => r[1].pending = <<>>
        /\ w \in stopped => r[1].status = u.status /\ r[2] = "cancelled"
        /\ w \notin stopped => r[1].status = "ok" /\ (r[2] = "cancelled" <=> u.status = "cancelled")
      BY <2>1, <2>2, AwaitFacts DEF r
  <2> QED  BY <1>2, <2>2, <2>3, <2>4, <2>5, <2>6 DEF t, f
<1> QED  BY <1>1, <1>2

\* An accept ends: the accepts that have been cancelled, with and without a stop.
LEMMA AcceptsStep ==
    ASSUME OpTypes, UNCHANGED <<call, stopped>>, NEW x \in Ops, result[x] # "cancelled",
           \A y \in Ops \ {x} : Kind(y) = "accept" => result'[y] = result[y]
    PROVE  /\ Cardinality(Accepts \ stopped) \in Nat
           /\ Cardinality(Accepts \cap stopped) \in Nat
           /\ Kind(x) = "accept" /\ result'[x] = "cancelled" =>
                 /\ Cardinality(Accepts' \ stopped')
                       = Cardinality(Accepts \ stopped) + (IF x \in stopped THEN 0 ELSE 1)
                 /\ Cardinality(Accepts' \cap stopped')
                       = Cardinality(Accepts \cap stopped) + (IF x \in stopped THEN 1 ELSE 0)
           /\ ~(Kind(x) = "accept" /\ result'[x] = "cancelled") => Accepts' = Accepts
<1>1. Accepts \subseteq Ops /\ x \notin Accepts
    BY DEF Accepts
<1>2. IsFiniteSet(Accepts \ stopped) /\ IsFiniteSet(Accepts \cap stopped)
  <2>1. Accepts \ stopped \subseteq Ops /\ Accepts \cap stopped \subseteq Ops
      BY <1>1
  <2> QED  BY <2>1, ConstFacts, FS_Subset
<1>3. ASSUME Kind(x) = "accept", result'[x] = "cancelled"
      PROVE  Accepts' = Accepts \cup {x}
    BY <1>3 DEF Accepts, Kind
<1>4. ASSUME ~(Kind(x) = "accept" /\ result'[x] = "cancelled")
      PROVE  Accepts' = Accepts
    BY <1>1, <1>4 DEF Accepts, Kind
<1>5. ASSUME Accepts' = Accepts \cup {x}
      PROVE  /\ Cardinality(Accepts' \ stopped')
                   = Cardinality(Accepts \ stopped) + (IF x \in stopped THEN 0 ELSE 1)
             /\ Cardinality(Accepts' \cap stopped')
                   = Cardinality(Accepts \cap stopped) + (IF x \in stopped THEN 1 ELSE 0)
  <2>1. CASE x \in stopped
    <3>1. /\ Accepts' \ stopped' = Accepts \ stopped
          /\ Accepts' \cap stopped' = (Accepts \cap stopped) \cup {x}
          /\ x \notin Accepts \cap stopped
        BY <1>1, <1>5, <2>1
    <3>2. Cardinality((Accepts \cap stopped) \cup {x}) = Cardinality(Accepts \cap stopped) + 1
        BY <1>2, <3>1, FS_AddElement
    <3>3. Cardinality(Accepts \ stopped) \in Nat
        BY <1>2, FS_CardinalityType
    <3>4. Cardinality(Accepts \ stopped) + 0 = Cardinality(Accepts \ stopped)
        BY <3>3
    <3>5. Cardinality(Accepts' \ stopped') = Cardinality(Accepts \ stopped) + 0
        BY <3>1, <3>4
    <3>6. Cardinality(Accepts' \cap stopped') = Cardinality(Accepts \cap stopped) + 1
        BY <3>1, <3>2
    <3> QED  BY <2>1, <3>5, <3>6
  <2>2. CASE x \notin stopped
    <3>1. /\ Accepts' \ stopped' = (Accepts \ stopped) \cup {x}
          /\ Accepts' \cap stopped' = Accepts \cap stopped
          /\ x \notin Accepts \ stopped
        BY <1>1, <1>5, <2>2
    <3>2. Cardinality((Accepts \ stopped) \cup {x}) = Cardinality(Accepts \ stopped) + 1
        BY <1>2, <3>1, FS_AddElement
    <3>3. Cardinality(Accepts \cap stopped) \in Nat
        BY <1>2, FS_CardinalityType
    <3>4. Cardinality(Accepts \cap stopped) + 0 = Cardinality(Accepts \cap stopped)
        BY <3>3
    <3>5. Cardinality(Accepts' \ stopped') = Cardinality(Accepts \ stopped) + 1
        BY <3>1, <3>2
    <3>6. Cardinality(Accepts' \cap stopped') = Cardinality(Accepts \cap stopped) + 0
        BY <3>1, <3>4
    <3> QED  BY <2>2, <3>5, <3>6
  <2> QED  BY <2>1, <2>2
<1> QED  BY <1>2, <1>3, <1>4, <1>5, FS_CardinalityType

\* The ops of D end.
LEMMA SetEnds ==
    ASSUME TypeOK, PlacesInv, NEW D, D \subseteq Ops,
           pc' \in [Ops -> Pcs], result' \in [Ops -> Results],
           \A x \in Ops : IF x \in D THEN pc'[x] = "done" /\ pc[x] \notin {"adding", "starting"}
                          ELSE pc'[x] = pc[x] /\ result'[x] = result[x],
           UNCHANGED <<call, stopped, busy>>, queue' \in Seq(Posts),
           \A x \in Ops : /\ In(<<"cancel", x>>, queue') => In(<<"cancel", x>>, queue)
                          /\ x \notin D /\ In(<<"cancel", x>>, queue) => In(<<"cancel", x>>, queue')
                          /\ In(<<"drop", x>>, queue') => In(<<"drop", x>>, queue)
    PROVE  /\ OpTypes' /\ PlacesInv'
           /\ \A K : (\A x \in D : Kind(x) \notin K) => KindsSame(K)
<1>1. OpTypes'
    BY DEF TypeOK, OpTypes
<1>2. ASSUME NEW x \in D PROVE Ends(x)
  <2>1. \A w \in {"add", "start"} : busy # <<w, x>>
      BY NewFacts
  <2> QED  BY <2>1 DEF Ends
<1>3. ASSUME NEW x \in Ops \ D PROVE Stays(x)
    BY DEF Stays
<1>4. PlacesInv'
    BY <1>2, <1>3, PlacesStep
<1>5. ASSUME NEW K, \A x \in D : Kind(x) \notin K PROVE KindsSame(K)
    BY <1>5 DEF KindsSame
<1> QED  BY <1>1, <1>4, <1>5

\* The accept that waited has been resumed.
LEMMA NobodyWaits ==
    ASSUME ServerInv, UNCHANGED call, server'.waiter = None,
           \A x \in Ops : Kind(x) = "accept" =>
              (pc'[x] = pc[x] /\ x # server.waiter) \/ pc'[x] = "done",
           server'.listening => server'.bound, server'.bound => server'.handle,
           server'.uv = "closed" => ~server'.handle,
           \A x \in Ops : In(<<"drop", x>>, queue') => ~server'.handle
    PROVE  WaiterInv'
<1>1. ASSUME NEW x \in Ops PROVE ~(pc'[x] = "waiting" /\ Kind(x) = "accept")
    BY DEF ServerInv, WaiterInv
<1> QED  BY <1>1, ConstFacts DEF WaiterInv, Kind

\* An accept.
LEMMA AcceptStep ==
    ASSUME ListenersInv, NEW o \in Ops, Accept(o), UNCHANGED <<procVars, watchVars>>
    PROVE  ListenersInv'
<1> DEFINE ready == o \in stopped \/ server.pending # <<>> \/ server.status # "ok"
<1>1. /\ fault = None /\ busy = None /\ pc[o] = "new" /\ Kind(o) = "accept"
      /\ UNCHANGED <<call, queue, stopped, busy, fault>>
      /\ \/ (End(o :> "error") \/ End(o :> "busy")) /\ server' = server
         \/ /\ ready /\ server' = AwaitResume(o, server)[1]
            /\ End(o :> AwaitResume(o, server)[2])
         \/ /\ ~ready /\ server.listening /\ server.waiter = None /\ At(o, "waiting")
            /\ server' = [server EXCEPT !.waiter = o]
    BY DEF Accept, Begins, Idle
<1>2. TypeOK /\ PlacesInv /\ ServerInv /\ OpTypes /\ server \in ServerRecs
    BY DEF ListenersInv, TypeOK, ServerTypes
<1>3. WaiterInv /\ ConnsInv /\ DebtInv /\ PlaceInv(o)
    BY <1>2 DEF ServerInv, PlacesInv
<1>4. result[o] = "none" /\ server.waiter # o
    BY <1>1, <1>3 DEF PlaceInv, WaiterInv
<1>5. \A W : QueueSame(W)
    BY <1>1 DEF QueueSame
<1>6. SUFFICES /\ OpTypes' /\ PlacesInv' /\ ServerTypes' /\ ServerInv'
               /\ KindsSame({"wait", "spawn", "close_signals", "close_watch"})
    BY <1>1, <1>5, ServerStepRest
<1>7. ASSUME NEW r \in Results, End(o :> r)
      PROVE  /\ OpTypes' /\ PlacesInv' /\ pc'[o] = "done" /\ result'[o] = r
             /\ \A x \in Ops \ {o} : pc'[x] = pc[x] /\ result'[x] = result[x]
             /\ KindsSame({"wait", "spawn", "close_signals", "close_watch"})
    BY <1>1, <1>2, <1>7, CallEnds
<1>8. CASE (End(o :> "error") \/ End(o :> "busy")) /\ server' = server
  <2>1. PICK r \in {"error", "busy"} : End(o :> r)
      BY <1>8
  <2>2. r \in Results /\ r # "cancelled"
      BY DEF Results
  <2>3. /\ OpTypes' /\ PlacesInv' /\ pc'[o] = "done" /\ result'[o] = r
        /\ \A x \in Ops \ {o} : pc'[x] = pc[x] /\ result'[x] = result[x]
        /\ KindsSame({"wait", "spawn", "close_signals", "close_watch"})
      BY <1>7, <2>1, <2>2
  <2>4. WaiterInv'
      BY <1>1, <1>3, <1>4, <1>8, <2>3 DEF WaiterInv, Kind
  <2>5. ConnsInv'
      BY <1>3, <1>8 DEF ConnsInv
  <2>6. DebtInv'
      BY <1>1, <1>2, <1>3, <1>4, <1>8, <2>2, <2>3, AcceptsStep DEF DebtInv
  <2> QED  BY <1>2, <1>8, <2>3, <2>4, <2>5, <2>6 DEF ServerInv, ServerTypes
<1>9. CASE ready /\ server' = AwaitResume(o, server)[1] /\ End(o :> AwaitResume(o, server)[2])
  <2> DEFINE r == AwaitResume(o, server)[2]
             t == AwaitResume(o, server)[1]
  <2>1. /\ t \in ServerRecs /\ r \in Results
        /\ t.handle = server.handle /\ t.bound = server.bound /\ t.listening = server.listening
        /\ t.waiter = server.waiter /\ t.uv = server.uv
        /\ Line(t) = Line(server) /\ t.closed = server.closed /\ t.lost = server.lost
        /\ t.came = server.came
        /\ server.pending = <<>> => t.pending = <<>>
        /\ o \in stopped => t.status = server.status /\ r = "cancelled"
        /\ o \notin stopped => t.status = "ok" /\ (r = "cancelled" <=> server.status = "cancelled")
      BY <1>2, AwaitFacts
  <2> HIDE DEF r, t
  <2>2. server' = t /\ End(o :> r)
      BY <1>9 DEF r, t
  <2>3. /\ OpTypes' /\ PlacesInv' /\ pc'[o] = "done" /\ result'[o] = r
        /\ \A x \in Ops \ {o} : pc'[x] = pc[x] /\ result'[x] = result[x]
        /\ KindsSame({"wait", "spawn", "close_signals", "close_watch"})
      BY <1>7, <2>1, <2>2
  <2>4. WaiterInv'
      BY <1>1, <1>3, <1>4, <2>1, <2>2, <2>3 DEF WaiterInv, Kind
  <2>5. ConnsInv'
      BY <1>3, <2>1, <2>2 DEF ConnsInv, ConnsOf
  <2>6. DebtInv'
    <3>1. /\ Cardinality(Accepts \ stopped) \in Nat
          /\ Cardinality(Accepts \cap stopped) \in Nat
          /\ result'[o] = "cancelled" =>
               /\ Cardinality(Accepts' \ stopped')
                     = Cardinality(Accepts \ stopped) + (IF o \in stopped THEN 0 ELSE 1)
               /\ Cardinality(Accepts' \cap stopped')
                     = Cardinality(Accepts \cap stopped) + (IF o \in stopped THEN 1 ELSE 0)
          /\ result'[o] # "cancelled" => Accepts' = Accepts
        BY <1>1, <1>2, <1>4, <2>3, AcceptsStep
    <3>2. CASE o \in stopped
        BY <1>3, <2>1, <2>2, <2>3, <3>1, <3>2, SMT DEF DebtInv
    <3>3. CASE o \notin stopped /\ r = "cancelled"
        BY <1>3, <2>1, <2>2, <2>3, <3>1, <3>3, SMT DEF DebtInv
    <3>4. CASE o \notin stopped /\ r # "cancelled"
      <4>1. Accepts' = Accepts /\ stopped' = stopped
          BY <1>1, <2>3, <3>1, <3>4
      <4> QED  BY <1>3, <2>1, <2>2, <3>4, <4>1 DEF DebtInv
    <3> QED  BY <3>2, <3>3, <3>4
  <2> QED  BY <2>1, <2>2, <2>3, <2>4, <2>5, <2>6 DEF ServerInv, ServerTypes
<1>10. CASE /\ ~ready /\ server.listening /\ server.waiter = None /\ At(o, "waiting")
            /\ server' = [server EXCEPT !.waiter = o]
  <2>1. pc' = [pc EXCEPT ![o] = "waiting"] /\ result' = result
      BY <1>10 DEF At
  <2>2. /\ pc' \in [Ops -> Pcs] /\ pc'[o] = "waiting"
        /\ \A x \in Ops \ {o} : pc'[x] = pc[x] /\ result'[x] = result[x]
      BY <1>2, <2>1 DEF OpTypes, Pcs
  <2>3. OpTypes'
      BY <1>1, <1>2, <2>1, <2>2 DEF OpTypes
  <2>4. PlacesInv'
    <3>1. PlaceInv(o)'
        BY <1>1, <1>3, <1>4, <1>10, <2>1, <2>2, ConstFacts DEF PlaceInv, Kind
    <3>2. ASSUME NEW x \in Ops \ {o} PROVE Stays(x)
        BY <1>1, <2>2 DEF Stays
    <3> QED  BY <1>1, <1>2, <3>1, <3>2, PlacesStep
  <2>5. KindsSame({"wait", "spawn", "close_signals", "close_watch"})
      BY <1>1, <2>2 DEF KindsSame
  <2>6. /\ server' \in ServerRecs /\ server'.waiter = o /\ server'.handle = server.handle
        /\ server'.bound = server.bound /\ server'.listening = server.listening
        /\ server'.status = server.status /\ server'.uv = server.uv
        /\ server'.given = server.given /\ server'.pending = server.pending
        /\ server'.closed = server.closed /\ server'.lost = server.lost
        /\ server'.came = server.came
      BY <1>2, <1>10 DEF ServerRecs
  <2>7. WaiterInv'
    <3>1. \A x \in Ops : server.waiter # x
        BY <1>10, ConstFacts
    <3> QED  BY <1>1, <1>3, <1>10, <2>2, <2>6, <3>1 DEF WaiterInv, Kind
  <2>8. ConnsInv'
      BY <1>3, <2>6 DEF ConnsInv, ConnsOf, Line, Elements
  <2>9. DebtInv'
    <3>1. Accepts' = Accepts
        BY <1>1, <2>1 DEF Accepts, Kind
    <3> QED  BY <1>1, <1>3, <2>6, <3>1 DEF DebtInv
  <2> QED  BY <2>3, <2>4, <2>5, <2>6, <2>7, <2>8, <2>9 DEF ServerInv, ServerTypes
<1> QED  BY <1>1, <1>8, <1>9, <1>10

\* The waiter, if there is one, is resumed on s, and the calls D of close() end.
LEMMA ServerResumes ==
    ASSUME ListenersInv, fault = None, UNCHANGED <<call, stopped, busy, procVars, watchVars>>,
           NEW s \in ServerRecs, s.waiter = server.waiter,
           NEW D, D \subseteq Ops,
           \A x \in D : Kind(x) = "close_server",
           pc' \in [Ops -> Pcs], result' \in [Ops -> Results], queue' \in Seq(Posts),
           \A x \in Ops : IF x \in D THEN pc'[x] = "done"
                          ELSE IF x \in DOMAIN ResumeWaiter(s)[2]
                               THEN pc'[x] = "done" /\ result'[x] = ResumeWaiter(s)[2][x]
                               ELSE pc'[x] = pc[x] /\ result'[x] = result[x],
           QueueSame({"close_process", "close_entries", "close_watch"}),
           \A x \in Ops : /\ In(<<"cancel", x>>, queue') => In(<<"cancel", x>>, queue)
                          /\ x # server.waiter /\ In(<<"cancel", x>>, queue) =>
                                In(<<"cancel", x>>, queue')
                          /\ In(<<"drop", x>>, queue') => In(<<"drop", x>>, queue),
           server' \in ServerRecs, server'.waiter = None,
           server'.status = ResumeWaiter(s)[1].status,
           server'.listening => server'.bound, server'.bound => server'.handle,
           server'.uv = "closed" => ~server'.handle,
           server.handle = FALSE => server'.handle = FALSE,
           server.uv = "closed" => server'.uv = "closed",
           ConnsInv',
           server.waiter = None /\ s.status = "cancelled" => server.status = "cancelled",
           server.waiter # None /\ server.waiter \notin stopped /\ s.status = "cancelled" =>
              server'.uv = "closed"
    PROVE  ListenersInv'
<1> DEFINE t == ResumeWaiter(s)[1]
           f == ResumeWaiter(s)[2]
           w == server.waiter
<1>1. TypeOK /\ PlacesInv /\ ServerInv /\ OpTypes /\ server \in ServerRecs
    BY DEF ListenersInv, TypeOK, ServerTypes
<1>2. WaiterInv /\ DebtInv
    BY <1>1 DEF ServerInv
<1>3. /\ w = None => DOMAIN f = {} /\ t = s
      /\ w # None =>
            /\ DOMAIN f = {w} /\ f[w] \in Results
            /\ w \in stopped => t.status = s.status /\ f[w] = "cancelled"
            /\ w \notin stopped => t.status = "ok" /\ (f[w] = "cancelled" <=> s.status = "cancelled")
    BY ResumeFacts
<1>4. server'.status = t.status
    OBVIOUS
<1>5. \A x \in Ops : IF x \in D THEN pc'[x] = "done"
                     ELSE IF x \in DOMAIN f THEN pc'[x] = "done" /\ result'[x] = f[x]
                     ELSE pc'[x] = pc[x] /\ result'[x] = result[x]
    OBVIOUS
<1> HIDE DEF t, f
<1> DEFINE G == D \cup DOMAIN f
<1>6. /\ G \subseteq Ops /\ \A x \in Ops : x \in DOMAIN f <=> x = w
      /\ \A x \in G : Kind(x) \in {"close_server", "accept"}
    BY <1>1, <1>2, <1>3, ConstFacts DEF WaiterInv, ServerRecs
<1>7. /\ OpTypes' /\ PlacesInv'
      /\ \A K : (\A x \in G : Kind(x) \notin K) => KindsSame(K)
  <2>1. ASSUME NEW x \in G PROVE pc[x] \notin {"adding", "starting"}
      BY <1>1, <1>6 DEF PlacesInv, PlaceInv
  <2>2. \A x \in Ops : IF x \in G THEN pc'[x] = "done" /\ pc[x] \notin {"adding", "starting"}
                       ELSE pc'[x] = pc[x] /\ result'[x] = result[x]
      BY <1>5, <2>1
  <2>3. \A x \in Ops : /\ In(<<"cancel", x>>, queue') => In(<<"cancel", x>>, queue)
                       /\ x \notin G /\ In(<<"cancel", x>>, queue) => In(<<"cancel", x>>, queue')
                       /\ In(<<"drop", x>>, queue') => In(<<"drop", x>>, queue)
      BY <1>6
  <2> HIDE DEF G
  <2> QED  BY <1>1, <1>6, <2>2, <2>3, SetEnds
<1>8. KindsSame({"wait", "spawn", "close_signals", "close_watch"})
  <2>1. \A x \in G : Kind(x) \notin {"wait", "spawn", "close_signals", "close_watch"}
      BY <1>6
  <2> HIDE DEF G
  <2> QED  BY <1>7, <2>1
<1>9. WaiterInv'
  <2>1. \A x \in Ops : Kind(x) = "accept" =>
           (pc'[x] = pc[x] /\ x # server.waiter) \/ pc'[x] = "done"
      BY <1>5, <1>6
  <2>2. \A x \in Ops : In(<<"drop", x>>, queue') => ~server'.handle
      BY <1>1, <1>2 DEF WaiterInv, ServerRecs
  <2> QED  BY <1>1, <2>1, <2>2, NobodyWaits
<1>10. DebtInv'
  <2>1. CASE w = None
    <3>1. \A x \in Ops : Kind(x) = "accept" => result'[x] = result[x]
        BY <1>3, <1>5, <2>1
    <3>2. Accepts' = Accepts
        BY <3>1 DEF Accepts, Kind
    <3>3. server'.status = "cancelled" => server.status = "cancelled"
        BY <1>3, <1>4, <2>1
    <3>4. IsFiniteSet(Accepts \ stopped) /\ IsFiniteSet(Accepts \cap stopped)
      <4>1. Accepts \ stopped \subseteq Ops /\ Accepts \cap stopped \subseteq Ops
          BY DEF Accepts
      <4> QED  BY <4>1, ConstFacts, FS_Subset
    <3>5. Cardinality(Accepts \ stopped) \in Nat /\ Cardinality(Accepts \cap stopped) \in Nat
        BY <3>4, FS_CardinalityType
    <3> QED  BY <1>2, <3>2, <3>3, <3>5, SMT DEF DebtInv
  <2>2. CASE w # None
    <3>1. /\ w \in Ops /\ w \notin D /\ Kind(w) = "accept" /\ pc[w] = "waiting"
          /\ result[w] = "none" /\ server.status = "ok" /\ server.uv # "closed"
        BY <1>1, <1>2, <2>2 DEF WaiterInv, ServerRecs, PlacesInv, PlaceInv
    <3>2. /\ result'[w] = f[w]
          /\ \A y \in Ops \ {w} : Kind(y) = "accept" => result'[y] = result[y]
        BY <1>5, <1>6, <3>1
    <3>3. /\ Cardinality(Accepts \ stopped) \in Nat
          /\ Cardinality(Accepts \cap stopped) \in Nat
          /\ result'[w] = "cancelled" =>
               /\ Cardinality(Accepts' \ stopped')
                     = Cardinality(Accepts \ stopped) + (IF w \in stopped THEN 0 ELSE 1)
               /\ Cardinality(Accepts' \cap stopped')
                     = Cardinality(Accepts \cap stopped) + (IF w \in stopped THEN 1 ELSE 0)
          /\ result'[w] # "cancelled" => Accepts' = Accepts
        BY <1>1, <3>1, <3>2, AcceptsStep
    <3>4. Cardinality(Accepts \ stopped) <= Cardinality(Accepts \cap stopped)
        BY <1>2, <3>1, <3>3, SMT DEF DebtInv
    <3>5. CASE w \in stopped
        BY <1>3, <2>2, <3>2, <3>3, <3>4, <3>5, SMT DEF DebtInv
    <3>6. CASE w \notin stopped /\ s.status = "cancelled"
        BY <1>3, <1>4, <2>2, <3>2, <3>3, <3>4, <3>6, SMT DEF DebtInv
    <3>7. CASE w \notin stopped /\ s.status # "cancelled"
      <4>1. Accepts' = Accepts /\ stopped' = stopped /\ server'.status # "cancelled"
          BY <1>3, <1>4, <2>2, <3>2, <3>3, <3>7
      <4> QED  BY <3>3, <3>4, <4>1, SMT DEF DebtInv
    <3> QED  BY <3>5, <3>6, <3>7
  <2> QED  BY <2>1, <2>2
<1> QED  BY <1>7, <1>8, <1>9, <1>10, ServerStepRest DEF ServerInv, ServerTypes

\* The same connections in another record.
LEMMA ConnsSame ==
    ASSUME NEW s, NEW t, ConnsOf(s), Line(t) = Line(s), t.closed = s.closed, t.lost = s.lost,
           t.came = s.came
    PROVE  ConnsOf(t)
    BY DEF ConnsOf

\* The invariant of the connections, read in the next state.
LEMMA ConnsNext ==
    ASSUME NEW t, server' = t, ConnsOf(t)
    PROVE  ConnsInv'
    BY DEF ConnsInv, ConnsOf, Line, Elements

\* The stop closure of an accept runs.
LEMMA CancelAcceptStep ==
    ASSUME ListenersInv, NEW o \in Ops, CancelAccept(o), UNCHANGED <<procVars, watchVars>>
    PROVE  ListenersInv'
<1>1. /\ fault = None /\ busy = None /\ queue # <<>> /\ Head(queue) = <<"cancel", o>>
      /\ Kind(o) = "accept" /\ queue' = Tail(queue) /\ UNCHANGED <<call, stopped, busy>>
    BY DEF CancelAccept, Posted, Idle
<1>2. TypeOK /\ PlacesInv /\ ServerInv /\ OpTypes /\ server \in ServerRecs /\ queue \in Seq(Posts)
    BY DEF ListenersInv, TypeOK, ServerTypes, OpTypes
<1>3. /\ queue' \in Seq(Posts) /\ In(<<"cancel", o>>, queue)
      /\ \A c : In(c, queue) <=> In(c, queue') \/ c = <<"cancel", o>>
    BY <1>1, <1>2, TakeFacts
<1>4. QueueSame({"close_process", "close_entries", "close_watch", "drop"})
    BY <1>1, <1>2, QueueKeeps
<1>5. QueueSame({"close_process", "close_entries", "close_watch"}) /\ QueueSame({"drop"})
    BY <1>4 DEF QueueSame
<1>6. o \in stopped
    BY <1>2, <1>3 DEF PlacesInv, PlaceInv
<1>7. CASE pc[o] = "done" /\ UNCHANGED <<server, pc, result>>
  <2>1. /\ OpTypes' /\ PlacesInv'
    <3>1. \A x \in Ops : IF x \in {o} THEN pc'[x] = "done" /\ pc[x] \notin {"adding", "starting"}
                         ELSE pc'[x] = pc[x] /\ result'[x] = result[x]
        BY <1>7
    <3>2. \A x \in Ops : /\ In(<<"cancel", x>>, queue') => In(<<"cancel", x>>, queue)
                         /\ x \notin {o} /\ In(<<"cancel", x>>, queue) => In(<<"cancel", x>>, queue')
                         /\ In(<<"drop", x>>, queue') => In(<<"drop", x>>, queue)
        BY <1>3
    <3>3. pc' \in [Ops -> Pcs] /\ result' \in [Ops -> Results]
        BY <1>2, <1>7 DEF OpTypes
    <3> QED  BY <1>1, <1>2, <1>3, <3>1, <3>2, <3>3, SetEnds
  <2>2. KindsSame({"wait", "spawn", "close_signals", "close_watch"}) /\ KindsSame({"accept"})
      BY <1>7 DEF KindsSame
  <2>3. ServerInv'
      BY <1>1, <1>2, <1>5, <1>7, <2>2, ServerFrame
  <2>4. ServerTypes'
      BY <1>2, <1>7 DEF ServerTypes
  <2> QED  BY <1>1, <1>5, <2>1, <2>2, <2>3, <2>4, ServerStepRest
<1>8. CASE pc[o] = "waiting" /\ LET r == ResumeWaiter([server EXCEPT !.status = "cancelled"])
                                IN  server' = r[1] /\ End(r[2])
  <2> DEFINE s == [server EXCEPT !.status = "cancelled"]
  <2>1. server' = ResumeWaiter(s)[1] /\ End(ResumeWaiter(s)[2])
      BY <1>8
  <2>2. /\ s \in ServerRecs /\ s.waiter = server.waiter /\ s.handle = server.handle
        /\ s.bound = server.bound /\ s.listening = server.listening /\ s.uv = server.uv
        /\ s.given = server.given /\ s.pending = server.pending /\ s.closed = server.closed
        /\ s.lost = server.lost /\ s.came = server.came
      BY <1>2 DEF ServerRecs
  <2> HIDE DEF s
  <2>3. server.waiter = o /\ server.waiter # None
      BY <1>1, <1>2, <1>8, ConstFacts DEF ServerInv, WaiterInv
  <2>4. /\ server' \in ServerRecs /\ server'.waiter = None
        /\ server'.handle = s.handle /\ server'.bound = s.bound
        /\ server'.listening = s.listening /\ server'.uv = s.uv
        /\ server'.closed = s.closed /\ server'.lost = s.lost /\ server'.came = s.came
        /\ Line(server') = Line(s)
        /\ DOMAIN ResumeWaiter(s)[2] = {o} /\ ResumeWaiter(s)[2][o] \in Results
      BY <2>1, <2>2, <2>3, ResumeFacts
  <2>5. /\ pc' \in [Ops -> Pcs] /\ result' \in [Ops -> Results]
        /\ \A x \in Ops : IF x \in DOMAIN ResumeWaiter(s)[2]
                          THEN pc'[x] = "done" /\ result'[x] = ResumeWaiter(s)[2][x]
                          ELSE pc'[x] = pc[x] /\ result'[x] = result[x]
    <3> DEFINE f == ResumeWaiter(s)[2]
    <3>1. DOMAIN f \subseteq Ops /\ (\A x \in DOMAIN f : f[x] \in Results) /\ End(f)
        BY <2>1, <2>4
    <3> HIDE DEF f
    <3>2. /\ pc' \in [Ops -> Pcs] /\ result' \in [Ops -> Results]
          /\ \A x \in Ops : IF x \in DOMAIN f THEN pc'[x] = "done" /\ result'[x] = f[x]
                            ELSE pc'[x] = pc[x] /\ result'[x] = result[x]
        BY <1>2, <3>1, EndFacts
    <3> QED  BY <3>2 DEF f
  <2>6. ConnsInv'
    <3>1. Line(s) = Line(server)
        BY <2>2 DEF Line
    <3>2. ConnsOf(server)
        BY <1>2 DEF ServerInv, ConnsInv
    <3>3. /\ Line(server') = Line(server) /\ server'.closed = server.closed
          /\ server'.lost = server.lost /\ server'.came = server.came
        BY <2>2, <2>4, <3>1
    <3>4. ConnsOf(server')
        BY <3>2, <3>3, ConnsSame
    <3> QED  BY <3>4, ConnsNext
  <2>7. /\ server'.listening => server'.bound
        /\ server'.bound => server'.handle
        /\ server'.uv = "closed" => ~server'.handle
        /\ server.handle = FALSE => server'.handle = FALSE
        /\ server.uv = "closed" => server'.uv = "closed"
        /\ server.waiter = None /\ s.status = "cancelled" => server.status = "cancelled"
        /\ server.waiter # None /\ server.waiter \notin stopped /\ s.status = "cancelled" =>
              server'.uv = "closed"
      BY <1>2, <1>6, <2>2, <2>3, <2>4 DEF ServerInv, WaiterInv
  <2>8. \A x \in Ops : /\ In(<<"cancel", x>>, queue') => In(<<"cancel", x>>, queue)
                       /\ x # server.waiter /\ In(<<"cancel", x>>, queue) =>
                             In(<<"cancel", x>>, queue')
                       /\ In(<<"drop", x>>, queue') => In(<<"drop", x>>, queue)
      BY <1>3, <2>3
  <2>9. server'.status = ResumeWaiter(s)[1].status
      BY <2>1
  <2> DEFINE nobody == {}
  <2>10. nobody \subseteq Ops /\ (\A x \in nobody : Kind(x) = "close_server")
         /\ \A x \in Ops : IF x \in nobody THEN pc'[x] = "done"
                          ELSE IF x \in DOMAIN ResumeWaiter(s)[2]
                               THEN pc'[x] = "done" /\ result'[x] = ResumeWaiter(s)[2][x]
                               ELSE pc'[x] = pc[x] /\ result'[x] = result[x]
      BY <2>5
  <2> HIDE DEF nobody
  <2> QED  BY <1>1, <1>3, <1>5, <2>2, <2>4, <2>5, <2>6, <2>7, <2>8, <2>9, <2>10, ServerResumes
<1> QED  BY <1>7, <1>8 DEF CancelAccept

\* A connection, or its error, arrives.
LEMMA OnConnectionStep ==
    ASSUME ListenersInv, OnConnection, UNCHANGED <<procVars, watchVars>>
    PROVE  ListenersInv'
<1> DEFINE c == server.came + 1
           s0 == [server EXCEPT !.came = c]
           s1 == [s0 EXCEPT !.lost = @ \cup {c}]
           s2 == [s0 EXCEPT !.lost = @ \cup {c}, !.status = "error"]
           s3 == [s0 EXCEPT !.pending = Append(@, c), !.status = "ok"]
<1>1. /\ fault = None /\ busy = None /\ server.uv = "listening"
      /\ UNCHANGED <<call, queue, stopped, busy, fault>>
      /\ \/ ~s0.handle /\ server' = s1 /\ End(Nobody)
         \/ /\ s0.handle /\ server' = ResumeWaiter(s2)[1] /\ End(ResumeWaiter(s2)[2])
         \/ /\ s0.handle /\ server' = ResumeWaiter(s3)[1] /\ End(ResumeWaiter(s3)[2])
    BY DEF OnConnection, Idle
<1>2. TypeOK /\ PlacesInv /\ ServerInv /\ OpTypes /\ server \in ServerRecs
    BY DEF ListenersInv, TypeOK, ServerTypes
<1>3. c \in Nat /\ server.pending \in Seq(Nat) /\ Append(server.pending, c) \in Seq(Nat)
      /\ server.given \in Seq(Nat)
    BY <1>2, SMT DEF ServerRecs
<1>4. /\ s0.handle = server.handle
      /\ s1 \in ServerRecs /\ s1.waiter = server.waiter /\ s1.handle = server.handle
      /\ s1.bound = server.bound /\ s1.listening = server.listening /\ s1.uv = server.uv
      /\ s1.given = server.given /\ s1.pending = server.pending /\ s1.closed = server.closed
      /\ s1.lost = server.lost \cup {c} /\ s1.came = c /\ s1.status = server.status
    BY <1>2, <1>3 DEF ServerRecs
<1>5. /\ s2 \in ServerRecs /\ s2.waiter = server.waiter /\ s2.handle = server.handle
      /\ s2.bound = server.bound /\ s2.listening = server.listening /\ s2.uv = server.uv
      /\ s2.given = server.given /\ s2.pending = server.pending /\ s2.closed = server.closed
      /\ s2.lost = server.lost \cup {c} /\ s2.came = c /\ s2.status = "error"
    BY <1>2, <1>3 DEF ServerRecs
<1>6. /\ s3 \in ServerRecs /\ s3.waiter = server.waiter /\ s3.handle = server.handle
      /\ s3.bound = server.bound /\ s3.listening = server.listening /\ s3.uv = server.uv
      /\ s3.given = server.given /\ s3.pending = Append(server.pending, c)
      /\ s3.closed = server.closed /\ s3.lost = server.lost /\ s3.came = c /\ s3.status = "ok"
    BY <1>2, <1>3 DEF ServerRecs
<1> HIDE DEF s0, s1, s2, s3
<1>7. Line(s1) = Line(server) /\ Line(s2) = Line(server) /\ Line(s3) = Append(Line(server), c)
  <2>1. server.given \o Append(server.pending, c) = Append(server.given \o server.pending, c)
      BY <1>3, LineFacts
  <2> QED  BY <1>4, <1>5, <1>6, <2>1 DEF Line
<1>8. ConnsOf(s1) /\ ConnsOf(s2) /\ ConnsOf(s3)
  <2>1. ConnsOf(server)
      BY <1>2 DEF ServerInv, ConnsInv
  <2>2. ConnsOf(s1)
      BY <1>2, <1>4, <1>7, <2>1, ConnsArrive
  <2>3. ConnsOf(s2)
      BY <1>2, <1>5, <1>7, <2>1, ConnsArrive
  <2>4. ConnsOf(s3)
      BY <1>2, <1>6, <1>7, <2>1, ConnsArrive
  <2> QED  BY <2>2, <2>3, <2>4
<1>9. \A W : QueueSame(W)
    BY <1>1 DEF QueueSame
<1>10. queue' \in Seq(Posts)
    BY <1>1, <1>2 DEF OpTypes
<1>11. ASSUME ~server.handle, server' = s1, End(Nobody)
       PROVE  ListenersInv'
  <2>1. UNCHANGED <<pc, result>>
      BY <1>2, <1>11, EndsNone
  <2>2. KindsSame({"wait", "spawn", "close_signals", "close_watch"}) /\ KindsSame({"accept"})
      BY <2>1 DEF KindsSame
  <2>3. OpTypes'
      BY <1>1, <1>2, <2>1 DEF OpTypes
  <2>4. PlacesInv'
      BY <1>1, <1>2, <2>1, PlacesStep DEF Stays
  <2>5. WaiterInv'
      BY <1>1, <1>2, <1>4, <1>11, <2>1 DEF ServerInv, WaiterInv, Kind
  <2>6. ConnsInv'
      BY <1>8, <1>11 DEF ConnsInv
  <2>7. Accepts' = Accepts
      BY <1>1, <2>1 DEF Accepts, Kind
  <2>8. DebtInv'
      BY <1>1, <1>2, <1>4, <1>11, <2>7 DEF ServerInv, DebtInv
  <2> QED  BY <1>1, <1>4, <1>9, <1>11, <2>2, <2>3, <2>4, <2>5, <2>6, <2>8, ServerStepRest
           DEF ServerInv, ServerTypes
<1>12. ASSUME NEW s \in ServerRecs, s.waiter = server.waiter, server.handle,
              s.handle = server.handle, s.bound = server.bound, s.listening = server.listening,
              s.uv = server.uv, s.status # "cancelled", ConnsOf(s),
              server' = ResumeWaiter(s)[1], End(ResumeWaiter(s)[2])
       PROVE  ListenersInv'
  <2> DEFINE f == ResumeWaiter(s)[2]
             t == ResumeWaiter(s)[1]
  <2>1. /\ t \in ServerRecs /\ t.waiter = None
        /\ t.handle = s.handle /\ t.bound = s.bound /\ t.listening = s.listening
        /\ t.uv = s.uv /\ t.closed = s.closed /\ t.lost = s.lost /\ t.came = s.came
        /\ Line(t) = Line(s)
        /\ s.waiter = None => DOMAIN f = {}
        /\ s.waiter # None => DOMAIN f = {s.waiter} /\ f[s.waiter] \in Results
      BY <1>12, ResumeFacts
  <2>2. server' = t /\ End(f) /\ server'.status = t.status
      BY <1>12
  <2>3. DOMAIN f \subseteq Ops /\ \A x \in DOMAIN f : f[x] \in Results
    <3>1. s.waiter # None => s.waiter \in Ops
        BY <1>12 DEF ServerRecs
    <3> QED  BY <2>1, <3>1
  <2> HIDE DEF f, t
  <2>4. /\ pc' \in [Ops -> Pcs] /\ result' \in [Ops -> Results]
        /\ \A x \in Ops : IF x \in DOMAIN f THEN pc'[x] = "done" /\ result'[x] = f[x]
                          ELSE pc'[x] = pc[x] /\ result'[x] = result[x]
      BY <1>2, <2>2, <2>3, EndFacts
  <2>5. ConnsInv'
    <3>1. ConnsOf(t)
        BY <1>12, <2>1, ConnsSame
    <3> QED  BY <2>2, <3>1, ConnsNext
  <2>6. /\ server'.listening => server'.bound
        /\ server'.bound => server'.handle
        /\ server'.uv = "closed" => ~server'.handle
        /\ server.handle = FALSE => server'.handle = FALSE
        /\ server.uv = "closed" => server'.uv = "closed"
        /\ server' \in ServerRecs /\ server'.waiter = None
      BY <1>1, <1>2, <1>12, <2>1, <2>2 DEF ServerInv, WaiterInv
  <2> DEFINE nobody == {}
  <2>7. nobody \subseteq Ops /\ (\A x \in nobody : Kind(x) = "close_server")
        /\ \A x \in Ops : IF x \in nobody THEN pc'[x] = "done"
                          ELSE IF x \in DOMAIN ResumeWaiter(s)[2]
                               THEN pc'[x] = "done" /\ result'[x] = ResumeWaiter(s)[2][x]
                               ELSE pc'[x] = pc[x] /\ result'[x] = result[x]
      BY <2>4 DEF f
  <2> HIDE DEF nobody
  <2>8. server'.status = ResumeWaiter(s)[1].status
      BY <2>2 DEF t
  <2> QED  BY <1>1, <1>9, <1>10, <1>12, <2>4, <2>5, <2>6, <2>7, <2>8, ServerResumes
<1>13. CASE ~s0.handle /\ server' = s1 /\ End(Nobody)
    BY <1>4, <1>11, <1>13
<1>14. CASE s0.handle /\ server' = ResumeWaiter(s2)[1] /\ End(ResumeWaiter(s2)[2])
    BY <1>4, <1>5, <1>8, <1>12, <1>14
<1>15. CASE s0.handle /\ server' = ResumeWaiter(s3)[1] /\ End(ResumeWaiter(s3)[2])
    BY <1>4, <1>6, <1>8, <1>12, <1>15
<1> QED  BY <1>1, <1>13, <1>14, <1>15

\* What the loop's part of close() leaves of a server.
LEMMA DropFacts ==
    ASSUME NEW s \in ServerRecs
    PROVE  LET u == IF s.waiter = None THEN s ELSE [s EXCEPT !.status = "cancelled"]
               d == Drop(s)[1]
           IN  /\ u \in ServerRecs /\ u.waiter = s.waiter
               /\ u.status = IF s.waiter = None THEN s.status ELSE "cancelled"
               /\ Drop(s)[2] = ResumeWaiter(u)[2]
               /\ d \in ServerRecs /\ d.waiter = None /\ d.status = ResumeWaiter(u)[1].status
               /\ d.handle = s.handle /\ d.bound = s.bound /\ d.listening = s.listening
               /\ d.uv = "closed"
               /\ ConnsOf(s) => ConnsOf(d)
               /\ DOMAIN Drop(s)[2] \subseteq {s.waiter} \cap Ops
               /\ \A x \in DOMAIN Drop(s)[2] : Drop(s)[2][x] \in Results
<1> DEFINE u == IF s.waiter = None THEN s ELSE [s EXCEPT !.status = "cancelled"]
           r == ResumeWaiter(u)[1]
           f == ResumeWaiter(u)[2]
           d == [r EXCEPT !.closed = @ \cup {r.pending[i] : i \in DOMAIN r.pending},
                          !.pending = <<>>, !.uv = "closed"]
<1>1. /\ u \in ServerRecs /\ u.waiter = s.waiter
      /\ u.status = (IF s.waiter = None THEN s.status ELSE "cancelled")
      /\ u.handle = s.handle /\ u.bound = s.bound /\ u.listening = s.listening
      /\ u.given = s.given /\ u.pending = s.pending /\ u.closed = s.closed /\ u.lost = s.lost
      /\ u.came = s.came
    BY DEF ServerRecs
<1>2. Drop(s)[1] = d /\ Drop(s)[2] = f
    BY DEF Drop
<1> HIDE DEF u
<1>3. /\ r \in ServerRecs /\ r.waiter = None
      /\ r.handle = u.handle /\ r.bound = u.bound /\ r.listening = u.listening
      /\ r.uv = u.uv /\ r.closed = u.closed /\ r.lost = u.lost /\ r.came = u.came
      /\ Line(r) = Line(u)
      /\ u.waiter = None => DOMAIN f = {}
      /\ u.waiter # None => DOMAIN f = {u.waiter} /\ f[u.waiter] \in Results
    BY <1>1, ResumeFacts
<1> HIDE DEF r, f
<1>4. Elements(r.pending) \subseteq Nat
    BY <1>3 DEF ServerRecs, Elements
<1>5. <<>> \in Seq(Nat)
    BY SMT
<1>6. /\ d \in ServerRecs /\ d.waiter = None /\ d.status = r.status
      /\ d.handle = r.handle /\ d.bound = r.bound /\ d.listening = r.listening
      /\ d.uv = "closed" /\ d.closed = r.closed \cup Elements(r.pending) /\ d.pending = <<>>
      /\ d.given = r.given /\ d.lost = r.lost /\ d.came = r.came
    BY <1>3, <1>4, <1>5 DEF ServerRecs, Elements
<1> HIDE DEF d
<1>7. ASSUME ConnsOf(s) PROVE ConnsOf(d)
  <2>1. Line(u) = Line(s)
      BY <1>1 DEF Line
  <2>2. ConnsOf(u)
      BY <1>1, <1>7, <2>1, ConnsSame
  <2>3. ConnsOf(r)
      BY <1>3, <2>2, ConnsSame
  <2> QED  BY <1>3, <1>6, <2>3, ConnsDropped
<1>8. DOMAIN f \subseteq {s.waiter} \cap Ops /\ \A x \in DOMAIN f : f[x] \in Results
    BY <1>1, <1>3 DEF ServerRecs
<1> QED  BY <1>1, <1>2, <1>3, <1>6, <1>7, <1>8 DEF u, r, f

\* The loop's part of close() runs for the call o.
LEMMA DropStep ==
    ASSUME ListenersInv, fault = None, UNCHANGED <<call, stopped, busy, procVars, watchVars>>,
           NEW o \in Ops, Kind(o) = "close_server",
           NEW s \in ServerRecs, s.waiter = server.waiter, s.status = server.status,
           ~s.handle, ~s.bound, ~s.listening, ConnsOf(s),
           server' = Drop(s)[1], End((o :> "ok") @@ Drop(s)[2]),
           queue' \in Seq(Posts), QueueSame({"close_process", "close_entries", "close_watch"}),
           \A x \in Ops : /\ In(<<"cancel", x>>, queue') <=> In(<<"cancel", x>>, queue)
                          /\ In(<<"drop", x>>, queue') => In(<<"drop", x>>, queue)
    PROVE  ListenersInv'
<1> DEFINE u == IF s.waiter = None THEN s ELSE [s EXCEPT !.status = "cancelled"]
           f == ResumeWaiter(u)[2]
           d == Drop(s)[1]
           D == {o}
<1>1. TypeOK /\ PlacesInv /\ ServerInv /\ OpTypes /\ server \in ServerRecs
    BY DEF ListenersInv, TypeOK, ServerTypes
<1>2. /\ u \in ServerRecs /\ u.waiter = s.waiter
      /\ u.status = (IF s.waiter = None THEN s.status ELSE "cancelled")
      /\ Drop(s)[2] = f
      /\ d \in ServerRecs /\ d.waiter = None /\ d.status = ResumeWaiter(u)[1].status
      /\ d.handle = s.handle /\ d.bound = s.bound /\ d.listening = s.listening
      /\ d.uv = "closed" /\ ConnsOf(d)
      /\ DOMAIN f \subseteq {s.waiter} \cap Ops
      /\ \A x \in DOMAIN f : f[x] \in Results
    BY DropFacts
<1>3. server' = d /\ End((o :> "ok") @@ f)
    BY <1>2
<1> HIDE DEF u, f, d
<1>4. /\ pc' \in [Ops -> Pcs] /\ result' \in [Ops -> Results]
      /\ pc'[o] = "done"
      /\ \A x \in Ops \ {o} : IF x \in DOMAIN f THEN pc'[x] = "done" /\ result'[x] = f[x]
                             ELSE pc'[x] = pc[x] /\ result'[x] = result[x]
  <2>1. server.waiter # o
      BY <1>1 DEF ServerInv, WaiterInv
  <2>2. DOMAIN f \subseteq Ops \ {o} /\ "ok" \in Results
      BY <1>2, <2>1 DEF Results
  <2> QED  BY <1>1, <1>2, <1>3, <2>2, EndsWith
<1>5. /\ D \subseteq Ops /\ (\A x \in D : Kind(x) = "close_server")
      /\ \A x \in Ops : IF x \in D THEN pc'[x] = "done"
                       ELSE IF x \in DOMAIN ResumeWaiter(u)[2]
                            THEN pc'[x] = "done" /\ result'[x] = ResumeWaiter(u)[2][x]
                            ELSE pc'[x] = pc[x] /\ result'[x] = result[x]
    BY <1>4 DEF f
<1> HIDE DEF D
<1>6. ConnsInv'
    BY <1>2, <1>3, ConnsNext
<1>7. /\ server' \in ServerRecs /\ server'.waiter = None
      /\ server'.status = ResumeWaiter(u)[1].status
      /\ server'.listening => server'.bound
      /\ server'.bound => server'.handle
      /\ server'.uv = "closed" /\ server'.handle = FALSE
    BY <1>2, <1>3 DEF ServerRecs
<1>8. /\ u \in ServerRecs /\ u.waiter = server.waiter
      /\ server.waiter = None /\ u.status = "cancelled" => server.status = "cancelled"
    BY <1>2
<1> QED  BY <1>4, <1>5, <1>6, <1>7, <1>8, ServerResumes

\* close() of a server: on the loop thread, or by another thread.
LEMMA CloseServerStep ==
    ASSUME ListenersInv, NEW o \in Ops, CloseServer(o), UNCHANGED <<procVars, watchVars>>
    PROVE  ListenersInv'
<1>1. /\ fault = None /\ pc[o] = "new" /\ Kind(o) = "close_server"
      /\ UNCHANGED <<call, stopped, busy, fault>>
      /\ \/ ~server.handle /\ server' = server /\ queue' = queue /\ End(o :> "ok")
         \/ /\ server.handle /\ queue' = queue /\ server' = Drop(Shut(server))[1]
            /\ End((o :> "ok") @@ Drop(Shut(server))[2])
         \/ /\ server.handle /\ server' = Shut(server) /\ At(o, "calling")
            /\ queue' = Append(queue, <<"drop", o>>)
    BY DEF CloseServer, Begins, BeginsOutside, Idle
<1>2. TypeOK /\ PlacesInv /\ ServerInv /\ OpTypes /\ server \in ServerRecs /\ queue \in Seq(Posts)
    BY DEF ListenersInv, TypeOK, ServerTypes, OpTypes
<1> DEFINE s == Shut(server)
<1>3. /\ s \in ServerRecs /\ s.waiter = server.waiter /\ s.status = server.status
      /\ ~s.handle /\ ~s.bound /\ ~s.listening /\ s.handle = FALSE /\ s.uv = server.uv
      /\ s.given = server.given /\ s.pending = server.pending /\ s.closed = server.closed
      /\ s.lost = server.lost /\ s.came = server.came
    BY <1>2 DEF Shut, ServerRecs
<1>4. ConnsOf(s)
  <2>1. Line(s) = Line(server)
      BY <1>3 DEF Line
  <2> HIDE DEF s
  <2>2. ConnsOf(server)
      BY <1>2 DEF ServerInv, ConnsInv
  <2> QED  BY <1>3, <2>1, <2>2, ConnsSame
<1> HIDE DEF s
<1>5. CASE ~server.handle /\ server' = server /\ queue' = queue /\ End(o :> "ok")
  <2>1. "ok" \in Results
      BY DEF Results
  <2>2. /\ OpTypes' /\ PlacesInv'
        /\ \A K : Kind(o) \notin K => KindsSame(K)
        /\ \A W : QueueSame(W)
      BY <1>1, <1>2, <1>5, <2>1, CallEnds
  <2>3. KindsSame({"wait", "spawn", "close_watch", "close_signals"}) /\ KindsSame({"accept"})
      BY <1>1, <2>2
  <2>4. ServerInv'
      BY <1>1, <1>2, <1>5, <2>2, <2>3, ServerFrame
  <2>5. ServerTypes'
      BY <1>2, <1>5 DEF ServerTypes
  <2>6. KindsSame({"wait", "spawn", "close_signals", "close_watch"})
      BY <1>1, <2>2
  <2> QED  BY <1>1, <2>2, <2>4, <2>5, <2>6, ServerStepRest
<1>6. CASE /\ server.handle /\ queue' = queue /\ server' = Drop(s)[1]
           /\ End((o :> "ok") @@ Drop(s)[2])
  <2>1. /\ queue' \in Seq(Posts)
        /\ QueueSame({"close_process", "close_entries", "close_watch"})
        /\ \A x \in Ops : /\ In(<<"cancel", x>>, queue') <=> In(<<"cancel", x>>, queue)
                          /\ In(<<"drop", x>>, queue') => In(<<"drop", x>>, queue)
      BY <1>2, <1>6 DEF QueueSame
  <2> QED  BY <1>1, <1>3, <1>4, <1>6, <2>1, DropStep
<1>7. CASE /\ server.handle /\ server' = s /\ At(o, "calling")
           /\ queue' = Append(queue, <<"drop", o>>)
  <2>1. pc' = [pc EXCEPT ![o] = "calling"] /\ result' = result
      BY <1>7 DEF At
  <2>2. /\ pc' \in [Ops -> Pcs] /\ pc'[o] = "calling"
        /\ \A x \in Ops \ {o} : pc'[x] = pc[x]
      BY <1>2, <2>1 DEF OpTypes, Pcs
  <2>3. <<"drop", o>> \in Posts
      BY DEF Posts
  <2>4. /\ queue' \in Seq(Posts)
        /\ \A c : In(c, queue') <=> In(c, queue) \/ c = <<"drop", o>>
      BY <1>2, <1>7, <2>3, PostFacts
  <2>5. OpTypes'
      BY <1>1, <1>2, <2>1, <2>2, <2>4 DEF OpTypes
  <2>6. QueueSame({"close_process", "close_entries", "close_watch"})
      BY <1>2, <1>7, <2>3, QueueKeeps
  <2>7. PlacesInv'
    <3>1. PlaceInv(o)
        BY <1>2 DEF PlacesInv
    <3>2. PlaceInv(o)'
        BY <1>1, <2>1, <2>2, <2>4, <3>1 DEF PlaceInv, Kind
    <3>3. ASSUME NEW x \in Ops \ {o} PROVE Stays(x)
        BY <1>1, <2>1, <2>2, <2>4, <3>3 DEF Stays
    <3> QED  BY <1>1, <1>2, <3>2, <3>3, PlacesStep
  <2>8. KindsSame({"wait", "spawn", "close_signals", "close_watch"})
      BY <1>1, <2>1, <2>2 DEF KindsSame
  <2>9. WaiterInv'
    <3>1. WaiterInv
        BY <1>2 DEF ServerInv
    <3>2. \A x \in Ops : server'.waiter = x <=> pc'[x] = "waiting" /\ Kind(x)' = "accept"
        BY <1>1, <1>3, <1>7, <2>2, <3>1 DEF WaiterInv, Kind
    <3>3. \E x \in Ops : In(<<"drop", x>>, queue')
        BY <2>4
    <3> QED  BY <1>3, <1>7, <3>1, <3>2, <3>3 DEF WaiterInv
  <2>10. ConnsInv'
      BY <1>4, <1>7, ConnsNext
  <2>11. Accepts' = Accepts
      BY <1>1, <2>1 DEF Accepts, Kind
  <2>12. DebtInv'
      BY <1>1, <1>2, <1>3, <1>7, <2>11 DEF ServerInv, DebtInv
  <2>13. ServerTypes'
      BY <1>3, <1>7 DEF ServerTypes
  <2> QED  BY <1>1, <2>5, <2>6, <2>7, <2>8, <2>9, <2>10, <2>12, <2>13, ServerStepRest DEF ServerInv
<1> QED  BY <1>1, <1>5, <1>6, <1>7 DEF s

\* The closure of close() runs.
LEMMA RunDropStep ==
    ASSUME ListenersInv, NEW o \in Ops, RunDrop(o), UNCHANGED <<procVars, watchVars>>
    PROVE  ListenersInv'
<1>1. /\ fault = None /\ queue # <<>> /\ Head(queue) = <<"drop", o>> /\ queue' = Tail(queue)
      /\ server' = Drop(server)[1] /\ End((o :> "ok") @@ Drop(server)[2])
      /\ UNCHANGED <<call, stopped, busy, fault>>
    BY DEF RunDrop, Posted, Idle
<1>2. TypeOK /\ PlacesInv /\ ServerInv /\ OpTypes /\ server \in ServerRecs /\ queue \in Seq(Posts)
    BY DEF ListenersInv, TypeOK, ServerTypes, OpTypes
<1>3. /\ queue' \in Seq(Posts) /\ In(<<"drop", o>>, queue)
      /\ \A c : In(c, queue) <=> In(c, queue') \/ c = <<"drop", o>>
    BY <1>1, <1>2, TakeFacts
<1>4. QueueSame({"close_process", "close_entries", "close_watch"})
    BY <1>1, <1>2, QueueKeeps
<1>5. Kind(o) = "close_server"
    BY <1>2, <1>3 DEF PlacesInv, PlaceInv
<1>6. ~server.handle /\ ~server.bound /\ ~server.listening
    BY <1>2, <1>3 DEF ServerInv, WaiterInv
<1>7. ConnsOf(server)
    BY <1>2 DEF ServerInv, ConnsInv
<1>8. \A x \in Ops : /\ In(<<"cancel", x>>, queue') <=> In(<<"cancel", x>>, queue)
                     /\ In(<<"drop", x>>, queue') => In(<<"drop", x>>, queue)
    BY <1>3
<1> DEFINE s == server
<1>9. /\ s \in ServerRecs /\ s.waiter = server.waiter /\ s.status = server.status
      /\ ~s.handle /\ ~s.bound /\ ~s.listening /\ ConnsOf(s)
      /\ server' = Drop(s)[1] /\ End((o :> "ok") @@ Drop(s)[2])
    BY <1>1, <1>2, <1>6, <1>7
<1> HIDE DEF s
<1> QED  BY <1>1, <1>3, <1>4, <1>5, <1>8, <1>9, DropStep

\* Another thread stops the token of an op.
LEMMA RequestStopStep ==
    ASSUME ListenersInv, NEW o \in Ops, RequestStop(o), UNCHANGED <<server, procVars, watchVars>>
    PROVE  ListenersInv'
<1>1. /\ fault = None /\ stopped' = stopped \cup {o}
      /\ queue' = (IF pc[o] = "waiting" THEN Append(queue, <<"cancel", o>>) ELSE queue)
      /\ UNCHANGED <<call, pc, result, busy, fault>>
    BY DEF RequestStop
<1>2. TypeOK /\ PlacesInv /\ ServerInv /\ OpTypes /\ queue \in Seq(Posts)
    BY DEF ListenersInv, TypeOK, OpTypes
<1>3. <<"cancel", o>> \in Posts
    BY DEF Posts
<1>4. /\ queue' \in Seq(Posts)
      /\ \A c : In(c, queue) => In(c, queue')
      /\ \A c : In(c, queue') => In(c, queue) \/ (c = <<"cancel", o>> /\ pc[o] = "waiting")
      /\ pc[o] = "waiting" => In(<<"cancel", o>>, queue')
  <2>1. CASE pc[o] = "waiting"
      BY <1>1, <1>2, <1>3, <2>1, PostFacts
  <2>2. CASE pc[o] # "waiting"
      BY <1>1, <1>2, <2>2
  <2> QED  BY <2>1, <2>2
<1>5. /\ QueueSame({"drop"}) /\ QueueSame({"close_process"})
      /\ QueueSame({"close_entries", "close_watch"})
    BY <1>4 DEF QueueSame
<1>6. OpTypes'
    BY <1>1, <1>2, <1>4 DEF OpTypes
<1>7. PlacesInv'
  <2> SUFFICES ASSUME NEW x \in Ops PROVE PlaceInv(x)'
      BY DEF PlacesInv
  <2>1. PlaceInv(x)
      BY <1>2 DEF PlacesInv
  <2>2. /\ In(<<"cancel", x>>, queue') =>
             In(<<"cancel", x>>, queue) \/ (x = o /\ pc[o] = "waiting")
        /\ In(<<"drop", x>>, queue') => In(<<"drop", x>>, queue)
        /\ In(<<"cancel", x>>, queue) => In(<<"cancel", x>>, queue')
      BY <1>4
  <2>3. x \in stopped' => x \in stopped \/ x = o
      BY <1>1
  <2> QED  BY <1>1, <1>4, <2>1, <2>2, <2>3 DEF PlaceInv, Kind
<1>8. \A K : KindsSame(K)
    BY <1>1 DEF KindsSame
<1>9. ServerInv'
  <2>1. WaiterInv'
      BY <1>1, <1>2, <1>5 DEF ServerInv, WaiterInv, Kind, QueueSame
  <2>2. ConnsInv'
      BY <1>2 DEF ServerInv, ConnsInv, ConnsOf, Line, Elements
  <2>3. DebtInv'
    <3>1. Accepts' = Accepts /\ Accepts \subseteq Ops
        BY <1>1 DEF Accepts, Kind
    <3>2. /\ IsFiniteSet(Accepts \ stopped) /\ IsFiniteSet(Accepts \cap stopped')
      <4>1. Accepts \ stopped \subseteq Ops /\ Accepts \cap stopped' \subseteq Ops
          BY <3>1
      <4> QED  BY <4>1, ConstFacts, FS_Subset
    <3>3. Accepts \ stopped' \subseteq Accepts \ stopped
        BY <1>1
    <3>4. Accepts \cap stopped \subseteq Accepts \cap stopped'
        BY <1>1
    <3>5. /\ IsFiniteSet(Accepts \ stopped')
          /\ Cardinality(Accepts \ stopped') <= Cardinality(Accepts \ stopped)
        BY <3>2, <3>3, FS_Subset
    <3>6. /\ IsFiniteSet(Accepts \cap stopped)
          /\ Cardinality(Accepts \cap stopped) <= Cardinality(Accepts \cap stopped')
        BY <3>2, <3>4, FS_Subset
    <3>7. /\ Cardinality(Accepts \ stopped) \in Nat /\ Cardinality(Accepts \ stopped') \in Nat
          /\ Cardinality(Accepts \cap stopped) \in Nat
          /\ Cardinality(Accepts \cap stopped') \in Nat
        BY <3>2, <3>5, <3>6, FS_CardinalityType
    <3>8. DebtInv
        BY <1>2 DEF ServerInv
    <3> QED  BY <3>1, <3>5, <3>6, <3>7, <3>8, SMT DEF DebtInv
  <2> QED  BY <2>1, <2>2, <2>3 DEF ServerInv
<1>10. ProcessInv'
    BY <1>1, <1>2, <1>5, <1>8, ProcessFrame DEF ListenersInv
<1>11. SignalInv' /\ PathInv'
    BY <1>1, <1>2, <1>5, <1>6, <1>7, <1>8, WatchFrame DEF ListenersInv, WatchInv
<1>12. ServerTypes' /\ ProcessTypes' /\ WatchTypes'
    BY <1>1, <1>2 DEF TypeOK, ServerTypes, ProcessTypes, WatchTypes, procVars, watchVars
<1> QED  BY <1>6, <1>7, <1>9, <1>10, <1>11, <1>12 DEF ListenersInv, TypeOK, WatchInv

-----------------------------------------------------------------------------
(* The process                                                               *)

\* A step of the process.
LEMMA ProcessStepRest ==
    ASSUME ListenersInv, fault = None, UNCHANGED <<call, stopped, busy, server, watchVars>>,
           OpTypes', ProcessTypes', PlacesInv', ProcessInv',
           KindsSame({"accept", "close_signals", "close_watch"}),
           QueueSame({"drop", "close_entries", "close_watch"})
    PROVE  ListenersInv'
<1>1. /\ KindsSame({"accept"}) /\ KindsSame({"close_signals", "close_watch"})
      /\ QueueSame({"drop"}) /\ QueueSame({"close_entries", "close_watch"})
    BY DEF KindsSame, QueueSame
<1>2. ServerInv'
    BY <1>1, ServerFrame DEF ListenersInv, TypeOK
<1>3. SignalInv' /\ PathInv'
    BY <1>1, WatchFrame DEF ListenersInv, TypeOK, WatchInv
<1>4. ServerTypes' /\ WatchTypes'
    BY DEF ListenersInv, TypeOK, ServerTypes, WatchTypes, watchVars
<1> QED  BY <1>2, <1>3, <1>4 DEF ListenersInv, TypeOK, WatchInv

\* What await_resume of a wait leaves of a process, and reports.
LEMMA WaitFacts ==
    ASSUME NEW o \in Ops, NEW p \in ProcRecs, p.on[o] \in States
    PROVE  LET t == WaitResume(o, p)[1]
               r == WaitResume(o, p)[2]
               s == p.on[o]
           IN  /\ t \in ProcRecs /\ r \in {"ok", "error", "cancelled", "exited"}
               /\ t.state = p.state /\ t.on = p.on /\ t.child = p.child /\ t.handle = p.handle
               /\ t.running = p.running /\ t.exited = p.exited /\ t.waiter = p.waiter
               /\ t.closed = p.closed
               /\ t.status[s] = "ok"
               /\ \A q \in States \ {s} : t.status[q] = p.status[q]
               /\ r = "exited" => p.exited[s] /\ p.status[s] = "ok"
               /\ r = "cancelled" => o \in stopped \/ p.status[s] = "cancelled"
<1> DEFINE t == WaitResume(o, p)[1]
           r == WaitResume(o, p)[2]
           s == p.on[o]
           u == [p EXCEPT !.status[s] = "ok"]
<1>1. /\ u \in ProcRecs
      /\ u.state = p.state /\ u.on = p.on /\ u.child = p.child /\ u.handle = p.handle
      /\ u.running = p.running /\ u.exited = p.exited /\ u.waiter = p.waiter
      /\ u.closed = p.closed
      /\ u.status[s] = "ok"
      /\ \A q \in States \ {s} : u.status[q] = p.status[q]
    BY DEF ProcRecs
<1>2. p.status[s] \in {"ok", "cancelled"}
    BY DEF ProcRecs
<1>3. CASE p.status[s] = "cancelled" \/ o \in stopped
  <2>1. t = u /\ r = "cancelled"
      BY <1>3 DEF WaitResume
  <2> HIDE DEF u, t, r
  <2> QED  BY <1>1, <1>3, <2>1 DEF t, r
<1>4. CASE p.status[s] = "ok" /\ o \notin stopped /\ ~p.exited[s]
  <2>1. t = p /\ r = "error"
      BY <1>4 DEF WaitResume
  <2> QED  BY <1>4, <2>1
<1>5. CASE p.status[s] = "ok" /\ o \notin stopped /\ p.exited[s]
  <2>1. t = p /\ r = "exited"
      BY <1>5 DEF WaitResume
  <2> QED  BY <1>5, <2>1
<1> QED  BY <1>2, <1>3, <1>4, <1>5

\* The waiter of the state s is resumed: the process t after it, and the results f.
LEMMA ResumeProcFacts ==
    ASSUME NEW s \in States, NEW p \in ProcRecs,
           p.waiter[s] # None => p.on[p.waiter[s]] = s
    PROVE  LET t == ResumeProcWaiter(s, p)[1]
               f == ResumeProcWaiter(s, p)[2]
               w == p.waiter[s]
           IN  /\ t \in ProcRecs
               /\ t.state = p.state /\ t.on = p.on /\ t.child = p.child /\ t.handle = p.handle
               /\ t.running = p.running /\ t.exited = p.exited /\ t.closed = p.closed
               /\ t.waiter[s] = None
               /\ \A q \in States \ {s} : t.waiter[q] = p.waiter[q] /\ t.status[q] = p.status[q]
               /\ w = None => DOMAIN f = {} /\ t.status[s] = p.status[s]
               /\ w # None =>
                     /\ DOMAIN f = {w} /\ f[w] \in Results /\ t.status[s] = "ok"
                     /\ f[w] = "exited" => p.exited[s] /\ p.status[s] = "ok"
                     /\ f[w] = "cancelled" => w \in stopped \/ p.status[s] = "cancelled"
<1> DEFINE t == ResumeProcWaiter(s, p)[1]
           f == ResumeProcWaiter(s, p)[2]
           w == p.waiter[s]
<1>1. CASE w = None
  <2>1. t = p /\ f = Nobody
      BY <1>1 DEF ResumeProcWaiter
  <2>2. DOMAIN Nobody = {}
      BY DEF Nobody
  <2> QED  BY <1>1, <2>1, <2>2
<1>2. CASE w # None
  <2> DEFINE u == [p EXCEPT !.waiter[s] = None]
             r == WaitResume(w, u)
  <2>1. w \in Ops
      BY <1>2 DEF ProcRecs
  <2>2. /\ u \in ProcRecs /\ u.waiter[s] = None
        /\ \A q \in States \ {s} : u.waiter[q] = p.waiter[q]
        /\ u.state = p.state /\ u.on = p.on /\ u.child = p.child /\ u.handle = p.handle
        /\ u.running = p.running /\ u.exited = p.exited /\ u.status = p.status
        /\ u.closed = p.closed
      BY DEF ProcRecs
  <2>3. t = r[1] /\ f = (w :> r[2])
      BY <1>2 DEF ResumeProcWaiter
  <2>4. DOMAIN f = {w} /\ f[w] = r[2]
      BY <2>3 DEF :>
  <2>5. u.on[w] = s
      BY <1>2, <2>2
  <2> HIDE DEF u, t, f, r
  <2>6. /\ r[1] \in ProcRecs /\ r[2] \in {"ok", "error", "cancelled", "exited"}
        /\ r[1].state = u.state /\ r[1].on = u.on /\ r[1].child = u.child
        /\ r[1].handle = u.handle /\ r[1].running = u.running /\ r[1].exited = u.exited
        /\ r[1].waiter = u.waiter /\ r[1].closed = u.closed
        /\ r[1].status[s] = "ok"
        /\ \A q \in States \ {s} : r[1].status[q] = u.status[q]
        /\ r[2] = "exited" => u.exited[s] /\ u.status[s] = "ok"
        /\ r[2] = "cancelled" => w \in stopped \/ u.status[s] = "cancelled"
      BY <2>1, <2>2, <2>5, WaitFacts DEF r
  <2>7. r[2] \in Results
      BY <2>6 DEF Results
  <2> QED  BY <1>2, <2>2, <2>3, <2>4, <2>6, <2>7 DEF t, f
<1> QED  BY <1>1, <1>2

\* Children that go on as they are, but for the ones that end.
LEMMA ChildrenEnd ==
    ASSUME ListenersInv, UNCHANGED <<call, stopped, proc>>, KindsSame({"wait", "spawn"}),
           QueueSame({"close_process"}), children' \in Seq(ChildRecs),
           DOMAIN children' = DOMAIN children,
           \A h \in DOMAIN children :
              /\ children'[h].state = children[h].state
              /\ children'[h].reported = children[h].reported
              /\ children'[h].uv = children[h].uv
              /\ children'[h].alive => children[h].alive
    PROVE  ProcessInv' /\ ProcessTypes'
<1>1. \A o \in Ops : Kind(o) \in {"wait", "spawn"} =>
         pc'[o] = pc[o] /\ result'[o] = result[o]
    BY DEF KindsSame
<1>2. \A c : In(<<"close_process", c>>, queue') <=> In(<<"close_process", c>>, queue)
    BY DEF QueueSame
<1>3. \A o \in Ops : Kind(o)' = Kind(o)
    BY DEF Kind
<1>4. WaitInv /\ ChildInv
    BY DEF ListenersInv, ProcessInv
<1>5. ASSUME NEW s \in States PROVE WaiterAt(s)'
    BY <1>1, <1>3, <1>4 DEF WaitInv, WaiterAt
<1>6. ASSUME NEW o \in Ops, Kind(o) = "wait" PROVE AnswerAt(o)'
    BY <1>1, <1>4, <1>6 DEF WaitInv, AnswerAt
<1>7. ASSUME NEW o \in Ops, Kind(o) = "wait", pc'[o] = "waiting" PROVE WaitAt(o)'
    BY <1>1, <1>2, <1>4, <1>7 DEF WaitInv, WaitAt
<1>8. ASSUME NEW h \in DOMAIN children PROVE ChildAt(h)'
    BY <1>4 DEF ChildInv, ChildAt
<1>9. ASSUME NEW s \in States PROVE StateAt(s)'
    BY <1>2, <1>4 DEF ChildInv, StateAt
<1>10. WaitInv' /\ ChildInv'
    BY <1>3, <1>5, <1>6, <1>7, <1>8, <1>9 DEF WaitInv, ChildInv
<1>11. Spawned' = Spawned
    BY <1>1, <1>3 DEF Spawned
<1> QED  BY <1>10, <1>11 DEF ListenersInv, TypeOK, ProcessTypes, ProcessInv

\* A child ends by itself.
LEMMA ChildDiesStep ==
    ASSUME ListenersInv, NEW h \in DOMAIN children, ChildDies(h), UNCHANGED <<server, watchVars>>
    PROVE  ListenersInv'
<1>1. /\ fault = None /\ children' = [children EXCEPT ![h].alive = FALSE]
      /\ UNCHANGED <<call, pc, result, queue, stopped, busy, fault, proc>>
    BY DEF ChildDies, opVars
<1>2. TypeOK /\ PlacesInv /\ OpTypes /\ children \in Seq(ChildRecs)
    BY DEF ListenersInv, TypeOK, ProcessTypes
<1>3. (\A K : KindsSame(K)) /\ (\A W : QueueSame(W))
    BY <1>1 DEF KindsSame, QueueSame
<1>4. /\ DOMAIN children' = DOMAIN children /\ children' \in Seq(ChildRecs)
      /\ \A g \in DOMAIN children :
            /\ children'[g].state = children[g].state
            /\ children'[g].reported = children[g].reported
            /\ children'[g].uv = children[g].uv
            /\ children'[g].alive => children[g].alive
  <2>1. \A g \in DOMAIN children : children[g] \in ChildRecs
      BY <1>2, SMT
  <2>2. [children[h] EXCEPT !.alive = FALSE] \in ChildRecs
      BY <2>1 DEF ChildRecs
  <2> QED  BY <1>1, <1>2, <2>1, <2>2 DEF ChildRecs
<1>5. ProcessInv' /\ ProcessTypes'
    BY <1>1, <1>3, <1>4, ChildrenEnd
<1>6. OpTypes' /\ PlacesInv'
  <2>1. OpTypes'
      BY <1>1, <1>2 DEF OpTypes
  <2> QED  BY <1>1, <1>2, <2>1, PlacesStep DEF Stays
<1> QED  BY <1>1, <1>3, <1>5, <1>6, ProcessStepRest

\* kill() of the child.
LEMMA KillStep ==
    ASSUME ListenersInv, NEW o \in Ops, Kill(o), UNCHANGED <<server, watchVars>>
    PROVE  ListenersInv'
<1> DEFINE h == proc.handle[proc.state]
<1>1. /\ fault = None /\ pc[o] = "new" /\ Kind(o) = "kill"
      /\ UNCHANGED <<call, queue, stopped, busy, fault, proc>>
      /\ \E r \in Results : End(o :> r)
      /\ \/ children' = children
         \/ /\ h # 0
            /\ \E alive \in {children[h].alive, FALSE} :
                  children' = [children EXCEPT ![h].alive = alive]
    BY DEF Kill, Begins, Idle, Results
<1>2. /\ TypeOK /\ PlacesInv /\ OpTypes /\ children \in Seq(ChildRecs) /\ proc \in ProcRecs
      /\ ChildInv
    BY DEF ListenersInv, TypeOK, ProcessTypes, ProcessInv
<1>3. PICK r \in Results : End(o :> r)
    BY <1>1
<1>4. /\ OpTypes' /\ PlacesInv'
      /\ \A K : Kind(o) \notin K => KindsSame(K)
      /\ \A W : QueueSame(W)
    BY <1>1, <1>2, <1>3, CallEnds
<1>5. KindsSame({"wait", "spawn"}) /\ KindsSame({"accept", "close_signals", "close_watch"})
    BY <1>1, <1>4
<1>6. h # 0 => h \in DOMAIN children
  <2>1. proc.state \in States
      BY <1>2 DEF ProcRecs
  <2> QED  BY <1>2, <2>1 DEF ChildInv, StateAt
<1> HIDE DEF h
<1>7. /\ DOMAIN children' = DOMAIN children /\ children' \in Seq(ChildRecs)
      /\ \A g \in DOMAIN children :
            /\ children'[g].state = children[g].state
            /\ children'[g].reported = children[g].reported
            /\ children'[g].uv = children[g].uv
            /\ children'[g].alive => children[g].alive
  <2>1. \A g \in DOMAIN children : children[g] \in ChildRecs
      BY <1>2, SMT
  <2>2. CASE children' = children
      BY <1>2, <2>2
  <2>3. ASSUME h # 0, NEW alive \in {children[h].alive, FALSE},
               children' = [children EXCEPT ![h].alive = alive]
        PROVE  /\ DOMAIN children' = DOMAIN children /\ children' \in Seq(ChildRecs)
               /\ \A g \in DOMAIN children :
                     /\ children'[g].state = children[g].state
                     /\ children'[g].reported = children[g].reported
                     /\ children'[g].uv = children[g].uv
                     /\ children'[g].alive => children[g].alive
    <3>1. h \in DOMAIN children /\ alive \in BOOLEAN /\ (alive => children[h].alive)
        BY <1>6, <2>1, <2>3 DEF ChildRecs
    <3>2. [children[h] EXCEPT !.alive = alive] \in ChildRecs
        BY <2>1, <3>1 DEF ChildRecs
    <3> QED  BY <1>2, <2>1, <2>3, <3>1, <3>2 DEF ChildRecs
  <2> QED  BY <1>1, <2>2, <2>3
<1>8. ProcessInv' /\ ProcessTypes'
    BY <1>1, <1>4, <1>5, <1>7, ChildrenEnd
<1> QED  BY <1>1, <1>4, <1>5, <1>8, ProcessStepRest

\* The waiter of the state s, if there is one, is resumed on p.
LEMMA ProcResumes ==
    ASSUME ListenersInv, fault = None, UNCHANGED <<call, stopped, busy, server, watchVars>>,
           NEW s \in States, NEW p \in ProcRecs,
           p.waiter = proc.waiter, p.on = proc.on, p.child = proc.child, p.state = proc.state,
           p.handle = proc.handle, p.closed = proc.closed,
           \A q \in States : q # s \/ proc.waiter[s] = None => p.status[q] = "ok",
           proc' = ResumeProcWaiter(s, p)[1], End(ResumeProcWaiter(s, p)[2]),
           queue' \in Seq(Posts),
           \A x \in Ops : /\ In(<<"cancel", x>>, queue') => In(<<"cancel", x>>, queue)
                          /\ x # proc.waiter[s] /\ In(<<"cancel", x>>, queue) =>
                                In(<<"cancel", x>>, queue'),
           QueueSame({"drop", "close_entries", "close_watch"}),
           \A q \in States \ {s} : \A h \in Nat :
              In(<<"close_process", <<q, h>> >>, queue) => In(<<"close_process", <<q, h>> >>, queue'),
           children' \in Seq(ChildRecs), DOMAIN children' = DOMAIN children,
           \A h \in DOMAIN children :
              /\ children'[h].state = children[h].state
              /\ children'[h].alive => children[h].alive
              /\ children[h].state # s => /\ children'[h].reported = children[h].reported
                                          /\ children'[h].uv = children[h].uv,
           proc.waiter[s] # None /\ p.exited[s] /\ p.status[s] = "ok" =>
              ~children'[proc.child[proc.waiter[s]]].alive,
           proc.waiter[s] # None /\ p.status[s] = "cancelled" =>
              proc.waiter[s] \in stopped \/ proc.closed[s],
           ChildInv'
    PROVE  ListenersInv'
<1> DEFINE t == ResumeProcWaiter(s, p)[1]
           f == ResumeProcWaiter(s, p)[2]
           w == proc.waiter[s]
<1>1. /\ TypeOK /\ PlacesInv /\ OpTypes /\ proc \in ProcRecs /\ ProcessInv /\ WaitInv
    BY DEF ListenersInv, TypeOK, ProcessTypes, ProcessInv
<1>2. /\ w \in Ops \cup {None}
      /\ w # None => w \in Ops /\ pc[w] = "waiting" /\ Kind(w) = "wait" /\ proc.on[w] = s
  <2>1. w \in Ops \cup {None}
      BY <1>1 DEF ProcRecs
  <2> QED  BY <1>1, <2>1 DEF WaitInv, WaiterAt
<1>3. /\ t \in ProcRecs
      /\ t.state = p.state /\ t.on = p.on /\ t.child = p.child /\ t.handle = p.handle
      /\ t.running = p.running /\ t.exited = p.exited /\ t.closed = p.closed
      /\ t.waiter[s] = None
      /\ \A q \in States \ {s} : t.waiter[q] = p.waiter[q] /\ t.status[q] = p.status[q]
      /\ w = None => DOMAIN f = {} /\ t.status[s] = p.status[s]
      /\ w # None =>
            /\ DOMAIN f = {w} /\ f[w] \in Results /\ t.status[s] = "ok"
            /\ f[w] = "exited" => p.exited[s] /\ p.status[s] = "ok"
            /\ f[w] = "cancelled" => w \in stopped \/ p.status[s] = "cancelled"
  <2>1. p.waiter[s] # None => p.on[p.waiter[s]] = s
      BY <1>2
  <2> QED  BY <2>1, ResumeProcFacts
<1>4. proc' = t /\ End(f)
    OBVIOUS
<1> HIDE DEF t, f, w
<1>5. /\ pc' \in [Ops -> Pcs] /\ result' \in [Ops -> Results]
      /\ \A x \in Ops : IF x = w THEN pc'[x] = "done" /\ result'[x] = f[x]
                        ELSE pc'[x] = pc[x] /\ result'[x] = result[x]
  <2>1. DOMAIN f \subseteq Ops /\ \A x \in DOMAIN f : f[x] \in Results
      BY <1>2, <1>3
  <2>2. \A x \in Ops : x \in DOMAIN f <=> x = w
      BY <1>2, <1>3, ConstFacts
  <2> QED  BY <1>1, <1>4, <2>1, <2>2, EndFacts
<1> DEFINE D == {w} \cap Ops
<1>6. /\ D \subseteq Ops
      /\ \A x \in Ops : x \in D <=> x = w
      /\ \A x \in D : Kind(x) = "wait" /\ pc[x] = "waiting"
    BY <1>2, ConstFacts
<1> HIDE DEF D
<1>7. /\ OpTypes' /\ PlacesInv'
      /\ \A K : (\A x \in D : Kind(x) \notin K) => KindsSame(K)
  <2>1. \A x \in Ops : IF x \in D THEN pc'[x] = "done" /\ pc[x] \notin {"adding", "starting"}
                       ELSE pc'[x] = pc[x] /\ result'[x] = result[x]
      BY <1>5, <1>6
  <2>2. \A x \in Ops : /\ In(<<"cancel", x>>, queue') => In(<<"cancel", x>>, queue)
                       /\ x \notin D /\ In(<<"cancel", x>>, queue) => In(<<"cancel", x>>, queue')
                       /\ In(<<"drop", x>>, queue') => In(<<"drop", x>>, queue)
      BY <1>6 DEF w, QueueSame
  <2> QED  BY <1>1, <1>5, <1>6, <2>1, <2>2, SetEnds
<1>8. KindsSame({"accept", "close_signals", "close_watch"})
    BY <1>6, <1>7
<1>9. /\ proc'.on = proc.on /\ proc'.child = proc.child /\ proc'.handle = proc.handle
      /\ proc'.closed = proc.closed /\ proc'.state = proc.state
      /\ \A q \in States \ {s} : proc'.waiter[q] = proc.waiter[q] /\ proc'.status[q] = "ok"
      /\ proc'.waiter[s] = None
    BY <1>3, <1>4
<1>10. proc'.status[s] = "ok"
    BY <1>3, <1>4 DEF w
<1>11. \A o \in Ops : Kind(o)' = Kind(o)
    BY DEF Kind
<1>12. ASSUME NEW q \in States PROVE WaiterAt(q)'
  <2>1. WaiterAt(q)
      BY <1>1 DEF WaitInv
  <2>2. CASE q = s
      BY <1>9, <1>10, <2>2, ConstFacts DEF WaiterAt
  <2>3. CASE q # s
    <3>1. ASSUME NEW o \in Ops, proc'.waiter[q] = o
          PROVE  pc'[o] = "waiting" /\ Kind(o)' = "wait" /\ proc'.on[o] = q
      <4>1. proc.waiter[q] = o /\ pc[o] = "waiting" /\ Kind(o) = "wait" /\ proc.on[o] = q
          BY <1>9, <2>1, <2>3, <3>1 DEF WaiterAt
      <4>2. o # w
          BY <1>2, <2>3, <4>1, ConstFacts
      <4> QED  BY <1>5, <1>9, <1>11, <4>1, <4>2
    <3> QED  BY <1>9, <2>3, <3>1 DEF WaiterAt
  <2> QED  BY <2>2, <2>3
<1>13. ASSUME NEW o \in Ops, Kind(o) = "wait", pc'[o] = "waiting" PROVE WaitAt(o)'
  <2>1. o # w /\ pc[o] = "waiting"
      BY <1>5, <1>13
  <2>2. WaitAt(o)
      BY <1>1, <1>13, <2>1 DEF WaitInv
  <2>3. proc.on[o] \in States \ {s} /\ proc.waiter[proc.on[o]] = o
      BY <2>1, <2>2 DEF WaitAt, w
  <2>4. proc.child[o] \in Nat
      BY <1>1 DEF ProcRecs
  <2> QED  BY <1>9, <2>2, <2>3, <2>4 DEF WaitAt
<1>14. ASSUME NEW o \in Ops, Kind(o) = "wait" PROVE AnswerAt(o)'
  <2>1. AnswerAt(o)
      BY <1>1, <1>14 DEF WaitInv
  <2>2. CASE o # w
      BY <1>5, <1>9, <2>1, <2>2 DEF AnswerAt
  <2>3. CASE o = w
    <3>1. w # None /\ WaitAt(o) /\ pc[o] = "waiting" /\ proc.on[o] = s
        BY <1>1, <1>2, <1>14, <2>3, ConstFacts DEF WaitInv
    <3>2. proc.child[o] \in DOMAIN children
        BY <3>1 DEF WaitAt
    <3>3. result'[o] = f[w]
        BY <1>5, <2>3
    <3>4. result'[o] = "exited" => ~children'[proc.child[o]].alive
        BY <1>3, <2>3, <3>1, <3>3 DEF w
    <3>5. result'[o] = "cancelled" => o \in stopped \/ proc.closed[s]
        BY <1>3, <2>3, <3>1, <3>3 DEF w
    <3> QED  BY <1>9, <3>1, <3>2, <3>4, <3>5 DEF AnswerAt
  <2> QED  BY <2>2, <2>3
<1>15. WaitInv'
    BY <1>11, <1>12, <1>13, <1>14 DEF WaitInv
<1>16. Spawned' = Spawned
    BY <1>5, <1>6, <1>11 DEF Spawned
<1>17. ProcessInv' /\ ProcessTypes'
    BY <1>1, <1>3, <1>4, <1>9, <1>15, <1>16 DEF ProcessInv, ProcessTypes
<1> QED  BY <1>7, <1>8, <1>17, ProcessStepRest

\* The stop closure of a wait runs.
LEMMA CancelWaitStep ==
    ASSUME ListenersInv, NEW o \in Ops, CancelWait(o), UNCHANGED <<server, watchVars>>
    PROVE  ListenersInv'
<1>1. /\ fault = None /\ busy = None /\ queue # <<>> /\ Head(queue) = <<"cancel", o>>
      /\ Kind(o) = "wait" /\ queue' = Tail(queue) /\ UNCHANGED <<call, stopped, busy, children>>
    BY DEF CancelWait, Posted, Idle
<1>2. /\ TypeOK /\ PlacesInv /\ OpTypes /\ queue \in Seq(Posts) /\ proc \in ProcRecs
      /\ ProcessInv /\ WaitInv /\ ChildInv /\ children \in Seq(ChildRecs)
    BY DEF ListenersInv, TypeOK, OpTypes, ProcessTypes, ProcessInv
<1>3. /\ queue' \in Seq(Posts) /\ In(<<"cancel", o>>, queue)
      /\ \A c : In(c, queue) <=> In(c, queue') \/ c = <<"cancel", o>>
    BY <1>1, <1>2, TakeFacts
<1>4. QueueSame({"close_process", "close_entries", "close_watch", "drop"})
    BY <1>1, <1>2, QueueKeeps
<1>5. QueueSame({"drop", "close_entries", "close_watch"}) /\ QueueSame({"close_process"})
    BY <1>4 DEF QueueSame
<1>6. o \in stopped
    BY <1>2, <1>3 DEF PlacesInv, PlaceInv
<1>7. CASE pc[o] = "done" /\ UNCHANGED <<proc, pc, result>>
  <2>1. OpTypes' /\ PlacesInv'
    <3>1. \A x \in Ops : IF x \in {o} THEN pc'[x] = "done" /\ pc[x] \notin {"adding", "starting"}
                         ELSE pc'[x] = pc[x] /\ result'[x] = result[x]
        BY <1>7
    <3>2. \A x \in Ops : /\ In(<<"cancel", x>>, queue') => In(<<"cancel", x>>, queue)
                         /\ x \notin {o} /\ In(<<"cancel", x>>, queue) => In(<<"cancel", x>>, queue')
                         /\ In(<<"drop", x>>, queue') => In(<<"drop", x>>, queue)
        BY <1>3
    <3>3. pc' \in [Ops -> Pcs] /\ result' \in [Ops -> Results]
        BY <1>2, <1>7 DEF OpTypes
    <3> QED  BY <1>1, <1>2, <1>3, <3>1, <3>2, <3>3, SetEnds
  <2>2. \A K : KindsSame(K)
      BY <1>7 DEF KindsSame
  <2>3. UNCHANGED procVars
      BY <1>1, <1>7 DEF procVars
  <2>4. ProcessInv'
      BY <1>1, <1>2, <1>5, <2>2, <2>3, ProcessFrame
  <2>5. ProcessTypes'
      BY <1>1, <1>2, <1>7 DEF ProcessTypes
  <2> QED  BY <1>1, <1>5, <2>1, <2>2, <2>4, <2>5, ProcessStepRest
<1>8. ASSUME pc[o] = "waiting",
             LET r == ResumeProcWaiter(proc.on[o], [proc EXCEPT !.status[proc.on[o]] = "cancelled"])
             IN  proc' = r[1] /\ End(r[2])
      PROVE  ListenersInv'
  <2> DEFINE s == proc.on[o]
             p == [proc EXCEPT !.status[s] = "cancelled"]
  <2>1. s \in States /\ proc.waiter[s] = o
      BY <1>1, <1>2, <1>8 DEF WaitInv, WaitAt
  <2>2. /\ p \in ProcRecs
        /\ p.waiter = proc.waiter /\ p.on = proc.on /\ p.child = proc.child
        /\ p.state = proc.state /\ p.handle = proc.handle /\ p.closed = proc.closed
        /\ p.running = proc.running /\ p.exited = proc.exited
        /\ p.status[s] = "cancelled"
        /\ \A q \in States \ {s} : p.status[q] = proc.status[q]
      BY <1>2, <2>1 DEF ProcRecs
  <2>3. proc' = ResumeProcWaiter(s, p)[1] /\ End(ResumeProcWaiter(s, p)[2])
      BY <1>8
  <2> HIDE DEF s, p
  <2>4. \A q \in States : q # s \/ proc.waiter[s] = None => p.status[q] = "ok"
      BY <1>2, <2>1, <2>2, ConstFacts DEF WaitInv, WaiterAt
  <2>5. ChildInv'
    <3>1. /\ proc' \in ProcRecs
          /\ proc'.state = proc.state /\ proc'.handle = proc.handle
          /\ proc'.running = proc.running /\ proc'.exited = proc.exited
          /\ proc'.closed = proc.closed
      <4>1. p.waiter[s] # None => p.on[p.waiter[s]] = s
          BY <2>1, <2>2 DEF s
      <4> QED  BY <2>1, <2>2, <2>3, <4>1, ResumeProcFacts
    <3>2. ASSUME NEW h \in DOMAIN children PROVE ChildAt(h)'
        BY <1>1, <1>2, <3>1 DEF ChildInv, ChildAt
    <3>3. ASSUME NEW q \in States PROVE StateAt(q)'
        BY <1>1, <1>2, <1>5, <3>1 DEF ChildInv, StateAt, QueueSame
    <3> QED  BY <1>1, <3>2, <3>3 DEF ChildInv
  <2>6. \A x \in Ops : /\ In(<<"cancel", x>>, queue') => In(<<"cancel", x>>, queue)
                       /\ x # proc.waiter[s] /\ In(<<"cancel", x>>, queue) =>
                             In(<<"cancel", x>>, queue')
      BY <1>3, <2>1
  <2>7. \A q \in States \ {s} : \A h \in Nat :
           In(<<"close_process", <<q, h>> >>, queue) => In(<<"close_process", <<q, h>> >>, queue')
      BY <1>3
  <2>8. /\ children' \in Seq(ChildRecs) /\ DOMAIN children' = DOMAIN children
        /\ \A h \in DOMAIN children :
              /\ children'[h].state = children[h].state
              /\ children'[h].alive => children[h].alive
              /\ children[h].state # s => /\ children'[h].reported = children[h].reported
                                          /\ children'[h].uv = children[h].uv
      BY <1>1, <1>2
  <2>9. /\ proc.waiter[s] # None /\ p.exited[s] /\ p.status[s] = "ok" =>
              ~children'[proc.child[proc.waiter[s]]].alive
        /\ proc.waiter[s] # None /\ p.status[s] = "cancelled" =>
              proc.waiter[s] \in stopped \/ proc.closed[s]
      BY <1>6, <2>1, <2>2
  <2> QED  BY <1>1, <1>3, <1>5, <2>1, <2>2, <2>3, <2>4, <2>5, <2>6, <2>7, <2>8, <2>9, ProcResumes
<1> QED  BY <1>7, <1>8 DEF CancelWait

\* One child changes.
LEMMA OneChild ==
    ASSUME NEW cs \in Seq(ChildRecs), NEW h \in DOMAIN cs, NEW c \in ChildRecs
    PROVE  LET ds == [cs EXCEPT ![h] = c]
           IN  /\ ds \in Seq(ChildRecs) /\ DOMAIN ds = DOMAIN cs
               /\ ds[h] = c /\ \A g \in DOMAIN cs : g # h => ds[g] = cs[g]
    BY SMT

\* The exit callback of a child.
LEMMA OnExitStep ==
    ASSUME ListenersInv, NEW h \in DOMAIN children, OnExit(h), UNCHANGED <<server, watchVars>>
    PROVE  ListenersInv'
<1> DEFINE s == children[h].state
           p == [proc EXCEPT !.running[s] = FALSE, !.exited[s] = TRUE]
<1>1. /\ fault = None /\ busy = None
      /\ children[h].uv = "open" /\ ~children[h].alive /\ ~children[h].reported
      /\ children' = [children EXCEPT ![h].reported = TRUE]
      /\ proc' = ResumeProcWaiter(s, p)[1] /\ End(ResumeProcWaiter(s, p)[2])
      /\ UNCHANGED <<call, queue, stopped, busy, fault>>
    BY DEF OnExit, Idle
<1>2. /\ TypeOK /\ PlacesInv /\ OpTypes /\ queue \in Seq(Posts) /\ proc \in ProcRecs
      /\ WaitInv /\ ChildInv /\ children \in Seq(ChildRecs)
    BY DEF ListenersInv, TypeOK, OpTypes, ProcessTypes, ProcessInv
<1>3. \A g \in DOMAIN children : children[g] \in ChildRecs
    BY <1>2, SMT
<1>4. s \in States
    BY <1>3 DEF ChildRecs
<1>5. /\ p \in ProcRecs
      /\ p.waiter = proc.waiter /\ p.on = proc.on /\ p.child = proc.child
      /\ p.state = proc.state /\ p.handle = proc.handle /\ p.closed = proc.closed
      /\ p.status = proc.status
      /\ p.running[s] = FALSE /\ p.exited[s] = TRUE
      /\ \A q \in States \ {s} : p.running[q] = proc.running[q] /\ p.exited[q] = proc.exited[q]
    BY <1>2, <1>4 DEF ProcRecs
<1>6. /\ DOMAIN children' = DOMAIN children /\ children' \in Seq(ChildRecs)
      /\ children'[h].reported = TRUE
      /\ \A g \in DOMAIN children :
            /\ children'[g].state = children[g].state
            /\ children'[g].alive = children[g].alive
            /\ children'[g].uv = children[g].uv
            /\ g # h => children'[g].reported = children[g].reported
  <2> DEFINE c == [children[h] EXCEPT !.reported = TRUE]
  <2>1. /\ c \in ChildRecs /\ c.state = children[h].state /\ c.alive = children[h].alive
        /\ c.uv = children[h].uv /\ c.reported = TRUE
      BY <1>3 DEF ChildRecs
  <2>2. children' = [children EXCEPT ![h] = c]
      BY <1>1
  <2> HIDE DEF c
  <2> QED  BY <1>2, <2>1, <2>2, OneChild
<1>7. \A g \in DOMAIN children : children[g].state = s /\ ~children[g].reported => g = h
    BY <1>1, <1>2 DEF ChildInv, ChildAt
<1>8. /\ proc.running[s] /\ proc.handle[s] \in {h, 0}
    BY <1>1, <1>2 DEF ChildInv, ChildAt
<1>9. children'[h].state = s
    BY <1>6
<1>10. ~children[h].alive
    BY <1>1
<1> HIDE DEF s, p
<1>11. proc.waiter[s] # None =>
          /\ proc.waiter[s] \in Ops /\ proc.on[proc.waiter[s]] = s
          /\ proc.child[proc.waiter[s]] = h
  <2> SUFFICES ASSUME proc.waiter[s] # None
               PROVE  /\ proc.waiter[s] \in Ops /\ proc.on[proc.waiter[s]] = s
                      /\ proc.child[proc.waiter[s]] = h
      OBVIOUS
  <2>1. proc.waiter[s] \in Ops
      BY <1>2, <1>4 DEF ProcRecs
  <2>2. /\ pc[proc.waiter[s]] = "waiting" /\ Kind(proc.waiter[s]) = "wait"
        /\ proc.on[proc.waiter[s]] = s
      BY <1>2, <1>4, <2>1 DEF WaitInv, WaiterAt
  <2>3. WaitAt(proc.waiter[s])
      BY <1>2, <2>1, <2>2 DEF WaitInv
  <2> QED  BY <1>7, <2>1, <2>2, <2>3 DEF WaitAt
<1>12. /\ proc' \in ProcRecs
       /\ proc'.state = proc.state /\ proc'.handle = proc.handle
       /\ proc'.running = p.running /\ proc'.exited = p.exited
       /\ proc'.closed = proc.closed
  <2>1. p.waiter[s] # None => p.on[p.waiter[s]] = s
      BY <1>5, <1>11
  <2> QED  BY <1>1, <1>4, <1>5, <2>1, ResumeProcFacts
<1>13. ChildInv'
  <2>1. ASSUME NEW g \in DOMAIN children PROVE ChildAt(g)'
    <3>1. ChildAt(g)
        BY <1>2 DEF ChildInv
    <3>2. children[g].state \in States
        BY <1>3 DEF ChildRecs
    <3>3. CASE g = h
        BY <1>5, <1>6, <1>10, <1>12, <3>1, <3>3 DEF ChildAt, s
    <3>4. CASE g # h
      <4>1. ~children[g].reported => children[g].state # s
          BY <1>7, <3>4
      <4>2. ASSUME ~children'[g].reported
            PROVE  /\ p.running[children[g].state] /\ proc.handle[children[g].state] \in {g, 0}
                   /\ \A e \in DOMAIN children :
                        children[e].state = children[g].state /\ ~children[e].reported => e = g
          BY <1>5, <1>6, <3>1, <3>2, <3>4, <4>1, <4>2 DEF ChildAt
      <4>3. \A e \in DOMAIN children : ~children'[e].reported => ~children[e].reported
          BY <1>6
      <4> QED  BY <1>6, <1>12, <3>1, <3>4, <4>2, <4>3 DEF ChildAt
    <3> QED  BY <3>3, <3>4
  <2>2. ASSUME NEW q \in States PROVE StateAt(q)'
    <3>1. StateAt(q) /\ queue' = queue
        BY <1>1, <1>2 DEF ChildInv
    <3>2. CASE q = s
      <4>1. proc.handle[q] # 0 => proc.handle[q] = h
          BY <1>8, <3>2 DEF s
      <4> QED  BY <1>5, <1>6, <1>9, <1>12, <3>1, <3>2, <4>1 DEF StateAt
    <3>3. CASE q # s
      <4>1. proc.handle[q] # h \/ proc.handle[q] = 0
          BY <3>1, <3>3 DEF StateAt, s
      <4> QED  BY <1>5, <1>6, <1>12, <3>1, <3>3, <4>1 DEF StateAt
    <3> QED  BY <3>2, <3>3
  <2> QED  BY <1>6, <2>1, <2>2 DEF ChildInv
<1>14. \A q \in States : q # s \/ proc.waiter[s] = None => p.status[q] = "ok"
    BY <1>2, <1>5 DEF WaitInv, WaiterAt
<1>15. \A g \in DOMAIN children :
          /\ children'[g].state = children[g].state
          /\ children'[g].alive => children[g].alive
          /\ children[g].state # s => /\ children'[g].reported = children[g].reported
                                      /\ children'[g].uv = children[g].uv
    BY <1>6 DEF s
<1>16. /\ proc.waiter[s] # None /\ p.exited[s] /\ p.status[s] = "ok" =>
             ~children'[proc.child[proc.waiter[s]]].alive
       /\ proc.waiter[s] # None /\ p.status[s] = "cancelled" =>
             proc.waiter[s] \in stopped \/ proc.closed[s]
  <2>1. p.status[s] = "ok"
      BY <1>2, <1>4, <1>5 DEF WaitInv, WaiterAt
  <2> QED  BY <1>6, <1>10, <1>11, <2>1
<1>17. /\ queue' \in Seq(Posts) /\ \A c : In(c, queue') <=> In(c, queue)
    BY <1>1, <1>2
<1>18. QueueSame({"drop", "close_entries", "close_watch"})
    BY <1>17 DEF QueueSame
<1>19. /\ \A x \in Ops : In(<<"cancel", x>>, queue') <=> In(<<"cancel", x>>, queue)
       /\ \A q \in States \ {s} : \A g \in Nat :
             In(<<"close_process", <<q, g>> >>, queue) => In(<<"close_process", <<q, g>> >>, queue')
       /\ children' \in Seq(ChildRecs) /\ DOMAIN children' = DOMAIN children
    BY <1>6, <1>17
<1>20. proc' = ResumeProcWaiter(s, p)[1] /\ End(ResumeProcWaiter(s, p)[2])
    BY <1>1
<1>21. fault = None /\ UNCHANGED <<call, stopped, busy>> /\ queue' \in Seq(Posts)
    BY <1>1, <1>17
<1> QED  BY <1>4, <1>5, <1>13, <1>14, <1>15, <1>16, <1>18, <1>19, <1>20, <1>21, ProcResumes

\* The closure of close() runs.
LEMMA RunCloseProcessStep ==
    ASSUME ListenersInv, RunCloseProcess, UNCHANGED <<server, watchVars>>
    PROVE  ListenersInv'
<1> DEFINE s == Head(queue)[2][1]
           h == Head(queue)[2][2]
           p == IF proc.waiter[s] = None THEN proc ELSE [proc EXCEPT !.status[s] = "cancelled"]
<1>1. /\ fault = None /\ busy = None /\ queue # <<>> /\ Head(queue)[1] = "close_process"
      /\ queue' = Tail(queue)
      /\ children' = [children EXCEPT ![h].uv = "closed"]
      /\ proc' = ResumeProcWaiter(s, p)[1] /\ End(ResumeProcWaiter(s, p)[2])
      /\ UNCHANGED <<call, stopped, busy, fault>>
    BY DEF RunCloseProcess, Idle
<1>2. /\ TypeOK /\ PlacesInv /\ OpTypes /\ queue \in Seq(Posts) /\ proc \in ProcRecs
      /\ WaitInv /\ ChildInv /\ children \in Seq(ChildRecs)
    BY DEF ListenersInv, TypeOK, OpTypes, ProcessTypes, ProcessInv
<1>3. /\ queue' \in Seq(Posts) /\ In(Head(queue), queue) /\ Head(queue) \in Posts
      /\ \A c : In(c, queue) <=> In(c, queue') \/ c = Head(queue)
    BY <1>1, <1>2, TakeFacts
<1>4. s \in States /\ h \in Nat /\ Head(queue) = <<"close_process", <<s, h>> >>
    BY <1>1, <1>3 DEF Posts
<1>5. QueueSame({"drop", "close_entries", "close_watch"})
    BY <1>1, <1>2, QueueKeeps
<1>6. /\ p \in ProcRecs
      /\ p.waiter = proc.waiter /\ p.on = proc.on /\ p.child = proc.child
      /\ p.state = proc.state /\ p.handle = proc.handle /\ p.closed = proc.closed
      /\ p.running = proc.running /\ p.exited = proc.exited
      /\ \A q \in States \ {s} : p.status[q] = proc.status[q]
      /\ p.status[s] = IF proc.waiter[s] = None THEN proc.status[s] ELSE "cancelled"
    BY <1>2, <1>4 DEF ProcRecs
<1> HIDE DEF s, h, p
<1>7. /\ proc.closed[s] /\ proc.handle[s] # h /\ h \in DOMAIN children /\ children[h].state = s
  <2>1. In(<<"close_process", <<s, h>> >>, queue)
      BY <1>3, <1>4
  <2> QED  BY <1>2, <1>4, <2>1 DEF ChildInv, StateAt
<1>8. \A g \in DOMAIN children : children[g] \in ChildRecs
    BY <1>2, SMT
<1>9. /\ DOMAIN children' = DOMAIN children /\ children' \in Seq(ChildRecs)
      /\ \A g \in DOMAIN children :
            /\ children'[g].state = children[g].state
            /\ children'[g].alive = children[g].alive
            /\ children'[g].reported = children[g].reported
            /\ g # h => children'[g].uv = children[g].uv
  <2> DEFINE c == [children[h] EXCEPT !.uv = "closed"]
  <2>1. /\ c \in ChildRecs /\ c.state = children[h].state /\ c.alive = children[h].alive
        /\ c.reported = children[h].reported
      BY <1>7, <1>8 DEF ChildRecs
  <2>2. children' = [children EXCEPT ![h] = c]
      BY <1>1
  <2> HIDE DEF c
  <2> QED  BY <1>2, <1>7, <2>1, <2>2, OneChild
<1>10. /\ proc' \in ProcRecs
       /\ proc'.state = proc.state /\ proc'.handle = proc.handle
       /\ proc'.running = proc.running /\ proc'.exited = proc.exited
       /\ proc'.closed = proc.closed
  <2>1. ASSUME p.waiter[s] # None PROVE p.on[p.waiter[s]] = s
    <3>1. proc.waiter[s] \in Ops
        BY <1>2, <1>4, <1>6, <2>1 DEF ProcRecs
    <3> QED  BY <1>2, <1>4, <1>6, <3>1 DEF WaitInv, WaiterAt
  <2> QED  BY <1>1, <1>4, <1>6, <2>1, ResumeProcFacts
<1>11. ChildInv'
  <2>1. ASSUME NEW g \in DOMAIN children PROVE ChildAt(g)'
      BY <1>2, <1>9, <1>10 DEF ChildInv, ChildAt
  <2>2. ASSUME NEW q \in States PROVE StateAt(q)'
    <3>1. StateAt(q)
        BY <1>2 DEF ChildInv
    <3>2. proc.handle[q] # h
      <4>1. h # 0
          BY <1>2, <1>7, SMT
      <4> QED  BY <1>7, <3>1, <4>1 DEF StateAt
    <3>3. \A g \in Nat : In(<<"close_process", <<q, g>> >>, queue') =>
             In(<<"close_process", <<q, g>> >>, queue)
        BY <1>3
    <3>4. proc.handle[q] # 0 =>
             /\ proc.handle[q] \in DOMAIN children'
             /\ children'[proc.handle[q]].state = q /\ children'[proc.handle[q]].uv = "open"
             /\ proc.exited[q] <=> children'[proc.handle[q]].reported
        BY <1>9, <3>1, <3>2 DEF StateAt
    <3>5. \A g \in Nat : In(<<"close_process", <<q, g>> >>, queue') =>
             /\ proc.closed[q] /\ proc.handle[q] # g
             /\ g \in DOMAIN children' /\ children'[g].state = q
        BY <1>9, <3>1, <3>3 DEF StateAt
    <3>6. q > proc.state => proc.handle[q] = 0
        BY <3>1 DEF StateAt
    <3> QED  BY <1>10, <3>4, <3>5, <3>6 DEF StateAt
  <2> QED  BY <1>9, <2>1, <2>2 DEF ChildInv
<1>12. \A q \in States : q # s \/ proc.waiter[s] = None => p.status[q] = "ok"
    BY <1>2, <1>6 DEF WaitInv, WaiterAt
<1>13. \A g \in DOMAIN children :
          /\ children'[g].state = children[g].state
          /\ children'[g].alive => children[g].alive
          /\ children[g].state # s => /\ children'[g].reported = children[g].reported
                                      /\ children'[g].uv = children[g].uv
    BY <1>7, <1>9
<1>14. /\ proc.waiter[s] # None /\ p.exited[s] /\ p.status[s] = "ok" =>
             ~children'[proc.child[proc.waiter[s]]].alive
       /\ proc.waiter[s] # None /\ p.status[s] = "cancelled" =>
             proc.waiter[s] \in stopped \/ proc.closed[s]
    BY <1>6, <1>7
<1>15. \A x \in Ops : In(<<"cancel", x>>, queue') <=> In(<<"cancel", x>>, queue)
    BY <1>3, <1>4
<1>16. \A q \in States \ {s} : \A g \in Nat :
          In(<<"close_process", <<q, g>> >>, queue) => In(<<"close_process", <<q, g>> >>, queue')
    BY <1>3, <1>4
<1>17. /\ fault = None /\ UNCHANGED <<call, stopped, busy>> /\ queue' \in Seq(Posts)
       /\ children' \in Seq(ChildRecs) /\ DOMAIN children' = DOMAIN children
    BY <1>1, <1>3, <1>9
<1>18. proc' = ResumeProcWaiter(s, p)[1] /\ End(ResumeProcWaiter(s, p)[2])
    BY <1>1
<1> QED  BY <1>4, <1>5, <1>6, <1>11, <1>12, <1>13, <1>14, <1>15, <1>16, <1>17, <1>18, ProcResumes

\* What the loop's part of a call of process keeps of the ops: the call ends.
LEMMA ProcCallEnds ==
    ASSUME TypeOK, PlacesInv, NEW o \in Ops, NEW r \in Results, End(o :> r), pc[o] = "new",
           UNCHANGED <<call, stopped, busy>>,
           \/ UNCHANGED queue
           \/ \E c \in States \X Nat : queue' = Append(queue, <<"close_process", c>>)
    PROVE  /\ OpTypes' /\ PlacesInv'
           /\ pc'[o] = "done" /\ result'[o] = r
           /\ \A x \in Ops \ {o} : pc'[x] = pc[x] /\ result'[x] = result[x]
           /\ \A K : Kind(o) \notin K => KindsSame(K)
           /\ QueueSame({"drop", "close_entries", "close_watch"})
<1>1. OpTypes /\ queue \in Seq(Posts)
    BY DEF TypeOK, OpTypes
<1>2. \/ UNCHANGED queue
      \/ \E d \in Posts : d[1] = "close_process" /\ queue' = Append(queue, d)
  <2>1. ASSUME NEW c \in States \X Nat, queue' = Append(queue, <<"close_process", c>>)
        PROVE  \E d \in Posts : d[1] = "close_process" /\ queue' = Append(queue, d)
    <3>1. <<"close_process", c>> \in Posts /\ <<"close_process", c>>[1] = "close_process"
        BY DEF Posts
    <3> QED  BY <2>1, <3>1
  <2> QED  BY <2>1
<1>3. QueueSame({"drop", "close_entries", "close_watch", "cancel"})
    BY <1>1, <1>2, QueueKeeps
<1>4. queue' \in Seq(Posts)
    BY <1>1, <1>2, PostFacts
<1>5. QueueSame({"drop", "close_entries", "close_watch"})
    BY <1>3 DEF QueueSame
<1>6. \A x \in Ops : /\ In(<<"cancel", x>>, queue') <=> In(<<"cancel", x>>, queue)
                     /\ In(<<"drop", x>>, queue') => In(<<"drop", x>>, queue)
    BY <1>3 DEF QueueSame
<1>7. \A w \in {"add", "start"} : busy' # <<w, o>>
    BY NewFacts
<1> QED  BY <1>4, <1>5, <1>6, <1>7, OneEnds

\* close() of the state of p, and the closure for it.
LEMMA DetachFacts ==
    ASSUME NEW p \in ProcRecs
    PROVE  /\ Detach(p) \in ProcRecs
           /\ Detach(p).state = p.state /\ Detach(p).on = p.on /\ Detach(p).child = p.child
           /\ Detach(p).running = p.running /\ Detach(p).exited = p.exited
           /\ Detach(p).waiter = p.waiter /\ Detach(p).status = p.status
           /\ Detach(p).handle[p.state] = 0 /\ Detach(p).closed[p.state]
           /\ \A q \in States \ {p.state} : /\ Detach(p).handle[q] = p.handle[q]
                                            /\ Detach(p).closed[q] = p.closed[q]
           /\ CloseClosure(p) = <<"close_process", <<p.state, p.handle[p.state]>> >>
           /\ p.state \in States /\ p.handle[p.state] \in Nat /\ CloseClosure(p) \in Posts
    BY ConstFacts DEF Detach, ProcRecs, CloseClosure, Posts

\* close() of the process.
LEMMA CloseProcessStep ==
    ASSUME ListenersInv, NEW o \in Ops, CloseProcess(o), UNCHANGED <<server, watchVars>>
    PROVE  ListenersInv'
<1> DEFINE s == proc.state
           h == proc.handle[s]
<1>1. /\ fault = None /\ pc[o] = "new" /\ Kind(o) = "close_process" /\ End(o :> "ok")
      /\ UNCHANGED <<call, stopped, busy, fault, children>>
      /\ \/ h = 0 /\ UNCHANGED <<proc, queue>>
         \/ h # 0 /\ proc' = Detach(proc) /\ queue' = Append(queue, CloseClosure(proc))
    BY DEF CloseProcess, Begins, BeginsOutside, Idle
<1>2. /\ TypeOK /\ PlacesInv /\ OpTypes /\ queue \in Seq(Posts) /\ proc \in ProcRecs
      /\ ProcessInv /\ WaitInv /\ ChildInv /\ children \in Seq(ChildRecs) /\ "ok" \in Results
    BY DEF ListenersInv, TypeOK, OpTypes, ProcessTypes, ProcessInv, Results
<1>3. /\ Detach(proc) \in ProcRecs
      /\ Detach(proc).state = s /\ Detach(proc).on = proc.on /\ Detach(proc).child = proc.child
      /\ Detach(proc).running = proc.running /\ Detach(proc).exited = proc.exited
      /\ Detach(proc).waiter = proc.waiter /\ Detach(proc).status = proc.status
      /\ Detach(proc).handle[s] = 0 /\ Detach(proc).closed[s]
      /\ \A q \in States \ {s} : /\ Detach(proc).handle[q] = proc.handle[q]
                                 /\ Detach(proc).closed[q] = proc.closed[q]
      /\ CloseClosure(proc) = <<"close_process", <<s, h>> >>
      /\ s \in States /\ h \in Nat /\ CloseClosure(proc) \in Posts
    BY <1>2, DetachFacts
<1> HIDE DEF s, h
<1>4. /\ OpTypes' /\ PlacesInv'
      /\ \A x \in Ops \ {o} : pc'[x] = pc[x] /\ result'[x] = result[x]
      /\ KindsSame({"accept", "close_signals", "close_watch"}) /\ KindsSame({"wait", "spawn"})
      /\ QueueSame({"drop", "close_entries", "close_watch"})
  <2>1. \/ UNCHANGED queue
        \/ \E c \in States \X Nat : queue' = Append(queue, <<"close_process", c>>)
      BY <1>1, <1>3
  <2> QED  BY <1>1, <1>2, <2>1, ProcCallEnds
<1>5. ProcessInv' /\ ProcessTypes'
  <2>1. CASE UNCHANGED <<proc, queue>>
    <3>1. QueueSame({"close_process"}) /\ UNCHANGED procVars
        BY <1>1, <2>1 DEF QueueSame, procVars
    <3> QED  BY <1>1, <1>2, <1>4, <2>1, <3>1, ProcessFrame DEF ProcessTypes
  <2>2. CASE h # 0 /\ proc' = Detach(proc) /\ queue' = Append(queue, CloseClosure(proc))
    <3>1. \A c : In(c, queue') <=> In(c, queue) \/ c = <<"close_process", <<s, h>> >>
        BY <1>2, <1>3, <2>2, PostFacts
    <3>2. \A x \in Ops : Kind(x) \in {"wait", "spawn"} => pc'[x] = pc[x] /\ result'[x] = result[x]
        BY <1>4 DEF KindsSame
    <3>3. \A x \in Ops : Kind(x)' = Kind(x)
        BY <1>1 DEF Kind
    <3>4. h \in DOMAIN children /\ children[h].state = s /\ children[h].uv = "open"
        BY <1>2, <1>3, <2>2 DEF ChildInv, StateAt, h
    <3>5. ASSUME NEW q \in States PROVE WaiterAt(q)'
        BY <1>2, <1>3, <2>2, <3>2, <3>3 DEF WaitInv, WaiterAt
    <3>6. ASSUME NEW x \in Ops, Kind(x) = "wait" PROVE AnswerAt(x)'
      <4>1. AnswerAt(x)
          BY <1>2, <3>6 DEF WaitInv
      <4>3. \A q \in States : proc.closed[q] => proc'.closed[q]
          BY <1>3, <2>2
      <4>4. result[x] = "cancelled" /\ x \notin stopped => proc.on[x] \in States
          BY <1>2, <3>6 DEF WaitInv, AnswerAt
      <4> QED  BY <1>1, <1>3, <2>2, <3>2, <3>6, <4>1, <4>3, <4>4 DEF AnswerAt
    <3>7. ASSUME NEW x \in Ops, Kind(x) = "wait", pc'[x] = "waiting" PROVE WaitAt(x)'
      <4>1. WaitAt(x)
          BY <1>2, <3>2, <3>7 DEF WaitInv
      <4>2. /\ proc'.on = proc.on /\ proc'.child = proc.child /\ proc'.waiter = proc.waiter
            /\ children' = children
          BY <1>1, <1>3, <2>2
      <4>3. /\ In(<<"close_process", <<s, h>> >>, queue')
            /\ \A c : In(c, queue) => In(c, queue')
          BY <3>1
      <4>4. /\ proc.handle[s] = h
            /\ \A q \in States \ {s} : proc'.handle[q] = proc.handle[q]
          BY <1>3, <2>2 DEF h
      <4>5. CASE proc.on[x] = s
          BY <4>1, <4>2, <4>3, <4>4, <4>5 DEF WaitAt
      <4>6. CASE proc.on[x] # s
          BY <4>1, <4>2, <4>3, <4>4, <4>6 DEF WaitAt
      <4> QED  BY <4>5, <4>6
    <3>8. ASSUME NEW g \in DOMAIN children PROVE ChildAt(g)'
      <4>1. ChildAt(g)
          BY <1>2 DEF ChildInv
      <4>2. children[g] \in ChildRecs
          BY <1>2, SMT
      <4>3. children[g].state \in States
          BY <4>2 DEF ChildRecs
      <4>4. CASE children[g].state = s
          BY <1>1, <1>3, <2>2, <4>1, <4>4 DEF ChildAt, s
      <4>5. CASE children[g].state # s
          BY <1>1, <1>3, <2>2, <4>1, <4>3, <4>5 DEF ChildAt, s
      <4> QED  BY <4>4, <4>5
    <3>9. ASSUME NEW q \in States PROVE StateAt(q)'
      <4>1. StateAt(q) /\ children' = children
          BY <1>1, <1>2 DEF ChildInv
      <4>2. CASE q = s
        <5>1. ~(0 \in DOMAIN children)
            BY <1>2, SMT
        <5>2. ASSUME NEW g \in Nat, In(<<"close_process", <<q, g>> >>, queue')
              PROVE  g \in DOMAIN children /\ children[g].state = q
            BY <3>1, <3>4, <4>1, <4>2, <5>2 DEF StateAt
        <5> QED  BY <1>3, <2>2, <4>1, <4>2, <5>1, <5>2 DEF StateAt
      <4>3. CASE q # s
        <5>1. \A g \in Nat : In(<<"close_process", <<q, g>> >>, queue') =>
                 In(<<"close_process", <<q, g>> >>, queue)
            BY <3>1, <4>3
        <5>2. /\ proc'.handle[q] = proc.handle[q] /\ proc'.closed[q] = proc.closed[q]
              /\ proc'.exited = proc.exited /\ proc'.state = proc.state
            BY <1>3, <2>2, <4>3 DEF s
        <5> QED  BY <4>1, <5>1, <5>2 DEF StateAt
      <4> QED  BY <4>2, <4>3
    <3>10. WaitInv' /\ ChildInv'
        BY <1>1, <3>3, <3>5, <3>6, <3>7, <3>8, <3>9 DEF WaitInv, ChildInv
    <3>11. Spawned' = Spawned
        BY <3>2, <3>3 DEF Spawned
    <3>12. proc'.state <= Cardinality(Spawned') + 1
        BY <1>2, <1>3, <2>2, <3>11 DEF ProcessInv, s
    <3> QED  BY <1>1, <1>2, <1>3, <2>2, <3>10, <3>12 DEF ProcessInv, ProcessTypes
  <2> QED  BY <1>1, <2>1, <2>2
<1> QED  BY <1>1, <1>4, <1>5, ProcessStepRest

\* Before spawn() there is a state to spare.
LEMMA SpawnedFacts ==
    ASSUME OpTypes, NEW o \in Ops, Kind(o) = "spawn", pc[o] # "done"
    PROVE  /\ Cardinality(Spawned) \in Nat /\ Cardinality(Spawned) + 1 <= Cardinality(Ops)
           /\ Cardinality(Spawned \cup {o}) = Cardinality(Spawned) + 1
<1>1. Spawned \subseteq Ops /\ o \notin Spawned /\ Spawned \cup {o} \subseteq Ops
    BY DEF Spawned
<1>2. IsFiniteSet(Spawned) /\ IsFiniteSet(Ops)
    BY <1>1, ConstFacts, FS_Subset
<1>3. Cardinality(Spawned) \in Nat
    BY <1>2, FS_CardinalityType
<1>4. Cardinality(Spawned \cup {o}) = Cardinality(Spawned) + 1
    BY <1>1, <1>2, FS_AddElement
<1>5. Cardinality(Spawned \cup {o}) <= Cardinality(Ops)
    BY <1>1, <1>2, FS_Subset
<1> QED  BY <1>3, <1>4, <1>5

\* spawn() with a state that is ready for another child.
LEMMA SpawnStep ==
    ASSUME ListenersInv, NEW o \in Ops, Spawn(o), UNCHANGED <<server, watchVars>>
    PROVE  ListenersInv'
<1> DEFINE s == proc.state
           open == proc.handle[s] # 0
           u == IF open THEN [Detach(proc) EXCEPT !.state = s + 1] ELSE proc
           p == Renew(u)
           k == Len(children) + 1
           v == [p EXCEPT !.handle[p.state] = k, !.running[p.state] = TRUE]
           c == [state |-> p.state, uv |-> "open", alive |-> TRUE, reported |-> FALSE]
           n == u.state
<1>1. /\ fault = None /\ pc[o] = "new" /\ Kind(o) = "spawn"
      /\ UNCHANGED <<call, stopped, busy, fault>>
      /\ \E r \in Results : End(o :> r)
      /\ \/ UNCHANGED <<proc, children, queue>>
         \/ /\ ~proc.running[s]
            /\ queue' = IF open THEN Append(queue, CloseClosure(proc)) ELSE queue
            /\ \/ proc' = p /\ UNCHANGED children
               \/ proc' = v /\ children' = Append(children, c)
    BY DEF Spawn, Begins, Idle, Results, procVars
<1>2. /\ TypeOK /\ PlacesInv /\ OpTypes /\ queue \in Seq(Posts) /\ proc \in ProcRecs
      /\ ProcessInv /\ WaitInv /\ ChildInv /\ children \in Seq(ChildRecs)
      /\ s <= Cardinality(Spawned) + 1
    BY DEF ListenersInv, TypeOK, OpTypes, ProcessTypes, ProcessInv
<1>3. PICK r \in Results : End(o :> r)
    BY <1>1
<1>4. /\ Detach(proc) \in ProcRecs
      /\ Detach(proc).state = s /\ Detach(proc).on = proc.on /\ Detach(proc).child = proc.child
      /\ Detach(proc).running = proc.running /\ Detach(proc).exited = proc.exited
      /\ Detach(proc).waiter = proc.waiter /\ Detach(proc).status = proc.status
      /\ Detach(proc).handle[s] = 0 /\ Detach(proc).closed[s]
      /\ \A q \in States \ {s} : /\ Detach(proc).handle[q] = proc.handle[q]
                                 /\ Detach(proc).closed[q] = proc.closed[q]
      /\ CloseClosure(proc) = <<"close_process", <<s, proc.handle[s]>> >>
      /\ s \in States /\ proc.handle[s] \in Nat /\ CloseClosure(proc) \in Posts
    BY <1>2, DetachFacts
<1>5. s + 1 \in States /\ s \in Nat
  <2>1. Cardinality(Spawned) \in Nat /\ Cardinality(Spawned) + 1 <= Cardinality(Ops)
      BY <1>1, <1>2, SpawnedFacts
  <2> QED  BY <1>2, <1>4, <2>1, ConstFacts, SMT
<1>6. /\ u \in ProcRecs /\ u.on = proc.on /\ u.child = proc.child
      /\ u.running = proc.running /\ u.exited = proc.exited
      /\ u.waiter = proc.waiter /\ u.status = proc.status
      /\ n = IF open THEN s + 1 ELSE s
      /\ u.handle[s] = 0 /\ (open => u.closed[s]) /\ (~open => u.closed[s] = proc.closed[s])
      /\ \A q \in States \ {s} : u.handle[q] = proc.handle[q] /\ u.closed[q] = proc.closed[q]
  <2>1. CASE open
    <3> DEFINE d == Detach(proc)
    <3>1. /\ d \in ProcRecs /\ u = [d EXCEPT !.state = s + 1]
        BY <1>4, <2>1
    <3> HIDE DEF d, u
    <3>2. /\ u \in ProcRecs /\ u.on = d.on /\ u.child = d.child /\ u.running = d.running
          /\ u.exited = d.exited /\ u.waiter = d.waiter /\ u.status = d.status
          /\ u.handle = d.handle /\ u.closed = d.closed /\ u.state = s + 1
        BY <1>5, <3>1 DEF ProcRecs
    <3> QED  BY <1>4, <2>1, <3>2 DEF d
  <2>2. CASE ~open
      BY <1>2, <2>2
  <2> QED  BY <2>1, <2>2
<1>7. n \in States /\ s <= n /\ n <= s + 1 /\ n \in Nat
    BY <1>4, <1>5, <1>6
<1> HIDE DEF u
<1>8. k \in Nat /\ Len(children) \in Nat /\ DOMAIN children = 1..Len(children)
    BY <1>2, SMT
<1>9. /\ p \in ProcRecs /\ p.state = n /\ p.on = u.on /\ p.child = u.child
      /\ p.handle = u.handle /\ p.waiter = u.waiter /\ p.closed = u.closed
      /\ p.status[n] = "ok" /\ p.exited[n] = FALSE
      /\ \A q \in States \ {n} : /\ p.status[q] = u.status[q]
                                 /\ p.exited[q] = u.exited[q]
                                 /\ p.running[q] = u.running[q]
      /\ v \in ProcRecs /\ v.state = n /\ v.on = u.on /\ v.child = u.child
      /\ v.waiter = u.waiter /\ v.closed = u.closed
      /\ v.handle[n] = k /\ v.running[n] = TRUE
      /\ v.exited[n] = FALSE /\ v.status[n] = "ok"
      /\ \A q \in States \ {n} : /\ v.status[q] = u.status[q]
                                 /\ v.exited[q] = u.exited[q]
                                 /\ v.running[q] = u.running[q]
                                 /\ v.handle[q] = u.handle[q]
  <2>1. /\ k \in Nat /\ u \in ProcRecs /\ n = u.state /\ p = Renew(u)
        /\ v = [p EXCEPT !.handle[p.state] = k, !.running[p.state] = TRUE]
      BY <1>6, <1>8
  <2> HIDE DEF k, n, p, v
  <2>2. /\ p \in ProcRecs /\ p.state = n /\ p.on = u.on /\ p.child = u.child
        /\ p.handle = u.handle /\ p.waiter = u.waiter /\ p.closed = u.closed
        /\ p.status[n] = "ok" /\ p.exited[n] = FALSE
        /\ \A q \in States \ {n} : /\ p.status[q] = u.status[q]
                                   /\ p.exited[q] = u.exited[q]
                                   /\ p.running[q] = u.running[q]
        /\ n \in States
      BY <2>1 DEF Renew, ProcRecs
  <2>3. /\ v \in ProcRecs /\ v.state = p.state /\ v.on = p.on /\ v.child = p.child
        /\ v.waiter = p.waiter /\ v.closed = p.closed /\ v.exited = p.exited
        /\ v.status = p.status
        /\ v.handle[n] = k /\ v.running[n] = TRUE
        /\ \A q \in States \ {n} : v.running[q] = p.running[q] /\ v.handle[q] = p.handle[q]
      BY <2>1, <2>2 DEF ProcRecs
  <2> QED  BY <2>2, <2>3
<1>10. /\ OpTypes' /\ PlacesInv' /\ pc'[o] = "done"
       /\ \A x \in Ops \ {o} : pc'[x] = pc[x] /\ result'[x] = result[x]
       /\ KindsSame({"accept", "close_signals", "close_watch"}) /\ KindsSame({"wait"})
       /\ QueueSame({"drop", "close_entries", "close_watch"})
  <2>1. \/ UNCHANGED queue
        \/ \E e \in States \X Nat : queue' = Append(queue, <<"close_process", e>>)
      BY <1>1, <1>4
  <2> HIDE DEF p, v, n, k, c, open, s
  <2> QED  BY <1>1, <1>2, <1>3, <2>1, ProcCallEnds
<1>11. /\ Cardinality(Spawned') = Cardinality(Spawned) + 1 /\ Cardinality(Spawned) \in Nat
  <2>1. Spawned' = Spawned \cup {o}
      BY <1>1, <1>10 DEF Spawned, Kind
  <2> QED  BY <1>1, <1>2, <2>1, SpawnedFacts
<1>12. \A x \in Ops : Kind(x)' = Kind(x)
    BY <1>1 DEF Kind
<1> HIDE DEF p, v, n, k, c, open, s
<1>13. CASE UNCHANGED <<proc, children, queue>>
  <2>1. QueueSame({"close_process"}) /\ UNCHANGED procVars
      BY <1>13 DEF QueueSame, procVars
  <2>2. WaitInv' /\ ChildInv'
      BY <1>1, <1>2, <1>10, <2>1, WaitsFrame
  <2>3. ProcessInv' /\ ProcessTypes'
      BY <1>2, <1>5, <1>11, <1>13, <2>2 DEF ProcessInv, ProcessTypes, s
  <2> QED  BY <1>1, <1>10, <2>3, ProcessStepRest
<1>14. ASSUME ~proc.running[s],
              queue' = IF open THEN Append(queue, CloseClosure(proc)) ELSE queue,
              \/ proc' = p /\ UNCHANGED children
              \/ proc' = v /\ children' = Append(children, c)
       PROVE  ListenersInv'
  <2>1. /\ proc' \in ProcRecs /\ proc'.state = n /\ proc'.on = proc.on
        /\ proc'.child = proc.child /\ proc'.waiter = proc.waiter /\ proc'.closed = u.closed
        /\ proc'.status[n] = "ok" /\ proc'.exited[n] = FALSE
        /\ \A q \in States \ {n} : /\ proc'.status[q] = proc.status[q]
                                   /\ proc'.exited[q] = proc.exited[q]
                                   /\ proc'.running[q] = proc.running[q]
                                   /\ proc'.handle[q] = u.handle[q]
      BY <1>6, <1>9, <1>14
  <2>2. c = [state |-> n, uv |-> "open", alive |-> TRUE, reported |-> FALSE] /\ c \in ChildRecs
      BY <1>7, <1>9 DEF c, ChildRecs
  <2>3. /\ children' \in Seq(ChildRecs)
        /\ \A h \in DOMAIN children : h \in DOMAIN children' /\ children'[h] = children[h]
        /\ \/ DOMAIN children' = DOMAIN children /\ proc'.handle[n] = u.handle[n]
           \/ /\ DOMAIN children' = DOMAIN children \cup {k} /\ k \notin DOMAIN children
              /\ children'[k] = c /\ proc'.handle[n] = k /\ proc'.running[n] = TRUE
    <3>1. CASE proc' = p /\ UNCHANGED children
        BY <1>2, <1>9, <3>1
    <3>2. CASE proc' = v /\ children' = Append(children, c)
      <4>1. /\ children' \in Seq(ChildRecs) /\ Len(children') = Len(children) + 1
            /\ \A h \in 1..Len(children) : children'[h] = children[h]
            /\ children'[Len(children) + 1] = c
            /\ DOMAIN children' = 1..(Len(children) + 1)
          BY <1>2, <2>2, <3>2, SMT
      <4>2. 1..(Len(children) + 1) = 1..Len(children) \cup {k} /\ k \notin 1..Len(children)
          BY <1>8, SMT DEF k
      <4> QED  BY <1>8, <1>9, <3>2, <4>1, <4>2 DEF k
    <3> QED  BY <1>14, <3>1, <3>2
  <2>4. /\ \A d : In(d, queue) => In(d, queue')
        /\ \A d : In(d, queue') =>
              In(d, queue) \/ (open /\ d = <<"close_process", <<s, proc.handle[s]>> >>)
        /\ open => In(<<"close_process", <<s, proc.handle[s]>> >>, queue')
    <3>1. CASE open
        BY <1>2, <1>4, <1>14, <3>1, PostFacts
    <3>2. CASE ~open
        BY <1>14, <3>2
    <3> QED  BY <3>1, <3>2
  <2>5. \A h \in DOMAIN children : children[h].state \in States /\ children[h].state \in Nat
    <3>1. \A h \in DOMAIN children : children[h] \in ChildRecs
        BY <1>2, SMT
    <3> QED  BY <3>1, ConstFacts DEF ChildRecs
  <2>6. \A h \in DOMAIN children : ~children[h].reported => children[h].state \notin {s, n}
    <3> SUFFICES ASSUME NEW h \in DOMAIN children, ~children[h].reported
                 PROVE  children[h].state \notin {s, n}
        OBVIOUS
    <3>1. children[h].state <= s /\ proc.running[children[h].state]
        BY <1>2 DEF ChildInv, ChildAt, s
    <3> QED  BY <1>5, <1>6, <1>14, <2>5, <3>1 DEF n
  <2>7. \A q \in States : proc.closed[q] => proc'.closed[q]
      BY <1>6, <2>1
  <2>8. ASSUME NEW q \in States PROVE WaiterAt(q)'
    <3>1. WaiterAt(q)
        BY <1>2 DEF WaitInv
    <3>2. proc'.status[q] = "ok"
        BY <2>1, <3>1 DEF WaiterAt
    <3> QED  BY <1>1, <1>12, <1>10, <2>1, <3>1, <3>2 DEF WaiterAt
  <2>9. ASSUME NEW x \in Ops, Kind(x) = "wait" PROVE AnswerAt(x)'
    <3>1. AnswerAt(x) /\ result'[x] = result[x]
        BY <1>1, <1>2, <1>10, <2>9 DEF WaitInv
    <3> QED  BY <1>1, <2>1, <2>3, <2>7, <3>1 DEF AnswerAt
  <2>10. ASSUME NEW x \in Ops, Kind(x) = "wait", pc'[x] = "waiting" PROVE WaitAt(x)'
    <3>1. WaitAt(x)
        BY <1>1, <1>2, <1>10, <2>10 DEF WaitInv
    <3>2. proc.on[x] \in States /\ proc.on[x] \notin {s, n}
        BY <2>6, <3>1 DEF WaitAt
    <3>3. proc'.handle[proc.on[x]] = proc.handle[proc.on[x]]
        BY <1>6, <2>1, <3>2
    <3> QED  BY <2>1, <2>3, <2>4, <3>1, <3>3 DEF WaitAt
  <2>11. ASSUME NEW g \in DOMAIN children' PROVE ChildAt(g)'
    <3>1. CASE g \in DOMAIN children
      <4>1. ChildAt(g) /\ children'[g] = children[g]
          BY <1>2, <2>3, <3>1 DEF ChildInv
      <4>2. children[g].state <= n
          BY <1>5, <1>6, <1>7, <2>5, <3>1, <4>1 DEF ChildAt, s
      <4>3. ASSUME ~children[g].reported
            PROVE  /\ proc'.running[children[g].state]
                   /\ proc'.handle[children[g].state] \in {g, 0}
                   /\ \A e \in DOMAIN children' :
                        children'[e].state = children[g].state /\ ~children'[e].reported => e = g
        <5>1. children[g].state \in States \ {s, n}
            BY <2>5, <2>6, <3>1, <4>3
        <5>2. /\ proc'.running[children[g].state] = proc.running[children[g].state]
              /\ proc'.handle[children[g].state] = proc.handle[children[g].state]
            BY <1>6, <2>1, <5>1
        <5>3. \A e \in DOMAIN children' : children'[e].state = children[g].state =>
                 e \in DOMAIN children
            BY <2>2, <2>3, <5>1
        <5> QED  BY <2>3, <4>1, <4>3, <5>2, <5>3 DEF ChildAt
      <4> QED  BY <2>1, <4>1, <4>2, <4>3 DEF ChildAt
    <3>2. CASE g \notin DOMAIN children
      <4>1. /\ g = k /\ children'[g] = c /\ proc'.handle[n] = k /\ proc'.running[n] = TRUE
          BY <2>3, <3>2
      <4>2. \A e \in DOMAIN children' : children'[e].state = n /\ ~children'[e].reported => e = g
          BY <2>3, <2>6, <4>1
      <4> QED  BY <1>7, <2>1, <2>2, <4>1, <4>2 DEF ChildAt
    <3> QED  BY <3>1, <3>2
  <2>12. ASSUME NEW q \in States PROVE StateAt(q)'
    <3>1. StateAt(q) /\ StateAt(s)
        BY <1>2, <1>4 DEF ChildInv
    <3>2. q \in Nat
        BY ConstFacts
    <3>3. ASSUME proc'.handle[q] # 0
          PROVE  /\ proc'.handle[q] \in DOMAIN children'
                 /\ LET d == children'[proc'.handle[q]]
                    IN  d.state = q /\ d.uv = "open" /\ (proc'.exited[q] <=> d.reported)
      <4>1. CASE q = n
        <5>1. u.handle[n] = 0
          <6>1. CASE open
            <7>1. n > s /\ n # s
                BY <1>5, <1>6, <6>1 DEF n
            <7>2. proc.handle[n] = 0
                BY <1>2, <1>7, <7>1 DEF ChildInv, StateAt, s
            <7> QED  BY <1>6, <1>7, <7>1, <7>2
          <6>2. CASE ~open
              BY <1>6, <6>2 DEF n
          <6> QED  BY <6>1, <6>2
        <5> QED  BY <2>1, <2>2, <2>3, <3>3, <4>1, <5>1
      <4>2. CASE q # n /\ q = s
          BY <1>6, <2>1, <3>3, <4>2
      <4>3. CASE q # n /\ q # s
          BY <1>6, <2>1, <2>3, <3>1, <3>3, <4>3 DEF StateAt
      <4> QED  BY <4>1, <4>2, <4>3
    <3>4. ASSUME q > n PROVE proc'.handle[q] = 0
      <4>1. q > s /\ q # s /\ q # n
          BY <1>5, <1>7, <3>2, <3>4
      <4> QED  BY <1>6, <2>1, <3>1, <4>1 DEF StateAt, s
    <3>5. ASSUME NEW h \in Nat, In(<<"close_process", <<q, h>> >>, queue')
          PROVE  /\ proc'.closed[q] /\ proc'.handle[q] # h
                 /\ h \in DOMAIN children' /\ children'[h].state = q
      <4>1. CASE In(<<"close_process", <<q, h>> >>, queue)
        <5>1. /\ proc.closed[q] /\ proc.handle[q] # h /\ h \in DOMAIN children
              /\ children[h].state = q
            BY <3>1, <4>1 DEF StateAt
        <5>2. h # 0
            BY <1>8, <5>1
        <5> QED  BY <1>6, <2>1, <2>3, <2>7, <5>1, <5>2
      <4>2. CASE open /\ q = s /\ h = proc.handle[s]
        <5>1. h \in DOMAIN children /\ children[h].state = s /\ h # 0
            BY <3>1, <4>2 DEF StateAt, open
        <5>2. s # n
            BY <1>5, <1>6, <4>2 DEF n
        <5> QED  BY <1>6, <2>1, <2>3, <4>2, <5>1, <5>2
      <4> QED  BY <2>4, <3>5, <4>1, <4>2
    <3> QED  BY <2>1, <3>3, <3>4, <3>5 DEF StateAt
  <2>13. WaitInv' /\ ChildInv'
      BY <1>12, <2>8, <2>9, <2>10, <2>11, <2>12 DEF WaitInv, ChildInv
  <2>14. proc'.state <= Cardinality(Spawned') + 1
      BY <1>2, <1>5, <1>7, <1>11, <2>1
  <2>15. ProcessInv' /\ ProcessTypes'
      BY <2>1, <2>3, <2>13, <2>14 DEF ProcessInv, ProcessTypes
  <2> QED  BY <1>1, <1>10, <2>15, ProcessStepRest
<1> QED  BY <1>1, <1>13, <1>14

\* wait() for the child.
LEMMA WaitStep ==
    ASSUME ListenersInv, NEW o \in Ops, Wait(o), UNCHANGED <<server, watchVars>>
    PROVE  ListenersInv'
<1> DEFINE s == proc.state
           h == proc.handle[s]
           p == [proc EXCEPT !.on[o] = s, !.child[o] = h]
<1>1. /\ fault = None /\ pc[o] = "new" /\ Kind(o) = "wait"
      /\ UNCHANGED <<call, queue, stopped, busy, fault, children>>
      /\ \/ (End(o :> "error") \/ End(o :> "busy")) /\ UNCHANGED proc
         \/ /\ h # 0 /\ (o \in stopped \/ proc.exited[s])
            /\ proc' = WaitResume(o, p)[1] /\ End(o :> WaitResume(o, p)[2])
         \/ /\ h # 0 /\ ~(o \in stopped \/ proc.exited[s]) /\ proc.waiter[s] = None
            /\ At(o, "waiting") /\ proc' = [p EXCEPT !.waiter[s] = o]
    BY DEF Wait, Begins, Idle
<1>2. /\ TypeOK /\ PlacesInv /\ OpTypes /\ queue \in Seq(Posts) /\ proc \in ProcRecs
      /\ ProcessInv /\ WaitInv /\ ChildInv /\ children \in Seq(ChildRecs)
    BY DEF ListenersInv, TypeOK, OpTypes, ProcessTypes, ProcessInv
<1>3. s \in States /\ h \in Nat
    BY <1>2 DEF ProcRecs
<1>4. /\ p \in ProcRecs /\ p.state = proc.state /\ p.handle = proc.handle
      /\ p.running = proc.running /\ p.exited = proc.exited /\ p.waiter = proc.waiter
      /\ p.status = proc.status /\ p.closed = proc.closed
      /\ p.on[o] = s /\ p.child[o] = h
      /\ \A x \in Ops \ {o} : p.on[x] = proc.on[x] /\ p.child[x] = proc.child[x]
    BY <1>2, <1>3 DEF ProcRecs
<1> HIDE DEF p
<1>5. h # 0 => /\ h \in DOMAIN children /\ children[h].state = s /\ children[h].uv = "open"
               /\ proc.exited[s] <=> children[h].reported
               /\ children[h].reported => ~children[h].alive
    BY <1>2, <1>3 DEF ChildInv, StateAt, ChildAt
<1> HIDE DEF s, h
<1>6. \A x \in Ops : Kind(x)' = Kind(x)
    BY <1>1 DEF Kind
<1>7. \A W : QueueSame(W)
    BY <1>1 DEF QueueSame
<1>8. SUFFICES ASSUME NEW where \in {"waiting", "done"}, pc'[o] = where,
                      OpTypes', PlacesInv',
                      \A x \in Ops \ {o} : pc'[x] = pc[x] /\ result'[x] = result[x],
                      proc' \in ProcRecs,
                      proc'.state = proc.state, proc'.handle = proc.handle,
                      proc'.running = proc.running, proc'.exited = proc.exited,
                      proc'.closed = proc.closed,
                      \A x \in Ops \ {o} :
                         proc'.on[x] = proc.on[x] /\ proc'.child[x] = proc.child[x],
                      \A q \in States :
                         /\ proc'.status[q] = "ok"
                         /\ \/ proc'.waiter[q] = proc.waiter[q]
                            \/ q = s /\ proc.waiter[s] = None /\ proc'.waiter[s] = o,
                      where = "waiting" => /\ proc'.on[o] = s /\ proc'.child[o] = h
                                           /\ h # 0 /\ ~proc.exited[s]
                                           /\ proc'.waiter[s] = o,
                      where = "done" => proc'.waiter[s] = proc.waiter[s],
                      AnswerAt(o)'
             PROVE  ListenersInv'
  <2>1. \A x \in States : proc.status[x] = "ok"
      BY <1>2 DEF WaitInv, WaiterAt
  <2>2. CASE (End(o :> "error") \/ End(o :> "busy")) /\ UNCHANGED proc
    <3>1. PICK r \in {"error", "busy"} : End(o :> r)
        BY <2>2
    <3>2. r \in Results /\ r \notin {"exited", "cancelled"}
        BY DEF Results
    <3>3. /\ OpTypes' /\ PlacesInv' /\ pc'[o] = "done" /\ result'[o] = r
          /\ \A x \in Ops \ {o} : pc'[x] = pc[x] /\ result'[x] = result[x]
        BY <1>1, <1>2, <3>1, <3>2, CallEnds
    <3>4. AnswerAt(o)'
        BY <3>2, <3>3 DEF AnswerAt
    <3> QED  BY <1>2, <1>8, <2>1, <2>2, <3>3, <3>4
  <2>3. CASE /\ h # 0 /\ (o \in stopped \/ proc.exited[s])
             /\ proc' = WaitResume(o, p)[1] /\ End(o :> WaitResume(o, p)[2])
    <3> DEFINE t == WaitResume(o, p)[1]
               r == WaitResume(o, p)[2]
    <3>1. /\ t \in ProcRecs /\ r \in {"ok", "error", "cancelled", "exited"}
          /\ t.state = p.state /\ t.on = p.on /\ t.child = p.child /\ t.handle = p.handle
          /\ t.running = p.running /\ t.exited = p.exited /\ t.waiter = p.waiter
          /\ t.closed = p.closed
          /\ t.status[s] = "ok"
          /\ \A q \in States \ {s} : t.status[q] = p.status[q]
          /\ r = "exited" => p.exited[s] /\ p.status[s] = "ok"
          /\ r = "cancelled" => o \in stopped \/ p.status[s] = "cancelled"
        BY <1>3, <1>4, WaitFacts
    <3>2. proc' = t /\ End(o :> r)
        BY <2>3
    <3> HIDE DEF t, r
    <3>3. r \in Results
        BY <3>1 DEF Results
    <3>4. /\ OpTypes' /\ PlacesInv' /\ pc'[o] = "done" /\ result'[o] = r
          /\ \A x \in Ops \ {o} : pc'[x] = pc[x] /\ result'[x] = result[x]
        BY <1>1, <1>2, <3>2, <3>3, CallEnds
    <3>5. AnswerAt(o)'
        BY <1>1, <1>3, <1>4, <1>5, <2>1, <2>3, <3>1, <3>2, <3>4 DEF AnswerAt
    <3>6. \A q \in States : proc'.status[q] = "ok"
        BY <1>4, <2>1, <3>1, <3>2
    <3> QED  BY <1>4, <1>8, <3>1, <3>2, <3>4, <3>5, <3>6
  <2>4. CASE /\ h # 0 /\ ~(o \in stopped \/ proc.exited[s]) /\ proc.waiter[s] = None
             /\ At(o, "waiting") /\ proc' = [p EXCEPT !.waiter[s] = o]
    <3>1. pc' = [pc EXCEPT ![o] = "waiting"] /\ result' = result
        BY <2>4 DEF At
    <3>2. /\ pc' \in [Ops -> Pcs] /\ pc'[o] = "waiting"
          /\ \A x \in Ops \ {o} : pc'[x] = pc[x] /\ result'[x] = result[x]
        BY <1>2, <3>1 DEF OpTypes, Pcs
    <3>3. OpTypes'
        BY <1>1, <1>2, <3>1, <3>2 DEF OpTypes
    <3>4. PlacesInv'
      <4>1. PlaceInv(o)
          BY <1>2 DEF PlacesInv
      <4>2. \A w \in {"add", "start"} : busy # <<w, o>>
          BY <1>1, <1>2, NewFacts
      <4>3. PlaceInv(o)'
          BY <1>1, <1>6, <2>4, <3>1, <3>2, <4>1, <4>2 DEF PlaceInv
      <4>4. ASSUME NEW x \in Ops \ {o} PROVE Stays(x)
          BY <1>1, <3>2 DEF Stays
      <4> QED  BY <1>1, <1>2, <4>3, <4>4, PlacesStep
    <3>5. /\ proc' \in ProcRecs /\ proc'.state = p.state /\ proc'.handle = p.handle
          /\ proc'.running = p.running /\ proc'.exited = p.exited /\ proc'.closed = p.closed
          /\ proc'.on = p.on /\ proc'.child = p.child /\ proc'.status = p.status
          /\ proc'.waiter[s] = o
          /\ \A q \in States \ {s} : proc'.waiter[q] = p.waiter[q]
        BY <1>3, <1>4, <2>4 DEF ProcRecs
    <3>6. AnswerAt(o)'
      <4>1. result[o] = "none"
          BY <1>1, <1>2 DEF PlacesInv, PlaceInv
      <4> QED  BY <3>1, <4>1 DEF AnswerAt
    <3>7. "waiting" \in {"waiting", "done"} /\ pc'[o] = "waiting"
        BY <3>2
    <3> QED  BY <1>4, <1>8, <2>1, <2>4, <3>2, <3>3, <3>4, <3>5, <3>6, <3>7
  <2> QED  BY <1>1, <2>2, <2>3, <2>4
<1>9. /\ KindsSame({"accept", "close_signals", "close_watch"})
      /\ QueueSame({"drop", "close_entries", "close_watch"})
    BY <1>8, <1>1, <1>7 DEF KindsSame
<1>10. ASSUME NEW q \in States PROVE WaiterAt(q)'
  <2>1. WaiterAt(q) /\ proc'.status[q] = "ok"
      BY <1>8, <1>2 DEF WaitInv
  <2>2. ASSUME NEW x \in Ops, proc'.waiter[q] = x
        PROVE  pc'[x] = "waiting" /\ Kind(x)' = "wait" /\ proc'.on[x] = q
    <3>1. CASE x = o
      <4>1. proc.waiter[q] # o
          BY <1>8, <1>1, <2>1 DEF WaiterAt
      <4>2. q = s /\ pc'[o] = "waiting"
          BY <1>8, <2>2, <3>1, <4>1
      <4> QED  BY <1>8, <1>1, <1>6, <3>1, <4>2
    <3>2. CASE x # o
      <4>1. proc.waiter[q] = x
          BY <1>8, <2>2, <3>2
      <4> QED  BY <1>8, <1>6, <2>1, <3>2, <4>1 DEF WaiterAt
    <3> QED  BY <1>8, <3>1, <3>2
  <2> QED  BY <1>8, <2>1, <2>2 DEF WaiterAt
<1>11. ASSUME NEW x \in Ops, Kind(x) = "wait" PROVE AnswerAt(x)'
  <2>1. AnswerAt(x)
      BY <1>8, <1>2, <1>11 DEF WaitInv
  <2> QED  BY <1>8, <1>1, <2>1 DEF AnswerAt
<1>12. ASSUME NEW x \in Ops, Kind(x) = "wait", pc'[x] = "waiting" PROVE WaitAt(x)'
  <2>1. CASE x = o
    <3>1. /\ proc'.on[x] = s /\ proc'.child[x] = h /\ h # 0 /\ ~proc.exited[s]
          /\ proc'.waiter[s] = x
        BY <1>8, <1>12, <2>1
    <3>2. proc'.handle[s] = h
        BY <1>8 DEF h
    <3> QED  BY <1>8, <1>1, <1>3, <1>5, <3>1, <3>2 DEF WaitAt
  <2>2. CASE x # o
    <3>1. WaitAt(x)
        BY <1>8, <1>2, <1>12, <2>2 DEF WaitInv
    <3>2. proc'.waiter[proc.on[x]] = x
        BY <1>8, <3>1, ConstFacts DEF WaitAt
    <3> QED  BY <1>8, <1>1, <2>2, <3>1, <3>2 DEF WaitAt
  <2> QED  BY <1>8, <2>1, <2>2
<1>13. ASSUME NEW g \in DOMAIN children PROVE ChildAt(g)'
    BY <1>8, <1>1, <1>2 DEF ChildInv, ChildAt
<1>14. ASSUME NEW q \in States PROVE StateAt(q)'
    BY <1>8, <1>1, <1>2 DEF ChildInv, StateAt
<1>15. WaitInv' /\ ChildInv'
    BY <1>8, <1>1, <1>6, <1>10, <1>11, <1>12, <1>13, <1>14 DEF WaitInv, ChildInv
<1>16. Spawned' = Spawned
    BY <1>8, <1>1, <1>6 DEF Spawned
<1>17. ProcessInv' /\ ProcessTypes'
    BY <1>8, <1>1, <1>2, <1>15, <1>16 DEF ProcessInv, ProcessTypes
<1> QED  BY <1>8, <1>1, <1>9, <1>17, ProcessStepRest

-----------------------------------------------------------------------------
(* The watchers                                                              *)

\* A step of the watchers.
LEMMA WatchersStepRest ==
    ASSUME ListenersInv, UNCHANGED <<call, stopped, server, procVars>>,
           OpTypes', WatchTypes', PlacesInv', WatchInv',
           KindsSame({"accept", "wait", "spawn"}), QueueSame({"drop", "close_process"})
    PROVE  ListenersInv'
<1>1. /\ KindsSame({"accept"}) /\ KindsSame({"wait", "spawn"})
      /\ QueueSame({"drop"}) /\ QueueSame({"close_process"})
    BY DEF KindsSame, QueueSame
<1>2. ServerInv' /\ ProcessInv'
    BY <1>1, ServerFrame, ProcessFrame DEF ListenersInv, TypeOK
<1>3. ServerTypes' /\ ProcessTypes'
    BY DEF ListenersInv, TypeOK, ServerTypes, ProcessTypes, procVars
<1> QED  BY <1>2, <1>3 DEF ListenersInv, TypeOK

\* An op goes on to another place.
LEMMA OpMoves ==
    ASSUME TypeOK, PlacesInv, NEW o \in Ops, NEW w \in Pcs \ {"waiting", "done", "new"}, At(o, w),
           UNCHANGED <<call, queue, stopped>>, pc[o] \notin {"waiting", "done", "calling"},
           \A x \in Ops, k \in {"add", "start"} : x # o /\ busy' = <<k, x>> => busy = <<k, x>>,
           w = "adding" => Kind(o) = "add", w = "starting" => Kind(o) = "start",
           w = "receiving" => Kind(o) = "next", w = "calling" => Kind(o) = "close_server",
           w = "detached" => Kind(o) = "close_watch",
           w \in {"flagged", "draining"} => Kind(o) \in {"close_signals", "close_watch"},
           busy' = <<"add", o>> => w = "adding", busy' = <<"start", o>> => w = "starting"
    PROVE  /\ OpTypes' /\ PlacesInv' /\ pc'[o] = w /\ UNCHANGED result
           /\ \A x \in Ops \ {o} : pc'[x] = pc[x]
           /\ \A K : Kind(o) \notin K => KindsSame(K)
           /\ \A W : QueueSame(W)
<1>1. pc' = [pc EXCEPT ![o] = w] /\ result' = result
    BY DEF At
<1>2. pc' \in [Ops -> Pcs] /\ pc'[o] = w /\ \A x \in Ops \ {o} : pc'[x] = pc[x]
    BY <1>1 DEF TypeOK, OpTypes
<1>3. OpTypes'
    BY <1>1, <1>2 DEF TypeOK, OpTypes
<1>4. PlacesInv'
  <2>1. PlaceInv(o)
      BY DEF PlacesInv
  <2>2. PlaceInv(o)'
      BY <1>1, <1>2, <2>1 DEF PlaceInv, Kind
  <2>3. ASSUME NEW x \in Ops \ {o} PROVE Stays(x)
      BY <1>1, <1>2 DEF Stays
  <2> QED  BY <2>2, <2>3, PlacesStep
<1>5. ASSUME NEW K, Kind(o) \notin K PROVE KindsSame(K)
    BY <1>1, <1>2, <1>5 DEF KindsSame
<1>6. \A W : QueueSame(W)
    BY DEF QueueSame
<1> QED  BY <1>1, <1>2, <1>3, <1>4, <1>5, <1>6

\* No op takes part.
LEMMA OpsStay ==
    ASSUME TypeOK, PlacesInv, UNCHANGED <<call, pc, result, stopped>>, queue' \in Seq(Posts),
           \A x \in Ops : /\ In(<<"cancel", x>>, queue') <=> In(<<"cancel", x>>, queue)
                          /\ In(<<"drop", x>>, queue') => In(<<"drop", x>>, queue),
           \A x \in Ops, k \in {"add", "start"} : busy' = <<k, x>> => busy = <<k, x>>
    PROVE  OpTypes' /\ PlacesInv' /\ \A K : KindsSame(K)
<1>1. OpTypes'
    BY DEF TypeOK, OpTypes
<1>2. ASSUME NEW x \in Ops PROVE Stays(x)
    BY DEF Stays
<1>3. PlacesInv'
    BY <1>2, PlacesStep
<1> QED  BY <1>1, <1>3 DEF KindsSame

\* What the watchers keep, for the steps below.
LEMMA WatchFacts ==
    ASSUME ListenersInv, fault = None
    PROVE  /\ TypeOK /\ PlacesInv /\ OpTypes /\ queue \in Seq(Posts) /\ SignalInv /\ PathInv
           /\ signals \in SignalRecs /\ files \in FileRecs /\ raised \in Nat /\ busy \in Busies
           /\ events \in [{"signals", "files"} -> ChannelRecs]
    BY DEF ListenersInv, TypeOK, OpTypes, WatchTypes, WatchInv

\* next() takes an event, or learns that there are no more.
LEMMA NextEndsFacts ==
    ASSUME ListenersInv, fault = None, NEW o \in Ops, Kind(o) = "next", NextEnds(o)
    PROVE  /\ \E r \in Results : End(o :> r)
           /\ events' \in [{"signals", "files"} -> ChannelRecs]
           /\ Elements(events'["files"].buf) \subseteq Elements(events["files"].buf)
           /\ \A c \in {"signals", "files"} : events'[c].closed = events[c].closed
<1> DEFINE a == Arg(o)
           c == events[a]
<1>1. /\ \E r \in Results : End(o :> r)
      /\ \/ events' = events
         \/ /\ c.buf # <<>>
            /\ events' = [events EXCEPT ![a].buf = Tail(@)]
    BY DEF NextEnds, Results
<1>2. OpTypes /\ events \in [{"signals", "files"} -> ChannelRecs]
    BY WatchFacts
<1>3. a \in {"signals", "files"}
    BY <1>2, CallFacts
<1>4. c.buf \in Seq(EventTypes)
    BY <1>2, <1>3 DEF ChannelRecs
<1> HIDE DEF a
<1>5. CASE events' = events
    BY <1>1, <1>2, <1>5
<1>6. CASE c.buf # <<>> /\ events' = [events EXCEPT ![a].buf = Tail(@)]
  <2> DEFINE b == c.buf
             d == [c EXCEPT !.buf = Tail(b)]
  <2>1. /\ Tail(b) \in Seq(EventTypes) /\ Len(Tail(b)) = Len(b) - 1 /\ Len(b) \in Nat
        /\ DOMAIN Tail(b) = 1..Len(Tail(b)) /\ DOMAIN b = 1..Len(b)
        /\ \A i \in 1..Len(Tail(b)) : Tail(b)[i] = b[i + 1]
      BY <1>4, <1>6, SMT
  <2>2. Elements(Tail(b)) \subseteq Elements(b)
    <3> SUFFICES ASSUME NEW i \in DOMAIN Tail(b) PROVE Tail(b)[i] \in Elements(b)
        BY DEF Elements
    <3>1. i + 1 \in DOMAIN b /\ Tail(b)[i] = b[i + 1]
        BY <2>1, SMT
    <3> QED  BY <3>1 DEF Elements
  <2>3. c \in ChannelRecs
      BY <1>2, <1>3
  <2>4. d \in ChannelRecs /\ d.buf = Tail(b) /\ d.closed = c.closed
      BY <2>1, <2>3 DEF ChannelRecs
  <2>5. events' = [events EXCEPT ![a] = d]
      BY <1>6
  <2> HIDE DEF d
  <2>6. /\ events' \in [{"signals", "files"} -> ChannelRecs] /\ events'[a] = d
        /\ \A e \in {"signals", "files"} \ {a} : events'[e] = events[e]
      BY <1>2, <1>3, <2>4, <2>5
  <2>7. Elements(events'["files"].buf) \subseteq Elements(events["files"].buf)
    <3>1. CASE a = "files"
        BY <2>2, <2>4, <2>6, <3>1
    <3>2. CASE a # "files"
        BY <2>6, <3>2
    <3> QED  BY <3>1, <3>2
  <2>8. \A e \in {"signals", "files"} : events'[e].closed = events[e].closed
      BY <2>4, <2>6
  <2> QED  BY <1>1, <2>6, <2>7, <2>8
<1> QED  BY <1>1, <1>5, <1>6

\* next() of a watcher, at once or when something comes.
LEMMA NextStep ==
    ASSUME ListenersInv, NEW o \in Ops, NextEvent(o) \/ NextResumes(o),
           UNCHANGED <<server, procVars>>
    PROVE  ListenersInv'
<1>1. /\ fault = None /\ busy = None /\ pc[o] \in {"new", "receiving"}
      /\ UNCHANGED <<call, queue, stopped, busy, fault, signals, files, raised>>
      /\ NextEnds(o) \/ (Kind(o) = "next" /\ pc[o] = "new" /\ At(o, "receiving") /\ UNCHANGED events)
      /\ pc[o] = "new" => Kind(o) = "next"
    BY DEF NextEvent, NextResumes, Begins, Idle
<1>2. /\ TypeOK /\ PlacesInv /\ OpTypes /\ SignalInv /\ PathInv
      /\ signals \in SignalRecs /\ files \in FileRecs /\ raised \in Nat /\ busy \in Busies
      /\ events \in [{"signals", "files"} -> ChannelRecs]
    BY <1>1, WatchFacts
<1>3. Kind(o) = "next"
    BY <1>1, <1>2 DEF PlacesInv, PlaceInv
<1>4. /\ OpTypes' /\ PlacesInv' /\ (\A K : Kind(o) \notin K => KindsSame(K))
      /\ \A W : QueueSame(W)
      /\ events' \in [{"signals", "files"} -> ChannelRecs]
      /\ Elements(events'["files"].buf) \subseteq Elements(events["files"].buf)
  <2>1. CASE NextEnds(o)
    <3>1. /\ \E r \in Results : End(o :> r)
          /\ events' \in [{"signals", "files"} -> ChannelRecs]
          /\ Elements(events'["files"].buf) \subseteq Elements(events["files"].buf)
        BY <1>1, <1>3, <2>1, NextEndsFacts
    <3>2. PICK r \in Results : End(o :> r)
        BY <3>1
    <3>3. /\ OpTypes' /\ PlacesInv' /\ (\A K : Kind(o) \notin K => KindsSame(K))
          /\ \A W : QueueSame(W)
        BY <1>1, <1>2, <3>2, CallEnds
    <3> QED  BY <3>1, <3>3
  <2>2. CASE pc[o] = "new" /\ At(o, "receiving") /\ UNCHANGED events
    <3>1. "receiving" \in Pcs \ {"waiting", "done", "new"}
        BY DEF Pcs
    <3>2. \A w \in {"add", "start"} : busy' # <<w, o>>
        BY <1>1, <1>2, <2>2, NewFacts
    <3>3. /\ OpTypes' /\ PlacesInv' /\ (\A K : Kind(o) \notin K => KindsSame(K))
          /\ \A W : QueueSame(W)
        BY <1>1, <1>2, <1>3, <2>2, <3>1, <3>2, OpMoves
    <3> QED  BY <1>2, <2>2, <3>3
  <2> QED  BY <1>1, <2>1, <2>2
<1>5. /\ KindsSame({"close_signals"}) /\ KindsSame({"close_watch"})
      /\ KindsSame({"accept", "wait", "spawn"})
      /\ QueueSame({"close_entries"}) /\ QueueSame({"close_watch"})
      /\ QueueSame({"drop", "close_process"})
    BY <1>3, <1>4
<1>6. SignalInv' /\ PathInv'
    BY <1>1, <1>2, <1>4, <1>5, SignalFrame, PathFrame
<1>7. WatchTypes'
    BY <1>1, <1>2, <1>4 DEF WatchTypes
<1> QED  BY <1>1, <1>4, <1>5, <1>6, <1>7, WatchersStepRest DEF WatchInv

\* A step of the watchers, piece by piece.
LEMMA WatchersKeep ==
    ASSUME ListenersInv, UNCHANGED <<call, stopped, server, procVars>>, OpTypes', PlacesInv',
           signals' \in SignalRecs, files' \in FileRecs,
           events' \in [{"signals", "files"} -> ChannelRecs], raised' \in Nat, busy' \in Busies,
           fault' = None => SignalInv' /\ PathInv',
           KindsSame({"accept", "wait", "spawn"}), QueueSame({"drop", "close_process"})
    PROVE  ListenersInv'
<1>1. WatchTypes' /\ WatchInv'
    BY DEF WatchTypes, WatchInv
<1> QED  BY <1>1, WatchersStepRest

\* A step that only says what the loop thread is in the middle of.
LEMMA WatchersPause ==
    ASSUME ListenersInv, fault = None,
           UNCHANGED <<call, stopped, server, procVars, signals, files, events>>,
           OpTypes', PlacesInv', raised' \in Nat, busy' \in Busies,
           busy' # None /\ busy'[1] = "event" => busy' = busy,
           KindsSame({"accept", "wait", "spawn"}), QueueSame({"drop", "close_process"}),
           KindsSame({"close_signals"}), KindsSame({"close_watch"}),
           QueueSame({"close_entries"}), QueueSame({"close_watch"})
    PROVE  ListenersInv'
<1>1. /\ TypeOK /\ PlacesInv /\ OpTypes /\ SignalInv /\ PathInv
      /\ signals \in SignalRecs /\ files \in FileRecs
      /\ events \in [{"signals", "files"} -> ChannelRecs]
    BY WatchFacts
<1>2. SignalInv'
    BY <1>1, SignalFrame
<1>3. Elements(events'["files"].buf) \subseteq Elements(events["files"].buf)
    OBVIOUS
<1>4. PathInv'
    BY <1>1, <1>3, PathFrame
<1> QED  BY <1>1, <1>2, <1>4, WatchersKeep

\* add(n), and start(path), until the lock or the loop is there.
LEMMA AddStep ==
    ASSUME ListenersInv, NEW o \in Ops, AddSignal(o) \/ StartWatch(o),
           UNCHANGED <<server, procVars>>
    PROVE  ListenersInv'
<1>1. /\ fault = None /\ busy = None /\ pc[o] = "new" /\ Kind(o) \in {"add", "start"}
      /\ UNCHANGED <<call, queue, stopped, fault, signals, files, events, raised>>
      /\ \/ UNCHANGED busy /\ \E r \in Results : End(o :> r)
         \/ Kind(o) = "add" /\ busy' = <<"add", o>> /\ At(o, "adding")
         \/ Kind(o) = "start" /\ busy' = <<"start", o>> /\ At(o, "starting")
    BY DEF AddSignal, StartWatch, Begins, Idle, Results, watchVars
<1>2. /\ TypeOK /\ PlacesInv /\ OpTypes /\ raised \in Nat /\ busy \in Busies
    BY <1>1, WatchFacts
<1>3. /\ OpTypes' /\ PlacesInv' /\ (\A K : Kind(o) \notin K => KindsSame(K))
      /\ \A W : QueueSame(W)
      /\ busy' \in Busies /\ (busy' # None /\ busy'[1] = "event" => busy' = busy)
  <2>1. CASE UNCHANGED busy /\ \E r \in Results : End(o :> r)
    <3>1. PICK r \in Results : End(o :> r)
        BY <2>1
    <3>2. /\ OpTypes' /\ PlacesInv' /\ (\A K : Kind(o) \notin K => KindsSame(K))
          /\ \A W : QueueSame(W)
        BY <1>1, <1>2, <2>1, <3>1, CallEnds
    <3> QED  BY <1>2, <2>1, <3>2
  <2>2. CASE Kind(o) = "add" /\ busy' = <<"add", o>> /\ At(o, "adding")
    <3>1. "adding" \in Pcs \ {"waiting", "done", "new"}
        BY DEF Pcs
    <3>2. \A x \in Ops, k \in {"add", "start"} : x # o /\ busy' = <<k, x>> => busy = <<k, x>>
        BY <2>2
    <3>3. busy' # <<"start", o>>
        BY <2>2
    <3>4. /\ OpTypes' /\ PlacesInv' /\ (\A K : Kind(o) \notin K => KindsSame(K))
          /\ \A W : QueueSame(W)
        BY <1>1, <1>2, <2>2, <3>1, <3>2, <3>3, OpMoves
    <3>5. busy' \in Busies /\ busy'[1] # "event"
        BY <2>2 DEF Busies
    <3> QED  BY <3>4, <3>5
  <2>3. CASE Kind(o) = "start" /\ busy' = <<"start", o>> /\ At(o, "starting")
    <3>1. "starting" \in Pcs \ {"waiting", "done", "new"}
        BY DEF Pcs
    <3>2. \A x \in Ops, k \in {"add", "start"} : x # o /\ busy' = <<k, x>> => busy = <<k, x>>
        BY <2>3
    <3>3. busy' # <<"add", o>>
        BY <2>3
    <3>4. /\ OpTypes' /\ PlacesInv' /\ (\A K : Kind(o) \notin K => KindsSame(K))
          /\ \A W : QueueSame(W)
        BY <1>1, <1>2, <2>3, <3>1, <3>2, <3>3, OpMoves
    <3>5. busy' \in Busies /\ busy'[1] # "event"
        BY <2>3 DEF Busies
    <3> QED  BY <3>4, <3>5
  <2> QED  BY <1>1, <2>1, <2>2, <2>3
<1>4. /\ KindsSame({"close_signals"}) /\ KindsSame({"close_watch"})
      /\ KindsSame({"accept", "wait", "spawn"})
      /\ QueueSame({"close_entries"}) /\ QueueSame({"close_watch"})
      /\ QueueSame({"drop", "close_process"})
    BY <1>1, <1>3
<1> QED  BY <1>1, <1>2, <1>3, <1>4, WatchersPause

\* A step that changes the entries and the signals delivered, and nothing else of
\* the watchers.
LEMMA EntriesChange ==
    ASSUME ListenersInv, fault = None, UNCHANGED <<call, stopped, server, procVars>>,
           UNCHANGED <<files, events, raised>>, OpTypes', PlacesInv',
           signals' \in SignalRecs, fault' = None => SignalInv', busy' \in {busy, None},
           KindsSame({"accept", "wait", "spawn"}), QueueSame({"drop", "close_process"}),
           KindsSame({"close_watch"}), QueueSame({"close_watch"})
    PROVE  ListenersInv'
<1>1. /\ TypeOK /\ PlacesInv /\ OpTypes /\ PathInv
      /\ files \in FileRecs /\ raised \in Nat /\ busy \in Busies
      /\ events \in [{"signals", "files"} -> ChannelRecs]
    BY WatchFacts
<1>2. Elements(events'["files"].buf) \subseteq Elements(events["files"].buf)
    OBVIOUS
<1>3. busy' \in Busies /\ (busy' # None /\ busy'[1] = "event" => busy' = busy)
    BY <1>1 DEF Busies
<1>4. PathInv'
    BY <1>1, <1>2, <1>3, PathFrame
<1> QED  BY <1>1, <1>3, <1>4, WatchersKeep

\* The entry is inserted.
LEMMA AddInsertsStep ==
    ASSUME ListenersInv, NEW o \in Ops, AddInserts(o), UNCHANGED <<server, procVars>>
    PROVE  ListenersInv'
<1> DEFINE n == Arg(o)
           s == [signals EXCEPT !.entries = @ \cup {n}, !.uv = @ \cup {n}]
<1>1. /\ fault = None /\ busy = <<"add", o>> /\ busy' = None
      /\ UNCHANGED <<call, queue, stopped, files, events, raised>>
      /\ \E r \in Results : End(o :> r)
      /\ \/ UNCHANGED <<signals, fault>>
         \/ signals' = s /\ fault' = IF signals.drained THEN o ELSE None
    BY DEF AddInserts, Results
<1>2. /\ TypeOK /\ PlacesInv /\ OpTypes /\ SignalInv /\ queue \in Seq(Posts)
      /\ signals \in SignalRecs
    BY <1>1, WatchFacts
<1>3. Kind(o) = "add" /\ n \in Args
    BY <1>1, <1>2, CallFacts DEF PlacesInv, PlaceInv
<1>4. \A w \in {"add", "start"} : busy' # <<w, o>>
    BY <1>1, ConstFacts
<1>5. PICK r \in Results : End(o :> r)
    BY <1>1
<1>6. OpTypes' /\ PlacesInv' /\ \A K : Kind(o) \notin K => KindsSame(K)
    BY <1>1, <1>2, <1>4, <1>5, OneEnds
<1>7. /\ KindsSame({"close_signals"}) /\ KindsSame({"close_watch"})
      /\ KindsSame({"accept", "wait", "spawn"}) /\ \A W : QueueSame(W)
    BY <1>1, <1>3, <1>6 DEF QueueSame
<1>8. signals' \in SignalRecs /\ (fault' = None => SignalInv')
  <2>1. CASE UNCHANGED <<signals, fault>>
      BY <1>1, <1>2, <1>6, <1>7, <2>1, SignalFrame
  <2>2. CASE signals' = s /\ fault' = IF signals.drained THEN o ELSE None
    <3> HIDE DEF n
    <3>1. /\ signals' \in SignalRecs
          /\ signals'.entries = signals.entries \cup {n} /\ signals'.uv = signals.uv \cup {n}
          /\ signals'.drained = signals.drained /\ signals'.closed = signals.closed
        BY <1>2, <1>3, <2>2 DEF SignalRecs
    <3>2. ASSUME fault' = None PROVE SignalInv'
      <4>1. ~signals.drained
          BY <2>2, <3>2, ConstFacts
      <4>2. \A x \in Ops : Kind(x) = "close_signals" => pc'[x] = pc[x]
          BY <1>7 DEF KindsSame
      <4>3. \A m : Closing(m)' <=> Closing(m)
          BY <1>1 DEF Closing
      <4> QED  BY <1>1, <1>2, <3>1, <4>1, <4>2, <4>3 DEF SignalInv, Kind
    <3> QED  BY <3>1, <3>2
  <2> QED  BY <1>1, <2>1, <2>2
<1> QED  BY <1>1, <1>6, <1>7, <1>8, EntriesChange

\* Entries are removed.
LEMMA RemoveStep ==
    ASSUME ListenersInv, NEW o \in Ops, RemoveSignals(o), UNCHANGED <<server, procVars>>
    PROVE  ListenersInv'
<1>1. /\ fault = None /\ busy = None /\ pc[o] = "new" /\ Kind(o) \in {"remove", "clear"}
      /\ UNCHANGED <<call, queue, stopped, busy, fault, files, events, raised>>
      /\ \E r \in Results : End(o :> r)
      /\ \/ UNCHANGED signals
         \/ \E gone : Forget(gone)
    BY DEF RemoveSignals, Begins, Idle, Results
<1>2. /\ TypeOK /\ PlacesInv /\ OpTypes /\ SignalInv /\ signals \in SignalRecs
    BY <1>1, WatchFacts
<1>3. PICK r \in Results : End(o :> r)
    BY <1>1
<1>4. /\ OpTypes' /\ PlacesInv' /\ (\A K : Kind(o) \notin K => KindsSame(K))
      /\ \A W : QueueSame(W)
    BY <1>1, <1>2, <1>3, CallEnds
<1>5. /\ KindsSame({"close_signals"}) /\ KindsSame({"close_watch"})
      /\ KindsSame({"accept", "wait", "spawn"})
      /\ QueueSame({"close_entries"}) /\ QueueSame({"close_watch"})
      /\ QueueSame({"drop", "close_process"})
    BY <1>1, <1>4
<1>6. signals' \in SignalRecs /\ SignalInv'
  <2>1. CASE UNCHANGED signals
      BY <1>1, <1>2, <1>4, <1>5, <2>1, SignalFrame
  <2>2. ASSUME NEW gone, Forget(gone) PROVE signals' \in SignalRecs /\ SignalInv'
    <3>1. /\ signals' \in SignalRecs
          /\ signals'.entries = signals.entries \ gone /\ signals'.uv = signals.uv \ gone
          /\ signals'.drained = signals.drained /\ signals'.closed = signals.closed
        BY <1>2, <2>2 DEF Forget, SignalRecs
    <3>2. \A x \in Ops : Kind(x) = "close_signals" => pc'[x] = pc[x]
        BY <1>5 DEF KindsSame
    <3>3. \A m : Closing(m)' <=> Closing(m)
        BY <1>1 DEF Closing
    <3> QED  BY <1>1, <1>2, <3>1, <3>2, <3>3 DEF SignalInv, Kind
  <2> QED  BY <1>1, <2>1, <2>2
<1> QED  BY <1>1, <1>4, <1>5, <1>6, EntriesChange

\* A signal or an event comes: a closed watcher ignores it, another one is about to
\* send it.
LEMMA OnSignalStep ==
    ASSUME ListenersInv, NEW n \in signals.uv, OnSignal(n), UNCHANGED <<server, procVars>>
    PROVE  ListenersInv'
<1>1. /\ fault = None /\ busy = None /\ raised' = raised + 1
      /\ UNCHANGED <<call, pc, result, queue, stopped, fault, signals, files, events>>
      /\ busy' = busy \/ busy' = <<"signal", n>>
    BY DEF OnSignal, Pause, Idle, opVars
<1>2. /\ TypeOK /\ PlacesInv /\ raised \in Nat /\ signals \in SignalRecs /\ queue \in Seq(Posts)
    BY <1>1, WatchFacts
<1>3. n \in Args
    BY <1>2 DEF SignalRecs
<1>4. raised' \in Nat /\ busy' \in Busies
    BY <1>1, <1>2, <1>3 DEF Busies
<1>5. /\ busy' # None /\ busy'[1] = "event" => busy' = busy
      /\ \A x \in Ops, k \in {"add", "start"} : busy' = <<k, x>> => busy = <<k, x>>
    BY <1>1
<1>6. OpTypes' /\ PlacesInv' /\ \A K : KindsSame(K)
    BY <1>1, <1>2, <1>5, OpsStay
<1>7. \A W : QueueSame(W)
    BY <1>1 DEF QueueSame
<1> QED  BY <1>1, <1>4, <1>5, <1>6, <1>7, WatchersPause

\* The signal is sent, or the channel is closed and send throws.
LEMMA SignalSendsStep ==
    ASSUME ListenersInv, SignalSends, UNCHANGED <<server, procVars>>
    PROVE  ListenersInv'
<1> DEFINE c == events["signals"]
           b == Append(c.buf, busy[2])
           d == [c EXCEPT !.buf = b]
<1>1. /\ fault = None /\ busy # None /\ busy[1] = "signal" /\ busy' = None
      /\ UNCHANGED <<call, pc, result, queue, stopped, signals, files, raised>>
      /\ events' = events \/ events' = [events EXCEPT !["signals"] = d]
    BY DEF SignalSends
<1>2. /\ TypeOK /\ PlacesInv /\ OpTypes /\ SignalInv /\ PathInv /\ raised \in Nat
      /\ signals \in SignalRecs /\ files \in FileRecs /\ queue \in Seq(Posts) /\ busy \in Busies
      /\ events \in [{"signals", "files"} -> ChannelRecs]
    BY <1>1, WatchFacts
<1>3. busy[2] \in EventTypes
    BY <1>1, <1>2 DEF Busies, EventTypes
<1>4. c \in ChannelRecs /\ c.buf \in Seq(EventTypes)
    BY <1>2 DEF ChannelRecs
<1>5. b \in Seq(EventTypes)
    BY <1>3, <1>4, SMT
<1> HIDE DEF b
<1>6. d \in ChannelRecs
    BY <1>4, <1>5 DEF ChannelRecs
<1> HIDE DEF d
<1>7. /\ events' \in [{"signals", "files"} -> ChannelRecs] /\ events'["files"] = events["files"]
    BY <1>1, <1>2, <1>6
<1>8. \A x \in Ops, k \in {"add", "start"} : busy' = <<k, x>> => busy = <<k, x>>
    BY <1>1, ConstFacts
<1>9. OpTypes' /\ PlacesInv' /\ \A K : KindsSame(K)
    BY <1>1, <1>2, <1>8, OpsStay
<1>10. \A W : QueueSame(W)
    BY <1>1 DEF QueueSame
<1>11. SignalInv'
    BY <1>1, <1>2, <1>9, <1>10, SignalFrame
<1>12. Elements(events'["files"].buf) \subseteq Elements(events["files"].buf)
    BY <1>7
<1>13. PathInv'
    BY <1>1, <1>2, <1>9, <1>10, <1>12, PathFrame
<1>14. busy' \in Busies
    BY <1>1 DEF Busies
<1> QED  BY <1>1, <1>2, <1>7, <1>9, <1>10, <1>11, <1>13, <1>14, WatchersKeep

\* close() of a signal set takes the flag.
LEMMA CloseSignalsStep ==
    ASSUME ListenersInv, NEW o \in Ops, CloseSignals(o), UNCHANGED <<server, procVars>>
    PROVE  ListenersInv'
<1>1. /\ fault = None /\ pc[o] = "new" /\ Kind(o) = "close_signals"
      /\ UNCHANGED <<call, queue, stopped, busy, fault, files, events, raised>>
      /\ \/ /\ At(o, "flagged")
            /\ signals' = [signals EXCEPT !.set = FALSE, !.closed = TRUE]
         \/ End(o :> "ok") /\ UNCHANGED signals
    BY DEF CloseSignals, BeginsOutside
<1>2. /\ TypeOK /\ PlacesInv /\ OpTypes /\ SignalInv /\ signals \in SignalRecs
    BY <1>1, WatchFacts
<1>3. \A w \in {"add", "start"} : busy # <<w, o>>
    BY <1>1, <1>2, NewFacts
<1>4. \A m : Closing(m)' <=> Closing(m)
    BY <1>1 DEF Closing
<1>5. /\ OpTypes' /\ PlacesInv' /\ (\A K : Kind(o) \notin K => KindsSame(K))
      /\ \A W : QueueSame(W)
      /\ signals' \in SignalRecs /\ SignalInv'
  <2>1. CASE /\ At(o, "flagged")
             /\ signals' = [signals EXCEPT !.set = FALSE, !.closed = TRUE]
    <3>1. "flagged" \in Pcs \ {"waiting", "done", "new"}
        BY DEF Pcs
    <3>2. /\ OpTypes' /\ PlacesInv' /\ (\A K : Kind(o) \notin K => KindsSame(K))
          /\ (\A W : QueueSame(W)) /\ pc'[o] = "flagged"
        BY <1>1, <1>2, <1>3, <2>1, <3>1, OpMoves
    <3>3. /\ signals' \in SignalRecs
          /\ signals'.entries = signals.entries /\ signals'.uv = signals.uv
          /\ signals'.drained = signals.drained
        BY <1>2, <2>1 DEF SignalRecs
    <3>4. SignalInv'
        BY <1>1, <1>2, <1>4, <3>2, <3>3 DEF SignalInv, Kind
    <3> QED  BY <3>2, <3>3, <3>4
  <2>2. CASE End(o :> "ok") /\ UNCHANGED signals
    <3>1. "ok" \in Results
        BY DEF Results
    <3>2. /\ OpTypes' /\ PlacesInv' /\ (\A K : Kind(o) \notin K => KindsSame(K))
          /\ (\A W : QueueSame(W)) /\ \A x \in Ops \ {o} : pc'[x] = pc[x]
        BY <1>1, <1>2, <2>2, <3>1, CallEnds
    <3>3. \A x \in Ops : pc[x] \in {"flagged", "draining"} => pc'[x] = pc[x]
        BY <1>1, <3>2
    <3>4. SignalInv'
        BY <1>1, <1>2, <1>4, <2>2, <3>3 DEF SignalInv, Kind
    <3> QED  BY <1>2, <2>2, <3>2, <3>4
  <2> QED  BY <1>1, <2>1, <2>2
<1>6. /\ KindsSame({"close_watch"}) /\ KindsSame({"accept", "wait", "spawn"})
      /\ QueueSame({"close_watch"}) /\ QueueSame({"drop", "close_process"})
    BY <1>1, <1>5
<1> QED  BY <1>1, <1>5, <1>6, EntriesChange

\* close() of a watcher closes the channel.
LEMMA CloseEventsStep ==
    ASSUME ListenersInv, NEW o \in Ops, CloseEvents(o), UNCHANGED <<server, procVars>>
    PROVE  ListenersInv'
<1> DEFINE k == IF Kind(o) = "close_signals" THEN "signals" ELSE "files"
           d == [events[k] EXCEPT !.closed = TRUE]
<1>1. /\ fault = None /\ pc[o] = "flagged" /\ At(o, "draining")
      /\ UNCHANGED <<call, queue, stopped, busy, fault, signals, files, raised>>
      /\ events' = [events EXCEPT ![k] = d]
    BY DEF CloseEvents
<1>2. /\ TypeOK /\ PlacesInv /\ OpTypes /\ SignalInv /\ PathInv /\ raised \in Nat
      /\ signals \in SignalRecs /\ files \in FileRecs /\ busy \in Busies
      /\ events \in [{"signals", "files"} -> ChannelRecs]
    BY <1>1, WatchFacts
<1>3. Kind(o) \in {"close_signals", "close_watch"}
    BY <1>1, <1>2 DEF PlacesInv, PlaceInv
<1>4. \A w \in {"add", "start"} : busy # <<w, o>>
    BY <1>1, <1>2, NewFacts
<1>5. "draining" \in Pcs \ {"waiting", "done", "new"}
    BY DEF Pcs
<1>6. k \in {"signals", "files"}
    OBVIOUS
<1> HIDE DEF k
<1>7. d \in ChannelRecs /\ d.buf = events[k].buf
    BY <1>2, <1>6 DEF ChannelRecs
<1> HIDE DEF d
<1>8. /\ events' \in [{"signals", "files"} -> ChannelRecs]
      /\ events'["files"].buf = events["files"].buf
    BY <1>1, <1>2, <1>6, <1>7
<1>9. /\ OpTypes' /\ PlacesInv' /\ (\A K : Kind(o) \notin K => KindsSame(K))
      /\ (\A W : QueueSame(W)) /\ pc'[o] = "draining" /\ \A x \in Ops \ {o} : pc'[x] = pc[x]
    BY <1>1, <1>2, <1>3, <1>4, <1>5, OpMoves
<1>10. \A x \in Ops : /\ pc[x] \in {"flagged", "draining"} => pc'[x] \in {"flagged", "draining"}
                      /\ pc'[x] = "detached" <=> pc[x] = "detached"
    BY <1>1, <1>9
<1>11. SignalInv'
  <2>1. \A m : Closing(m)' <=> Closing(m)
      BY <1>1 DEF Closing
  <2> QED  BY <1>1, <1>2, <1>10, <2>1 DEF SignalInv, Kind
<1>12. PathInv'
  <2>1. files.handle => \A e \in Elements(events["files"].buf)' : e[1] = e[2]
      BY <1>2, <1>8 DEF PathInv, Elements
  <2>2. UNCHANGED <<files, busy, queue>> /\ \A x \in Ops : Kind(x)' = Kind(x)
      BY <1>1 DEF Kind
  <2>3. ~files.handle /\ files.uv # None =>
            \E x \in Ops : \/ /\ Kind(x) = "close_watch"
                              /\ pc'[x] \in {"detached", "flagged", "draining"}
                           \/ In(<<"close_watch", x>>, queue)
      BY <1>2, <1>10 DEF PathInv
  <2> QED  BY <1>2, <1>10, <2>1, <2>2, <2>3 DEF PathInv
<1>13. /\ KindsSame({"accept", "wait", "spawn"}) /\ QueueSame({"drop", "close_process"})
    BY <1>3, <1>9
<1> QED  BY <1>1, <1>2, <1>8, <1>9, <1>11, <1>12, <1>13, WatchersKeep

\* close() of a signal set empties the entries, and posts a closure for them.
LEMMA DrainStep ==
    ASSUME ListenersInv, NEW o \in Ops, DrainEntries(o), UNCHANGED <<server, procVars>>
    PROVE  ListenersInv'
<1> DEFINE A == signals.entries
           c == <<"close_entries", A>>
           nobody == {}
<1>1. /\ fault = None /\ pc[o] = "draining" /\ Kind(o) = "close_signals" /\ End(o :> "ok")
      /\ signals' = [signals EXCEPT !.entries = nobody, !.drained = TRUE]
      /\ queue' = Append(queue, c)
      /\ UNCHANGED <<call, stopped, busy, fault, files, events, raised>>
    BY DEF DrainEntries
<1>2. /\ TypeOK /\ PlacesInv /\ OpTypes /\ SignalInv /\ signals \in SignalRecs
      /\ queue \in Seq(Posts)
    BY <1>1, WatchFacts
<1>3. c \in Posts /\ c[1] = "close_entries"
    BY <1>2 DEF SignalRecs, Posts
<1>4. queue' \in Seq(Posts) /\ \A x : In(x, queue') <=> In(x, queue) \/ x = c
    BY <1>1, <1>2, <1>3, PostFacts
<1>5. /\ \A x \in Ops : <<"cancel", x>> # c /\ <<"drop", x>> # c
      /\ \A B : <<"close_entries", B>> = c <=> B = A
    OBVIOUS
<1> HIDE DEF c, nobody
<1>6. QueueSame({"close_watch"}) /\ QueueSame({"drop", "close_process"})
    BY <1>1, <1>2, <1>3, QueueKeeps
<1>7. "ok" \in Results /\ \A w \in {"add", "start"} : busy' # <<w, o>>
    BY <1>1, <1>2, NewFacts DEF Results
<1>8. \A x \in Ops : /\ In(<<"cancel", x>>, queue') <=> In(<<"cancel", x>>, queue)
                     /\ In(<<"drop", x>>, queue') => In(<<"drop", x>>, queue)
    BY <1>4, <1>5
<1>9. OpTypes' /\ PlacesInv' /\ \A K : Kind(o) \notin K => KindsSame(K)
    BY <1>1, <1>2, <1>4, <1>7, <1>8, OneEnds
<1>10. /\ signals' \in SignalRecs /\ signals'.entries = {} /\ signals'.drained = TRUE
       /\ signals'.uv = signals.uv
    BY <1>1, <1>2 DEF SignalRecs, nobody
<1>11. SignalInv'
  <2>1. ASSUME NEW m \in signals'.uv PROVE Closing(m)'
    <3>1. m \in A \/ Closing(m)
        BY <1>2, <1>10, <2>1 DEF SignalInv
    <3>2. \E B : In(<<"close_entries", B>>, queue') /\ m \in B
      <4>1. CASE m \in A
        <5>1. In(c, queue') /\ c = <<"close_entries", A>>
            BY <1>4, <1>5
        <5> QED  BY <4>1, <5>1
      <4>2. CASE Closing(m)
        <5>1. PICK B : In(<<"close_entries", B>>, queue) /\ m \in B
            BY <1>2, <4>2, ClosingForm DEF Closing
        <5> QED  BY <1>4, <5>1
      <4> QED  BY <3>1, <4>1, <4>2
    <3> QED  BY <1>4, <3>2, ClosingForm DEF Closing
  <2> QED  BY <1>10, <2>1 DEF SignalInv
<1>12. KindsSame({"accept", "wait", "spawn"}) /\ KindsSame({"close_watch"})
    BY <1>1, <1>9
<1> QED  BY <1>1, <1>6, <1>9, <1>10, <1>11, <1>12, EntriesChange

\* The closure closes their handles.
LEMMA RunCloseEntriesStep ==
    ASSUME ListenersInv, RunCloseEntries, UNCHANGED <<server, procVars>>
    PROVE  ListenersInv'
<1> DEFINE c == Head(queue)
<1>1. /\ fault = None /\ busy = None /\ queue # <<>> /\ c[1] = "close_entries"
      /\ queue' = Tail(queue) /\ signals' = [signals EXCEPT !.uv = @ \ c[2]]
      /\ UNCHANGED <<call, pc, result, stopped, busy, fault, files, events, raised>>
    BY DEF RunCloseEntries, Idle
<1>2. /\ TypeOK /\ PlacesInv /\ OpTypes /\ SignalInv /\ signals \in SignalRecs
      /\ queue \in Seq(Posts)
    BY <1>1, WatchFacts
<1>3. /\ queue' \in Seq(Posts) /\ c \in Posts /\ In(c, queue)
      /\ \A x : In(x, queue) <=> In(x, queue') \/ x = c
    BY <1>1, <1>2, TakeFacts
<1>4. c = <<"close_entries", c[2]>>
    BY <1>1, <1>3 DEF Posts
<1>5. QueueSame({"close_watch"}) /\ QueueSame({"drop", "close_process"})
    BY <1>1, <1>2, QueueKeeps
<1> HIDE DEF c
<1>6. \A x \in Ops : /\ In(<<"cancel", x>>, queue') <=> In(<<"cancel", x>>, queue)
                     /\ In(<<"drop", x>>, queue') => In(<<"drop", x>>, queue)
    BY <1>3, <1>4
<1>7. OpTypes' /\ PlacesInv' /\ \A K : KindsSame(K)
    BY <1>1, <1>2, <1>3, <1>6, OpsStay
<1>8. /\ signals' \in SignalRecs /\ signals'.entries = signals.entries
      /\ signals'.drained = signals.drained /\ signals'.uv = signals.uv \ c[2]
      /\ signals'.closed = signals.closed
    BY <1>1, <1>2 DEF SignalRecs
<1>9. signals.drained /\ signals.entries = {}
  <2>1. \E i \in 1..Len(queue) : queue[i][1] = "close_entries"
      BY <1>2, <1>3, <1>4, ClosingForm
  <2> QED  BY <1>2, <2>1 DEF SignalInv
<1>10. SignalInv'
  <2>1. ASSUME NEW m \in signals'.uv PROVE Closing(m)'
    <3>1. Closing(m)
        BY <1>2, <1>8, <1>9, <2>1 DEF SignalInv
    <3>2. PICK B : In(<<"close_entries", B>>, queue) /\ m \in B
        BY <1>2, <3>1, ClosingForm DEF Closing
    <3>3. <<"close_entries", B>> # c
        BY <1>4, <1>8, <2>1, <3>2
    <3>4. In(<<"close_entries", B>>, queue')
        BY <1>3, <3>2, <3>3
    <3> QED  BY <1>3, <3>2, <3>4, ClosingForm DEF Closing
  <2> QED  BY <1>8, <1>9, <2>1 DEF SignalInv
<1> QED  BY <1>1, <1>5, <1>7, <1>8, <1>10, EntriesChange

\* A step that changes the file watcher and no signal set.
LEMMA PathsChange ==
    ASSUME ListenersInv, fault = None, UNCHANGED <<call, stopped, server, procVars>>,
           UNCHANGED <<signals, events, raised>>, OpTypes', PlacesInv',
           files' \in FileRecs, fault' = None => PathInv', busy' \in {busy, None},
           KindsSame({"accept", "wait", "spawn"}), QueueSame({"drop", "close_process"}),
           KindsSame({"close_signals"}), QueueSame({"close_entries"})
    PROVE  ListenersInv'
<1>1. /\ TypeOK /\ PlacesInv /\ OpTypes /\ SignalInv
      /\ signals \in SignalRecs /\ raised \in Nat /\ busy \in Busies
      /\ events \in [{"signals", "files"} -> ChannelRecs]
    BY WatchFacts
<1>2. busy' \in Busies
    BY <1>1 DEF Busies
<1>3. SignalInv'
    BY <1>1, SignalFrame
<1> QED  BY <1>1, <1>2, <1>3, WatchersKeep

\* The watch is started, and the old one stopped.
LEMMA StartRunsStep ==
    ASSUME ListenersInv, NEW o \in Ops, StartRuns(o), UNCHANGED <<server, procVars>>
    PROVE  ListenersInv'
<1> DEFINE n == Arg(o)
<1>1. /\ fault = None /\ busy = <<"start", o>> /\ busy' = None
      /\ UNCHANGED <<call, queue, stopped, signals, events, raised>>
      /\ \/ End(o :> "error") /\ UNCHANGED <<files, fault>>
         \/ fault' = o /\ UNCHANGED <<files, pc, result>>
         \/ files.handle /\ End(o :> "error") /\ files' = [files EXCEPT !.uv = None]
         \/ /\ files.handle /\ End(o :> "ok")
            /\ files' = [files EXCEPT !.uv = n, !.named = n, !.path = n, !.active = TRUE]
    BY DEF StartRuns
<1>2. /\ TypeOK /\ PlacesInv /\ OpTypes /\ PathInv /\ files \in FileRecs /\ queue \in Seq(Posts)
    BY <1>1, WatchFacts
<1>3. Kind(o) = "start" /\ n \in Paths
    BY <1>1, <1>2, CallFacts DEF PlacesInv, PlaceInv, Paths
<1>4. /\ \A w \in {"add", "start"} : busy' # <<w, o>>
      /\ \A x \in Ops, k \in {"add", "start"} : busy' = <<k, x>> => busy = <<k, x>>
    BY <1>1, ConstFacts
<1>5. /\ \A W : QueueSame(W)
      /\ \A x \in Ops : /\ In(<<"cancel", x>>, queue') <=> In(<<"cancel", x>>, queue)
                        /\ In(<<"drop", x>>, queue') => In(<<"drop", x>>, queue)
    BY <1>1 DEF QueueSame
<1>6. ASSUME NEW r \in Results, End(o :> r)
      PROVE  /\ OpTypes' /\ PlacesInv' /\ (\A K : Kind(o) \notin K => KindsSame(K))
             /\ \A x \in Ops \ {o} : pc'[x] = pc[x]
    BY <1>1, <1>2, <1>4, <1>5, <1>6, OneEnds
<1>7. "error" \in Results /\ "ok" \in Results
    BY DEF Results
<1> HIDE DEF n
<1>8. CASE fault' = o /\ UNCHANGED <<files, pc, result>>
  <2>1. OpTypes' /\ PlacesInv' /\ \A K : KindsSame(K)
      BY <1>1, <1>2, <1>4, <1>5, <1>8, OpsStay
  <2>2. fault' # None
      BY <1>8, ConstFacts
  <2>3. files' \in FileRecs
      BY <1>2, <1>8
  <2> QED  BY <1>1, <1>5, <2>1, <2>2, <2>3, PathsChange
<1>9. CASE \E r \in Results : End(o :> r)
  <2>1. PICK r \in Results : End(o :> r)
      BY <1>9
  <2>2. /\ OpTypes' /\ PlacesInv' /\ (\A K : Kind(o) \notin K => KindsSame(K))
        /\ \A x \in Ops \ {o} : pc'[x] = pc[x]
      BY <1>6, <2>1
  <2>3. /\ KindsSame({"close_signals"}) /\ KindsSame({"close_watch"})
        /\ KindsSame({"accept", "wait", "spawn"})
      BY <1>3, <2>2
  <2>4. files' \in FileRecs /\ PathInv'
    <3>1. CASE files' = files
      <4>1. Elements(events'["files"].buf) \subseteq Elements(events["files"].buf)
          BY <1>1
      <4>2. busy' # None /\ busy'[1] = "event" => busy' = busy
          BY <1>1
      <4> QED  BY <1>1, <1>2, <1>5, <2>2, <2>3, <3>1, <4>1, <4>2, PathFrame
    <3>2. ASSUME files.handle, files' = [files EXCEPT !.uv = None]
                 \/ files' = [files EXCEPT !.uv = n, !.named = n, !.path = n, !.active = TRUE]
          PROVE  files' \in FileRecs /\ PathInv'
      <4>1. /\ files' \in FileRecs /\ files'.handle /\ files'.closed = files.closed
            /\ files'.uv # None =>
                  files'.active /\ files'.path = files'.uv /\ files'.named = files'.uv
          BY <1>2, <1>3, <3>2 DEF FileRecs, Paths
      <4>2. \A x \in Ops : pc'[x] = "detached" => pc[x] = "detached"
        <5>1. \A x \in Ops : Kind(x) = "close_watch" => pc'[x] = pc[x]
            BY <2>3 DEF KindsSame
        <5>2. \A x \in Ops : pc'[x] = "detached" => Kind(x) = "close_watch"
            BY <1>1, <2>2 DEF PlacesInv, PlaceInv, Kind
        <5> QED  BY <5>1, <5>2
      <4>3. \A e \in Elements(events["files"].buf)' : e[1] = e[2]
          BY <1>1, <1>2, <3>2 DEF PathInv, Elements
      <4> QED  BY <1>1, <1>2, <3>2, <4>1, <4>2, <4>3 DEF PathInv
    <3> QED  BY <1>1, <1>2, <1>8, <3>1, <3>2
  <2> QED  BY <1>1, <1>5, <2>2, <2>3, <2>4, PathsChange
<1> QED  BY <1>1, <1>7, <1>8, <1>9

\* The watch is stopped.
LEMMA StopWatchStep ==
    ASSUME ListenersInv, NEW o \in Ops, StopWatch(o), UNCHANGED <<server, procVars>>
    PROVE  ListenersInv'
<1>1. /\ fault = None /\ busy = None /\ pc[o] = "new" /\ Kind(o) = "stop"
      /\ UNCHANGED <<call, queue, stopped, busy, fault, signals, events, raised>>
      /\ \E r \in Results : End(o :> r)
      /\ \/ UNCHANGED files
         \/ /\ files.handle
            /\ files' = [files EXCEPT !.uv = None, !.named = None, !.path = None, !.active = FALSE]
    BY DEF StopWatch, Begins, Idle, Results
<1>2. /\ TypeOK /\ PlacesInv /\ OpTypes /\ PathInv /\ files \in FileRecs
    BY <1>1, WatchFacts
<1>3. PICK r \in Results : End(o :> r)
    BY <1>1
<1>4. /\ OpTypes' /\ PlacesInv' /\ (\A K : Kind(o) \notin K => KindsSame(K))
      /\ (\A W : QueueSame(W)) /\ \A x \in Ops \ {o} : pc'[x] = pc[x]
      /\ pc'[o] = "done"
    BY <1>1, <1>2, <1>3, CallEnds
<1>5. /\ KindsSame({"close_signals"}) /\ KindsSame({"close_watch"})
      /\ KindsSame({"accept", "wait", "spawn"})
      /\ QueueSame({"close_entries"}) /\ QueueSame({"close_watch"})
      /\ QueueSame({"drop", "close_process"})
    BY <1>1, <1>4
<1>6. files' \in FileRecs /\ PathInv'
  <2>1. CASE UNCHANGED files
    <3>1. Elements(events'["files"].buf) \subseteq Elements(events["files"].buf)
        BY <1>1
    <3> QED  BY <1>1, <1>2, <1>4, <1>5, <2>1, <3>1, PathFrame
  <2>2. CASE /\ files.handle
             /\ files' = [files EXCEPT !.uv = None, !.named = None, !.path = None, !.active = FALSE]
    <3>1. /\ files' \in FileRecs /\ files'.handle /\ files'.closed = files.closed
          /\ files'.uv = None
        BY <1>2, <2>2 DEF FileRecs, Paths
    <3>2. \A x \in Ops : pc'[x] = "detached" => pc[x] = "detached"
        BY <1>4
    <3>3. \A e \in Elements(events["files"].buf)' : e[1] = e[2]
        BY <1>1, <1>2, <2>2 DEF PathInv, Elements
    <3> QED  BY <1>1, <1>2, <2>2, <3>1, <3>2, <3>3 DEF PathInv
  <2> QED  BY <1>1, <2>1, <2>2
<1> QED  BY <1>1, <1>4, <1>5, <1>6, PathsChange

\* An event of the path that libuv watches comes.
LEMMA OnEventStep ==
    ASSUME ListenersInv, OnEvent, UNCHANGED <<server, procVars>>
    PROVE  ListenersInv'
<1> DEFINE n == files.uv
<1>1. /\ fault = None /\ busy = None /\ raised' = raised + 1 /\ n # None
      /\ UNCHANGED <<call, pc, result, queue, stopped, fault, signals, files, events>>
      /\ busy' = busy \/ busy' = <<"event", n>>
    BY DEF OnEvent, Pause, Idle, opVars
<1>2. /\ TypeOK /\ PlacesInv /\ OpTypes /\ SignalInv /\ PathInv /\ raised \in Nat
      /\ signals \in SignalRecs /\ files \in FileRecs /\ queue \in Seq(Posts)
      /\ events \in [{"signals", "files"} -> ChannelRecs]
    BY <1>1, WatchFacts
<1>3. n \in Paths
    BY <1>2 DEF FileRecs
<1>4. raised' \in Nat /\ busy' \in Busies
    BY <1>1, <1>2, <1>3 DEF Busies
<1>5. \A x \in Ops, k \in {"add", "start"} : busy' = <<k, x>> => busy = <<k, x>>
    BY <1>1
<1>6. OpTypes' /\ PlacesInv' /\ \A K : KindsSame(K)
    BY <1>1, <1>2, <1>5, OpsStay
<1>7. \A W : QueueSame(W)
    BY <1>1 DEF QueueSame
<1>8. SignalInv'
    BY <1>1, <1>2, <1>6, <1>7, SignalFrame
<1>9. PathInv'
  <2>1. files.handle => (busy' # None /\ busy'[1] = "event" => busy'[2] = files.named)
      BY <1>1, <1>2 DEF PathInv
  <2>2. UNCHANGED <<files, queue, pc>> /\ \A x \in Ops : Kind(x)' = Kind(x)
      BY <1>1 DEF Kind
  <2>3. files.handle => \A e \in Elements(events["files"].buf)' : e[1] = e[2]
      BY <1>1, <1>2 DEF PathInv, Elements
  <2> QED  BY <1>2, <2>1, <2>2, <2>3 DEF PathInv
<1> QED  BY <1>1, <1>2, <1>4, <1>6, <1>7, <1>8, <1>9, WatchersKeep

\* The event is sent under the name that the watcher has, or the channel is closed
\* and send throws.
LEMMA EventSendsStep ==
    ASSUME ListenersInv, EventSends, UNCHANGED <<server, procVars>>
    PROVE  ListenersInv'
<1> DEFINE c == events["files"]
           m == <<busy[2], files.named>>
           b == Append(c.buf, m)
           d == [c EXCEPT !.buf = b]
<1>1. /\ fault = None /\ busy # None /\ busy[1] = "event" /\ busy' = None
      /\ UNCHANGED <<call, pc, result, queue, stopped, signals, files, raised>>
      /\ events' = events \/ events' = [events EXCEPT !["files"] = d]
    BY DEF EventSends
<1>2. /\ TypeOK /\ PlacesInv /\ OpTypes /\ SignalInv /\ PathInv /\ raised \in Nat
      /\ signals \in SignalRecs /\ files \in FileRecs /\ queue \in Seq(Posts) /\ busy \in Busies
      /\ events \in [{"signals", "files"} -> ChannelRecs]
    BY <1>1, WatchFacts
<1>3. m \in EventTypes
  <2>1. busy[2] \in Paths
      BY <1>1, <1>2 DEF Busies
  <2>2. files.named \in Paths
      BY <1>2 DEF FileRecs
  <2> QED  BY <2>1, <2>2 DEF EventTypes
<1>4. files.handle => m[1] = m[2]
    BY <1>1, <1>2 DEF PathInv
<1> HIDE DEF m
<1>5. c \in ChannelRecs /\ c.buf \in Seq(EventTypes)
    BY <1>2 DEF ChannelRecs
<1>6. /\ b \in Seq(EventTypes) /\ DOMAIN b = 1..(Len(c.buf) + 1) /\ Len(c.buf) \in Nat
      /\ DOMAIN c.buf = 1..Len(c.buf)
      /\ \A i \in 1..Len(c.buf) : b[i] = c.buf[i]
      /\ b[Len(c.buf) + 1] = m
    BY <1>3, <1>5, SMT
<1>7. \A e \in Elements(b) : e \in Elements(c.buf) \/ e = m
  <2> SUFFICES ASSUME NEW i \in DOMAIN b PROVE b[i] \in Elements(c.buf) \/ b[i] = m
      BY DEF Elements
  <2>1. i \in 1..Len(c.buf) \/ i = Len(c.buf) + 1
      BY <1>6, SMT
  <2> QED  BY <1>6, <2>1 DEF Elements
<1> HIDE DEF b
<1>8. d \in ChannelRecs /\ d.buf = b
    BY <1>5, <1>6 DEF ChannelRecs
<1> HIDE DEF d
<1>9. /\ events' \in [{"signals", "files"} -> ChannelRecs]
      /\ events'["files"].buf = c.buf \/ events'["files"].buf = b
    BY <1>1, <1>2, <1>8
<1>10. \A x \in Ops, k \in {"add", "start"} : busy' = <<k, x>> => busy = <<k, x>>
    BY <1>1, ConstFacts
<1>11. OpTypes' /\ PlacesInv' /\ \A K : KindsSame(K)
    BY <1>1, <1>2, <1>10, OpsStay
<1>12. \A W : QueueSame(W)
    BY <1>1 DEF QueueSame
<1>13. SignalInv'
    BY <1>1, <1>2, <1>11, <1>12, SignalFrame
<1>14. PathInv'
  <2>1. files.handle => \A e \in Elements(events'["files"].buf) : e[1] = e[2]
    <3>1. files.handle => \A e \in Elements(c.buf) : e[1] = e[2]
        BY <1>2 DEF PathInv
    <3> QED  BY <1>4, <1>7, <1>9, <3>1
  <2>2. files.handle => \A e \in Elements(events["files"].buf)' : e[1] = e[2]
      BY <2>1 DEF Elements
  <2>3. UNCHANGED <<files, queue, pc>> /\ \A x \in Ops : Kind(x)' = Kind(x)
      BY <1>1 DEF Kind
  <2> QED  BY <1>1, <1>2, <2>2, <2>3 DEF PathInv
<1>15. busy' \in Busies
    BY <1>1 DEF Busies
<1> QED  BY <1>1, <1>2, <1>9, <1>11, <1>12, <1>13, <1>14, <1>15, WatchersKeep

\* close() of a file watcher takes the handle.
LEMMA CloseWatchStep ==
    ASSUME ListenersInv, NEW o \in Ops, CloseWatch(o), UNCHANGED <<server, procVars>>
    PROVE  ListenersInv'
<1>1. /\ fault = None /\ pc[o] = "new" /\ Kind(o) = "close_watch"
      /\ UNCHANGED <<call, queue, stopped, busy, fault, signals, events, raised>>
      /\ \/ At(o, "detached") /\ files' = [files EXCEPT !.handle = FALSE]
         \/ End(o :> "ok") /\ UNCHANGED files
    BY DEF CloseWatch, BeginsOutside
<1>2. /\ TypeOK /\ PlacesInv /\ OpTypes /\ PathInv /\ files \in FileRecs
    BY <1>1, WatchFacts
<1>3. \A w \in {"add", "start"} : busy # <<w, o>>
    BY <1>1, <1>2, NewFacts
<1>4. \A x \in Ops : Kind(x)' = Kind(x)
    BY <1>1 DEF Kind
<1>5. /\ OpTypes' /\ PlacesInv' /\ (\A K : Kind(o) \notin K => KindsSame(K))
      /\ \A W : QueueSame(W)
      /\ files' \in FileRecs /\ PathInv'
  <2>1. CASE At(o, "detached") /\ files' = [files EXCEPT !.handle = FALSE]
    <3>1. "detached" \in Pcs \ {"waiting", "done", "new"}
        BY DEF Pcs
    <3>2. /\ OpTypes' /\ PlacesInv' /\ (\A K : Kind(o) \notin K => KindsSame(K))
          /\ (\A W : QueueSame(W)) /\ pc'[o] = "detached"
        BY <1>1, <1>2, <1>3, <2>1, <3>1, OpMoves
    <3>3. files' \in FileRecs /\ ~files'.handle
        BY <1>2, <2>1 DEF FileRecs
    <3>4. PathInv'
        BY <1>1, <1>4, <3>2, <3>3 DEF PathInv
    <3> QED  BY <3>2, <3>3, <3>4
  <2>2. CASE End(o :> "ok") /\ UNCHANGED files
    <3>1. "ok" \in Results
        BY DEF Results
    <3>2. /\ OpTypes' /\ PlacesInv' /\ (\A K : Kind(o) \notin K => KindsSame(K))
          /\ (\A W : QueueSame(W)) /\ \A x \in Ops \ {o} : pc'[x] = pc[x]
          /\ pc'[o] = "done"
        BY <1>1, <1>2, <2>2, <3>1, CallEnds
    <3>3. \A x \in Ops : /\ pc[x] # "new" => pc'[x] = pc[x]
                         /\ pc'[x] = "detached" => pc[x] = "detached"
        BY <1>1, <3>2
    <3>4. UNCHANGED <<files, busy, queue>>
        BY <1>1, <2>2
    <3>5. files.handle => \A e \in Elements(events["files"].buf)' : e[1] = e[2]
        BY <1>1, <1>2 DEF PathInv, Elements
    <3>6. \A x \in Ops : pc[x] \in {"detached", "flagged", "draining"} => pc[x] # "new"
        OBVIOUS
    <3>7. PathInv'
        BY <1>2, <1>4, <3>3, <3>4, <3>5, <3>6 DEF PathInv
    <3> QED  BY <1>2, <2>2, <3>2, <3>7
  <2> QED  BY <1>1, <2>1, <2>2
<1>6. /\ KindsSame({"close_signals"}) /\ KindsSame({"accept", "wait", "spawn"})
      /\ QueueSame({"close_entries"}) /\ QueueSame({"drop", "close_process"})
    BY <1>1, <1>5
<1> QED  BY <1>1, <1>5, <1>6, PathsChange

\* close() of a file watcher sets the flag and clears the paths.
LEMMA FlagWatchStep ==
    ASSUME ListenersInv, NEW o \in Ops, FlagWatch(o), UNCHANGED <<server, procVars>>
    PROVE  ListenersInv'
<1>1. /\ fault = None /\ pc[o] = "detached" /\ At(o, "flagged")
      /\ UNCHANGED <<call, queue, stopped, busy, fault, signals, events, raised>>
      /\ files' = [files EXCEPT !.closed = TRUE, !.named = None, !.path = None, !.active = FALSE]
    BY DEF FlagWatch
<1>2. /\ TypeOK /\ PlacesInv /\ OpTypes /\ PathInv /\ files \in FileRecs
    BY <1>1, WatchFacts
<1>3. Kind(o) = "close_watch"
    BY <1>1, <1>2 DEF PlacesInv, PlaceInv
<1>4. \A w \in {"add", "start"} : busy # <<w, o>>
    BY <1>1, <1>2, NewFacts
<1>5. "flagged" \in Pcs \ {"waiting", "done", "new"}
    BY DEF Pcs
<1>6. /\ OpTypes' /\ PlacesInv' /\ (\A K : Kind(o) \notin K => KindsSame(K))
      /\ (\A W : QueueSame(W)) /\ pc'[o] = "flagged"
    BY <1>1, <1>2, <1>3, <1>4, <1>5, OpMoves
<1>7. files' \in FileRecs /\ files'.handle = files.handle /\ files'.uv = files.uv
    BY <1>1, <1>2 DEF FileRecs, Paths
<1>8. ~files.handle
    BY <1>1, <1>2 DEF PathInv
<1>9. PathInv'
  <2>1. Kind(o)' = "close_watch"
      BY <1>1, <1>3 DEF Kind
  <2> QED  BY <1>6, <1>7, <1>8, <2>1 DEF PathInv
<1>10. /\ KindsSame({"close_signals"}) /\ KindsSame({"accept", "wait", "spawn"})
       /\ QueueSame({"close_entries"}) /\ QueueSame({"drop", "close_process"})
    BY <1>3, <1>6
<1> QED  BY <1>1, <1>6, <1>7, <1>9, <1>10, PathsChange

\* It posts a closure for the handle.
LEMMA PostCloseWatchStep ==
    ASSUME ListenersInv, NEW o \in Ops, PostCloseWatch(o), UNCHANGED <<server, procVars>>
    PROVE  ListenersInv'
<1> DEFINE c == <<"close_watch", o>>
<1>1. /\ fault = None /\ pc[o] = "draining" /\ Kind(o) = "close_watch" /\ End(o :> "ok")
      /\ queue' = Append(queue, c)
      /\ UNCHANGED <<call, stopped, busy, fault, signals, files, events, raised>>
    BY DEF PostCloseWatch, watchVars
<1>2. /\ TypeOK /\ PlacesInv /\ OpTypes /\ PathInv /\ files \in FileRecs /\ queue \in Seq(Posts)
    BY <1>1, WatchFacts
<1>3. c \in Posts /\ c[1] = "close_watch"
    BY DEF Posts
<1>4. queue' \in Seq(Posts) /\ \A x : In(x, queue') <=> In(x, queue) \/ x = c
    BY <1>1, <1>2, <1>3, PostFacts
<1>5. \A x \in Ops : <<"cancel", x>> # c /\ <<"drop", x>> # c
    OBVIOUS
<1>6. QueueSame({"close_entries"}) /\ QueueSame({"drop", "close_process"})
    BY <1>1, <1>2, <1>3, QueueKeeps
<1>7. "ok" \in Results /\ \A w \in {"add", "start"} : busy' # <<w, o>>
    BY <1>1, <1>2, NewFacts DEF Results
<1>8. \A x \in Ops : /\ In(<<"cancel", x>>, queue') <=> In(<<"cancel", x>>, queue)
                     /\ In(<<"drop", x>>, queue') => In(<<"drop", x>>, queue)
    BY <1>4, <1>5
<1>9. /\ OpTypes' /\ PlacesInv' /\ (\A K : Kind(o) \notin K => KindsSame(K))
      /\ pc'[o] = "done" /\ \A x \in Ops \ {o} : pc'[x] = pc[x]
    BY <1>1, <1>2, <1>4, <1>7, <1>8, OneEnds
<1>10. PathInv'
  <2>1. UNCHANGED <<files, busy, events>> /\ \A x \in Ops : Kind(x)' = Kind(x)
      BY <1>1 DEF Kind
  <2>2. In(<<"close_watch", o>>, queue')
      BY <1>4
  <2>3. \A x \in Ops : pc'[x] = "detached" => pc[x] = "detached"
      BY <1>9
  <2>4. files.handle => \A e \in Elements(events["files"].buf)' : e[1] = e[2]
      BY <1>1, <1>2 DEF PathInv, Elements
  <2> QED  BY <1>2, <2>1, <2>2, <2>3, <2>4 DEF PathInv
<1>11. KindsSame({"close_signals"}) /\ KindsSame({"accept", "wait", "spawn"})
    BY <1>1, <1>9
<1> QED  BY <1>1, <1>2, <1>6, <1>9, <1>10, <1>11, PathsChange

\* The closure closes the handle.
LEMMA RunCloseWatchStep ==
    ASSUME ListenersInv, NEW o \in Ops, RunCloseWatch(o), UNCHANGED <<server, procVars>>
    PROVE  ListenersInv'
<1> DEFINE c == Head(queue)
<1>1. /\ fault = None /\ busy = None /\ queue # <<>> /\ c = <<"close_watch", o>>
      /\ queue' = Tail(queue) /\ files' = [files EXCEPT !.uv = None]
      /\ UNCHANGED <<call, pc, result, stopped, busy, fault, signals, events, raised>>
    BY DEF RunCloseWatch, Posted, Idle
<1>2. /\ TypeOK /\ PlacesInv /\ OpTypes /\ PathInv /\ files \in FileRecs /\ queue \in Seq(Posts)
    BY <1>1, WatchFacts
<1>3. queue' \in Seq(Posts) /\ \A x : In(x, queue) <=> In(x, queue') \/ x = c
    BY <1>1, <1>2, TakeFacts
<1>4. c[1] = "close_watch" /\ \A x \in Ops : <<"cancel", x>> # c /\ <<"drop", x>> # c
    BY <1>1
<1>5. QueueSame({"close_entries"}) /\ QueueSame({"drop", "close_process"})
    BY <1>1, <1>2, <1>4, QueueKeeps
<1> HIDE DEF c
<1>6. \A x \in Ops : /\ In(<<"cancel", x>>, queue') <=> In(<<"cancel", x>>, queue)
                     /\ In(<<"drop", x>>, queue') => In(<<"drop", x>>, queue)
    BY <1>3, <1>4
<1>7. OpTypes' /\ PlacesInv' /\ \A K : KindsSame(K)
    BY <1>1, <1>2, <1>3, <1>6, OpsStay
<1>8. /\ files' \in FileRecs /\ files'.handle = files.handle /\ files'.closed = files.closed
      /\ files'.named = files.named /\ files'.uv = None
    BY <1>1, <1>2 DEF FileRecs, Paths
<1>9. PathInv'
  <2>1. files.handle => \A e \in Elements(events["files"].buf)' : e[1] = e[2]
      BY <1>1, <1>2 DEF PathInv, Elements
  <2> QED  BY <1>1, <1>2, <1>8, <2>1 DEF PathInv
<1> QED  BY <1>1, <1>5, <1>7, <1>8, <1>9, PathsChange

-----------------------------------------------------------------------------
(* Every step                                                                *)

\* Nothing has happened yet.
LEMMA ListenersInit == Init => ListenersInv
<1> SUFFICES ASSUME Init PROVE ListenersInv
    OBVIOUS
<1> DEFINE nobody == {}
           nothing == [buf |-> <<>>, closed |-> FALSE]
<1>1. /\ call \in Scenarios /\ pc = [o \in Ops |-> "new"] /\ result = [o \in Ops |-> "none"]
      /\ queue = <<>> /\ stopped = {} /\ busy = None /\ fault = None
    BY DEF Init, OpsInit
<1>2. \A c : ~In(c, queue)
  <2>1. Len(queue) = 0
      BY <1>1
  <2> QED  BY <2>1, SMT DEF In
<1>3. OpTypes
    BY <1>1, SMT DEF OpTypes, Pcs, Results
<1>4. PlacesInv
    BY <1>1, <1>2, ConstFacts DEF PlacesInv, PlaceInv
<1>5. ServerTypes /\ ServerInv
  <2>1. server = [handle |-> TRUE, bound |-> FALSE, listening |-> FALSE, status |-> "ok",
                  waiter |-> None, pending |-> <<>>, uv |-> "idle", came |-> 0,
                  given |-> <<>>, closed |-> nobody, lost |-> nobody]
      BY DEF Init, ServerInit
  <2>2. nobody \in SUBSET Nat /\ <<>> \in Seq(Nat)
      OBVIOUS
  <2>3. nobody = {}
      OBVIOUS
  <2> HIDE DEF nobody
  <2>4. ServerTypes
      BY <2>1, <2>2 DEF ServerTypes, ServerRecs
  <2>5. /\ server.waiter = None /\ server.pending = <<>> /\ server.status = "ok"
        /\ ~server.listening /\ ~server.bound /\ server.uv = "idle" /\ server.given = <<>>
        /\ server.closed = nobody /\ server.lost = nobody /\ server.came = 0
      BY <2>1
  <2>6. WaiterInv
      BY <1>1, <1>2, <2>5, ConstFacts DEF WaiterInv
  <2>7. ConnsInv
    <3>1. Line(server) = <<>>
        BY <2>5 DEF Line
    <3>2. DOMAIN Line(server) = {} /\ Elements(Line(server)) = {}
        BY <3>1 DEF Elements
    <3>3. 1..server.came = {}
        BY <2>5, SMT
    <3> QED  BY <2>3, <2>5, <3>2, <3>3 DEF ConnsInv, ConnsOf
  <2>8. DebtInv
    <3>1. Accepts \ stopped = {} /\ Accepts \cap stopped = {}
        BY <1>1 DEF Accepts
    <3>2. Cardinality(Accepts \ stopped) = 0 /\ Cardinality(Accepts \cap stopped) = 0
        BY <3>1, FS_EmptySet
    <3> QED  BY <2>5, <3>2 DEF DebtInv
  <2> QED  BY <2>4, <2>6, <2>7, <2>8 DEF ServerInv
<1>6. ProcessTypes /\ ProcessInv
  <2>1. /\ proc = [state |-> 1, on |-> [o \in Ops |-> 0], child |-> [o \in Ops |-> 0],
                   handle |-> [s \in States |-> 0], running |-> [s \in States |-> FALSE],
                   exited |-> [s \in States |-> FALSE], waiter |-> [s \in States |-> None],
                   status |-> [s \in States |-> "ok"], closed |-> [s \in States |-> FALSE]]
        /\ children = <<>>
      BY DEF Init, ProcessInit
  <2>2. /\ proc.state = 1 /\ \A s \in States : /\ proc.handle[s] = 0 /\ proc.status[s] = "ok"
                                               /\ proc.waiter[s] = None
      BY <2>1
  <2>3. ProcessTypes
    <3>1. children \in Seq(ChildRecs)
        BY <2>1
    <3>2. proc \in ProcRecs
        BY <2>1, ConstFacts DEF ProcRecs
    <3> QED  BY <3>1, <3>2 DEF ProcessTypes
  <2>4. WaitInv
    <3>1. ASSUME NEW s \in States PROVE WaiterAt(s)
        BY <2>2, ConstFacts DEF WaiterAt
    <3>2. ASSUME NEW o \in Ops PROVE AnswerAt(o) /\ pc[o] # "waiting"
        BY <1>1 DEF AnswerAt
    <3> QED  BY <3>1, <3>2 DEF WaitInv
  <2>5. ChildInv
    <3>1. DOMAIN children = {}
        BY <2>1
    <3>2. ASSUME NEW s \in States PROVE StateAt(s)
        BY <1>2, <2>2 DEF StateAt
    <3> QED  BY <3>1, <3>2 DEF ChildInv
  <2>6. Cardinality(Spawned) = 0
    <3>1. Spawned = {}
        BY <1>1 DEF Spawned
    <3> QED  BY <3>1, FS_EmptySet
  <2> QED  BY <2>2, <2>3, <2>4, <2>5, <2>6 DEF ProcessInv
<1>7. WatchTypes /\ WatchInv
  <2>1. /\ signals = [set |-> TRUE, closed |-> FALSE, entries |-> nobody, drained |-> FALSE,
                      uv |-> nobody]
        /\ files = [handle |-> TRUE, closed |-> FALSE, named |-> None, path |-> None,
                    active |-> FALSE, uv |-> None]
        /\ events = [c \in {"signals", "files"} |-> nothing] /\ raised = 0
      BY DEF Init, WatchersInit
  <2>2. nobody \in SUBSET Args /\ nobody = {}
      OBVIOUS
  <2> HIDE DEF nobody
  <2>3. nothing \in ChannelRecs /\ nothing.buf = <<>>
      BY DEF ChannelRecs
  <2> HIDE DEF nothing
  <2>4. WatchTypes
    <3>1. signals \in SignalRecs
        BY <2>1, <2>2 DEF SignalRecs
    <3>2. files \in FileRecs
        BY <2>1 DEF FileRecs, Paths
    <3>3. events \in [{"signals", "files"} -> ChannelRecs]
        BY <2>1, <2>3
    <3> QED  BY <1>1, <2>1, <3>1, <3>2, <3>3 DEF WatchTypes, Busies
  <2>5. SignalInv
    <3>1. signals.uv = {} /\ signals.entries = {} /\ ~signals.drained /\ ~signals.closed
        BY <2>1, <2>2
    <3>2. ~\E i \in 1..Len(queue) : queue[i][1] = "close_entries"
        BY <1>1, SMT
    <3> QED  BY <3>1, <3>2 DEF SignalInv
  <2>6. PathInv
    <3>1. files.uv = None /\ files.handle /\ ~files.closed
        BY <2>1
    <3>2. Elements(events["files"].buf) = {}
        BY <2>1, <2>3 DEF Elements
    <3> QED  BY <1>1, <3>1, <3>2 DEF PathInv
  <2> QED  BY <2>4, <2>5, <2>6 DEF WatchInv
<1> QED  BY <1>3, <1>4, <1>5, <1>6, <1>7 DEF ListenersInv, TypeOK

\* Every step keeps the invariant.
LEMMA ListenersNext == ListenersInv /\ [Next]_vars => ListenersInv'
<1> SUFFICES ASSUME ListenersInv, [Next]_vars PROVE ListenersInv'
    OBVIOUS
<1>1. CASE ServerStep /\ UNCHANGED <<procVars, watchVars>>
    BY <1>1, BindStep, AcceptStep, CancelAcceptStep, OnConnectionStep, CloseServerStep, RunDropStep
       DEF ServerStep, ServerCallback
<1>2. CASE ProcessStep /\ UNCHANGED <<server, watchVars>>
    BY <1>2, SpawnStep, WaitStep, KillStep, CloseProcessStep, RunCloseProcessStep, OnExitStep,
       CancelWaitStep, ChildDiesStep DEF ProcessStep, ProcessCallback
<1>3. CASE WatchersStep /\ UNCHANGED <<server, procVars>>
  <2>1. CASE WatchersCallback
      BY <1>3, <2>1, SignalSendsStep, EventSendsStep, RunCloseEntriesStep, AddInsertsStep,
         StartRunsStep, NextStep, RunCloseWatchStep, CloseEventsStep, DrainStep, FlagWatchStep,
         PostCloseWatchStep DEF WatchersCallback
  <2>2. CASE OnEvent \/ \E n \in signals.uv : OnSignal(n)
      BY <1>3, <2>2, OnEventStep, OnSignalStep
  <2>3. CASE \E o \in Ops : \/ AddSignal(o) \/ RemoveSignals(o) \/ NextEvent(o) \/ CloseSignals(o)
                            \/ StartWatch(o) \/ StopWatch(o) \/ CloseWatch(o)
      BY <1>3, <2>3, AddStep, RemoveStep, NextStep, CloseSignalsStep, StopWatchStep, CloseWatchStep
  <2> QED  BY <1>3, <2>1, <2>2, <2>3 DEF WatchersStep
<1>4. CASE \E o \in Ops : RequestStop(o) /\ UNCHANGED <<server, procVars, watchVars>>
    BY <1>4, RequestStopStep
<1>5. CASE UNCHANGED vars
  <2>1. UNCHANGED <<call, pc, result, queue, stopped, busy, fault, server, procVars, watchVars>>
      BY <1>5 DEF vars, opVars
  <2>2. /\ TypeOK /\ PlacesInv /\ ServerInv /\ ProcessInv /\ OpTypes /\ queue \in Seq(Posts)
      BY DEF ListenersInv, TypeOK, OpTypes
  <2>3. OpTypes' /\ PlacesInv' /\ \A K : KindsSame(K)
      BY <2>1, <2>2, OpsStay
  <2>4. \A W : QueueSame(W)
      BY <2>1 DEF QueueSame
  <2>5. TypeOK'
      BY <2>1, <2>2, <2>3
         DEF TypeOK, ServerTypes, ProcessTypes, WatchTypes, procVars, watchVars
  <2>6. ServerInv' /\ ProcessInv'
      BY <2>1, <2>2, <2>3, <2>4, ServerFrame, ProcessFrame
  <2>7. ASSUME fault' = None PROVE SignalInv' /\ PathInv'
    <3>1. SignalInv /\ PathInv
        BY <2>1, <2>7 DEF ListenersInv, WatchInv
    <3> QED  BY <2>1, <2>2, <2>3, <2>4, <3>1, WatchFrame
  <2> QED  BY <2>3, <2>5, <2>6, <2>7 DEF ListenersInv, WatchInv
<1> QED  BY <1>1, <1>2, <1>3, <1>4, <1>5 DEF Next

-----------------------------------------------------------------------------
(* What follows                                                              *)

\* A line that rises strictly names each connection once.
LEMMA LineCounts ==
    ASSUME NEW s \in Seq(Nat), \A i, j \in DOMAIN s : i < j => s[i] < s[j]
    PROVE  IsFiniteSet(Elements(s)) /\ Cardinality(Elements(s)) = Len(s)
<1>1. Len(s) \in Nat /\ DOMAIN s = 1..Len(s) /\ s \in [1..Len(s) -> Nat]
    BY SMT
<1>2. \A i, j \in 1..Len(s) : s[i] = s[j] => i = j
  <2> SUFFICES ASSUME NEW i \in 1..Len(s), NEW j \in 1..Len(s), i # j PROVE s[i] # s[j]
      OBVIOUS
  <2>1. s[i] \in Nat /\ s[j] \in Nat /\ (i < j \/ j < i)
      BY <1>1, SMT
  <2>2. s[i] < s[j] \/ s[j] < s[i]
      BY <1>1, <2>1
  <2> QED  BY <2>1, <2>2, SMT
<1>3. s \in [1..Len(s) -> Elements(s)]
    BY <1>1 DEF Elements
<1>4. s \in Injection(1..Len(s), Elements(s))
    BY <1>1, <1>2, <1>3 DEF Injection, IsInjective
<1>5. s \in Surjection(1..Len(s), Elements(s))
    BY <1>1, <1>3 DEF Surjection, Elements
<1>6. ExistsBijection(1..Len(s), Elements(s))
    BY <1>4, <1>5 DEF Bijection, ExistsBijection
<1> QED  BY <1>1, <1>6, FS_CountingElements, FS_NatBijection

\* Every connection is in one place, hence the numbers add up.
LEMMA ConnectionsCount == TypeOK /\ ServerInv => ConnectionsKept
<1> SUFFICES ASSUME TypeOK, ServerInv PROVE ConnectionsKept
    OBVIOUS
<1> DEFINE kept == server.given \o server.pending
           E == Elements(kept)
           C == server.closed
           L == server.lost
<1>1. /\ server.given \in Seq(Nat) /\ server.pending \in Seq(Nat) /\ server.came \in Nat
    BY DEF TypeOK, ServerTypes, ServerRecs
<1>2. kept \in Seq(Nat)
    BY <1>1, LineFacts
<1>3. /\ \A i, j \in DOMAIN kept : i < j => kept[i] < kept[j]
      /\ E \cup C \cup L = 1..server.came
      /\ E \cap C = {} /\ E \cap L = {} /\ C \cap L = {}
    BY DEF ServerInv, ConnsInv, ConnsOf, Line
<1>4. server.waiter # None => server.pending = <<>> /\ server.status = "ok"
    BY DEF ServerInv, WaiterInv
<1> HIDE DEF kept
<1>5. IsFiniteSet(E) /\ Cardinality(E) = Len(kept)
    BY <1>2, <1>3, LineCounts
<1>6. IsFiniteSet(1..server.came) /\ Cardinality(1..server.came) = server.came
  <2>1. 1 \in Int /\ server.came \in Int
      BY <1>1
  <2>2. /\ IsFiniteSet(1..server.came)
        /\ Cardinality(1..server.came) = IF 1 > server.came THEN 0 ELSE server.came - 1 + 1
      BY <2>1, FS_Interval, Zenon
  <2> QED  BY <1>1, <2>2, SMT
<1> HIDE DEF E
<1>7. IsFiniteSet(C) /\ IsFiniteSet(L)
  <2>1. C \subseteq 1..server.came /\ L \subseteq 1..server.came
      BY <1>3
  <2> QED  BY <1>6, <2>1, FS_Subset
<1> HIDE DEF C, L
<1>8. Cardinality(E \cup C) = Cardinality(E) + Cardinality(C) /\ IsFiniteSet(E \cup C)
  <2>1. Cardinality(E) \in Nat /\ Cardinality(C) \in Nat
      BY <1>5, <1>7, FS_CardinalityType
  <2>2. /\ IsFiniteSet(E \cup C)
        /\ Cardinality(E \cup C) = Cardinality(E) + Cardinality(C) - Cardinality(E \cap C)
      BY <1>5, <1>7, FS_Union, Zenon
  <2>3. Cardinality(E \cap C) = 0
      BY <1>3, FS_EmptySet
  <2> QED  BY <2>1, <2>2, <2>3
<1>9. Cardinality(E \cup C \cup L) = Cardinality(E \cup C) + Cardinality(L)
  <2>1. (E \cup C) \cap L = {}
      BY <1>3
  <2>2. Cardinality(E \cup C) \in Nat /\ Cardinality(L) \in Nat
      BY <1>7, <1>8, FS_CardinalityType
  <2> QED  BY <1>7, <1>8, <2>1, <2>2, FS_Union, FS_EmptySet
<1>10. Len(kept) + Cardinality(C) + Cardinality(L) = server.came
    BY <1>3, <1>5, <1>6, <1>8, <1>9
<1> QED  BY <1>3, <1>4, <1>10 DEF ConnectionsKept, kept, E, C, L

\* The debt of cancellations that no accept has reported is not negative.
LEMMA DebtFacts == TypeOK /\ ServerInv => CancelledAcceptsCostOne
<1> SUFFICES ASSUME TypeOK, ServerInv PROVE CancelledAcceptsCostOne
    OBVIOUS
<1>1. Accepts \ stopped \subseteq Ops /\ Accepts \cap stopped \subseteq Ops
    BY DEF Accepts
<1>2. IsFiniteSet(Accepts \ stopped) /\ IsFiniteSet(Accepts \cap stopped)
    BY <1>1, ConstFacts, FS_Subset
<1>3. Cardinality(Accepts \ stopped) \in Nat /\ Cardinality(Accepts \cap stopped) \in Nat
    BY <1>2, FS_CardinalityType
<1> QED  BY <1>3, SMT DEF ServerInv, DebtInv, CancelledAcceptsCostOne

\* What ends o, or has the loop end it: a closure, the callback of a child that has
\* died, or an event or the end of a channel.
Served(o) ==
    \/ In(<<"cancel", o>>, queue)
    \/ Kind(o) = "accept" /\ server.waiter = o /\ \E x \in Ops : In(<<"drop", x>>, queue)
    \/ /\ Kind(o) = "wait" /\ proc.waiter[proc.on[o]] = o
       /\ \/ In(<<"close_process", <<proc.on[o], proc.child[o]>> >>, queue)
          \/ LET h == proc.child[o]
             IN  /\ h \in DOMAIN children /\ children[h].state = proc.on[o]
                 /\ children[h].uv = "open" /\ ~children[h].alive /\ ~children[h].reported
    \/ pc[o] = "receiving" /\ (events[Arg(o)].buf # <<>> \/ events[Arg(o)].closed)
\* The safety part of ListenersEnd: whoever is due has what ends it, and the handles
\* of a watcher that has been closed have a close() or a closure that closes them
\* (tcp.cpp:430-467, 604-680, process.cpp:198-268, 283-310, signal.cpp:213-243,
\* fs_watch.cpp:170-199).
NothingDueIsForgotten ==
    /\ \A o \in Ops : Due(o) => Served(o)
    /\ fault = None /\ signals.closed =>
          \/ \A n \in signals.uv : Closing(n)
          \/ \E o \in Ops : Kind(o) = "close_signals" /\ pc[o] \in {"flagged", "draining"}
    /\ fault = None /\ files.closed =>
          \/ files.uv = None
          \/ \E o \in Ops : \/ Kind(o) = "close_watch" /\ pc[o] \in {"detached", "flagged", "draining"}
                            \/ In(<<"close_watch", o>>, queue)

\* The invariant gives every one of them.
LEMMA DueFacts == ListenersInv => NothingDueIsForgotten
<1> SUFFICES ASSUME ListenersInv PROVE NothingDueIsForgotten
    OBVIOUS
<1>1. PlacesInv /\ WaiterInv /\ WaitInv /\ WatchInv
    BY DEF ListenersInv, ServerInv, ProcessInv
<1>2. ASSUME NEW o \in Ops, Due(o) PROVE Served(o)
  <2>1. CASE pc[o] = "waiting" /\ o \in stopped
      BY <1>1, <2>1 DEF PlacesInv, PlaceInv, Served
  <2>2. CASE pc[o] = "waiting" /\ Kind(o) = "accept" /\ ~server.handle
    <3>1. server.waiter = o
        BY <1>1, <2>2 DEF WaiterInv
    <3>2. \E x \in Ops : In(<<"drop", x>>, queue)
        BY <1>1, <2>2, <3>1, ConstFacts DEF WaiterInv
    <3> QED  BY <2>2, <3>1, <3>2 DEF Served
  <2>3. ASSUME pc[o] = "waiting", Kind(o) = "wait",
               proc.handle[proc.on[o]] # proc.child[o] \/ ~children[proc.child[o]].alive
        PROVE  Served(o)
    <3>1. WaitAt(o)
        BY <1>1, <2>3 DEF WaitInv
    <3> QED  BY <2>3, <3>1 DEF WaitAt, Served
  <2>4. CASE pc[o] = "receiving" /\ events[Arg(o)].closed
      BY <2>4 DEF Served
  <2> QED  BY <1>2, <2>1, <2>2, <2>3, <2>4 DEF Due
<1>3. ASSUME fault = None, signals.closed
      PROVE  \/ \A n \in signals.uv : Closing(n)
             \/ \E o \in Ops : Kind(o) = "close_signals" /\ pc[o] \in {"flagged", "draining"}
    BY <1>1, <1>3 DEF WatchInv, SignalInv
<1>4. ASSUME fault = None, files.closed
      PROVE  \/ files.uv = None
             \/ \E o \in Ops : \/ /\ Kind(o) = "close_watch"
                                  /\ pc[o] \in {"detached", "flagged", "draining"}
                               \/ In(<<"close_watch", o>>, queue)
    BY <1>1, <1>4 DEF WatchInv, PathInv
<1> QED  BY <1>2, <1>3, <1>4 DEF NothingDueIsForgotten

-----------------------------------------------------------------------------
(* The theorems                                                              *)

\* The invariant holds in every behaviour of the loop: its types, where each op may
\* be, and what the server, the process and the watchers keep (tcp.cpp:430-680,
\* process.cpp:48-310, signal.cpp:83-243, fs_watch.cpp:106-199).
THEOREM ListenersInvariant == Spec => []ListenersInv
<1> QED  BY ListenersInit, ListenersNext, PTL DEF Spec

\* Each connection that came is given to one accept or pending, in order, closed or
\* lost, and none of them is counted twice (tcp.cpp:430-467, 545-680).
THEOREM EveryConnectionKept == Spec => []ConnectionsKept
<1>1. ListenersInv => ConnectionsKept
    BY ConnectionsCount DEF ListenersInv
<1> QED  BY <1>1, ListenersInvariant, PTL

\* At most one accept that nobody stopped is cancelled for each that was stopped, and
\* one for the close of the server (tcp.cpp:637, 660).
THEOREM CancelledCostOne == Spec => []CancelledAcceptsCostOne
<1>1. ListenersInv => CancelledAcceptsCostOne
    BY DebtFacts DEF ListenersInv
<1> QED  BY <1>1, ListenersInvariant, PTL

\* A wait that reports an exit was called for a child that has ended; one that
\* reports a cancellation was stopped or its state closed (process.cpp:48-98, 198-268).
THEOREM WaitsAreTrue == Spec => []WaitsAnswerTruly
<1>1. ListenersInv => WaitsAnswerTruly
    BY DEF ListenersInv, ProcessInv, WaitInv, AnswerAt, WaitsAnswerTruly
<1> QED  BY <1>1, ListenersInvariant, PTL

\* A signal that libuv delivers has its entry or a closure that closes it, and the
\* path it watches is the one that the watcher tells (signal.cpp:83-177,
\* fs_watch.cpp:106-199).
THEOREM WatchedIsKnown == Spec => []WatchingIsKnown
<1>1. ListenersInv => WatchingIsKnown
    BY DEF ListenersInv, WatchInv, SignalInv, PathInv, WatchingIsKnown
<1> QED  BY <1>1, ListenersInvariant, PTL

\* Whoever is stopped, closed or outlived its child has a closure, a callback or the
\* end of a channel that ends it: what ListenersEnd rests on (tcp.cpp:604-680,
\* process.cpp:198-310, signal.cpp:213-243, fs_watch.cpp:170-199).
THEOREM DueIsServed == Spec => []NothingDueIsForgotten
<1> QED  BY DueFacts, ListenersInvariant, PTL
=============================================================================
