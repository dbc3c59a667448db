--------------------------- MODULE RequestsProofs ---------------------------
(***************************************************************************)
(* Proofs about Requests, for every number of calls, every choice of what  *)
(* they are and every set of them that may be stopped: the reader of a     *)
(* handle is the operation that reads it, input is not lost to a stop, and *)
(* work of the thread pool keeps its memory until libuv has called back.   *)
(***************************************************************************)
EXTENDS Requests, SequenceTheorems, TLAPS

Closures == {"start", "cancel", "close"}
Pcs == {"idle", "suspended", "done"}

TypeOK ==
    /\ call \in [Ops -> Operations]
    /\ pc \in [Ops -> Pcs] /\ result \in [Ops -> Results]
    /\ cancelReq \subseteq Ops /\ started \subseteq Ops
    /\ uv \in [Ops -> Holds]
    /\ reader \in [Handles -> Ops \cup {None}]
    /\ hstate \in [Handles -> {"open", "closing", "deleted"}]
    /\ owned \subseteq Handles /\ connected \subseteq Handles
    /\ stopped \subseteq Ops /\ took \subseteq Ops
    /\ posted \in Seq(Closures \X Ops)
    /\ fault \in Faults

\* A closure w of operation o is in the queue.
PostedFor(w, o) == \E i \in DOMAIN posted : posted[i] = <<w, o>>

\* The start closure of an operation is posted once.
StartOnce ==
    \A i, j \in DOMAIN posted :
        posted[i][1] = "start" /\ posted[i] = posted[j] => i = j

\* The life of one operation: nothing is posted for a call that has not begun,
\* libuv holds nothing before the start closure has run and never a read, a
\* cancelled read is completed at once, and what the pool holds is suspended.
OpInv(o) ==
    /\ \A w \in Closures : PostedFor(w, o) => pc[o] # "idle"
    /\ PostedFor("start", o) => uv[o] = "idle"
    /\ uv[o] # "idle" => /\ o \in started /\ pc[o] # "idle"
                         /\ Kind(o) \notin ReaderKinds
    /\ Kind(o) \in PoolKinds /\ uv[o] # "idle" => uv[o] # "out" /\ pc[o] = "suspended"
    /\ Kind(o) \in ReaderKinds /\ o \in cancelReq => pc[o] = "done"
    /\ o \in took => Kind(o) \in ReaderKinds /\ pc[o] = "done" /\ result[o] = "ok"

ReaderInv(o) ==
    Kind(o) \in ReaderKinds =>
        (reader[On(o)] = o <=> pc[o] = "suspended" /\ ~PostedFor("start", o))

RequestInv ==
    /\ TypeOK /\ StartOnce
    /\ \A o \in Ops : OpInv(o)
    /\ fault = "none" => \A o \in Ops : ReaderInv(o)

-----------------------------------------------------------------------------
(* The queue of closures *)

\* drain() takes the first closure.
LEMMA PopFacts ==
    ASSUME TypeOK, StartOnce, posted # <<>>, posted' = Tail(posted)
    PROVE  /\ posted' \in Seq(Closures \X Ops) /\ StartOnce'
           /\ Head(posted) \in Closures \X Ops
           /\ \A w \in Closures, o \in Ops :
                 PostedFor(w, o) <=> Head(posted) = <<w, o>> \/ PostedFor(w, o)'
           /\ \A o \in Ops : Head(posted) = <<"start", o>> => ~PostedFor("start", o)'
<1>1. /\ posted \in Seq(Closures \X Ops) /\ Len(posted) \in Nat /\ Len(posted) > 0
      /\ DOMAIN posted = 1..Len(posted)
  BY EmptySeq, LenProperties DEF TypeOK
<1>2. /\ Head(posted) = posted[1] /\ posted[1] \in Closures \X Ops
      /\ Tail(posted) \in Seq(Closures \X Ops)
  BY <1>1, ElementOfSeq, HeadTailProperties
<1>3. /\ Len(posted') = Len(posted) - 1 /\ DOMAIN posted' = 1..(Len(posted) - 1)
      /\ \A i \in 1..(Len(posted) - 1) : posted'[i] = posted[i + 1]
  BY <1>1, <1>2, HeadTailProperties, LenProperties
<1>4. StartOnce'
  BY <1>1, <1>3 DEF StartOnce
<1>5. ASSUME NEW w \in Closures, NEW o \in Ops
      PROVE  PostedFor(w, o) <=> Head(posted) = <<w, o>> \/ PostedFor(w, o)'
  <2>1. ASSUME PostedFor(w, o) PROVE Head(posted) = <<w, o>> \/ PostedFor(w, o)'
    <3>1. PICK i \in 1..Len(posted) : posted[i] = <<w, o>>
      BY <1>1, <2>1 DEF PostedFor
    <3>2. CASE i = 1
      BY <1>2, <3>1, <3>2
    <3>3. CASE i # 1
      <4>1. i - 1 \in DOMAIN posted' /\ posted'[i - 1] = <<w, o>>
        BY <1>1, <1>3, <3>1, <3>3
      <4> QED
        BY <4>1 DEF PostedFor
    <3> QED
      BY <3>2, <3>3
  <2>2. ASSUME Head(posted) = <<w, o>> PROVE PostedFor(w, o)
    BY <1>1, <1>2, <2>2 DEF PostedFor
  <2>3. ASSUME PostedFor(w, o)' PROVE PostedFor(w, o)
    <3>1. PICK i \in 1..(Len(posted) - 1) : posted'[i] = <<w, o>>
      BY <1>3, <2>3 DEF PostedFor
    <3>2. i + 1 \in DOMAIN posted /\ posted[i + 1] = <<w, o>>
      BY <1>1, <1>3, <3>1
    <3> QED
      BY <3>2 DEF PostedFor
  <2> QED
    BY <2>1, <2>2, <2>3
<1>6. ASSUME NEW o \in Ops, Head(posted) = <<"start", o>>, PostedFor("start", o)'
      PROVE  FALSE
  <2>1. PICK i \in 1..(Len(posted) - 1) : posted'[i] = <<"start", o>>
    BY <1>3, <1>6 DEF PostedFor
  <2>2. /\ i + 1 \in DOMAIN posted /\ 1 \in DOMAIN posted /\ i + 1 # 1
        /\ posted[i + 1] = posted[1] /\ posted[1][1] = "start"
    <3>1. posted[1] = <<"start", o>> /\ posted[i + 1] = <<"start", o>>
      BY <1>2, <1>3, <1>6, <2>1
    <3>2. i + 1 \in 1..Len(posted) /\ 1 \in 1..Len(posted) /\ i + 1 # 1
      BY <1>1, <2>1
    <3>3. posted[1][1] = "start"
      BY <3>1
    <3> QED
      BY <1>1, <3>1, <3>2, <3>3
  <2> QED
    BY <2>2 DEF StartOnce
<1> QED
  BY <1>2, <1>4, <1>5, <1>6

\* A closure is posted.
LEMMA PushFacts ==
    ASSUME TypeOK, StartOnce, NEW w \in Closures, NEW o \in Ops,
           posted' = Append(posted, <<w, o>>),
           w = "start" => ~PostedFor("start", o)
    PROVE  /\ posted' \in Seq(Closures \X Ops) /\ StartOnce'
           /\ \A v \in Closures, p \in Ops :
                 PostedFor(v, p)' <=> PostedFor(v, p) \/ <<v, p>> = <<w, o>>
<1>1. /\ posted \in Seq(Closures \X Ops) /\ Len(posted) \in Nat
      /\ DOMAIN posted = 1..Len(posted) /\ <<w, o>> \in Closures \X Ops
  BY LenProperties DEF TypeOK
<1>2. /\ posted' \in Seq(Closures \X Ops)
      /\ DOMAIN posted' = 1..(Len(posted) + 1)
      /\ \A i \in 1..Len(posted) : posted'[i] = posted[i]
      /\ posted'[Len(posted) + 1] = <<w, o>>
  BY <1>1, AppendProperties, LenProperties
<1>3. ASSUME NEW v \in Closures, NEW p \in Ops
      PROVE  PostedFor(v, p)' <=> PostedFor(v, p) \/ <<v, p>> = <<w, o>>
  <2>1. ASSUME PostedFor(v, p)' PROVE PostedFor(v, p) \/ <<v, p>> = <<w, o>>
    <3>1. PICK i \in 1..(Len(posted) + 1) : posted'[i] = <<v, p>>
      BY <1>2, <2>1 DEF PostedFor
    <3>2. CASE i = Len(posted) + 1
      BY <1>2, <3>1, <3>2
    <3>3. CASE i # Len(posted) + 1
      <4>1. i \in DOMAIN posted /\ posted[i] = <<v, p>>
        BY <1>1, <1>2, <3>1, <3>3
      <4> QED
        BY <4>1 DEF PostedFor
    <3> QED
      BY <3>2, <3>3
  <2>2. ASSUME PostedFor(v, p) PROVE PostedFor(v, p)'
    <3>1. PICK i \in 1..Len(posted) : posted[i] = <<v, p>>
      BY <1>1, <2>2 DEF PostedFor
    <3>2. i \in DOMAIN posted' /\ posted'[i] = <<v, p>>
      BY <1>1, <1>2, <3>1
    <3> QED
      BY <3>2 DEF PostedFor
  <2>3. ASSUME <<v, p>> = <<w, o>> PROVE PostedFor(v, p)'
    <3>1. Len(posted) + 1 \in DOMAIN posted'
      BY <1>1, <1>2
    <3> QED
      BY <1>2, <2>3, <3>1 DEF PostedFor
  <2> QED
    BY <2>1, <2>2, <2>3
<1>4. StartOnce'
  <2> SUFFICES ASSUME NEW i \in 1..(Len(posted) + 1), NEW j \in 1..(Len(posted) + 1),
                      posted'[i][1] = "start", posted'[i] = posted'[j], i # j
               PROVE  FALSE
    BY <1>2 DEF StartOnce
  <2>1. \A k \in 1..Len(posted) : posted[k] # <<"start", o>> \/ w # "start"
    BY <1>1 DEF PostedFor
  <2>2. CASE i = Len(posted) + 1
    BY <1>1, <1>2, <2>1, <2>2
  <2>3. CASE j = Len(posted) + 1
    BY <1>1, <1>2, <2>1, <2>3
  <2>4. CASE i # Len(posted) + 1 /\ j # Len(posted) + 1
    BY <1>1, <1>2, <2>4 DEF StartOnce
  <2> QED
    BY <2>2, <2>3, <2>4
<1> QED
  BY <1>2, <1>3, <1>4

\* The stop came first: its cancel closure is in front of the start closure.
LEMMA PushTwoFacts ==
    ASSUME TypeOK, StartOnce, NEW o \in Ops, ~PostedFor("start", o),
           posted' = posted \o << <<"cancel", o>>, <<"start", o>> >>
    PROVE  /\ posted' \in Seq(Closures \X Ops) /\ StartOnce' /\ PostedFor("start", o)'
           /\ \A w \in Closures, p \in Ops \ {o} : PostedFor(w, p)' <=> PostedFor(w, p)
<1> DEFINE C == <<"cancel", o>>
           S == <<"start", o>>
           n == Len(posted)
<1>1. /\ posted \in Seq(Closures \X Ops) /\ n \in Nat /\ DOMAIN posted = 1..n
      /\ C \in Closures \X Ops /\ S \in Closures \X Ops
      /\ <<C, S>> \in Seq(Closures \X Ops) /\ Len(<<C, S>>) = 2
  BY LenProperties DEF TypeOK, Closures
<1>2. /\ posted' \in Seq(Closures \X Ops) /\ DOMAIN posted' = 1..(n + 2)
      /\ \A i \in 1..n : posted'[i] = posted[i]
      /\ posted'[n + 1] = C /\ posted'[n + 2] = S
  <2>1. /\ posted' \in Seq(Closures \X Ops) /\ Len(posted') = n + 2
        /\ \A i \in 1..(n + 2) :
              posted'[i] = IF i <= n THEN posted[i] ELSE <<C, S>>[i - n]
    BY <1>1, ConcatProperties
  <2>2. DOMAIN posted' = 1..(n + 2)
    BY <2>1, LenProperties
  <2>3. posted'[n + 1] = <<C, S>>[1] /\ posted'[n + 2] = <<C, S>>[2]
    BY <1>1, <2>1
  <2> QED
    BY <1>1, <2>1, <2>2, <2>3
<1>a. /\ \A w, p : p # o => <<w, p>> # C /\ <<w, p>> # S
      /\ C # S /\ C[1] # "start"
  OBVIOUS
<1>b. S = <<"start", o>>
  OBVIOUS
<1> HIDE DEF n, C, S
<1>3. PostedFor("start", o)'
  <2>1. n + 2 \in DOMAIN posted'
    BY <1>1, <1>2
  <2> QED
    BY <1>2, <1>b, <2>1 DEF PostedFor
<1>4. ASSUME NEW w \in Closures, NEW p \in Ops \ {o}
      PROVE  PostedFor(w, p)' <=> PostedFor(w, p)
  <2>1. ASSUME PostedFor(w, p)' PROVE PostedFor(w, p)
    <3>1. PICK i \in 1..(n + 2) : posted'[i] = <<w, p>>
      BY <1>2, <2>1 DEF PostedFor
    <3>2. i # n + 1 /\ i # n + 2
      BY <1>2, <1>a, <3>1
    <3>3. i \in 1..n /\ posted[i] = <<w, p>>
      BY <1>1, <1>2, <3>1, <3>2
    <3> QED
      BY <1>1, <3>3 DEF PostedFor
  <2>2. ASSUME PostedFor(w, p) PROVE PostedFor(w, p)'
    <3>1. PICK i \in 1..n : posted[i] = <<w, p>>
      BY <1>1, <2>2 DEF PostedFor
    <3>2. i \in DOMAIN posted'
      BY <1>1, <1>2, <3>1
    <3>3. posted'[i] = <<w, p>>
      BY <1>2, <3>1
    <3> QED
      BY <3>2, <3>3 DEF PostedFor
  <2> QED
    BY <2>1, <2>2
<1>5. StartOnce'
  <2> SUFFICES ASSUME NEW i \in DOMAIN posted', NEW j \in DOMAIN posted',
                      posted'[i][1] = "start", posted'[i] = posted'[j], i # j
               PROVE  FALSE
    BY Zenon DEF StartOnce
  <2> i \in 1..(n + 2) /\ j \in 1..(n + 2)
    BY <1>2
  <2>1. \A k \in 1..n : posted'[k] = posted[k] /\ posted[k] # S
    BY <1>1, <1>2, <1>b DEF PostedFor
  <2>2. C[1] # "start" /\ posted'[n + 1] # S
    BY <1>2, <1>a
  <2>3. i # n + 1 /\ j # n + 1
    BY <1>2, <2>2
  <2>4. i # n + 2 /\ j # n + 2
    <3>1. \A k \in DOMAIN posted' : k # n + 1 /\ k # n + 2 => k \in 1..n
      <4>1. n \in Nat /\ DOMAIN posted' = 1..(n + 2)
        BY <1>1, <1>2
      <4> QED
        BY <4>1
    <3>2. \A k \in DOMAIN posted' : k # n + 1 /\ posted'[k] = S => k = n + 2
      BY <2>1, <3>1
    <3> QED
      BY <1>2, <2>3, <3>2
  <2>5. i \in 1..n /\ j \in 1..n
    BY <1>1, <2>3, <2>4
  <2>6. posted[i][1] = "start" /\ posted[i] = posted[j]
    BY <2>1, <2>5
  <2> QED
    BY <1>1, <2>5, <2>6 DEF StartOnce
<1> QED
  BY <1>2, <1>3, <1>4, <1>5

-----------------------------------------------------------------------------
(* A step of one operation *)

\* What a step of operation o leaves as it was: all the others.
OthersKept(o) ==
    /\ call' = call
    /\ \A p \in Ops \ {o} :
          /\ pc'[p] = pc[p] /\ result'[p] = result[p] /\ uv'[p] = uv[p]
          /\ p \in cancelReq' <=> p \in cancelReq
          /\ p \in started => p \in started'
          /\ p \in took' <=> p \in took
          /\ \A w \in Closures : PostedFor(w, p)' <=> PostedFor(w, p)

\* The step registers and unregisters no reader but o.
ReadersKept(o) ==
    \A p \in Ops \ {o}, h \in Handles : reader'[h] = p <=> reader[h] = p

\* The kinds of operations, and the handles they are on.
LEMMA OpTypes ==
    ASSUME TypeOK, NEW o \in Ops
    PROVE  /\ Kind(o) \notin PoolKinds => On(o) \in Handles
           /\ Kind(o) \in ReaderKinds => Kind(o) \notin PoolKinds
           /\ Kind(o) \in ReaderKinds \cup PoolKinds => Kind(o) # "close"
           /\ Kind(o) \in {"write", "shutdown", "connect", "send"} =>
                 Kind(o) \notin ReaderKinds \cup PoolKinds
<1>1. call[o] \in Operations
  BY DEF TypeOK
<1> QED
  BY <1>1 DEF Kind, On, Operations, Streams, Handles, PoolKinds, ReaderKinds

\* A step of one operation keeps the invariant, if it keeps what holds of that one.
LEMMA OneOpStep ==
    ASSUME RequestInv, NEW o \in Ops, OthersKept(o), TypeOK', StartOnce', OpInv(o)',
           fault' = "none" => fault = "none" /\ ReaderInv(o)' /\ ReadersKept(o)
    PROVE  RequestInv'
<1>1. ASSUME NEW p \in Ops \ {o} PROVE OpInv(p)'
  <2>1. Kind(p)' = Kind(p)
    BY DEF OthersKept, Kind
  <2>2. OpInv(p)
    BY DEF RequestInv
  <2>3. /\ pc'[p] = pc[p] /\ result'[p] = result[p] /\ uv'[p] = uv[p]
        /\ p \in cancelReq' <=> p \in cancelReq
        /\ p \in started => p \in started'
        /\ p \in took' <=> p \in took
        /\ \A w \in Closures : PostedFor(w, p)' <=> PostedFor(w, p)
    BY DEF OthersKept
  <2>4. PostedFor("start", p)' <=> PostedFor("start", p)
    BY <2>3 DEF Closures
  <2> QED
    BY <2>1, <2>2, <2>3, <2>4 DEF OpInv
<1>2. ASSUME fault' = "none", NEW p \in Ops \ {o} PROVE ReaderInv(p)'
  <2>1. Kind(p)' = Kind(p) /\ On(p)' = On(p)
    BY DEF OthersKept, Kind, On
  <2>2. ReaderInv(p) /\ ReadersKept(o)
    BY <1>2 DEF RequestInv
  <2>3. Kind(p) \in ReaderKinds => (reader'[On(p)] = p <=> reader[On(p)] = p)
    BY <2>2, OpTypes DEF ReadersKept, RequestInv
  <2>4. pc'[p] = pc[p] /\ (PostedFor("start", p)' <=> PostedFor("start", p))
    BY DEF OthersKept, Closures
  <2> QED
    BY <2>1, <2>2, <2>3, <2>4 DEF ReaderInv
<1>3. \A p \in Ops : OpInv(p)'
  BY <1>1
<1>4. fault' = "none" => \A p \in Ops : ReaderInv(p)'
  BY <1>2
<1> QED
  BY <1>3, <1>4 DEF RequestInv

-----------------------------------------------------------------------------
(* A call begins *)

\* An operation returns before it suspends.
LEMMA ReturnStep ==
    ASSUME RequestInv, fault = "none", NEW o \in Ops, pc[o] = "idle", UNCHANGED call,
           NEW r \in Results, Return(o, r)
    PROVE  RequestInv'
<1> USE DEF Return, handleVars
<1>1. TypeOK' /\ StartOnce'
  <2>1. TypeOK'
    BY DEF RequestInv, TypeOK, Pcs
  <2>2. StartOnce'
    BY DEF RequestInv, StartOnce
  <2> QED
    BY <2>1, <2>2
<1>2. \A w, p : PostedFor(w, p)' <=> PostedFor(w, p)
  BY DEF PostedFor
<1>3. OthersKept(o) /\ ReadersKept(o)
  BY <1>2 DEF OthersKept, ReadersKept, RequestInv, TypeOK
<1>4. OpInv(o) /\ ReaderInv(o) /\ pc'[o] = "done" /\ Kind(o)' = Kind(o) /\ On(o)' = On(o)
  BY DEF RequestInv, TypeOK, Kind, On
<1>5. OpInv(o)'
  BY <1>2, <1>4 DEF OpInv
<1>6. ReaderInv(o)'
  BY <1>2, <1>4 DEF ReaderInv
<1> QED
  BY <1>1, <1>3, <1>5, <1>6, OneOpStep

\* An operation suspends with its start posted.
LEMMA SuspendStep ==
    ASSUME RequestInv, fault = "none", NEW o \in Ops, pc[o] = "idle", UNCHANGED call,
           Suspend(o)
    PROVE  RequestInv'
<1>1. CASE Return(o, "cancelled")
  BY <1>1, ReturnStep DEF Results
<1>2. CASE ~Return(o, "cancelled")
  <2>1. /\ pc' = [pc EXCEPT ![o] = "suspended"] /\ stopped' \subseteq Ops
        /\ UNCHANGED <<result, cancelReq, started, uv, handleVars, connected,
                       took, fault>>
    BY <1>2 DEF Suspend, RequestInv, TypeOK
  <2>2. TypeOK /\ StartOnce /\ OpInv(o) /\ ReaderInv(o)
    BY DEF RequestInv
  <2>3. \A w \in Closures : ~PostedFor(w, o)
    BY <2>2 DEF OpInv
  <2>4. /\ posted' \in Seq(Closures \X Ops) /\ StartOnce'
        /\ PostedFor("start", o)'
        /\ \A w \in Closures, p \in Ops \ {o} : PostedFor(w, p)' <=> PostedFor(w, p)
    <3>1. CASE posted' = Append(posted, <<"start", o>>)
      <4>1. "start" \in Closures
        BY DEF Closures
      <4>2. /\ posted' \in Seq(Closures \X Ops) /\ StartOnce'
            /\ \A v \in Closures, p \in Ops :
                  PostedFor(v, p)' <=> PostedFor(v, p) \/ <<v, p>> = <<"start", o>>
        BY <2>2, <2>3, <3>1, <4>1, PushFacts
      <4> QED
        BY <4>1, <4>2
    <3>2. CASE posted' = posted \o << <<"cancel", o>>, <<"start", o>> >>
      <4>1. ~PostedFor("start", o)
        BY <2>3 DEF Closures
      <4> QED
        BY <2>2, <3>2, <4>1, PushTwoFacts
    <3> QED
      BY <1>2, <3>1, <3>2 DEF Suspend
  <2>5. TypeOK'
    BY <2>1, <2>2, <2>4 DEF TypeOK, Pcs, handleVars
  <2>6. OthersKept(o) /\ ReadersKept(o)
    BY <2>1, <2>2, <2>4 DEF OthersKept, ReadersKept, TypeOK, handleVars
  <2>7. pc'[o] = "suspended" /\ Kind(o)' = Kind(o) /\ On(o)' = On(o)
    BY <2>1, <2>2 DEF TypeOK, Kind, On
  <2>8. OpInv(o)'
    BY <2>1, <2>2, <2>7 DEF OpInv
  <2>9. ReaderInv(o)'
    BY <2>1, <2>2, <2>4, <2>7 DEF ReaderInv, handleVars
  <2> QED
    BY <2>4, <2>5, <2>6, <2>8, <2>9, OneOpStep
<1> QED
  BY <1>1, <1>2

\* close() posts the closing of the handle.
LEMMA CloseStep ==
    ASSUME RequestInv, fault = "none", NEW o \in Ops, pc[o] = "idle", UNCHANGED call,
           Close(o)
    PROVE  RequestInv'
<1>1. CASE Return(o, "ok")
  BY <1>1, ReturnStep DEF Results
<1>2. CASE ~Return(o, "ok")
  <2>1. /\ Kind(o) = "close" /\ posted' = Append(posted, <<"close", o>>)
        /\ pc' = [pc EXCEPT ![o] = "done"] /\ result' = [result EXCEPT ![o] = "ok"]
        /\ owned' = owned \ {On(o)} /\ connected' = connected \ {On(o)}
        /\ UNCHANGED <<cancelReq, started, uv, reader, hstate, stopped, took, fault>>
    BY <1>2 DEF Close
  <2>2. TypeOK /\ StartOnce /\ OpInv(o) /\ ReaderInv(o)
    BY DEF RequestInv
  <2>3. /\ posted' \in Seq(Closures \X Ops) /\ StartOnce'
        /\ PostedFor("start", o)' <=> PostedFor("start", o)
        /\ \A w \in Closures, p \in Ops \ {o} : PostedFor(w, p)' <=> PostedFor(w, p)
    BY <2>1, <2>2, PushFacts DEF Closures
  <2>4. TypeOK'
    BY <2>1, <2>2, <2>3 DEF TypeOK, Pcs, Results
  <2>5. OthersKept(o) /\ ReadersKept(o)
    BY <2>1, <2>2, <2>3 DEF OthersKept, ReadersKept, TypeOK
  <2>6. pc'[o] = "done" /\ Kind(o)' = Kind(o) /\ On(o)' = On(o)
    BY <2>1, <2>2 DEF TypeOK, Kind, On
  <2>7. OpInv(o)'
    BY <2>1, <2>2, <2>3, <2>6 DEF OpInv, PoolKinds, ReaderKinds
  <2>8. ReaderInv(o)'
    BY <2>1, <2>6 DEF ReaderInv, ReaderKinds
  <2> QED
    BY <2>3, <2>4, <2>5, <2>7, <2>8, OneOpStep
<1> QED
  BY <1>1, <1>2

\* An operation is called.
LEMMA BeginStep ==
    ASSUME RequestInv, NEW o \in Ops, Begin(o)
    PROVE  RequestInv'
<1>1. fault = "none" /\ pc[o] = "idle" /\ UNCHANGED call
  BY DEF Begin
<1>2. \/ Return(o, "refused") \/ Return(o, "ok") \/ Suspend(o) \/ Close(o)
  BY DEF Begin, StreamWrite, StreamShutdown, StreamRead, TcpConnect, PipeConnect,
         SendTo, RecvFrom, Resolve, ReverseLookup, RunFsRequest
<1> QED
  BY <1>1, <1>2, ReturnStep, SuspendStep, CloseStep DEF Results

-----------------------------------------------------------------------------
(* drain() runs the first closure *)

\* Closure w of operation o is the first in the queue and is taken from it.
Pops(w, o) ==
    /\ fault = "none" /\ posted # <<>> /\ Head(posted) = <<w, o>>
    /\ posted' = Tail(posted) /\ UNCHANGED <<call, stopped>>

\* The first closure is the one of o, and is taken.
LEMMA PopsFacts ==
    ASSUME RequestInv, NEW w \in Closures, NEW o \in Ops, Pops(w, o)
    PROVE  /\ posted' \in Seq(Closures \X Ops) /\ StartOnce' /\ pc[o] # "idle"
           /\ \A v \in Closures : PostedFor(v, o)' => PostedFor(v, o)
           /\ w = "start" => PostedFor("start", o) /\ ~PostedFor("start", o)'
           /\ w # "start" => (PostedFor("start", o)' <=> PostedFor("start", o))
           /\ \A v \in Closures, p \in Ops \ {o} : PostedFor(v, p)' <=> PostedFor(v, p)
           /\ Kind(o)' = Kind(o) /\ On(o)' = On(o)
           /\ TypeOK /\ OpInv(o) /\ ReaderInv(o)
<1>1. TypeOK /\ StartOnce /\ OpInv(o) /\ ReaderInv(o)
  BY DEF RequestInv, Pops
<1>2. /\ posted' \in Seq(Closures \X Ops) /\ StartOnce'
      /\ \A v \in Closures, p \in Ops :
            PostedFor(v, p) <=> <<w, o>> = <<v, p>> \/ PostedFor(v, p)'
      /\ \A p \in Ops : <<w, o>> = <<"start", p>> => ~PostedFor("start", p)'
  BY <1>1, PopFacts DEF Pops
<1>3. "start" \in Closures
  BY DEF Closures
<1>4. PostedFor(w, o)
  BY <1>2
<1>5. pc[o] # "idle"
  BY <1>1, <1>4 DEF OpInv
<1>6. w = "start" => PostedFor("start", o) /\ ~PostedFor("start", o)'
  BY <1>2, <1>4
<1>7. w # "start" => (PostedFor("start", o)' <=> PostedFor("start", o))
  BY <1>2, <1>3
<1>8. Kind(o)' = Kind(o) /\ On(o)' = On(o)
  BY DEF Pops, Kind, On
<1> QED
  BY <1>1, <1>2, <1>5, <1>6, <1>7, <1>8

Statuses == {"ok", "eof", "error", "EBUSY", "ECANCELED"}

\* An operation is completed once, with a result.
LEMMA CompleteFacts ==
    ASSUME TypeOK, NEW o \in Ops, NEW s \in Statuses, NEW cancels,
           Complete(o, s, cancels)
    PROVE  /\ pc' \in [Ops -> Pcs] /\ pc'[o] = "done"
           /\ result' \in [Ops -> Results]
           /\ s = "ok" /\ o \notin cancels => result'[o] = "ok"
           /\ \A p \in Ops \ {o} : pc'[p] = pc[p] /\ result'[p] = result[p]
           /\ connected' \subseteq Handles
<1> DEFINE r == AwaitResume(s, o \in cancels)
<1>1. r \in Results /\ (s = "ok" /\ o \notin cancels => r = "ok")
  BY DEF AwaitResume, Results, Statuses
<1>2. /\ pc' = [pc EXCEPT ![o] = "done"] /\ result' = [result EXCEPT ![o] = r]
      /\ connected' = Connected(o, r)
  BY DEF Complete
<1> HIDE DEF r
<1>3. connected' \subseteq Handles
  <2>1. Kind(o) = "connect" => On(o) \in Handles
    BY OpTypes DEF PoolKinds
  <2> QED
    BY <1>2, <2>1 DEF Connected, TypeOK
<1> QED
  BY <1>1, <1>2, <1>3 DEF TypeOK, Pcs

\* The start of an operation that is over does nothing.
LEMMA StartNothingStep ==
    ASSUME RequestInv, NEW o \in Ops, Pops("start", o), StartNothing(o)
    PROVE  RequestInv'
<1>1. "start" \in Closures
  BY DEF Closures
<1> USE <1>1, PopsFacts
<1>2. TypeOK' /\ StartOnce'
  BY DEF TypeOK, Pops, StartNothing, handleVars
<1>3. OthersKept(o) /\ ReadersKept(o) /\ fault = "none"
  BY DEF OthersKept, ReadersKept, Pops, StartNothing, handleVars
<1>4. OpInv(o)'
  BY DEF OpInv, StartNothing, handleVars
<1>5. ReaderInv(o)'
  BY DEF ReaderInv, StartNothing, handleVars
<1> QED
  BY <1>2, <1>3, <1>4, <1>5, OneOpStep

\* The kinds of operation with a request that libuv may refuse or take.
LEMMA StartFailsStep ==
    ASSUME RequestInv, NEW o \in Ops, Pops("start", o), StartFails(o),
           Kind(o) \notin ReaderKinds
    PROVE  RequestInv'
<1>1. "start" \in Closures /\ "error" \in Statuses
  BY DEF Closures, Statuses
<1> USE <1>1, PopsFacts
<1>2. /\ pc' \in [Ops -> Pcs] /\ pc'[o] = "done" /\ result' \in [Ops -> Results]
      /\ \A p \in Ops \ {o} : pc'[p] = pc[p] /\ result'[p] = result[p]
      /\ connected' \subseteq Handles
  BY CompleteFacts DEF StartFails
<1>3. TypeOK' /\ StartOnce'
  BY <1>2 DEF TypeOK, Pops, StartFails, handleVars
<1>4. OthersKept(o) /\ ReadersKept(o) /\ fault = "none"
  BY <1>2 DEF OthersKept, ReadersKept, Pops, StartFails, handleVars
<1>5. OpInv(o)'
  BY <1>2 DEF OpInv, StartFails, handleVars
<1>6. ReaderInv(o)'
  BY DEF ReaderInv
<1> QED
  BY <1>3, <1>4, <1>5, <1>6, OneOpStep

\* libuv gets the request of an operation.
LEMMA StartRequestStep ==
    ASSUME RequestInv, NEW o \in Ops, Pops("start", o), pc[o] # "done",
           Kind(o) \notin ReaderKinds,
           NEW hold \in {"out", "queued"}, StartRequest(o, hold),
           Kind(o) \in PoolKinds => hold = "queued"
    PROVE  RequestInv'
<1>1. "start" \in Closures
  BY DEF Closures
<1> USE <1>1, PopsFacts
<1>2. uv' \in [Ops -> Holds] /\ uv'[o] = hold
  BY DEF StartRequest, TypeOK, Holds
<1>3. TypeOK' /\ StartOnce'
  BY <1>2 DEF TypeOK, Pops, StartRequest, handleVars
<1>4. OthersKept(o) /\ ReadersKept(o) /\ fault = "none"
  BY DEF OthersKept, ReadersKept, Pops, StartRequest, handleVars, TypeOK
<1>5. pc[o] = "suspended"
  BY DEF TypeOK, Pcs
<1>6. OpInv(o)'
  BY <1>2, <1>5 DEF OpInv, StartRequest, handleVars
<1>7. ReaderInv(o)'
  BY DEF ReaderInv
<1> QED
  BY <1>3, <1>4, <1>6, <1>7, OneOpStep

\* The start of an operation fails in an assertion.
LEMMA StartFaultStep ==
    ASSUME RequestInv, NEW o \in Ops, Pops("start", o),
           NEW f \in Faults \ {"none"}, StartFault(f)
    PROVE  RequestInv'
<1>1. "start" \in Closures
  BY DEF Closures
<1> USE <1>1, PopsFacts
<1>2. TypeOK' /\ StartOnce' /\ fault' # "none"
  BY DEF TypeOK, Pops, StartFault, handleVars
<1>3. OthersKept(o)
  BY DEF OthersKept, Pops, StartFault
<1>4. OpInv(o)'
  BY DEF OpInv, StartFault
<1> QED
  BY <1>2, <1>3, <1>4, OneOpStep

\* uv_read_start and uv_udp_recv_start register the operation or end it.
LEMMA BecomeReaderStep ==
    ASSUME RequestInv, NEW o \in Ops, Pops("start", o), pc[o] # "done",
           Kind(o) \in ReaderKinds, BecomeReader(o),
           UNCHANGED <<cancelReq, started, uv, hstate, owned, took, fault>>
    PROVE  RequestInv'
<1>1. "start" \in Closures /\ "error" \in Statuses /\ "EBUSY" \in Statuses
  BY DEF Closures, Statuses
<1> USE <1>1, PopsFacts
<1>2. On(o) \in Handles /\ pc[o] = "suspended" /\ fault = "none"
  BY OpTypes DEF TypeOK, Pcs, Pops
<1>3. reader[On(o)] # o
  BY DEF ReaderInv
<1>4. CASE reader' = reader /\ \E s \in {"error", "EBUSY"} : Complete(o, s, cancelReq)
  <2>1. /\ pc' \in [Ops -> Pcs] /\ pc'[o] = "done" /\ result' \in [Ops -> Results]
        /\ \A p \in Ops \ {o} : pc'[p] = pc[p] /\ result'[p] = result[p]
        /\ connected' \subseteq Handles
    BY <1>4, CompleteFacts
  <2>2. TypeOK' /\ StartOnce'
    BY <1>4, <2>1 DEF TypeOK, Pops
  <2>3. OthersKept(o) /\ ReadersKept(o)
    BY <1>4, <2>1 DEF OthersKept, ReadersKept, Pops
  <2>4. OpInv(o)'
    BY <1>2, <2>1 DEF OpInv
  <2>5. ReaderInv(o)'
    BY <1>3, <1>4, <2>1 DEF ReaderInv
  <2> QED
    BY <1>2, <2>2, <2>3, <2>4, <2>5, OneOpStep
<1>5. CASE /\ reader[On(o)] = None /\ reader' = [reader EXCEPT ![On(o)] = o]
           /\ UNCHANGED <<pc, result, connected>>
  <2>1. TypeOK' /\ StartOnce'
    BY <1>2, <1>5 DEF TypeOK, Pops
  <2>2. OthersKept(o)
    BY <1>5 DEF OthersKept, Pops
  <2>3. ReadersKept(o)
    BY <1>2, <1>5, RequestsAssumption DEF ReadersKept, TypeOK
  <2>4. OpInv(o)'
    BY <1>5 DEF OpInv
  <2>5. reader'[On(o)] = o
    BY <1>2, <1>5 DEF TypeOK
  <2>6. ReaderInv(o)'
    BY <1>2, <1>5, <2>5 DEF ReaderInv
  <2> QED
    BY <1>2, <2>1, <2>2, <2>3, <2>4, <2>6, OneOpStep
<1> QED
  BY <1>4, <1>5 DEF BecomeReader

\* The start closure of an operation.
LEMMA StartStep ==
    ASSUME RequestInv, NEW o \in Ops, Pops("start", o), Start(o)
    PROVE  RequestInv'
<1>1. CASE StartNothing(o)
  BY <1>1, StartNothingStep
<1>2. CASE /\ pc[o] # "done" /\ Kind(o) \notin ReaderKinds
           /\ \/ StartFails(o) \/ (StartRequest(o, "out") /\ Kind(o) \notin PoolKinds)
              \/ StartRequest(o, "queued")
  BY <1>2, StartFailsStep, StartRequestStep
<1>3. CASE StartFault("null") \/ StartFault("escaped")
  BY <1>3, StartFaultStep DEF Faults
<1>4. CASE /\ pc[o] # "done" /\ Kind(o) \in ReaderKinds /\ BecomeReader(o)
           /\ UNCHANGED <<cancelReq, started, uv, hstate, owned, took, fault>>
  BY <1>4, BecomeReaderStep
<1>5. CASE StreamWriteStart(o) \/ StreamShutdownStart(o) \/ SendToStart(o)
           \/ TcpConnectStart(o) \/ PipeConnectStart(o)
  <2>1. Kind(o) \notin ReaderKinds \cup PoolKinds
    BY <1>5, OpTypes DEF RequestInv, StreamWriteStart, StreamShutdownStart, SendToStart,
                         TcpConnectStart, PipeConnectStart
  <2> QED
    BY <1>1, <1>2, <1>3, <1>5, <2>1
       DEF StreamWriteStart, StreamShutdownStart, SendToStart, TcpConnectStart,
           PipeConnectStart
<1>6. CASE ResolveStart(o) \/ ReverseLookupStart(o) \/ RunFsRequestStart(o)
  <2>1. Kind(o) \notin ReaderKinds
    BY <1>6 DEF ResolveStart, ReverseLookupStart, RunFsRequestStart, ReaderKinds
  <2> QED
    BY <1>1, <1>2, <1>3, <1>6, <2>1
       DEF ResolveStart, ReverseLookupStart, RunFsRequestStart
<1>7. CASE StreamReadStart(o) \/ RecvFromStart(o)
  <2>1. Kind(o) \in ReaderKinds
    BY <1>7 DEF StreamReadStart, RecvFromStart, ReaderKinds
  <2> QED
    BY <1>1, <1>3, <1>4, <1>7, <2>1 DEF StreamReadStart, RecvFromStart
<1> QED
  BY <1>5, <1>6, <1>7 DEF Start

\* The cancel closure of an operation that has a request.
LEMMA CancelRequestStep ==
    ASSUME RequestInv, NEW o \in Ops, Pops("cancel", o),
           Kind(o) \notin ReaderKinds, CancelRequest(o),
           UNCHANGED <<started, handleVars, took, fault>>
    PROVE  RequestInv'
<1>1. "cancel" \in Closures /\ "cancel" # "start" /\ "ECANCELED" \in Statuses
  BY DEF Closures, Statuses
<1> USE <1>1, PopsFacts
<1>2. fault = "none" /\ ReadersKept(o) /\ ReaderInv(o)'
  BY DEF Pops, ReadersKept, ReaderInv, handleVars
<1>3. CASE pc[o] = "done"
  <2>1. UNCHANGED <<pc, result, cancelReq, uv, connected>>
    BY <1>3 DEF CancelRequest
  <2>2. TypeOK' /\ StartOnce'
    BY <2>1 DEF TypeOK, Pops, handleVars
  <2>3. OthersKept(o)
    BY <2>1 DEF OthersKept, Pops
  <2>4. OpInv(o)'
    BY <2>1 DEF OpInv
  <2> QED
    BY <1>2, <2>2, <2>3, <2>4, OneOpStep
<1>4. CASE pc[o] # "done"
  <2>1. cancelReq' = cancelReq \cup {o}
    BY <1>4 DEF CancelRequest
  <2>2. CASE /\ o \notin started \/ UvCancel(o) = "EINVAL"
             /\ Complete(o, "ECANCELED", cancelReq \cup {o}) /\ UNCHANGED uv
    <3>1. /\ pc' \in [Ops -> Pcs] /\ pc'[o] = "done" /\ result' \in [Ops -> Results]
          /\ \A p \in Ops \ {o} : pc'[p] = pc[p] /\ result'[p] = result[p]
          /\ connected' \subseteq Handles
      BY <2>2, CompleteFacts
    <3>2. TypeOK' /\ StartOnce'
      BY <2>1, <2>2, <3>1 DEF TypeOK, Pops, handleVars
    <3>3. OthersKept(o)
      BY <2>1, <2>2, <3>1 DEF OthersKept, Pops
    <3>4. o \notin started \/ uv[o] = "out"
      BY <2>2 DEF UvCancel
    <3>5. OpInv(o)'
      BY <1>4, <2>2, <3>1, <3>4 DEF OpInv
    <3> QED
      BY <1>2, <3>2, <3>3, <3>5, OneOpStep
  <2>3. CASE /\ o \in started
             /\ uv' = IF UvCancel(o) = "0" THEN [uv EXCEPT ![o] = "cancelled"] ELSE uv
             /\ UNCHANGED <<pc, result, connected>>
    <3>1. UvCancel(o) = "0" => uv[o] = "queued"
      BY DEF UvCancel
    <3>2. TypeOK' /\ StartOnce'
      BY <2>1, <2>3 DEF TypeOK, Pops, handleVars, Holds
    <3>3. OthersKept(o)
      BY <2>1, <2>3 DEF OthersKept, Pops, TypeOK
    <3>4. \/ uv'[o] = uv[o]
          \/ uv[o] = "queued" /\ uv'[o] = "cancelled"
      BY <2>3, <3>1 DEF TypeOK
    <3>5. OpInv(o)'
      BY <2>3, <3>4 DEF OpInv
    <3> QED
      BY <1>2, <3>2, <3>3, <3>5, OneOpStep
  <2> QED
    BY <1>4, <2>2, <2>3 DEF CancelRequest
<1> QED
  BY <1>3, <1>4

\* The cancel closure of a read.
LEMMA DetachStep ==
    ASSUME RequestInv, NEW o \in Ops, Pops("cancel", o), Kind(o) \in ReaderKinds,
           NEW f \in Faults, Detach(o, f), UNCHANGED <<started, uv, hstate, owned, took>>
    PROVE  RequestInv'
<1>1. "cancel" \in Closures /\ "cancel" # "start" /\ "ECANCELED" \in Statuses
  BY DEF Closures, Statuses
<1> USE <1>1, PopsFacts
<1>2. fault = "none" /\ On(o) \in Handles
  BY OpTypes DEF Pops
<1>3. CASE UNCHANGED <<pc, result, cancelReq, reader, connected>>
  <2>1. CASE fault' = fault \/ fault' = f
    <3>1. TypeOK' /\ StartOnce'
      BY <1>3, <2>1 DEF TypeOK, Pops
    <3>2. OthersKept(o) /\ ReadersKept(o)
      BY <1>3 DEF OthersKept, ReadersKept, Pops
    <3>3. OpInv(o)'
      BY <1>3 DEF OpInv
    <3>4. ReaderInv(o)'
      BY <1>3 DEF ReaderInv
    <3> QED
      BY <1>2, <3>1, <3>2, <3>3, <3>4, OneOpStep
  <2> QED
    BY <1>3, <2>1 DEF Detach
<1>4. CASE /\ pc[o] # "done"
           /\ reader' = IF reader[On(o)] = o THEN [reader EXCEPT ![On(o)] = None] ELSE reader
           /\ cancelReq' = cancelReq \cup {o}
           /\ Complete(o, "ECANCELED", cancelReq \cup {o})
           /\ UNCHANGED fault
  <2>1. /\ pc' \in [Ops -> Pcs] /\ pc'[o] = "done" /\ result' \in [Ops -> Results]
        /\ \A p \in Ops \ {o} : pc'[p] = pc[p] /\ result'[p] = result[p]
        /\ connected' \subseteq Handles
    BY <1>4, CompleteFacts
  <2>2. TypeOK' /\ StartOnce'
    BY <1>2, <1>4, <2>1 DEF TypeOK, Pops
  <2>3. OthersKept(o)
    BY <1>4, <2>1 DEF OthersKept, Pops
  <2>4. ReadersKept(o) /\ reader'[On(o)] # o
    BY <1>2, <1>4, RequestsAssumption DEF ReadersKept, TypeOK
  <2>5. OpInv(o)'
    BY <1>4, <2>1 DEF OpInv
  <2>6. ReaderInv(o)'
    BY <2>1, <2>4 DEF ReaderInv
  <2> QED
    BY <1>2, <2>2, <2>3, <2>4, <2>5, <2>6, OneOpStep
<1> QED
  BY <1>3, <1>4 DEF Detach

\* The cancel closure of an operation.
LEMMA CancelStep ==
    ASSUME RequestInv, NEW o \in Ops, Pops("cancel", o), Cancel(o)
    PROVE  RequestInv'
<1>1. CASE Kind(o) \notin ReaderKinds
  <2>1. Kind(o) # "read" /\ Kind(o) # "recv"
    BY <1>1 DEF ReaderKinds
  <2> QED
    BY <1>1, <2>1, CancelRequestStep DEF Cancel
<1>2. CASE Kind(o) \in ReaderKinds
  <2>1. PICK f \in {"none", "freed", "null"} : Detach(o, f)
    BY <1>2 DEF Cancel, CancelRead, CancelRecv
  <2>2. UNCHANGED <<started, uv, hstate, owned, took>>
    BY <1>2 DEF Cancel
  <2>3. f \in Faults
    BY DEF Faults
  <2> QED
    BY <1>2, <2>1, <2>2, <2>3, DetachStep
<1> QED
  BY <1>1, <1>2

\* The closing of a handle completes what waits on it.
LEMMA CloseHandleStep ==
    ASSUME RequestInv, NEW o \in Ops, Pops("close", o), CloseHandle(o)
    PROVE  RequestInv'
<1>1. "close" \in Closures /\ "close" # "start"
  BY DEF Closures
<1> USE <1>1, PopsFacts DEF CloseHandle
<1>2. TypeOK' /\ StartOnce'
  BY DEF TypeOK, Pops
<1>3. OthersKept(o) /\ ReadersKept(o) /\ fault = "none"
  BY DEF OthersKept, ReadersKept, Pops
<1>4. OpInv(o)'
  BY DEF OpInv
<1>5. ReaderInv(o)'
  BY DEF ReaderInv
<1> QED
  BY <1>2, <1>3, <1>4, <1>5, OneOpStep

\* The loop runs the first closure.
LEMMA RunPostedStep ==
    ASSUME RequestInv, RunPosted
    PROVE  RequestInv'
<1> DEFINE w == Head(posted)[1]
           o == Head(posted)[2]
<1>1. Head(posted) \in Closures \X Ops
  BY PopFacts DEF RequestInv, RunPosted
<1>2. w \in Closures /\ o \in Ops /\ Head(posted) = <<w, o>>
  BY <1>1
<1>3. Pops(w, o)
  BY <1>2 DEF RunPosted, Pops
<1>4. \/ w = "start" /\ Start(o)
      \/ w = "cancel" /\ Cancel(o)
      \/ w = "close" /\ CloseHandle(o)
  BY DEF RunPosted
<1> HIDE DEF w, o
<1> QED
  BY <1>2, <1>3, <1>4, StartStep, CancelStep, CloseHandleStep

-----------------------------------------------------------------------------
(* libuv, its thread pool and the threads that stop *)

\* A worker thread runs a request of the pool.
LEMMA PoolWorkStep ==
    ASSUME RequestInv, NEW o \in Ops, PoolWork(o)
    PROVE  RequestInv'
<1>1. TypeOK /\ StartOnce /\ OpInv(o) /\ ReaderInv(o) /\ fault = "none"
  BY DEF RequestInv, PoolWork
<1>2. \A w, p : PostedFor(w, p)' <=> PostedFor(w, p)
  BY DEF PostedFor, PoolWork
<1>3. /\ uv[o] \in {"queued", "running"} /\ uv'[o] \in {"running", "finished"}
      /\ uv' \in [Ops -> Holds]
  BY <1>1 DEF PoolWork, TypeOK, Holds
<1>4. TypeOK' /\ StartOnce'
  <2>1. TypeOK'
    BY <1>1, <1>3 DEF TypeOK, PoolWork, handleVars
  <2>2. StartOnce'
    BY <1>1 DEF StartOnce, PoolWork
  <2> QED
    BY <2>1, <2>2
<1>5. OthersKept(o) /\ ReadersKept(o)
  BY <1>1, <1>2 DEF OthersKept, ReadersKept, PoolWork, handleVars, TypeOK
<1>6. Kind(o)' = Kind(o) /\ On(o)' = On(o)
  BY DEF Kind, On, PoolWork
<1>7. OpInv(o)'
  BY <1>1, <1>2, <1>3, <1>6 DEF OpInv, PoolWork
<1>8. ReaderInv(o)'
  BY <1>1, <1>2, <1>6 DEF ReaderInv, PoolWork, handleVars
<1> QED
  BY <1>1, <1>4, <1>5, <1>7, <1>8, OneOpStep

\* A stop posts the cancel of an operation.
LEMMA RequestStopStep ==
    ASSUME RequestInv, NEW o \in Ops, RequestStop(o)
    PROVE  RequestInv'
<1>1. TypeOK /\ StartOnce /\ OpInv(o) /\ ReaderInv(o) /\ fault = "none"
  BY DEF RequestInv, RequestStop
<1>2. /\ posted' \in Seq(Closures \X Ops) /\ StartOnce'
      /\ \A p \in Ops : PostedFor("start", p)' <=> PostedFor("start", p)
      /\ \A w \in Closures, p \in Ops \ {o} : PostedFor(w, p)' <=> PostedFor(w, p)
      /\ \A w \in Closures : PostedFor(w, o)' => PostedFor(w, o) \/ pc[o] = "suspended"
  <2>1. CASE posted' = posted
    BY <1>1, <2>1 DEF PostedFor, StartOnce, TypeOK
  <2>2. CASE pc[o] = "suspended" /\ posted' = Append(posted, <<"cancel", o>>)
    <3>1. "cancel" \in Closures /\ "start" \in Closures
      BY DEF Closures
    <3>2. /\ posted' \in Seq(Closures \X Ops) /\ StartOnce'
          /\ \A v \in Closures, p \in Ops :
                PostedFor(v, p)' <=> PostedFor(v, p) \/ <<v, p>> = <<"cancel", o>>
      BY <1>1, <2>2, <3>1, PushFacts
    <3> QED
      BY <2>2, <3>1, <3>2
  <2> QED
    BY <2>1, <2>2 DEF RequestStop
<1>3. TypeOK'
  BY <1>1, <1>2 DEF TypeOK, RequestStop, handleVars
<1>4. OthersKept(o) /\ ReadersKept(o)
  BY <1>1, <1>2 DEF OthersKept, ReadersKept, RequestStop, handleVars
<1>5. Kind(o)' = Kind(o) /\ On(o)' = On(o)
  BY DEF Kind, On, RequestStop
<1>6. OpInv(o)'
  BY <1>1, <1>2, <1>5 DEF OpInv, RequestStop
<1>7. ReaderInv(o)'
  BY <1>1, <1>2, <1>5 DEF ReaderInv, RequestStop, handleVars
<1> QED
  BY <1>1, <1>2, <1>3, <1>4, <1>6, <1>7, OneOpStep

\* The callback of a request: it completes the operation, or meets its state
\* freed.
LEMMA RequestDoneStep ==
    ASSUME RequestInv, fault = "none", UNCHANGED call, NEW o \in Ops,
           NEW s \in {"ok", "eof", "error", "ECANCELED"}, RequestDone(o, s)
    PROVE  RequestInv'
<1>1. TypeOK /\ StartOnce /\ OpInv(o) /\ ReaderInv(o) /\ s \in Statuses
  BY DEF RequestInv, Statuses
<1>2. \A w, p : PostedFor(w, p)' <=> PostedFor(w, p)
  BY DEF PostedFor, RequestDone
<1>3. /\ uv[o] # "idle" /\ uv'[o] = "idle" /\ uv' \in [Ops -> Holds]
      /\ Kind(o)' = Kind(o) /\ Kind(o) \notin ReaderKinds /\ StartOnce'
  BY <1>1 DEF RequestDone, TypeOK, Holds, OpInv, Kind, StartOnce
<1>4. /\ pc' \in [Ops -> Pcs] /\ (pc'[o] = "done" \/ pc'[o] = pc[o])
      /\ result' \in [Ops -> Results] /\ fault' \in Faults
      /\ \A p \in Ops \ {o} : pc'[p] = pc[p] /\ result'[p] = result[p]
      /\ connected' \subseteq Handles
  <2>1. CASE fault' = "freed" /\ UNCHANGED <<pc, result, connected>>
    BY <1>1, <2>1 DEF TypeOK, Faults
  <2>2. CASE Complete(o, s, cancelReq) /\ UNCHANGED fault
    BY <1>1, <2>2, CompleteFacts DEF TypeOK
  <2> QED
    BY <2>1, <2>2 DEF RequestDone
<1>5. TypeOK'
  BY <1>1, <1>3, <1>4 DEF TypeOK, RequestDone, handleVars
<1>6. OthersKept(o) /\ ReadersKept(o)
  BY <1>1, <1>2, <1>4 DEF OthersKept, ReadersKept, RequestDone, handleVars, TypeOK
<1>7. OpInv(o)'
  BY <1>1, <1>2, <1>3, <1>4 DEF OpInv, RequestDone
<1>8. ReaderInv(o)'
  BY <1>3 DEF ReaderInv
<1> QED
  BY <1>3, <1>5, <1>6, <1>7, <1>8, OneOpStep

\* Input, an error or the end of the stream comes to a reader.
LEMMA InputStep ==
    ASSUME RequestInv, fault = "none", UNCHANGED call, NEW o \in Ops,
           NEW s \in {"ok", "eof", "error", "ECANCELED"},
           Kind(o) \in ReaderKinds, InputArrives(o, s)
    PROVE  RequestInv'
<1>1. /\ TypeOK /\ StartOnce /\ OpInv(o) /\ ReaderInv(o) /\ s \in Statuses
      /\ On(o) \in Handles
  BY OpTypes DEF RequestInv, Statuses
<1>2. \A w, p : PostedFor(w, p)' <=> PostedFor(w, p)
  BY DEF PostedFor, InputArrives
<1>3. /\ reader[On(o)] = o /\ reader' = [reader EXCEPT ![On(o)] = None]
      /\ Complete(o, s, cancelReq)
      /\ took' = (IF s = "ok" THEN took \cup {o} ELSE took)
      /\ UNCHANGED <<cancelReq, started, uv, hstate, owned, stopped, posted, fault>>
  BY DEF InputArrives
<1>4. pc[o] = "suspended" /\ o \notin cancelReq /\ o \notin took
  BY <1>1, <1>3 DEF ReaderInv, OpInv
<1>5. /\ pc' \in [Ops -> Pcs] /\ pc'[o] = "done" /\ result' \in [Ops -> Results]
      /\ s = "ok" => result'[o] = "ok"
      /\ \A p \in Ops \ {o} : pc'[p] = pc[p] /\ result'[p] = result[p]
      /\ connected' \subseteq Handles
  BY <1>1, <1>3, <1>4, CompleteFacts
<1>6. TypeOK' /\ StartOnce'
  <2>1. TypeOK'
    BY <1>1, <1>3, <1>5 DEF TypeOK
  <2>2. StartOnce'
    BY <1>1, <1>3 DEF StartOnce
  <2> QED
    BY <2>1, <2>2
<1>7. OthersKept(o)
  BY <1>2, <1>3, <1>5 DEF OthersKept
<1>8. ReadersKept(o) /\ reader'[On(o)] # o
  BY <1>1, <1>3, RequestsAssumption DEF ReadersKept, TypeOK
<1>9. Kind(o)' = Kind(o) /\ On(o)' = On(o)
  BY DEF Kind, On
<1>10. OpInv(o)'
  BY <1>1, <1>2, <1>3, <1>4, <1>5, <1>9 DEF OpInv
<1>11. ReaderInv(o)'
  BY <1>5, <1>8, <1>9 DEF ReaderInv
<1> QED
  BY <1>6, <1>7, <1>8, <1>10, <1>11, OneOpStep

\* libuv calls back.
LEMMA CallbackStep ==
    ASSUME RequestInv, NEW o \in Ops, Callback(o)
    PROVE  RequestInv'
<1>1. fault = "none" /\ UNCHANGED call
  BY DEF Callback
<1>2. PICK s \in {"ok", "eof", "error", "ECANCELED"} :
          RequestDone(o, s) \/ ReadCallback(o, s) \/ RecvCallback(o, s)
  BY DEF Callback
<1> QED
  BY <1>1, <1>2, RequestDoneStep, InputStep DEF ReadCallback, RecvCallback, ReaderKinds

\* A step that changes at most the state of a handle.
LEMMA HandleStep ==
    ASSUME RequestInv, hstate' \in [Handles -> {"open", "closing", "deleted"}],
           UNCHANGED <<call, pc, result, cancelReq, started, uv, reader, owned,
                       connected, stopped, posted, took, fault>>
    PROVE  RequestInv'
<1>1. TypeOK'
  BY DEF RequestInv, TypeOK
<1>2. StartOnce'
  BY DEF RequestInv, StartOnce
<1>3. \A w, p : PostedFor(w, p)' <=> PostedFor(w, p)
  BY DEF PostedFor
<1>4. \A p \in Ops : OpInv(p)'
  BY <1>3 DEF RequestInv, OpInv, Kind
<1>5. fault' = "none" => \A p \in Ops : ReaderInv(p)'
  BY <1>3 DEF RequestInv, ReaderInv, Kind, On
<1> QED
  BY <1>1, <1>2, <1>4, <1>5 DEF RequestInv

-----------------------------------------------------------------------------
(* The theorems *)

\* The life of the operations, their closures and the readers are inductive
\* together.
THEOREM RequestInvariant == Spec => []RequestInv
<1>1. Init => RequestInv
  <2> SUFFICES ASSUME Init PROVE RequestInv
    OBVIOUS
  <2>1. TypeOK
    BY RequestsAssumption
       DEF Init, TypeOK, Pcs, Results, Holds, Handles, Streams, Faults
  <2>2. StartOnce /\ \A w, o : ~PostedFor(w, o)
    BY DEF Init, StartOnce, PostedFor
  <2>3. \A o \in Ops : OpInv(o)
    BY <2>2 DEF Init, OpInv
  <2>4. \A o \in Ops : ReaderInv(o)
    BY <2>1, OpTypes, RequestsAssumption DEF Init, ReaderInv
  <2> QED
    BY <2>1, <2>2, <2>3, <2>4 DEF RequestInv
<1>2. RequestInv /\ [Next]_vars => RequestInv'
  <2> SUFFICES ASSUME RequestInv, [Next]_vars PROVE RequestInv'
    OBVIOUS
  <2>1. ASSUME NEW h \in Handles, DeleteHandle(h) PROVE RequestInv'
    <3>1. hstate' \in [Handles -> {"open", "closing", "deleted"}]
      BY <2>1 DEF RequestInv, TypeOK, DeleteHandle
    <3> QED
      BY <2>1, <3>1, HandleStep DEF DeleteHandle
  <2>2. CASE UNCHANGED vars
    BY <2>2, HandleStep DEF vars, RequestInv, TypeOK
  <2> QED
    BY <2>1, <2>2, RunPostedStep, BeginStep, PoolWorkStep, RequestStopStep, CallbackStep
       DEF Next
<1> QED
  BY <1>1, <1>2, PTL DEF Spec

\* handle->data (stream_ops.hpp:222-275, udp.cpp): the raw pointer is to the one
\* operation that reads the handle, exactly while it reads.
THEOREM ReaderNeverDangles == Spec => []ReaderIsRegistered
<1>1. RequestInv => ReaderIsRegistered
  <2> SUFFICES ASSUME RequestInv, NEW o \in Ops, Kind(o) \in ReaderKinds, fault = "none"
               PROVE  reader[On(o)] = o <=>
                        /\ pc[o] = "suspended"
                        /\ \A i \in DOMAIN posted : posted[i] # <<"start", o>>
    BY DEF ReaderIsRegistered
  <2> QED
    BY DEF RequestInv, ReaderInv, PostedFor
<1> QED
  BY <1>1, RequestInvariant, PTL

\* Input and a stop that races with it: a read into whose buffer libuv has put
\* input returns it, whichever closure runs first.
THEOREM InputIsReturned == Spec => []NoLostInput
<1>1. RequestInv => NoLostInput
  BY DEF RequestInv, TypeOK, OpInv, NoLostInput
<1> QED
  BY <1>1, RequestInvariant, PTL

\* uv_cancel and the thread pool (fs.cpp:151-167, dns.cpp:136-141): the state of a
\* pool request is there when libuv calls back, cancelled or not.
THEOREM PoolMemoryIsSafe == Spec => []PoolRequestsOutliveLibuv
<1>1. RequestInv => PoolRequestsOutliveLibuv
  BY DEF RequestInv, OpInv, PoolRequestsOutliveLibuv, Freed
<1> QED
  BY <1>1, RequestInvariant, PTL
=============================================================================
