--------------------------- MODULE DataPlaneProofs ---------------------------
(***************************************************************************)
(* For any number of concurrent requests, any stream length and any server: *)
(* no request is submitted before all have negotiated, and a case that is   *)
(* over is settled, with its cause, its evidence and no socket open.        *)
(***************************************************************************)
EXTENDS DataPlane, FiniteSetTheorems, TLAPS

Before == {"idle", "connect", "negotiate", "barrier", "waiting", "submit"}
Connected == {"negotiate", "barrier", "waiting", "submit", "disconnect", "stall", "stream",
              "cancel", "drain"}
Submitted == {"submit", "disconnect", "stall", "stream", "cancel", "drain", "returned"}
Places == Before \cup Connected \cup {"returned", "raised"}

TypeOK ==
    /\ clients \subseteq Clients /\ clients # {}
    /\ event \in ClientEvents \cup {"none"}
    /\ pc \in [Clients -> Places]
    /\ open \subseteq clients /\ negotiated \subseteq clients /\ waiting \subseteq clients
    /\ versions \in [Clients -> Seq(Nat)] /\ outputs \in [Clients -> Seq(Outputs)]
    /\ terminal \in [Clients -> BOOLEAN] /\ cancelled \in [Clients -> BOOLEAN]
    /\ intervening \in [Clients -> Seq(Frames)]
    /\ received \in [Clients -> Nat]
    /\ error \in [Clients -> Causes \cup {NoError, Barrier}]
    /\ barrier \in {"filling", "draining", "broken"}
    /\ main \in {"baselines", "joining", "returned", "raised"}
    /\ raised \in Causes \cup {NoError, Barrier}

\* Who is at the barrier has negotiated; it opens when all have.
BarrierInv ==
    /\ ~Concurrent => \E t \in clients : clients = {t}
    /\ \A t \in clients :
         /\ pc[t] \in {"barrier", "waiting"} \cup Submitted => t \in negotiated
         /\ t \in waiting <=> pc[t] = "waiting"
    /\ barrier = "draining" => negotiated = clients

\* Sockets and exceptions follow the thread, and main waits for all of them.
ThreadsInv ==
    /\ \A t \in clients :
         /\ t \in open <=> pc[t] \in Connected
         /\ error[t] # NoError <=> pc[t] = "raised"
         /\ main = "baselines" => pc[t] = "idle"
         /\ main \in {"returned", "raised"} => pc[t] \in {"idle", "returned", "raised"}
    /\ main = "returned" => \A t \in clients : pc[t] = "returned"
    /\ raised # NoError => main = "raised"
    /\ raised = Barrier => \A t \in clients : error[t] \in {NoError, Barrier}

\* What has been read and cancelled by where the request is.
EventOf(t) ==
    /\ pc[t] \in Before \cup {"disconnect", "stall"} =>
         ~terminal[t] /\ ~cancelled[t] /\ outputs[t] = <<>>
    /\ pc[t] = "disconnect" => event = "disconnect"
    /\ pc[t] = "stall" => event = "backpressure_timeout"
    /\ pc[t] \in {"stream", "cancel", "drain"} =>
         event \notin {"disconnect", "backpressure_timeout"}
    /\ event = "cancel_before_receipt" /\ pc[t] \in {"stream", "drain"} => cancelled[t]
    /\ event = "cancel_after_receipt" =>
         /\ pc[t] = "stream" => (cancelled[t] <=> outputs[t] # <<>>)
         /\ pc[t] = "cancel" => outputs[t] # <<>>
         /\ pc[t] = "drain" => cancelled[t] /\ outputs[t] # <<>>
    /\ pc[t] = "returned" =>
         /\ terminal[t] <=> event \notin {"disconnect", "backpressure_timeout"}
         /\ event = "cancel_before_receipt" => cancelled[t]
         /\ event = "cancel_after_receipt" => (cancelled[t] <=> outputs[t] # <<>>)

EventInv == \A t \in clients : EventOf(t)

IndInv == /\ TypeOK /\ BarrierInv /\ SubmitsStartTogether /\ ThreadsInv /\ EventInv
          /\ StreamIsWellFormed

-----------------------------------------------------------------------------
(* _append_event on the sequences it extends. *)

VersionsOK(v) == \A i \in DOMAIN v : v[i] > (IF i = 1 THEN 1 ELSE v[i - 1])

After(o) == IF o = <<>> THEN 0 ELSE o[Len(o)].sequence + o[Len(o)].tokens

OutputsOK(o) ==
    /\ \A i \in DOMAIN o :
          /\ o[i].tokens > 0
          /\ \A j \in 1..(i - 1) : o[j].sequence + o[j].tokens <= o[i].sequence
    /\ o # <<>> => o[1].sequence = 0
    /\ \A p \in 0..(After(o) - 1) : \E i \in DOMAIN o :
          p \in o[i].sequence .. (o[i].sequence + o[i].tokens - 1)

\* A stream is well formed request by request.
LEMMA StreamsAreOK ==
    StreamIsWellFormed <=> \A t \in clients : VersionsOK(versions[t]) /\ OutputsOK(outputs[t])
BY DEF StreamIsWellFormed, VersionsOK, OutputsOK, After, NextSequence

\* A version above the last one, and above 1, extends a rising sequence.
LEMMA AppendVersion ==
    ASSUME NEW v \in Seq(Nat), NEW n \in Nat, VersionsOK(v), n > 1, v # <<>> => n > v[Len(v)]
    PROVE  VersionsOK(Append(v, n))
<1> DEFINE w == Append(v, n)
<1>1. /\ w \in Seq(Nat) /\ Len(w) = Len(v) + 1 /\ w[Len(v) + 1] = n
      /\ \A i \in 1..Len(v) : w[i] = v[i]
  OBVIOUS
<1>2. DOMAIN w = 1..(Len(v) + 1) /\ DOMAIN v = 1..Len(v)
  BY <1>1
<1> HIDE DEF w
<1> SUFFICES ASSUME NEW i \in 1..(Len(v) + 1)
             PROVE  w[i] > (IF i = 1 THEN 1 ELSE w[i - 1])
  BY <1>2 DEF VersionsOK, w
<1>3. CASE i \in 1..Len(v)
  <2>1. v[i] > (IF i = 1 THEN 1 ELSE v[i - 1])
    BY <1>2, <1>3 DEF VersionsOK
  <2>2. i # 1 => i - 1 \in 1..Len(v)
    BY <1>3
  <2> QED
    BY <1>1, <1>3, <2>1, <2>2
<1>4. CASE i = Len(v) + 1
  <2>1. CASE v = <<>>
    BY <1>1, <1>4, <2>1
  <2>2. CASE v # <<>>
    <3>1. Len(v) \in 1..Len(v) /\ i # 1 /\ i - 1 = Len(v)
      BY <1>4, <2>2
    <3> QED
      BY <1>1, <1>4, <2>2, <3>1
  <2> QED
    BY <2>1, <2>2
<1> QED
  BY <1>3, <1>4

\* An output that starts where the last one ended leaves no gap and no overlap.
LEMMA AppendOutput ==
    ASSUME NEW o \in Seq(Outputs), NEW f \in Outputs, OutputsOK(o),
           f.tokens > 0, f.sequence = After(o)
    PROVE  OutputsOK(Append(o, f))
<1> DEFINE w == Append(o, f)
           n == Len(o)
<1>0. \A g \in Outputs : g.sequence \in Nat /\ g.tokens \in Nat
  BY ClientAssumption DEF Outputs
<1>1. /\ w \in Seq(Outputs) /\ Len(w) = n + 1 /\ w[n + 1] = f /\ n \in Nat
      /\ \A i \in 1..n : w[i] = o[i] /\ o[i] \in Outputs
  OBVIOUS
<1>2. DOMAIN w = 1..(n + 1) /\ DOMAIN o = 1..n /\ w # <<>>
  <2>1. Len(w) # 0
    BY <1>1
  <2> QED
    BY <1>1, <2>1
<1>3. o # <<>> => n \in 1..n /\ After(o) = o[n].sequence + o[n].tokens
  BY <1>1 DEF After
<1>4. o = <<>> => n = 0 /\ After(o) = 0
  BY DEF After
<1>5. After(w) = f.sequence + f.tokens
  BY <1>1, <1>2 DEF After
<1> HIDE DEF w, n
<1>6. ASSUME NEW i \in 1..(n + 1)
      PROVE  /\ w[i].tokens > 0
             /\ \A j \in 1..(i - 1) : w[j].sequence + w[j].tokens <= w[i].sequence
  <2>1. CASE i \in 1..n
    <3>1. /\ o[i].tokens > 0
          /\ \A j \in 1..(i - 1) : o[j].sequence + o[j].tokens <= o[i].sequence
      BY <1>2, <2>1 DEF OutputsOK
    <3>2. \A j \in 1..(i - 1) : j \in 1..n
      BY <1>1, <2>1
    <3> QED
      BY <1>1, <2>1, <3>1, <3>2
  <2>2. CASE i = n + 1
    <3>1. ASSUME NEW j \in 1..(i - 1) PROVE w[j].sequence + w[j].tokens <= w[i].sequence
      <4>1. j \in 1..n /\ o # <<>>
        BY <1>1, <1>4, <2>2
      <4>2. CASE j = n
        BY <1>0, <1>1, <1>3, <2>2, <4>1, <4>2
      <4>3. CASE j # n
        <5>1. j \in 1..(n - 1) /\ n \in 1..n
          BY <1>1, <4>1, <4>3
        <5>2. o[j].sequence + o[j].tokens <= o[n].sequence
          <6>1. \A i1 \in 1..n : \A j1 \in 1..(i1 - 1) :
                  o[j1].sequence + o[j1].tokens <= o[i1].sequence
            BY <1>2 DEF OutputsOK
          <6> QED
            BY <5>1, <6>1
        <5>3. w[j] = o[j] /\ w[i] = f /\ o[j] \in Outputs /\ o[n] \in Outputs
          BY <1>1, <2>2, <4>1, <5>1
        <5>4. f.sequence = o[n].sequence + o[n].tokens
          BY <1>3, <4>1
        <5>5. {o[j].sequence, o[j].tokens, o[n].sequence, o[n].tokens} \subseteq Nat
          BY <1>0, <5>3
        <5>6. o[j].sequence + o[j].tokens <= f.sequence
          BY <5>2, <5>4, <5>5, SMTT(30)
        <5> QED
          BY <5>3, <5>6
      <4> QED
        BY <4>2, <4>3
    <3> QED
      BY <1>1, <2>2, <3>1
  <2> QED
    BY <1>1, <2>1, <2>2
<1>7. w[1].sequence = 0
  <2>1. CASE o = <<>>
    BY <1>1, <1>4, <2>1
  <2>2. CASE o # <<>>
    <3>1. 1 \in 1..n
      BY <1>1, <1>3, <2>2
    <3> QED
      BY <1>1, <2>2, <3>1 DEF OutputsOK
  <2> QED
    BY <2>1, <2>2
<1>8. ASSUME NEW p \in 0..(After(w) - 1)
      PROVE  \E i \in 1..(n + 1) : p \in w[i].sequence .. (w[i].sequence + w[i].tokens - 1)
  <2>1. After(o) \in Nat
    BY <1>0, <1>1, <1>3, <1>4
  <2>2. CASE p < After(o)
    <3>1. p \in 0..(After(o) - 1)
      BY <1>0, <1>5, <2>1, <2>2
    <3>2. PICK i \in 1..n : p \in o[i].sequence .. (o[i].sequence + o[i].tokens - 1)
      BY <1>2, <3>1 DEF OutputsOK
    <3> QED
      BY <1>1, <3>2
  <2>3. CASE p >= After(o)
    BY <1>0, <1>1, <1>5, <2>1, <2>3
  <2> QED
    BY <1>0, <1>5, <2>1, <2>2, <2>3
<1> QED
  BY <1>2, <1>6, <1>7, <1>8 DEF OutputsOK, w

\* The kinds of frames tell their fields.
LEMMA FrameKinds ==
    ASSUME NEW f \in Frames
    PROVE  /\ f.kind = "status" => f \in Statuses /\ f.version \in Nat
           /\ f.kind = "output" => f \in Outputs
<1>1. \A g \in Directs : g.kind = "direct"
  BY DEF Directs
<1>2. \A g \in Statuses : g.kind = "status" /\ g.version \in Nat
  BY ClientAssumption DEF Statuses
<1>3. \A g \in Outputs : g.kind = "output"
  BY DEF Outputs
<1>4. [kind |-> "foreign"].kind = "foreign"
  OBVIOUS
<1> QED
  BY <1>1, <1>2, <1>3, <1>4 DEF Frames

\* Appending an accepted event of one request.
LEMMA EventFacts ==
    ASSUME TypeOK, StreamIsWellFormed, NEW t \in clients, NEW f \in Frames,
           Accepts(t, f), AppendEvent(t, f), UNCHANGED clients
    PROVE  /\ versions' \in [Clients -> Seq(Nat)] /\ outputs' \in [Clients -> Seq(Outputs)]
           /\ terminal' \in [Clients -> BOOLEAN]
           /\ StreamIsWellFormed'
           /\ \A u \in clients : u # t =>
                outputs'[u] = outputs[u] /\ terminal'[u] = terminal[u]
           /\ outputs[t] # <<>> => outputs'[t] # <<>>
<1> t \in Clients /\ clients \subseteq Clients
  BY DEF TypeOK
<1>0. /\ versions \in [Clients -> Seq(Nat)] /\ outputs \in [Clients -> Seq(Outputs)]
      /\ terminal \in [Clients -> BOOLEAN]
      /\ \A u \in clients : VersionsOK(versions[u]) /\ OutputsOK(outputs[u])
  BY StreamsAreOK DEF TypeOK
<1>1. /\ terminal' \in [Clients -> BOOLEAN]
      /\ \A u \in clients : u # t => terminal'[u] = terminal[u]
  BY <1>0 DEF AppendEvent
<1>2. /\ versions' \in [Clients -> Seq(Nat)]
      /\ \A u \in clients : VersionsOK(versions'[u])
  <2>1. CASE f.kind = "status"
    <3>1. f.version \in Nat /\ versions' = [versions EXCEPT ![t] = Append(@, f.version)]
      BY <2>1, FrameKinds DEF AppendEvent
    <3>2. f.version > 1 /\ (versions[t] # <<>> => f.version > versions[t][Len(versions[t])])
      BY <2>1 DEF Accepts
    <3>3. VersionsOK(Append(versions[t], f.version))
      BY <1>0, <3>1, <3>2, AppendVersion
    <3> QED
      BY <1>0, <3>1, <3>3
  <2>2. CASE f.kind # "status"
    BY <1>0, <2>2 DEF AppendEvent
  <2> QED
    BY <2>1, <2>2
<1>3. /\ outputs' \in [Clients -> Seq(Outputs)]
      /\ \A u \in clients : OutputsOK(outputs'[u]) /\ (u # t => outputs'[u] = outputs[u])
      /\ outputs[t] # <<>> => outputs'[t] # <<>>
  <2>1. CASE f.kind = "output"
    <3>1. f \in Outputs /\ outputs' = [outputs EXCEPT ![t] = Append(@, f)]
      BY <2>1, FrameKinds DEF AppendEvent
    <3>2. f.tokens > 0 /\ f.sequence = After(outputs[t])
      BY <2>1 DEF Accepts, NextSequence, After
    <3>3. OutputsOK(Append(outputs[t], f))
      BY <1>0, <3>1, <3>2, AppendOutput
    <3>4. Append(outputs[t], f) # <<>>
      BY <1>0, <3>1
    <3> QED
      BY <1>0, <3>1, <3>3, <3>4
  <2>2. CASE f.kind # "output"
    BY <1>0, <2>2 DEF AppendEvent
  <2> QED
    BY <2>1, <2>2
<1>4. StreamIsWellFormed' <=>
        \A u \in clients : VersionsOK(versions'[u]) /\ OutputsOK(outputs'[u])
  BY DEF StreamIsWellFormed, VersionsOK, OutputsOK, After, NextSequence
<1> QED
  BY <1>1, <1>2, <1>3, <1>4

-----------------------------------------------------------------------------
(* The inductive invariant holds at first and is kept by every step. *)

USE DEF NoError, Barrier, Causes, Places, Before, Connected, Submitted

\* A case before its first request.
LEMMA InitInv == Init => IndInv
<1> SUFFICES ASSUME Init PROVE IndInv
  OBVIOUS
<1> USE ClientAssumption DEF Init, Each
<1>1. clients \subseteq Clients /\ clients # {} /\ IsFiniteSet(clients)
  <2>1. PICK c : c \in Clients /\ clients \in {Clients, {c}}
    OBVIOUS
  <2>2. IsFiniteSet({c})
    BY FS_Singleton
  <2> QED
    BY ONLY ClientAssumption, <2>1, <2>2
<1>2. event \in ClientEvents \cup {"none"}
  OBVIOUS
<1>3. TypeOK
  BY <1>1, <1>2 DEF TypeOK
<1>4. ~Concurrent => \E t \in clients : clients = {t}
  <2>1. Cardinality(clients) \in Nat /\ Cardinality(clients) # 0
    BY <1>1, FS_CardinalityType, FS_EmptySet
  <2>2. ~Concurrent => Cardinality(clients) = 1
    BY <2>1 DEF Concurrent
  <2> QED
    BY <1>1, <2>2, FS_Singleton
<1>5. BarrierInv /\ SubmitsStartTogether
  BY <1>1, <1>4 DEF BarrierInv, SubmitsStartTogether
<1>6. ThreadsInv /\ EventInv
  BY <1>1 DEF ThreadsInv, EventInv, EventOf
<1>7. StreamIsWellFormed
  BY <1>1 DEF StreamIsWellFormed, NextSequence
<1> QED
  BY <1>3, <1>5, <1>6, <1>7 DEF IndInv

\* What the steps that touch no stream leave alone.
USE DEF streamVars, barrierVars, mainVars, caseVars, Goto, Raise

\* Every step of a client keeps the types.
LEMMA ClientType ==
    ASSUME TypeOK, StreamIsWellFormed, NEW t \in clients, ClientStep(t)
    PROVE  TypeOK'
<1> USE DEF TypeOK
<1> t \in Clients
  OBVIOUS
<1>1. CASE Connect(t) \/ ConnectFails(t) \/ Negotiate(t)
  BY <1>1 DEF Connect, ConnectFails, Negotiate
<1>2. CASE ArriveAtBarrier(t) \/ LeaveBarrier(t)
  BY <1>2 DEF ArriveAtBarrier, LeaveBarrier
<1>3. CASE FindBarrierBroken(t) \/ BarrierTimesOut(t)
  BY <1>3 DEF FindBarrierBroken, BarrierTimesOut
<1>4. CASE Submit(t) \/ Disconnect(t) \/ HungUp(t)
  BY <1>4 DEF Submit, Disconnect, HungUp
<1>5. CASE ExchangeFails(t) \/ RefuseEvent(t) \/ DrainRefused(t)
  BY <1>5 DEF ExchangeFails, RefuseEvent, DrainRefused
<1>6. CASE ReceiveEvent(t)
  <2>1. PICK f \in Frames : Accepts(t, f) /\ AppendEvent(t, f)
    BY <1>6 DEF ReceiveEvent
  <2>2. /\ versions' \in [Clients -> Seq(Nat)] /\ outputs' \in [Clients -> Seq(Outputs)]
        /\ terminal' \in [Clients -> BOOLEAN]
    BY <1>6, <2>1, EventFacts DEF ReceiveEvent
  <2>3. pc' \in [Clients -> Places] /\ received' \in [Clients -> Nat]
    BY <1>6 DEF ReceiveEvent
  <2> QED
    BY <1>6, <2>2, <2>3 DEF ReceiveEvent
<1>7. CASE SetAside(t)
  BY <1>7 DEF SetAside
<1>8. CASE CancelAccepted(t) \/ Drained(t) \/ Return(t)
  BY <1>8 DEF CancelAccepted, Drained, Return
<1>9. CASE DrainEvent(t)
  <2>1. Head(intervening[t]) \in Frames /\ Tail(intervening[t]) \in Seq(Frames)
    BY <1>9 DEF DrainEvent
  <2>2. /\ versions' \in [Clients -> Seq(Nat)] /\ outputs' \in [Clients -> Seq(Outputs)]
        /\ terminal' \in [Clients -> BOOLEAN]
    BY <1>9, <2>1, EventFacts DEF DrainEvent
  <2> QED
    BY <1>9, <2>1, <2>2 DEF DrainEvent
<1> QED
  BY <1>1, <1>2, <1>3, <1>4, <1>5, <1>6, <1>7, <1>8, <1>9 DEF ClientStep

\* The barrier opens only when every client has negotiated; after that the set of
\* negotiated clients is the whole case for good.
LEMMA ClientBarrier ==
    ASSUME TypeOK, BarrierInv, SubmitsStartTogether, NEW t \in clients, ClientStep(t)
    PROVE  BarrierInv' /\ SubmitsStartTogether'
<1> USE DEF TypeOK, BarrierInv, SubmitsStartTogether
<1> t \in Clients /\ clients \subseteq Clients
  OBVIOUS
<1>0. UNCHANGED clients /\ (Concurrent' <=> Concurrent)
  BY DEF ClientStep, Connect, ConnectFails, Negotiate, ArriveAtBarrier, LeaveBarrier,
         FindBarrierBroken, BarrierTimesOut, Submit, Disconnect, HungUp, ExchangeFails,
         ReceiveEvent, RefuseEvent, SetAside, CancelAccepted, DrainEvent, DrainRefused, Drained,
         Return, Concurrent
<1> USE <1>0
<1>1. CASE Connect(t) \/ ConnectFails(t)
  BY <1>1 DEF Connect, ConnectFails
<1>2. CASE Negotiate(t)
  <2>1. CASE Concurrent
    BY <1>2, <2>1 DEF Negotiate
  <2>2. CASE ~Concurrent
    <3>1. clients = {t}
      BY <2>2
    <3>2. negotiated' = clients
      BY <1>2, <3>1 DEF Negotiate
    <3> QED
      BY <1>2, <2>2, <3>1, <3>2 DEF Negotiate
  <2> QED
    BY <2>1, <2>2
<1>3. CASE ArriveAtBarrier(t)
  <2>1. CASE waiting \cup {t} = clients
    <3>1. negotiated = clients
      BY <1>3, <2>1 DEF ArriveAtBarrier
    <3> QED
      BY <1>3, <2>1, <3>1 DEF ArriveAtBarrier
  <2>2. CASE waiting \cup {t} # clients
    BY <1>3, <2>2, SMTT(30) DEF ArriveAtBarrier
  <2> QED
    BY <2>1, <2>2
<1>4. CASE LeaveBarrier(t)
  BY <1>4 DEF LeaveBarrier
<1>5. CASE FindBarrierBroken(t) \/ BarrierTimesOut(t)
  BY <1>5 DEF FindBarrierBroken, BarrierTimesOut
<1>6. CASE Submit(t) \/ Disconnect(t) \/ HungUp(t)
  BY <1>6 DEF Submit, Disconnect, HungUp
<1>7. CASE ExchangeFails(t) \/ RefuseEvent(t) \/ DrainRefused(t)
  BY <1>7, SMTT(30) DEF ExchangeFails, RefuseEvent, DrainRefused, Talking, Streaming
<1>8. CASE ReceiveEvent(t)
  <2>1. pc[t] = "stream" /\ \E p \in {"cancel", "stream"} : pc' = [pc EXCEPT ![t] = p]
    BY <1>8 DEF ReceiveEvent, Streaming
  <2> QED
    BY <1>8, <2>1 DEF ReceiveEvent
<1>9. CASE SetAside(t) \/ DrainEvent(t)
  BY <1>9 DEF SetAside, DrainEvent
<1>10. CASE CancelAccepted(t) \/ Drained(t) \/ Return(t)
  BY <1>10 DEF CancelAccepted, Drained, Return
<1> QED
  BY <1>1, <1>2, <1>3, <1>4, <1>5, <1>6, <1>7, <1>8, <1>9, <1>10 DEF ClientStep

\* A client's socket and exception follow where it is, and a client moves only
\* while main is joining.
LEMMA ClientThreads ==
    ASSUME TypeOK, ThreadsInv, NEW t \in clients, ClientStep(t)
    PROVE  ThreadsInv'
<1> USE DEF TypeOK
<1> t \in Clients /\ clients \subseteq Clients
  OBVIOUS
<1>0. UNCHANGED clients /\ UNCHANGED mainVars /\ pc[t] \notin {"idle", "returned", "raised"}
  BY DEF ClientStep, Connect, ConnectFails, Negotiate, ArriveAtBarrier, LeaveBarrier,
         FindBarrierBroken, BarrierTimesOut, Submit, Disconnect, HungUp, ExchangeFails,
         ReceiveEvent, RefuseEvent, SetAside, CancelAccepted, DrainEvent, DrainRefused, Drained,
         Return, Streaming, Talking
<1>1. main = "joining" /\ raised = NoError
  BY <1>0 DEF ThreadsInv
<1> SUFFICES \A u \in clients : /\ u \in open' <=> pc'[u] \in Connected
                                /\ error'[u] # NoError <=> pc'[u] = "raised"
  BY <1>0, <1>1 DEF ThreadsInv
<1>2. \A u \in clients : /\ u \in open <=> pc[u] \in Connected
                         /\ error[u] # NoError <=> pc[u] = "raised"
  BY DEF ThreadsInv
<1> USE <1>0, <1>2
<1>3. CASE Connect(t) \/ ConnectFails(t) \/ Negotiate(t)
  BY <1>3 DEF Connect, ConnectFails, Negotiate
<1>4. CASE ArriveAtBarrier(t) \/ LeaveBarrier(t)
  BY <1>4 DEF ArriveAtBarrier, LeaveBarrier
<1>5. CASE FindBarrierBroken(t) \/ BarrierTimesOut(t)
  BY <1>5 DEF FindBarrierBroken, BarrierTimesOut
<1>6. CASE Submit(t) \/ Disconnect(t) \/ HungUp(t)
  BY <1>6 DEF Submit, Disconnect, HungUp
<1>7. CASE ExchangeFails(t) \/ RefuseEvent(t) \/ DrainRefused(t)
  BY <1>7 DEF ExchangeFails, RefuseEvent, DrainRefused
<1>8. CASE ReceiveEvent(t)
  <2>1. pc[t] = "stream" /\ \E p \in {"cancel", "stream"} : pc' = [pc EXCEPT ![t] = p]
    BY <1>8 DEF ReceiveEvent, Streaming
  <2> QED
    BY <1>8, <2>1 DEF ReceiveEvent
<1>9. CASE SetAside(t) \/ DrainEvent(t)
  BY <1>9 DEF SetAside, DrainEvent
<1>10. CASE CancelAccepted(t) \/ Drained(t) \/ Return(t)
  BY <1>10 DEF CancelAccepted, Drained, Return
<1> QED
  BY <1>3, <1>4, <1>5, <1>6, <1>7, <1>8, <1>9, <1>10 DEF ClientStep

\* What a request has read and cancelled stays in step with where it is, and its
\* stream stays well formed.
LEMMA ClientStream ==
    ASSUME TypeOK, EventInv, StreamIsWellFormed, NEW t \in clients, ClientStep(t)
    PROVE  EventInv' /\ StreamIsWellFormed'
<1> USE DEF TypeOK
<1> t \in Clients /\ clients \subseteq Clients
  OBVIOUS
<1>0. UNCHANGED caseVars /\ pc[t] \notin {"idle", "returned", "raised"}
  BY DEF ClientStep, Connect, ConnectFails, Negotiate, ArriveAtBarrier, LeaveBarrier,
         FindBarrierBroken, BarrierTimesOut, Submit, Disconnect, HungUp, ExchangeFails,
         ReceiveEvent, RefuseEvent, SetAside, CancelAccepted, DrainEvent, DrainRefused, Drained,
         Return, Streaming, Talking
<1>1. EventOf(t)
  BY DEF EventInv
<1>2. ASSUME EventOf(t)', \A u \in clients : u # t =>
               /\ pc'[u] = pc[u] /\ outputs'[u] = outputs[u]
               /\ terminal'[u] = terminal[u] /\ cancelled'[u] = cancelled[u]
      PROVE  EventInv'
  <2>1. ASSUME NEW u \in clients, u # t PROVE EventOf(u)'
    <3>1. EventOf(u)
      BY DEF EventInv
    <3>2. /\ pc'[u] = pc[u] /\ outputs'[u] = outputs[u] /\ event' = event
          /\ terminal'[u] = terminal[u] /\ cancelled'[u] = cancelled[u]
      BY <1>0, <1>2, <2>1
    <3> QED
      BY ONLY <3>1, <3>2 DEF EventOf
  <2> QED
    BY <1>0, <1>2, <2>1 DEF EventInv
<1>3. ASSUME UNCHANGED streamVars, NEW p, pc' = [pc EXCEPT ![t] = p], EventOf(t)'
      PROVE  EventInv' /\ StreamIsWellFormed'
  <2>1. StreamIsWellFormed'
    BY <1>0, <1>3 DEF StreamIsWellFormed, NextSequence
  <2> QED
    BY <1>2, <1>3, <2>1
<1>4. CASE Connect(t) \/ Negotiate(t) \/ ArriveAtBarrier(t) \/ LeaveBarrier(t)
  <2>1. UNCHANGED streamVars /\ pc[t] \in Before
          /\ \E p \in Before : pc' = [pc EXCEPT ![t] = p]
    BY <1>4 DEF Connect, Negotiate, ArriveAtBarrier, LeaveBarrier
  <2>2. EventOf(t)'
    BY <1>1, <2>1 DEF EventOf
  <2> QED
    BY <1>3, <2>1, <2>2
<1>5. CASE \/ ConnectFails(t) \/ FindBarrierBroken(t) \/ BarrierTimesOut(t) \/ ExchangeFails(t)
           \/ RefuseEvent(t) \/ DrainRefused(t)
  <2>1. UNCHANGED streamVars /\ pc' = [pc EXCEPT ![t] = "raised"]
    BY <1>5 DEF ConnectFails, FindBarrierBroken, BarrierTimesOut, ExchangeFails, RefuseEvent,
                DrainRefused
  <2>2. EventOf(t)'
    BY <2>1 DEF EventOf
  <2> QED
    BY <1>3, <2>1, <2>2
<1>6. CASE Submit(t)
  <2>1. UNCHANGED streamVars /\ pc[t] = "submit"
          /\ pc' = [pc EXCEPT ![t] = CASE event = "disconnect" -> "disconnect"
                                       [] event = "backpressure_timeout" -> "stall"
                                       [] event = "cancel_before_receipt" -> "cancel"
                                       [] OTHER -> "stream"]
    BY <1>6 DEF Submit
  <2>2. EventOf(t)'
    BY <1>0, <1>1, <2>1 DEF EventOf
  <2> QED
    BY <1>3, <2>1, <2>2
<1>7. CASE Disconnect(t) \/ HungUp(t) \/ Return(t)
  <2>1. /\ UNCHANGED streamVars /\ pc' = [pc EXCEPT ![t] = "returned"]
        /\ pc[t] \in {"disconnect", "stall"} \/ (pc[t] = "stream" /\ terminal[t])
    BY <1>7 DEF Disconnect, HungUp, Return
  <2>2. EventOf(t)'
    BY <1>0, <1>1, <2>1 DEF EventOf
  <2> QED
    BY <1>3, <2>1, <2>2
<1>8. CASE Drained(t)
  <2>1. UNCHANGED streamVars /\ pc[t] = "drain" /\ pc' = [pc EXCEPT ![t] = "stream"]
    BY <1>8 DEF Drained
  <2>2. EventOf(t)'
    BY <1>0, <1>1, <2>1 DEF EventOf
  <2> QED
    BY <1>3, <2>1, <2>2
<1>9. CASE SetAside(t) \/ CancelAccepted(t)
  <2>1. StreamIsWellFormed'
    BY <1>0, <1>9 DEF StreamIsWellFormed, NextSequence, SetAside, CancelAccepted
  <2>2. EventOf(t)'
    BY <1>0, <1>1, <1>9 DEF EventOf, SetAside, CancelAccepted
  <2>3. EventInv'
    BY <1>2, <1>9, <2>2 DEF SetAside, CancelAccepted
  <2> QED
    BY <2>1, <2>3
<1>10. CASE ReceiveEvent(t)
  <2>1. PICK f \in Frames :
          /\ Accepts(t, f) /\ AppendEvent(t, f)
          /\ pc' = [pc EXCEPT ![t] = IF event = "cancel_after_receipt" /\ ~cancelled[t]
                                         /\ outputs'[t] # <<>>
                                       THEN "cancel" ELSE "stream"]
    BY <1>10 DEF ReceiveEvent
  <2>2. /\ StreamIsWellFormed' /\ pc[t] = "stream" /\ UNCHANGED cancelled
        /\ \A u \in clients : u # t => outputs'[u] = outputs[u] /\ terminal'[u] = terminal[u]
        /\ outputs[t] # <<>> => outputs'[t] # <<>>
    BY <1>10, <2>1, EventFacts DEF ReceiveEvent, Streaming
  <2>3. EventOf(t)'
    BY <1>0, <1>1, <2>1, <2>2 DEF EventOf
  <2> QED
    BY <1>2, <2>1, <2>2, <2>3
<1>11. CASE DrainEvent(t)
  <2>1. Head(intervening[t]) \in Frames
    BY <1>11 DEF DrainEvent
  <2>2. /\ StreamIsWellFormed' /\ pc[t] = "drain" /\ UNCHANGED <<pc, cancelled>>
        /\ \A u \in clients : u # t => outputs'[u] = outputs[u] /\ terminal'[u] = terminal[u]
        /\ outputs[t] # <<>> => outputs'[t] # <<>>
    BY <1>11, <2>1, EventFacts DEF DrainEvent
  <2>3. EventOf(t)'
    BY <1>0, <1>1, <2>2 DEF EventOf
  <2> QED
    BY <1>2, <2>2, <2>3
<1> QED
  BY <1>4, <1>5, <1>6, <1>7, <1>8, <1>9, <1>10, <1>11 DEF ClientStep

\* The main thread starts the clients and joins them.
LEMMA MainKeeps ==
    ASSUME IndInv, MainStep
    PROVE  IndInv'
<1>0. TypeOK /\ BarrierInv /\ SubmitsStartTogether /\ ThreadsInv /\ EventInv
        /\ StreamIsWellFormed
  BY DEF IndInv
<1>1. UNCHANGED <<caseVars, streamVars, barrierVars, open, negotiated, error>>
  BY DEF MainStep, StartClients, BaselineFails, JoinFails, JoinSucceeds, MeasurementFails
<1>2. StreamIsWellFormed'
  BY <1>0, <1>1 DEF StreamIsWellFormed, NextSequence
<1>3. Concurrent' <=> Concurrent
  BY <1>1 DEF Concurrent
<1>4. CASE StartClients
  <2>1. main = "baselines" /\ main' = "joining" /\ UNCHANGED raised
    BY <1>4 DEF StartClients
  <2>2. \A t \in clients : pc[t] = "idle"
    BY <1>0, <2>1 DEF ThreadsInv
  <2>3. /\ \A t \in clients : pc'[t] = "connect"
        /\ pc' \in [Clients -> Places]
    BY <1>0, <1>4 DEF StartClients, TypeOK
  <2>4. TypeOK'
    BY <1>0, <1>1, <2>1, <2>3 DEF TypeOK
  <2>5. BarrierInv' /\ SubmitsStartTogether'
    BY <1>0, <1>1, <1>3, <2>2, <2>3 DEF BarrierInv, SubmitsStartTogether
  <2>6. ThreadsInv'
    BY <1>0, <1>1, <2>1, <2>2, <2>3 DEF ThreadsInv
  <2>7. EventInv'
    BY <1>0, <1>1, <2>2, <2>3 DEF EventInv, EventOf
  <2> QED
    BY <1>2, <2>4, <2>5, <2>6, <2>7 DEF IndInv
<1>5. CASE ~StartClients
  <2>1. UNCHANGED pc
    BY <1>5 DEF MainStep, BaselineFails, JoinFails, JoinSucceeds, MeasurementFails
  <2>2. TypeOK'
    BY <1>0, <1>1, <1>5, <2>1
       DEF TypeOK, MainStep, BaselineFails, JoinFails, JoinSucceeds, MeasurementFails
  <2>3. BarrierInv' /\ SubmitsStartTogether'
    BY <1>0, <1>1, <1>3, <2>1 DEF BarrierInv, SubmitsStartTogether
  <2>a. EventInv'
    BY <1>0, <1>1, <2>1 DEF EventInv, EventOf
  <2>4. ThreadsInv'
    <3> USE <1>0, <1>1, <2>1 DEF ThreadsInv
    <3>1. CASE BaselineFails
      BY <3>1 DEF BaselineFails
    <3>2. CASE JoinFails
      <4>1. PICK e \in Causes \cup {Barrier} : RootError(e) /\ raised' = e
        BY <3>2 DEF JoinFails
      <4>2. e = Barrier => \A t \in clients : error[t] \in {NoError, Barrier}
        BY <4>1 DEF RootError, Failed
      <4> QED
        BY <3>2, <4>1, <4>2 DEF JoinFails, Ended
    <3>3. CASE JoinSucceeds
      BY <3>3 DEF JoinSucceeds, Ended, Failed
    <3>4. CASE MeasurementFails
      BY <3>4 DEF MeasurementFails, Ended
    <3> QED
      BY <1>5, <3>1, <3>2, <3>3, <3>4 DEF MainStep
  <2> QED
    BY <1>2, <2>2, <2>3, <2>a, <2>4 DEF IndInv
<1> QED
  BY <1>4, <1>5

\* Every step keeps the inductive invariant.
LEMMA StepInv == IndInv /\ [Next]_vars => IndInv'
<1> SUFFICES ASSUME IndInv, [Next]_vars PROVE IndInv'
  OBVIOUS
<1>1. CASE MainStep
  BY <1>1, MainKeeps
<1>2. ASSUME NEW t \in clients, ClientStep(t) PROVE IndInv'
  BY <1>2, ClientType, ClientBarrier, ClientThreads, ClientStream DEF IndInv
<1>3. CASE Terminated \/ UNCHANGED vars
  <2> USE <1>3 DEF Terminated, vars, IndInv
  <2>1. TypeOK'
    BY DEF TypeOK
  <2>2. BarrierInv' /\ SubmitsStartTogether'
    BY DEF BarrierInv, SubmitsStartTogether, Concurrent
  <2>3. ThreadsInv'
    BY DEF ThreadsInv
  <2>4. EventInv' /\ StreamIsWellFormed'
    BY DEF EventInv, EventOf, StreamIsWellFormed, NextSequence
  <2> QED
    BY <2>1, <2>2, <2>3, <2>4
<1> QED
  BY <1>1, <1>2, <1>3 DEF Next

\* The inductive invariant holds throughout.
LEMMA Invariance == Spec => []IndInv
<1> QED
  BY InitInv, StepInv, PTL DEF Spec

-----------------------------------------------------------------------------
(* Theorems. *)

\* Every variable of the case and its requests keeps its type.
THEOREM TypeCorrect == Spec => []TypeOK
<1>1. IndInv => TypeOK
  BY DEF IndInv
<1> QED
  BY <1>1, Invariance, PTL

\* However many requests run together, none is submitted before every one of them
\* has connected and negotiated (start_barrier in run_generation), even if the
\* barrier breaks, times out or drains slowly.
THEOREM StartTogether == Spec => []SubmitsStartTogether
<1>1. IndInv => SubmitsStartTogether
  BY DEF IndInv
<1> QED
  BY <1>1, Invariance, PTL

\* A case that is over has the root cause of its failure or the complete, well
\* formed evidence of every request, and no socket is left open.
THEOREM SettledCases == Spec => []CaseSettled
<1>1. ASSUME IndInv PROVE CaseSettled
  <2>1. main \in {"returned", "raised"} => open = {}
    BY <1>1 DEF IndInv, TypeOK, ThreadsInv
  <2>2. ReturnsAreTerminal
    BY <1>1 DEF IndInv, EventInv, EventOf, ReturnsAreTerminal
  <2> QED
    BY <1>1, <2>1, <2>2 DEF IndInv, ThreadsInv, CaseSettled
<1> QED
  BY <1>1, Invariance, PTL
=============================================================================
