------------------------------- MODULE DataPlane -------------------------------
(***************************************************************************)
(* The Benchmark's own requests to the production Data Plane.  Each client  *)
(* is a thread in run_generation: connect and negotiate, meet the others at *)
(* a barrier, submit, then read Status Updates and Output Frames until the  *)
(* terminal status, cancelling or dropping the connection on the way if the *)
(* case asks for it.  The request-serving lane runs one client, the cross-  *)
(* model lane two in a thread pool, whose futures run_cross_model_case      *)
(* joins in order to find the root cause of a failure.                      *)
(*                                                                         *)
(* The server is the system under test: every frame a client reads is       *)
(* arbitrary, and it may stall or hang up at any point.                     *)
(***************************************************************************)
EXTENDS Naturals, Sequences, FiniteSets

CONSTANTS
    Clients,       \* the concurrent requests; a case has all of them or one
    ClientEvents,  \* what the case has the client do to its request
    MaxReceive,    \* bound of the receive loops (100,000 and 10,000 in the code)
    MaxVersion,    \* status versions the server uses
    MaxSequence    \* output sequences the server uses

ASSUME ClientAssumption ==
    /\ IsFiniteSet(Clients) /\ Clients # {}
    /\ ClientEvents \subseteq {"none", "disconnect", "backpressure_timeout",
                               "cancel_before_receipt", "cancel_after_receipt"}
    /\ {MaxReceive, MaxVersion, MaxSequence} \subseteq Nat

\* Command IDs: the submit is the connection's first, the cancel its second.
SubmitCommand == 1
CancelCommand == 2

\* ServerFrames after the handshake.  An unsound status has an unknown enum, a
\* terminal flag that disagrees with its state, or materialises without
\* resources; "foreign" is another request's event or another kind of frame.
Directs == [kind : {"direct"}, command : {SubmitCommand, CancelCommand},
            response : {"accepted", "cancelled", "error"}]
Statuses == [kind : {"status"}, version : 1..MaxVersion, terminal : BOOLEAN,
             sound : BOOLEAN]
Outputs == [kind : {"output"}, sequence : 0..MaxSequence, tokens : 0..2]
Frames == Directs \cup Statuses \cup Outputs \cup {[kind |-> "foreign"]}

NoError == "none"
Barrier == "broken_barrier"
Causes == {"contract", "environment"}   \* ContractError, DataPlaneEnvironmentError

VARIABLES
    clients,     \* the requests of the case: several with a barrier, or one
    event,       \* client_event of the case
    pc,          \* per client: where run_generation is
    open,        \* clients whose socket is open
    negotiated,  \* clients that have finished the handshake
    versions,    \* per client: status_versions
    outputs,     \* per client: the Output Frames appended
    terminal,    \* per client: a terminal status was appended
    intervening, \* per client: events read while waiting for the cancellation
    cancelled,   \* per client: cancellation is not None
    received,    \* per client: frames read since the submit
    error,       \* per client: the exception that left run_generation
    barrier,     \* filling | draining | broken
    waiting,     \* clients waiting at the barrier
    main,        \* run_cross_model_case
    raised       \* the error it raises

streamVars  == <<versions, outputs, terminal, intervening, cancelled, received>>
barrierVars == <<barrier, waiting>>
mainVars    == <<main, raised>>
caseVars    == <<clients, event>>
vars == <<caseVars, pc, open, negotiated, streamVars, error, barrierVars, mainVars>>

Each(v) == [t \in Clients |-> v]
Concurrent == Cardinality(clients) > 1    \* start_barrier is not None

Init ==
    /\ clients \in {Clients, {CHOOSE t \in Clients : TRUE}}
    /\ event \in IF Concurrent THEN {"none"} ELSE ClientEvents
    /\ pc = Each("idle") /\ open = {} /\ negotiated = {}
    /\ versions = Each(<<>>) /\ outputs = Each(<<>>) /\ terminal = Each(FALSE)
    /\ intervening = Each(<<>>) /\ cancelled = Each(FALSE) /\ received = Each(0)
    /\ error = Each(NoError)
    /\ barrier = "filling" /\ waiting = {}
    /\ main = "baselines" /\ raised = NoError

Goto(t, p) == pc' = [pc EXCEPT ![t] = p]

-----------------------------------------------------------------------------
(* run_cross_model_case. *)

\* The uncontended baselines succeed; the pool starts.  (The request-serving
\* lane calls run_generation without them.)
StartClients ==
    /\ main = "baselines"
    /\ main' = "joining" /\ pc' = [t \in Clients |-> IF t \in clients THEN "connect" ELSE "idle"]
    /\ UNCHANGED <<caseVars, open, negotiated, streamVars, error, barrierVars, raised>>

BaselineFails ==
    /\ main = "baselines" /\ Concurrent
    /\ main' = "raised" /\ raised' \in Causes
    /\ UNCHANGED <<caseVars, pc, open, negotiated, streamVars, error, barrierVars>>

Ended(t) == pc[t] \in {"returned", "raised"}
Failed == {t \in clients : error[t] # NoError}

\* root_error: the first that is not a BrokenBarrierError, else the first.
RootError(e) ==
    /\ \E t \in Failed : e = error[t]
    /\ e = Barrier => \A t \in Failed : error[t] = Barrier

\* Every future is joined before the errors are looked at.
JoinFails ==
    /\ main = "joining" /\ \A t \in clients : Ended(t)
    /\ \E e \in Causes \cup {Barrier} : RootError(e) /\ raised' = e
    /\ main' = "raised"
    /\ UNCHANGED <<caseVars, pc, open, negotiated, streamVars, error, barrierVars>>

\* Two concurrent requests are compared by their first output and by the gaps
\* between outputs: each must have an output, and one of them a gap.
Measurable ==
    Concurrent => /\ \A t \in clients : outputs[t] # <<>>
                  /\ \E t \in clients : Len(outputs[t]) > 1

JoinSucceeds ==
    /\ main = "joining" /\ \A t \in clients : Ended(t)
    /\ Failed = {} /\ Measurable
    /\ main' = "returned"
    /\ UNCHANGED <<caseVars, pc, open, negotiated, streamVars, error, barrierVars, raised>>

\* Nothing to measure, or a time that is not positive.
MeasurementFails ==
    /\ main = "joining" /\ \A t \in clients : Ended(t)
    /\ Failed = {} /\ Concurrent
    /\ main' = "raised" /\ raised' = "contract"
    /\ UNCHANGED <<caseVars, pc, open, negotiated, streamVars, error, barrierVars>>

-----------------------------------------------------------------------------
(* run_generation. *)

\* The except and finally clauses: abort the barrier, close, re-raise.
Raise(t, e) ==
    /\ Goto(t, "raised") /\ error' = [error EXCEPT ![t] = e]
    /\ open' = open \ {t}
    /\ barrier' = IF Concurrent THEN "broken" ELSE barrier
    /\ UNCHANGED waiting

Connect(t) ==
    /\ pc[t] = "connect"
    /\ open' = open \cup {t} /\ Goto(t, "negotiate")
    /\ UNCHANGED <<caseVars, negotiated, streamVars, error, barrierVars, mainVars>>

ConnectFails(t) ==
    /\ pc[t] = "connect"
    /\ Raise(t, "environment")
    /\ UNCHANGED <<caseVars, negotiated, streamVars, mainVars>>

\* Mutation: no client waits for another.
NegotiateAndGo(t) ==
    /\ pc[t] = "negotiate"
    /\ negotiated' = negotiated \cup {t}
    /\ Goto(t, "submit")
    /\ UNCHANGED <<caseVars, open, streamVars, error, barrierVars, mainVars>>

\* HelloAck selects the locked protocol within the offered limits.
Negotiate(t) ==
    /\ pc[t] = "negotiate"
    /\ negotiated' = negotiated \cup {t}
    /\ Goto(t, IF Concurrent THEN "barrier" ELSE "submit")
    /\ UNCHANGED <<caseVars, open, streamVars, error, barrierVars, mainVars>>

\* threading.Barrier.wait: the last to arrive releases the others.
ArriveAtBarrier(t) ==
    /\ pc[t] = "barrier" /\ barrier = "filling"
    /\ IF waiting \cup {t} = clients
         THEN /\ Goto(t, "submit") /\ barrier' = "draining"
              /\ UNCHANGED waiting
         ELSE /\ Goto(t, "waiting") /\ waiting' = waiting \cup {t}
              /\ UNCHANGED barrier
    /\ UNCHANGED <<caseVars, open, negotiated, streamVars, error, mainVars>>

LeaveBarrier(t) ==
    /\ pc[t] = "waiting" /\ barrier = "draining"
    /\ Goto(t, "submit")
    /\ waiting' = waiting \ {t}
    /\ barrier' = IF waiting' = {} THEN "filling" ELSE "draining"
    /\ UNCHANGED <<caseVars, open, negotiated, streamVars, error, mainVars>>

\* The barrier broke before this client came, while it waited, or while it
\* was about to leave.
FindBarrierBroken(t) ==
    /\ pc[t] \in {"barrier", "waiting"} /\ barrier = "broken"
    /\ Goto(t, "raised") /\ error' = [error EXCEPT ![t] = Barrier]
    /\ open' = open \ {t} /\ waiting' = waiting \ {t}
    /\ UNCHANGED <<caseVars, negotiated, streamVars, barrier, mainVars>>

\* wait(timeout=frame_timeout_seconds) expires and breaks the barrier.
BarrierTimesOut(t) ==
    /\ pc[t] = "waiting" /\ barrier = "filling"
    /\ Goto(t, "raised") /\ error' = [error EXCEPT ![t] = Barrier]
    /\ open' = open \ {t} /\ waiting' = waiting \ {t}
    /\ barrier' = "broken"
    /\ UNCHANGED <<caseVars, negotiated, streamVars, mainVars>>

\* The Submit Direct Response, before any other frame, accepts the request.
Submit(t) ==
    /\ pc[t] = "submit"
    /\ Goto(t, CASE event = "disconnect" -> "disconnect"
                 [] event = "backpressure_timeout" -> "stall"
                 [] event = "cancel_before_receipt" -> "cancel"
                 [] OTHER -> "stream")
    /\ UNCHANGED <<caseVars, open, negotiated, streamVars, error, barrierVars, mainVars>>

\* The case drops the connection.
Disconnect(t) ==
    /\ pc[t] = "disconnect"
    /\ open' = open \ {t} /\ Goto(t, "returned")
    /\ UNCHANGED <<caseVars, negotiated, streamVars, error, barrierVars, mainVars>>

\* expect_backpressure_disconnect: the stalled client is hung up on.
HungUp(t) ==
    /\ pc[t] = "stall"
    /\ open' = open \ {t} /\ Goto(t, "returned")
    /\ UNCHANGED <<caseVars, negotiated, streamVars, error, barrierVars, mainVars>>

Talking == {"negotiate", "submit", "stall", "stream", "cancel"}

\* Mutation: no timeout and no bound on the event stream.
SetupFails(t) ==
    /\ pc[t] \in Talking \ {"stream"}
    /\ \E e \in Causes : Raise(t, e)
    /\ UNCHANGED <<caseVars, negotiated, streamVars, mainVars>>

\* A read or write of the socket fails, a frame is malformed, the handshake,
\* the submit or the stall is answered wrongly, or a loop reaches its bound.
ExchangeFails(t) ==
    /\ pc[t] \in Talking
    /\ \E e \in Causes : Raise(t, e)
    /\ UNCHANGED <<caseVars, negotiated, streamVars, mainVars>>

\* _append_event: what it refuses, and what it keeps.  A Direct Response is
\* skipped.
NextSequence(t) ==
    IF outputs[t] = <<>> THEN 0
    ELSE LET last == outputs[t][Len(outputs[t])] IN last.sequence + last.tokens

Accepts(t, f) ==
    CASE f.kind = "direct" -> TRUE
      [] f.kind = "status" ->
           /\ f.sound /\ f.version > 1
           /\ versions[t] # <<>> => f.version > versions[t][Len(versions[t])]
      [] f.kind = "output" -> f.tokens > 0 /\ f.sequence = NextSequence(t)
      [] OTHER -> FALSE

AppendEvent(t, f) ==
    /\ versions' = IF f.kind = "status" THEN [versions EXCEPT ![t] = Append(@, f.version)]
                                        ELSE versions
    /\ outputs' = IF f.kind = "output" THEN [outputs EXCEPT ![t] = Append(@, f)] ELSE outputs
    /\ terminal' = [terminal EXCEPT ![t] = @ \/ (f.kind = "status" /\ f.terminal)]

\* The receive loop stops at the terminal status and at its bound.
Streaming(t) == pc[t] = "stream" /\ ~terminal[t] /\ received[t] < MaxReceive

\* One turn of the loop: the first output makes a cancel_after_receipt client
\* cancel.
ReceiveEvent(t) ==
    /\ Streaming(t)
    /\ \E f \in Frames :
         /\ Accepts(t, f)
         /\ AppendEvent(t, f)
         /\ Goto(t, IF event = "cancel_after_receipt" /\ ~cancelled[t] /\ outputs'[t] # <<>>
                      THEN "cancel" ELSE "stream")
    /\ received' = [received EXCEPT ![t] = @ + 1]
    /\ UNCHANGED <<caseVars, open, negotiated, intervening, cancelled, error, barrierVars, mainVars>>

RefuseEvent(t) ==
    /\ Streaming(t)
    /\ \E f \in Frames : ~Accepts(t, f)
    /\ Raise(t, "contract")
    /\ UNCHANGED <<caseVars, negotiated, streamVars, mainVars>>

\* cancel(): events that precede the Direct Response are put aside unread.
SetAside(t) ==
    /\ pc[t] = "cancel" /\ received[t] < MaxReceive
    /\ \E f \in Frames :
         /\ f.kind # "direct"
         /\ intervening' = [intervening EXCEPT ![t] = Append(@, f)]
    /\ received' = [received EXCEPT ![t] = @ + 1]
    /\ UNCHANGED <<caseVars, pc, open, negotiated, versions, outputs, terminal, cancelled, error,
                   barrierVars, mainVars>>

\* CancellationAccepted for this very command; any other Direct Response
\* raises (ExchangeFails).
CancelAccepted(t) ==
    /\ pc[t] = "cancel"
    /\ cancelled' = [cancelled EXCEPT ![t] = TRUE]
    /\ Goto(t, "drain")
    /\ UNCHANGED <<caseVars, open, negotiated, versions, outputs, terminal, intervening, received,
                   error, barrierVars, mainVars>>

\* Mutation: what was put aside is recorded without being checked.
DrainUnchecked(t) ==
    /\ pc[t] = "drain" /\ intervening[t] # <<>>
    /\ AppendEvent(t, Head(intervening[t]))
    /\ intervening' = [intervening EXCEPT ![t] = Tail(@)]
    /\ UNCHANGED <<caseVars, pc, open, negotiated, cancelled, received, error, barrierVars,
                   mainVars>>

\* The events put aside are then appended in order, like any other.
DrainEvent(t) ==
    /\ pc[t] = "drain" /\ intervening[t] # <<>>
    /\ Accepts(t, Head(intervening[t]))
    /\ AppendEvent(t, Head(intervening[t]))
    /\ intervening' = [intervening EXCEPT ![t] = Tail(@)]
    /\ UNCHANGED <<caseVars, pc, open, negotiated, cancelled, received, error, barrierVars,
                   mainVars>>

DrainRefused(t) ==
    /\ pc[t] = "drain" /\ intervening[t] # <<>>
    /\ ~Accepts(t, Head(intervening[t]))
    /\ Raise(t, "contract")
    /\ UNCHANGED <<caseVars, negotiated, streamVars, mainVars>>

Drained(t) ==
    /\ pc[t] = "drain" /\ intervening[t] = <<>>
    /\ Goto(t, "stream")
    /\ UNCHANGED <<caseVars, open, negotiated, streamVars, error, barrierVars, mainVars>>

\* The loop has ended at the terminal status; the socket is closed.
Return(t) ==
    /\ pc[t] = "stream" /\ terminal[t]
    /\ open' = open \ {t} /\ Goto(t, "returned")
    /\ UNCHANGED <<caseVars, negotiated, streamVars, error, barrierVars, mainVars>>

ClientStep(t) ==
    \/ Connect(t) \/ ConnectFails(t) \/ Negotiate(t)
    \/ ArriveAtBarrier(t) \/ LeaveBarrier(t) \/ FindBarrierBroken(t) \/ BarrierTimesOut(t)
    \/ Submit(t) \/ Disconnect(t) \/ HungUp(t) \/ ExchangeFails(t)
    \/ ReceiveEvent(t) \/ RefuseEvent(t)
    \/ SetAside(t) \/ CancelAccepted(t) \/ DrainEvent(t) \/ DrainRefused(t) \/ Drained(t)
    \/ Return(t)

MainStep == StartClients \/ BaselineFails \/ JoinFails \/ JoinSucceeds \/ MeasurementFails

Terminated == main \in {"returned", "raised"} /\ UNCHANGED vars

Next == MainStep \/ (\E t \in clients : ClientStep(t)) \/ Terminated

\* Every socket operation and the barrier have timeouts and the loops have
\* bounds, so each thread goes on; nothing is assumed of the server.
Spec == Init /\ [][Next]_vars /\ WF_vars(MainStep) /\ \A t \in Clients : WF_vars(ClientStep(t))

-----------------------------------------------------------------------------
(* Properties. *)

\* The evidence of a request is a well-formed stream whichever way its events
\* were read: versions strictly increase from above 1, and the outputs carry
\* every position from zero exactly once (_append_event, cancel).
StreamIsWellFormed ==
    \A t \in clients :
        /\ \A i \in DOMAIN versions[t] :
              versions[t][i] > (IF i = 1 THEN 1 ELSE versions[t][i - 1])
        /\ \A i \in DOMAIN outputs[t] :
              /\ outputs[t][i].tokens > 0
              /\ \A j \in 1..(i - 1) :
                    outputs[t][j].sequence + outputs[t][j].tokens <= outputs[t][i].sequence
        /\ outputs[t] # <<>> => outputs[t][1].sequence = 0
        /\ \A p \in 0..(NextSequence(t) - 1) : \E i \in DOMAIN outputs[t] :
              p \in outputs[t][i].sequence ..
                      (outputs[t][i].sequence + outputs[t][i].tokens - 1)

\* A request that returns saw its terminal status, unless the case dropped the
\* connection, and was cancelled exactly if the case asks for it and there was
\* something to cancel (run_generation).
ReturnsAreTerminal ==
    \A t \in clients : pc[t] = "returned" =>
        /\ terminal[t] <=> event \notin {"disconnect", "backpressure_timeout"}
        /\ event = "cancel_before_receipt" => cancelled[t]
        /\ event = "cancel_after_receipt" => (cancelled[t] <=> outputs[t] # <<>>)

\* Concurrent requests start together: none is submitted before all have
\* connected and negotiated, so set-up is never part of the measurement.
SubmitsStartTogether ==
    \A t \in clients :
        pc[t] \in {"submit", "disconnect", "stall", "stream", "cancel", "drain", "returned"} =>
            negotiated = clients

\* A case that is over is settled: a failure is reported as its cause, with
\* BrokenBarrierError only if no client failed for another reason; a case that
\* returns has every client's evidence, well formed and terminal; and no socket
\* is left open (run_cross_model_case, the finally clause of run_generation).
CaseSettled ==
    /\ raised = Barrier => \A t \in clients : error[t] \in {NoError, Barrier}
    /\ main = "returned" => \A t \in clients : pc[t] = "returned"
    /\ main \in {"returned", "raised"} => open = {}
    /\ StreamIsWellFormed /\ ReturnsAreTerminal

\* Every case ends, however the server behaves and whichever client fails.
CaseEnds == <>(main \in {"returned", "raised"})
=============================================================================
