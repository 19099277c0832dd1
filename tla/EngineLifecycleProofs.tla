------------------------ MODULE EngineLifecycleProofs ------------------------
(***************************************************************************)
(* Proofs, for any number of attempts, that client and adapter stay in      *)
(* step, that the controller only makes legal requests, that a clean        *)
(* attempt leaves no target, and whose answers a scenario can measure.      *)
(***************************************************************************)
EXTENDS EngineLifecycle, TLAPS

USE DEF Attempts, States, Kinds

\* The client's machine is where the next request of the controller needs it.
PcInv ==
    ~failed =>
        /\ pc = "hello" => cstate = "SPAWNED"
        /\ pc = "prepare_session" => cstate = "NEGOTIATED"
        /\ pc = "start_target" => cstate = "PREPARED"
        /\ pc = "describe_endpoint" => cstate = "STARTED"
        /\ pc = "measure" => cstate = "READY"
        /\ pc = "stop_target" => cstate \in {"STARTED", "READY"}
        /\ pc = "shutdown" => cstate = "STOPPED"

\* `started' is set exactly between start_target and the end of the attempt.
StartedInv ==
    /\ pc \in {"hello", "prepare_session", "start_target"} => ~started
    /\ pc \in {"describe_endpoint", "measure", "stop_target", "shutdown"} => started
    /\ started => proc[n] # "none"

\* One request is outstanding at a time and its reply belongs to it.
ChannelInv ==
    /\ waiting # "none" => ~failed /\ waiting = pc
    /\ failed => pc \in {"stop_target", "close", "recorded"}
    /\ pc = "recorded" => aphase = "dead" /\ waiting = "none"
    /\ pc = "close" => waiting = "none"
    /\ waiting # "none" /\ request # "none" => request = waiting
    /\ aphase = "probing" => request = "start_target" /\ proc[n] # "none"
    /\ aphase = "stopping" => request = "stop_target" /\ proc[n] # "none"
    /\ aphase = "dead" => request = "none"
    /\ waiting # "none" /\ reply = "ok" /\ waiting = "start_target" => proc[n] # "none"
    /\ waiting # "none" /\ reply = "ok" /\ waiting = "stop_target" => proc[n] = "exited"

\* Where the adapter is relative to a usable client.
TrackInv ==
    ~failed /\ pc # "recorded" /\ aphase # "dead" =>
        /\ waiting = "none" =>
             cstate = astate /\ aphase = "idle" /\ reply = "none" /\ request = "none"
        /\ waiting # "none" =>
             \/ reply = "none" /\ request = waiting /\ cstate = astate
             \/ /\ reply = "ok" /\ request = "none" /\ aphase = "idle"
                /\ <<cstate, waiting, astate>> \in Transitions
             \/ reply = "error" /\ request = "none" /\ aphase = "idle" /\ cstate = astate
             \/ reply = "malformed" /\ request = "none" /\ aphase = "idle"

\* Attempts before the current one are recorded, later ones have not begun.
HistoryInv ==
    /\ \A k \in Attempts : k < n => outcome[k] # "none"
    /\ \A k \in Attempts : k > n => proc[k] = "none" /\ outcome[k] = "none" /\ measured[k] = Nobody
    /\ outcome[n] # "none" <=> pc = "recorded"
    /\ \A k \in cleanupFailed : k < n \/ (k = n /\ pc \in {"close", "recorded"})

\* The target of a clean attempt has exited by the time stop_target returned.
StoppedInv ==
    /\ pc = "shutdown" => proc[n] = "exited"
    /\ pc = "close" /\ ~raised /\ n \notin cleanupFailed => ~failed /\ proc[n] = "exited"

IndInv == /\ TypeOK /\ PcInv /\ StartedInv /\ ChannelInv /\ TrackInv /\ HistoryInv
          /\ StoppedInv /\ CleanAttemptLeavesNoTarget /\ ForeignLeadersAreLeftovers

\* The transition table stays within the states and request kinds.
LEMMA TransitionsLemma ==
    \A t \in Transitions : t[1] \in States /\ t[2] \in Kinds /\ t[3] \in States
BY DEF Transitions

\* Writing a request preserves the invariant.
LEMMA SendRequestStep == IndInv /\ SendRequest => IndInv'
<1> SUFFICES ASSUME IndInv, SendRequest PROVE IndInv'
  OBVIOUS
<1> USE DEF IndInv, SendRequest, ctlVars, clientVars, adapterVars, hostVars
<1>1. TypeOK'  BY DEF TypeOK
<1>2. PcInv'  BY DEF TypeOK, PcInv
<1>3. StartedInv'  BY DEF TypeOK, StartedInv
<1>4. ChannelInv'  BY DEF TypeOK, ChannelInv, PcInv, TrackInv, StartedInv, Transitions
<1>5. TrackInv'  BY DEF TypeOK, TrackInv
<1>6. HistoryInv'  BY DEF TypeOK, HistoryInv
<1>7. StoppedInv'  BY DEF TypeOK, StoppedInv
<1>8. CleanAttemptLeavesNoTarget'  BY DEF TypeOK, CleanAttemptLeavesNoTarget
<1>9. ForeignLeadersAreLeftovers'  BY DEF TypeOK, ForeignLeadersAreLeftovers
<1> QED BY <1>1, <1>2, <1>3, <1>4, <1>5, <1>6, <1>7, <1>8, <1>9

\* A request refused by the client or by a closed stdin preserves the invariant.
LEMMA RequestRaisesStep == IndInv /\ RequestRaises => IndInv'
<1> SUFFICES ASSUME IndInv, RequestRaises PROVE IndInv'
  OBVIOUS
<1> USE DEF IndInv, RequestRaises, Raise, Cleaning, ctlVars, clientVars, adapterVars, hostVars
<1>1. TypeOK'
  <2>1. failed' \in BOOLEAN
    OBVIOUS
  <2>2. pc' \in Kinds \cup {"measure", "close", "recorded"} /\ raised' \in BOOLEAN
        /\ cleanupFailed' \subseteq Attempts
    BY DEF TypeOK
  <2> QED BY <2>1, <2>2 DEF TypeOK
<1>2. PcInv'  BY DEF TypeOK, PcInv, ChannelInv, StartedInv
<1>3. StartedInv'  BY DEF TypeOK, StartedInv
<1>4. ChannelInv'  BY DEF TypeOK, ChannelInv
<1>5. TrackInv'  BY DEF TypeOK, TrackInv
<1>6. HistoryInv'  BY DEF TypeOK, HistoryInv
<1>7. StoppedInv'  BY DEF TypeOK, StoppedInv
<1>8. CleanAttemptLeavesNoTarget'  BY DEF TypeOK, CleanAttemptLeavesNoTarget
<1>9. ForeignLeadersAreLeftovers'  BY DEF TypeOK, ForeignLeadersAreLeftovers
<1> QED BY <1>1, <1>2, <1>3, <1>4, <1>5, <1>6, <1>7, <1>8, <1>9

\* Accepting the expected response preserves the invariant.
LEMMA AcceptResponseStep == IndInv /\ AcceptResponse => IndInv'
<1> SUFFICES ASSUME IndInv, AcceptResponse PROVE IndInv'
  OBVIOUS
<1> USE DEF IndInv, AcceptResponse, After, ctlVars, clientVars, adapterVars, hostVars
<1>1. TypeOK'  BY AttemptAssumption, TransitionsLemma DEF TypeOK
<1>2. PcInv'  BY DEF TypeOK, PcInv, ChannelInv, TrackInv, StartedInv, Transitions
<1>3. StartedInv'  BY DEF TypeOK, StartedInv, ChannelInv
<1>4. ChannelInv'  BY DEF TypeOK, ChannelInv
<1>5. TrackInv'  BY DEF TypeOK, TrackInv, ChannelInv, PcInv, StartedInv, Transitions
<1>6. HistoryInv'  BY DEF TypeOK, HistoryInv, ChannelInv
<1>7. StoppedInv'  BY DEF TypeOK, StoppedInv, ChannelInv
<1>8. CleanAttemptLeavesNoTarget'  BY DEF TypeOK, CleanAttemptLeavesNoTarget
<1>9. ForeignLeadersAreLeftovers'  BY DEF TypeOK, ForeignLeadersAreLeftovers
<1> QED BY <1>1, <1>2, <1>3, <1>4, <1>5, <1>6, <1>7, <1>8, <1>9

\* Failing the client after the machine advanced preserves the invariant.
LEMMA RejectAfterAcceptStep == IndInv /\ RejectAfterAccept => IndInv'
<1> SUFFICES ASSUME IndInv, RejectAfterAccept PROVE IndInv'
  OBVIOUS
<1> USE DEF IndInv, RejectAfterAccept, Raise, Cleaning, ctlVars, clientVars, adapterVars, hostVars
<1>1. TypeOK'  BY AttemptAssumption, TransitionsLemma, ZenonT(40) DEF TypeOK, ChannelInv
<1>2. PcInv'  BY DEF TypeOK, PcInv
<1>3. StartedInv'  BY DEF TypeOK, StartedInv
<1>4. ChannelInv'  BY DEF TypeOK, ChannelInv
<1>5. TrackInv'  BY DEF TypeOK, TrackInv
<1>6. HistoryInv'  BY DEF TypeOK, HistoryInv, ChannelInv
<1>7. StoppedInv'  BY DEF TypeOK, StoppedInv
<1>8. CleanAttemptLeavesNoTarget'  BY DEF TypeOK, CleanAttemptLeavesNoTarget
<1>9. ForeignLeadersAreLeftovers'  BY DEF TypeOK, ForeignLeadersAreLeftovers
<1> QED BY <1>1, <1>2, <1>3, <1>4, <1>5, <1>6, <1>7, <1>8, <1>9

\* An error, malformed or missing response preserves the invariant.
LEMMA ResponseRaisesStep == IndInv /\ ResponseRaises => IndInv'
<1> SUFFICES ASSUME IndInv, ResponseRaises PROVE IndInv'
  OBVIOUS
<1> USE DEF IndInv, ResponseRaises, Raise, Cleaning, ctlVars, clientVars, adapterVars, hostVars
<1>1. TypeOK'  BY AttemptAssumption, TransitionsLemma, ZenonT(40)
                   DEF TypeOK, ChannelInv, PcInv, StartedInv
<1>2. PcInv'  BY DEF TypeOK, PcInv, ChannelInv, StartedInv
<1>3. StartedInv'  BY DEF TypeOK, StartedInv
<1>4. ChannelInv'  BY DEF TypeOK, ChannelInv
<1>5. TrackInv'  BY DEF TypeOK, TrackInv, ChannelInv
<1>6. HistoryInv'  BY DEF TypeOK, HistoryInv, ChannelInv
<1>7. StoppedInv'  BY DEF TypeOK, StoppedInv
<1>8. CleanAttemptLeavesNoTarget'  BY DEF TypeOK, CleanAttemptLeavesNoTarget
<1>9. ForeignLeadersAreLeftovers'  BY DEF TypeOK, ForeignLeadersAreLeftovers
<1> QED BY <1>1, <1>2, <1>3, <1>4, <1>5, <1>6, <1>7, <1>8, <1>9

\* Giving up on a response preserves the invariant.
LEMMA RequestTimesOutStep == IndInv /\ RequestTimesOut => IndInv'
<1> SUFFICES ASSUME IndInv, RequestTimesOut PROVE IndInv'
  OBVIOUS
<1> USE DEF IndInv, RequestTimesOut, Raise, Cleaning, ctlVars, clientVars, adapterVars, hostVars
<1>1. TypeOK'  BY AttemptAssumption, TransitionsLemma, ZenonT(40)
                   DEF TypeOK, ChannelInv, PcInv, StartedInv
<1>2. PcInv'  BY DEF TypeOK, PcInv
<1>3. StartedInv'  BY DEF TypeOK, StartedInv
<1>4. ChannelInv'  BY DEF TypeOK, ChannelInv
<1>5. TrackInv'  BY DEF TypeOK, TrackInv
<1>6. HistoryInv'  BY DEF TypeOK, HistoryInv, ChannelInv
<1>7. StoppedInv'  BY DEF TypeOK, StoppedInv
<1>8. CleanAttemptLeavesNoTarget'  BY DEF TypeOK, CleanAttemptLeavesNoTarget
<1>9. ForeignLeadersAreLeftovers'  BY DEF TypeOK, ForeignLeadersAreLeftovers
<1> QED BY <1>1, <1>2, <1>3, <1>4, <1>5, <1>6, <1>7, <1>8, <1>9

\* A scenario run preserves the invariant.
LEMMA MeasureStep == IndInv /\ Measure => IndInv'
<1> SUFFICES ASSUME IndInv, Measure PROVE IndInv'
  OBVIOUS
<1> USE DEF IndInv, Measure, Listening, Alive, ctlVars, clientVars, adapterVars, hostVars
<1>1. TypeOK'
  <2>1. PICK p \in Listening \cup {Nobody} : measured' = [measured EXCEPT ![n] = p]
    OBVIOUS
  <2>2. p \in {"nobody", "leader", "worker", "stranger"} \X (Attempts \cup {0})
    BY <2>1 DEF Nobody, TypeOK
  <2>3. measured' \in [Attempts -> {"nobody", "leader", "worker", "stranger"}
                                  \X (Attempts \cup {0})]
    BY <2>1, <2>2 DEF TypeOK
  <2> QED BY <2>3 DEF TypeOK
<1>2. PcInv'  BY DEF TypeOK, PcInv
<1>3. StartedInv'  BY DEF TypeOK, StartedInv
<1>4. ChannelInv'  BY DEF TypeOK, ChannelInv
<1>5. TrackInv'  BY DEF TypeOK, TrackInv
<1>6. HistoryInv'  BY DEF TypeOK, HistoryInv
<1>7. StoppedInv'  BY DEF TypeOK, StoppedInv
<1>8. CleanAttemptLeavesNoTarget'  BY DEF TypeOK, CleanAttemptLeavesNoTarget
<1>9. ForeignLeadersAreLeftovers'
  <2>1. PICK p \in Listening \cup {Nobody} : measured' = [measured EXCEPT ![n] = p]
    OBVIOUS
  <2>2. p[1] = "leader" => p[2] \in Attempts /\ proc[p[2]] = "listening"
    BY <2>1 DEF Nobody
  <2>3. p[1] = "leader" /\ p[2] # n => p[2] < n /\ outcome[p[2]] # "none"
    BY <2>2 DEF TypeOK, HistoryInv
  <2>4. p[1] = "leader" /\ p[2] # n => outcome[p[2]] = "failed" \/ p[2] \in retained
    BY <2>2, <2>3 DEF TypeOK, CleanAttemptLeavesNoTarget
  <2> QED BY <2>1, <2>3, <2>4 DEF TypeOK, ForeignLeadersAreLeftovers
<1> QED BY <1>1, <1>2, <1>3, <1>4, <1>5, <1>6, <1>7, <1>8, <1>9

\* A failing scenario preserves the invariant.
LEMMA MeasureRaisesStep == IndInv /\ MeasureRaises => IndInv'
<1> SUFFICES ASSUME IndInv, MeasureRaises PROVE IndInv'
  OBVIOUS
<1> USE DEF IndInv, MeasureRaises, Raise, Cleaning, ctlVars, clientVars, adapterVars, hostVars
<1>1. TypeOK'  BY AttemptAssumption, TransitionsLemma DEF TypeOK, ChannelInv, PcInv, StartedInv
<1>2. PcInv'  BY DEF TypeOK, PcInv
<1>3. StartedInv'  BY DEF TypeOK, StartedInv
<1>4. ChannelInv'  BY DEF TypeOK, ChannelInv
<1>5. TrackInv'  BY DEF TypeOK, TrackInv
<1>6. HistoryInv'  BY DEF TypeOK, HistoryInv
<1>7. StoppedInv'  BY DEF TypeOK, StoppedInv
<1>8. CleanAttemptLeavesNoTarget'  BY DEF TypeOK, CleanAttemptLeavesNoTarget
<1>9. ForeignLeadersAreLeftovers'  BY DEF TypeOK, ForeignLeadersAreLeftovers
<1> QED BY <1>1, <1>2, <1>3, <1>4, <1>5, <1>6, <1>7, <1>8, <1>9

\* Closing the client and recording the attempt preserves the invariant.
LEMMA CloseClientStep == IndInv /\ CloseClient => IndInv'
<1> SUFFICES ASSUME IndInv, CloseClient PROVE IndInv'
  OBVIOUS
<1> USE DEF IndInv, CloseClient, ctlVars, clientVars, adapterVars, hostVars
<1>1. TypeOK'  BY AttemptAssumption, TransitionsLemma DEF TypeOK
<1>2. PcInv'  BY DEF TypeOK, PcInv
<1>3. StartedInv'  BY DEF TypeOK, StartedInv
<1>4. ChannelInv'  BY DEF TypeOK, ChannelInv
<1>5. TrackInv'  BY DEF TypeOK, TrackInv
<1>6. HistoryInv'  BY DEF TypeOK, HistoryInv
<1>7. StoppedInv'  BY DEF TypeOK, StoppedInv
<1>8. CleanAttemptLeavesNoTarget'
  BY DEF TypeOK, CleanAttemptLeavesNoTarget, ChannelInv, StartedInv, StoppedInv
<1>9. ForeignLeadersAreLeftovers'  BY DEF TypeOK, ForeignLeadersAreLeftovers, ChannelInv, HistoryInv
<1> QED BY <1>1, <1>2, <1>3, <1>4, <1>5, <1>6, <1>7, <1>8, <1>9

\* Starting the next attempt preserves the invariant.
LEMMA NextAttemptStep == IndInv /\ NextAttempt => IndInv'
<1> SUFFICES ASSUME IndInv, NextAttempt PROVE IndInv'
  OBVIOUS
<1> USE DEF IndInv, NextAttempt, ctlVars, clientVars, adapterVars, hostVars
<1>1. TypeOK'
  <2>1. n' \in Attempts
    BY AttemptAssumption DEF TypeOK
  <2> QED BY <2>1 DEF TypeOK
<1>2. PcInv'  BY DEF TypeOK, PcInv
<1>3. StartedInv'  BY DEF TypeOK, StartedInv
<1>4. ChannelInv'  BY DEF TypeOK, ChannelInv
<1>5. TrackInv'  BY DEF TypeOK, TrackInv
<1>6. HistoryInv'
  <2>1. n \in Attempts /\ n' = n + 1 /\ n' \in Attempts
    BY AttemptAssumption DEF TypeOK
  <2>2. \A k \in Attempts : /\ k < n' <=> (k < n \/ k = n)
                           /\ k > n' => k > n
    BY <2>1, AttemptAssumption
  <2>3. outcome[n] # "none"
    BY DEF HistoryInv
  <2>4. \A k \in Attempts : k > n => proc[k] = "none" /\ outcome[k] = "none" /\ measured[k] = Nobody
    BY DEF HistoryInv
  <2>5. outcome'[n'] = "none"
    BY <2>1, <2>4
  <2>6. \A k \in cleanupFailed' : k < n'
    BY <2>1, <2>2 DEF TypeOK, HistoryInv
  <2> QED BY <2>1, <2>2, <2>3, <2>4, <2>5, <2>6 DEF HistoryInv
<1>7. StoppedInv'  BY DEF TypeOK, StoppedInv
<1>8. CleanAttemptLeavesNoTarget'  BY DEF TypeOK, CleanAttemptLeavesNoTarget
<1>9. ForeignLeadersAreLeftovers'  BY DEF TypeOK, ForeignLeadersAreLeftovers
<1> QED BY <1>1, <1>2, <1>3, <1>4, <1>5, <1>6, <1>7, <1>8, <1>9

\* An answer to hello or prepare_session preserves the invariant.
LEMMA AdapterNegotiatesStep == IndInv /\ AdapterNegotiates => IndInv'
<1> SUFFICES ASSUME IndInv, AdapterNegotiates PROVE IndInv'
  OBVIOUS
<1> USE DEF IndInv, AdapterNegotiates, Respond, RespondError, Alive, ctlVars, clientVars, adapterVars, hostVars
<1>1. TypeOK'
  <2>1. astate' \in States /\ request' \in Kinds \cup {"none"}
    BY TransitionsLemma DEF TypeOK
  <2> QED BY <2>1 DEF TypeOK
<1>2. PcInv'  BY DEF TypeOK, PcInv
<1>3. StartedInv'  BY DEF TypeOK, StartedInv
<1>4. ChannelInv'  BY DEF TypeOK, ChannelInv
<1>5. TrackInv'  BY DEF TypeOK, TrackInv, ChannelInv, PcInv, StartedInv, Transitions
<1>6. HistoryInv'  BY DEF TypeOK, HistoryInv
<1>7. StoppedInv'  BY DEF TypeOK, StoppedInv
<1>8. CleanAttemptLeavesNoTarget'  BY DEF TypeOK, CleanAttemptLeavesNoTarget
<1>9. ForeignLeadersAreLeftovers'  BY DEF TypeOK, ForeignLeadersAreLeftovers
<1> QED BY <1>1, <1>2, <1>3, <1>4, <1>5, <1>6, <1>7, <1>8, <1>9

\* An answer to describe_endpoint preserves the invariant.
LEMMA AdapterDescribesStep == IndInv /\ AdapterDescribes => IndInv'
<1> SUFFICES ASSUME IndInv, AdapterDescribes PROVE IndInv'
  OBVIOUS
<1> USE DEF IndInv, AdapterDescribes, Respond, RespondError, Alive, ctlVars, clientVars, adapterVars, hostVars
<1>1. TypeOK'
  <2>1. astate' \in States /\ request' \in Kinds \cup {"none"}
    BY TransitionsLemma DEF TypeOK
  <2> QED BY <2>1 DEF TypeOK
<1>2. PcInv'  BY DEF TypeOK, PcInv
<1>3. StartedInv'  BY DEF TypeOK, StartedInv
<1>4. ChannelInv'  BY DEF TypeOK, ChannelInv
<1>5. TrackInv'  BY DEF TypeOK, TrackInv, ChannelInv, PcInv, StartedInv, Transitions
<1>6. HistoryInv'  BY DEF TypeOK, HistoryInv
<1>7. StoppedInv'  BY DEF TypeOK, StoppedInv
<1>8. CleanAttemptLeavesNoTarget'  BY DEF TypeOK, CleanAttemptLeavesNoTarget
<1>9. ForeignLeadersAreLeftovers'  BY DEF TypeOK, ForeignLeadersAreLeftovers
<1> QED BY <1>1, <1>2, <1>3, <1>4, <1>5, <1>6, <1>7, <1>8, <1>9

\* An answer to shutdown preserves the invariant.
LEMMA AdapterShutsDownStep == IndInv /\ AdapterShutsDown => IndInv'
<1> SUFFICES ASSUME IndInv, AdapterShutsDown PROVE IndInv'
  OBVIOUS
<1> USE DEF IndInv, AdapterShutsDown, Respond, RespondError, Alive, ctlVars, clientVars, adapterVars, hostVars
<1>1. TypeOK'
  <2>1. astate' \in States /\ request' \in Kinds \cup {"none"}
    BY TransitionsLemma DEF TypeOK
  <2> QED BY <2>1 DEF TypeOK
<1>2. PcInv'  BY DEF TypeOK, PcInv
<1>3. StartedInv'  BY DEF TypeOK, StartedInv
<1>4. ChannelInv'  BY DEF TypeOK, ChannelInv
<1>5. TrackInv'  BY DEF TypeOK, TrackInv, ChannelInv, PcInv, StartedInv, Transitions
<1>6. HistoryInv'  BY DEF TypeOK, HistoryInv
<1>7. StoppedInv'  BY DEF TypeOK, StoppedInv
<1>8. CleanAttemptLeavesNoTarget'  BY DEF TypeOK, CleanAttemptLeavesNoTarget
<1>9. ForeignLeadersAreLeftovers'  BY DEF TypeOK, ForeignLeadersAreLeftovers
<1> QED BY <1>1, <1>2, <1>3, <1>4, <1>5, <1>6, <1>7, <1>8, <1>9

\* An answer that does not validate preserves the invariant.
LEMMA AdapterAnswersInvalidStep == IndInv /\ AdapterAnswersInvalid => IndInv'
<1> SUFFICES ASSUME IndInv, AdapterAnswersInvalid PROVE IndInv'
  OBVIOUS
<1> USE DEF IndInv, AdapterAnswersInvalid, Alive, ctlVars, clientVars, adapterVars, hostVars
<1>1. TypeOK'  BY AttemptAssumption, TransitionsLemma DEF TypeOK
<1>2. PcInv'  BY DEF TypeOK, PcInv
<1>3. StartedInv'  BY DEF TypeOK, StartedInv
<1>4. ChannelInv'  BY DEF TypeOK, ChannelInv
<1>5. TrackInv'  BY DEF TypeOK, TrackInv
<1>6. HistoryInv'  BY DEF TypeOK, HistoryInv
<1>7. StoppedInv'  BY DEF TypeOK, StoppedInv
<1>8. CleanAttemptLeavesNoTarget'  BY DEF TypeOK, CleanAttemptLeavesNoTarget
<1>9. ForeignLeadersAreLeftovers'  BY DEF TypeOK, ForeignLeadersAreLeftovers
<1> QED BY <1>1, <1>2, <1>3, <1>4, <1>5, <1>6, <1>7, <1>8, <1>9

\* A refused start preserves the invariant.
LEMMA AdapterSpawnFailsStep == IndInv /\ AdapterSpawnFails => IndInv'
<1> SUFFICES ASSUME IndInv, AdapterSpawnFails PROVE IndInv'
  OBVIOUS
<1> USE DEF IndInv, AdapterSpawnFails, RespondError, ctlVars, clientVars, adapterVars, hostVars
<1>1. TypeOK'  BY AttemptAssumption, TransitionsLemma DEF TypeOK
<1>2. PcInv'  BY DEF TypeOK, PcInv
<1>3. StartedInv'  BY DEF TypeOK, StartedInv
<1>4. ChannelInv'  BY DEF TypeOK, ChannelInv
<1>5. TrackInv'  BY DEF TypeOK, TrackInv
<1>6. HistoryInv'  BY DEF TypeOK, HistoryInv
<1>7. StoppedInv'  BY DEF TypeOK, StoppedInv
<1>8. CleanAttemptLeavesNoTarget'  BY DEF TypeOK, CleanAttemptLeavesNoTarget
<1>9. ForeignLeadersAreLeftovers'  BY DEF TypeOK, ForeignLeadersAreLeftovers
<1> QED BY <1>1, <1>2, <1>3, <1>4, <1>5, <1>6, <1>7, <1>8, <1>9

\* Spawning the target preserves the invariant.
LEMMA AdapterSpawnsStep == IndInv /\ AdapterSpawns => IndInv'
<1> SUFFICES ASSUME IndInv, AdapterSpawns PROVE IndInv'
  OBVIOUS
<1> USE DEF IndInv, AdapterSpawns, ctlVars, clientVars, adapterVars, hostVars
<1>1. TypeOK'  BY AttemptAssumption, TransitionsLemma DEF TypeOK
<1>2. PcInv'  BY DEF TypeOK, PcInv
<1>3. StartedInv'  BY DEF TypeOK, StartedInv
<1>4. ChannelInv'  BY DEF TypeOK, ChannelInv
<1>5. TrackInv'  BY DEF TypeOK, TrackInv
<1>6. HistoryInv'  BY DEF TypeOK, HistoryInv
<1>7. StoppedInv'  BY DEF TypeOK, StoppedInv, ChannelInv, PcInv, TrackInv, StartedInv, Transitions
<1>8. CleanAttemptLeavesNoTarget'  BY DEF TypeOK, CleanAttemptLeavesNoTarget, ChannelInv, HistoryInv
<1>9. ForeignLeadersAreLeftovers'  BY DEF TypeOK, ForeignLeadersAreLeftovers
<1> QED BY <1>1, <1>2, <1>3, <1>4, <1>5, <1>6, <1>7, <1>8, <1>9

\* A readiness probe that connects, to whichever process listens, preserves the invariant.
LEMMA AdapterProbeConnectsStep == IndInv /\ AdapterProbeConnects => IndInv'
<1> SUFFICES ASSUME IndInv, AdapterProbeConnects PROVE IndInv'
  OBVIOUS
<1> USE DEF IndInv, AdapterProbeConnects, Respond, Alive, Listening, ctlVars, clientVars, adapterVars, hostVars
<1>1. TypeOK'  BY AttemptAssumption, TransitionsLemma DEF TypeOK
<1>2. PcInv'  BY DEF TypeOK, PcInv
<1>3. StartedInv'  BY DEF TypeOK, StartedInv
<1>4. ChannelInv'  BY DEF TypeOK, ChannelInv
<1>5. TrackInv'  BY DEF TypeOK, TrackInv, ChannelInv, PcInv, StartedInv, Transitions
<1>6. HistoryInv'  BY DEF TypeOK, HistoryInv
<1>7. StoppedInv'  BY DEF TypeOK, StoppedInv
<1>8. CleanAttemptLeavesNoTarget'  BY DEF TypeOK, CleanAttemptLeavesNoTarget
<1>9. ForeignLeadersAreLeftovers'  BY DEF TypeOK, ForeignLeadersAreLeftovers
<1> QED BY <1>1, <1>2, <1>3, <1>4, <1>5, <1>6, <1>7, <1>8, <1>9

\* A failing readiness probe preserves the invariant.
LEMMA AdapterProbeFailsStep == IndInv /\ AdapterProbeFails => IndInv'
<1> SUFFICES ASSUME IndInv, AdapterProbeFails PROVE IndInv'
  OBVIOUS
<1> USE DEF IndInv, AdapterProbeFails, RespondError, ctlVars, clientVars, adapterVars, hostVars
<1>1. TypeOK'  BY AttemptAssumption, TransitionsLemma DEF TypeOK
<1>2. PcInv'  BY DEF TypeOK, PcInv
<1>3. StartedInv'  BY DEF TypeOK, StartedInv
<1>4. ChannelInv'  BY DEF TypeOK, ChannelInv
<1>5. TrackInv'  BY DEF TypeOK, TrackInv
<1>6. HistoryInv'  BY DEF TypeOK, HistoryInv
<1>7. StoppedInv'  BY DEF TypeOK, StoppedInv
<1>8. CleanAttemptLeavesNoTarget'  BY DEF TypeOK, CleanAttemptLeavesNoTarget
<1>9. ForeignLeadersAreLeftovers'  BY DEF TypeOK, ForeignLeadersAreLeftovers
<1> QED BY <1>1, <1>2, <1>3, <1>4, <1>5, <1>6, <1>7, <1>8, <1>9

\* Beginning to stop the target preserves the invariant.
LEMMA AdapterStopsStep == IndInv /\ AdapterStops => IndInv'
<1> SUFFICES ASSUME IndInv, AdapterStops PROVE IndInv'
  OBVIOUS
<1> USE DEF IndInv, AdapterStops, Respond, Alive, ctlVars, clientVars, adapterVars, hostVars
<1>1. TypeOK'
  <2>1. astate' \in States /\ request' \in Kinds \cup {"none"}
    BY TransitionsLemma DEF TypeOK
  <2> QED BY <2>1 DEF TypeOK
<1>2. PcInv'  BY DEF TypeOK, PcInv
<1>3. StartedInv'  BY DEF TypeOK, StartedInv
<1>4. ChannelInv'  BY DEF TypeOK, ChannelInv, StartedInv
<1>5. TrackInv'  BY DEF TypeOK, TrackInv, ChannelInv, PcInv, StartedInv, Transitions
<1>6. HistoryInv'  BY DEF TypeOK, HistoryInv
<1>7. StoppedInv'  BY DEF TypeOK, StoppedInv
<1>8. CleanAttemptLeavesNoTarget'  BY DEF TypeOK, CleanAttemptLeavesNoTarget
<1>9. ForeignLeadersAreLeftovers'  BY DEF TypeOK, ForeignLeadersAreLeftovers
<1> QED BY <1>1, <1>2, <1>3, <1>4, <1>5, <1>6, <1>7, <1>8, <1>9

\* Reaping the target preserves the invariant.
LEMMA AdapterReapsStep == IndInv /\ AdapterReaps => IndInv'
<1> SUFFICES ASSUME IndInv, AdapterReaps PROVE IndInv'
  OBVIOUS
<1> USE DEF IndInv, AdapterReaps, Respond, ctlVars, clientVars, adapterVars, hostVars
<1>1. TypeOK'  BY AttemptAssumption, TransitionsLemma DEF TypeOK
<1>2. PcInv'  BY DEF TypeOK, PcInv
<1>3. StartedInv'  BY DEF TypeOK, StartedInv
<1>4. ChannelInv'  BY DEF TypeOK, ChannelInv
<1>5. TrackInv'  BY DEF TypeOK, TrackInv, ChannelInv, PcInv, StartedInv, Transitions
<1>6. HistoryInv'  BY DEF TypeOK, HistoryInv
<1>7. StoppedInv'  BY DEF TypeOK, StoppedInv
<1>8. CleanAttemptLeavesNoTarget'  BY DEF TypeOK, CleanAttemptLeavesNoTarget
<1>9. ForeignLeadersAreLeftovers'  BY DEF TypeOK, ForeignLeadersAreLeftovers
<1> QED BY <1>1, <1>2, <1>3, <1>4, <1>5, <1>6, <1>7, <1>8, <1>9

\* Failing to stop the target preserves the invariant.
LEMMA AdapterStopFailsStep == IndInv /\ AdapterStopFails => IndInv'
<1> SUFFICES ASSUME IndInv, AdapterStopFails PROVE IndInv'
  OBVIOUS
<1> USE DEF IndInv, AdapterStopFails, RespondError, ctlVars, clientVars, adapterVars, hostVars
<1>1. TypeOK'  BY AttemptAssumption, TransitionsLemma DEF TypeOK
<1>2. PcInv'  BY DEF TypeOK, PcInv
<1>3. StartedInv'  BY DEF TypeOK, StartedInv
<1>4. ChannelInv'  BY DEF TypeOK, ChannelInv
<1>5. TrackInv'  BY DEF TypeOK, TrackInv
<1>6. HistoryInv'  BY DEF TypeOK, HistoryInv
<1>7. StoppedInv'  BY DEF TypeOK, StoppedInv
<1>8. CleanAttemptLeavesNoTarget'  BY DEF TypeOK, CleanAttemptLeavesNoTarget
<1>9. ForeignLeadersAreLeftovers'  BY DEF TypeOK, ForeignLeadersAreLeftovers
<1> QED BY <1>1, <1>2, <1>3, <1>4, <1>5, <1>6, <1>7, <1>8, <1>9

\* The end of the adapter process preserves the invariant.
LEMMA AdapterDiesStep == IndInv /\ AdapterDies => IndInv'
<1> SUFFICES ASSUME IndInv, AdapterDies PROVE IndInv'
  OBVIOUS
<1> USE DEF IndInv, AdapterDies, ctlVars, clientVars, adapterVars, hostVars
<1>1. TypeOK'  BY AttemptAssumption, TransitionsLemma DEF TypeOK
<1>2. PcInv'  BY DEF TypeOK, PcInv
<1>3. StartedInv'  BY DEF TypeOK, StartedInv
<1>4. ChannelInv'  BY DEF TypeOK, ChannelInv
<1>5. TrackInv'  BY DEF TypeOK, TrackInv
<1>6. HistoryInv'  BY DEF TypeOK, HistoryInv
<1>7. StoppedInv'  BY DEF TypeOK, StoppedInv
<1>8. CleanAttemptLeavesNoTarget'  BY DEF TypeOK, CleanAttemptLeavesNoTarget
<1>9. ForeignLeadersAreLeftovers'  BY DEF TypeOK, ForeignLeadersAreLeftovers
<1> QED BY <1>1, <1>2, <1>3, <1>4, <1>5, <1>6, <1>7, <1>8, <1>9

\* A target that binds or exits preserves the invariant.
LEMMA TargetStep ==
    ASSUME IndInv, NEW k \in Attempts,
           TargetBinds(k) \/ TargetExits(k)
    PROVE  IndInv'
<1> USE DEF IndInv, ctlVars, clientVars, adapterVars, hostVars
<1>1. /\ UNCHANGED <<pc, ctlVars, clientVars, adapterVars, reply, workers, stranger>>
      /\ proc[k] \in {"starting", "listening"}
      /\ \E v \in {"listening", "exited"} : proc' = [proc EXCEPT ![k] = v]
  BY DEF TargetBinds, TargetExits, Alive
<1>2. proc' \in [Attempts -> {"none", "starting", "listening", "exited"}]
  BY <1>1 DEF TypeOK
<1>3. \A j \in Attempts : /\ proc[j] = "exited" => proc'[j] = "exited"
                          /\ proc[j] = "none" <=> proc'[j] = "none"
  BY <1>1 DEF TypeOK
<1>4. TypeOK'  BY <1>1, <1>2 DEF TypeOK
<1>5. PcInv' /\ TrackInv'  BY <1>1 DEF PcInv, TrackInv, Transitions
<1>6. StartedInv' /\ ChannelInv' /\ StoppedInv'
  BY <1>1, <1>3 DEF TypeOK, StartedInv, ChannelInv, StoppedInv
<1>7. HistoryInv'  BY <1>1, <1>3 DEF TypeOK, HistoryInv
<1>8. CleanAttemptLeavesNoTarget'  BY <1>1, <1>3 DEF CleanAttemptLeavesNoTarget
<1>9. ForeignLeadersAreLeftovers'  BY <1>1 DEF ForeignLeadersAreLeftovers
<1> QED BY <1>4, <1>5, <1>6, <1>7, <1>8, <1>9

\* Workers and strangers, which only what is measured depends on, preserve
\* the invariant.
LEMMA HostStep ==
    ASSUME IndInv, StrangerComesOrGoes \/ \E k \in Attempts : WorkerComesOrGoes(k)
    PROVE  IndInv'
<1> USE DEF IndInv, ctlVars, clientVars, adapterVars
<1>1. /\ UNCHANGED <<pc, ctlVars, clientVars, adapterVars, reply, proc>>
      /\ workers' \subseteq Attempts /\ stranger' \in BOOLEAN
  <2>1. CASE StrangerComesOrGoes
    BY <2>1 DEF StrangerComesOrGoes, TypeOK
  <2>2. ASSUME NEW k \in Attempts, WorkerComesOrGoes(k)
        PROVE  /\ UNCHANGED <<pc, ctlVars, clientVars, adapterVars, reply, proc>>
               /\ workers' \subseteq Attempts /\ stranger' \in BOOLEAN
    BY <2>2 DEF WorkerComesOrGoes, TypeOK
  <2> QED BY <2>1, <2>2
<1>2. TypeOK'  BY <1>1 DEF TypeOK
<1>3. PcInv' /\ StartedInv' /\ ChannelInv'  BY <1>1 DEF PcInv, StartedInv, ChannelInv
<1>4. TrackInv'  BY <1>1 DEF TrackInv, Transitions
<1>5. HistoryInv' /\ StoppedInv'  BY <1>1 DEF HistoryInv, StoppedInv
<1>6. CleanAttemptLeavesNoTarget'  BY <1>1 DEF CleanAttemptLeavesNoTarget
<1>7. ForeignLeadersAreLeftovers'  BY <1>1 DEF ForeignLeadersAreLeftovers
<1> QED BY <1>2, <1>3, <1>4, <1>5, <1>6, <1>7

\* A stuttering step preserves the invariant.
LEMMA StutterStep == IndInv /\ UNCHANGED vars => IndInv'
<1> SUFFICES ASSUME IndInv, UNCHANGED vars PROVE IndInv'
  OBVIOUS
<1> USE DEF IndInv, vars, ctlVars, clientVars, adapterVars, hostVars
<1>1. TypeOK'  BY DEF TypeOK
<1>2. PcInv' /\ StartedInv' /\ ChannelInv'  BY DEF PcInv, StartedInv, ChannelInv
<1>3. TrackInv'  BY DEF TrackInv, Transitions
<1>4. HistoryInv' /\ StoppedInv'  BY DEF HistoryInv, StoppedInv
<1>5. CleanAttemptLeavesNoTarget'  BY DEF CleanAttemptLeavesNoTarget
<1>6. ForeignLeadersAreLeftovers'  BY DEF ForeignLeadersAreLeftovers
<1> QED BY <1>1, <1>2, <1>3, <1>4, <1>5, <1>6

-----------------------------------------------------------------------------
\* The strengthened invariant holds in every reachable state.
THEOREM InductiveInvariant == Spec => []IndInv
<1>1. Init => IndInv
  <2> SUFFICES ASSUME Init PROVE IndInv
    OBVIOUS
  <2>1. TypeOK
    <3>1. n \in Attempts  BY AttemptAssumption DEF Init
    <3>2. /\ outcome \in [Attempts -> {"none", "completed", "failed"}]
          /\ measured \in [Attempts -> {"nobody", "leader", "worker", "stranger"}
                                       \X (Attempts \cup {0})]
          /\ proc \in [Attempts -> {"none", "starting", "listening", "exited"}]
      BY DEF Init, Nobody
    <3> QED BY <3>1, <3>2 DEF Init, TypeOK
  <2>2. PcInv /\ StartedInv /\ TrackInv /\ StoppedInv
    BY DEF Init, PcInv, StartedInv, TrackInv, StoppedInv
  <2>3. ChannelInv  BY DEF Init, ChannelInv
  <2>4. HistoryInv  BY AttemptAssumption DEF Init, HistoryInv
  <2>5. CleanAttemptLeavesNoTarget /\ ForeignLeadersAreLeftovers
    BY DEF Init, Nobody, CleanAttemptLeavesNoTarget, ForeignLeadersAreLeftovers
  <2> QED BY <2>1, <2>2, <2>3, <2>4, <2>5 DEF IndInv
<1>2. IndInv /\ [Next]_vars => IndInv'
  <2>1. IndInv /\ ControllerStep => IndInv'
    BY SendRequestStep, RequestRaisesStep, AcceptResponseStep, RejectAfterAcceptStep,
       ResponseRaisesStep, RequestTimesOutStep, MeasureStep, MeasureRaisesStep,
       CloseClientStep, NextAttemptStep
    DEF ControllerStep
  <2>2. IndInv /\ AdapterStep => IndInv'
    BY AdapterNegotiatesStep, AdapterDescribesStep, AdapterShutsDownStep, AdapterAnswersInvalidStep, AdapterSpawnFailsStep,
       AdapterSpawnsStep, AdapterProbeConnectsStep, AdapterProbeFailsStep,
       AdapterStopsStep, AdapterReapsStep, AdapterStopFailsStep, AdapterDiesStep
    DEF AdapterStep
  <2> QED BY <2>1, <2>2, TargetStep, HostStep, StutterStep DEF Next, Finished
<1> QED BY <1>1, <1>2, PTL DEF Spec

\* Every state of the lifecycle is well typed.
THEOREM TypeCorrect == Spec => []TypeOK
<1>1. IndInv => TypeOK  BY DEF IndInv
<1> QED BY <1>1, InductiveInvariant, PTL

\* On no path does the controller make a request its client refuses.
THEOREM RequestsLegal == Spec => []RequestsAreLegal
<1>1. IndInv => RequestsAreLegal
  <2> SUFFICES ASSUME IndInv, pc \in Kinds, waiting = "none", ~failed
               PROVE  \E t \in Transitions : t[1] = cstate /\ t[2] = pc
    BY DEF RequestsAreLegal
  <2> QED BY DEF IndInv, PcInv, Transitions
<1> QED BY <1>1, InductiveInvariant, PTL

\* Client and adapter agree on the lifecycle state between requests.
THEOREM ClientAndAdapterAgree == Spec => []ClientTracksAdapter
<1>1. IndInv => ClientTracksAdapter  BY DEF IndInv, TrackInv, ClientTracksAdapter
<1> QED BY <1>1, InductiveInvariant, PTL

\* A clean attempt leaves no target process behind.
THEOREM CleanAttempts == Spec => []CleanAttemptLeavesNoTarget
<1>1. IndInv => CleanAttemptLeavesNoTarget  BY DEF IndInv
<1> QED BY <1>1, InductiveInvariant, PTL

\* A group leader answers the scenario of another attempt only if its own
\* attempt raised or failed to clean up.
THEOREM ForeignLeaders == Spec => []ForeignLeadersAreLeftovers
<1>1. IndInv => ForeignLeadersAreLeftovers  BY DEF IndInv
<1> QED BY <1>1, InductiveInvariant, PTL
==============================================================================
