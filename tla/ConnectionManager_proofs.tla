----------------------- MODULE ConnectionManager_proofs -----------------------
(***************************************************************************)
(* Proofs, for any delays and timeouts, of all that may end the runner,    *)
(* that what the manager shows is the state of its connection, and that a  *)
(* CLOSE_ERROR is honoured.                                                *)
(***************************************************************************)
EXTENDS ConnectionManager, TLAPS

Attempting == phase \in {"opening", "open"}

\* Unless two connections existed at once: what the task manager, the state,
\* the leader state and _connection are in each phase. Between attempts this is
\* what StateTruthful says; during one, it is what keeps the assertions and the
\* monotonic store from ending the runner.
PhaseOf ==
    ~overlapped /\ phase # "dead" =>
        /\ phase \in {"gate", "sleep", "dialog"} =>
              inner = "disconnected" /\ state = "disconnected" /\ ~leader /\ connection # "full"
        /\ Attempting => inner = "connected" /\ d2mOnly = "none"
        /\ phase = "opening" => state = "connecting" /\ connection # "full" /\ ~leader
        /\ phase = "open" => connection = "full" /\ state # "connecting"
        /\ state = "connected" => phase = "open" /\ csp /\ d2m

\* The runner that attempts has passed the gate, and found the promise of the
\* moment: it is not turned off and resolved behind its back.
GateOf == Attempting => awaited = "current"

\* A close error that forbids to reconnect is still going to be decoded, or
\* nothing the runner awaits is resolved.
RefusalOf ==
    refused =>
        \/ alert = "final" /\ phase = "open" /\ closing \in {"no", "draining"}
        \/ ~autoConnect /\ awaited # "resolved"

Inv == TypeOK /\ PhaseOf /\ GateOf /\ RefusalOf

-----------------------------------------------------------------------------
\* The invariant holds initially.
LEMMA InitInv == Init => Inv
<1> SUFFICES ASSUME Init PROVE Inv
  OBVIOUS
<1> USE DEF Init
<1>1. TimeTypes
  BY TimesAssumption DEF TimeTypes
<1>2. GateTypes /\ ViewTypes /\ LinkTypes /\ KickTypes /\ FlagTypes
  BY DEF GateTypes, ViewTypes, LinkTypes, KickTypes, FlagTypes, Causes
<1>3. PhaseOf /\ GateOf /\ RefusalOf
  BY DEF PhaseOf, GateOf, RefusalOf, Attempting
<1> QED
  BY <1>1, <1>2, <1>3 DEF Inv, TypeOK

\* Types, one part of the state at a time.
LEMMA GateTypesStep ==
    ASSUME Inv, Next
    PROVE  GateTypes'
<1> USE DEF Inv, TypeOK, GateTypes, linkVars, gateVars, viewVars, timeVars, kickVars
<1>1. CASE Runner
    BY <1>1 DEF Runner, StartAttempt, CarriedDone, GateReady, LeaveRun, Reset, ResetReady,
       ReplaceDisconnected, HandleClose, WaitOrSkip, WaitTime, TurnOff, ReplacePromise,
       Fallback, FallbackReady, Unlink, Missed, Open
<1>2. CASE Tick \/ Wake \/ EstablishmentTimeout
    BY <1>2 DEF Tick, Wake, EstablishmentTimeout, NotEstablished, Missed
<1>3. CASE PipeAttached \/ CreateFails \/ CspComplete \/ D2mComplete \/ PromotedToLeader
    BY <1>3 DEF PipeAttached, CreateFails, HandleClose, WaitOrSkip, WaitTime, TurnOff,
       ReplacePromise, CspComplete, CspAdvances, Advance, Open, Missed, D2mComplete,
       PromotedToLeader
<1>4. CASE RemoteClose \/ PipeError \/ ClientCloses \/ Drained
    BY <1>4 DEF RemoteClose, Open, ClosingSequence, Causes, PipeError, Missed, ClientCloses,
       Drained
<1>5. CASE ServerCloseError \/ ProcessCloseError
    BY <1>5 DEF ServerCloseError, Open, ProcessCloseError, DisconnectAndTurnOff, Disconnect,
       TurnOff, ReplacePromise, Causes
<1>6. CASE DialogConfirmed \/ DialogDismissed \/ CloseErrorConfirmed \/ CloseErrorDismissed
    BY <1>6 DEF DialogConfirmed, DialogDismissed, DisconnectAndTurnOff, Disconnect, TurnOff,
       ReplacePromise, WaitOrSkip, WaitTime, CloseErrorConfirmed, TurnOn, CloseErrorDismissed
<1>7. CASE UserDisconnects \/ ToggleAutoConnect \/ SelfKick \/ SelfKickOffline
    BY <1>7 DEF UserDisconnects, Disconnect, Missed, ToggleAutoConnect, DisconnectAndTurnOff,
       TurnOff, TurnOn, ReplacePromise, SelfKick, SelfKickOffline, Unlink, Open
<1>8. CASE Unlinking
    BY <1>8 DEF Unlinking, DropSent, Open, DropAcknowledged, D2mOnlyOpens, D2mOnlyFails, LeaveRun,
       TurnOn, D2mOnlyDrops, D2mOnlyCloses, DroppedByOtherDevice
<1>9. CASE OldRuns
    BY <1>9 DEF OldRuns, OldRunEnds, RerunEnds
<1> QED
  BY <1>1, <1>2, <1>3, <1>4, <1>5, <1>6, <1>7, <1>8, <1>9 DEF Next, Timers, Transport, User

\* What the user interface is told keeps its types.
LEMMA ViewTypesStep ==
    ASSUME Inv, Next
    PROVE  ViewTypes'
<1> USE DEF Inv, TypeOK, ViewTypes, linkVars, gateVars, viewVars, timeVars, kickVars
<1>1. CASE Runner
    BY <1>1 DEF Runner, StartAttempt, CarriedDone, GateReady, LeaveRun, Reset, ResetReady,
       ReplaceDisconnected, HandleClose, WaitOrSkip, WaitTime, TurnOff, ReplacePromise,
       Fallback, FallbackReady, Unlink, Missed, Open
<1>2. CASE Tick \/ Wake \/ EstablishmentTimeout
    BY <1>2 DEF Tick, Wake, EstablishmentTimeout, NotEstablished, Missed
<1>3. CASE PipeAttached \/ CreateFails \/ CspComplete \/ D2mComplete \/ PromotedToLeader
    BY <1>3 DEF PipeAttached, CreateFails, HandleClose, WaitOrSkip, WaitTime, TurnOff,
       ReplacePromise, CspComplete, CspAdvances, Advance, Open, Missed, D2mComplete,
       PromotedToLeader
<1>4. CASE RemoteClose \/ PipeError \/ ClientCloses \/ Drained
    BY <1>4 DEF RemoteClose, Open, ClosingSequence, Causes, PipeError, Missed, ClientCloses,
       Drained
<1>5. CASE ServerCloseError \/ ProcessCloseError
    BY <1>5 DEF ServerCloseError, Open, ProcessCloseError, DisconnectAndTurnOff, Disconnect,
       TurnOff, ReplacePromise, Causes
<1>6. CASE DialogConfirmed \/ DialogDismissed \/ CloseErrorConfirmed \/ CloseErrorDismissed
    BY <1>6 DEF DialogConfirmed, DialogDismissed, DisconnectAndTurnOff, Disconnect, TurnOff,
       ReplacePromise, WaitOrSkip, WaitTime, CloseErrorConfirmed, TurnOn, CloseErrorDismissed
<1>7. CASE UserDisconnects \/ ToggleAutoConnect \/ SelfKick \/ SelfKickOffline
    BY <1>7 DEF UserDisconnects, Disconnect, Missed, ToggleAutoConnect, DisconnectAndTurnOff,
       TurnOff, TurnOn, ReplacePromise, SelfKick, SelfKickOffline, Unlink, Open
<1>8. CASE Unlinking
    BY <1>8 DEF Unlinking, DropSent, Open, DropAcknowledged, D2mOnlyOpens, D2mOnlyFails, LeaveRun,
       TurnOn, D2mOnlyDrops, D2mOnlyCloses, DroppedByOtherDevice
<1>9. CASE OldRuns
    BY <1>9 DEF OldRuns, OldRunEnds, RerunEnds
<1> QED
  BY <1>1, <1>2, <1>3, <1>4, <1>5, <1>6, <1>7, <1>8, <1>9 DEF Next, Timers, Transport, User

\* So does the connection.
LEMMA LinkTypesStep ==
    ASSUME Inv, Next
    PROVE  LinkTypes'
<1> USE DEF Inv, TypeOK, LinkTypes, linkVars, gateVars, viewVars, timeVars, kickVars, Causes
<1>1. CASE Runner
    BY <1>1 DEF Runner, StartAttempt, CarriedDone, GateReady, LeaveRun, Reset, ResetReady,
       ReplaceDisconnected, HandleClose, WaitOrSkip, WaitTime, TurnOff, ReplacePromise,
       Fallback, FallbackReady, Unlink, Missed, Open
<1>2. CASE Tick \/ Wake \/ EstablishmentTimeout
    BY <1>2 DEF Tick, Wake, EstablishmentTimeout, NotEstablished, Missed
<1>3. CASE PipeAttached \/ CreateFails \/ CspComplete \/ D2mComplete \/ PromotedToLeader
    BY <1>3 DEF PipeAttached, CreateFails, HandleClose, WaitOrSkip, WaitTime, TurnOff,
       ReplacePromise, CspComplete, CspAdvances, Advance, Open, Missed, D2mComplete,
       PromotedToLeader
<1>4. CASE RemoteClose \/ PipeError \/ ClientCloses \/ Drained
    BY <1>4 DEF RemoteClose, Open, ClosingSequence, Causes, PipeError, Missed, ClientCloses,
       Drained
<1>5. CASE ServerCloseError \/ ProcessCloseError
    BY <1>5 DEF ServerCloseError, Open, ProcessCloseError, DisconnectAndTurnOff, Disconnect,
       TurnOff, ReplacePromise, Causes
<1>6. CASE DialogConfirmed \/ DialogDismissed \/ CloseErrorConfirmed \/ CloseErrorDismissed
    BY <1>6 DEF DialogConfirmed, DialogDismissed, DisconnectAndTurnOff, Disconnect, TurnOff,
       ReplacePromise, WaitOrSkip, WaitTime, CloseErrorConfirmed, TurnOn, CloseErrorDismissed
<1>7. CASE UserDisconnects \/ ToggleAutoConnect \/ SelfKick \/ SelfKickOffline
    BY <1>7 DEF UserDisconnects, Disconnect, Missed, ToggleAutoConnect, DisconnectAndTurnOff,
       TurnOff, TurnOn, ReplacePromise, SelfKick, SelfKickOffline, Unlink, Open
<1>8. CASE Unlinking
    BY <1>8 DEF Unlinking, DropSent, Open, DropAcknowledged, D2mOnlyOpens, D2mOnlyFails, LeaveRun,
       TurnOn, D2mOnlyDrops, D2mOnlyCloses, DroppedByOtherDevice
<1>9. CASE OldRuns
    BY <1>9 DEF OldRuns, OldRunEnds, RerunEnds
<1> QED
  BY <1>1, <1>2, <1>3, <1>4, <1>5, <1>6, <1>7, <1>8, <1>9 DEF Next, Timers, Transport, User

\* So do the delays.
LEMMA TimeTypesStep ==
    ASSUME Inv, Next
    PROVE  TimeTypes'
<1> USE TimesAssumption DEF Inv, TypeOK, TimeTypes, linkVars, gateVars, viewVars, timeVars, kickVars
<1>1. CASE Runner
    BY <1>1 DEF Runner, StartAttempt, CarriedDone, GateReady, LeaveRun, Reset, ResetReady,
       ReplaceDisconnected, HandleClose, WaitOrSkip, WaitTime, TurnOff, ReplacePromise,
       Fallback, FallbackReady, Unlink, Missed, Open
<1>2. CASE Tick \/ Wake \/ EstablishmentTimeout
    BY <1>2 DEF Tick, Wake, EstablishmentTimeout, NotEstablished, Missed
<1>3. CASE PipeAttached \/ CreateFails \/ CspComplete \/ D2mComplete \/ PromotedToLeader
    BY <1>3 DEF PipeAttached, CreateFails, HandleClose, WaitOrSkip, WaitTime, TurnOff,
       ReplacePromise, CspComplete, CspAdvances, Advance, Open, Missed, D2mComplete,
       PromotedToLeader
<1>4. CASE RemoteClose \/ PipeError \/ ClientCloses \/ Drained
    BY <1>4 DEF RemoteClose, Open, ClosingSequence, Causes, PipeError, Missed, ClientCloses,
       Drained
<1>5. CASE ServerCloseError \/ ProcessCloseError
    BY <1>5 DEF ServerCloseError, Open, ProcessCloseError, DisconnectAndTurnOff, Disconnect,
       TurnOff, ReplacePromise, Causes
<1>6. CASE DialogConfirmed \/ DialogDismissed \/ CloseErrorConfirmed \/ CloseErrorDismissed
    BY <1>6 DEF DialogConfirmed, DialogDismissed, DisconnectAndTurnOff, Disconnect, TurnOff,
       ReplacePromise, WaitOrSkip, WaitTime, CloseErrorConfirmed, TurnOn, CloseErrorDismissed
<1>7. CASE UserDisconnects \/ ToggleAutoConnect \/ SelfKick \/ SelfKickOffline
    BY <1>7 DEF UserDisconnects, Disconnect, Missed, ToggleAutoConnect, DisconnectAndTurnOff,
       TurnOff, TurnOn, ReplacePromise, SelfKick, SelfKickOffline, Unlink, Open
<1>8. CASE Unlinking
    BY <1>8 DEF Unlinking, DropSent, Open, DropAcknowledged, D2mOnlyOpens, D2mOnlyFails, LeaveRun,
       TurnOn, D2mOnlyDrops, D2mOnlyCloses, DroppedByOtherDevice
<1>9. CASE OldRuns
    BY <1>9 DEF OldRuns, OldRunEnds, RerunEnds
<1> QED
  BY <1>1, <1>2, <1>3, <1>4, <1>5, <1>6, <1>7, <1>8, <1>9 DEF Next, Timers, Transport, User

\* So do the requests to reconnect.
LEMMA KickTypesStep ==
    ASSUME Inv, Next
    PROVE  KickTypes'
<1> USE DEF Inv, TypeOK, KickTypes, linkVars, gateVars, viewVars, timeVars, kickVars, PhaseOf,
        Attempting, RefusalOf
<1>1. CASE Runner
    BY <1>1 DEF Runner, StartAttempt, CarriedDone, GateReady, LeaveRun, Reset, ResetReady,
       ReplaceDisconnected, HandleClose, WaitOrSkip, WaitTime, TurnOff, ReplacePromise,
       Fallback, FallbackReady, Unlink, Missed, Open
<1>2. CASE Tick \/ Wake \/ EstablishmentTimeout
    BY <1>2 DEF Tick, Wake, EstablishmentTimeout, NotEstablished, Missed
<1>3. CASE PipeAttached \/ CreateFails \/ CspComplete \/ D2mComplete \/ PromotedToLeader
    BY <1>3 DEF PipeAttached, CreateFails, HandleClose, WaitOrSkip, WaitTime, TurnOff,
       ReplacePromise, CspComplete, CspAdvances, Advance, Open, Missed, D2mComplete,
       PromotedToLeader
<1>4. CASE RemoteClose \/ PipeError \/ ClientCloses \/ Drained
    BY <1>4 DEF RemoteClose, Open, ClosingSequence, Causes, PipeError, Missed, ClientCloses,
       Drained
<1>5. CASE ServerCloseError \/ ProcessCloseError
    BY <1>5 DEF ServerCloseError, Open, ProcessCloseError, DisconnectAndTurnOff, Disconnect,
       TurnOff, ReplacePromise, Causes
<1>6. CASE DialogConfirmed \/ DialogDismissed \/ CloseErrorConfirmed \/ CloseErrorDismissed
    BY <1>6 DEF DialogConfirmed, DialogDismissed, DisconnectAndTurnOff, Disconnect, TurnOff,
       ReplacePromise, WaitOrSkip, WaitTime, CloseErrorConfirmed, TurnOn, CloseErrorDismissed
<1>7. CASE UserDisconnects \/ ToggleAutoConnect \/ SelfKick \/ SelfKickOffline
    BY <1>7 DEF UserDisconnects, Disconnect, Missed, ToggleAutoConnect, DisconnectAndTurnOff,
       TurnOff, TurnOn, ReplacePromise, SelfKick, SelfKickOffline, Unlink, Open
<1>8. CASE Unlinking
    BY <1>8 DEF Unlinking, DropSent, Open, DropAcknowledged, D2mOnlyOpens, D2mOnlyFails, LeaveRun,
       TurnOn, D2mOnlyDrops, D2mOnlyCloses, DroppedByOtherDevice
<1>9. CASE OldRuns
    BY <1>9 DEF OldRuns, OldRunEnds, RerunEnds
<1> QED
  BY <1>1, <1>2, <1>3, <1>4, <1>5, <1>6, <1>7, <1>8, <1>9 DEF Next, Timers, Transport, User

\* So do the flags.
LEMMA FlagTypesStep ==
    ASSUME Inv, Next
    PROVE  FlagTypes'
<1> USE DEF Inv, TypeOK, FlagTypes, linkVars, gateVars, viewVars, timeVars, kickVars
<1>1. CASE Runner
    BY <1>1 DEF Runner, StartAttempt, CarriedDone, GateReady, LeaveRun, Reset, ResetReady,
       ReplaceDisconnected, HandleClose, WaitOrSkip, WaitTime, TurnOff, ReplacePromise,
       Fallback, FallbackReady, Unlink, Missed, Open
<1>2. CASE Tick \/ Wake \/ EstablishmentTimeout
    BY <1>2 DEF Tick, Wake, EstablishmentTimeout, NotEstablished, Missed
<1>3. CASE PipeAttached \/ CreateFails \/ CspComplete \/ D2mComplete \/ PromotedToLeader
    BY <1>3 DEF PipeAttached, CreateFails, HandleClose, WaitOrSkip, WaitTime, TurnOff,
       ReplacePromise, CspComplete, CspAdvances, Advance, Open, Missed, D2mComplete,
       PromotedToLeader
<1>4. CASE RemoteClose \/ PipeError \/ ClientCloses \/ Drained
    BY <1>4 DEF RemoteClose, Open, ClosingSequence, Causes, PipeError, Missed, ClientCloses,
       Drained
<1>5. CASE ServerCloseError \/ ProcessCloseError
    BY <1>5 DEF ServerCloseError, Open, ProcessCloseError, DisconnectAndTurnOff, Disconnect,
       TurnOff, ReplacePromise, Causes
<1>6. CASE DialogConfirmed \/ DialogDismissed \/ CloseErrorConfirmed \/ CloseErrorDismissed
    BY <1>6 DEF DialogConfirmed, DialogDismissed, DisconnectAndTurnOff, Disconnect, TurnOff,
       ReplacePromise, WaitOrSkip, WaitTime, CloseErrorConfirmed, TurnOn, CloseErrorDismissed
<1>7. CASE UserDisconnects \/ ToggleAutoConnect \/ SelfKick \/ SelfKickOffline
    BY <1>7 DEF UserDisconnects, Disconnect, Missed, ToggleAutoConnect, DisconnectAndTurnOff,
       TurnOff, TurnOn, ReplacePromise, SelfKick, SelfKickOffline, Unlink, Open
<1>8. CASE Unlinking
    BY <1>8 DEF Unlinking, DropSent, Open, DropAcknowledged, D2mOnlyOpens, D2mOnlyFails, LeaveRun,
       TurnOn, D2mOnlyDrops, D2mOnlyCloses, DroppedByOtherDevice
<1>9. CASE OldRuns
    BY <1>9 DEF OldRuns, OldRunEnds, RerunEnds
<1> QED
  BY <1>1, <1>2, <1>3, <1>4, <1>5, <1>6, <1>7, <1>8, <1>9 DEF Next, Timers, Transport, User

\* A step from one phase to the next brings the manager with it.
LEMMA PhaseStep ==
    ASSUME Inv, Next
    PROVE  PhaseOf'
<1> USE DEF Inv, TypeOK, GateTypes, ViewTypes, LinkTypes, KickTypes, FlagTypes, Event, Busy,
        Attempting, GateReady, linkVars, gateVars, viewVars, timeVars, kickVars, PhaseOf
<1>1. CASE StartAttempt
  BY <1>1 DEF StartAttempt, CarriedDone, GateReady
<1>2. CASE Reset
  BY <1>2 DEF Reset, LeaveRun, ResetReady, ReplaceDisconnected, HandleClose, WaitOrSkip, WaitTime,
     TurnOff, ReplacePromise
<1>3. CASE Fallback
  BY <1>3 DEF Fallback, FallbackReady, Unlink, TurnOff, ReplacePromise, Missed, Open
<1>4. CASE Tick
  BY <1>4 DEF Tick
<1>5. CASE Wake
  BY <1>5 DEF Wake
<1>6. CASE EstablishmentTimeout
  BY <1>6 DEF EstablishmentTimeout, NotEstablished, Missed
<1>7. CASE PipeAttached
  BY <1>7 DEF PipeAttached
<1>8. CASE CreateFails
  BY <1>8 DEF CreateFails, HandleClose, WaitOrSkip, WaitTime, TurnOff, ReplacePromise
<1>9. CASE CspComplete
  BY <1>9 DEF CspComplete, CspAdvances, Advance, Open, Missed
<1>10. CASE D2mComplete
  BY <1>10 DEF D2mComplete, Advance, Open, Missed
<1>11. CASE PromotedToLeader
  BY <1>11 DEF PromotedToLeader, Open
<1>12. CASE RemoteClose
  BY <1>12 DEF RemoteClose, Open, ClosingSequence, Causes
<1>13. CASE PipeError
  BY <1>13 DEF PipeError, Open, Missed, Causes
<1>14. CASE ClientCloses
  BY <1>14 DEF ClientCloses, Open, Missed, Causes
<1>15. CASE Drained
  BY <1>15 DEF Drained
<1>16. CASE ServerCloseError
  BY <1>16 DEF ServerCloseError, Open
<1>17. CASE ProcessCloseError
  BY <1>17 DEF ProcessCloseError, DisconnectAndTurnOff, Disconnect, TurnOff, ReplacePromise, Causes
<1>18. CASE DialogConfirmed
  BY <1>18 DEF DialogConfirmed
<1>19. CASE DialogDismissed
  BY <1>19 DEF DialogDismissed, DisconnectAndTurnOff, Disconnect, TurnOff, ReplacePromise,
     WaitOrSkip, WaitTime
<1>20. CASE CloseErrorConfirmed
  BY <1>20 DEF CloseErrorConfirmed, TurnOn
<1>21. CASE CloseErrorDismissed
  BY <1>21 DEF CloseErrorDismissed
<1>22. CASE UserDisconnects
  BY <1>22 DEF UserDisconnects, Disconnect, Missed
<1>23. CASE ToggleAutoConnect
  BY <1>23 DEF ToggleAutoConnect, DisconnectAndTurnOff, Disconnect, TurnOff, TurnOn, ReplacePromise
<1>24. CASE SelfKick
  BY <1>24 DEF SelfKick
<1>25. CASE SelfKickOffline
  BY <1>25 DEF SelfKickOffline, Unlink, TurnOff, ReplacePromise, Missed, Open
<1>26. CASE DropSent
  BY <1>26 DEF DropSent, Open
<1>27. CASE DropAcknowledged
  BY <1>27 DEF DropAcknowledged, Open
<1>28. CASE D2mOnlyOpens
  BY <1>28 DEF D2mOnlyOpens
<1>29. CASE D2mOnlyFails
  BY <1>29 DEF D2mOnlyFails, LeaveRun, TurnOn
<1>30. CASE D2mOnlyDrops
  BY <1>30 DEF D2mOnlyDrops
<1>31. CASE D2mOnlyCloses
  BY <1>31 DEF D2mOnlyCloses
<1>32. CASE DroppedByOtherDevice
  BY <1>32 DEF DroppedByOtherDevice
<1>33. CASE OldRuns
  BY <1>33 DEF OldRuns, OldRunEnds, RerunEnds
<1> QED
    BY <1>1, <1>2, <1>3, <1>4, <1>5, <1>6, <1>7, <1>8, <1>9, <1>10, <1>11, <1>12, <1>13, <1>14,
     <1>15, <1>16, <1>17, <1>18, <1>19, <1>20, <1>21, <1>22, <1>23, <1>24, <1>25, <1>26, <1>27,
     <1>28, <1>29, <1>30, <1>31, <1>32, <1>33
     DEF Next, Runner, Timers, Transport, User, Unlinking

\* Only at the gate is the awaited promise replaced.
LEMMA GateStep ==
    ASSUME Inv, Next
    PROVE  GateOf'
<1> USE DEF Inv, TypeOK, GateTypes, ViewTypes, LinkTypes, KickTypes, FlagTypes, Event, Busy,
        Attempting, GateReady, linkVars, gateVars, viewVars, timeVars, kickVars, GateOf
<1>1. CASE Runner
    BY <1>1 DEF Runner, StartAttempt, CarriedDone, GateReady, LeaveRun, Reset, ResetReady,
       ReplaceDisconnected, HandleClose, WaitOrSkip, WaitTime, TurnOff, ReplacePromise,
       Fallback, FallbackReady, Unlink, Missed, Open
<1>2. CASE Tick \/ Wake \/ EstablishmentTimeout
    BY <1>2 DEF Tick, Wake, EstablishmentTimeout, NotEstablished, Missed
<1>3. CASE PipeAttached \/ CreateFails \/ CspComplete \/ D2mComplete \/ PromotedToLeader
    BY <1>3 DEF PipeAttached, CreateFails, HandleClose, WaitOrSkip, WaitTime, TurnOff,
       ReplacePromise, CspComplete, CspAdvances, Advance, Open, Missed, D2mComplete,
       PromotedToLeader
<1>4. CASE RemoteClose \/ PipeError \/ ClientCloses \/ Drained
    BY <1>4 DEF RemoteClose, Open, ClosingSequence, Causes, PipeError, Missed, ClientCloses,
       Drained
<1>5. CASE ServerCloseError \/ ProcessCloseError
    BY <1>5 DEF ServerCloseError, Open, ProcessCloseError, DisconnectAndTurnOff, Disconnect,
       TurnOff, ReplacePromise, Causes
<1>6. CASE DialogConfirmed \/ DialogDismissed \/ CloseErrorConfirmed \/ CloseErrorDismissed
    BY <1>6 DEF DialogConfirmed, DialogDismissed, DisconnectAndTurnOff, Disconnect, TurnOff,
       ReplacePromise, WaitOrSkip, WaitTime, CloseErrorConfirmed, TurnOn, CloseErrorDismissed
<1>7. CASE UserDisconnects \/ ToggleAutoConnect \/ SelfKick \/ SelfKickOffline
    BY <1>7 DEF UserDisconnects, Disconnect, Missed, ToggleAutoConnect, DisconnectAndTurnOff,
       TurnOff, TurnOn, ReplacePromise, SelfKick, SelfKickOffline, Unlink, Open
<1>8. CASE Unlinking
    BY <1>8 DEF Unlinking, DropSent, Open, DropAcknowledged, D2mOnlyOpens, D2mOnlyFails, LeaveRun,
       TurnOn, D2mOnlyDrops, D2mOnlyCloses, DroppedByOtherDevice
<1>9. CASE OldRuns
    BY <1>9 DEF OldRuns, OldRunEnds, RerunEnds
<1> QED
  BY <1>1, <1>2, <1>3, <1>4, <1>5, <1>6, <1>7, <1>8, <1>9 DEF Next, Timers, Transport, User

\* A close error is decoded, or given up by who closes short; then nothing resolves.
LEMMA RefusalStep ==
    ASSUME Inv, Next
    PROVE  RefusalOf'
<1> USE DEF Inv, TypeOK, GateTypes, ViewTypes, LinkTypes, KickTypes, FlagTypes, Event, Busy,
        Attempting, GateReady, linkVars, gateVars, viewVars, timeVars, kickVars, GateOf, RefusalOf
<1>1. CASE StartAttempt
  BY <1>1 DEF StartAttempt, CarriedDone, GateReady
<1>2. CASE Reset
  BY <1>2 DEF Reset, LeaveRun, ResetReady, ReplaceDisconnected, HandleClose, WaitOrSkip, WaitTime,
     TurnOff, ReplacePromise
<1>3. CASE Fallback
  BY <1>3 DEF Fallback, FallbackReady, Unlink, TurnOff, ReplacePromise, Missed, Open
<1>4. CASE Tick
  BY <1>4 DEF Tick
<1>5. CASE Wake
  BY <1>5 DEF Wake
<1>6. CASE EstablishmentTimeout
  BY <1>6 DEF EstablishmentTimeout, NotEstablished, Missed
<1>7. CASE PipeAttached
  BY <1>7 DEF PipeAttached
<1>8. CASE CreateFails
  BY <1>8 DEF CreateFails, HandleClose, WaitOrSkip, WaitTime, TurnOff, ReplacePromise
<1>9. CASE CspComplete
  BY <1>9 DEF CspComplete, CspAdvances, Advance, Open, Missed
<1>10. CASE D2mComplete
  BY <1>10 DEF D2mComplete, Advance, Open, Missed
<1>11. CASE PromotedToLeader
  BY <1>11 DEF PromotedToLeader, Open
<1>12. CASE RemoteClose
  BY <1>12 DEF RemoteClose, Open, ClosingSequence, Causes
<1>13. CASE PipeError
  BY <1>13 DEF PipeError, Open, Missed, Causes
<1>14. CASE ClientCloses
  BY <1>14 DEF ClientCloses, Open, Missed, Causes
<1>15. CASE Drained
  BY <1>15 DEF Drained
<1>16. CASE ServerCloseError
  BY <1>16 DEF ServerCloseError, Open
<1>17. CASE ProcessCloseError
  BY <1>17 DEF ProcessCloseError, DisconnectAndTurnOff, Disconnect, TurnOff, ReplacePromise, Causes
<1>18. CASE DialogConfirmed
  BY <1>18 DEF DialogConfirmed
<1>19. CASE DialogDismissed
  BY <1>19 DEF DialogDismissed, DisconnectAndTurnOff, Disconnect, TurnOff, ReplacePromise,
     WaitOrSkip, WaitTime
<1>20. CASE CloseErrorConfirmed
  BY <1>20 DEF CloseErrorConfirmed, TurnOn
<1>21. CASE CloseErrorDismissed
  BY <1>21 DEF CloseErrorDismissed
<1>22. CASE UserDisconnects
  BY <1>22 DEF UserDisconnects, Disconnect, Missed
<1>23. CASE ToggleAutoConnect
  BY <1>23 DEF ToggleAutoConnect, DisconnectAndTurnOff, Disconnect, TurnOff, TurnOn, ReplacePromise
<1>24. CASE SelfKick
  BY <1>24 DEF SelfKick
<1>25. CASE SelfKickOffline
  BY <1>25 DEF SelfKickOffline, Unlink, TurnOff, ReplacePromise, Missed, Open
<1>26. CASE DropSent
  BY <1>26 DEF DropSent, Open
<1>27. CASE DropAcknowledged
  BY <1>27 DEF DropAcknowledged, Open
<1>28. CASE D2mOnlyOpens
  BY <1>28 DEF D2mOnlyOpens
<1>29. CASE D2mOnlyFails
  BY <1>29 DEF D2mOnlyFails, LeaveRun, TurnOn
<1>30. CASE D2mOnlyDrops
  BY <1>30 DEF D2mOnlyDrops
<1>31. CASE D2mOnlyCloses
  BY <1>31 DEF D2mOnlyCloses
<1>32. CASE DroppedByOtherDevice
  BY <1>32 DEF DroppedByOtherDevice
<1>33. CASE OldRuns
  BY <1>33 DEF OldRuns, OldRunEnds, RerunEnds
<1> QED
    BY <1>1, <1>2, <1>3, <1>4, <1>5, <1>6, <1>7, <1>8, <1>9, <1>10, <1>11, <1>12, <1>13, <1>14,
     <1>15, <1>16, <1>17, <1>18, <1>19, <1>20, <1>21, <1>22, <1>23, <1>24, <1>25, <1>26, <1>27,
     <1>28, <1>29, <1>30, <1>31, <1>32, <1>33
     DEF Next, Runner, Timers, Transport, User, Unlinking

-----------------------------------------------------------------------------
\* Theorems

\* The invariant is inductive.
LEMMA StepInv == Inv /\ [Next]_vars => Inv'
<1>1. ASSUME Inv, Next PROVE Inv'
  <2> USE <1>1
  <2>1. TypeOK'
    BY GateTypesStep, ViewTypesStep, LinkTypesStep, TimeTypesStep, KickTypesStep, FlagTypesStep
       DEF TypeOK
  <2> QED
    BY <2>1, PhaseStep, GateStep, RefusalStep DEF Inv
<1>2. ASSUME Inv, UNCHANGED vars PROVE Inv'
  BY <1>2 DEF vars, linkVars, gateVars, viewVars, timeVars, kickVars, Inv, TypeOK, GateTypes,
              ViewTypes, LinkTypes, TimeTypes, KickTypes, FlagTypes, PhaseOf, GateOf, RefusalOf,
              Attempting
<1> QED
  BY <1>1, <1>2

\* The inductive invariant holds in every reachable state.
THEOREM InvAlways == Spec => []Inv
BY InitInv, StepInv, PTL DEF Spec

\* Every variable has its type.
THEOREM TypeCorrect == Spec => []TypeOK
<1>1. Inv => TypeOK
  BY DEF Inv
<1> QED
  BY <1>1, InvAlways, PTL

\* Only three steps end a runner that had one connection at a time, and two of
\* them do not, by what PhaseOf says of their assertions.
LEMMA EndingStep ==
    ASSUME Inv, Next, phase' = "dead", phase # "dead"
    PROVE  (Reset /\ cause = "fatal") \/ (StartAttempt /\ CarriedDone) \/ overlapped
<1> USE DEF Inv, PhaseOf, Attempting, linkVars, gateVars, viewVars, timeVars, kickVars
<1>1. CASE StartAttempt
  BY <1>1 DEF StartAttempt, GateReady
<1>2. CASE Reset
  BY <1>2 DEF Reset, ResetReady, HandleClose, WaitOrSkip
<1>3. CASE PipeAttached
  BY <1>3 DEF PipeAttached
<1>4. CASE CreateFails
  BY <1>4 DEF CreateFails, HandleClose, WaitOrSkip
<1>5. CASE Fallback \/ OldRuns
  BY <1>5 DEF Fallback, OldRuns, OldRunEnds, RerunEnds
<1>6. CASE Timers
  BY <1>6 DEF Timers, Tick, Wake, EstablishmentTimeout
<1>7. CASE CspComplete \/ D2mComplete \/ PromotedToLeader \/ RemoteClose \/ PipeError
              \/ ClientCloses \/ Drained \/ ServerCloseError \/ ProcessCloseError
  BY <1>7 DEF CspComplete, D2mComplete, PromotedToLeader, RemoteClose, PipeError, ClientCloses,
     Drained, ServerCloseError, ProcessCloseError
<1>8. CASE User
  BY <1>8 DEF User, DialogConfirmed, DialogDismissed, WaitOrSkip, CloseErrorConfirmed,
     CloseErrorDismissed, UserDisconnects, ToggleAutoConnect, SelfKick, SelfKickOffline
<1>9. CASE Unlinking
  BY <1>9 DEF Unlinking, DropSent, DropAcknowledged, D2mOnlyOpens, D2mOnlyFails, D2mOnlyDrops,
     D2mOnlyCloses, DroppedByOtherDevice
<1> QED
  BY <1>1, <1>2, <1>3, <1>4, <1>5, <1>6, <1>7, <1>8, <1>9 DEF Next, Runner, Transport

\* The runner returns only for a close code that demands it, in an attempt that
\* takes over a task whose promise is done, or once two connections existed at
\* the same time.
THEOREM RunnerReturnsOnlyIf == Spec => RunnerSurvives
<1>1. Inv /\ [Next]_vars =>
        [phase' = "dead" /\ phase # "dead" =>
            \/ Reset /\ cause = "fatal"
            \/ StartAttempt /\ CarriedDone
            \/ overlapped]_vars
  BY EndingStep
<1> QED
  BY <1>1, InvAlways, PTL DEF Spec, RunnerSurvives

\* What the manager shows is what its one connection is in.
THEOREM StateIsTruthful == Spec => []StateTruthful
<1>1. Inv => StateTruthful
  BY DEF Inv, TypeOK, GateTypes, PhaseOf, StateTruthful, Attempting
<1> QED
  BY <1>1, InvAlways, PTL

\* No attempt starts while a CLOSE_ERROR forbids to reconnect and the user has
\* not agreed.
THEOREM CloseErrorObeyed == Spec => CloseErrorHonoured
<1>1. Inv /\ [Next]_vars => [StartAttempt => ~refused]_vars
  BY DEF Inv, RefusalOf, StartAttempt, GateReady
<1> QED
  BY <1>1, InvAlways, PTL DEF Spec, CloseErrorHonoured
================================================================================
