-------------------------- MODULE NegotiationProofs --------------------------
(***************************************************************************)
(* Facts about default.c for every set of modes, every peripheral and any  *)
(* number of power failures.  Whatever the peripheral does, the data lines *)
(* never have two drivers, and what ieee1284_negotiate returns agrees with *)
(* the mode it recorded.  With a peripheral that answers in time and stays *)
(* on, the two ends of the cable keep step: Sync says where the peripheral *)
(* is and what the lines are at every label of the host.                   *)
(***************************************************************************)
EXTENDS Negotiation, TLAPS

Requesting == {"n_ev1", "n_ev2", "n_ev3", "n_ev4", "n_ev6", "n_ev5"}
SettingUp  == {"n_ev30", "n_ev31"}
Dropped    == {"t_ev24", "t_ev26", "t_ev27", "t_ev28"}
Leaving    == {"t_first", "t_ev22"} \cup Dropped
Reversing  == {"f_ev38", "f_dir", "f_ev39", "f_ev40"}
Forwarding == {"r_ev47", "r_ev49"}

\* Why no two drivers: nInit, which lets the peripheral drive, is low only while
\* the host's drivers are off, and they go on only at event 49, where PError is
\* high, which a peripheral that drives keeps low.
DirInv ==
  /\ pst = "rev" => reverse /\ "PError" \notin status
  /\ "nInit" \notin ctl => reverse
  /\ pc = "r_ev49" => "nInit" \in ctl
  /\ pc = "f_ev39" => reverse

\* A negotiation that leaves through termination has no success to report, but
\* for the one that was asked for compatibility mode.
OnlyCompat == call = "negotiate" /\ ret = "OK" => asked = COMPAT

ResultInv ==
  /\ pc \in Requesting \cup SettingUp => call = "negotiate" /\ ret = "NEGFAILED"
  /\ pc \in SettingUp => mode = asked
  /\ pc \in Leaving => OnlyCompat
  /\ pc \in Dropped => mode = COMPAT
  /\ pc \in Reversing => call = "fwd_to_rev"
  /\ pc \in Forwarding => IF back = "idle" THEN call = "rev_to_fwd" ELSE OnlyCompat
  /\ ResultMatchesMode

-----------------------------------------------------------------------------

\* The request byte is a byte, whatever the mode.
LEMMA RequestByteType == \A m \in Nat : RequestByte(m) \in 0 .. 255
<1> SUFFICES ASSUME NEW m \in Nat PROVE RequestByte(m) \in 0 .. 255
  OBVIOUS
<1>1. RequestCode(m) \in Nat
  BY DEF RequestCode, EXT_LINK, ECPSWE, ECP, EPPSL, EPPSWE, EPP, BECP
<1> QED
  BY <1>1 DEF RequestByte

\* The initial state satisfies every part of the invariant.
LEMMA InitInv == Init => TypeOK /\ DirInv /\ ResultInv
<1> SUFFICES ASSUME Init PROVE TypeOK /\ DirInv /\ ResultInv
  OBVIOUS
<1> USE DEF Init
<1>1. TypeOK
  <2>1. /\ pc \in HostLabels /\ ret \in Results /\ phase \in Phases
        /\ pst \in PeriphStates /\ call = "none" /\ back = "idle"
    BY DEF HostLabels, Results, Phases, PeriphStates
  <2>2. ctl \subseteq ControlLines /\ status \subseteq StatusLines
    BY DEF IdleLines, IdleStatus, ControlLines, StatusLines
  <2>3. asked \in Modes /\ mode \in Modes \cup {NIBBLE, BYTE} /\ faults \in 0 .. MaxFaults
    BY ModesAssumption, FaultsAssumption
  <2>4. reverse \in BOOLEAN /\ timely \in BOOLEAN
    OBVIOUS
  <2>5. data \in 0 .. 255 /\ latch \in (0 .. 255) \cup {NoByte}
    OBVIOUS
  <2> HIDE DEF Init
  <2> QED
    BY <2>1, <2>2, <2>3, <2>4, <2>5 DEF TypeOK
<1>2. DirInv
  BY DEF DirInv, IdleLines
<1>3. ResultInv
  BY DEF ResultInv, ResultMatchesMode, OnlyCompat, Requesting, SettingUp, Dropped,
         Leaving, Reversing, Forwarding
<1> QED
  BY <1>1, <1>2, <1>3

\* Every step keeps the types.
LEMMA TypeStep == TypeOK /\ [Next]_vars => TypeOK'
<1> SUFFICES ASSUME TypeOK, [Next]_vars PROVE TypeOK'
  OBVIOUS
<1> USE ModesAssumption, AcceptsAssumption, FaultsAssumption
      DEF TypeOK, Goto, host, wires, periph, HostLabels, Results, Phases,
     ControlLines, StatusLines, PeriphStates, Session
<1>1. CASE Terminate
  BY <1>1 DEF Terminate
<1>2. CASE FwdToRev
  BY <1>2 DEF FwdToRev
<1>3. CASE RevToFwd
  BY <1>3 DEF RevToFwd
<1>4. ASSUME NEW m \in Modes, Negotiate(m) PROVE TypeOK'
  BY <1>4, RequestByteType DEF Negotiate, MayNegotiate
<1>5. CASE Event1
  BY <1>5 DEF Event1, Control, Frob
<1>6. CASE Event2
  BY <1>6 DEF Event2, Wait, Matches, TimesOut
<1>7. CASE Event3
  <2>1. latch' \in (0 .. 255) \cup {NoByte}
    <3>1. CASE pst = "request" /\ reverse
      BY <1>7, <3>1 DEF Event3
    <3>2. CASE pst = "request" /\ ~reverse
      BY <1>7, <3>2 DEF Event3
    <3>3. CASE pst # "request"
      BY <1>7, <3>3 DEF Event3
    <3> QED
      BY <3>1, <3>2, <3>3
  <2> QED
    BY <1>7, <2>1 DEF Event3, Frob
<1>8. CASE Event4
  BY <1>8 DEF Event4, Control, Frob
<1>9. CASE Event6
  BY <1>9 DEF Event6, Wait, Matches, TimesOut
<1>10. CASE Event5
  BY <1>10 DEF Event5, NIBBLE, BYTE
<1>11. CASE Event30
  BY <1>11 DEF Event30, Control, Frob
<1>12. CASE Event31
  BY <1>12 DEF Event31, Matches, TimesOut
<1>13. CASE TerminateFromForward
  BY <1>13 DEF TerminateFromForward
<1>14. CASE Event22
  BY <1>14 DEF Event22, WriteControl, IdleLines
<1>15. CASE Event24
  BY <1>15 DEF Event24, Wait, Matches, TimesOut
<1>16. CASE Event26
  BY <1>16 DEF Event26, Control, WriteControl
<1>17. CASE Event27
  BY <1>17 DEF Event27, Wait, Matches, TimesOut
<1>18. CASE Event28
  BY <1>18 DEF Event28, Control, WriteControl, IdleLines
<1>19. CASE Event38
  BY <1>19 DEF Event38, Control, Frob
<1>20. CASE DriversOff
  BY <1>20 DEF DriversOff
<1>21. CASE Event39
  BY <1>21 DEF Event39, Control, Frob
<1>22. CASE Event40
  BY <1>22 DEF Event40, Matches, TimesOut
<1>23. CASE Event47
  BY <1>23 DEF Event47, Control, Frob
<1>24. CASE Event49
  <2>1. pc' \in HostLabels /\ back' \in {"idle", "t_ev22"}
    BY <1>24 DEF Event49
  <2>2. ret' \in Results /\ phase' \in Phases /\ reverse' \in BOOLEAN
    BY <1>24 DEF Event49, Matches, TimesOut
  <2> QED
    BY <1>24, <2>1, <2>2 DEF Event49
<1>25. CASE Recognise
  BY <1>25 DEF Recognise, React
<1>26. CASE Answer
  BY <1>26 DEF Answer, React
<1>27. CASE Abandon
  BY <1>27 DEF Abandon, React, IdleStatus
<1>28. CASE BeginTermination
  BY <1>28 DEF BeginTermination, React, Session
<1>29. CASE EndTermination
  BY <1>29 DEF EndTermination, React, IdleStatus
<1>30. CASE SetUpECP
  BY <1>30 DEF SetUpECP, React
<1>31. CASE ReverseBus
  BY <1>31 DEF ReverseBus, React
<1>32. CASE ForwardBus
  BY <1>32 DEF ForwardBus, React
<1>33. CASE SwitchOff
  BY <1>33 DEF SwitchOff
<1>34. CASE SwitchOn
  BY <1>34 DEF SwitchOn, IdleStatus
<1>35. CASE UNCHANGED vars
  BY <1>35 DEF vars
<1> QED
  BY <1>1, <1>2, <1>3, <1>4, <1>5, <1>6, <1>7, <1>8, <1>9, <1>10, <1>11, <1>12,
     <1>13, <1>14, <1>15, <1>16, <1>17, <1>18, <1>19, <1>20, <1>21, <1>22, <1>23,
     <1>24, <1>25, <1>26, <1>27, <1>28, <1>29, <1>30, <1>31, <1>32, <1>33, <1>34,
     <1>35
  DEF Next, AppCall, HostStep, NegotiateStep, TerminateStep, DirectionStep, Respond

\* Every step keeps the direction of the data lines.
LEMMA DirStep == TypeOK /\ DirInv /\ [Next]_vars => DirInv'
<1> SUFFICES ASSUME TypeOK, DirInv, [Next]_vars PROVE DirInv'
  OBVIOUS
<1> USE DEF DirInv, Goto, host, wires, periph, TypeOK, HostLabels
<1>1. CASE Terminate
  BY <1>1 DEF Terminate
<1>2. CASE FwdToRev
  BY <1>2 DEF FwdToRev
<1>3. CASE RevToFwd
  BY <1>3 DEF RevToFwd
<1>4. ASSUME NEW m \in Modes, Negotiate(m) PROVE DirInv'
  BY <1>4 DEF Negotiate
<1>5. CASE Event1
  BY <1>5 DEF Event1, Control, Frob
<1>6. CASE Event2
  BY <1>6 DEF Event2, Wait, Matches, TimesOut
<1>7. CASE Event3
  BY <1>7 DEF Event3, Frob
<1>8. CASE Event4
  BY <1>8 DEF Event4, Control, Frob
<1>9. CASE Event6
  BY <1>9 DEF Event6, Wait, Matches, TimesOut
<1>10. CASE Event5
  BY <1>10 DEF Event5
<1>11. CASE Event30
  BY <1>11 DEF Event30, Control, Frob
<1>12. CASE Event31
  BY <1>12 DEF Event31, Matches, TimesOut
<1>13. CASE TerminateFromForward
  BY <1>13 DEF TerminateFromForward
<1>14. CASE Event22
  BY <1>14 DEF Event22, WriteControl, IdleLines
<1>15. CASE Event24
  BY <1>15 DEF Event24, Wait, Matches, TimesOut
<1>16. CASE Event26
  BY <1>16 DEF Event26, Control, WriteControl
<1>17. CASE Event27
  BY <1>17 DEF Event27, Wait, Matches, TimesOut
<1>18. CASE Event28
  BY <1>18 DEF Event28, Control, WriteControl, IdleLines
<1>19. CASE Event38
  BY <1>19 DEF Event38, Control, Frob
<1>20. CASE DriversOff
  BY <1>20 DEF DriversOff
<1>21. CASE Event39
  BY <1>21 DEF Event39, Control, Frob
<1>22. CASE Event40
  BY <1>22 DEF Event40, Matches, TimesOut
<1>23. CASE Event47
  BY <1>23 DEF Event47, Control, Frob
<1>24. CASE Event49
  BY <1>24 DEF Event49, Matches, TimesOut
<1>25. CASE Recognise
  BY <1>25 DEF Recognise, React
<1>26. CASE Answer
  BY <1>26 DEF Answer, React
<1>27. CASE Abandon
  BY <1>27 DEF Abandon, React
<1>28. CASE BeginTermination
  BY <1>28 DEF BeginTermination, React, Session
<1>29. CASE EndTermination
  BY <1>29 DEF EndTermination, React
<1>30. CASE SetUpECP
  BY <1>30 DEF SetUpECP, React
<1>31. CASE ReverseBus
  BY <1>31 DEF ReverseBus, React
<1>32. CASE ForwardBus
  BY <1>32 DEF ForwardBus, React
<1>33. CASE SwitchOff
  BY <1>33 DEF SwitchOff
<1>34. CASE SwitchOn
  BY <1>34 DEF SwitchOn
<1>35. CASE UNCHANGED vars
  BY <1>35 DEF vars
<1> QED
  BY <1>1, <1>2, <1>3, <1>4, <1>5, <1>6, <1>7, <1>8, <1>9, <1>10, <1>11, <1>12,
     <1>13, <1>14, <1>15, <1>16, <1>17, <1>18, <1>19, <1>20, <1>21, <1>22, <1>23,
     <1>24, <1>25, <1>26, <1>27, <1>28, <1>29, <1>30, <1>31, <1>32, <1>33, <1>34,
     <1>35
  DEF Next, AppCall, HostStep, NegotiateStep, TerminateStep, DirectionStep, Respond

\* Every step keeps what the calls report.
LEMMA ResultStep == TypeOK /\ ResultInv /\ [Next]_vars => ResultInv'
<1> SUFFICES ASSUME TypeOK, ResultInv, [Next]_vars PROVE ResultInv'
  OBVIOUS
<1> USE DEF ResultInv, ResultMatchesMode, Between, OnlyCompat, Requesting,
     SettingUp, Dropped, Leaving, Reversing, Forwarding, Goto, host, wires, periph,
     TypeOK, HostLabels
<1>1. CASE Terminate
  BY <1>1 DEF Terminate
<1>2. CASE FwdToRev
  BY <1>2 DEF FwdToRev
<1>3. CASE RevToFwd
  BY <1>3 DEF RevToFwd
<1>4. ASSUME NEW m \in Modes, Negotiate(m) PROVE ResultInv'
  BY <1>4 DEF Negotiate
<1>5. CASE Event1
  BY <1>5 DEF Event1, Control, Frob
<1>6. CASE Event2
  BY <1>6 DEF Event2, Wait, Matches, TimesOut
<1>7. CASE Event3
  BY <1>7 DEF Event3, Frob
<1>8. CASE Event4
  BY <1>8 DEF Event4, Control, Frob
<1>9. CASE Event6
  BY <1>9 DEF Event6, Wait, Matches, TimesOut
<1>10. CASE Event5
  BY <1>10 DEF Event5
<1>11. CASE Event30
  BY <1>11 DEF Event30, Control, Frob
<1>12. CASE Event31
  BY <1>12 DEF Event31, Matches, TimesOut
<1>13. CASE TerminateFromForward
  BY <1>13 DEF TerminateFromForward
<1>14. CASE Event22
  BY <1>14 DEF Event22, WriteControl, IdleLines
<1>15. CASE Event24
  BY <1>15 DEF Event24, Wait, Matches, TimesOut
<1>16. CASE Event26
  BY <1>16 DEF Event26, Control, WriteControl
<1>17. CASE Event27
  BY <1>17 DEF Event27, Wait, Matches, TimesOut
<1>18. CASE Event28
  BY <1>18 DEF Event28, Control, WriteControl, IdleLines
<1>19. CASE Event38
  BY <1>19 DEF Event38, Control, Frob
<1>20. CASE DriversOff
  BY <1>20 DEF DriversOff
<1>21. CASE Event39
  BY <1>21 DEF Event39, Control, Frob
<1>22. CASE Event40
  BY <1>22 DEF Event40, Matches, TimesOut
<1>23. CASE Event47
  BY <1>23 DEF Event47, Control, Frob
<1>24. CASE Event49
  BY <1>24 DEF Event49, Matches, TimesOut
<1>25. CASE Recognise
  BY <1>25 DEF Recognise, React
<1>26. CASE Answer
  BY <1>26 DEF Answer, React
<1>27. CASE Abandon
  BY <1>27 DEF Abandon, React
<1>28. CASE BeginTermination
  BY <1>28 DEF BeginTermination, React, Session
<1>29. CASE EndTermination
  BY <1>29 DEF EndTermination, React
<1>30. CASE SetUpECP
  BY <1>30 DEF SetUpECP, React
<1>31. CASE ReverseBus
  BY <1>31 DEF ReverseBus, React
<1>32. CASE ForwardBus
  BY <1>32 DEF ForwardBus, React
<1>33. CASE SwitchOff
  BY <1>33 DEF SwitchOff
<1>34. CASE SwitchOn
  BY <1>34 DEF SwitchOn
<1>35. CASE UNCHANGED vars
  BY <1>35 DEF vars
<1> QED
  BY <1>1, <1>2, <1>3, <1>4, <1>5, <1>6, <1>7, <1>8, <1>9, <1>10, <1>11, <1>12,
     <1>13, <1>14, <1>15, <1>16, <1>17, <1>18, <1>19, <1>20, <1>21, <1>22, <1>23,
     <1>24, <1>25, <1>26, <1>27, <1>28, <1>29, <1>30, <1>31, <1>32, <1>33, <1>34,
     <1>35
  DEF Next, AppCall, HostStep, NegotiateStep, TerminateStep, DirectionStep, Respond

-----------------------------------------------------------------------------

\* The conjunction is invariant.
THEOREM Invariance == Spec => [](TypeOK /\ DirInv /\ ResultInv)
<1> DEFINE All == TypeOK /\ DirInv /\ ResultInv
<1>1. Init => All
  BY InitInv
<1>2. All /\ [Next]_vars => All'
  BY TypeStep, DirStep, ResultStep
<1> QED
  BY <1>1, <1>2, PTL DEF Spec

\* default.c keeps its variables in range: the byte on the data lines, the mode.
THEOREM TypeCorrect == Spec => []TypeOK
  BY Invariance, PTL

\* The data lines never have two drivers.
THEOREM OneDriver == Spec => []NoContention
<1>1. DirInv => NoContention
  BY DEF DirInv, NoContention, Drives
<1> QED
  BY <1>1, Invariance, PTL

\* ieee1284_negotiate returns success exactly with the mode recorded as asked.
THEOREM ResultIsMode == Spec => []ResultMatchesMode
<1>1. ResultInv => ResultMatchesMode
  BY DEF ResultInv
<1> QED
  BY <1>1, Invariance, PTL

-----------------------------------------------------------------------------
\* The lines of a request, and those of the last handshake of a session.
RequestLines == {"nSelectIn", "nStrobe", "nInit"}
EndLines     == {"nInit", "nStrobe"}

\* How far the peripheral has come.
Quiet == pst = "compat" /\ status = IdleStatus
Hears == pst = "request" /\ status = {"PError", "Select", "nFault"}
Answered ==
  /\ pst = (IF latch \notin Accepts THEN "refused"
            ELSE IF AsksForECP(latch) THEN "setup" ELSE "mode")
  /\ "nAck" \in status /\ "PError" \notin status
  /\ ("Select" \in status) = (latch \in Accepts \ {NIBBLE})
Setting ==
  /\ "nAck" \in status
  /\ \/ pst = "setup" /\ "PError" \notin status
     \/ pst = "fwd" /\ "PError" \in status
Ending == pst = "ending" /\ "nAck" \notin status

\* The bus is not reversed, and the library does not think so.
Still == ~reverse /\ phase # "REV_IDLE"

\* No session, and a session that may be left.
Alone == Quiet /\ ctl = IdleLines /\ Still
InSession ==
  /\ pst \in {"mode", "refused", "fwd", "rev"} /\ "nAck" \in status
  /\ {"nSelectIn", "nStrobe"} \subseteq ctl

\* PError tells the direction of an ECP session, between calls so does
\* port->current_phase, and nInit has last been set to match.
PErrorIsDirection ==
  /\ pst = "rev" => "PError" \notin status
  /\ pst = "fwd" => "PError" \in status
PhaseIsDirection ==
  /\ PErrorIsDirection
  /\ pst = "rev" => phase = "REV_IDLE"
  /\ pst = "fwd" => phase = "FWD_IDLE"
Settled ==
  /\ InSession /\ PhaseIsDirection
  /\ IF pst = "rev" THEN "nInit" \notin ctl ELSE "nInit" \in ctl /\ Still

\* The peripheral's answer to the byte of a mode is a yes: that Select is low means
\* yes for nibble mode alone.
Taken(m) == RequestByte(m) \in Accepts /\ (RequestByte(m) = NIBBLE => m = NIBBLE)

\* The session is the one that port->current_mode names.
Linked ==
  /\ pst \in {"mode", "fwd", "rev"}
  /\ latch = RequestByte(mode) /\ Taken(mode) /\ mode # COMPAT
  /\ (pst = "mode") = ~AsksForECP(latch)

InEcpSession == InSession /\ pst \in {"fwd", "rev"}

\* No session: in compatibility mode, or as add_port left the port.
Unasked == mode = COMPAT \/ (mode = NIBBLE /\ (TerminateFirst => call = "none"))

\* Events 1 to 6, 30 and 31.
NegotiateSync ==
  /\ pc = "n_ev1" => Alone
  /\ pc = "n_ev2" => ctl = RequestLines /\ (Quiet \/ (Hears /\ latch = NoByte))
  /\ pc = "n_ev3" => ctl = RequestLines /\ Hears /\ latch = NoByte
  /\ pc = "n_ev4" => ctl = {"nSelectIn", "nInit"} /\ Hears /\ latch = data
  /\ pc = "n_ev6" => ctl = ControlLines /\ latch = data /\ (Hears \/ Answered)
  /\ pc = "n_ev5" => ctl = ControlLines /\ latch = data /\ Answered
  /\ pc = "n_ev30" => ctl = ControlLines /\ pst = "setup" /\ Setting
  /\ pc = "n_ev31" => ctl = RequestLines /\ Setting
  /\ pc \in Requesting => Still /\ data = RequestByte(asked)
  /\ pc \in SettingUp =>
       Still /\ latch = RequestByte(asked) /\ Taken(asked) /\ AsksForECP(latch)

\* From t_ev24 on a session may not have noticed yet that nSelectIn is low.
TerminateSync ==
  /\ pc = "t_first" => Alone \/ Settled
  /\ pc = "t_ev22" => Alone \/ (Settled /\ pst # "rev")
  /\ pc = "t_ev24" =>
       /\ ctl = IdleLines
       /\ Quiet \/ Ending \/ (pst \in {"mode", "refused", "fwd"} /\ "nAck" \in status)
  /\ pc = "t_ev26" => ctl = IdleLines /\ Ending
  /\ pc = "t_ev27" => ctl = EndLines /\ (Quiet \/ Ending)
  /\ pc = "t_ev28" => ctl = EndLines /\ Quiet
  /\ pc \in Dropped => Still

\* Until event 40 or 49 the bus may be in either direction.
DirectionSync ==
  /\ pc \in {"f_ev38", "f_dir"} => Settled
  /\ pc \in Reversing => InEcpSession /\ Linked /\ PErrorIsDirection
  /\ pc = "f_ev39" /\ pst = "rev" => "nInit" \notin ctl
  /\ pc = "f_ev40" => "nInit" \notin ctl
  /\ pc = "r_ev47" => Settled
  /\ pc = "r_ev49" => "nInit" \in ctl
  /\ pc \in Forwarding =>
       /\ InEcpSession /\ PErrorIsDirection
       /\ back = "idle" => Linked

Sync ==
  /\ call = "none" => pc = "idle" /\ Alone
  /\ pc = "idle" => (Settled /\ Linked) \/ (Alone /\ Unasked)
  /\ NegotiateSync /\ TerminateSync /\ DirectionSync

\* Whatever the peripheral does: the lines after event 22 and in compatibility mode.
LinesInv ==
  /\ pc \in Requesting \cup SettingUp => asked # COMPAT
  /\ pc \in Dropped \/ (pc = "idle" /\ mode = COMPAT) =>
       ctl \cap {"nSelectIn", "nStrobe", "nInit"} = {"nStrobe", "nInit"}
  /\ pc \in Reversing \/ (pc \in Forwarding /\ back = "idle") => mode # COMPAT

\* What the last negotiation is to return.
Verdict == call = "negotiate" /\ asked # COMPAT =>
  ret = IF Taken(asked) THEN "OK" ELSE "REJECTED"

VerdictInv == pc \in {"idle"} \cup Leaving \cup Forwarding => Verdict

-----------------------------------------------------------------------------

\* The modes with a direction are sessions.
LEMMA EcpIsNotCompat == InECP => mode # COMPAT
BY DEF InECP, AsksForECP, RequestCode, COMPAT, EXT_LINK, ECPSWE, EPPSL, EPPSWE, BECP, ECP

\* Every step keeps the lines of a port that is in compatibility mode.
LEMMA LinesStep == TypeOK /\ ResultInv /\ LinesInv /\ [Next]_vars => LinesInv'
<1> SUFFICES ASSUME TypeOK, ResultInv, LinesInv, [Next]_vars PROVE LinesInv'
  OBVIOUS
<1> USE DEF LinesInv, Goto, host, wires, periph, TypeOK, HostLabels, Requesting, SettingUp,
     Dropped, Reversing, Forwarding, IdleLines, COMPAT, NIBBLE, BYTE
<1>1. CASE Terminate
  BY <1>1 DEF Terminate
<1>2. CASE FwdToRev
  BY <1>2, EcpIsNotCompat DEF FwdToRev
<1>3. CASE RevToFwd
  BY <1>3, EcpIsNotCompat DEF RevToFwd
<1>4. ASSUME NEW m \in Modes, Negotiate(m) PROVE LinesInv'
  BY <1>4 DEF Negotiate, MayNegotiate
<1>5. CASE Event1
  BY <1>5 DEF Event1, Control, Frob
<1>6. CASE Event2
  BY <1>6 DEF Event2, Wait, Matches, TimesOut, PeripheralOwes
<1>7. CASE Event3
  BY <1>7 DEF Event3, Frob
<1>8. CASE Event4
  BY <1>8 DEF Event4, Control, Frob
<1>9. CASE Event6
  BY <1>9 DEF Event6, Wait, Matches, TimesOut, PeripheralOwes
<1>10. CASE Event5
  <2>1. pc = "n_ev5" /\ asked # COMPAT /\ UNCHANGED <<asked, ctl>>
    BY <1>10 DEF Event5
  <2>2. pc' = "t_first" \/ (pc' \in {"n_ev30", "idle"} /\ mode' = asked)
    BY <1>10 DEF Event5
  <2> QED
    BY <2>1, <2>2
<1>11. CASE Event30
  BY <1>11 DEF Event30, Control, Frob
<1>12. CASE Event31
  BY <1>12 DEF ResultInv, Event31, Matches, TimesOut, PeripheralOwes
<1>13. CASE TerminateFromForward
  BY <1>13 DEF TerminateFromForward
<1>14. CASE Event22
  BY <1>14 DEF Event22, WriteControl
<1>15. CASE Event24
  BY <1>15 DEF Event24, Wait, Matches, TimesOut, PeripheralOwes
<1>16. CASE Event26
  BY <1>16 DEF Event26, Control, WriteControl
<1>17. CASE Event27
  BY <1>17 DEF Event27, Wait, Matches, TimesOut, PeripheralOwes
<1>18. CASE Event28
  BY <1>18 DEF Event28, Control, WriteControl
<1>19. CASE Event38
  BY <1>19 DEF Event38, Control, Frob
<1>20. CASE DriversOff
  BY <1>20 DEF DriversOff
<1>21. CASE Event39
  BY <1>21 DEF Event39, Control, Frob
<1>22. CASE Event40
  BY <1>22 DEF Event40, Matches, TimesOut, PeripheralOwes
<1>23. CASE Event47
  BY <1>23 DEF Event47, Control, Frob
<1>24. CASE Event49
  BY <1>24 DEF Event49, Matches, TimesOut, PeripheralOwes
<1>25. CASE Recognise
  BY <1>25 DEF Recognise, React
<1>26. CASE Answer
  BY <1>26 DEF Answer, React
<1>27. CASE Abandon
  BY <1>27 DEF Abandon, React
<1>28. CASE BeginTermination
  BY <1>28 DEF BeginTermination, React
<1>29. CASE EndTermination
  BY <1>29 DEF EndTermination, React
<1>30. CASE SetUpECP
  BY <1>30 DEF SetUpECP, React
<1>31. CASE ReverseBus
  BY <1>31 DEF ReverseBus, React
<1>32. CASE ForwardBus
  BY <1>32 DEF ForwardBus, React
<1>33. CASE SwitchOff
  BY <1>33 DEF SwitchOff
<1>34. CASE SwitchOn
  BY <1>34 DEF SwitchOn
<1>35. CASE UNCHANGED vars
  BY <1>35 DEF vars
<1> QED
  BY <1>1, <1>2, <1>3, <1>4, <1>5, <1>6, <1>7, <1>8, <1>9, <1>10, <1>11, <1>12,
     <1>13, <1>14, <1>15, <1>16, <1>17, <1>18, <1>19, <1>20, <1>21, <1>22, <1>23,
     <1>24, <1>25, <1>26, <1>27, <1>28, <1>29, <1>30, <1>31, <1>32, <1>33, <1>34,
     <1>35
  DEF Next, AppCall, HostStep, NegotiateStep, TerminateStep, DirectionStep, Respond

\* The bit that asks for ECP is in the low byte.
LEMMA AskedByItsByte ==
  ASSUME NEW m \in Nat
  PROVE  AsksForECP(RequestByte(m)) = AsksForECP(RequestCode(m))
<1> DEFINE c == RequestCode(m)
<1>1. c \in Nat
  BY DEF RequestCode, EXT_LINK, ECPSWE, ECP, EPPSL, EPPSWE, EPP, BECP
<1> HIDE DEF c
<1>2. ((c % 256) \div 16) % 2 = (c \div 16) % 2
  BY <1>1
<1> QED
  BY <1>2 DEF RequestByte, AsksForECP, ECP, c

\* A request for nibble mode is one for nibble mode.
LEMMA NibbleIsItself == RequestByte(NIBBLE) = NIBBLE /\ ~AsksForECP(NIBBLE)
BY DEF RequestByte, RequestCode, AsksForECP, NIBBLE, ECP, EXT_LINK, ECPSWE, EPPSL, EPPSWE, BECP

\* A mode with a direction is that of a session with one.
LEMMA EcpSession ==
  ASSUME TypeOK, Sync, InECP, pc = "idle"
  PROVE  Settled /\ Linked /\ InEcpSession
<1>1. mode \in Nat
  BY ModesAssumption DEF TypeOK, NIBBLE, BYTE
<1>2. AsksForECP(RequestByte(mode))
  BY <1>1, AskedByItsByte DEF InECP
<1>3. mode # COMPAT /\ mode # NIBBLE
  BY EcpIsNotCompat, <1>2, NibbleIsItself
<1> QED
  BY <1>2, <1>3 DEF Sync, Settled, Linked, InEcpSession, InSession, Unasked

\* Every step keeps the ends in step: a wait is cut short only where the peripheral owes
\* nothing, so each of its two outcomes belongs to one state of the peripheral.
LEMMA SyncStep ==
  TypeOK /\ ResultInv /\ LinesInv /\ Sync /\ Faultless /\ Faultless' /\ [Next]_vars => Sync'
<1> SUFFICES ASSUME TypeOK, ResultInv, LinesInv, Sync, Faultless, Faultless', [Next]_vars
             PROVE  Sync'
  OBVIOUS
<1> USE DEF Sync, NegotiateSync, TerminateSync, DirectionSync, Goto, host, wires, periph,
     Requesting, SettingUp, Dropped, Reversing, Forwarding, Quiet, Hears, Answered, Setting,
     Ending, Still, Alone, InSession, PErrorIsDirection, PhaseIsDirection, Settled, Linked,
     InEcpSession, Unasked, RequestLines, EndLines, IdleLines, ControlLines, IdleStatus
<1>1. CASE Terminate
  BY <1>1 DEF Terminate
<1>2. CASE FwdToRev
  <2>1. Settled /\ Linked /\ InEcpSession
    BY <1>2, EcpSession DEF FwdToRev
  <2>2. /\ pc' = "f_ev38" /\ UNCHANGED <<mode, phase, ctl, reverse, status, pst, latch>>
        /\ call' # "none"
    BY <1>2 DEF FwdToRev
  <2> QED
    BY <2>1, <2>2
<1>3. CASE RevToFwd
  <2>1. Settled /\ Linked /\ InEcpSession
    BY <1>3, EcpSession DEF RevToFwd
  <2>2. /\ pc' = "r_ev47" /\ UNCHANGED <<mode, phase, ctl, reverse, status, pst, latch>>
        /\ call' # "none"
    BY <1>3 DEF RevToFwd
  <2> QED
    BY <2>1, <2>2
<1>4. ASSUME NEW m \in Modes, Negotiate(m) PROVE Sync'
  <2>1. pc = "idle" /\ call' = "negotiate" /\ asked' = m
        /\ UNCHANGED <<mode, phase, ctl, reverse, status, pst, latch>>
    BY <1>4 DEF Negotiate
  <2>2. CASE m = mode /\ pc' = "idle"
    <3>1. mode = NIBBLE /\ m # COMPAT /\ (TerminateFirst => call = "none") => ~TerminateFirst
      BY <1>4, <2>2 DEF Negotiate, MayNegotiate
    <3>2. Unasked => Unasked'
      BY <1>4, <2>1 DEF Negotiate, MayNegotiate
    <3> QED
      BY <2>1, <2>2, <3>2
  <2>3. CASE m # mode /\ m = COMPAT /\ pc' = "t_first"
    BY <2>1, <2>3
  <2>4. CASE m # mode /\ m # COMPAT /\ pc' = "n_ev1" /\ data' = RequestByte(m)
    <3>1. mode = COMPAT \/ call = "none"
      BY <1>4, <2>4 DEF Negotiate, MayNegotiate
    <3>2. Alone
      BY <2>1, <3>1
    <3> QED
      BY <2>1, <2>4, <3>2
  <2> QED
    BY <1>4, <2>2, <2>3, <2>4 DEF Negotiate
<1>5. CASE Event1
  BY <1>5 DEF Event1, Control, Frob
<1>6. CASE Event2
  <2>1. /\ pc = "n_ev2"
        /\ UNCHANGED <<call, asked, mode, phase, ctl, data, reverse, status, pst, latch>>
    BY <1>6 DEF Event2, Wait
  <2>2. CASE Hears /\ latch = NoByte
    <3>1. ~TimesOut(StatusLines, {"PError", "Select", "nFault"})
      BY <2>2 DEF TimesOut, Matches, StatusLines
    <3>2. pc' = "n_ev3"
      BY <1>6, <3>1 DEF Event2, Wait
    <3> QED
      BY <2>1, <2>2, <3>2
  <2>3. CASE Quiet
    <3>1. ~Matches(StatusLines, {"PError", "Select", "nFault"})
      BY <2>3 DEF Matches, StatusLines
    <3>2. PeripheralOwes
      BY <2>1, <2>3 DEF PeripheralOwes
    <3> QED
      BY <1>6, <3>1, <3>2 DEF Event2, Wait, TimesOut, Faultless
  <2> QED
    BY <2>1, <2>2, <2>3
<1>7. CASE Event3
  BY <1>7 DEF Event3, Frob
<1>8. CASE Event4
  BY <1>8 DEF Event4, Control, Frob
<1>9. CASE Event6
  <2>1. /\ pc = "n_ev6"
        /\ UNCHANGED <<call, asked, mode, phase, ctl, data, reverse, status, pst, latch>>
    BY <1>9 DEF Event6, Wait
  <2>2. CASE Answered
    <3>1. ~TimesOut({"nAck"}, {"nAck"})
      BY <2>2 DEF TimesOut, Matches
    <3>2. pc' = "n_ev5"
      BY <1>9, <3>1 DEF Event6, Wait
    <3> QED
      BY <2>1, <2>2, <3>2
  <2>3. CASE Hears
    <3>1. ~Matches({"nAck"}, {"nAck"})
      BY <2>3 DEF Matches
    <3>2. latch # NoByte
      BY <2>1, NoByteAssumption DEF TypeOK
    <3>3. PeripheralOwes
      BY <2>1, <2>3, <3>2 DEF PeripheralOwes
    <3> QED
      BY <1>9, <3>1, <3>3 DEF Event6, Wait, TimesOut, Faultless
  <2> QED
    BY <2>1, <2>2, <2>3
<1>10. CASE Event5
  <2>1. /\ pc = "n_ev5" /\ Answered /\ latch = RequestByte(asked) /\ asked # COMPAT
        /\ ctl = ControlLines /\ Still /\ call # "none"
        /\ UNCHANGED <<call, asked, phase, ctl, data, reverse, status, pst, latch>>
    BY <1>10 DEF Event5, LinesInv
  <2>2. asked \in Nat /\ RequestByte(NIBBLE) = NIBBLE
    BY ModesAssumption, NibbleIsItself DEF TypeOK
  <2>3. ~AsksForECP(NIBBLE) /\ NIBBLE \in Accepts
    BY AcceptsAssumption, NibbleIsItself
  <2>4. CASE ("Select" \in status) # (asked # NIBBLE) /\ pc' = "t_first"
    <3>1. pst # "setup"
      BY <2>1, <2>2, <2>3, <2>4
    <3> QED
      BY <2>1, <2>4, <3>1
  <2>5. CASE ("Select" \in status) = (asked # NIBBLE) /\ mode' = asked
    <3>1. latch \in Accepts /\ Taken(asked)
      BY <2>1, <2>2, <2>3, <2>5 DEF Taken
    <3>2. AsksForECP(RequestCode(asked)) = AsksForECP(latch)
      BY <2>1, <2>2, AskedByItsByte
    <3>3. CASE AsksForECP(latch)
      <4>1. pc' = "n_ev30" /\ pst = "setup"
        BY <1>10, <2>1, <2>5, <3>1, <3>2, <3>3 DEF Event5
      <4> QED
        BY <2>1, <3>1, <3>3, <4>1
    <3>4. CASE ~AsksForECP(latch)
      <4>1. pc' = "idle" /\ pst = "mode"
        BY <1>10, <2>1, <2>5, <3>1, <3>2, <3>4 DEF Event5
      <4>2. RequestByte(mode)' = RequestByte(asked) /\ Taken(mode)' = Taken(asked)
        BY <2>5 DEF Taken, RequestByte, RequestCode
      <4> QED
        BY <2>1, <2>5, <3>1, <3>4, <4>1, <4>2
    <3> QED
      BY <3>3, <3>4
  <2> QED
    BY <1>10, <2>4, <2>5 DEF Event5
<1>11. CASE Event30
  BY <1>11 DEF Event30, Control, Frob
<1>12. CASE Event31
  <2>1. /\ pc = "n_ev31" /\ mode = asked /\ asked # COMPAT
        /\ UNCHANGED <<call, mode, ctl, data, reverse, status, pst, latch>>
    BY <1>12 DEF Event31, LinesInv, ResultInv
  <2>2. CASE pst = "fwd" /\ "PError" \in status
    <3>1. ~TimesOut({"PError"}, {"PError"})
      BY <2>2 DEF TimesOut, Matches
    <3>2. pc' = "idle" /\ phase' = "FWD_IDLE"
      BY <1>12, <3>1 DEF Event31
    <3> QED
      BY <2>1, <2>2, <3>2
  <2>3. CASE pst = "setup" /\ "PError" \notin status
    <3>1. ~Matches({"PError"}, {"PError"})
      BY <2>3 DEF Matches
    <3>2. PeripheralOwes
      BY <2>1, <2>3 DEF PeripheralOwes
    <3> QED
      BY <1>12, <3>1, <3>2 DEF Event31, TimesOut, Faultless
  <2> QED
    BY <2>1, <2>2, <2>3
<1>13. CASE TerminateFromForward
  BY <1>13 DEF TerminateFromForward
<1>14. CASE Event22
  BY <1>14 DEF Event22, WriteControl
<1>15. CASE Event24
  <2>1. /\ pc = "t_ev24" /\ mode = COMPAT
        /\ UNCHANGED <<call, mode, phase, ctl, reverse, status, pst, latch>>
    BY <1>15 DEF Event24, Wait, ResultInv
  <2>2. CASE Quiet
    <3>1. ~Matches({"nAck"}, {})
      BY <2>2 DEF Matches
    <3>2. pc' = "idle"
      BY <1>15, <3>1 DEF Event24, Wait
    <3> QED
      BY <2>1, <2>2, <3>2
  <2>3. CASE Ending
    <3>1. ~TimesOut({"nAck"}, {})
      BY <2>3 DEF TimesOut, Matches
    <3>2. pc' = "t_ev26"
      BY <1>15, <3>1 DEF Event24, Wait
    <3> QED
      BY <2>1, <2>3, <3>2
  <2>4. CASE pst \in {"mode", "refused", "fwd"} /\ "nAck" \in status
    <3>1. ~Matches({"nAck"}, {})
      BY <2>4 DEF Matches
    <3>2. PeripheralOwes
      BY <2>1, <2>4 DEF PeripheralOwes, Session
    <3> QED
      BY <1>15, <3>1, <3>2 DEF Event24, Wait, TimesOut, Faultless
  <2> QED
    BY <2>1, <2>2, <2>3, <2>4
<1>16. CASE Event26
  BY <1>16 DEF Event26, Control, WriteControl
<1>17. CASE Event27
  <2>1. /\ pc = "t_ev27" /\ mode = COMPAT
        /\ UNCHANGED <<call, mode, phase, ctl, reverse, status, pst, latch>>
    BY <1>17 DEF Event27, Wait, ResultInv
  <2>2. CASE Quiet
    <3>1. ~TimesOut({"nAck"}, {"nAck"})
      BY <2>2 DEF TimesOut, Matches
    <3>2. pc' = "t_ev28"
      BY <1>17, <3>1 DEF Event27, Wait
    <3> QED
      BY <2>1, <2>2, <3>2
  <2>3. CASE Ending
    <3>1. ~Matches({"nAck"}, {"nAck"})
      BY <2>3 DEF Matches
    <3>2. PeripheralOwes
      BY <2>1, <2>3 DEF PeripheralOwes
    <3> QED
      BY <1>17, <3>1, <3>2 DEF Event27, Wait, TimesOut, Faultless
  <2> QED
    BY <2>1, <2>2, <2>3
<1>18. CASE Event28
  <2>1. /\ pc = "t_ev28" /\ pc' = "idle" /\ mode = COMPAT /\ ctl' = IdleLines
        /\ UNCHANGED <<call, mode, phase, reverse, status, pst, latch>>
    BY <1>18 DEF Event28, Control, WriteControl, ResultInv
  <2> QED
    BY <2>1
<1>19. CASE Event38
  BY <1>19 DEF Event38, Control, Frob
<1>20. CASE DriversOff
  BY <1>20 DEF DriversOff
<1>21. CASE Event39
  BY <1>21 DEF Event39, Control, Frob
<1>22. CASE Event40
  <2>1. /\ pc = "f_ev40" /\ pc' = "idle" /\ InEcpSession /\ Linked /\ PErrorIsDirection
        /\ "nInit" \notin ctl /\ call # "none"
        /\ UNCHANGED <<call, mode, ctl, data, reverse, status, pst, latch>>
    BY <1>22 DEF Event40
  <2>2. CASE pst = "rev"
    <3>1. ~TimesOut({"PError"}, {})
      BY <2>1, <2>2 DEF TimesOut, Matches
    <3>2. phase' = "REV_IDLE"
      BY <1>22, <3>1 DEF Event40
    <3> QED
      BY <2>1, <2>2, <3>2
  <2>3. CASE pst = "fwd"
    <3>1. ~Matches({"PError"}, {})
      BY <2>1, <2>3 DEF Matches
    <3>2. PeripheralOwes
      BY <2>1, <2>3 DEF PeripheralOwes
    <3> QED
      BY <1>22, <3>1, <3>2 DEF Event40, TimesOut, Faultless
  <2> QED
    BY <2>1, <2>2, <2>3
<1>23. CASE Event47
  BY <1>23 DEF Event47, Control, Frob
<1>24. CASE Event49
  <2>1. /\ pc = "r_ev49" /\ pc' = back /\ InEcpSession /\ PErrorIsDirection
        /\ "nInit" \in ctl /\ call # "none" /\ back \in {"idle", "t_ev22"}
        /\ back = "idle" => Linked
    <3>1. pc = "r_ev49" /\ pc' = back
      BY <1>24 DEF Event49
    <3>2. back \in {"idle", "t_ev22"}
      BY DEF TypeOK
    <3> QED
      BY <3>1, <3>2
  <2>0. UNCHANGED <<back, call, mode, ctl, data, status, pst, latch>>
    BY <1>24 DEF Event49
  <2>2. CASE pst = "fwd"
    <3>1. ~TimesOut({"PError"}, {"PError"})
      BY <2>1, <2>2 DEF TimesOut, Matches
    <3>2. phase' = "FWD_IDLE" /\ reverse' = FALSE
      BY <1>24, <3>1 DEF Event49
    <3>3. Settled' /\ pst' = "fwd" /\ (back = "idle" => Linked')
      BY <2>0, <2>1, <2>2, <3>2
    <3>4. CASE back = "idle"
      BY <2>0, <2>1, <3>3, <3>4
    <3>5. CASE back = "t_ev22"
      BY <2>0, <2>1, <3>3, <3>5
    <3> QED
      BY <2>1, <3>4, <3>5
  <2>3. CASE pst = "rev"
    <3>1. ~Matches({"PError"}, {"PError"})
      BY <2>1, <2>3 DEF Matches
    <3>2. PeripheralOwes
      BY <2>1, <2>3 DEF PeripheralOwes
    <3> QED
      BY <1>24, <3>1, <3>2 DEF Event49, TimesOut, Faultless
  <2> QED
    BY <2>1, <2>2, <2>3
<1>25. CASE Recognise
  BY <1>25 DEF Recognise, React
<1>26. CASE Answer
  BY <1>26 DEF Answer, React
<1>27. CASE Abandon
  BY <1>27 DEF Abandon, React
<1>28. CASE BeginTermination
  <2>1. /\ "nSelectIn" \notin ctl /\ pst \in Session /\ pst' = "ending"
        /\ status' = status \ {"nAck"}
        /\ UNCHANGED <<pc, back, call, asked, mode, phase, ctl, data, reverse, latch>>
    BY <1>28 DEF BeginTermination, React
  <2>2. pst \in {"mode", "refused", "setup", "fwd", "rev"}
    BY <2>1 DEF Session
  <2>3. pc \in HostLabels
    BY DEF TypeOK
  <2>4. pc = "t_ev24" /\ call # "none" /\ ctl = IdleLines /\ Still
    BY <2>1, <2>2, <2>3 DEF HostLabels
  <2>5. Ending'
    BY <2>1
  <2> QED
    BY <2>1, <2>4, <2>5
<1>29. CASE EndTermination
  BY <1>29 DEF EndTermination, React
<1>30. CASE SetUpECP
  BY <1>30 DEF SetUpECP, React
<1>31. CASE ReverseBus
  BY <1>31 DEF ReverseBus, React
<1>32. CASE ForwardBus
  <2>1. /\ {"nSelectIn", "nInit"} \subseteq ctl /\ pst = "rev" /\ pst' = "fwd"
        /\ status' = status \cup {"PError"}
        /\ UNCHANGED <<pc, back, call, asked, mode, phase, ctl, data, reverse, latch>>
    BY <1>32 DEF ForwardBus, React
  <2>2. pc = "r_ev49" /\ call # "none" /\ InEcpSession /\ (back = "idle" => Linked)
    <3>1. pc \in HostLabels
      BY DEF TypeOK
    <3> QED
      BY <2>1, <3>1 DEF HostLabels
  <2>3. InEcpSession' /\ PErrorIsDirection' /\ (back = "idle" => Linked')
    BY <2>1, <2>2 DEF Taken, RequestByte, RequestCode
  <2> QED
    BY <2>1, <2>2, <2>3
<1>33. CASE SwitchOff
  BY <1>33 DEF SwitchOff, Faultless
<1>34. CASE SwitchOn
  BY <1>34 DEF SwitchOn
<1>35. CASE UNCHANGED vars
  BY <1>35 DEF vars
<1> QED
  BY <1>1, <1>2, <1>3, <1>4, <1>5, <1>6, <1>7, <1>8, <1>9, <1>10, <1>11, <1>12,
     <1>13, <1>14, <1>15, <1>16, <1>17, <1>18, <1>19, <1>20, <1>21, <1>22, <1>23,
     <1>24, <1>25, <1>26, <1>27, <1>28, <1>29, <1>30, <1>31, <1>32, <1>33, <1>34,
     <1>35
  DEF Next, AppCall, HostStep, NegotiateStep, TerminateStep, DirectionStep, Respond

\* At first there is no session and nothing was asked for.
LEMMA SyncInit == Init => LinesInv /\ Sync /\ VerdictInv
<1> SUFFICES ASSUME Init PROVE LinesInv /\ Sync /\ VerdictInv
  OBVIOUS
<1>1. /\ pc = "idle" /\ call = "none" /\ mode = NIBBLE /\ mode # COMPAT /\ phase = "FWD_DATA"
      /\ pst = "compat" /\ status = IdleStatus /\ ctl = IdleLines /\ reverse = FALSE
  BY DEF Init, NIBBLE, COMPAT
<1>2. LinesInv
  BY <1>1 DEF LinesInv, Requesting, SettingUp, Dropped, Reversing, Forwarding
<1>3. VerdictInv
  BY <1>1 DEF VerdictInv, Verdict
<1>4. Sync
  BY <1>1 DEF Sync, Alone, Quiet, Still, Unasked, NegotiateSync, TerminateSync,
              DirectionSync, Requesting, SettingUp, Dropped, Reversing, Forwarding
<1> QED
  BY <1>2, <1>3, <1>4

\* Only these steps bear on what a negotiation tells; every other one leaves the
\* call and its result alone and stays among the labels that have a verdict, or
\* among those that have none yet.
LEMMA VerdictStep ==
  TypeOK /\ ResultInv /\ LinesInv /\ Sync /\ Sync' /\ VerdictInv /\ Faultless /\ [Next]_vars
    => VerdictInv'
<1> SUFFICES ASSUME TypeOK, ResultInv, LinesInv, Sync, Sync', VerdictInv, Faultless,
                    [Next]_vars
             PROVE  VerdictInv'
  OBVIOUS
<1> USE DEF VerdictInv, Verdict, Leaving, Dropped, Forwarding, Goto
<1>1. ASSUME NEW m \in Modes, Negotiate(m) PROVE VerdictInv'
  <2>1. pc = "idle" /\ asked' = m /\ mode \in Nat /\ UNCHANGED mode
    BY <1>1, ModesAssumption DEF Negotiate, TypeOK, NIBBLE, BYTE
  <2>2. CASE m = mode /\ ret' = "OK"
    <3>1. mode = COMPAT \/ Taken(mode)
      BY <2>1, AcceptsAssumption, NibbleIsItself DEF Sync, Linked, Unasked, Taken
    <3>2. Taken(asked)' = Taken(mode)
      BY <2>1, <2>2 DEF Taken, RequestByte, RequestCode
    <3> QED
      BY <2>1, <2>2, <3>1, <3>2
  <2>3. CASE m = COMPAT
    BY <2>1, <2>3
  <2>4. CASE pc' = "n_ev1"
    BY <2>4
  <2> QED
    BY <1>1, <2>2, <2>3, <2>4 DEF Negotiate
<1>2. CASE Terminate \/ FwdToRev \/ RevToFwd
  BY <1>2 DEF Terminate, FwdToRev, RevToFwd
<1>3. CASE Event1 \/ Event3 \/ Event4 \/ Event30 \/ Event38 \/ DriversOff \/ Event39
  BY <1>3 DEF Event1, Event3, Event4, Event30, Event38, DriversOff, Event39, Control
<1>4. CASE Event2 \/ Event6
  <2>1. /\ pst' = pst /\ ctl' = ctl /\ pc' \in {"n_ev3", "n_ev5", "t_first"}
        /\ pc \in {"n_ev2", "n_ev6"}
    BY <1>4 DEF Event2, Event6, Wait, wires, periph
  <2>2. pc' # "t_first"
    <3>1. Sync => pst # "compat" \/ ctl # IdleLines
      BY <2>1 DEF Sync, NegotiateSync, RequestLines, IdleLines, ControlLines
    <3>2. CASE pc = "n_ev2"
      <4>1. pst \in {"compat", "request"}
        BY <3>2 DEF Sync, NegotiateSync, Quiet, Hears
      <4> QED
        BY <2>1, <3>1, <4>1 DEF Sync, TerminateSync, Alone, Quiet, Settled, InSession
    <3>3. CASE pc = "n_ev6"
      <4>1. latch # NoByte /\ ctl = ControlLines /\ (Hears \/ Answered)
        BY <3>3, NoByteAssumption DEF Sync, NegotiateSync, TypeOK
      <4>2. CASE Answered
        <5>1. ~TimesOut({"nAck"}, {"nAck"})
          BY <4>2 DEF TimesOut, Matches, Answered
        <5> QED
          BY <1>4, <3>3, <5>1 DEF Event2, Event6, Wait
      <4>3. CASE Hears
        BY <2>1, <3>1, <4>3 DEF Sync, TerminateSync, Alone, Quiet, Settled, InSession, Hears
      <4> QED
        BY <4>1, <4>2, <4>3
    <3> QED
      BY <2>1, <3>2, <3>3
  <2> QED
    BY <2>1, <2>2
<1>5. CASE Event5
  <2>1. /\ pc = "n_ev5" /\ asked # COMPAT /\ Answered /\ latch = RequestByte(asked)
        /\ asked \in Nat /\ Taken(asked)' = Taken(asked) /\ UNCHANGED <<asked, call>>
    <3>1. Taken(asked)' = Taken(asked)
      BY <1>5 DEF Event5, Taken, RequestByte, RequestCode
    <3> QED
      BY <1>5, <3>1, ModesAssumption
         DEF Event5, LinesInv, Requesting, Sync, NegotiateSync, TypeOK
  <2>2. Taken(asked) <=> ("Select" \in status) = (asked # NIBBLE)
    BY <2>1, NibbleIsItself, AcceptsAssumption DEF Answered, Taken
  <2>3. CASE ("Select" \in status) # (asked # NIBBLE) /\ ret' = "REJECTED"
    BY <2>1, <2>2, <2>3
  <2>4. CASE ("Select" \in status) = (asked # NIBBLE) /\ pc' \in {"idle", "n_ev30"}
                                   /\ (pc' = "idle" => ret' = "OK")
    BY <2>1, <2>2, <2>4
  <2> QED
    BY <1>5, <2>3, <2>4 DEF Event5
<1>6. CASE Event31
  <2>1. /\ pc = "n_ev31" /\ Taken(asked) /\ Setting /\ ctl = RequestLines
        /\ Taken(asked)' = Taken(asked) /\ UNCHANGED <<asked, call>>
    <3>1. Taken(asked)' = Taken(asked)
      BY <1>6 DEF Event31, Taken, RequestByte, RequestCode
    <3> QED
      BY <1>6, <3>1 DEF Event31, Sync, NegotiateSync, SettingUp
  <2>2. CASE pst = "fwd"
    <3>1. ~TimesOut({"PError"}, {"PError"})
      BY <2>1, <2>2 DEF TimesOut, Matches, Setting
    <3>2. pc' = "idle" /\ ret' = "OK"
      BY <1>6, <3>1 DEF Event31
    <3> QED
      BY <2>1, <3>2
  <2>3. CASE pst = "setup"
    <3>1. ~Matches({"PError"}, {"PError"})
      BY <2>1, <2>3 DEF Matches, Setting
    <3>2. PeripheralOwes
      BY <2>1, <2>3 DEF PeripheralOwes, RequestLines
    <3> QED
      BY <1>6, <3>1, <3>2 DEF Event31, TimesOut, Faultless
  <2> QED
    BY <2>1, <2>2, <2>3 DEF Setting
<1>7. CASE Event40
  BY <1>7 DEF Event40, ResultInv, Reversing
<1>8. CASE Event49
  <2>1. /\ pc = "r_ev49" /\ pc' = back /\ UNCHANGED <<asked, call>>
        /\ Taken(asked)' = Taken(asked)
    BY <1>8 DEF Event49, Taken, RequestByte, RequestCode
  <2>2. CASE back = "idle"
    <3>1. call = "rev_to_fwd"
      BY <2>1, <2>2 DEF ResultInv
    <3> QED
      BY <2>1, <3>1
  <2>3. CASE back # "idle" /\ ret' = ret
    BY <2>1, <2>3
  <2> QED
    BY <1>8, <2>2, <2>3 DEF Event49
<1>9. ASSUME UNCHANGED <<call, asked, ret>>,
             pc' \in {"idle"} \cup Leaving \cup Forwarding =>
               pc \in {"idle"} \cup Leaving \cup Forwarding
      PROVE  VerdictInv'
  BY <1>9 DEF Taken, RequestByte, RequestCode
<1>10. CASE \/ TerminateFromForward \/ Event22 \/ Event24 \/ Event26 \/ Event27 \/ Event28
            \/ Event47
  BY <1>9, <1>10 DEF TerminateFromForward, Event22, Event24, Event26, Event27, Event28,
                     Event47, Control, Wait
<1>11. CASE Respond \/ SwitchOff \/ SwitchOn \/ UNCHANGED vars
  BY <1>9, <1>11 DEF Respond, Recognise, Answer, Abandon, BeginTermination, EndTermination,
                     SetUpECP, ReverseBus, ForwardBus, React, SwitchOff, SwitchOn, vars, host
<1> QED
  BY <1>1, <1>2, <1>3, <1>4, <1>5, <1>6, <1>7, <1>8, <1>10, <1>11
  DEF Next, AppCall, HostStep, NegotiateStep, TerminateStep, DirectionStep

\* A step without a fault after it had none before it.
LEMMA FaultsStay == TypeOK /\ Faultless' /\ [Next]_vars => Faultless
<1> SUFFICES ASSUME TypeOK, Faultless', [Next]_vars PROVE Faultless
  OBVIOUS
<1>1. CASE UNCHANGED <<faults, timely>>
  BY <1>1 DEF Faultless
<1>2. CASE SwitchOff
  BY <1>2 DEF SwitchOff, Faultless, TypeOK
<1>3. CASE AppCall
  BY <1>1, <1>3 DEF AppCall, Terminate, FwdToRev, RevToFwd, Negotiate
<1>4. CASE NegotiateStep
  BY <1>1, <1>4 DEF NegotiateStep, Event1, Event2, Event3, Event4, Event6, Event5, Event30,
                    Event31, Control, Wait
<1>5. CASE TerminateStep
  BY <1>1, <1>5 DEF TerminateStep, TerminateFromForward, Event22, Event24, Event26, Event27,
                    Event28, Control, Wait
<1>6. CASE DirectionStep
  BY <1>1, <1>6 DEF DirectionStep, Event38, DriversOff, Event39, Event40, Event47, Event49,
                    Control
<1>7. CASE Respond \/ SwitchOn
  BY <1>1, <1>7 DEF Respond, Recognise, Answer, Abandon, BeginTermination, EndTermination,
                    SetUpECP, ReverseBus, ForwardBus, React, SwitchOn
<1>8. CASE UNCHANGED vars
  BY <1>1, <1>8 DEF vars
<1> QED
  BY <1>2, <1>3, <1>4, <1>5, <1>6, <1>7, <1>8 DEF Next, HostStep

\* The strobe falls at event 3 alone.
LEMMA StrobeFalls ==
  [Next]_vars /\ "nStrobe" \in ctl /\ "nStrobe" \notin ctl' => pc = "n_ev3"
<1> SUFFICES ASSUME [Next]_vars, "nStrobe" \in ctl, "nStrobe" \notin ctl' PROVE pc = "n_ev3"
  OBVIOUS
<1>1. ~UNCHANGED ctl
  OBVIOUS
<1>2. ~AppCall /\ ~Respond /\ ~SwitchOff /\ ~SwitchOn /\ ~UNCHANGED vars
  BY <1>1 DEF AppCall, Terminate, FwdToRev, RevToFwd, Negotiate, Respond, Recognise, Answer,
              Abandon, BeginTermination, EndTermination, SetUpECP, ReverseBus, ForwardBus,
              React, SwitchOff, SwitchOn, vars, wires
<1>3. ~TerminateStep
  BY <1>1 DEF TerminateStep, TerminateFromForward, Event22, Event24, Event26, Event27, Event28,
              Control, Wait, WriteControl, IdleLines, wires
<1>4. ~DirectionStep
  BY <1>1 DEF DirectionStep, Event38, DriversOff, Event39, Event40, Event47, Event49, Control,
              Frob, wires
<1>5. ASSUME NegotiateStep PROVE pc = "n_ev3"
  BY <1>1, <1>5 DEF NegotiateStep, Event1, Event2, Event3, Event4, Event6, Event5, Event30,
                    Event31, Control, Wait, Frob, ControlLines, Goto, wires
<1> QED
  BY <1>2, <1>3, <1>4, <1>5 DEF Next, HostStep

-----------------------------------------------------------------------------

\* The two ends of the cable keep step as long as the peripheral answers in time and
\* was never switched off.
THEOREM InStep == Spec => [](TypeOK /\ ResultInv /\ LinesInv /\ (Faultless => Sync /\ VerdictInv))
<1> DEFINE All == TypeOK /\ ResultInv /\ LinesInv /\ (Faultless => Sync /\ VerdictInv)
<1>1. Init => All
  BY InitInv, SyncInit
<1>2. All /\ [Next]_vars => All'
  <2> SUFFICES ASSUME All, [Next]_vars PROVE All'
    OBVIOUS
  <2>1. TypeOK' /\ ResultInv' /\ LinesInv'
    BY TypeStep, ResultStep, LinesStep
  <2>2. ASSUME Faultless' PROVE Sync' /\ VerdictInv'
    <3>1. Faultless
      BY <2>2, FaultsStay
    <3>2. Sync'
      BY <2>2, <3>1, SyncStep
    <3> QED
      BY <3>1, <3>2, VerdictStep
  <2> QED
    BY <2>1, <2>2
<1> QED
  BY <1>1, <1>2, PTL DEF Spec

\* The modes of ieee1284.h that are asked for by the byte of their IEEE 1284 mode: the
\* bytes themselves, with or without the device ID flag, and the variations that the
\* switch of default_negotiate names.
StandardModes == 0 .. 255 \cup {COMPAT, BECP, ECPSWE, EPPSL, EPPSWE}

\* default_negotiate asks for a mode by its family.
LEMMA ByteIsFamily ==
  ASSUME NEW m \in StandardModes, m # COMPAT
  PROVE  RequestByte(m) = Family(m) /\ (Family(m) = NIBBLE => m = NIBBLE)
<1> USE DEF RequestByte, RequestCode, Family, NIBBLE, COMPAT, BECP, ECP, ECPSWE, EPP, EPPSL,
            EPPSWE, EXT_LINK
<1>1. CASE m \in {BECP, ECPSWE, EPPSL, EPPSWE}
  BY <1>1
<1>2. CASE m \in 0 .. 255
  <2>1. RequestCode(m) = m
    BY <1>2
  <2>2. Family(m) = m
    BY <1>2
  <2> QED
    BY <1>2, <2>1, <2>2
<1> QED
  BY <1>1, <1>2 DEF StandardModes

\* default_negotiate, default_terminate and the ECP direction changes leave both ends in
\* the same mode and, in ECP, the same direction.
THEOREM EndsAgree ==
  ASSUME TerminateFirst, Modes \subseteq StandardModes
  PROVE  Spec => []ModeAgreement
<1>1. TypeOK /\ (Faultless => Sync) => ModeAgreement
  <2> SUFFICES ASSUME TypeOK, Sync, pc = "idle", call # "none"
               PROVE  /\ mode = COMPAT => pst = "compat"
                      /\ mode # COMPAT => pst \in Session \ {"refused"} /\ latch = Family(mode)
                      /\ InECP /\ phase = "FWD_IDLE" => pst = "fwd"
                      /\ InECP /\ phase = "REV_IDLE" => pst = "rev"
    BY DEF ModeAgreement, Between
  <2>1. (Settled /\ Linked) \/ (Alone /\ mode = COMPAT)
    BY DEF Sync, Unasked
  <2>2. mode = COMPAT => pst = "compat"
    BY <2>1 DEF Linked, Alone, Quiet
  <2>3. ASSUME mode # COMPAT PROVE pst \in Session \ {"refused"} /\ latch = Family(mode)
    <3>1. mode \in StandardModes
      BY DEF TypeOK, StandardModes, NIBBLE, BYTE
    <3> QED
      BY <2>1, <2>3, <3>1, ByteIsFamily DEF Linked, Session
  <2>4. InECP => Settled /\ pst \in {"fwd", "rev"}
    BY EcpSession DEF InEcpSession
  <2> QED
    BY <2>2, <2>3, <2>4 DEF Settled, PhaseIsDirection
<1> QED
  BY <1>1, InStep, PTL

\* default_terminate leaves no line of a session behind.
THEOREM LinesReleased == Spec => []CompatLinesReleased
<1>1. LinesInv /\ (Faultless => Sync) => CompatLinesReleased
  BY DEF LinesInv, CompatLinesReleased, Between, Sync, Linked, Alone, IdleLines
<1> QED
  BY <1>1, InStep, PTL

\* What ieee1284_negotiate returns is what the peripheral said.
THEOREM VerdictTrue ==
  ASSUME Modes \subseteq StandardModes
  PROVE  Spec => []VerdictIsTrue
<1>1. TypeOK /\ (Faultless => VerdictInv) => VerdictIsTrue
  BY ByteIsFamily DEF VerdictIsTrue, VerdictInv, Verdict, Taken, Between, TypeOK
<1> QED
  BY <1>1, InStep, PTL

\* default_negotiate strobes the request byte into a peripheral that has recognised the
\* request, and nothing else is ever strobed.
THEOREM StrobeAwaited == Spec => StrobeIsAwaited
<1>1. /\ TypeOK /\ ResultInv /\ LinesInv /\ (Faultless => Sync /\ VerdictInv)
      /\ [Next]_vars
      => [Faultless /\ "nStrobe" \in ctl /\ "nStrobe" \notin ctl' => pst = "request"]_vars
  BY StrobeFalls DEF Sync, NegotiateSync, Hears
<1> QED
  BY <1>1, InStep, PTL DEF Spec, StrobeIsAwaited

=============================================================================
