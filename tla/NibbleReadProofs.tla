--------------------------- MODULE NibbleReadProofs ---------------------------
(***************************************************************************)
(* default_nibble_read implements a byte channel, for every supply, every  *)
(* length of call and any number of power cuts.                            *)
(***************************************************************************)
EXTENDS NibbleRead, TLAPS

\* Where the stream is at each label.  The byte being read is Len(log) + 1.
NextIndex == Len(log) + 1

AtByteBoundary == half = "low" /\ ack /\ given = Len(log) /\ fault = (given = supply)

\* A byte is read only while the buffer has room for it.
RoomInv == pc \in Labels \ {"idle", "more", "error"} => count < len

\* A peripheral in the middle of a byte has that byte to give.
DeviceInv == dev = "session" /\ (half = "high" \/ ~ack) => given < supply

StreamInv == Sound =>
  /\ pc \in {"idle", "more"} => AtByteBoundary /\ (~autofd => given = supply)
  /\ pc \in {"low_9", "low_read"} =>
       ~autofd /\ half = "low" /\ given = Len(log) /\ (ack \/ nibble = <<NextIndex, "low">>)
  /\ pc \in {"low_read", "high_read"} => ~ack
  /\ pc = "low_11" =>
       autofd /\ given = Len(log) /\ ack = (half = "high")
  /\ pc \in {"low_11", "high_9", "high_read", "high_11"} => low = <<NextIndex, "low">>
  /\ pc \in {"high_9", "high_read"} =>
       ~autofd /\ half = "high" /\ given = Len(log) /\ (ack \/ nibble = <<NextIndex, "high">>)
  /\ pc = "high_11" => autofd /\ high = <<NextIndex, "high">>
  /\ pc = "high_11" /\ ~ack => half = "high" /\ given = Len(log)
  /\ pc = "high_11" /\ ack => half = "low" /\ given = NextIndex /\ fault = (given = supply)

\* A peripheral that answers in time is only given up at event 9 of a low nibble,
\* with nothing left to send.
DryInv == timely /\ faults = 0 =>
  /\ pc # "idle" => up
  /\ IF up THEN dev = "session" ELSE dev = "compat" /\ given = supply
  /\ pc = "error" => given = supply /\ half = "low" /\ ack /\ ~autofd

-----------------------------------------------------------------------------

\* The initial states satisfy the invariant.
LEMMA InitInv == Init => TypeOK /\ RoomInv /\ DeviceInv /\ StreamInv /\ DryInv
  BY LenAssumption, SupplyAssumption, FaultsAssumption
  DEF Init, TypeOK, RoomInv, DeviceInv, StreamInv, DryInv, Sound, AtByteBoundary, NextIndex, Labels,
      Halves, Nibbles, Junk

\* Every step keeps the types.
LEMMA TypeStep == TypeOK /\ RoomInv /\ DeviceInv /\ [Next]_vars => TypeOK' /\ RoomInv' /\ DeviceInv'
<1> SUFFICES ASSUME TypeOK, RoomInv, DeviceInv, [Next]_vars PROVE TypeOK' /\ RoomInv' /\ DeviceInv'
  OBVIOUS
<1> USE LenAssumption, SupplyAssumption, FaultsAssumption
    DEF TypeOK, RoomInv, DeviceInv, Labels, Halves, Nibbles, Junk, call, device
<1>1. ASSUME NEW n \in 0 .. MaxLen, Read(n) PROVE TypeOK' /\ RoomInv' /\ DeviceInv'
  BY <1>1 DEF Read
<1>2. CASE NextByte
  BY <1>2 DEF NextByte, NoMoreData
<1>3. CASE Return
  BY <1>3 DEF Return, NoMoreData
<1>4. CASE Event9Low
  BY <1>4 DEF Event9Low, WaitAck, TimesOut
<1>5. CASE ReadLow
  BY <1>5 DEF ReadLow, OnTheLines
<1>6. CASE Event11Low
  BY <1>6 DEF Event11Low, TimesOut
<1>7. CASE Event9High
  BY <1>7 DEF Event9High, WaitAck, TimesOut
<1>8. CASE ReadHigh
  BY <1>8 DEF ReadHigh, OnTheLines
<1>9. CASE Event11High
  <2>1. CASE ack
    <3>1. log' \in Seq(Nibbles \X Nibbles)
      <4>1. <<low, high>> \in Nibbles \X Nibbles
        OBVIOUS
      <4>2. log' = Append(log, <<low, high>>)
        BY <1>9, <2>1 DEF Event11High, TimesOut
      <4> HIDE DEF Nibbles
      <4> QED
        BY <4>1, <4>2
    <3>2. count' \in 0 .. len
      BY <1>9, <2>1 DEF Event11High, TimesOut
    <3> QED
      BY <1>9, <2>1, <3>1, <3>2 DEF Event11High
  <2>2. CASE ~ack
    BY <1>9, <2>2 DEF Event11High
  <2> QED
    BY <2>1, <2>2
<1>10. CASE GiveUp
  <2>1. pc' = "idle" /\ ret' \in 0 .. MaxLen /\ dev' \in {"session", "off", "compat"} /\ dev' # "session"
    BY <1>10 DEF GiveUp
  <2>2. ack' \in BOOLEAN /\ fault' \in BOOLEAN
    BY <1>10 DEF GiveUp
  <2> QED
    BY <1>10, <2>1, <2>2 DEF GiveUp
<1>11. CASE NewSession
  BY <1>11 DEF NewSession
<1>12. CASE PutNibble
  <2>1. nibble' \in Nibbles
    BY <1>12 DEF PutNibble
  <2>2. fault' \in BOOLEAN /\ ack' \in BOOLEAN
    BY <1>12 DEF PutNibble
  <2> QED
    BY <1>12, <2>1, <2>2 DEF PutNibble
<1>13. CASE TakeBack
  <2>1. CASE half = "low"
    BY <1>13, <2>1 DEF TakeBack
  <2>2. CASE half = "high"
    BY <1>13, <2>2 DEF TakeBack
  <2> QED
    BY <1>13, <2>1, <2>2
<1>14. CASE SwitchOff
  BY <1>14 DEF SwitchOff
<1>15. CASE SwitchOn
  BY <1>15 DEF SwitchOn
<1>16. CASE UNCHANGED vars
  BY <1>16 DEF vars
<1> QED
  BY <1>1, <1>2, <1>3, <1>4, <1>5, <1>6, <1>7, <1>8,
     <1>9, <1>10, <1>11, <1>12, <1>13, <1>14, <1>15, <1>16
  DEF Next, HostStep, Respond

\* Every step keeps host and peripheral at the same place of the stream.
LEMMA StreamStep == TypeOK /\ StreamInv /\ [Next]_vars => StreamInv'
<1> SUFFICES ASSUME TypeOK, StreamInv, [Next]_vars PROVE StreamInv'
  OBVIOUS
<1> USE DEF TypeOK, StreamInv, Sound, AtByteBoundary, NextIndex, Labels, Halves, call, device
<1>1. ASSUME NEW n \in 0 .. MaxLen, Read(n) PROVE StreamInv'
  BY <1>1 DEF Read
<1>2. CASE NextByte
  BY <1>2 DEF NextByte, NoMoreData
<1>3. CASE Return
  BY <1>3 DEF Return, NoMoreData
<1>4. CASE Event9Low
  BY <1>4 DEF Event9Low, WaitAck, TimesOut
<1>5. CASE ReadLow
  BY <1>5 DEF ReadLow, OnTheLines
<1>6. CASE Event11Low
  BY <1>6 DEF Event11Low, TimesOut
<1>7. CASE Event9High
  BY <1>7 DEF Event9High, WaitAck, TimesOut
<1>8. CASE ReadHigh
  BY <1>8 DEF ReadHigh, OnTheLines
<1>9. CASE Event11High
  <2>1. CASE ack
    <3>1. Len(log') = Len(log) + 1
      BY <1>9, <2>1 DEF Event11High, TimesOut
    <3> QED
      BY <1>9, <2>1, <3>1 DEF Event11High, TimesOut
  <2>2. CASE ~ack
    BY <1>9, <2>2 DEF Event11High
  <2> QED
    BY <2>1, <2>2
<1>10. CASE GiveUp
  BY <1>10 DEF GiveUp
<1>11. CASE NewSession
  BY <1>11 DEF NewSession
<1>12. CASE PutNibble
  <2>1. CASE half = "low"
    <3>1. CASE Sound
      <4>1. pc \in {"low_9", "error"}
        <5>1. pc \notin {"idle", "more"}
          BY <1>12, <2>1, <3>1 DEF PutNibble
        <5>2. pc \notin {"low_11", "high_11"}
          BY <1>12, <2>1, <3>1 DEF PutNibble
        <5>3. pc \notin {"low_read", "high_9", "high_read"}
          BY <1>12, <2>1, <3>1 DEF PutNibble
        <5> QED
          BY <5>1, <5>2, <5>3
      <4> QED
        BY <1>12, <2>1, <3>1, <4>1 DEF PutNibble
    <3>2. CASE ~Sound
      BY <1>12, <3>2 DEF PutNibble
    <3> QED
      BY <3>1, <3>2
  <2>2. CASE half = "high"
    BY <1>12, <2>2 DEF PutNibble
  <2> QED
    BY <1>12, <2>1, <2>2
<1>13. CASE TakeBack
  BY <1>13 DEF TakeBack
<1>14. CASE SwitchOff
  BY <1>14 DEF SwitchOff
<1>15. CASE SwitchOn
  BY <1>15 DEF SwitchOn
<1>16. CASE UNCHANGED vars
  BY <1>16 DEF vars
<1> QED
  BY <1>1, <1>2, <1>3, <1>4, <1>5, <1>6, <1>7, <1>8,
     <1>9, <1>10, <1>11, <1>12, <1>13, <1>14, <1>15, <1>16
  DEF Next, HostStep, Respond

\* Every step keeps a timely peripheral's session until it is dry.
LEMMA DryStep == TypeOK /\ StreamInv /\ DryInv /\ [Next]_vars => DryInv'
<1> SUFFICES ASSUME TypeOK, StreamInv, DryInv, [Next]_vars PROVE DryInv'
  OBVIOUS
<1> USE DEF TypeOK, StreamInv, DryInv, Sound, AtByteBoundary, Labels, Halves, PeripheralOwes, call, device
<1>1. ASSUME NEW n \in 0 .. MaxLen, Read(n) PROVE DryInv'
  BY <1>1 DEF Read
<1>2. CASE NextByte
  BY <1>2 DEF NextByte, NoMoreData
<1>3. CASE Return
  BY <1>3 DEF Return, NoMoreData
<1>4. CASE Event9Low
  <2>0. /\ pc = "low_9"
        /\ \/ ack = FALSE /\ pc' = "low_read"
           \/ TimesOut(FALSE) /\ pc' = "error"
        /\ UNCHANGED <<up, autofd, dev, ack, half, given, supply, faults, timely>>
    BY <1>4 DEF Event9Low, WaitAck
  <2>1. CASE pc' = "low_read"
    BY <2>0, <2>1
  <2>2. CASE TimesOut(FALSE) /\ pc' = "error" /\ timely /\ faults = 0
    <3>1. up /\ dev = "session"
      BY <2>0, <2>2
    <3>2. ~autofd /\ half = "low"
      BY <2>0, <3>1
    <3>3. ack
      BY <2>0, <2>2 DEF TimesOut
    <3>4. ~(given < supply)
      BY <2>2, <3>1, <3>2, <3>3 DEF TimesOut
    <3>5. given = supply
      BY <3>4, SupplyAssumption
    <3> HIDE DEF TypeOK, StreamInv, PeripheralOwes
    <3> QED
      BY <2>0, <2>2, <3>1, <3>2, <3>3, <3>5
  <2>3. CASE ~(timely /\ faults = 0)
    BY <2>0, <2>3
  <2> QED
    BY <2>0, <2>1, <2>2, <2>3
<1>5. CASE ReadLow
  BY <1>5 DEF ReadLow, OnTheLines
<1>6. CASE Event11Low
  BY <1>6 DEF Event11Low, TimesOut
<1>7. CASE Event9High
  BY <1>7 DEF Event9High, WaitAck, TimesOut
<1>8. CASE ReadHigh
  BY <1>8 DEF ReadHigh, OnTheLines
<1>9. CASE Event11High
  BY <1>9 DEF Event11High, TimesOut
<1>10. CASE GiveUp
  BY <1>10 DEF GiveUp
<1>11. CASE NewSession
  BY <1>11 DEF NewSession
<1>12. CASE PutNibble
  BY <1>12 DEF PutNibble
<1>13. CASE TakeBack
  BY <1>13 DEF TakeBack
<1>14. CASE SwitchOff
  BY <1>14 DEF SwitchOff
<1>15. CASE SwitchOn
  BY <1>15 DEF SwitchOn
<1>16. CASE UNCHANGED vars
  BY <1>16 DEF vars
<1> QED
  BY <1>1, <1>2, <1>3, <1>4, <1>5, <1>6, <1>7, <1>8,
     <1>9, <1>10, <1>11, <1>12, <1>13, <1>14, <1>15, <1>16
  DEF Next, HostStep, Respond

\* A step delivers the next byte, ends the promise, starts a session, or is none of
\* the application's business.
LEMMA ChannelStep == TypeOK /\ StreamInv /\ [Next]_vars => [Channel!Next]_Channel!vars
<1> SUFFICES ASSUME TypeOK, StreamInv, [Next]_vars PROVE [Channel!Next]_Channel!vars
  OBVIOUS
<1> USE DEF Channel!Next, Channel!Deliver, Channel!End, Channel!NewSession, Channel!Unsound, Channel!vars, call, device, Sound
<1>1. ASSUME NEW n \in 0 .. MaxLen, Read(n) PROVE [Channel!Next]_Channel!vars
  BY <1>1 DEF Read
<1>2. CASE NextByte
  BY <1>2 DEF NextByte, NoMoreData
<1>3. CASE Return
  BY <1>3 DEF Return, NoMoreData
<1>4. CASE Event9Low
  BY <1>4 DEF Event9Low, WaitAck, TimesOut
<1>5. CASE ReadLow
  BY <1>5 DEF ReadLow, OnTheLines
<1>6. CASE Event11Low
  BY <1>6 DEF Event11Low, TimesOut
<1>7. CASE Event9High
  BY <1>7 DEF Event9High, WaitAck, TimesOut
<1>8. CASE ReadHigh
  BY <1>8 DEF ReadHigh, OnTheLines
<1>9. CASE Event11High
  <2>1. CASE ack /\ Sound
    <3>0. NextIndex \in 1 .. MaxSupply
      BY <1>9, <2>1, SupplyAssumption DEF Event11High, StreamInv, TypeOK, NextIndex
    <3>1. low = <<NextIndex, "low">> /\ high = <<NextIndex, "high">> /\ given = NextIndex
      BY <1>9, <2>1 DEF Event11High, StreamInv
    <3>2. NextIndex \in DOMAIN Sent /\ Sent[NextIndex] = <<low, high>>
      BY <3>0, <3>1 DEF Sent
    <3>3. log' = Append(log, Sent[Len(log) + 1]) /\ Sound' = Sound
      BY <1>9, <2>1, <3>2 DEF Event11High, NextIndex, TimesOut, device, Sound
    <3> QED
      BY <2>1, <3>2, <3>3 DEF NextIndex
  <2>2. CASE ~(ack /\ Sound)
    BY <1>9, <2>2 DEF Event11High
  <2> QED
    BY <2>1, <2>2
<1>10. CASE GiveUp
  BY <1>10 DEF GiveUp
<1>11. CASE NewSession
  BY <1>11 DEF NewSession
<1>12. CASE PutNibble
  BY <1>12 DEF PutNibble
<1>13. CASE TakeBack
  BY <1>13 DEF TakeBack
<1>14. CASE SwitchOff
  BY <1>14 DEF SwitchOff
<1>15. CASE SwitchOn
  BY <1>15 DEF SwitchOn
<1>16. CASE UNCHANGED vars
  BY <1>16 DEF vars
<1> QED
  BY <1>1, <1>2, <1>3, <1>4, <1>5, <1>6, <1>7, <1>8,
     <1>9, <1>10, <1>11, <1>12, <1>13, <1>14, <1>15, <1>16
  DEF Next, HostStep, Respond

-----------------------------------------------------------------------------

\* The invariant holds in every reachable state.
THEOREM Invariance == Spec => [](TypeOK /\ RoomInv /\ DeviceInv /\ StreamInv /\ DryInv)
<1>1. TypeOK /\ RoomInv /\ DeviceInv /\ StreamInv /\ DryInv /\ [Next]_vars =>
        (TypeOK /\ RoomInv /\ DeviceInv /\ StreamInv /\ DryInv)'
  BY TypeStep, StreamStep, DryStep
<1> QED
  BY InitInv, <1>1, PTL DEF Spec

\* No call reads beyond its buffer, and the peripheral gives no more than it has.
THEOREM TypeCorrect == Spec => []TypeOK
  BY Invariance, PTL

\* Between calls nothing was skipped and nothing will be read again.
THEOREM StaysInStep == Spec => []InStep
<1>1. StreamInv => InStep
  BY DEF StreamInv, InStep, AtByteBoundary
<1> QED
  BY <1>1, Invariance, PTL

\* A session is lost to the library's deadlines only after the last byte.
THEOREM LostOnlyWhenDry == Spec => []EndsOnlyWhenDry
<1>1. DryInv => EndsOnlyWhenDry
  BY DEF DryInv, EndsOnlyWhenDry
<1> QED
  BY <1>1, Invariance, PTL

\* default_nibble_read implements the channel: every byte is delivered once, whole
\* and in its place.
THEOREM ChannelImplemented == Spec => ImplementsChannel
<1>1. Init => Channel!Init
  BY DEF Init, Channel!Init, Sound
<1>2. TypeOK /\ StreamInv /\ [Next]_vars => [Channel!Next]_Channel!vars
  BY ChannelStep
<1> QED
  BY <1>1, <1>2, Invariance, PTL DEF Spec, ImplementsChannel, Channel!Spec

=============================================================================
