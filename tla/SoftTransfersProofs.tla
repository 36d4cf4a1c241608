--------------------------- MODULE SoftTransfersProofs ---------------------------
(***************************************************************************)
(* The software transfers for every length, supply and pace.               *)
(*                                                                         *)
(* Compatibility, byte and EPP mode differ in which wire carries the       *)
(* handshake, not in the argument: nAutoFd (nStrobe in compatibility mode) *)
(* tells at each place whether the peripheral may move, so it is at most   *)
(* one byte ahead of what the host has counted, and only at the places     *)
(* named by AheadTaken and AheadGiven.                                     *)
(***************************************************************************)
EXTENDS SoftTransfers, TLAPS

CompatPlaces == {"c_next", "c_strobe"}
BytePlaces == {"b_next", "b_ev7", "b_ev9", "b_read", "b_ev11", "b_ev16", "b_late"}
EppReading == {"r_idle", "r_dir", "r_next", "r_ev58", "r_read", "r_ev60", "r_end"}
EppWriting == {"w_idle", "w_dir", "w_next", "w_ev58", "w_ev60"}

Low == "nAutoFd" \notin ctl

\* A call is made in a mode, for bytes that fit; the peripheral offers what it has.
Counts ==
  /\ pc \in CompatPlaces => mode = "compat"
  /\ pc \in BytePlaces => mode = "byte"
  /\ pc \in EppReading \cup EppWriting => mode = "epp"
  /\ pc \in {"c_strobe", "w_ev58", "w_ev60", "r_idle", "r_dir", "r_ev58", "r_read", "r_ev60"}
            \cup (BytePlaces \ {"b_next"}) => count < len
  /\ pc \in CompatPlaces \cup EppWriting => sent + (len - count) <= MaxSend
  /\ dev = "byte" /\ ~ack => given < supply
  /\ dev = "epp" /\ bus # 0 => given < supply

InCompat == mode = "compat" =>
  /\ bus = 0
  /\ "nStrobe" \in ctl <=> pc # "c_strobe"
  /\ pc = "c_strobe" => data = sent + 1
  /\ pc \in CompatPlaces /\ TurnsBack => ~reverse

InByte == mode = "byte" =>
  /\ Low <=> pc \in {"b_ev9", "b_read"}
  /\ ack <=> bus = 0
  /\ perror <=> given = supply
  /\ pc \in {"idle", "b_next", "b_ev7", "b_ev16"} => ack
  /\ pc \in {"b_ev7", "b_ev9", "b_read"} => given < supply
  /\ pc \in {"b_ev7", "b_ev9", "b_read", "b_ev11"} => reverse
  /\ pc = "b_read" => ~ack
  /\ pc # "b_late"

EppQuiet == bus = 0 /\ ~busy /\ (Low => "nStrobe" \in ctl /\ given = supply)

InEpp == mode = "epp" =>
  /\ ~busy => bus = 0
  /\ pc \in {"idle", "r_idle", "w_idle", "r_end"} => EppQuiet
  /\ pc \in EppReading \ {"r_idle"} => "nStrobe" \in ctl
  /\ pc \in {"r_dir", "r_next", "r_ev58", "r_read", "r_ev60"} /\ busy => bus # 0
  /\ pc \in {"r_next", "r_ev58", "r_read", "r_ev60"} => reverse
  /\ pc \in {"r_dir", "r_ev58", "r_read", "w_ev58"} => Low
  /\ pc \in {"r_ev60", "w_dir", "w_next", "w_ev60"} => ~Low
  /\ pc = "r_next" => IF Low THEN count < len ELSE ~busy
  /\ pc = "r_read" => busy
  /\ pc = "r_end" => given = supply
  /\ pc \in EppWriting \ {"w_idle"} => "nStrobe" \notin ctl /\ bus = 0
  /\ pc \in {"w_dir", "w_next"} => ~busy
  /\ pc \in {"w_next", "w_ev58", "w_ev60"} => ~reverse
  /\ pc = "w_ev58" => data = sent + 1

\* The peripheral has taken a byte, or given one, that is not counted yet.
AheadTaken == pc = "w_ev60" \/ (pc \in {"c_strobe", "w_ev58"} /\ busy)
AheadGiven == pc = "b_ev16" \/ (pc = "b_ev11" /\ ack) \/ (pc = "r_ev60" /\ ~busy)

Taken(n) == Len(taken) = n /\ \A i \in 1 .. n : taken[i] = i

TakenInv == (mode = "compat" => TurnsBack) =>
  Taken(IF AheadTaken THEN sent + 1 ELSE sent)

GivenInv ==
  /\ given = IF AheadGiven THEN Len(log) + 1 ELSE Len(log)
  /\ pc = "idle" /\ mode # "compat" /\ count < len => given = supply

AsThere == Sound =>
  dev = mode /\ InCompat /\ InByte /\ InEpp /\ TakenInv /\ GivenInv

IInv == TypeOK /\ Counts /\ AsThere

USE DEF call, session, wires, device, lateness, Goto, Frob

-----------------------------------------------------------------------------
(* Types. *)

LEMMA GoesOnTypes ==
  ASSUME HostTypes, GoesOn \/ UNCHANGED lateness
  PROVE  late' \in 0 .. MaxLate
<1>1. UNCHANGED late \/ (late < MaxLate /\ late' = late + 1)
  BY Zenon DEF GoesOn
<1> QED
  BY <1>1, FaultAssumption DEF HostTypes

LEMMA HostLate ==
  ASSUME HostStep
  PROVE  GoesOn \/ UNCHANGED lateness
BY Zenon DEF HostStep, CompatWrite, ByteRead, EppTransfer, TimesOut,
   CompatFull, CompatByte, CompatBusy, CompatCount,
     ByteFull, NoData, Event14, Event7, Event9, ByteLate, ByteGet, Event11, Event16,
     EppIdle, EppDir, Event67, Event58Read, EppGet, Event60Read, EppReadEnd, Event62,
     EppWriteFull, Event58Write, Event60Write

LEMMA HostKeepsDevice ==
  ASSUME HostStep
  PROVE  UNCHANGED <<device, faults>>
BY Zenon DEF HostStep, CompatWrite, ByteRead, EppTransfer,
   CompatFull, CompatByte, CompatBusy, CompatCount,
     ByteFull, NoData, Event14, Event7, Event9, ByteLate, ByteGet, Event11, Event16,
     EppIdle, EppDir, Event67, Event58Read, EppGet, Event60Read, EppReadEnd, Event62,
     EppWriteFull, Event58Write, Event60Write

LEMMA HostFlags ==
  ASSUME HostStep, Flags
  PROVE  Flags'
<1>1. slipped' \in BOOLEAN
  BY HostLate, Zenon DEF Flags, GoesOn
<1>2. reverse' \in BOOLEAN
  BY Zenon DEF Flags, HostStep, CompatWrite, ByteRead, EppTransfer,
     CompatFull, CompatByte, CompatBusy, CompatCount,
     ByteFull, NoData, Event14, Event7, Event9, ByteLate, ByteGet, Event11, Event16,
     EppIdle, EppDir, Event67, Event58Read, EppGet, Event60Read, EppReadEnd, Event62,
     EppWriteFull, Event58Write, Event60Write
<1> QED
  BY <1>1, <1>2, HostKeepsDevice, Zenon DEF Flags

LEMMA HostHostTypes ==
  ASSUME HostTypes, DeviceTypes, Counts, HostStep
  PROVE  HostTypes'
<1>1. late' \in 0 .. MaxLate
  BY HostLate, GoesOnTypes, Zenon
<1> USE LengthAssumption DEF HostTypes, Labels, ControlLines, CompatLines
<1>2. CASE CompatWrite
  <2>1. CASE CompatFull
    BY <1>1, <2>1 DEF CompatFull
  <2>2. CASE CompatByte
    BY <1>1, <2>2 DEF CompatByte, Counts, CompatPlaces
  <2>3. CASE CompatBusy
    BY <1>1, <2>3 DEF CompatBusy
  <2>4. CASE CompatCount
    <3>1. count < len /\ sent + (len - count) <= MaxSend
      BY <2>4 DEF CompatCount, Counts, CompatPlaces
    <3>2. /\ pc' = "c_next" /\ ctl' = {"nStrobe", "nAutoFd", "nInit"}
          /\ count' = count + 1 /\ sent' = sent + 1
          /\ UNCHANGED <<len, byte, mode, log, data>>
      BY <2>4 DEF CompatCount
    <3> QED
      BY <1>1, <3>1, <3>2
  <2> QED
    BY <1>2, <2>1, <2>2, <2>3, <2>4 DEF CompatWrite
<1>3. CASE ByteRead
  <2>1. CASE Event9 \/ Event11
    <3>1. /\ pc' \in {"b_read", "b_late", "b_ev16", "idle"}
          /\ UNCHANGED <<call, session, ctl, data>>
      BY <2>1, Zenon DEF Event9, Event11
    <3> QED
      BY <1>1, <3>1
  <2>2. CASE ByteGet
    BY <1>1, <2>2 DEF ByteGet, DeviceTypes
  <2>3. CASE Event16
    BY <1>1, <2>3 DEF Event16, Counts, BytePlaces
  <2>4. CASE ByteFull \/ NoData \/ Event14 \/ Event7 \/ ByteLate
    BY <1>1, <2>4 DEF ByteFull, NoData, Event14, Event7, ByteLate
  <2> QED
    BY <1>3, <2>1, <2>2, <2>3, <2>4 DEF ByteRead
<1>4. CASE EppTransfer
  <2>1. CASE EppIdle \/ EppDir \/ Event67 \/ EppReadEnd \/ EppWriteFull
    <3>1. /\ pc' \in {"r_dir", "w_dir", "r_next", "w_next", "r_ev58", "idle"}
          /\ ctl' \in {ctl, {"nStrobe", "nInit"}, {"nAutoFd", "nSelectIn", "nInit"},
                       (ctl \ {"nAutoFd"}) \cup {}}
          /\ UNCHANGED <<call, session, data>>
      BY <2>1, Zenon DEF EppIdle, EppDir, Event67, EppReadEnd, EppWriteFull
    <3> QED
      BY <1>1, <3>1
  <2>2. CASE Event58Read \/ Event58Write
    <3>1. /\ pc' \in {"r_read", "r_end", "w_ev60", "idle"}
          /\ ctl' \in {ctl, (ctl \ {}) \cup {"nAutoFd"}}
          /\ UNCHANGED <<call, session, data>>
      BY <2>2, Zenon DEF Event58Read, Event58Write
    <3> QED
      BY <1>1, <3>1
  <2>3. CASE EppGet
    BY <1>1, <2>3 DEF EppGet, DeviceTypes
  <2>4. CASE Event60Read
    <3>1. /\ pc = "r_ev60" /\ pc' \in {"r_next", "r_end"}
          /\ \/ count' = count + 1 /\ log' = Append(log, byte)
             \/ UNCHANGED <<count, log>>
          /\ UNCHANGED <<len, byte, mode, sent, ctl, data>>
      BY <2>4, Zenon DEF Event60Read
    <3>2. count < len
      BY <3>1 DEF Counts
    <3>3. log' \in Seq(0 .. MaxSupply)
      <4>1. Append(log, byte) \in Seq(0 .. MaxSupply)
        OBVIOUS
      <4> QED
        BY <3>1, <4>1, Zenon
    <3>4. count' \in 0 .. len
      BY <3>1, <3>2
    <3> QED
      BY <1>1, <3>1, <3>3, <3>4
  <2>5. CASE Event62
    <3>1. /\ pc = "w_next" /\ pc' = "w_ev58" /\ count < len /\ data' = sent + 1
          /\ ctl' = (ctl \ {"nAutoFd"}) \cup {}
          /\ UNCHANGED <<call, session>>
      BY <2>5, Zenon DEF Event62
    <3> QED
      BY <1>1, <3>1 DEF Counts, EppWriting
  <2>6. CASE Event60Write
    <3>1. /\ pc = "w_ev60" /\ pc' \in {"w_next", "idle"}
          /\ \/ count' = count + 1 /\ sent' = sent + 1
             \/ UNCHANGED <<count, sent>>
          /\ UNCHANGED <<len, byte, mode, log, ctl, data>>
      BY <2>6, Zenon DEF Event60Write
    <3> QED
      BY <1>1, <3>1 DEF Counts, EppWriting
  <2> QED
    BY <1>4, <2>1, <2>2, <2>3, <2>4, <2>5, <2>6 DEF EppTransfer
<1> QED
  BY <1>2, <1>3, <1>4 DEF HostStep

LEMMA RespondTypes ==
  ASSUME TypeOK, Counts, Respond
  PROVE  TypeOK'
<1>1. HostTypes' /\ UNCHANGED <<slipped, reverse>>
  BY Zenon DEF TypeOK, HostTypes, Respond, CompatTake, CompatReady, ByteOffer, ByteAdvance,
     EppTake, EppOffer, EppDone, Reacts
<1>2. DeviceTypes'
  <2> USE LengthAssumption DEF TypeOK, DeviceTypes
  <2>1. CASE CompatTake \/ EppTake
    <3>1. OnTheLines \in 0 .. MaxSend
      BY DEF OnTheLines, HostTypes
    <3>2. /\ taken' \in {taken, Append(taken, OnTheLines)}
          /\ UNCHANGED <<dev, bus, supply, given, faults>>
      BY <2>1, Zenon DEF CompatTake, EppTake, Reacts
    <3> HIDE DEF OnTheLines
    <3> QED
      BY <3>1, <3>2
  <2>2. CASE CompatReady
    BY <2>2, Zenon DEF CompatReady, Reacts
  <2>3. CASE ByteOffer
    BY <2>3 DEF ByteOffer, Reacts
  <2>4. CASE ByteAdvance
    <3>1. bus' = 0 /\ given' = given + 1 /\ given < supply
          /\ UNCHANGED <<dev, supply, taken, faults>>
      BY <2>4, Zenon DEF ByteAdvance, Reacts, Counts
    <3> QED
      BY <3>1
  <2>5. CASE EppOffer
    BY <2>5 DEF EppOffer, Reacts
  <2>6. CASE EppDone
    BY <2>6 DEF EppDone, Reacts, Counts
  <2> QED
    BY <2>1, <2>2, <2>3, <2>4, <2>5, <2>6 DEF Respond
<1>3. {perror, ack, busy}' \subseteq BOOLEAN
  <2>1. (given' = supply) \in BOOLEAN
    OBVIOUS
  <2> QED
    BY <2>1, Zenon DEF TypeOK, Flags, Respond, CompatTake, CompatReady, ByteOffer,
       ByteAdvance, EppTake, EppOffer, EppDone
<1> QED
  BY <1>1, <1>2, <1>3, Zenon DEF TypeOK, Flags

LEMMA OtherTypes ==
  ASSUME TypeOK, Counts,
         \/ \E n \in 0 .. MaxLen : Read(n) \/ Write(n)
         \/ DataDir \/ (\E m \in Modes : NewSession(m)) \/ SwitchOff \/ SwitchOn
  PROVE  TypeOK'
<1> USE LengthAssumption, FaultAssumption
<1>1. CASE \E n \in 0 .. MaxLen : Read(n) \/ Write(n)
  <2> PICK n \in 0 .. MaxLen : Read(n) \/ Write(n)
    BY <1>1
  <2>1. /\ pc' \in {"b_next", "r_idle", "c_next", "w_idle"} /\ len' = n /\ count' = 0
        /\ UNCHANGED <<byte, session, wires, device, faults, lateness>>
    BY Zenon DEF Read, Write
  <2>2. HostTypes'
    BY <2>1 DEF TypeOK, HostTypes, Labels
  <2> QED
    BY <2>1, <2>2, Zenon DEF TypeOK, DeviceTypes, Flags
<1>2. CASE DataDir
  <2>1. HostTypes' /\ DeviceTypes'
    BY <1>2, Zenon DEF DataDir, TypeOK, HostTypes, DeviceTypes
  <2> QED
    BY <1>2, <2>1, Zenon DEF DataDir, TypeOK, Flags
<1>3. CASE \E m \in Modes : NewSession(m)
  <2> PICK m \in Modes : NewSession(m)
    BY <1>3
  <2>1. HostTypes'
    BY DEF NewSession, TypeOK, HostTypes, CompatLines, ControlLines
  <2>2. supply' \in 0 .. MaxSupply
    BY DEF NewSession
  <2>3. DeviceTypes'
    BY <2>2 DEF NewSession, TypeOK, DeviceTypes
  <2>4. (supply' = 0) \in BOOLEAN
    OBVIOUS
  <2> QED
    BY <2>1, <2>3, <2>4, Zenon DEF NewSession, TypeOK, Flags
<1>4. CASE SwitchOff \/ SwitchOn
  <2>1. DeviceTypes'
    BY <1>4 DEF TypeOK, DeviceTypes, SwitchOff, SwitchOn
  <2> QED
    BY <1>4, <2>1, Zenon DEF TypeOK, HostTypes, Flags, SwitchOff, SwitchOn
<1> QED
  BY <1>1, <1>2, <1>3, <1>4

-----------------------------------------------------------------------------
(* What is left to do. *)

LEMMA CountsKept ==
  ASSUME TypeOK, Counts, [Next]_vars
  PROVE  Counts'
<1> USE DEF Counts, CompatPlaces, BytePlaces, EppReading, EppWriting
<1>1. CASE \E n \in 0 .. MaxLen : Read(n) \/ Write(n)
  <2> PICK n \in 0 .. MaxLen : Read(n) \/ Write(n)
    BY <1>1
  <2>1. CASE Read(n)
    BY <2>1 DEF Read
  <2>2. CASE Write(n)
    BY <2>2 DEF Write
  <2> QED
    BY <2>1, <2>2
<1>2. CASE HostStep
  <2>1. UNCHANGED <<device, mode, len>>
    BY <1>2, Zenon DEF HostStep, CompatWrite, ByteRead, EppTransfer, CompatFull,
     CompatByte, CompatBusy, CompatCount, ByteFull, NoData, Event14, Event7, Event9, ByteLate,
     ByteGet, Event11, Event16, EppIdle, EppDir, Event67, Event58Read, EppGet, Event60Read,
     EppReadEnd, Event62, EppWriteFull, Event58Write, Event60Write
  <2>2. CASE CompatWrite
    BY <2>1, <2>2 DEF TypeOK, HostTypes, CompatWrite, CompatFull, CompatByte, CompatBusy,
       CompatCount
  <2>3. CASE ByteRead
    BY <2>1, <2>3 DEF ByteRead, ByteFull, NoData, Event14, Event7, Event9, ByteLate,
       ByteGet, Event11, Event16
  <2>4. CASE EppTransfer
    <3>1. CASE Event60Read
      <4>1. pc = "r_ev60" /\ pc' \in {"r_next", "r_end"} /\ UNCHANGED sent
        BY <3>1, Zenon DEF Event60Read
      <4> QED
        BY <2>1, <4>1
    <3>2. CASE Event60Write
      <4>1. /\ pc = "w_ev60"
            /\ \/ pc' = "w_next" /\ count' = count + 1 /\ sent' = sent + 1
               \/ pc' = "idle" /\ UNCHANGED <<count, sent>>
        BY <3>2, Zenon DEF Event60Write
      <4> QED
        BY <2>1, <4>1 DEF TypeOK, HostTypes
    <3>3. CASE EppIdle \/ EppDir \/ Event67 \/ Event58Read \/ EppGet
      BY <2>1, <3>3 DEF EppIdle, EppDir, Event67, Event58Read, EppGet
    <3>4. CASE EppReadEnd \/ Event62 \/ EppWriteFull \/ Event58Write
      BY <2>1, <3>4 DEF EppReadEnd, Event62, EppWriteFull, Event58Write
    <3> QED
      BY <2>4, <3>1, <3>2, <3>3, <3>4 DEF EppTransfer
  <2> QED
    BY <1>2, <2>2, <2>3, <2>4 DEF HostStep
<1>3. CASE Respond
  <2>1. UNCHANGED <<pc, len, count, mode, sent, dev, supply>>
    BY <1>3, Zenon DEF Respond, CompatTake, CompatReady, ByteOffer, ByteAdvance, EppTake,
       EppOffer, EppDone, Reacts
  <2>2. dev = "byte" /\ ~ack' => given' < supply
    BY <1>3, Zenon DEF Respond, CompatTake, CompatReady, ByteOffer, ByteAdvance, EppTake,
       EppOffer, EppDone
  <2>3. dev = "epp" /\ bus' # 0 => given' < supply
    BY <1>3, Zenon DEF Respond, CompatTake, CompatReady, ByteOffer, ByteAdvance, EppTake,
       EppOffer, EppDone
  <2> QED
    BY <2>1, <2>2, <2>3
<1>4. CASE DataDir \/ (\E m \in Modes : NewSession(m)) \/ SwitchOff \/ SwitchOn
  BY <1>4 DEF DataDir, NewSession, SwitchOff, SwitchOn
<1>5. CASE UNCHANGED vars
  BY <1>5, Zenon DEF vars
<1> QED
  BY <1>1, <1>2, <1>3, <1>4, <1>5 DEF Next

-----------------------------------------------------------------------------
(* The wires. *)

LEMMA InTime ==
  ASSUME [Next]_vars, Sound', ~(\E m \in Modes : NewSession(m))
  PROVE  Sound /\ (GoesOn => ~PeripheralOwes)
<1>1. dev' = dev \/ dev' = "off" \/ dev' = "reset"
  BY Zenon DEF Next, vars, Read, Write, DataDir, HostStep, CompatWrite, ByteRead, EppTransfer,
     CompatFull,
     CompatByte, CompatBusy, CompatCount, ByteFull, NoData, Event14, Event7, Event9, ByteLate,
     ByteGet, Event11, Event16, EppIdle, EppDir, Event67, Event58Read, EppGet, Event60Read,
     EppReadEnd, Event62, EppWriteFull, Event58Write, Event60Write, Respond,
     CompatTake, CompatReady, ByteOffer, ByteAdvance,
     EppTake, EppOffer, EppDone, Reacts, SwitchOff, SwitchOn
<1>2. dev \in Modes
  BY <1>1 DEF Sound, Modes
<1>3. slipped => slipped'
  BY HostLate, Zenon DEF GoesOn, Next, vars, Read, Write, DataDir, Respond, CompatTake, CompatReady,
     ByteOffer, ByteAdvance, EppTake, EppOffer, EppDone, Reacts, SwitchOff, SwitchOn
<1>4. GoesOn => slipped' \/ ~PeripheralOwes
  BY Zenon DEF GoesOn
<1> QED
  BY <1>2, <1>3, <1>4, Zenon DEF Sound

LEMMA CompatWires ==
  ASSUME TypeOK, Counts, AsThere, CompatWrite, Sound, Sound', GoesOn => ~PeripheralOwes
  PROVE  mode = "compat" /\ mode' = "compat" /\ InCompat'
<1> USE DEF AsThere, InCompat, Low, EppQuiet, CompatPlaces, BytePlaces, EppReading, EppWriting,
        Counts, PeripheralOwes, TimesOut, CompatLines, ControlLines
<1>1. CASE CompatFull
  BY <1>1 DEF CompatFull
<1>2. CASE CompatByte
  BY <1>2 DEF CompatByte
<1>3. CASE CompatBusy
  BY <1>3 DEF CompatBusy
<1>4. CASE CompatCount
  BY <1>4 DEF CompatCount
<1> QED
  BY <1>1, <1>2, <1>3, <1>4 DEF CompatWrite

LEMMA CompatBytes ==
  ASSUME TypeOK, Counts, AsThere, CompatWrite, Sound, Sound', GoesOn => ~PeripheralOwes
  PROVE  TakenInv' /\ GivenInv'
<1> USE DEF AsThere, InCompat, Low, TakenInv, GivenInv, AheadTaken, AheadGiven, Taken, EppQuiet,
        CompatPlaces, BytePlaces, EppReading, EppWriting, Counts, PeripheralOwes, TimesOut
<1>1. CASE CompatFull
  BY <1>1 DEF CompatFull
<1>2. CASE CompatByte
  BY <1>2 DEF CompatByte
<1>3. CASE CompatBusy
  BY <1>3 DEF CompatBusy
<1>4. CASE CompatCount
  BY <1>4 DEF CompatCount
<1> QED
  BY <1>1, <1>2, <1>3, <1>4 DEF CompatWrite

LEMMA Waits ==
  ASSUME TypeOK
  PROVE  /\ TimesOut(ack, FALSE) => ack /\ GoesOn
         /\ TimesOut(ack, TRUE) => ~ack /\ GoesOn
         /\ TimesOut(busy, FALSE) => busy /\ GoesOn
         /\ TimesOut(busy, TRUE) => ~busy /\ GoesOn
<1>1. ack \in BOOLEAN /\ busy \in BOOLEAN
  BY Zenon DEF TypeOK, Flags
<1> QED
  BY <1>1, Zenon DEF TimesOut

LEMMA ByteWires ==
  ASSUME TypeOK, Counts, AsThere, ByteRead, Sound, Sound', GoesOn => ~PeripheralOwes
  PROVE  mode = "byte" /\ mode' = "byte" /\ InByte'
<1> USE DEF AsThere, InByte, Low, EppQuiet, CompatPlaces, BytePlaces, EppReading, EppWriting,
        Counts, PeripheralOwes, CompatLines, ControlLines
<1>1. CASE ByteFull
  BY <1>1 DEF ByteFull, TypeOK, HostTypes, DeviceTypes
<1>2. CASE NoData
  BY <1>2 DEF NoData
<1>3. CASE Event14
  BY <1>3 DEF Event14, TypeOK, HostTypes, DeviceTypes
<1>4. CASE Event7
  BY <1>4 DEF Event7
<1>5. CASE Event9
  <2>1. /\ pc = "b_ev9" /\ UNCHANGED <<call, session, wires, device>>
        /\ \/ ~ack /\ pc' = "b_read"
           \/ TimesOut(ack, FALSE) /\ pc' = "b_late"
    BY <1>5, Zenon DEF Event9
  <2> QED
    BY <2>1, Waits DEF TypeOK, HostTypes
<1>6. CASE ByteLate
  BY <1>6 DEF ByteLate
<1>7. CASE ByteGet
  BY <1>7 DEF ByteGet
<1>8. CASE Event11
  <2>1. /\ pc = "b_ev11" /\ UNCHANGED <<call, session, wires, device>>
        /\ \/ ack /\ pc' = "b_ev16"
           \/ TimesOut(ack, TRUE) /\ pc' = "idle"
    BY <1>8, Zenon DEF Event11
  <2> QED
    BY <2>1, Waits DEF TypeOK, HostTypes
<1>9. CASE Event16
  BY <1>9 DEF Event16
<1> QED
  BY <1>1, <1>2, <1>3, <1>4, <1>5, <1>6, <1>7, <1>8, <1>9 DEF ByteRead

LEMMA ByteBytes ==
  ASSUME TypeOK, Counts, AsThere, ByteRead, Sound, Sound', GoesOn => ~PeripheralOwes
  PROVE  TakenInv' /\ GivenInv'
<1> USE DEF AsThere, InByte, Low, TakenInv, GivenInv, AheadTaken, AheadGiven, Taken, EppQuiet,
        CompatPlaces, BytePlaces, EppReading, EppWriting, Counts, PeripheralOwes
<1>1. CASE ByteFull
  BY <1>1 DEF ByteFull, TypeOK, HostTypes, DeviceTypes
<1>2. CASE NoData
  BY <1>2 DEF NoData
<1>3. CASE Event14
  BY <1>3 DEF Event14, TypeOK, HostTypes, DeviceTypes
<1>4. CASE Event7
  BY <1>4 DEF Event7
<1>5. CASE Event9
  <2>1. /\ pc = "b_ev9" /\ UNCHANGED <<call, session, wires, device>>
        /\ \/ ~ack /\ pc' = "b_read"
           \/ TimesOut(ack, FALSE) /\ pc' = "b_late"
    BY <1>5, Zenon DEF Event9
  <2> QED
    BY <2>1, Waits DEF TypeOK, HostTypes
<1>6. CASE ByteLate
  BY <1>6 DEF ByteLate
<1>7. CASE ByteGet
  BY <1>7 DEF ByteGet
<1>8. CASE Event11
  <2>1. /\ pc = "b_ev11" /\ UNCHANGED <<call, session, wires, device>>
        /\ \/ ack /\ pc' = "b_ev16"
           \/ TimesOut(ack, TRUE) /\ pc' = "idle"
    BY <1>8, Zenon DEF Event11
  <2> QED
    BY <2>1, Waits DEF TypeOK, HostTypes
<1>9. CASE Event16
  BY <1>9 DEF Event16
<1> QED
  BY <1>1, <1>2, <1>3, <1>4, <1>5, <1>6, <1>7, <1>8, <1>9 DEF ByteRead

LEMMA EppWires ==
  ASSUME TypeOK, Counts, AsThere, EppTransfer, Sound, Sound', GoesOn => ~PeripheralOwes
  PROVE  mode = "epp" /\ mode' = "epp" /\ InEpp'
<1> USE DEF AsThere, InEpp, Low, EppQuiet, CompatPlaces, BytePlaces, EppReading, EppWriting,
        Counts, PeripheralOwes, CompatLines, ControlLines
<1>1. CASE EppIdle
  BY <1>1 DEF EppIdle
<1>2. CASE EppDir
  BY <1>2 DEF EppDir
<1>3. CASE Event67
  BY <1>3 DEF Event67
<1>4. CASE Event58Read
  <2>1. /\ pc = "r_ev58" /\ UNCHANGED <<call, session, wires, device>>
        /\ \/ busy /\ pc' = "r_read"
           \/ TimesOut(busy, TRUE) /\ pc' = "r_end"
    BY <1>4, Zenon DEF Event58Read
  <2>2. CASE busy /\ pc' = "r_read"
    BY <2>1, <2>2
  <2>3. CASE TimesOut(busy, TRUE) /\ pc' = "r_end"
    <3>1. ~busy /\ ~PeripheralOwes
      BY <2>3, Waits
    <3>2. given = supply
      BY <2>1, <3>1 DEF TypeOK, DeviceTypes
    <3>3. pc' = "r_end" /\ mode = "epp" /\ ~busy /\ bus = 0 /\ "nStrobe" \in ctl
      BY <2>1, <2>3, <3>1
    <3> QED
      BY <2>1, <3>2, <3>3
  <2> QED
    BY <2>1, <2>2, <2>3
<1>5. CASE EppGet
  BY <1>5 DEF EppGet
<1>6. CASE Event60Read
  <2>1. /\ pc = "r_ev60" /\ UNCHANGED <<len, byte, mode, sent, wires, device>>
        /\ \/ ~busy /\ pc' = "r_next" /\ count' = count + 1 /\ log' = Append(log, byte)
           \/ TimesOut(busy, FALSE) /\ pc' = "r_end" /\ UNCHANGED <<count, log>>
    BY <1>6, Zenon DEF Event60Read
  <2> QED
    BY <2>1, Waits DEF TypeOK, HostTypes
<1>7. CASE EppReadEnd
  BY <1>7 DEF EppReadEnd, TypeOK, HostTypes, DeviceTypes
<1>8. CASE Event62
  BY <1>8 DEF Event62
<1>9. CASE EppWriteFull
  BY <1>9 DEF EppWriteFull, TypeOK, HostTypes, DeviceTypes
<1>10. CASE Event58Write
  <2>1. /\ pc = "w_ev58" /\ UNCHANGED <<call, session, reverse, data, device>>
        /\ \/ busy /\ pc' = "w_ev60" /\ ctl' = (ctl \ {}) \cup {"nAutoFd"}
           \/ TimesOut(busy, TRUE) /\ pc' = "idle" /\ UNCHANGED ctl
    BY <1>10, Zenon DEF Event58Write
  <2> QED
    BY <2>1, Waits DEF TypeOK, HostTypes
<1>11. CASE Event60Write
  <2>1. /\ pc = "w_ev60" /\ UNCHANGED <<len, byte, mode, log, wires, device>>
        /\ \/ ~busy /\ pc' = "w_next" /\ count' = count + 1 /\ sent' = sent + 1
           \/ TimesOut(busy, FALSE) /\ pc' = "idle" /\ UNCHANGED <<count, sent>>
    BY <1>11, Zenon DEF Event60Write
  <2> QED
    BY <2>1, Waits DEF TypeOK, HostTypes
<1> QED
  BY <1>1, <1>2, <1>3, <1>4, <1>5, <1>6, <1>7, <1>8, <1>9, <1>10, <1>11 DEF EppTransfer

LEMMA EppBytes ==
  ASSUME TypeOK, Counts, AsThere, EppTransfer, Sound, Sound', GoesOn => ~PeripheralOwes
  PROVE  TakenInv' /\ GivenInv'
<1> USE DEF AsThere, InEpp, Low, TakenInv, GivenInv, AheadTaken, AheadGiven, Taken, EppQuiet,
        CompatPlaces, BytePlaces, EppReading, EppWriting, Counts, PeripheralOwes
<1>1. CASE EppIdle
  BY <1>1 DEF EppIdle
<1>2. CASE EppDir
  BY <1>2 DEF EppDir
<1>3. CASE Event67
  BY <1>3 DEF Event67
<1>4. CASE Event58Read
  <2>1. /\ pc = "r_ev58" /\ UNCHANGED <<call, session, wires, device>>
        /\ \/ busy /\ pc' = "r_read"
           \/ TimesOut(busy, TRUE) /\ pc' = "r_end"
    BY <1>4, Zenon DEF Event58Read
  <2> QED
    BY <2>1, Waits DEF TypeOK, HostTypes
<1>5. CASE EppGet
  BY <1>5 DEF EppGet
<1>6. CASE Event60Read
  <2>1. /\ pc = "r_ev60" /\ UNCHANGED <<len, byte, mode, sent, wires, device>>
        /\ \/ ~busy /\ pc' = "r_next" /\ count' = count + 1 /\ log' = Append(log, byte)
           \/ TimesOut(busy, FALSE) /\ pc' = "r_end" /\ UNCHANGED <<count, log>>
    BY <1>6, Zenon DEF Event60Read
  <2>2. Len(Append(log, byte)) = Len(log) + 1
    BY DEF TypeOK, HostTypes
  <2>3. dev = "epp" /\ mode = "epp" /\ "nAutoFd" \in ctl /\ Sound
    BY <2>1
  <2>4. ~TimesOut(busy, FALSE)
    BY <2>3, Waits
  <2>5. given = IF ~busy THEN Len(log) + 1 ELSE Len(log)
    BY <2>1
  <2>6. GivenInv'
    BY <2>1, <2>2, <2>4, <2>5
  <2>7. TakenInv'
    BY <2>1
  <2> QED
    BY <2>6, <2>7
<1>7. CASE EppReadEnd
  BY <1>7 DEF EppReadEnd, TypeOK, HostTypes, DeviceTypes
<1>8. CASE Event62
  BY <1>8 DEF Event62
<1>9. CASE EppWriteFull
  BY <1>9 DEF EppWriteFull, TypeOK, HostTypes, DeviceTypes
<1>10. CASE Event58Write
  <2>1. /\ pc = "w_ev58" /\ UNCHANGED <<call, session, reverse, data, device>>
        /\ \/ busy /\ pc' = "w_ev60" /\ ctl' = (ctl \ {}) \cup {"nAutoFd"}
           \/ TimesOut(busy, TRUE) /\ pc' = "idle" /\ UNCHANGED ctl
    BY <1>10, Zenon DEF Event58Write
  <2> QED
    BY <2>1, Waits DEF TypeOK, HostTypes
<1>11. CASE Event60Write
  <2>1. /\ pc = "w_ev60" /\ UNCHANGED <<len, byte, mode, log, wires, device>>
        /\ \/ ~busy /\ pc' = "w_next" /\ count' = count + 1 /\ sent' = sent + 1
           \/ TimesOut(busy, FALSE) /\ pc' = "idle" /\ UNCHANGED <<count, sent>>
    BY <1>11, Zenon DEF Event60Write
  <2> QED
    BY <2>1, Waits DEF TypeOK, HostTypes
<1> QED
  BY <1>1, <1>2, <1>3, <1>4, <1>5, <1>6, <1>7, <1>8, <1>9, <1>10, <1>11 DEF EppTransfer

LEMMA HostAsThere ==
  ASSUME TypeOK, Counts, AsThere, HostStep, Sound, Sound', GoesOn => ~PeripheralOwes
  PROVE  AsThere'
<1>1. dev' = dev /\ dev = mode
  BY HostKeepsDevice, Zenon DEF AsThere
<1>2. CASE CompatWrite
  BY <1>1, <1>2, CompatWires, CompatBytes DEF AsThere, InByte, InEpp
<1>3. CASE ByteRead
  BY <1>1, <1>3, ByteWires, ByteBytes DEF AsThere, InCompat, InEpp
<1>4. CASE EppTransfer
  BY <1>1, <1>4, EppWires, EppBytes DEF AsThere, InCompat, InByte
<1> QED
  BY <1>2, <1>3, <1>4 DEF HostStep

LEMMA RespondWires ==
  ASSUME TypeOK, Counts, AsThere, Respond, Sound
  PROVE  InCompat' /\ InByte' /\ InEpp'
<1> USE DEF AsThere, InCompat, InByte, InEpp, Low, EppQuiet, CompatPlaces, BytePlaces,
        EppReading, EppWriting, Counts, Reacts
<1>1. CASE CompatTake \/ CompatReady
  BY <1>1 DEF CompatTake, CompatReady
<1>2. CASE ByteOffer
  BY <1>2 DEF ByteOffer, TypeOK, DeviceTypes
<1>3. CASE ByteAdvance
  BY <1>3 DEF ByteAdvance, TypeOK, DeviceTypes
<1>4. CASE EppTake
  BY <1>4 DEF EppTake
<1>5. CASE EppOffer
  BY <1>5 DEF EppOffer, TypeOK, DeviceTypes
<1>6. CASE EppDone
  BY <1>6 DEF EppDone
<1> QED
  BY <1>1, <1>2, <1>3, <1>4, <1>5, <1>6 DEF Respond

\* What the peripheral takes is the next byte of the writes.
LEMMA TakesNext ==
  ASSUME TypeOK, Counts, AsThere, CompatTake \/ EppTake, Sound
  PROVE  TakenInv' /\ GivenInv'
<1>1. /\ UNCHANGED <<pc, call, session, wires, dev, given, supply, ack>>
      /\ ~busy /\ busy' /\ dev = mode /\ mode \in {"compat", "epp"}
  BY Zenon DEF CompatTake, EppTake, Reacts, AsThere, Sound, Modes
<1>2. pc \in {"c_strobe", "w_ev58"} /\ data = sent + 1
  BY <1>1 DEF CompatTake, EppTake, AsThere, InCompat, InEpp, Counts, Low, EppQuiet,
     CompatPlaces, BytePlaces, EppReading, EppWriting, TypeOK, HostTypes, Labels
<1>3. GivenInv'
  BY <1>1, <1>2 DEF AsThere, GivenInv, AheadGiven
<1>4. ASSUME mode = "compat" => TurnsBack
      PROVE  Len(taken') = sent + 1 /\ \A i \in 1 .. sent + 1 : taken'[i] = i
  <2>1. ~reverse
    BY <1>1, <1>2, <1>4 DEF AsThere, InCompat, InEpp, CompatPlaces, Counts, EppWriting
  <2>2. taken' = Append(taken, sent + 1)
    BY <1>1, <1>2, <2>1 DEF CompatTake, EppTake, OnTheLines
  <2>3. Len(taken) = sent /\ \A i \in 1 .. sent : taken[i] = i
    BY <1>1, <1>2, <1>4 DEF AsThere, TakenInv, AheadTaken, Taken
  <2>4. taken \in Seq(0 .. MaxSend) /\ sent \in Nat
    BY DEF TypeOK, HostTypes, DeviceTypes
  <2> QED
    BY <2>2, <2>3, <2>4
<1>5. TakenInv'
  <2>1. AheadTaken'
    BY <1>1, <1>2 DEF AheadTaken
  <2> QED
    BY <1>1, <1>4, <2>1, Zenon DEF TakenInv, Taken
<1> QED
  BY <1>3, <1>5

LEMMA RespondBytes ==
  ASSUME TypeOK, Counts, AsThere, Respond, Sound
  PROVE  TakenInv' /\ GivenInv'
<1>1. CASE CompatTake \/ EppTake
  BY <1>1, TakesNext
<1> USE DEF Reacts
<1>2. CASE CompatReady
  <2>1. pc \notin {"c_strobe", "w_ev58", "r_ev60"}
    BY <1>2 DEF CompatReady, AsThere, Sound, InCompat, Counts, Modes, EppReading, EppWriting
  <2>2. UNCHANGED <<pc, call, session, wires, dev, given, supply, ack, taken>>
    BY <1>2, Zenon DEF CompatReady
  <2> QED
    BY <2>1, <2>2 DEF AsThere, TakenInv, GivenInv, AheadTaken, AheadGiven, Taken
<1>3. CASE ByteOffer
  BY <1>3 DEF ByteOffer, AsThere, TakenInv, GivenInv, AheadTaken, AheadGiven, Taken,
     InByte, Low
<1>4. CASE ByteAdvance
  <2>1. pc = "b_ev11" /\ ~ack
    BY <1>4 DEF ByteAdvance, AsThere, Sound, InByte, Low, Counts, TypeOK, HostTypes, Labels,
       CompatPlaces, EppReading, EppWriting
  <2>2. /\ given' = given + 1 /\ ack'
        /\ UNCHANGED <<pc, call, session, wires, dev, busy, taken>>
    BY <1>4, Zenon DEF ByteAdvance
  <2>3. GivenInv'
    BY <2>1, <2>2 DEF AsThere, GivenInv, AheadGiven
  <2>4. TakenInv'
    BY <2>1, <2>2 DEF AsThere, TakenInv, AheadTaken, Taken
  <2> QED
    BY <2>3, <2>4
<1>5. CASE EppOffer
  <2>1. pc \notin {"c_strobe", "w_ev58", "r_ev60"}
    BY <1>5 DEF EppOffer, AsThere, Sound, InEpp, Low, Counts, CompatPlaces, EppWriting,
       EppReading
  <2>2. UNCHANGED <<pc, call, session, wires, dev, given, supply, ack, taken>>
    BY <1>5, Zenon DEF EppOffer
  <2> QED
    BY <2>1, <2>2 DEF AsThere, TakenInv, GivenInv, AheadTaken, AheadGiven, Taken
<1>6. CASE EppDone
  <2>1. pc \in {"r_ev60", "w_ev60"} /\ (pc = "r_ev60" <=> bus # 0) /\ busy
    BY <1>6 DEF EppDone, AsThere, Sound, InEpp, EppQuiet, Low, Counts, TypeOK, HostTypes,
       Labels, CompatPlaces, BytePlaces, EppReading, EppWriting
  <2>2. /\ given' = (IF bus = 0 THEN given ELSE given + 1) /\ ~busy'
        /\ UNCHANGED <<pc, call, session, wires, dev, ack, taken>>
    BY <1>6, Zenon DEF EppDone
  <2>3. GivenInv'
    BY <2>1, <2>2 DEF AsThere, GivenInv, AheadGiven
  <2>4. TakenInv'
    BY <2>1, <2>2 DEF AsThere, TakenInv, AheadTaken, Taken
  <2> QED
    BY <2>3, <2>4
<1> QED
  BY <1>1, <1>2, <1>3, <1>4, <1>5, <1>6 DEF Respond

\* The calls of the application, a negotiation between them and the power switch.
LEMMA OtherAsThere ==
  ASSUME TypeOK, Counts, AsThere, Sound',
         \/ \E n \in 0 .. MaxLen : Read(n) \/ Write(n)
         \/ DataDir \/ (\E m \in Modes : NewSession(m)) \/ SwitchOff \/ SwitchOn
         \/ UNCHANGED vars
  PROVE  AsThere'
<1> USE DEF InCompat, InByte, InEpp, Low, EppQuiet, CompatPlaces, BytePlaces, EppReading,
        EppWriting
<1>1. CASE \E n \in 0 .. MaxLen : Read(n)
  <2>1. Sound /\ UNCHANGED <<session, wires, device, slipped>> /\ pc = "idle"
    BY <1>1 DEF Read, Sound
  <2>2. /\ count' = 0 /\ len' \in Nat
        /\ \/ mode = "byte" /\ pc' = "b_next"
           \/ mode = "epp" /\ pc' = "r_idle"
    BY <1>1 DEF Read
  <2>3. InCompat' /\ InByte' /\ InEpp'
    BY <2>1, <2>2 DEF AsThere
  <2>4. TakenInv' /\ GivenInv'
    BY <2>1, <2>2 DEF AsThere, TakenInv, GivenInv, AheadTaken, AheadGiven, Taken
  <2> QED
    BY <2>1, <2>3, <2>4, Zenon DEF AsThere
<1>2. CASE \E n \in 0 .. MaxLen : Write(n)
  <2>1. Sound /\ UNCHANGED <<session, wires, device, slipped>> /\ pc = "idle"
    BY <1>2 DEF Write, Sound
  <2>2. /\ count' = 0 /\ len' \in Nat
        /\ \/ mode = "compat" /\ (TurnsBack => ~reverse) /\ pc' = "c_next"
           \/ mode = "epp" /\ pc' = "w_idle"
    BY <1>2 DEF Write
  <2>3. InCompat' /\ InByte' /\ InEpp'
    BY <2>1, <2>2 DEF AsThere
  <2>4. TakenInv' /\ GivenInv'
    BY <2>1, <2>2 DEF AsThere, TakenInv, GivenInv, AheadTaken, AheadGiven, Taken
  <2> QED
    BY <2>1, <2>3, <2>4, Zenon DEF AsThere
<1>3. CASE DataDir
  <2>1. Sound /\ UNCHANGED <<pc, call, session, ctl, data, device, slipped>>
        /\ pc = "idle" /\ mode = "compat" /\ ~reverse'
    BY <1>3, Zenon DEF DataDir, Sound
  <2>2. InCompat' /\ InByte' /\ InEpp'
    BY <2>1 DEF AsThere
  <2>3. TakenInv' /\ GivenInv'
    BY <2>1 DEF AsThere, TakenInv, GivenInv, AheadTaken, AheadGiven, Taken
  <2> QED
    BY <2>1, <2>2, <2>3, Zenon DEF AsThere
<1>4. CASE \E m \in Modes : NewSession(m)
  <2> PICK m \in Modes : NewSession(m)
    BY <1>4
  <2>1. /\ pc' = "idle" /\ len' = 0 /\ count' = 0 /\ mode' = m /\ sent' = 0 /\ log' = <<>>
        /\ dev' = m /\ ack' /\ ~busy' /\ bus' = 0 /\ given' = 0 /\ taken' = <<>>
        /\ (perror' <=> supply' = 0)
        /\ ctl' = (IF m = "compat" THEN CompatLines ELSE ControlLines)
    BY DEF NewSession
  <2>2. InCompat' /\ InByte' /\ InEpp'
    BY <2>1 DEF CompatLines, ControlLines
  <2>3. TakenInv' /\ GivenInv'
    BY <2>1 DEF TakenInv, GivenInv, AheadTaken, AheadGiven, Taken
  <2> QED
    BY <2>1, <2>2, <2>3, Zenon DEF AsThere
<1>5. CASE SwitchOff \/ SwitchOn
  BY <1>5 DEF SwitchOff, SwitchOn, Sound, Modes
<1>6. CASE UNCHANGED vars
  <2>1. Sound /\ UNCHANGED vars
    BY <1>6, Zenon DEF Sound, vars
  <2> QED
    BY <2>1, Zenon DEF vars, AsThere, TakenInv, GivenInv, AheadTaken, AheadGiven, Taken, Sound
<1> QED
  BY <1>1, <1>2, <1>3, <1>4, <1>5, <1>6

-----------------------------------------------------------------------------
(* The theorems. *)

LEMMA Initially == Init => IInv
<1> SUFFICES ASSUME Init PROVE IInv
  OBVIOUS
<1> USE LengthAssumption, FaultAssumption DEF Init
<1>1. HostTypes /\ DeviceTypes
  BY DEF HostTypes, DeviceTypes, Labels, Modes, ControlLines, CompatLines
<1>2. Flags
  BY Zenon DEF Flags
<1>3. Counts
  BY DEF Counts, CompatPlaces, BytePlaces, EppReading, EppWriting
<1>4. InCompat /\ InByte /\ InEpp
  BY DEF InCompat, InByte, InEpp, CompatPlaces, CompatLines, ControlLines
<1>5. TakenInv /\ GivenInv
  BY DEF TakenInv, GivenInv, AheadTaken, AheadGiven, Taken
<1> QED
  BY <1>1, <1>2, <1>3, <1>4, <1>5 DEF IInv, TypeOK, AsThere

LEMMA Inductive == IInv /\ [Next]_vars => IInv'
<1> SUFFICES ASSUME TypeOK, Counts, AsThere, [Next]_vars
             PROVE  IInv'
  BY DEF IInv
<1>1. TypeOK'
  <2>1. CASE HostStep
    BY <2>1, HostHostTypes, HostFlags, HostKeepsDevice, Zenon DEF TypeOK, DeviceTypes
  <2>2. CASE UNCHANGED vars
    BY <2>2, Zenon DEF vars, TypeOK, HostTypes, DeviceTypes, Flags
  <2> QED
    BY <2>1, <2>2, RespondTypes, OtherTypes, Zenon DEF Next
<1>2. Counts'
  BY CountsKept
<1>3. ASSUME Sound'  PROVE AsThere'
  <2>1. CASE \E m \in Modes : NewSession(m)
    BY <1>3, <2>1, OtherAsThere, Zenon
  <2>2. CASE ~\E m \in Modes : NewSession(m)
    <3>1. Sound /\ (GoesOn => ~PeripheralOwes)
      BY <1>3, <2>2, InTime, Zenon
    <3>2. CASE HostStep
      BY <1>3, <3>1, <3>2, HostAsThere, Zenon
    <3>3. CASE Respond
      <4>1. UNCHANGED <<dev, mode>> /\ dev = mode
        BY <3>1, <3>3, Zenon DEF AsThere, Respond, CompatTake, CompatReady, ByteOffer,
           ByteAdvance, EppTake, EppOffer, EppDone, Reacts
      <4> QED
        BY <3>1, <3>3, <4>1, RespondWires, RespondBytes, Zenon DEF AsThere
    <3>4. CASE ~HostStep /\ ~Respond
      BY <1>3, <2>2, <3>4, OtherAsThere, Zenon DEF Next
    <3> QED
      BY <3>2, <3>3, <3>4
  <2> QED
    BY <2>1, <2>2
<1>4. AsThere'
  BY <1>3, Zenon DEF AsThere
<1> QED
  BY <1>1, <1>2, <1>4 DEF IInv

LEMMA Invariance == Spec => []IInv
  BY Initially, Inductive, PTL DEF Spec

\* Every count stays within the length asked for, in every mode and at every pace
\* of the peripheral (default.c:385-611).
THEOREM TypeCorrect == Spec => []TypeOK
<1>1. IInv => TypeOK
  BY DEF IInv
<1> QED
  BY <1>1, Invariance, PTL

\* While the peripheral drives the data lines the host's drivers are off, except
\* for the step of an EPP read that has its idle state on the wires already
\* (default.c:509-512).
THEOREM OneDriverAtATime == Spec => []OneDriver
<1>1. IInv => OneDriver
  <2> SUFFICES ASSUME TypeOK, Counts, AsThere, Sound, bus # 0, pc # "r_dir"
               PROVE  reverse
    BY DEF IInv, OneDriver
  <2>1. mode \in {"byte", "epp"}
    BY DEF AsThere, InCompat, TypeOK, HostTypes, Modes
  <2>2. CASE mode = "byte"
    BY <2>2 DEF AsThere, InByte, Counts, TypeOK, HostTypes, Labels, CompatPlaces,
       EppReading, EppWriting
  <2>3. CASE mode = "epp"
    BY <2>3 DEF AsThere, InEpp, EppQuiet, Counts, TypeOK, HostTypes, Labels, CompatPlaces,
       BytePlaces, EppWriting
  <2> QED
    BY <2>1, <2>2, <2>3
<1> QED
  BY <1>1, Invariance, PTL

\* Between calls nothing is under way: what the writes counted is what the
\* peripheral took, in order, and what it gave is what the reads counted, if the
\* application turns the drivers on again before it writes in compatibility mode
\* (interface.xml, ieee1284_data_dir; default.c:451).
THEOREM StaysInStep == ASSUME TurnsBack PROVE Spec => []InStep
<1>1. IInv => InStep
  <2> SUFFICES ASSUME IInv, Sound, pc = "idle"
               PROVE  /\ taken = [i \in 1 .. sent |-> i]
                      /\ Len(log) = given
                      /\ mode # "compat" /\ count < len => given = supply
    BY DEF InStep
  <2>1. Len(taken) = sent /\ \A i \in 1 .. sent : taken[i] = i
    BY TurnsBack DEF IInv, AsThere, TakenInv, AheadTaken, Taken
  <2>2. taken = [i \in 1 .. Len(taken) |-> taken[i]]
    BY DEF IInv, TypeOK, DeviceTypes
  <2>3. taken = [i \in 1 .. sent |-> i]
    BY <2>1, <2>2
  <2>4. Len(log) = given /\ (mode # "compat" /\ count < len => given = supply)
    BY DEF IInv, AsThere, GivenInv, AheadGiven
  <2> QED
    BY <2>3, <2>4
<1> QED
  BY <1>1, Invariance, PTL

-----------------------------------------------------------------------------
(* The channel. *)

\* What is on the bus is the byte the peripheral is at; the byte a read has got and
\* not counted yet is the next of the stream.
StreamInv ==
  /\ bus # 0 => bus = given + 1
  /\ Sound /\ pc \in {"b_ev11", "b_ev16", "r_ev60"} => byte = Len(log) + 1

\* The host makes nothing sound that was not.
LEMMA HostSound ==
  ASSUME HostStep
  PROVE  UNCHANGED <<bus, given, dev>> /\ (Sound' => Sound)
<1>1. UNCHANGED <<bus, given, dev>>
  BY HostKeepsDevice, Zenon
<1>2. slipped => slipped'
  BY HostLate, Zenon DEF GoesOn
<1> QED
  BY <1>1, <1>2, Zenon DEF Sound

\* The host reads the bus only while the byte is offered.
LEMMA HostStream ==
  ASSUME IInv, StreamInv, HostStep
  PROVE  StreamInv'
<1>1. UNCHANGED <<bus, given, dev>> /\ (Sound' => Sound)
  BY HostSound, Zenon
<1>2. CASE ByteGet
  <2>1. ASSUME Sound PROVE bus = Len(log) + 1
    <3>1. pc = "b_read" /\ mode = "byte" /\ InByte /\ GivenInv
      BY <1>2, <2>1 DEF ByteGet, IInv, Counts, BytePlaces, AsThere
    <3>2. bus # 0 /\ given = Len(log)
      BY <3>1 DEF InByte, GivenInv, AheadGiven
    <3> QED
      BY <3>2 DEF StreamInv
  <2>2. byte' = bus /\ UNCHANGED log
    BY <1>2 DEF ByteGet
  <2> QED
    BY <1>1, <2>1, <2>2 DEF StreamInv
<1>3. CASE EppGet
  <2>1. ASSUME Sound PROVE bus = Len(log) + 1
    <3>1. pc = "r_read" /\ mode = "epp" /\ InEpp /\ GivenInv
      BY <1>3, <2>1 DEF EppGet, IInv, Counts, EppReading, AsThere
    <3>2. bus # 0 /\ given = Len(log)
      BY <3>1 DEF InEpp, GivenInv, AheadGiven
    <3> QED
      BY <3>2 DEF StreamInv
  <2>2. byte' = bus /\ UNCHANGED log
    BY <1>3 DEF EppGet
  <2> QED
    BY <1>1, <2>1, <2>2 DEF StreamInv
<1>4. CASE Event11
  BY <1>1, <1>4 DEF Event11, StreamInv
<1>5. CASE Event16 \/ Event60Read
  BY <1>1, <1>5 DEF Event16, Event60Read, StreamInv
<1>6. CASE CompatWrite
  BY <1>1, <1>6 DEF CompatWrite, CompatFull, CompatByte, CompatBusy, CompatCount, StreamInv
<1>7. CASE ByteFull \/ NoData \/ Event14 \/ Event7 \/ Event9 \/ ByteLate
  BY <1>1, <1>7 DEF ByteFull, NoData, Event14, Event7, Event9, ByteLate, StreamInv
<1>8. CASE EppIdle \/ EppDir \/ Event67 \/ Event58Read \/ EppReadEnd \/ Event62 \/ EppWriteFull
           \/ Event58Write \/ Event60Write
  BY <1>1, <1>8 DEF EppIdle, EppDir, Event67, Event58Read, EppReadEnd, Event62, EppWriteFull,
     Event58Write, Event60Write, StreamInv
<1> QED
  BY <1>2, <1>3, <1>4, <1>5, <1>6, <1>7, <1>8, Zenon DEF HostStep, ByteRead, EppTransfer

\* The peripheral goes on to the next byte with none on the bus.
LEMMA StreamKept == IInv /\ StreamInv /\ [Next]_vars => StreamInv'
<1> SUFFICES ASSUME IInv, StreamInv, [Next]_vars PROVE StreamInv'
  OBVIOUS
<1>1. CASE Respond
  BY <1>1 DEF Respond, CompatTake, CompatReady, ByteOffer, ByteAdvance, EppTake, EppOffer,
     EppDone, Reacts, StreamInv, Sound
<1>2. CASE \E n \in 0 .. MaxLen : Read(n) \/ Write(n)
  BY <1>2 DEF Read, Write, StreamInv, Sound
<1>3. CASE DataDir \/ SwitchOff \/ SwitchOn \/ UNCHANGED vars
  BY <1>3 DEF DataDir, SwitchOff, SwitchOn, StreamInv, Sound, Modes, vars
<1>4. CASE \E m \in Modes : NewSession(m)
  BY <1>4 DEF NewSession, StreamInv
<1> QED
  BY <1>1, <1>2, <1>3, <1>4, HostStream, Zenon DEF Next

\* A byte is delivered where the host counts it, after its whole handshake.
LEMMA ChannelStep == IInv /\ StreamInv /\ [Next]_vars => [Reading!Next]_Reading!vars
<1> SUFFICES ASSUME IInv, StreamInv, [Next]_vars PROVE [Reading!Next]_Reading!vars
  OBVIOUS
<1> USE DEF Reading!Next, Reading!Deliver, Reading!End, Reading!NewSession, Reading!Unsound,
            Reading!vars
<1>1. ASSUME UNCHANGED log, Sound' => Sound PROVE [Reading!Next]_Reading!vars
  <2>1. Sound \in BOOLEAN /\ Sound' \in BOOLEAN
    BY DEF Sound
  <2> QED
    BY <1>1, <2>1
<1>2. ASSUME pc \in {"b_ev16", "r_ev60"}, pc = "r_ev60" => ~busy,
             log' = Append(log, byte), UNCHANGED <<dev, slipped>>
      PROVE  [Reading!Next]_Reading!vars
  <2>1. Sound' = Sound
    BY <1>2 DEF Sound
  <2>2. CASE Sound
    <3>1. byte = Len(log) + 1
      BY <1>2, <2>2 DEF StreamInv
    <3>2. given = Len(log) + 1
      BY <1>2, <2>2 DEF IInv, AsThere, GivenInv, AheadGiven
    <3>3. Len(log) + 1 \in 1 .. MaxSupply
      BY <3>2, LengthAssumption DEF IInv, TypeOK, DeviceTypes, HostTypes
    <3>4. Len(log) + 1 \in DOMAIN Sent /\ Sent[Len(log) + 1] = byte
      BY <3>1, <3>3 DEF Sent
    <3> QED
      BY <1>2, <2>1, <2>2, <3>4
  <2>3. CASE ~Sound
    BY <2>1, <2>3
  <2> QED
    BY <2>2, <2>3
<1>3. CASE HostStep
  <2>1. UNCHANGED dev /\ (Sound' => Sound)
    BY <1>3, HostSound, Zenon
  <2>2. CASE Event16
    BY <1>2, <2>2 DEF Event16
  <2>3. CASE Event60Read
    BY <1>1, <1>2, <2>1, <2>3 DEF Event60Read
  <2>4. CASE ~Event16 /\ ~Event60Read
    <3>1. UNCHANGED log
      BY <1>3, <2>4, Zenon DEF HostStep, CompatWrite, ByteRead, EppTransfer, CompatFull,
         CompatByte, CompatBusy, CompatCount, ByteFull, NoData, Event14, Event7, Event9,
         ByteLate, ByteGet, Event11, EppIdle, EppDir, Event67, Event58Read, EppGet,
         EppReadEnd, Event62, EppWriteFull, Event58Write, Event60Write
    <3> QED
      BY <1>1, <2>1, <3>1
  <2> QED
    BY <2>2, <2>3, <2>4
<1>4. CASE \E m \in Modes : NewSession(m)
  <2>1. log' = <<>> /\ Sound'
    BY <1>4 DEF NewSession, Sound
  <2> QED
    BY <2>1
<1>5. CASE \/ Respond \/ DataDir \/ SwitchOff \/ SwitchOn \/ UNCHANGED vars
           \/ \E n \in 0 .. MaxLen : Read(n) \/ Write(n)
  <2>1. UNCHANGED <<log, slipped>> /\ (dev' \in Modes => UNCHANGED dev)
    BY <1>5 DEF Respond, CompatTake, CompatReady, ByteOffer, ByteAdvance, EppTake, EppOffer,
       EppDone, Reacts, DataDir, SwitchOff, SwitchOn, Read, Write, Modes, vars
  <2> QED
    BY <1>1, <2>1 DEF Sound
<1> QED
  BY <1>3, <1>4, <1>5, Zenon DEF Next

\* default_byte_read and default_epp_read_data implement the channel: what they count
\* is the peripheral's stream, each byte once and in its place.
THEOREM ChannelImplemented == Spec => ImplementsChannel
<1>1. Init => StreamInv /\ Reading!Init
  BY DEF Init, StreamInv, Reading!Init, Sound, Modes
<1> QED
  BY <1>1, StreamKept, ChannelStep, Invariance, PTL DEF Spec, ImplementsChannel, Reading!Spec

=============================================================================
