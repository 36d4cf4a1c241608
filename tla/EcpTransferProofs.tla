--------------------------- MODULE EcpTransferProofs ---------------------------
(***************************************************************************)
(* An ECP session for every stream, length and pace of the peripheral.     *)
(*                                                                         *)
(* The two ends have no word for the direction but PError, nInit and what  *)
(* the host has concluded from them.  The invariant says what the wires    *)
(* are at each place in a transfer for as long as no byte has stalled      *)
(* (WiresAsThere); that only a late peripheral makes a byte stall or a     *)
(* turn fail (LateAtFault); and that Busy is high only for the byte the    *)
(* host has on its data lines, or had there before it gave up waiting      *)
(* (BusyIsNext).  Bytes counted and bytes taken follow from the last.      *)
(***************************************************************************)
EXTENDS EcpTransfer, TLAPS

InRead == {"r_get", "r_ev44", "r_ev45"}
Stalling == {"w_stall", "w_test", "w_recover"}
Sending == {"w_ev36"} \cup Stalling
Writing == {"b_turn", "b_ev49", "w_start", "w_ev35", "w_ev32"} \cup Sending

\* The host's drivers are on, unless they were off when the session began.
Driven == undriven \/ ~reverse
Forward == dir = "fwd" /\ Driven /\ {"nInit", "nStrobe"} \subseteq ctl
Backward == dir = "rev" /\ reverse /\ "nInit" \notin ctl /\ "nStrobe" \in ctl
Open == reverse /\ "nStrobe" \in ctl

\* What the host has left to do fits its buffer, and what it may send.
Counts ==
  /\ pc \in InRead \cup Sending \cup {"w_ev32"} => count < len
  /\ pc \in Writing =>
       /\ run = 0
       /\ sent + (len - count) <= MaxSend
       /\ \A i \in sent + 1 .. sent + (len - count) : (i \in Addr) = addr
  /\ dir = "rev" /\ ~ack => given < Len(Stream)

\* The wires at each place, as long as no byte has stalled.
WiresAsThere == Powered =>
  /\ perror = (dir = "fwd")
  /\ ~stalled =>
       /\ pc = "idle" =>
            \/ phase = "FWD_IDLE" /\ Forward
            \/ phase = "REV_IDLE" /\ Backward
            \/ phase = "ECP_DIR_UNKNOWN" /\ Open
       /\ pc \in {"f_turn", "f_dir"} => Forward \/ Open
       /\ pc = "f_ev39" => Open
       /\ pc = "f_ev40" => Open /\ "nInit" \notin ctl
       /\ pc \in InRead \cup {"r_start", "r_ev43"} => Backward
       /\ pc = "b_turn" => Open
       /\ pc = "b_ev49" => Open /\ "nInit" \in ctl
       /\ pc \in {"w_start", "w_ev35", "w_ev32"} => Forward
       /\ pc \in Sending =>
            /\ dir = "fwd" /\ Driven /\ "nInit" \in ctl /\ "nStrobe" \notin ctl
            /\ data = sent + 1 /\ pc # "w_recover"
       /\ pc \in Sending \cup {"w_ev35", "w_ev32"} => ("nAutoFd" \in ctl) = ~addr

\* Without a late answer nothing stalls and no turn fails.
LateAtFault == Powered /\ late = 0 =>
  /\ ~stalled /\ pc \notin Stalling
  /\ pc = "idle" => phase # "ECP_DIR_UNKNOWN"

Took(i) == \E j \in 1 .. Len(taken) : taken[j] = <<i, Tag(i)>>

\* The byte for which Busy is high, or was, is the next to be counted.
BusyIsNext == Powered /\ ~stalled /\ ~undriven =>
  /\ \A i \in 1 .. sent : Took(i)
  /\ dir = "fwd" /\ busy => Took(sent + 1)
  /\ pc = "w_ev32" => Took(sent + 1)

\* With a peripheral that is never late nothing is taken twice.
TakenOnce == Powered /\ late = 0 /\ ~undriven =>
  /\ dir = "fwd" /\ busy => pc \in {"w_ev36", "w_ev32"}
  /\ Len(taken) = IF pc = "w_ev32" \/ (dir = "fwd" /\ busy) THEN sent + 1 ELSE sent
  /\ \A i \in 1 .. Len(taken) : taken[i] = <<i, Tag(i)>>

IInv ==
  /\ TypeOK
  /\ Counts
  /\ WiresAsThere
  /\ LateAtFault
  /\ BusyIsNext
  /\ TakenOnce

USE DEF call, session, wires, out, device, Goto, Return, Frob

-----------------------------------------------------------------------------
(* Types. *)

LEMMA StreamElements ==
  ASSUME NEW i \in Elements
  PROVE  Stream[i] \in Nat
  BY StreamAssumption DEF Elements

\* A deadline that passes costs at most one of the late answers allowed.
LEMMA LateBound ==
  ASSUME HostTypes, NEW line, NEW level, UNCHANGED late \/ TimesOut(line, level)
  PROVE  late' \in 0 .. MaxLate
<1>1. UNCHANGED late \/ (late < MaxLate /\ late' = late + 1)
  BY Zenon DEF TimesOut
<1> QED
  BY <1>1, FaultAssumption DEF HostTypes

LEMMA OnTheBusType ==
  ASSUME DeviceTypes
  PROVE  OnTheBus \in Bytes
<1>1. bus \in Bytes /\ Junk \in Bytes
  BY StreamAssumption DEF DeviceTypes, Junk, Bytes, Kinds
<1> QED
  BY <1>1, Zenon DEF OnTheBus

\* Reads keep to the buffer: a run-length count is accepted only if it fits.
LEMMA ReadTypes ==
  ASSUME HostTypes, DeviceTypes, Counts, ReadStep
  PROVE  HostTypes'
<1> USE StreamAssumption, BoundsAssumption, FaultAssumption
    DEF HostTypes, Labels, ControlLines
<1>1. CASE Event38 \/ DriversOff \/ Event39
  BY <1>1 DEF Event38, DriversOff, Event39
<1>2. CASE Event40
  <2>1. late' \in 0 .. MaxLate
    BY <1>2, LateBound, Zenon DEF Event40
  <2>2. /\ pc' \in {"r_start", "idle"} /\ phase' \in {"REV_IDLE", "ECP_DIR_UNKNOWN"}
        /\ UNCHANGED <<call, session, wires>>
    BY <1>2, Zenon DEF Event40
  <2> QED
    BY <2>1, <2>2
<1>3. CASE StartRead
  BY <1>3 DEF StartRead
<1>4. CASE ReadFull
  BY <1>4 DEF ReadFull
<1>5. CASE Event43
  BY <1>5 DEF Event43
<1>6. CASE GetByte
  BY <1>6, OnTheBusType DEF GetByte
<1>7. CASE GetCount
  <2>1. OnTheBus \in Bytes /\ run' \in Says(OnTheBus) /\ Fits(run')
    BY <1>7, OnTheBusType DEF GetCount
  <2>2. Says(OnTheBus) \subseteq Nat
    BY <2>1, StreamElements DEF Says, Channel, Bytes, Elements
  <2> HIDE DEF Says, OnTheBus, Bytes
  <2> QED
    BY <1>7, <2>1, <2>2 DEF GetCount, Fits
<1>8. CASE LeaveCommand
  BY <1>8 DEF LeaveCommand
<1>9. CASE Event44
  BY <1>9 DEF Event44
<1>10. CASE Event45
  <2>1. late' \in 0 .. MaxLate
    BY <1>10, LateBound, Zenon DEF Event45
  <2>2. byte' \in Bytes
    BY <1>10, StreamAssumption DEF Event45, Junk, Bytes, Kinds
  <2>3. CASE UNCHANGED <<log, count, run>>
    <3>1. /\ pc' \in {"idle", "r_ev43"} /\ phase' \in {phase, "REV_IDLE"}
          /\ ctl' \in {ctl, ctl \ {"nAutoFd"}}
          /\ UNCHANGED <<len, sent, data>>
      BY <1>10, Zenon DEF Event45
    <3> QED
      BY <2>1, <2>2, <2>3, <3>1
  <2>4. CASE ~UNCHANGED <<log, count, run>>
    <3> DEFINE n == IF run # 0 THEN run ELSE 1
    <3>1. /\ pc = "r_ev45" /\ pc' = "r_ev43" /\ ctl' = ctl \ {"nAutoFd"}
          /\ log' = Append(log, <<byte[1], n>>) /\ count' = count + n /\ run' = 0
          /\ UNCHANGED <<len, phase, sent, data>>
      BY <1>10, <2>4, Zenon DEF Event45
    <3>2. n \in Nat /\ n <= len - count
      BY <3>1 DEF Counts, InRead
    <3>3. byte[1] \in Nat
      BY StreamAssumption DEF Bytes
    <3> HIDE DEF n
    <3> QED
      BY <2>1, <2>2, <3>1, <3>2, <3>3
  <2> QED
    BY <2>3, <2>4
<1> QED
  BY <1>1, <1>2, <1>3, <1>4, <1>5, <1>6, <1>7, <1>8, <1>9, <1>10 DEF ReadStep

LEMMA WriteTypes ==
  ASSUME HostTypes, Counts, WriteStep
  PROVE  HostTypes'
<1> USE BoundsAssumption, FaultAssumption DEF HostTypes, Labels, ControlLines
<1>1. CASE TurnForward
  BY <1>1 DEF TurnForward
<1>2. CASE Event49
  <2>1. late' \in 0 .. MaxLate
    BY <1>2, LateBound, Zenon DEF Event49
  <2>2. /\ pc' \in {"w_start", "idle"} /\ phase' \in {"FWD_IDLE", "ECP_DIR_UNKNOWN"}
        /\ UNCHANGED <<call, session, ctl, data>>
    BY <1>2, Zenon DEF Event49
  <2> QED
    BY <2>1, <2>2
<1>3. CASE StartWrite
  BY <1>3 DEF StartWrite
<1>4. CASE WriteFull
  BY <1>4 DEF WriteFull
<1>5. CASE Event35
  BY <1>5 DEF Event35, Strobe, Counts, Writing
<1>6. CASE Event36
  <2>1. late' \in 0 .. MaxLate
    BY <1>6, LateBound, Zenon DEF Event36
  <2>2. \/ pc' = "w_ev32" /\ ctl' = (ctl \ {}) \cup {"nStrobe"}
        \/ pc' = "w_stall" /\ UNCHANGED ctl
    BY <1>6, Zenon DEF Event36
  <2>3. UNCHANGED <<call, session, phase, data>>
    BY <1>6, Zenon DEF Event36
  <2> QED
    BY <2>1, <2>2, <2>3
<1>7. CASE Stall
  BY <1>7 DEF Stall
<1>8. CASE Buggered
  BY <1>8 DEF Buggered
<1>9. CASE Recovered
  BY <1>9 DEF Recovered, Strobe, Counts, Writing, Sending, Stalling
<1>10. CASE GiveUp
  BY <1>10 DEF GiveUp
<1>11. CASE Event32
  <2>1. late' \in 0 .. MaxLate
    BY <1>11, LateBound, Zenon DEF Event32
  <2>2. \/ pc' = "w_ev35" /\ count' = count + 1 /\ sent' = sent + 1 /\ UNCHANGED phase
        \/ pc' = "idle" /\ phase' = "FWD_IDLE" /\ UNCHANGED <<count, sent>>
    BY <1>11, Zenon DEF Event32
  <2>3. pc = "w_ev32" /\ UNCHANGED <<len, byte, log, ctl, data>> /\ run' = run
    BY <1>11, Zenon DEF Event32
  <2>4. run = 0
    BY <2>3 DEF Counts, Writing
  <2> QED
    BY <2>1, <2>2, <2>3, <2>4 DEF Counts, Writing, Sending
<1> QED
  BY <1>1, <1>2, <1>3, <1>4, <1>5, <1>6, <1>7, <1>8, <1>9, <1>10, <1>11 DEF WriteStep

LEMMA RespondTypes ==
  ASSUME HostTypes, DeviceTypes, DeviceFlags, Counts, Respond
  PROVE  DeviceTypes' /\ DeviceFlags'
<1> USE StreamAssumption DEF DeviceTypes, Junk, Bytes, Kinds
<1>1. CASE Take
  <2>1. taken' \in Seq((0 .. MaxSend) \X {"data", "addr"})
    BY <1>1, BoundsAssumption DEF Take, HostTypes
  <2> QED
    BY <1>1, <2>1, Zenon DEF Take, Reacts, DeviceFlags
<1>2. CASE Accept
  BY <1>2, Zenon DEF Accept, Reacts, DeviceFlags
<1>3. CASE Turn("fwd", "rev", FALSE) \/ Turn("rev", "fwd", TRUE)
  <2>1. DeviceTypes'
    BY <1>3 DEF Turn, Reacts
  <2> QED
    BY <1>3, <2>1, Zenon DEF Turn, DeviceFlags
<1>4. CASE Offer
  <2>1. DeviceTypes'
    BY <1>4 DEF Offer, Reacts
  <2>2. (half = "byte") \in BOOLEAN
    OBVIOUS
  <2> QED
    BY <1>4, <2>1, <2>2, Zenon DEF Offer, DeviceFlags
<1>5. CASE Advance
  <2>1. DeviceTypes'
    BY <1>5 DEF Advance, Reacts, Counts, Opening
  <2> QED
    BY <1>5, <2>1, Zenon DEF Advance, DeviceFlags
<1> QED
  BY <1>1, <1>2, <1>3, <1>4, <1>5 DEF Respond

LEMMA FlagsKept ==
  ASSUME HostFlags, HostStep
  PROVE  HostFlags'
<1> USE DEF HostFlags
<1>1. CASE ReadStep
  BY <1>1, ZenonT(30) DEF ReadStep, Event38, DriversOff, Event39, Event40, StartRead, ReadFull, Event43,
     GetByte, GetCount, LeaveCommand, Event44, Event45
<1>2. CASE WriteStep
  BY <1>2, ZenonT(30) DEF WriteStep, TurnForward, Event49, StartWrite, WriteFull, Event35,
     Strobe, Event36, Stall, Buggered, Recovered, GiveUp, Event32
<1> QED
  BY <1>1, <1>2 DEF HostStep

LEMMA HostStepTypes ==
  ASSUME TypeOK, Counts, HostStep
  PROVE  TypeOK'
<1>1. HostTypes' /\ HostFlags'
  BY ReadTypes, WriteTypes, FlagsKept, Zenon DEF HostStep, TypeOK
<1>2. UNCHANGED <<device, faults>>
  BY Zenon DEF HostStep, ReadStep, Event38, DriversOff, Event39, Event40, StartRead, ReadFull, Event43,
     GetByte, GetCount, LeaveCommand, Event44, Event45, WriteStep, TurnForward, Event49,
     StartWrite, WriteFull, Event35, Strobe, Event36, Stall, Buggered, Recovered, GiveUp,
     Event32
<1> QED
  BY <1>1, <1>2, Zenon DEF TypeOK, DeviceTypes, DeviceFlags

LEMMA OtherTypes ==
  ASSUME TypeOK, Counts,
         \/ \E n \in 0 .. MaxLen : Read(n)
         \/ \E n \in 1 .. MaxLen, a \in BOOLEAN : Write(n, a)
         \/ Respond \/ NewSession \/ SwitchOff \/ SwitchOn
  PROVE  TypeOK'
<1> USE StreamAssumption, BoundsAssumption, FaultAssumption
<1>1. CASE \E n \in 0 .. MaxLen : Read(n)
  <2> PICK n \in 0 .. MaxLen : Read(n)
    BY <1>1
  <2>1. HostTypes'
    BY DEF Read, TypeOK, HostTypes, Labels
  <2> QED
    BY <2>1, Zenon DEF Read, TypeOK, DeviceTypes, HostFlags, DeviceFlags
<1>2. CASE \E n \in 1 .. MaxLen, a \in BOOLEAN : Write(n, a)
  <2> PICK n \in 1 .. MaxLen, a \in BOOLEAN : Write(n, a)
    BY <1>2
  <2>1. HostTypes'
    BY DEF Write, TypeOK, HostTypes, Labels
  <2> QED
    BY <2>1, Zenon DEF Write, TypeOK, DeviceTypes, HostFlags, DeviceFlags
<1>3. CASE Respond
  <2>1. HostTypes' /\ HostFlags'
    BY <1>3, Zenon DEF TypeOK, HostTypes, HostFlags, Respond, Take, Accept, Turn, Offer,
       Advance, Reacts
  <2> QED
    BY <1>3, <2>1, RespondTypes, Zenon DEF TypeOK
<1>4. CASE NewSession
  <2>1. HostTypes' /\ DeviceTypes'
    BY <1>4 DEF TypeOK, HostTypes, DeviceTypes, NewSession, Terminated, Opening, ControlLines,
       Junk, Bytes, Kinds
  <2>2. reverse' \in BOOLEAN /\ undriven' = reverse'
    BY <1>4, Zenon DEF NewSession, Terminated, TypeOK, HostFlags
  <2> QED
    BY <1>4, <2>1, <2>2, Zenon DEF NewSession, TypeOK, HostFlags, DeviceFlags
<1>5. CASE SwitchOff \/ SwitchOn
  <2>1. DeviceTypes'
    BY <1>5 DEF TypeOK, DeviceTypes, SwitchOff, SwitchOn, Junk, Bytes, Kinds
  <2> QED
    BY <1>5, <2>1, Zenon DEF TypeOK, HostTypes, HostFlags, DeviceFlags, SwitchOff, SwitchOn
<1> QED
  BY <1>1, <1>2, <1>3, <1>4, <1>5

-----------------------------------------------------------------------------
(* What is left to do. *)

LEMMA CountsKept ==
  ASSUME TypeOK, Counts, [Next]_vars
  PROVE  Counts'
<1> USE DEF Counts, InRead, Sending, Stalling, Writing
<1>1. CASE \E n \in 0 .. MaxLen : Read(n)
  BY <1>1 DEF Read
<1>2. CASE \E n \in 1 .. MaxLen, a \in BOOLEAN : Write(n, a)
  <2> PICK n \in 1 .. MaxLen, a \in BOOLEAN : Write(n, a)
    BY <1>2
  <2>1. /\ sent + n <= MaxSend /\ \A i \in sent + 1 .. sent + n : (i \in Addr) = a
        /\ pc' \in {"w_start", "b_turn"}
        /\ len' = n /\ count' = 0 /\ run' = 0 /\ addr' = a
        /\ UNCHANGED <<sent, dir, ack, given>>
    BY Zenon DEF Write
  <2>2. n - 0 = n
    BY BoundsAssumption
  <2> QED
    BY <2>1, <2>2
<1>3. CASE ReadStep
  <2>1. /\ pc' \in {"f_dir", "f_ev39", "f_ev40", "idle", "r_start", "r_ev43"} \cup InRead
        /\ UNCHANGED <<dir, ack, given>>
    BY <1>3 DEF ReadStep, Event38, DriversOff, Event39, Event40, StartRead, ReadFull, Event43,
     GetByte, GetCount, LeaveCommand, Event44, Event45
  <2>2. CASE pc' \in InRead
    <3>1. UNCHANGED <<len, count>> /\ count < len
      BY <1>3, <2>2 DEF ReadStep, Event38, DriversOff, Event39, Event40, StartRead, ReadFull, Event43,
        GetByte, GetCount, LeaveCommand, Event44, Event45
    <3> QED
      BY <2>1, <2>2, <3>1
  <2>3. CASE pc' \notin InRead
    BY <2>1, <2>3
  <2> QED
    BY <2>2, <2>3
<1>4. CASE WriteStep
  <2>1. UNCHANGED <<len, run, addr, dir, ack, given>>
    BY <1>4, Zenon DEF WriteStep, TurnForward, Event49, StartWrite, WriteFull, Event35,
       Strobe, Event36, Stall, Buggered, Recovered, GiveUp, Event32
  <2>2. \/ pc = "w_ev32" /\ pc' = "w_ev35" /\ count' = count + 1 /\ sent' = sent + 1
        \/ /\ pc' = "idle" \/ (pc \in Writing /\ pc' \in Writing)
           /\ pc' \in Sending \cup {"w_ev32"} => count < len
           /\ UNCHANGED <<count, sent>>
    BY <1>4, Zenon DEF WriteStep, TurnForward, Event49, StartWrite, WriteFull, Event35,
       Strobe, Event36, Stall, Buggered, Recovered, GiveUp, Event32
  <2>3. CASE pc = "w_ev32" /\ pc' = "w_ev35" /\ count' = count + 1 /\ sent' = sent + 1
    <3>1. /\ sent' + (len - count') = sent + (len - count)
          /\ sent' + 1 .. sent' + (len' - count') \subseteq sent + 1 .. sent + (len - count)
      BY <2>1, <2>3 DEF TypeOK, HostTypes
    <3> QED
      BY <2>1, <2>3, <3>1
  <2> QED
    BY <2>1, <2>2, <2>3
<1>5. CASE Respond
  <2>1. UNCHANGED <<pc, len, count, run, addr, sent>>
    BY <1>5, Zenon DEF Respond, Take, Accept, Offer, Advance, Turn, Reacts
  <2>2. (dir' = "rev" /\ ~ack') => given' < Len(Stream)
    <3>1. \/ UNCHANGED <<dir, ack, given>>
          \/ ack'
          \/ given < Len(Stream) /\ UNCHANGED given
      BY <1>5, Zenon DEF Respond, Take, Accept, Offer, Advance, Turn
    <3> QED
      BY <3>1, Zenon
  <2> QED
    BY <2>1, <2>2, Zenon
<1>6. CASE NewSession \/ SwitchOff \/ SwitchOn
  BY <1>6 DEF NewSession, SwitchOff, SwitchOn
<1>7. CASE UNCHANGED vars
  BY <1>7 DEF vars
<1> QED
  BY <1>1, <1>2, <1>3, <1>4, <1>5, <1>6, <1>7 DEF Next, HostStep

-----------------------------------------------------------------------------
(* The wires. *)

LEMMA OwesIsLate ==
  ASSUME HostTypes, NEW line, NEW level, TimesOut(line, level), PeripheralOwes
  PROVE  late' # 0
<1>1. late' = late + 1
  BY Zenon DEF TimesOut
<1> QED
  BY <1>1, FaultAssumption DEF HostTypes

LEMMA ReadWires ==
  ASSUME TypeOK, WiresAsThere, ReadStep
  PROVE  WiresAsThere'
<1> USE DEF WiresAsThere, Powered, Driven, Forward, Backward, Open, InRead, Sending, Stalling
<1>1. CASE Event38 \/ DriversOff \/ Event39
  BY <1>1 DEF Event38, DriversOff, Event39
<1>2. CASE Event40
  BY <1>2 DEF Event40
<1>3. CASE StartRead
  BY <1>3 DEF StartRead, ControlLines
<1>4. CASE ReadFull
  BY <1>4 DEF ReadFull
<1>5. CASE Event43
  BY <1>5 DEF Event43
<1>6. CASE GetByte
  BY <1>6 DEF GetByte
<1>7. CASE GetCount
  BY <1>7 DEF GetCount
<1>8. CASE LeaveCommand
  BY <1>8 DEF LeaveCommand
<1>9. CASE Event44
  BY <1>9 DEF Event44
<1>10. CASE Event45
  BY <1>10 DEF Event45
<1> QED
  BY <1>1, <1>2, <1>3, <1>4, <1>5, <1>6, <1>7, <1>8, <1>9, <1>10 DEF ReadStep

LEMMA WriteWires ==
  ASSUME TypeOK, WiresAsThere, WriteStep
  PROVE  WiresAsThere'
<1> USE DEF WiresAsThere, Powered, Driven, Forward, Backward, Open, InRead, Sending, Stalling
<1>1. CASE TurnForward
  BY <1>1 DEF TurnForward
<1>2. CASE Event49
  BY <1>2 DEF Event49
<1>3. CASE StartWrite
  BY <1>3 DEF StartWrite
<1>4. CASE WriteFull
  BY <1>4 DEF WriteFull
<1>5. CASE Event35
  BY <1>5 DEF Event35, Strobe
<1>6. CASE Event36
  <2>1. \/ pc' = "w_ev32" /\ ctl' = (ctl \ {}) \cup {"nStrobe"}
        \/ pc' = "w_stall" /\ UNCHANGED ctl
    BY <1>6, Zenon DEF Event36
  <2>2. pc = "w_ev36" /\ UNCHANGED <<call, session, phase, reverse, data, device>>
    BY <1>6, Zenon DEF Event36
  <2> QED
    BY <2>1, <2>2
<1>7. CASE Stall
  BY <1>7 DEF Stall
<1>8. CASE Buggered
  BY <1>8 DEF Buggered
<1>9. CASE Recovered
  BY <1>9 DEF Recovered, Strobe
<1>10. CASE GiveUp
  BY <1>10 DEF GiveUp
<1>11. CASE Event32
  BY <1>11 DEF Event32
<1> QED
  BY <1>1, <1>2, <1>3, <1>4, <1>5, <1>6, <1>7, <1>8, <1>9, <1>10, <1>11 DEF WriteStep

LEMMA OtherWires ==
  ASSUME TypeOK, WiresAsThere,
         \/ \E n \in 0 .. MaxLen : Read(n)
         \/ \E n \in 1 .. MaxLen, a \in BOOLEAN : Write(n, a)
         \/ Respond \/ NewSession \/ SwitchOff \/ SwitchOn
  PROVE  WiresAsThere'
<1> USE DEF WiresAsThere, Powered, Driven, Forward, Backward, Open, InRead, Sending, Stalling
<1>1. CASE \E n \in 0 .. MaxLen : Read(n)
  BY <1>1 DEF Read
<1>2. CASE \E n \in 1 .. MaxLen, a \in BOOLEAN : Write(n, a)
  BY <1>2 DEF Write
<1>3. CASE Take \/ Accept \/ Offer \/ Advance
  BY <1>3 DEF Take, Accept, Offer, Advance, Reacts
<1>4. CASE Turn("fwd", "rev", FALSE) \/ Turn("rev", "fwd", TRUE)
  BY <1>4 DEF Turn, Reacts
<1>5. CASE NewSession
  BY <1>5 DEF NewSession
<1>6. CASE SwitchOff \/ SwitchOn
  BY <1>6 DEF SwitchOff, SwitchOn
<1> QED
  BY <1>1, <1>2, <1>3, <1>4, <1>5, <1>6 DEF Respond

-----------------------------------------------------------------------------
(* Late answers. *)

\* What no step does within a session: power does not come back, a stall is not
\* forgotten, Busy goes high only when a byte is taken, and a byte counts only
\* when Busy is low again.
LEMMA Frame ==
  ASSUME [Next]_vars
  PROVE  /\ UNCHANGED late \/ late' = late + 1
         /\ ~NewSession =>
              /\ Powered' => Powered
              /\ stalled => stalled'
              /\ undriven => undriven'
              /\ ~Take => UNCHANGED taken
              /\ \/ UNCHANGED sent
                 \/ ~busy /\ UNCHANGED busy /\ pc = "w_ev32" /\ pc' = "w_ev35" /\ sent' = sent + 1
              /\ Powered /\ ~Take /\ dir' = "fwd" /\ busy' => dir = "fwd" /\ busy
              /\ pc' = "w_ev32" => pc = "w_ev32" \/ (pc = "w_ev36" /\ busy)
<1> USE DEF Next, vars, Read, Write, HostStep, ReadStep, Event38, DriversOff, Event39, Event40, StartRead,
     ReadFull, Event43, GetByte, GetCount, LeaveCommand, Event44, Event45, WriteStep,
     TurnForward, Event49, StartWrite, WriteFull, Event35, Strobe, Event36, Stall, Buggered,
     Recovered, GiveUp, Event32, TimesOut, Respond, Accept, Turn, Offer, Advance,
     Reacts, SwitchOff, SwitchOn
<1>1. UNCHANGED late \/ late' = late + 1
  BY Zenon DEF Take, NewSession, Terminated
<1> SUFFICES ASSUME ~NewSession
             PROVE  /\ Powered' => Powered
                    /\ stalled => stalled'
                    /\ undriven => undriven'
                    /\ ~Take => UNCHANGED taken
                    /\ \/ UNCHANGED sent
                       \/ /\ ~busy /\ UNCHANGED busy
                          /\ pc = "w_ev32" /\ pc' = "w_ev35" /\ sent' = sent + 1
                    /\ Powered /\ ~Take /\ dir' = "fwd" /\ busy' => dir = "fwd" /\ busy
                    /\ pc' = "w_ev32" => pc = "w_ev32" \/ (pc = "w_ev36" /\ busy)
  BY <1>1, Zenon
<1>2. UNCHANGED dir \/ Powered \/ dir' = "compat" \/ dir' = "off"
  BY Zenon DEF Take, Powered
<1>3. Powered' => Powered
  BY <1>2 DEF Powered
<1>4. stalled => stalled'
  BY Zenon DEF Take
<1>9. undriven => undriven'
  BY Zenon DEF Take
<1>5. ~Take => UNCHANGED taken
  BY Zenon
<1>6. \/ UNCHANGED sent
      \/ ~busy /\ UNCHANGED busy /\ pc = "w_ev32" /\ pc' = "w_ev35" /\ sent' = sent + 1
  BY Zenon DEF Take
<1>7. Powered /\ ~Take /\ dir' = "fwd" /\ busy' => dir = "fwd" /\ busy
  BY Zenon DEF Powered
<1>8. pc' = "w_ev32" => pc = "w_ev32" \/ (pc = "w_ev36" /\ busy)
  BY Zenon DEF Take
<1> QED
  BY <1>3, <1>4, <1>5, <1>6, <1>7, <1>8, <1>9, Zenon

LEMMA LateGrows ==
  ASSUME TypeOK, [Next]_vars, late' = 0
  PROVE  late = 0
<1>1. UNCHANGED late \/ late' = late + 1
  BY Frame, Zenon
<1> QED
  BY <1>1 DEF TypeOK, HostTypes

\* The waits of a turn and of a write, where the peripheral always owes an answer.
LEMMA NoTimeOut ==
  ASSUME TypeOK, WiresAsThere, Powered, ~stalled, late' = 0
  PROVE  /\ pc = "f_ev40" => ~TimesOut(perror, FALSE)
         /\ pc = "b_ev49" => ~TimesOut(perror, TRUE)
         /\ pc = "w_ev36" => ~TimesOut(busy, TRUE)
         /\ pc = "w_ev32" => ~TimesOut(busy, FALSE)
<1>1. /\ perror = TRUE \/ perror = FALSE
      /\ busy = TRUE \/ busy = FALSE
  BY Zenon DEF TypeOK, DeviceFlags
<1>2. \A line, level : TimesOut(line, level) => line # level /\ ~PeripheralOwes
  <2> SUFFICES ASSUME NEW line, NEW level, TimesOut(line, level)
               PROVE  line # level /\ ~PeripheralOwes
    OBVIOUS
  <2> QED
    BY OwesIsLate, Zenon DEF TimesOut, TypeOK
<1>3. ASSUME pc = "f_ev40", TimesOut(perror, FALSE)  PROVE FALSE
  BY <1>1, <1>2, <1>3, Zenon DEF WiresAsThere, Open, PeripheralOwes
<1>4. ASSUME pc = "b_ev49", TimesOut(perror, TRUE)  PROVE FALSE
  BY <1>1, <1>2, <1>4, Zenon DEF WiresAsThere, Open, PeripheralOwes, Powered
<1>5. ASSUME pc = "w_ev36", TimesOut(busy, TRUE)  PROVE FALSE
  <2>1. dir = "fwd" /\ "nStrobe" \notin ctl
    BY <1>5 DEF WiresAsThere, Sending
  <2>2. ("nStrobe" \in ctl) = FALSE
    BY <2>1
  <2> QED
    BY <1>1, <1>2, <1>5, <2>1, <2>2, Zenon DEF PeripheralOwes
<1>6. ASSUME pc = "w_ev32", TimesOut(busy, FALSE)  PROVE FALSE
  BY <1>1, <1>2, <1>6, Zenon DEF WiresAsThere, Forward, PeripheralOwes
<1> QED
  BY <1>3, <1>4, <1>5, <1>6, Zenon

LEMMA LateKept ==
  ASSUME TypeOK, WiresAsThere, LateAtFault, [Next]_vars
  PROVE  LateAtFault'
<1>1. CASE NewSession
  BY <1>1, Zenon DEF NewSession, LateAtFault, Stalling
<1>2. ASSUME ~NewSession, Powered', late' = 0
      PROVE  ~stalled' /\ pc' \notin Stalling /\ (pc' = "idle" => phase' # "ECP_DIR_UNKNOWN")
  <2>1. Powered /\ ~stalled /\ pc \notin Stalling
        /\ (pc = "idle" => phase # "ECP_DIR_UNKNOWN")
    BY <1>2, LateGrows, Frame, Zenon DEF LateAtFault
  <2>2. CASE ReadStep
    <3>1. UNCHANGED stalled
      BY <2>2, Zenon DEF ReadStep, Event38, DriversOff, Event39, Event40, StartRead,
         ReadFull, Event43, GetByte, GetCount, LeaveCommand, Event44, Event45
    <3>2. \/ pc' = "f_dir" \/ pc' = "f_ev39" \/ pc' = "f_ev40" \/ pc' = "r_start" \/ pc' = "r_ev43" \/ pc' = "r_get"
          \/ pc' = "r_ev44" \/ pc' = "r_ev45" \/ (pc' = "idle" /\ phase' = "REV_IDLE")
          \/ (pc = "f_ev40" /\ TimesOut(perror, FALSE))
      BY <2>2, Zenon DEF ReadStep, Event38, DriversOff, Event39, Event40, StartRead,
         ReadFull, Event43, GetByte, GetCount, LeaveCommand, Event44, Event45
    <3>3. pc = "f_ev40" => ~TimesOut(perror, FALSE)
      BY <1>2, <2>1, NoTimeOut, Zenon
    <3> QED
      BY <2>1, <3>1, <3>2, <3>3 DEF Stalling
  <2>3. CASE WriteStep
    <3>1. pc \notin Stalling => UNCHANGED stalled
      BY <2>3, Zenon DEF WriteStep, TurnForward, Event49, StartWrite, WriteFull, Event35,
         Strobe, Event36, Stall, Buggered, Recovered, GiveUp, Event32, Stalling
    <3>2. \/ pc' = "b_ev49" \/ pc' = "w_start" \/ pc' = "w_ev35" \/ pc' = "w_ev36"
          \/ pc' = "w_ev32" \/ (pc' = "idle" /\ phase' = "FWD_IDLE")
          \/ pc \in Stalling
          \/ (pc = "b_ev49" /\ TimesOut(perror, TRUE))
          \/ (pc = "w_ev36" /\ TimesOut(busy, TRUE))
      BY <2>3, Zenon DEF WriteStep, TurnForward, Event49, StartWrite, WriteFull, Event35,
         Strobe, Event36, Stall, Buggered, Recovered, GiveUp, Event32, Stalling
    <3>3. /\ pc = "b_ev49" => ~TimesOut(perror, TRUE)
          /\ pc = "w_ev36" => ~TimesOut(busy, TRUE)
      BY <1>2, <2>1, NoTimeOut, Zenon
    <3>4. \/ pc' = "b_ev49" \/ pc' = "w_start" \/ pc' = "w_ev35" \/ pc' = "w_ev36"
          \/ pc' = "w_ev32" \/ (pc' = "idle" /\ phase' = "FWD_IDLE")
      BY <2>1, <3>2, <3>3, Zenon
    <3> QED
      BY <2>1, <3>1, <3>4 DEF Stalling
  <2>4. CASE (\E n \in 0 .. MaxLen : Read(n)) \/ \E n \in 1 .. MaxLen, a \in BOOLEAN : Write(n, a)
    <3>1. UNCHANGED stalled /\ pc' \in {"r_start", "f_turn", "w_start", "b_turn"}
      BY <2>4, Zenon DEF Read, Write
    <3> QED
      BY <2>1, <3>1 DEF Stalling
  <2>5. CASE UNCHANGED <<pc, phase, stalled>>
    BY <2>1, <2>5, Zenon
  <2>6. Respond \/ SwitchOff \/ SwitchOn \/ UNCHANGED vars => UNCHANGED <<pc, phase, stalled>>
    BY Zenon DEF Respond, Take, Accept, Turn, Offer, Advance, Reacts, SwitchOff, SwitchOn, vars
  <2> QED
    BY <1>2, <2>2, <2>3, <2>4, <2>5, <2>6 DEF Next, HostStep
<1> QED
  BY <1>1, <1>2, Zenon DEF LateAtFault

-----------------------------------------------------------------------------
(* What the peripheral has taken. *)

\* What it takes is the next byte, as what it is.
LEMMA TakesNext ==
  ASSUME TypeOK, Counts, WiresAsThere, Powered, ~stalled, ~undriven, Take
  PROVE  taken' = Append(taken, <<sent + 1, Tag(sent + 1)>>) /\ pc \in Sending
<1>1. dir = "fwd" /\ "nStrobe" \notin ctl
  BY DEF Take
<1>2. pc \in Sending
  BY <1>1 DEF TypeOK, HostTypes, Labels, WiresAsThere, Driven, Forward, Backward, Open, InRead,
     Sending, Stalling
<1>3. /\ ~reverse /\ data = sent + 1
      /\ ("nAutoFd" \in ctl) = ~addr
  BY <1>2, Zenon DEF WiresAsThere, Driven, Sending
<1>4. (sent + 1 \in Addr) = addr
  <2>1. sent + 1 \in sent + 1 .. sent + (len - count)
    BY <1>2 DEF Counts, TypeOK, HostTypes, Sending
  <2> QED
    BY <1>2, <2>1, Zenon DEF Counts, Writing
<1> QED
  BY <1>2, <1>3, <1>4, Zenon DEF Take, Tag

LEMMA BusyKept ==
  ASSUME TypeOK, Counts, WiresAsThere, BusyIsNext, [Next]_vars
  PROVE  BusyIsNext'
<1>1. CASE NewSession
  <2>1. sent' = 0 /\ ~busy' /\ pc' = "idle"
    BY <1>1, Zenon DEF NewSession
  <2>2. 1 .. sent' = {}
    BY <2>1
  <2> QED
    BY <2>1, <2>2, Zenon DEF BusyIsNext
<1>2. CASE Take
  <2> SUFFICES ASSUME Powered', ~stalled', ~undriven'
               PROVE  /\ \A i \in 1 .. sent' : Took(i)'
                      /\ Took(sent + 1)' /\ UNCHANGED sent
    BY <1>2, Zenon DEF BusyIsNext, Take, Reacts
  <2>1. Powered /\ ~stalled /\ ~undriven /\ UNCHANGED sent
    BY <1>2, Zenon DEF Take, Reacts, Powered
  <2>2. taken' = Append(taken, <<sent + 1, Tag(sent + 1)>>)
    BY <1>2, <2>1, TakesNext
  <2>3. taken \in Seq((0 .. MaxSend) \X {"data", "addr"})
    BY DEF TypeOK, DeviceTypes
  <2>4. /\ 1 .. Len(taken) \subseteq 1 .. Len(taken')
        /\ \A j \in 1 .. Len(taken) : taken'[j] = taken[j]
        /\ Len(taken') \in 1 .. Len(taken')
        /\ taken'[Len(taken')] = <<sent + 1, Tag(sent + 1)>>
    BY <2>2, <2>3
  <2> QED
    BY <2>1, <2>4, Zenon DEF BusyIsNext, Took, Tag
<1>3. ASSUME Powered', ~stalled', ~undriven', ~NewSession, ~Take  PROVE BusyIsNext'
  <2>1. Powered /\ ~stalled /\ ~undriven /\ UNCHANGED taken
    BY <1>3, Frame, Zenon
  <2>2. \A i : Took(i)' <=> Took(i)
    BY <2>1, Zenon DEF Took, Tag
  <2>3. CASE UNCHANGED sent
    <3>1. dir' = "fwd" /\ busy' => dir = "fwd" /\ busy
      BY <1>3, <2>1, Frame, Zenon
    <3>2. pc' = "w_ev32" => pc = "w_ev32" \/ (dir = "fwd" /\ busy)
      <4>1. pc' = "w_ev32" => pc = "w_ev32" \/ (pc = "w_ev36" /\ busy)
        BY <1>3, Frame, Zenon
      <4>2. pc = "w_ev36" => dir = "fwd"
        BY <2>1 DEF WiresAsThere, Sending
      <4> QED
        BY <4>1, <4>2, Zenon
    <3> QED
      BY <2>1, <2>3, <3>1, <3>2, Zenon DEF BusyIsNext, Took, Tag
  <2>4. CASE /\ ~busy /\ UNCHANGED busy
             /\ pc = "w_ev32" /\ pc' = "w_ev35" /\ sent' = sent + 1
    <3>1. \A i \in 1 .. sent' : i \in 1 .. sent \/ i = sent + 1
      BY <2>4 DEF TypeOK, HostTypes
    <3>2. \A i \in 1 .. sent' : Took(i)'
      BY <2>1, <2>2, <2>4, <3>1, Zenon DEF BusyIsNext
    <3>3. ~busy' /\ pc' # "w_ev32"
      BY <2>4, Zenon
    <3> QED
      BY <3>2, <3>3, Zenon DEF BusyIsNext, Took, Tag
  <2> QED
    BY <1>3, <2>3, <2>4, Frame, Zenon
<1> QED
  BY <1>1, <1>2, <1>3, Zenon DEF BusyIsNext

\* A byte is taken with nStrobe low, and the library leaves it so only until Busy
\* is high: it is taken once.
LEMMA TakenKept ==
  ASSUME TypeOK, Counts, WiresAsThere, LateAtFault, TakenOnce, [Next]_vars
  PROVE  TakenOnce'
<1>1. CASE NewSession
  <2>1. sent' = 0 /\ ~busy' /\ pc' = "idle" /\ taken' = <<>>
    BY <1>1, Zenon DEF NewSession
  <2> QED
    BY <2>1 DEF TakenOnce
<1>2. ASSUME Powered', late' = 0, ~undriven', ~NewSession
      PROVE  Powered /\ late = 0 /\ ~stalled /\ ~undriven /\ pc \notin Stalling
  BY <1>2, LateGrows, Frame, Zenon DEF LateAtFault
<1>3. ASSUME Powered', late' = 0, ~undriven', Take
      PROVE  TakenOnce'
  <2>1. Powered /\ late = 0 /\ ~stalled /\ ~undriven /\ pc \notin Stalling
    BY <1>3, LateGrows, Zenon DEF Take, Reacts, LateAtFault, Powered
  <2>2. /\ taken' = Append(taken, <<sent + 1, Tag(sent + 1)>>)
        /\ pc = "w_ev36"
    BY <1>3, <2>1, TakesNext DEF Sending
  <2>3. ~busy /\ busy' /\ dir = "fwd" /\ UNCHANGED <<dir, sent, pc>>
    BY <1>3, Zenon DEF Take, Reacts
  <2>4. taken \in Seq((0 .. MaxSend) \X {"data", "addr"}) /\ sent \in Nat
    BY DEF TypeOK, DeviceTypes, HostTypes
  <2>5. Len(taken) = sent /\ \A i \in 1 .. Len(taken) : taken[i] = <<i, Tag(i)>>
    BY <2>1, <2>2, <2>3 DEF TakenOnce
  <2>6. /\ Len(taken') = sent + 1
        /\ \A i \in 1 .. sent + 1 : taken'[i] = <<i, Tag(i)>>
    BY <2>2, <2>4, <2>5
  <2>7. \A i : Tag(i)' = Tag(i)
    BY DEF Tag
  <2> QED
    BY <2>2, <2>3, <2>6, <2>7, Zenon DEF TakenOnce
<1>4. ASSUME Powered', late' = 0, ~undriven', ~NewSession, ~Take
      PROVE  TakenOnce'
  <2>1. Powered /\ late = 0 /\ ~stalled /\ ~undriven /\ pc \notin Stalling
        /\ UNCHANGED taken
    BY <1>2, <1>4, Frame, Zenon
  <2>2. (dir' = "fwd" /\ busy') => (dir = "fwd" /\ busy)
    BY <1>4, <2>1, Frame, Zenon
  <2>3. dir = "fwd" /\ busy => pc \in {"w_ev36", "w_ev32"}
    BY <2>1, Zenon DEF TakenOnce
  <2>4. /\ pc = "w_ev36" => dir = "fwd"
        /\ pc = "w_ev32" => dir = "fwd"
    BY <2>1 DEF WiresAsThere, Sending, Forward
  <2>5. \A i \in 1 .. Len(taken') : taken'[i] = <<i, Tag(i)>>
    BY <2>1, Zenon DEF TakenOnce
  <2>6. taken' = taken /\ Len(taken) \in Nat /\ sent \in Nat
    BY <2>1 DEF TypeOK, HostTypes, DeviceTypes
  <2>7. CASE pc = "w_ev36"
    <3>1. "nStrobe" \notin ctl /\ "nInit" \in ctl /\ dir = "fwd"
      BY <2>1, <2>7 DEF WiresAsThere, Sending
    <3>2. ~Respond /\ ~SwitchOff /\ ~SwitchOn
      BY <1>4, <3>1 DEF Respond, Accept, Turn, Offer, Advance, SwitchOff, SwitchOn, Powered
    <3>3. ~TimesOut(busy, TRUE)
      BY <1>4, <2>1, <2>7, NoTimeOut, Zenon
    <3>4. Event36 \/ UNCHANGED vars
      BY <1>4, <2>7, <3>2 DEF Next, Read, Write, HostStep, ReadStep, Event38, DriversOff, Event39, Event40,
         StartRead, ReadFull, Event43, GetByte, GetCount, LeaveCommand, Event44, Event45,
         WriteStep, TurnForward, Event49, StartWrite, WriteFull, Event35, Stall,
         Buggered, Recovered, GiveUp, Event32
    <3>5. \/ busy /\ pc' = "w_ev32" /\ UNCHANGED <<sent, dir, busy>>
          \/ UNCHANGED <<pc, sent, dir, busy>>
      BY <3>3, <3>4, Zenon DEF Event36, vars
    <3>6. Len(taken') = IF pc' = "w_ev32" \/ (dir' = "fwd" /\ busy') THEN sent' + 1 ELSE sent'
      BY <2>1, <2>6, <2>7, <3>1, <3>5 DEF TakenOnce
    <3> QED
      BY <2>5, <2>7, <3>5, <3>6 DEF TakenOnce, Tag
  <2>8. CASE pc = "w_ev32"
    <3>1. ~TimesOut(busy, FALSE)
      BY <1>4, <2>1, <2>8, NoTimeOut, Zenon
    <3>2. \/ ~busy' /\ pc' = "w_ev35" /\ sent' = sent + 1
          \/ UNCHANGED <<pc, sent>>
      BY <1>4, <2>8, <3>1, Zenon
         DEF Next, vars, Read, Write, HostStep, ReadStep, Event38, DriversOff, Event39, Event40,
         StartRead, ReadFull, Event43, GetByte, GetCount, LeaveCommand, Event44, Event45,
         WriteStep, TurnForward, Event49, StartWrite, WriteFull, Event35, Event36, Stall,
         Buggered, Recovered, GiveUp, Event32, Respond, Accept, Turn, Offer, Advance, Reacts,
         SwitchOff, SwitchOn
    <3>3. Len(taken) = sent + 1
      BY <2>1, <2>8, Zenon DEF TakenOnce
    <3>4. /\ dir' = "fwd" /\ busy' => pc' \in {"w_ev36", "w_ev32"}
          /\ Len(taken') = IF pc' = "w_ev32" \/ (dir' = "fwd" /\ busy') THEN sent' + 1 ELSE sent'
      BY <2>6, <2>8, <3>2, <3>3
    <3> QED
      BY <2>5, <3>4, Zenon DEF TakenOnce, Tag
  <2>9. CASE pc \notin {"w_ev36", "w_ev32"}
    <3>1. pc' # "w_ev32" /\ ~(dir' = "fwd" /\ busy') /\ UNCHANGED sent
      BY <1>4, <2>2, <2>3, <2>9, Frame, Zenon
    <3>2. Len(taken) = sent
      BY <2>1, <2>3, <2>9, Zenon DEF TakenOnce
    <3> QED
      BY <2>1, <2>5, <3>1, <3>2, Zenon DEF TakenOnce, Tag
  <2> QED
    BY <2>7, <2>8, <2>9
<1> QED
  BY <1>1, <1>3, <1>4, Zenon DEF TakenOnce

-----------------------------------------------------------------------------
(* The theorems. *)

LEMMA Initially == Init => IInv
<1> SUFFICES ASSUME Init PROVE IInv
  OBVIOUS
<1> USE StreamAssumption, BoundsAssumption, FaultAssumption DEF Init
<1>1. HostTypes /\ DeviceTypes
  BY DEF HostTypes, DeviceTypes, Labels, Junk, Bytes, Kinds, ControlLines, Opening
<1>2. HostFlags /\ DeviceFlags
  BY Zenon DEF HostFlags, DeviceFlags
<1>3. Counts /\ WiresAsThere
  BY DEF Counts, InRead, Sending, Stalling, Writing, WiresAsThere, Driven, Forward, Powered
<1>4. LateAtFault /\ BusyIsNext /\ TakenOnce
  BY DEF LateAtFault, Stalling, BusyIsNext, TakenOnce
<1> QED
  BY <1>1, <1>2, <1>3, <1>4 DEF IInv, TypeOK

LEMMA Inductive == IInv /\ [Next]_vars => IInv'
<1> SUFFICES ASSUME IInv, [Next]_vars
             PROVE  IInv'
  OBVIOUS
<1>1. TypeOK /\ Counts /\ WiresAsThere /\ LateAtFault /\ BusyIsNext /\ TakenOnce
  BY DEF IInv
<1>2. CASE HostStep
  BY <1>1, <1>2, HostStepTypes, ReadWires, WriteWires, CountsKept, LateKept, BusyKept,
     TakenKept, Zenon DEF IInv, HostStep
<1>3. CASE \/ \E n \in 0 .. MaxLen : Read(n)
           \/ \E n \in 1 .. MaxLen, a \in BOOLEAN : Write(n, a)
           \/ Respond \/ NewSession \/ SwitchOff \/ SwitchOn
  BY <1>1, <1>3, OtherTypes, OtherWires, CountsKept, LateKept, BusyKept, TakenKept, Zenon
     DEF IInv
<1>4. CASE UNCHANGED vars
  <2>1. TypeOK'
    BY <1>1, <1>4, Zenon DEF TypeOK, HostTypes, DeviceTypes, HostFlags, DeviceFlags, vars
  <2>2. WiresAsThere'
    BY <1>1, <1>4, Zenon DEF WiresAsThere, Powered, Driven, Forward, Backward, Open, vars
  <2> QED
    BY <1>1, <2>1, <2>2, CountsKept, LateKept, BusyKept, TakenKept, Zenon DEF IInv
<1> QED
  BY <1>2, <1>3, <1>4 DEF Next

LEMMA Invariance == Spec => []IInv
  BY Initially, Inductive, PTL DEF Spec

\* Every count fits the buffer and the stream: a run-length count is accepted only
\* if the bytes it stands for still fit (default.c:683).
THEOREM TypeCorrect == Spec => []TypeOK
<1>1. IInv => TypeOK
  BY DEF IInv
<1> QED
  BY <1>1, Invariance, PTL

\* However late it is, a peripheral drives the data lines only with the host's
\* drivers off, until a write gives up a stalled byte (default.c:240-303, 784-789).
THEOREM OneDriverAtATime == Spec => []OneDriver
<1>1. IInv => OneDriver
  BY DEF IInv, TypeOK, HostTypes, Labels, OneDriver, WiresAsThere, Powered,
     Driven, Forward, Backward, Open, InRead, Sending, Stalling
<1> QED
  BY <1>1, Invariance, PTL

\* The phase a call leaves behind is the direction of the wires (default.c:731-733,
\* 808-810): the next call turns the link round exactly when it must.
THEOREM PhaseStaysTrue == Spec => []PhaseIsTrue
<1>1. IInv => PhaseIsTrue
  BY DEF IInv, PhaseIsTrue, WiresAsThere, LateAtFault, Powered, Driven, Forward, Backward
<1> QED
  BY <1>1, Invariance, PTL

\* In a session that began with the host's drivers on, what the writes counted is what
\* a peripheral that is never late has taken, in order and without repetition,
\* whatever turns and short transfers came between.
THEOREM TakenExactlyOnce == Spec => []ExactlyOnce
<1>1. IInv => ExactlyOnce
  <2> SUFFICES ASSUME IInv, late = 0, Powered, ~undriven, pc = "idle"
               PROVE  taken = [i \in 1 .. sent |-> <<i, Tag(i)>>]
    BY DEF ExactlyOnce
  <2>1. Len(taken) = sent /\ \A i \in 1 .. Len(taken) : taken[i] = <<i, Tag(i)>>
    BY DEF IInv, TakenOnce
  <2>2. taken \in Seq((0 .. MaxSend) \X {"data", "addr"})
    BY DEF IInv, TypeOK, DeviceTypes
  <2>3. taken = [i \in 1 .. Len(taken) |-> taken[i]]
    BY <2>2
  <2> QED
    BY <2>1, <2>3
<1> QED
  BY <1>1, Invariance, PTL

\* In such a session every byte counted was taken even if the peripheral was late,
\* until a write gives up a byte that has stalled (default.c:780-804).
THEOREM CountedWasTaken == Spec => []CountedIsTaken
<1>1. IInv => CountedIsTaken
  BY Zenon DEF IInv, CountedIsTaken, TookWhatCounts, BusyIsNext, Took
<1> QED
  BY <1>1, Invariance, PTL

-----------------------------------------------------------------------------
(* The reads: what the wires are even in a session in which a write stalled. *)

AutoFd == "nAutoFd" \in ctl

\* The peripheral is turned round, or will be.
Turned == dir = "rev" \/ "nInit" \notin ctl

\* A write that gave up a byte leaves nAutoFd as the next write will need it.
IdleWires == pc = "idle" =>
  /\ phase \in {"FWD_IDLE", "REV_IDLE", "ECP_DIR_UNKNOWN"}
  /\ phase = "FWD_IDLE" /\ Turned => (sent + 1 \in Addr <=> ~AutoFd)

SendWires ==
  /\ pc = "w_start" /\ Turned => count < len /\ (AutoFd <=> ~addr)
  /\ pc \in {"w_ev35", "w_ev32"} \cup Sending => (AutoFd <=> ~addr)
  /\ pc \in {"w_ev35", "w_ev32", "w_ev36", "w_stall", "w_test", "b_ev49"} => "nInit" \in ctl
  /\ pc = "w_recover" => dir = "rev" /\ "nInit" \notin ctl
  /\ pc = "w_ev35" /\ dir = "rev" => count < len
  /\ pc = "w_ev32" /\ dir = "rev" => busy

FetchWires ==
  /\ pc \in {"r_start", "r_ev43"} \cup InRead \/ (pc = "idle" /\ phase = "REV_IDLE") =>
       dir = "rev" /\ "nInit" \notin ctl
  /\ pc = "f_ev40" => "nInit" \notin ctl
  /\ pc \in {"f_turn", "f_dir", "f_ev39", "f_ev40", "r_start"} => run = 0
  /\ pc \in {"f_dir", "f_ev39", "f_ev40", "r_ev43", "r_get", "r_ev44"} => ~AutoFd
  /\ pc = "r_ev45" => AutoFd
  /\ pc \in {"r_get", "r_ev44"} => ~ack

TurnWires == Powered => IdleWires /\ SendWires /\ FetchWires

\* Without a late answer no byte is lost.
LateLoses == Powered /\ late = 0 => ~lost

\* An offer that is acknowledged at all is acknowledged by the read it was made to.
OwnAck == dir = "rev" /\ ~ack /\ AutoFd =>
  \/ pc = "r_ev45"
  \/ /\ "nInit" \in ctl
     /\ pc \in {"f_turn", "b_turn", "b_ev49"} \/ (pc = "idle" /\ phase = "ECP_DIR_UNKNOWN")

Accepting == (pc = "idle" /\ phase = "REV_IDLE") \/ pc = "r_start" => ~AutoFd

OfferInv == dir = "rev" /\ ~ack => bus = <<given + 1, half>> /\ busy = (half = "byte")

Got == pc \in {"r_ev44", "r_ev45"}
Acked == pc = "r_ev45" /\ ack
Following == Len(log) + 1

\* The peripheral is behind a run-length count that was acknowledged.
Counted ==
  \/ Acked /\ command
  \/ pc \in {"r_ev43", "r_get"} /\ run # 0
  \/ Got /\ ~Acked /\ ~command /\ run # 0

PlaceInv ==
  /\ given = IF Acked /\ ~command THEN Following ELSE Len(log)
  /\ half = IF Counted THEN "byte" ELSE Opening(given + 1)

\* What the read holds is the element that follows in the stream.
HeldInv ==
  /\ pc \in {"r_ev43"} \cup InRead /\ run # 0 => Following \in Elements /\ run = Stream[Following]
  /\ Got => Following \in Elements /\ byte[1] = Following
  /\ Got /\ ~Acked => (command <=> half = "command")
  /\ Got /\ command => run # 0
  /\ Got /\ ~command => (IF run # 0 THEN run ELSE 1) = Stream[Following]
  /\ \A i \in 1 .. Len(log) : Stream[i] # Channel

StreamInv == Powered /\ ~lost => OwnAck /\ Accepting /\ OfferInv /\ PlaceInv /\ HeldInv

\* The next byte is of the kind of the write that sends it.
LEMMA NextKind ==
  ASSUME TypeOK, Counts, pc \in Writing, count < len
  PROVE  sent + 1 \in Addr <=> addr
<1>1. sent + 1 \in sent + 1 .. sent + (len - count)
  BY DEF TypeOK, HostTypes
<1> QED
  BY <1>1, Zenon DEF Counts

LEMMA ReadTurns ==
  ASSUME IInv, TurnWires, Powered, ReadStep
  PROVE  TurnWires'
<1> USE DEF TurnWires, IdleWires, SendWires, FetchWires, Turned, AutoFd, InRead, Sending, Stalling,
            Powered
<1>1. UNCHANGED dir /\ Powered' /\ perror = (dir = "fwd") /\ ctl \subseteq ControlLines
  BY Zenon DEF ReadStep, Event38, DriversOff, Event39, Event40, StartRead, ReadFull, Event43, GetByte, GetCount,
     LeaveCommand, Event44, Event45, IInv, WiresAsThere, TypeOK, HostTypes
<1>2. CASE Event38 \/ DriversOff \/ Event39
  BY <1>1, <1>2 DEF Event38, DriversOff, Event39
<1>3. CASE Event40
  <2>1. /\ pc = "f_ev40" /\ UNCHANGED <<run, sent, ctl>>
        /\ \/ pc' = "r_start" /\ ~perror
           \/ pc' = "idle" /\ phase' = "ECP_DIR_UNKNOWN"
    BY <1>3, Zenon DEF Event40
  <2> QED
    BY <1>1, <2>1
<1>4. CASE StartRead
  BY <1>1, <1>4 DEF StartRead, ControlLines
<1>5. CASE ReadFull
  BY <1>1, <1>5 DEF ReadFull
<1>6. CASE Event43
  BY <1>1, <1>6 DEF Event43
<1>7. CASE GetByte
  BY <1>1, <1>7 DEF GetByte
<1>8. CASE GetCount
  BY <1>1, <1>8 DEF GetCount
<1>9. CASE LeaveCommand
  BY <1>1, <1>9 DEF LeaveCommand
<1>10. CASE Event44
  BY <1>1, <1>10 DEF Event44
<1>11. CASE Event45
  BY <1>1, <1>11 DEF Event45
<1> QED
  BY <1>2, <1>3, <1>4, <1>5, <1>6, <1>7, <1>8, <1>9, <1>10, <1>11 DEF ReadStep

LEMMA WriteTurns ==
  ASSUME IInv, TurnWires, Powered, WriteStep
  PROVE  TurnWires'
<1> USE DEF TurnWires, IdleWires, SendWires, FetchWires, Turned, AutoFd, InRead, Sending, Stalling
<1> USE DEF Powered
<1>0. count \in Nat /\ len \in Nat
  BY DEF IInv, TypeOK, HostTypes
<1>1. UNCHANGED <<dir, busy>> /\ Powered' /\ perror = (dir = "fwd")
  BY Zenon DEF WriteStep, TurnForward, Event49, StartWrite, WriteFull, Event35, Strobe, Event36,
     Stall, Buggered, Recovered, GiveUp, Event32, IInv, WiresAsThere
<1>2. CASE TurnForward
  BY <1>1, <1>2 DEF TurnForward
<1>3. CASE Event49
  BY <1>1, <1>3 DEF Event49
<1>4. CASE StartWrite
  BY <1>1, <1>4 DEF StartWrite
<1>5. CASE WriteFull
  BY <1>0, <1>1, <1>5 DEF WriteFull
<1>6. CASE Event35
  BY <1>1, <1>6 DEF Event35, Strobe
<1>7. CASE Event36
  <2>1. /\ pc = "w_ev36" /\ UNCHANGED <<len, count, addr, run, sent>>
        /\ \/ busy /\ pc' = "w_ev32" /\ ctl' = ctl \cup {"nStrobe"}
           \/ pc' = "w_stall" /\ UNCHANGED ctl
    <3>1. ctl \ {} = ctl
      OBVIOUS
    <3> QED
      BY <1>7, <3>1, Zenon DEF Event36
  <2> QED
    BY <1>1, <2>1
<1>8. CASE Stall
  BY <1>1, <1>8 DEF Stall
<1>9. CASE Buggered \/ GiveUp
  <2>1. /\ pc \in {"w_test", "w_recover"} /\ UNCHANGED <<len, count, addr, run, sent>>
        /\ ctl' = ctl \ {"nInit"} \/ (pc = "w_recover" /\ UNCHANGED ctl)
        /\ \/ pc' = "idle" /\ phase' = "FWD_IDLE"
           \/ pc = "w_test" /\ pc' = "w_recover" /\ ~perror /\ ctl' = ctl \ {"nInit"}
    BY <1>9 DEF Buggered, GiveUp
  <2>2. sent + 1 \in Addr <=> addr
    BY <2>1, NextKind DEF IInv, Counts, Writing
  <2> QED
    BY <1>1, <2>1, <2>2
<1>10. CASE Recovered
  BY <1>1, <1>10 DEF Recovered
<1>11. CASE Event32
  <2>1. /\ pc = "w_ev32" /\ UNCHANGED <<addr, run, ctl>>
        /\ \/ ~busy /\ pc' = "w_ev35"
           \/ pc' = "idle" /\ phase' = "FWD_IDLE" /\ UNCHANGED sent
    BY <1>11, Zenon DEF Event32
  <2>2. sent + 1 \in Addr <=> addr
    BY <2>1, NextKind DEF IInv, Counts, Writing
  <2> QED
    BY <1>1, <2>1, <2>2
<1> QED
  BY <1>2, <1>3, <1>4, <1>5, <1>6, <1>7, <1>8, <1>9, <1>10, <1>11 DEF WriteStep

LEMMA TurnKept == IInv /\ TurnWires /\ [Next]_vars => TurnWires'
<1> SUFFICES ASSUME IInv, TurnWires, [Next]_vars, Powered' PROVE TurnWires'
  BY DEF TurnWires
<1> USE DEF TurnWires, IdleWires, SendWires, FetchWires, Turned, AutoFd, InRead, Sending, Stalling
<1>1. CASE NewSession
  BY <1>1 DEF NewSession
<1>2. CASE ~NewSession
  <2>1. Powered
    BY <1>2, Frame
  <2>2. CASE HostStep
    BY <2>1, <2>2, ReadTurns, WriteTurns DEF HostStep
  <2>3. ASSUME NEW n \in 0 .. MaxLen, Read(n) PROVE TurnWires'
    BY <2>1, <2>3 DEF Read, Powered
  <2>4. ASSUME NEW n \in 1 .. MaxLen, NEW a \in BOOLEAN, Write(n, a) PROVE TurnWires'
    <3>1. sent + 1 \in Addr <=> a
      BY <2>4 DEF Write, IInv, TypeOK, HostTypes
    <3> QED
      BY <2>1, <2>4, <3>1 DEF Write, Powered
  <2>5. CASE Take \/ Accept \/ Offer \/ Advance
    BY <2>1, <2>5 DEF Take, Accept, Offer, Advance, Reacts, Powered
  <2>6. CASE Turn("fwd", "rev", FALSE) \/ Turn("rev", "fwd", TRUE)
    BY <2>1, <2>6 DEF Turn, Reacts, Powered
  <2>7. CASE SwitchOff \/ SwitchOn \/ UNCHANGED vars
    BY <2>1, <2>7 DEF SwitchOff, SwitchOn, Powered, vars
  <2> QED
    BY <1>2, <2>2, <2>3, <2>4, <2>5, <2>6, <2>7 DEF Next, Respond
<1> QED
  BY <1>1, <1>2

\* Only a read that gives up its byte loses one, and then the answer was late.
LEMMA LosesKept ==
  ASSUME IInv, TurnWires, LateLoses, [Next]_vars
  PROVE  LateLoses' /\ (~NewSession /\ lost => lost')
<1>1. CASE NewSession
  BY <1>1, Zenon DEF NewSession, LateLoses
<1>2. CASE Event45 /\ ~UNCHANGED lost
  <2>1. pc = "r_ev45" /\ TimesOut(ack, TRUE) /\ lost' /\ UNCHANGED dir
    BY <1>2, Zenon DEF Event45
  <2>2. ASSUME Powered PROVE PeripheralOwes
    <3>1. dir = "rev" /\ "nAutoFd" \in ctl
      BY <2>1, <2>2 DEF TurnWires, FetchWires, InRead, AutoFd
    <3>2. ~ack
      BY <2>1, Zenon DEF TimesOut, IInv, TypeOK, DeviceFlags
    <3> QED
      BY <3>1, <3>2, Zenon DEF PeripheralOwes
  <2>3. Powered => late' # 0
    BY <2>1, <2>2, OwesIsLate, Zenon DEF IInv, TypeOK
  <2> QED
    BY <2>1, <2>3, Zenon DEF LateLoses, Powered
<1>3. CASE ~NewSession /\ UNCHANGED lost
  <2>1. late' = 0 /\ Powered' => late = 0 /\ Powered
    BY <1>3, Frame, LateGrows, Zenon DEF IInv
  <2> QED
    BY <1>3, <2>1, Zenon DEF LateLoses
<1>4. NewSession \/ UNCHANGED lost \/ Event45
  BY Zenon DEF Next, vars, Read, Write, HostStep, ReadStep, Event38, DriversOff, Event39, Event40, StartRead,
     ReadFull, Event43, GetByte, GetCount, LeaveCommand, Event44, WriteStep, TurnForward, Event49,
     StartWrite, WriteFull, Event35, Strobe, Event36, Stall, Buggered, Recovered, GiveUp, Event32,
     Respond, Take, Accept, Turn, Offer, Advance, Reacts, SwitchOff, SwitchOn
<1>5. NewSession => ~Event45
  BY DEF NewSession, Event45
<1> QED
  BY <1>1, <1>2, <1>3, <1>4, <1>5, Zenon

-----------------------------------------------------------------------------
(* The reads: the stream. *)

Away == pc \notin {"r_ev43"} \cup InRead

\* What the invariant says of the stream outside a read.
LEMMA AwayStream ==
  ASSUME Away
  PROVE  PlaceInv /\ HeldInv <=>
           /\ given = Len(log) /\ half = Opening(given + 1)
           /\ \A i \in 1 .. Len(log) : Stream[i] # Channel
BY DEF Away, InRead, PlaceInv, HeldInv, Got, Acked, Counted

\* Steps that leave the stream and the handshake alone, outside the reads.
LEMMA AwayKept ==
  ASSUME IInv, PlaceInv, HeldInv, OfferInv, Away, Away',
         UNCHANGED <<log, given, half, dir, ack, busy, bus>>
  PROVE  PlaceInv' /\ HeldInv' /\ OfferInv'
<1>1. OfferInv'
  BY DEF OfferInv
<1>2. /\ given = Len(log) /\ half = Opening(given + 1)
      /\ \A i \in 1 .. Len(log) : Stream[i] # Channel
  BY AwayStream
<1>3. PlaceInv'
  BY <1>2 DEF Away, InRead, PlaceInv, Got, Acked, Counted
<1>4. HeldInv'
  BY <1>2 DEF Away, InRead, HeldInv, Got
<1> QED
  BY <1>1, <1>3, <1>4

LEMMA OutsideStream ==
  ASSUME IInv, TurnWires, StreamInv, Powered, ~lost,
         Event38 \/ DriversOff \/ Event39 \/ Event40 \/ WriteStep
         \/ (\E n \in 0 .. MaxLen : Read(n)) \/ \E n \in 1 .. MaxLen, a \in BOOLEAN : Write(n, a)
  PROVE  StreamInv'
<1> USE DEF Powered
<1>1. /\ Away /\ Away' /\ UNCHANGED <<log, given, half, dir, ack, busy, bus, lost>>
      /\ perror = (dir = "fwd")
  <2>1. UNCHANGED <<log, given, half, dir, ack, busy, bus, lost>>
    BY Zenon DEF Event38, DriversOff, Event39, Event40, WriteStep, Read, Write, TurnForward, Event49, StartWrite,
       WriteFull, Event35, Strobe, Event36, Stall, Buggered, Recovered, GiveUp, Event32
  <2>2. /\ \/ pc \in {"f_turn", "f_dir", "f_ev39", "f_ev40", "idle", "b_turn", "b_ev49", "w_start", "w_ev35"}
           \/ pc \in {"w_ev36", "w_stall", "w_test", "w_recover", "w_ev32"}
        /\ \/ pc' \in {"f_dir", "f_ev39", "f_turn", "f_ev40", "idle", "b_turn", "b_ev49", "w_start", "w_ev35"}
           \/ pc' \in {"w_ev36", "w_stall", "w_test", "w_recover", "w_ev32", "r_start"}
    BY DEF Event38, DriversOff, Event39, Event40, WriteStep, Read, Write, TurnForward, Event49, StartWrite,
       WriteFull, Event35, Event36, Stall, Buggered, Recovered, GiveUp, Event32
  <2> QED
    BY <2>1, <2>2 DEF Away, InRead, IInv, WiresAsThere
<1>2. PlaceInv' /\ HeldInv' /\ OfferInv'
  BY <1>1, AwayKept DEF StreamInv
<1> USE DEF StreamInv, OwnAck, Accepting, AutoFd, TurnWires, IdleWires, SendWires, FetchWires
<1>3. CASE Event38 \/ DriversOff \/ Event39
  BY <1>1, <1>2, <1>3 DEF Event38, DriversOff, Event39
<1>4. CASE Event40
  <2>1. /\ pc = "f_ev40" /\ UNCHANGED ctl
    BY <1>4, Zenon DEF Event40
  <2> QED
    BY <1>1, <1>2, <2>1
<1>5. CASE TurnForward
  BY <1>1, <1>2, <1>5 DEF TurnForward
<1>6. CASE Event49
  <2>1. /\ pc = "b_ev49" /\ UNCHANGED ctl
        /\ \/ perror /\ pc' = "w_start"
           \/ pc' = "idle" /\ phase' = "ECP_DIR_UNKNOWN"
    BY <1>6, Zenon DEF Event49
  <2> QED
    BY <1>1, <1>2, <2>1
<1>7. CASE StartWrite
  BY <1>1, <1>2, <1>7 DEF StartWrite, Turned
<1>8. CASE WriteFull \/ Stall \/ Event35
  BY <1>1, <1>2, <1>8 DEF WriteFull, Stall, Event35, Strobe
<1>9. CASE Buggered \/ Recovered \/ GiveUp
  BY <1>1, <1>2, <1>9 DEF Buggered, Recovered, Strobe, GiveUp
<1>10. CASE Event36 \/ Event32
  <2>1. /\ pc \in {"w_ev36", "w_ev32"} /\ ("nAutoFd" \in ctl' => "nAutoFd" \in ctl)
        /\ \/ pc' \in {"w_ev32", "w_stall", "w_ev35"}
           \/ pc' = "idle" /\ phase' = "FWD_IDLE"
    BY <1>10 DEF Event36, Event32
  <2> QED
    BY <1>1, <1>2, <2>1
<1>11. ASSUME NEW n \in 0 .. MaxLen, Read(n) PROVE StreamInv'
  BY <1>1, <1>2, <1>11 DEF Read
<1>12. ASSUME NEW n \in 1 .. MaxLen, NEW a \in BOOLEAN, Write(n, a) PROVE StreamInv'
  BY <1>1, <1>2, <1>12 DEF Write
<1> QED
  BY <1>3, <1>4, <1>5, <1>6, <1>7, <1>8, <1>9, <1>10, <1>11, <1>12 DEF WriteStep

\* A byte or a count is got from the offer, and stored or kept once acknowledged.
LEMMA InsideStream ==
  ASSUME IInv, TurnWires, StreamInv, Powered, ~lost, ~lost',
         \/ StartRead \/ ReadFull \/ Event43 \/ GetByte \/ GetCount
         \/ LeaveCommand \/ Event44 \/ Event45
  PROVE  StreamInv'
<1> USE DEF Powered
<1>1. /\ UNCHANGED <<given, half, dir, ack, busy, bus>> /\ (busy = TRUE \/ busy = FALSE)
      /\ (ack = TRUE \/ ack = FALSE)
  BY Zenon DEF StartRead, ReadFull, Event43, GetByte, GetCount, LeaveCommand, Event44, Event45,
     IInv, TypeOK, DeviceFlags
<1>2. OfferInv /\ OfferInv'
  BY <1>1 DEF StreamInv, OfferInv
<1>3. /\ pc \in {"r_start", "r_ev43"} \cup InRead => dir = "rev" /\ "nInit" \notin ctl
      /\ pc \in {"r_ev43", "r_get", "r_ev44"} => ~AutoFd
      /\ pc = "r_start" => run = 0
      /\ pc \in {"r_get", "r_ev44"} => ~ack
      /\ pc = "r_ev45" => AutoFd
  BY DEF TurnWires, FetchWires
<1>4. OwnAck /\ Accepting /\ PlaceInv /\ HeldInv
  BY DEF StreamInv
<1>5. /\ count \in Nat /\ len \in Nat /\ run \in 0 .. (len - count) /\ given \in Nat
      /\ Len(log) \in Nat /\ log \in Seq(Nat \X Nat) /\ byte \in Bytes
      /\ dir = "rev" /\ ~ack => given < Len(Stream)
  BY DEF IInv, TypeOK, HostTypes, DeviceTypes, Counts
<1>6. CASE StartRead
  <2>1. pc = "r_start" /\ pc' = "r_ev43" /\ "nAutoFd" \notin ctl' /\ UNCHANGED <<call, log>>
    BY <1>6 DEF StartRead, ControlLines
  <2>2. OwnAck' /\ Accepting'
    BY <2>1 DEF OwnAck, Accepting, AutoFd
  <2>3. PlaceInv' /\ HeldInv'
    BY <1>1, <1>3, <1>4, <2>1 DEF PlaceInv, HeldInv, Got, Acked, Counted, Following, InRead
  <2> QED
    BY <1>2, <2>2, <2>3 DEF StreamInv
<1>7. CASE ReadFull \/ LeaveCommand
  <2>1. /\ pc \in {"r_ev43", "r_get"} /\ pc' = "idle" /\ run = 0 /\ UNCHANGED <<call, log, ctl>>
    BY <1>5, <1>7 DEF ReadFull, LeaveCommand
  <2>2. OwnAck' /\ Accepting'
    BY <1>3, <2>1 DEF OwnAck, Accepting, AutoFd
  <2>3. PlaceInv' /\ HeldInv'
    BY <1>1, <1>4, <2>1 DEF PlaceInv, HeldInv, Got, Acked, Counted, Following, InRead
  <2> QED
    BY <1>2, <2>2, <2>3 DEF StreamInv
<1>8. CASE Event43
  <2>1. /\ pc = "r_ev43" /\ pc' = "r_get" /\ UNCHANGED <<call, log, ctl>>
    BY <1>8 DEF Event43
  <2>2. OwnAck' /\ Accepting'
    BY <1>3, <2>1 DEF OwnAck, Accepting, AutoFd
  <2>3. PlaceInv' /\ HeldInv'
    BY <1>1, <1>4, <2>1 DEF PlaceInv, HeldInv, Got, Acked, Counted, Following, InRead
  <2> QED
    BY <1>2, <2>2, <2>3 DEF StreamInv
<1>9. CASE GetByte \/ GetCount
  <2>1. /\ pc = "r_get" /\ pc' = "r_ev44" /\ UNCHANGED <<log, ctl>> /\ byte' = bus
        /\ \/ ~command' /\ UNCHANGED run /\ (run # 0 \/ busy)
           \/ command' /\ run = 0 /\ ~busy /\ run' \in Says(bus) /\ run' # Channel
    BY <1>3, <1>9 DEF GetByte, GetCount, OnTheBus, Fits
  <2>2. OwnAck' /\ Accepting'
    BY <1>3, <2>1 DEF OwnAck, Accepting, AutoFd
  <2>3. given = Len(log) /\ bus = <<Following, half>> /\ Following \in Elements
    BY <1>2, <1>3, <1>4, <1>5, <2>1, StreamAssumption
       DEF PlaceInv, OfferInv, Acked, Following, Elements, InRead
  <2>4. busy <=> half = "byte"
    BY <1>1, <1>2, <1>3, <2>1 DEF OfferInv, InRead
  <2>5. PlaceInv'
    BY <1>1, <1>3, <1>4, <2>1 DEF PlaceInv, Got, Acked, Counted, Following
  <2>6. CASE ~command'
    <3>1. (IF run # 0 THEN run ELSE 1) = Stream[Following] /\ half = "byte"
      <4>1. CASE run # 0
        BY <1>4, <2>1, <4>1 DEF HeldInv, InRead, PlaceInv, Counted
      <4>2. CASE run = 0
        <5>1. half = Opening(Following) /\ half = "byte"
          BY <1>4, <2>1, <2>3, <2>4, <2>6, <4>2 DEF PlaceInv, Counted, Acked, Got, Following
        <5> QED
          BY <2>3, <4>2, <5>1 DEF Opening
      <4> QED
        BY <4>1, <4>2
    <3> QED
      BY <1>1, <1>2, <1>4, <2>1, <2>2, <2>3, <2>5, <2>6, <3>1
         DEF StreamInv, HeldInv, Got, Acked, Following, InRead
  <2>7. CASE command'
    <3>1. run' = Stream[Following] /\ run' # 0
      BY <1>1, <2>1, <2>3, <2>7 DEF Says, Elements, Channel
    <3>2. half = "command"
      BY <2>1, <2>4, <2>7 DEF IInv, TypeOK, DeviceTypes, Kinds
    <3> QED
      BY <1>1, <1>2, <1>4, <2>1, <2>2, <2>3, <2>5, <2>7, <3>1, <3>2
         DEF StreamInv, HeldInv, Got, Acked, Following, InRead
  <2> QED
    BY <2>6, <2>7
<1>10. CASE Event44
  <2>1. /\ pc = "r_ev44" /\ pc' = "r_ev45" /\ UNCHANGED <<call, log>>
    BY <1>10 DEF Event44
  <2>2. OwnAck' /\ Accepting'
    BY <2>1 DEF OwnAck, Accepting
  <2>3. PlaceInv' /\ HeldInv'
    BY <1>1, <1>3, <1>4, <2>1 DEF PlaceInv, HeldInv, Got, Acked, Counted, Following, InRead
  <2> QED
    BY <1>2, <2>2, <2>3 DEF StreamInv
<1>11. CASE Event45
  <2>1. pc = "r_ev45" /\ ack /\ pc' = "r_ev43" /\ ctl' = ctl \ {"nAutoFd"} /\ ~command'
    BY <1>11 DEF Event45
  <2>2. OwnAck' /\ Accepting'
    BY <2>1 DEF OwnAck, Accepting, AutoFd
  <2>3. Following \in Elements /\ byte[1] = Following
    BY <1>4, <2>1 DEF HeldInv, Got
  <2>4. CASE command
    <3>1. UNCHANGED <<log, run>> /\ run # 0
      BY <1>4, <1>11, <2>1, <2>4 DEF Event45, HeldInv, Got
    <3> QED
      BY <1>1, <1>2, <1>4, <2>1, <2>2, <2>4, <3>1
         DEF StreamInv, PlaceInv, HeldInv, Got, Acked, Counted, Following, InRead
  <2>5. CASE ~command
    <3> DEFINE n == IF run # 0 THEN run ELSE 1
    <3>1. log' = Append(log, <<byte[1], n>>) /\ run' = 0
      BY <1>11, <2>1, <2>5 DEF Event45
    <3>2. Len(log') = Following
      BY <1>5, <3>1 DEF Following
    <3>3. PlaceInv'
      BY <1>1, <1>4, <2>1, <2>5, <3>1, <3>2 DEF PlaceInv, Got, Acked, Counted, Following
    <3>4. Stream[Following] # Channel
      BY <1>4, <1>5, <2>1, <2>5 DEF HeldInv, Got, Channel
    <3>5. HeldInv'
      BY <1>4, <1>5, <2>1, <3>1, <3>2, <3>4 DEF HeldInv, Got, Following
    <3> QED
      BY <1>2, <2>2, <3>3, <3>5 DEF StreamInv
  <2> QED
    BY <2>4, <2>5
<1> QED
  BY <1>6, <1>7, <1>8, <1>9, <1>10, <1>11

\* The peripheral: only what the host holds, or has held, is passed on.
LEMMA RespondStream ==
  ASSUME IInv, TurnWires, StreamInv, Powered, ~lost, Respond
  PROVE  StreamInv'
<1> USE DEF Powered
<1>1. UNCHANGED <<pc, call, session, phase, wires, log, run, byte, command, ctl>>
  BY Zenon DEF Respond, Take, Accept, Offer, Advance, Turn, Reacts
<1>2. OwnAck /\ Accepting /\ OfferInv /\ PlaceInv /\ HeldInv /\ FetchWires
  BY DEF StreamInv, TurnWires
<1>3. /\ Len(log) \in Nat /\ given \in Nat /\ half \in Kinds /\ bus \in Bytes
      /\ dir = "rev" /\ ~ack => given < Len(Stream)
  BY DEF IInv, TypeOK, HostTypes, DeviceTypes, Counts
<1>4. CASE Take \/ Accept
  BY <1>1, <1>2, <1>4 DEF Take, Accept, Reacts, StreamInv, OwnAck, Accepting, AutoFd, OfferInv,
     PlaceInv, HeldInv, Got, Acked, Counted, Following
<1>5. CASE Offer
  <2>1. /\ dir = "rev" /\ "nInit" \notin ctl /\ "nAutoFd" \notin ctl /\ ack /\ ~ack'
        /\ bus' = <<given + 1, half>> /\ busy' = (half = "byte") /\ UNCHANGED <<dir, half, given>>
    BY <1>5 DEF Offer
  <2>2. pc # "r_ev45"
    BY <1>2, <2>1 DEF FetchWires, AutoFd
  <2>3. OwnAck' /\ Accepting' /\ OfferInv'
    BY <1>1, <1>2, <2>1 DEF OwnAck, Accepting, AutoFd, OfferInv
  <2>4. ~Got
    BY <1>2, <2>1, <2>2 DEF FetchWires, Got
  <2>5. PlaceInv' /\ HeldInv'
    BY <1>1, <1>2, <2>1, <2>2, <2>4 DEF PlaceInv, HeldInv, Got, Acked, Counted, Following
  <2> QED
    BY <2>3, <2>5 DEF StreamInv
<1>6. CASE Advance
  <2>1. /\ dir = "rev" /\ "nInit" \notin ctl /\ "nAutoFd" \in ctl /\ ~ack /\ ack' /\ UNCHANGED dir
        /\ IF half = "command" /\ Stream[given + 1] # Channel
           THEN half' = "byte" /\ UNCHANGED given
           ELSE given' = given + 1 /\ half' = Opening(given + 2)
    BY <1>6 DEF Advance
  <2>2. pc = "r_ev45"
    BY <1>2, <2>1 DEF OwnAck, AutoFd
  <2>3. OwnAck' /\ Accepting' /\ OfferInv'
    BY <1>1, <2>1, <2>2 DEF OwnAck, Accepting, OfferInv
  <2>4. given = Len(log) /\ (command <=> half = "command") /\ (command => run # 0)
    BY <1>2, <2>1, <2>2 DEF PlaceInv, HeldInv, Acked, Got
  <2>5. /\ Following \in Elements /\ byte[1] = Following
        /\ run # 0 => run = Stream[Following]
        /\ ~command => (IF run # 0 THEN run ELSE 1) = Stream[Following]
    BY <1>2, <2>2 DEF HeldInv, Got, InRead
  <2>6. IF command THEN half' = "byte" /\ UNCHANGED given
                   ELSE given' = Following /\ half' = Opening(given' + 1)
    <3>1. command => Stream[given + 1] # Channel
      BY <2>4, <2>5 DEF Channel, Following
    <3>2. (given + 1) + 1 = given + 2
      BY <1>3
    <3> QED
      BY <2>1, <2>4, <3>1, <3>2 DEF Following
  <2>7. PlaceInv'
    BY <1>1, <2>1, <2>2, <2>4, <2>6 DEF PlaceInv, Got, Acked, Counted, Following
  <2>8. HeldInv'
    BY <1>1, <1>2, <2>1, <2>2 DEF HeldInv, Got, Acked, Following
  <2> QED
    BY <2>3, <2>7, <2>8 DEF StreamInv
<1>7. CASE Turn("fwd", "rev", FALSE) \/ Turn("rev", "fwd", TRUE)
  <2>1. /\ ack' /\ UNCHANGED <<half, given>>
        /\ \/ dir = "fwd" /\ dir' = "rev"
           \/ dir = "rev" /\ dir' = "fwd" /\ "nInit" \in ctl
    BY <1>7 DEF Turn
  <2>2. Away
    BY <1>2, <2>1 DEF FetchWires, Away, InRead
  <2>3. OwnAck' /\ Accepting' /\ OfferInv'
    BY <1>1, <1>2, <2>1 DEF OwnAck, Accepting, AutoFd, OfferInv
  <2>4. PlaceInv' /\ HeldInv'
    BY <1>1, <1>2, <2>1, <2>2
       DEF Away, InRead, PlaceInv, HeldInv, Got, Acked, Counted, Following
  <2> QED
    BY <2>3, <2>4 DEF StreamInv
<1> QED
  BY <1>4, <1>5, <1>6, <1>7 DEF Respond

LEMMA StreamKept == IInv /\ TurnWires /\ LateLoses /\ StreamInv /\ [Next]_vars => StreamInv'
<1> SUFFICES ASSUME IInv, TurnWires, LateLoses, StreamInv, [Next]_vars, Powered', ~lost'
             PROVE  StreamInv'
  BY DEF StreamInv
<1>1. CASE NewSession
  <2>1. /\ pc' = "idle" /\ log' = <<>> /\ given' = 0 /\ half' = Opening(1) /\ ack'
        /\ phase' = "FWD_IDLE"
    BY <1>1 DEF NewSession
  <2>2. OwnAck' /\ Accepting' /\ OfferInv'
    BY <2>1 DEF OwnAck, Accepting, OfferInv
  <2>3. PlaceInv' /\ HeldInv'
    BY <2>1 DEF PlaceInv, HeldInv, Got, Acked, Counted, Following, InRead
  <2> QED
    BY <2>2, <2>3 DEF StreamInv
<1>2. CASE ~NewSession
  <2>1. Powered /\ ~lost
    BY <1>2, Frame, LosesKept, Zenon
  <2>2. CASE HostStep
    BY <2>1, <2>2, InsideStream, OutsideStream, Zenon DEF HostStep, ReadStep
  <2>3. CASE \/ \E n \in 0 .. MaxLen : Read(n)
             \/ \E n \in 1 .. MaxLen, a \in BOOLEAN : Write(n, a)
    BY <2>1, <2>3, OutsideStream, Zenon
  <2>4. CASE Respond
    BY <2>1, <2>4, RespondStream
  <2>5. CASE SwitchOff \/ SwitchOn
    BY <2>5 DEF SwitchOff, SwitchOn, Powered
  <2>6. CASE UNCHANGED vars
    BY <2>6, Zenon DEF vars, StreamInv, Powered, OwnAck, Accepting, AutoFd, OfferInv,
       PlaceInv, HeldInv, Got, Acked, Counted, Following
  <2> QED
    BY <1>2, <2>2, <2>3, <2>4, <2>5, <2>6 DEF Next
<1> QED
  BY <1>1, <1>2

\* An element is delivered at event 45, with its run; nothing else is stored.
LEMMA ChannelStep ==
  IInv /\ TurnWires /\ LateLoses /\ StreamInv /\ [Next]_vars => [Reading!Next]_Reading!vars
<1> SUFFICES ASSUME IInv, TurnWires, LateLoses, StreamInv, [Next]_vars
             PROVE  [Reading!Next]_Reading!vars
  OBVIOUS
<1> USE DEF Reading!Next, Reading!Deliver, Reading!End, Reading!NewSession, Reading!Unsound,
            Reading!vars
<1>1. (Sound <=> Powered /\ ~lost) /\ (Sound' <=> Powered' /\ ~lost')
  BY LosesKept DEF Sound, LateLoses
<1>2. Sound \in BOOLEAN /\ Sound' \in BOOLEAN
  BY DEF Sound
<1>3. CASE NewSession
  <2>1. log' = <<>> /\ Sound'
    BY <1>3 DEF NewSession, Sound, Powered
  <2> QED
    BY <2>1
<1>4. CASE ~NewSession /\ UNCHANGED log
  <2>1. Sound' => Sound
    BY <1>1, <1>4, Frame, LosesKept, Zenon
  <2> QED
    BY <1>2, <1>4, <2>1
<1>5. CASE Event45 /\ ~UNCHANGED log
  <2> DEFINE n == IF run # 0 THEN run ELSE 1
  <2>1. /\ pc = "r_ev45" /\ ack /\ ~command /\ log' = Append(log, <<byte[1], n>>)
        /\ UNCHANGED <<lost, dir>>
    BY <1>5 DEF Event45
  <2>2. Sound' = Sound
    BY <1>1, <1>2, <2>1 DEF Powered
  <2>3. CASE Sound
    <3>1. HeldInv /\ Got
      BY <1>1, <2>1, <2>3 DEF StreamInv, Got
    <3>2. Following \in Elements /\ <<byte[1], n>> = <<Following, Stream[Following]>>
      BY <2>1, <3>1 DEF HeldInv
    <3>3. Following \in Readable
      <4>1. Stream[Following] # Channel
        BY <2>1, <3>1 DEF HeldInv, Channel, IInv, TypeOK, HostTypes
      <4>2. \A i \in 1 .. Len(log) : Stream[i] # Channel
        BY <3>1 DEF HeldInv
      <4>3. Len(log) \in Nat
        BY DEF IInv, TypeOK, HostTypes
      <4>4. 1 .. Following = 1 .. Len(log) \cup {Following}
        BY <4>3 DEF Following
      <4> QED
        BY <3>2, <4>1, <4>2, <4>4 DEF Readable
    <3>4. Following \in DOMAIN Sent /\ Sent[Following] = <<byte[1], n>>
      BY <3>2, <3>3 DEF Sent
    <3> QED
      BY <2>1, <2>2, <2>3, <3>4 DEF Following
  <2>4. CASE ~Sound
    BY <2>2, <2>4
  <2> QED
    BY <2>3, <2>4
<1>6. NewSession \/ UNCHANGED log \/ Event45
  BY Zenon DEF Next, vars, Read, Write, HostStep, ReadStep, Event38, DriversOff, Event39, Event40, StartRead,
     ReadFull, Event43, GetByte, GetCount, LeaveCommand, Event44, WriteStep, TurnForward, Event49,
     StartWrite, WriteFull, Event35, Strobe, Event36, Stall, Buggered, Recovered, GiveUp, Event32,
     Respond, Take, Accept, Turn, Offer, Advance, Reacts, SwitchOff, SwitchOn
<1> QED
  BY <1>3, <1>4, <1>5, <1>6

\* default_ecp_read_data implements the channel: what the reads store is the stream of
\* the peripheral with its runs expanded, each element once and in its place, whatever
\* writes, turns and late answers come between (default.c:614-735).
THEOREM ChannelImplemented == Spec => ImplementsChannel
<1>1. Init => TurnWires /\ LateLoses /\ StreamInv /\ Reading!Init
  <2> SUFFICES ASSUME Init PROVE TurnWires /\ LateLoses /\ StreamInv /\ Reading!Init
    OBVIOUS
  <2>1. TurnWires /\ LateLoses
    BY DEF Init, TurnWires, IdleWires, SendWires, FetchWires, Turned, LateLoses, InRead, Sending,
       Stalling
  <2>2. StreamInv
    BY DEF Init, StreamInv, OwnAck, Accepting, OfferInv, PlaceInv, HeldInv, Got, Acked, Counted,
       InRead
  <2>3. Reading!Init
    BY DEF Init, Reading!Init, Sound, Powered
  <2> QED
    BY <2>1, <2>2, <2>3
<1>2. IInv /\ TurnWires /\ LateLoses /\ [Next]_vars => LateLoses'
  BY LosesKept
<1> QED
  BY <1>1, <1>2, TurnKept, StreamKept, ChannelStep, Invariance, PTL
     DEF Spec, ImplementsChannel, Reading!Spec

=============================================================================
