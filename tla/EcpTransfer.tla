----------------------------- MODULE EcpTransfer -----------------------------
(***************************************************************************)
(* default_ecp_read_data, default_ecp_write_data, default_ecp_write_addr   *)
(* (default.c): an ECP session used in both directions, with the turns     *)
(* default_ecp_fwd_to_rev and default_ecp_rev_to_fwd that the transfers    *)
(* make.  default_ecp_read_addr is refused (E1284_NOTIMPL).                *)
(*                                                                         *)
(* Bytes are named by their place in the stream they belong to.  The       *)
(* peripheral's stream is a sequence of run lengths: an element above 1 is *)
(* sent as a run-length count and a byte, 0 is a channel command.          *)
(* The application sends bytes 1, 2, ...; those in Addr with write_addr,   *)
(* and after a short write it goes on with the first byte not counted.     *)
(*                                                                         *)
(* The peripheral is external, as in Negotiation: it answers when it       *)
(* likes, now and then after the library's deadline, and can lose power.   *)
(***************************************************************************)
EXTENDS Naturals, Sequences

CONSTANTS
  Stream,      \* what the peripheral sends in one session
  Addr,        \* the bytes the application sends as addresses
  MaxLen,      \* bound: the longest transfer
  MaxSend,     \* bound: the bytes the application sends in one session
  MaxFaults,   \* bound: how often the peripheral's power is cut
  MaxLate      \* bound: how often it is late

ASSUME StreamAssumption == Stream \in Seq(Nat)
ASSUME AddrAssumption == Addr \subseteq Nat
ASSUME BoundsAssumption == MaxLen \in Nat /\ MaxSend \in Nat
ASSUME FaultAssumption == MaxFaults \in Nat /\ MaxLate \in Nat

VARIABLES
  pc,       \* the host: where it is in a transfer
  len,      \* the length asked for
  count,    \* the bytes transferred in this call
  byte,     \* the byte being read, or Junk
  command,  \* it is a run-length count
  run,      \* rle_count, or 0: the last byte was no run-length count
  addr,     \* the write is write_addr
  sent,     \* the bytes counted by all writes of the session
  log,      \* the bytes stored by all reads of the session, with their run
  lost,     \* auxiliary: a read gave up a byte it had acknowledged
  stalled,  \* auxiliary: a write gave up a byte with nStrobe low
  undriven, \* auxiliary: the session began with the host's data drivers off
  phase,    \* port->current_phase
  ctl,      \* the control lines that are high
  reverse,  \* the host's data drivers are off
  data,     \* the byte in the data register
  dir,      \* the peripheral: forward, reverse, off, or back in compatibility mode
  perror,   \* PError is high
  ack,      \* nAck is high
  busy,     \* Busy is high
  bus,      \* the byte the peripheral puts on the data lines
  half,     \* whether it puts a command or a byte next
  given,    \* the elements of Stream it has handed over
  taken,    \* the bytes it has taken, each as data or address
  faults,   \* how often its power was cut
  late      \* how often it answered after the library's deadline

call == <<len, count, byte, command, run, addr>>
session == <<sent, log, lost, stalled, undriven>>
wires == <<ctl, reverse, data>>
out == <<perror, ack, busy, bus>>
device == <<dir, out, half, given, taken>>
vars == <<pc, call, session, phase, wires, device, faults, late>>

Labels == {"idle", "f_turn", "f_dir", "f_ev39", "f_ev40", "r_start", "r_ev43", "r_get", "r_ev44", "r_ev45",
           "b_turn", "b_ev49", "w_start", "w_ev35", "w_ev36", "w_ev32",
           "w_stall", "w_test", "w_recover"}
ControlLines == {"nStrobe", "nAutoFd", "nInit"}
Kinds == {"command", "byte"}
Channel == 0       \* a command byte with bit 7 set, which the library does not accept
Elements == 1 .. Len(Stream)
Junk == <<0, "byte">>                       \* nothing of the stream
Bytes == (0 .. Len(Stream)) \X Kinds

\* The stream up to its first channel command: bytes and how often each counts.
Readable == {i \in Elements : \A j \in 1 .. i : Stream[j] # Channel}
Sent == [i \in Readable |-> <<i, Stream[i]>>]

Tag(i) == IF i \in Addr THEN "addr" ELSE "data"

-----------------------------------------------------------------------------
(* The registers. *)

Frob(mask, val) == ctl' = (ctl \ mask) \cup val

\* A reaction the peripheral owes to the lines as they are.
PeripheralOwes ==
  \/ /\ dir = "fwd"
     /\ \/ "nInit" \notin ctl
        \/ ("nStrobe" \in ctl) = busy
  \/ /\ dir = "rev"
     /\ \/ "nInit" \in ctl
        \/ "nAutoFd" \notin ctl /\ ack /\ given < Len(Stream)
        \/ "nAutoFd" \in ctl /\ ~ack

\* wait_status reaches its deadline after a poll that did not match: the
\* peripheral is late, or there is nothing to come.
TimesOut(line, level) ==
  /\ line # level
  /\ IF PeripheralOwes THEN late < MaxLate /\ late' = late + 1 ELSE UNCHANGED late

Goto(from, to) == pc = from /\ pc' = to

\* The transfer returns count, with the phase set back to idle.
Return(from, idle) == Goto(from, "idle") /\ phase' = idle

-----------------------------------------------------------------------------
(* default_ecp_fwd_to_rev and default_ecp_rev_to_fwd, at the start of a       *)
(* transfer that finds the session in the other phase.                       *)

\* Event 38.
Event38 ==
  /\ Goto("f_turn", "f_dir")
  /\ Frob({"nAutoFd"}, {})
  /\ UNCHANGED <<call, session, phase, reverse, data, device, faults, late>>

BugDriversOff ==
  /\ Goto("f_dir", "f_ev39")
  /\ UNCHANGED <<call, session, phase, wires, device, faults, late>>

\* data_dir (port, 1).
DriversOff ==
  /\ Goto("f_dir", "f_ev39")
  /\ reverse' = TRUE
  /\ UNCHANGED <<call, session, phase, ctl, data, device, faults, late>>

\* Event 39.
Event39 ==
  /\ Goto("f_ev39", "f_ev40")
  /\ Frob({"nInit"}, {})
  /\ UNCHANGED <<call, session, phase, reverse, data, device, faults, late>>

Event40 ==
  /\ \/ ~perror /\ Goto("f_ev40", "r_start") /\ phase' = "REV_IDLE" /\ UNCHANGED late
     \/ TimesOut(perror, FALSE) /\ Return("f_ev40", "ECP_DIR_UNKNOWN")
  /\ UNCHANGED <<call, session, wires, device, faults>>

\* Event 47.
TurnForward ==
  /\ Goto("b_turn", "b_ev49")
  /\ Frob({}, {"nAutoFd", "nInit"})
  /\ UNCHANGED <<call, session, phase, reverse, data, device, faults, late>>

Event49 ==
  /\ \/ /\ perror /\ Goto("b_ev49", "w_start")
        /\ phase' = "FWD_IDLE" /\ reverse' = FALSE /\ UNCHANGED late
     \/ /\ TimesOut(perror, TRUE) /\ Return("b_ev49", "ECP_DIR_UNKNOWN")
        /\ UNCHANGED reverse
  /\ UNCHANGED <<call, session, ctl, data, device, faults>>

-----------------------------------------------------------------------------
(* default_ecp_read_data. *)

Read(n) ==
  /\ Goto("idle", IF phase = "REV_IDLE" THEN "r_start" ELSE "f_turn")
  /\ len' = n /\ count' = 0 /\ run' = 0
  /\ UNCHANGED <<byte, command, addr, session, phase, wires, device, faults, late>>

\* Event 46: nAutoFd low, to start accepting data.
StartRead ==
  /\ Goto("r_start", "r_ev43")
  /\ phase' = "REV_DATA"
  /\ Frob(ControlLines, {"nStrobe"})
  /\ UNCHANGED <<call, session, reverse, data, device, faults, late>>

ReadFull ==
  /\ count = len /\ Return("r_ev43", "REV_IDLE")
  /\ UNCHANGED <<call, session, wires, device, faults, late>>

\* "It can take as long as it wants": a wait that timed out is made again.
Event43 ==
  /\ count < len /\ ~ack /\ Goto("r_ev43", "r_get")
  /\ UNCHANGED <<call, session, phase, wires, device, faults, late>>

OnTheBus == IF ack THEN Junk ELSE bus

\* What a command byte says; without a peripheral, anything.
Says(b) == IF b[1] = 0 THEN {1, Channel} ELSE {Stream[b[1]]}

Fits(n) == n # Channel /\ n <= len - count

\* The byte after a run-length count is no command, whatever Busy says.
GetByte ==
  /\ Goto("r_get", "r_ev44")
  /\ run # 0 \/ busy
  /\ byte' = OnTheBus /\ command' = FALSE
  /\ UNCHANGED <<len, count, run, addr, session, phase, wires, device, faults, late>>

BugGetCount ==
  /\ Goto("r_get", "r_ev44")
  /\ run = 0 /\ ~busy
  /\ byte' = OnTheBus /\ command' = TRUE
  /\ run' \in Says(OnTheBus) \ {Channel}
  /\ UNCHANGED <<len, count, addr, session, phase, wires, device, faults, late>>

\* A run-length count that fits what is left of the buffer.
GetCount ==
  /\ Goto("r_get", "r_ev44")
  /\ run = 0 /\ ~busy
  /\ byte' = OnTheBus /\ command' = TRUE
  /\ run' \in {n \in Says(OnTheBus) : Fits(n)}
  /\ UNCHANGED <<len, count, addr, session, phase, wires, device, faults, late>>

BugLeaveCommand ==
  /\ Goto("r_get", "idle")
  /\ run = 0 /\ ~busy
  /\ \E n \in Says(OnTheBus) : ~Fits(n)
  /\ UNCHANGED <<call, session, phase, wires, device, faults, late>>

\* A channel command, or a run that does not fit: not acknowledged, "for next
\* time".
LeaveCommand ==
  /\ Return("r_get", "REV_IDLE")
  /\ run = 0 /\ ~busy
  /\ \E n \in Says(OnTheBus) : ~Fits(n)
  /\ UNCHANGED <<call, session, wires, device, faults, late>>

Event44 ==
  /\ Goto("r_ev44", "r_ev45")
  /\ Frob({}, {"nAutoFd"})
  /\ UNCHANGED <<call, session, phase, reverse, data, device, faults, late>>

BugEvent45Run ==
  /\ \/ /\ ack /\ Goto("r_ev45", "r_ev43")
        /\ Frob({"nAutoFd"}, {})
        /\ IF command
           THEN UNCHANGED <<log, count, run>>
           ELSE LET n == IF run # 0 THEN run ELSE 1 IN
                /\ log' = Append(log, <<byte[1], n>>)
                /\ count' = count + n
                /\ UNCHANGED run
        /\ UNCHANGED <<lost, phase, late>>
     \/ /\ TimesOut(ack, TRUE) /\ Return("r_ev45", "REV_IDLE")
        /\ lost' = TRUE /\ UNCHANGED <<log, count, run, ctl>>
  /\ byte' = Junk /\ command' = FALSE
  /\ UNCHANGED <<len, addr, sent, stalled, undriven, reverse, data, device, faults>>

BugEvent45Ack ==
  /\ \/ /\ ack /\ Goto("r_ev45", "r_ev43")
        /\ UNCHANGED ctl
        /\ IF command
           THEN UNCHANGED <<log, count, run>>
           ELSE LET n == IF run # 0 THEN run ELSE 1 IN
                /\ log' = Append(log, <<byte[1], n>>)
                /\ count' = count + n
                /\ run' = 0
        /\ UNCHANGED <<lost, phase, late>>
     \/ /\ TimesOut(ack, TRUE) /\ Return("r_ev45", "REV_IDLE")
        /\ lost' = TRUE /\ UNCHANGED <<log, count, run, ctl>>
  /\ byte' = Junk /\ command' = FALSE
  /\ UNCHANGED <<len, addr, sent, stalled, undriven, reverse, data, device, faults>>

\* nAck is high again: nAutoFd low, and the byte is stored, as often as the
\* run-length count before it said.  On a time-out the byte is dropped.
Event45 ==
  /\ \/ /\ ack /\ Goto("r_ev45", "r_ev43")
        /\ Frob({"nAutoFd"}, {})
        /\ IF command
           THEN UNCHANGED <<log, count, run>>
           ELSE LET n == IF run # 0 THEN run ELSE 1 IN
                /\ log' = Append(log, <<byte[1], n>>)
                /\ count' = count + n
                /\ run' = 0
        /\ UNCHANGED <<lost, phase, late>>
     \/ /\ TimesOut(ack, TRUE) /\ Return("r_ev45", "REV_IDLE")
        /\ lost' = TRUE /\ UNCHANGED <<log, count, run, ctl>>
  /\ byte' = Junk /\ command' = FALSE
  /\ UNCHANGED <<len, addr, sent, stalled, undriven, reverse, data, device, faults>>

ReadStep ==
  \/ Event38 \/ DriversOff \/ Event39 \/ Event40 \/ StartRead \/ ReadFull \/ Event43
  \/ GetByte \/ GetCount \/ LeaveCommand \/ Event44 \/ Event45

-----------------------------------------------------------------------------
(* default_ecp_write_data and default_ecp_write_addr, which differ in the      *)
(* level of nAutoFd only.                                                     *)

Write(n, a) ==
  /\ sent + n <= MaxSend
  /\ \A i \in sent + 1 .. sent + n : (i \in Addr) = a
  /\ Goto("idle", IF phase = "FWD_IDLE" THEN "w_start" ELSE "b_turn")
  /\ len' = n /\ count' = 0 /\ run' = 0 /\ addr' = a
  /\ UNCHANGED <<byte, command, session, phase, wires, device, faults, late>>

BugStartWrite ==
  /\ Goto("w_start", "w_ev35")
  /\ phase' = "FWD_DATA"
  /\ Frob({}, {"nAutoFd", "nInit"})
  /\ UNCHANGED <<call, session, reverse, data, device, faults, late>>

StartWrite ==
  /\ Goto("w_start", "w_ev35")
  /\ phase' = "FWD_DATA"
  /\ Frob({"nAutoFd"}, IF addr THEN {"nInit"} ELSE {"nAutoFd", "nInit"})
  /\ UNCHANGED <<call, session, reverse, data, device, faults, late>>

WriteFull ==
  /\ count = len /\ Return("w_ev35", "FWD_IDLE")
  /\ UNCHANGED <<call, session, wires, device, faults, late>>

\* The byte, and nStrobe low.
Strobe ==
  /\ data' = sent + 1
  /\ Frob({"nStrobe"}, {})
  /\ UNCHANGED <<call, session, phase, reverse, device, faults, late>>

Event35 == count < len /\ Goto("w_ev35", "w_ev36") /\ Strobe

BugEvent36 ==
  /\ busy \/ TimesOut(busy, TRUE)
  /\ busy => UNCHANGED late
  /\ Goto("w_ev36", "w_ev32") /\ Frob({}, {"nStrobe"})
  /\ UNCHANGED <<call, session, phase, reverse, data, device, faults>>

\* A hundred waits for Busy; then nStrobe is raised (event 37), or the byte has
\* stalled.
Event36 ==
  /\ \/ /\ busy /\ Goto("w_ev36", "w_ev32")
        /\ Frob({}, {"nStrobe"}) /\ UNCHANGED late
     \/ TimesOut(busy, TRUE) /\ Goto("w_ev36", "w_stall") /\ UNCHANGED ctl
  /\ UNCHANGED <<call, session, phase, reverse, data, device, faults>>

\* "Time for Host Transfer Recovery": nInit is set high, which it already is.
Stall ==
  /\ Goto("w_stall", "w_test")
  /\ Frob({}, {"nInit"})
  /\ UNCHANGED <<call, session, phase, reverse, data, device, faults, late>>

\* nInit goes low either way; with PError high the write is given up.
Buggered ==
  /\ IF perror THEN Return("w_test", "FWD_IDLE") /\ stalled' = TRUE
               ELSE Goto("w_test", "w_recover") /\ UNCHANGED <<phase, stalled>>
  /\ Frob({"nInit"}, {})
  /\ UNCHANGED <<call, sent, log, lost, undriven, reverse, data, device, faults, late>>

Recovered == perror /\ Goto("w_recover", "w_ev36") /\ Strobe

GiveUp ==
  /\ ~perror /\ Return("w_recover", "FWD_IDLE") /\ stalled' = TRUE
  /\ UNCHANGED <<call, sent, log, lost, undriven, wires, device, faults, late>>

\* Busy is low again: the byte counts.  On a time-out it does not, taken or not.
Event32 ==
  /\ \/ /\ ~busy /\ Goto("w_ev32", "w_ev35")
        /\ count' = count + 1 /\ sent' = sent + 1 /\ UNCHANGED <<phase, late>>
     \/ /\ TimesOut(busy, FALSE) /\ Return("w_ev32", "FWD_IDLE")
        /\ UNCHANGED <<count, sent>>
  /\ UNCHANGED <<len, byte, command, run, addr, log, lost, stalled, undriven, wires,
                 device, faults>>

WriteStep ==
  \/ TurnForward \/ Event49 \/ StartWrite \/ WriteFull \/ Event35 \/ Event36
  \/ Stall \/ Buggered \/ Recovered \/ GiveUp \/ Event32

HostStep == ReadStep \/ WriteStep

-----------------------------------------------------------------------------
(* The peripheral (external), and the negotiation that starts a session.      *)

Opening(i) == IF i \in Elements /\ Stream[i] # 1 THEN "command" ELSE "byte"

Reacts == UNCHANGED <<pc, call, session, phase, wires, faults, late>>

\* Event 36: it takes what is on the data lines, nAutoFd telling what it is.
Take ==
  /\ dir = "fwd" /\ "nStrobe" \notin ctl /\ ~busy
  /\ busy' = TRUE
  /\ taken' = Append(taken, <<IF reverse THEN 0 ELSE data,
                              IF "nAutoFd" \in ctl THEN "data" ELSE "addr">>)
  /\ Reacts /\ UNCHANGED <<dir, perror, ack, bus, half, given>>

\* Event 32.
Accept ==
  /\ dir = "fwd" /\ "nStrobe" \in ctl /\ busy
  /\ busy' = FALSE
  /\ Reacts /\ UNCHANGED <<dir, perror, ack, bus, half, given, taken>>

\* Events 40 and 49; a byte on offer is withdrawn.
Turn(from, to, level) ==
  /\ dir = from /\ ("nInit" \in ctl) = level
  /\ dir' = to /\ perror' = level
  /\ ack' = TRUE /\ busy' = FALSE /\ bus' = Junk
  /\ Reacts /\ UNCHANGED <<half, given, taken>>

\* Event 43: Busy is high for a byte, low for a command.
Offer ==
  /\ dir = "rev" /\ {"nInit", "nAutoFd"} \cap ctl = {}
  /\ ack /\ given < Len(Stream)
  /\ ack' = FALSE /\ bus' = <<given + 1, half>> /\ busy' = (half = "byte")
  /\ Reacts /\ UNCHANGED <<dir, perror, half, given, taken>>

\* Event 45: what it offered was acknowledged.
Advance ==
  /\ dir = "rev" /\ {"nInit", "nAutoFd"} \cap ctl = {"nAutoFd"} /\ ~ack
  /\ ack' = TRUE /\ busy' = FALSE /\ bus' = Junk
  /\ IF half = "command" /\ Stream[given + 1] # Channel
     THEN half' = "byte" /\ UNCHANGED given
     ELSE given' = given + 1 /\ half' = Opening(given + 2)
  /\ Reacts /\ UNCHANGED <<dir, perror, taken>>

Respond ==
  \/ Take \/ Accept \/ Offer \/ Advance
  \/ Turn("fwd", "rev", FALSE) \/ Turn("rev", "fwd", TRUE)

\* Termination turns a reversed bus forward if it can; nothing else on the way to a
\* new session turns the host's drivers on.
Terminated ==
  \/ phase = "REV_IDLE" /\ reverse' = FALSE /\ UNCHANGED late
  \/ phase = "REV_IDLE" /\ dir = "rev" /\ late < MaxLate /\ late' = late + 1
     /\ UNCHANGED reverse
  \/ (phase # "REV_IDLE" \/ dir = "compat") /\ UNCHANGED <<reverse, late>>

\* Termination and negotiation, the wires as event 31 leaves them (Negotiation).  A
\* peripheral that finds the request byte on lines nobody drives may still take it
\* for ECP.
NewSession ==
  /\ pc = "idle" /\ dir # "off"
  /\ Terminated /\ undriven' = reverse'
  /\ sent' = 0 /\ log' = <<>> /\ lost' = FALSE /\ stalled' = FALSE /\ phase' = "FWD_IDLE"
  /\ ctl' = {"nStrobe", "nInit"}
  /\ dir' = "fwd" /\ perror' = TRUE /\ ack' = TRUE /\ busy' = FALSE
  /\ half' = Opening(1) /\ given' = 0 /\ taken' = <<>>
  /\ bus' = Junk
  /\ UNCHANGED <<pc, call, data, faults>>

SwitchOff ==
  /\ dir # "off" /\ faults < MaxFaults
  /\ dir' = "off" /\ faults' = faults + 1
  /\ perror' \in BOOLEAN /\ ack' \in BOOLEAN /\ busy' \in BOOLEAN /\ bus' = Junk
  /\ UNCHANGED <<pc, call, session, phase, wires, half, given, taken, late>>

SwitchOn ==
  /\ dir = "off" /\ dir' = "compat"
  /\ perror' = FALSE /\ ack' = TRUE /\ busy' = FALSE
  /\ UNCHANGED <<pc, call, session, phase, wires, bus, half, given, taken, faults, late>>

-----------------------------------------------------------------------------
Init ==
  /\ pc = "idle" /\ len = 0 /\ count = 0 /\ byte = Junk /\ command = FALSE
  /\ run = 0 /\ addr = FALSE /\ sent = 0 /\ log = <<>> /\ lost = FALSE /\ stalled = FALSE
  /\ undriven = FALSE
  /\ phase = "FWD_IDLE" /\ ctl = {"nStrobe", "nInit"} /\ reverse = FALSE /\ data = 0
  /\ dir = "fwd" /\ perror = TRUE /\ ack = TRUE /\ busy = FALSE /\ bus = Junk
  /\ half = Opening(1) /\ given = 0 /\ taken = <<>>
  /\ faults = 0 /\ late = 0

Next ==
  \/ \E n \in 0 .. MaxLen : Read(n)
  \/ \E n \in 1 .. MaxLen, a \in BOOLEAN : Write(n, a)
  \/ HostStep \/ Respond \/ NewSession \/ SwitchOff \/ SwitchOn

Spec == Init /\ [][Next]_vars

\* A call under way goes on; a peripheral answers in the end, in time or late.
FairSpec == Spec /\ WF_vars(HostStep) /\ WF_vars(Respond)

-----------------------------------------------------------------------------
(* Properties. *)

HostTypes ==
  /\ pc \in Labels /\ len \in 0 .. MaxLen /\ count \in 0 .. len
  /\ byte \in Bytes /\ run \in 0 .. (len - count)
  /\ sent \in 0 .. MaxSend /\ log \in Seq(Nat \X Nat)
  /\ phase \in {"FWD_IDLE", "FWD_DATA", "REV_IDLE", "REV_DATA", "ECP_DIR_UNKNOWN"}
  /\ ctl \subseteq ControlLines /\ data \in 0 .. MaxSend /\ late \in 0 .. MaxLate

DeviceTypes ==
  /\ dir \in {"fwd", "rev", "off", "compat"}
  /\ bus \in Bytes /\ half \in Kinds /\ given \in 0 .. Len(Stream)
  /\ taken \in Seq((0 .. MaxSend) \X {"data", "addr"})
  /\ faults \in 0 .. MaxFaults

HostFlags == {command, addr, lost, stalled, undriven, reverse} \subseteq BOOLEAN
DeviceFlags == {perror, ack, busy} \subseteq BOOLEAN

TypeOK == HostTypes /\ DeviceTypes /\ HostFlags /\ DeviceFlags

Powered == dir \in {"fwd", "rev"}

\* The host and a peripheral that answers in time agree on the direction after
\* every call: the phase the next call goes by is the one on the wires.  Forward, the
\* host drives the data lines, unless a turn that failed in an earlier session left
\* its drivers off.
PhaseIsTrue == late = 0 /\ Powered /\ pc = "idle" =>
  IF phase = "FWD_IDLE"
  THEN dir = "fwd" /\ (reverse => undriven) /\ {"nStrobe", "nInit"} \subseteq ctl
  ELSE phase = "REV_IDLE" /\ dir = "rev" /\ reverse /\ "nInit" \notin ctl

\* However late the peripheral is, it drives the data lines only with the host's
\* drivers off; but for sessions in which a write has given up a stalled byte, which
\* leaves nInit low with the drivers on (host transfer recovery).
OneDriver == dir = "rev" => reverse \/ stalled

\* A peripheral that answers in time and keeps its power takes the bytes that
\* the writes counted, each once, in order, addresses as addresses, in a session
\* that began with the host's drivers on.
ExactlyOnce == late = 0 /\ Powered /\ ~undriven /\ pc = "idle" =>
  taken = [i \in 1 .. sent |-> <<i, Tag(i)>>]

TookWhatCounts == \A i \in 1 .. sent : \E j \in 1 .. Len(taken) : taken[j] = <<i, Tag(i)>>

\* Even a late one, to which a byte may be sent again, has taken every byte that
\* a write counted, as what it is, until a write gives up a stalled byte; in a session
\* that began with the host's drivers on.
CountedIsTaken == Powered /\ ~stalled /\ ~undriven => TookWhatCounts

\* ieee1284_ecp_write_data: "The return value is the number of bytes successfully
\* transferred", to a peripheral that answers in time, in any session.
CountIsTransferred == late = 0 /\ Powered /\ pc = "idle" => TookWhatCounts

\* A peripheral that is late a finite number of times can hold up a call only by
\* having nothing to send.
Starved == pc = "r_ev43" /\ (dir # "rev" \/ given = Len(Stream))
CallsReturn == pc # "idle" ~> pc = "idle" \/ Starved

\* A byte may be given up at event 45 only if the peripheral is late, or gone.
Sound == Powered /\ (lost => late = 0)

Reading == INSTANCE ByteChannel WITH got <- log, sound <- Sound

\* What the reads store is the peripheral's stream with its runs expanded, in
\* order, each once, up to the first channel command, however it is cut into
\* calls: a run that did not fit comes with a later read.
ImplementsChannel == Reading!Spec
=============================================================================
