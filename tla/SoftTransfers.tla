----------------------------- MODULE SoftTransfers -----------------------------
(***************************************************************************)
(* The transfers default.c does in software with one handshake per byte:   *)
(* default_compat_write, default_byte_read, default_epp_read_data and      *)
(* default_epp_write_data, on a port that goes from one mode to another    *)
(* and keeps its wires meanwhile.  EPP addresses are refused               *)
(* (E1284_NOTIMPL).                                                        *)
(*                                                                         *)
(* Bytes are named by their place in the stream they belong to, 0 is no    *)
(* byte of a stream.  After a short write the application goes on with the *)
(* first byte not counted.                                                 *)
(*                                                                         *)
(* The peripheral is external, as in EcpTransfer; in EPP mode it answers   *)
(* to the data strobe only.  In compatibility mode it may be busy for as   *)
(* long as it likes.                                                       *)
(***************************************************************************)
EXTENDS Naturals, Sequences

CONSTANTS
  TurnsBack,   \* the application calls ieee1284_data_dir (port, 0) before it writes
  MaxLen,      \* bound: the longest transfer
  MaxSend,     \* bound: the bytes the application sends in one session
  MaxSupply,   \* bound: the bytes the peripheral has in one session, and the reads
  MaxFaults,   \* bound: how often its power is cut
  MaxLate      \* bound: how often it is late

ASSUME TurnsBackAssumption == TurnsBack \in BOOLEAN
ASSUME LengthAssumption == MaxLen \in Nat /\ MaxSend \in Nat /\ MaxSupply \in Nat
ASSUME FaultAssumption == MaxFaults \in Nat /\ MaxLate \in Nat

VARIABLES
  pc,       \* the host: where it is in a transfer
  len,      \* the length asked for
  count,    \* the bytes transferred in this call
  byte,     \* the byte being read
  mode,     \* port->current_mode
  sent,     \* the bytes counted by all writes of the session
  log,      \* the bytes counted by all reads of the session
  slipped,  \* auxiliary: in this session a call did not wait for a late answer
  ctl,      \* the control lines that are high
  reverse,  \* the host's data drivers are off
  data,     \* the byte in the data register
  dev,      \* the peripheral: its mode, off, or switched on since the session began
  perror,   \* PError is high
  ack,      \* nAck is high
  busy,     \* Busy is high
  bus,      \* the byte the peripheral drives onto the data lines, or 0
  given,    \* the bytes it has handed over
  supply,   \* the bytes it has for this session
  taken,    \* the bytes it has taken in this session
  faults,   \* how often its power was cut
  late      \* how often it answered too late

call == <<len, count, byte>>
session == <<mode, sent, log>>
wires == <<ctl, reverse, data>>
device == <<dev, perror, ack, busy, bus, given, supply, taken>>
lateness == <<slipped, late>>
vars == <<pc, call, session, wires, device, faults, lateness>>

Labels == {"idle", "c_next", "c_strobe",
           "b_next", "b_ev7", "b_ev9", "b_read", "b_ev11", "b_ev16", "b_late",
           "r_idle", "r_dir", "r_next", "r_ev58", "r_read", "r_ev60", "r_end",
           "w_idle", "w_dir", "w_next", "w_ev58", "w_ev60"}
Modes == {"compat", "byte", "epp"}
ControlLines == {"nStrobe", "nAutoFd", "nInit", "nSelectIn"}
CompatLines == ControlLines \ {"nSelectIn"}

Sent == [i \in 1 .. MaxSupply |-> i]

-----------------------------------------------------------------------------
(* The registers. *)

Frob(mask, val) == ctl' = (ctl \ mask) \cup val

\* A reaction the peripheral owes to the lines as they are.
PeripheralOwes ==
  \/ /\ dev = "compat"
     /\ "nStrobe" \notin ctl /\ ~busy
  \/ /\ dev = "byte"
     /\ IF "nAutoFd" \in ctl THEN ~ack ELSE ack /\ given < supply
  \/ /\ dev = "epp"
     /\ IF "nAutoFd" \in ctl THEN busy
        ELSE ~busy /\ ("nStrobe" \in ctl => given < supply)

\* The host goes on whether the peripheral has reacted or not.
GoesOn ==
  IF PeripheralOwes THEN late < MaxLate /\ late' = late + 1 /\ slipped' = TRUE
                    ELSE UNCHANGED lateness

\* wait_status, or poll_port, gives up after a poll that did not match.
TimesOut(line, level) == line # level /\ GoesOn

Goto(from, to) == pc = from /\ pc' = to

-----------------------------------------------------------------------------
(* default_compat_write. *)

CompatFull ==
  /\ count = len /\ Goto("c_next", "idle")
  /\ UNCHANGED <<call, session, wires, device, faults, lateness>>

BugCompatByte ==
  /\ count < len /\ Goto("c_next", "c_strobe")
  /\ data' = sent + 1 /\ ctl' = {"nInit", "nAutoFd"}
  /\ UNCHANGED <<call, session, reverse, device, faults, lateness>>

\* Busy is low: the byte, then nStrobe low.
CompatByte ==
  /\ count < len /\ ~busy /\ Goto("c_next", "c_strobe")
  /\ data' = sent + 1 /\ ctl' = {"nInit", "nAutoFd"}
  /\ UNCHANGED <<call, session, reverse, device, faults, lateness>>

BugCompatBusy ==
  /\ count < len /\ busy /\ pc = "c_next"
  /\ UNCHANGED vars

\* Busy stays high: fn->terminate, whose steps are those of Negotiation, and a
\* short count.
CompatBusy ==
  /\ count < len /\ busy /\ Goto("c_next", "idle")
  /\ ctl' = CompatLines
  /\ UNCHANGED <<call, session, reverse, data, device, faults, lateness>>

\* nStrobe high; the byte counts, nobody waits for an answer.
CompatCount ==
  /\ Goto("c_strobe", "c_next")
  /\ ctl' = CompatLines
  /\ count' = count + 1 /\ sent' = sent + 1
  /\ GoesOn
  /\ UNCHANGED <<len, byte, mode, log, reverse, data, device, faults>>

CompatWrite == CompatFull \/ CompatByte \/ CompatBusy \/ CompatCount

-----------------------------------------------------------------------------
(* default_byte_read. *)

ByteFull ==
  /\ count = len /\ Goto("b_next", "idle")
  /\ UNCHANGED <<call, session, wires, device, faults, lateness>>

NoData ==
  /\ count < len /\ perror /\ Goto("b_next", "idle")
  /\ Frob({}, {"nAutoFd"})
  /\ UNCHANGED <<call, session, reverse, data, device, faults, lateness>>

BugEvent14 ==
  /\ count < len /\ ~perror /\ Goto("b_next", "b_ev7")
  /\ UNCHANGED <<call, session, wires, device, faults, lateness>>

\* Data is available: the drivers are turned off, and stay so.
Event14 ==
  /\ count < len /\ ~perror /\ Goto("b_next", "b_ev7")
  /\ reverse' = TRUE
  /\ UNCHANGED <<call, session, ctl, data, device, faults, lateness>>

Event7 ==
  /\ Goto("b_ev7", "b_ev9")
  /\ Frob({"nAutoFd"}, {})
  /\ UNCHANGED <<call, session, reverse, data, device, faults, lateness>>

Event9 ==
  /\ \/ ~ack /\ Goto("b_ev9", "b_read") /\ UNCHANGED lateness
     \/ TimesOut(ack, FALSE) /\ Goto("b_ev9", "b_late")
  /\ UNCHANGED <<call, session, wires, device, faults>>

\* "Timeout -- no more data?"
ByteLate ==
  /\ Goto("b_late", "idle")
  /\ Frob({}, {"nAutoFd"})
  /\ UNCHANGED <<call, session, reverse, data, device, faults, lateness>>

\* The byte, then event 10.
ByteGet ==
  /\ Goto("b_read", "b_ev11")
  /\ byte' = bus /\ Frob({}, {"nAutoFd"})
  /\ UNCHANGED <<len, count, session, reverse, data, device, faults, lateness>>

BugEvent11 ==
  /\ Goto("b_ev11", "b_ev16")
  /\ UNCHANGED <<call, session, wires, device, faults, lateness>>

\* On a time-out the byte in the buffer does not count.
Event11 ==
  /\ \/ ack /\ Goto("b_ev11", "b_ev16") /\ UNCHANGED lateness
     \/ TimesOut(ack, TRUE) /\ Goto("b_ev11", "idle")
  /\ UNCHANGED <<call, session, wires, device, faults>>

\* Events 16 and 17, a pulse on nStrobe that this peripheral does not need.
Event16 ==
  /\ Goto("b_ev16", "b_next")
  /\ count' = count + 1 /\ log' = Append(log, byte)
  /\ Frob({}, {"nStrobe"})
  /\ UNCHANGED <<len, byte, mode, sent, reverse, data, device, faults, lateness>>

ByteRead ==
  \/ ByteFull \/ NoData \/ Event14 \/ Event7 \/ Event9 \/ ByteLate \/ ByteGet
  \/ Event11 \/ Event16

-----------------------------------------------------------------------------
(* default_epp_read_data and default_epp_write_data. *)

\* "EPP idle state (just to make sure)": a read leaves nAutoFd low, a write
\* raises it.
EppIdle ==
  /\ \/ Goto("r_idle", "r_dir") /\ ctl' = {"nStrobe", "nInit"}
     \/ Goto("w_idle", "w_dir") /\ ctl' = {"nAutoFd", "nSelectIn", "nInit"}
  /\ GoesOn
  /\ UNCHANGED <<call, session, reverse, data, device, faults>>

EppDir ==
  /\ \/ Goto("r_dir", "r_next") /\ reverse' = TRUE
     \/ Goto("w_dir", "w_next") /\ reverse' = FALSE
  /\ UNCHANGED <<call, session, ctl, data, device, faults, lateness>>

Event67 ==
  /\ count < len /\ Goto("r_next", "r_ev58")
  /\ Frob({"nAutoFd"}, {})
  /\ UNCHANGED <<call, session, reverse, data, device, faults, lateness>>

Event58Read ==
  /\ \/ busy /\ Goto("r_ev58", "r_read") /\ UNCHANGED lateness
     \/ TimesOut(busy, TRUE) /\ Goto("r_ev58", "r_end")
  /\ UNCHANGED <<call, session, wires, device, faults>>

\* The byte, then event 63.
EppGet ==
  /\ Goto("r_read", "r_ev60")
  /\ byte' = bus /\ Frob({}, {"nAutoFd"})
  /\ UNCHANGED <<len, count, session, reverse, data, device, faults, lateness>>

Event60Read ==
  /\ \/ /\ ~busy /\ Goto("r_ev60", "r_next")
        /\ count' = count + 1 /\ log' = Append(log, byte) /\ UNCHANGED lateness
     \/ TimesOut(busy, FALSE) /\ Goto("r_ev60", "r_end") /\ UNCHANGED <<count, log>>
  /\ UNCHANGED <<len, byte, mode, sent, wires, device, faults>>

EppReadEnd ==
  /\ \/ Goto("r_end", "idle")
     \/ count = len /\ Goto("r_next", "idle")
  /\ reverse' = FALSE
  /\ UNCHANGED <<call, session, ctl, data, device, faults, lateness>>

\* Event 62: the byte, then nAutoFd low.
Event62 ==
  /\ count < len /\ Goto("w_next", "w_ev58")
  /\ data' = sent + 1 /\ Frob({"nAutoFd"}, {})
  /\ GoesOn
  /\ UNCHANGED <<call, session, reverse, device, faults>>

EppWriteFull ==
  /\ count = len /\ Goto("w_next", "idle")
  /\ UNCHANGED <<call, session, wires, device, faults, lateness>>

\* Busy is high: event 63.  On a time-out nAutoFd stays low.
Event58Write ==
  /\ \/ busy /\ Goto("w_ev58", "w_ev60") /\ Frob({}, {"nAutoFd"}) /\ UNCHANGED lateness
     \/ TimesOut(busy, TRUE) /\ Goto("w_ev58", "idle") /\ UNCHANGED ctl
  /\ UNCHANGED <<call, session, reverse, data, device, faults>>

Event60Write ==
  /\ \/ /\ ~busy /\ Goto("w_ev60", "w_next")
        /\ count' = count + 1 /\ sent' = sent + 1 /\ UNCHANGED lateness
     \/ TimesOut(busy, FALSE) /\ Goto("w_ev60", "idle") /\ UNCHANGED <<count, sent>>
  /\ UNCHANGED <<len, byte, mode, log, wires, device, faults>>

EppTransfer ==
  \/ EppIdle \/ EppDir
  \/ Event67 \/ Event58Read \/ EppGet \/ Event60Read \/ EppReadEnd
  \/ Event62 \/ EppWriteFull \/ Event58Write \/ Event60Write

HostStep == CompatWrite \/ ByteRead \/ EppTransfer

-----------------------------------------------------------------------------
(* The application. *)

\* An EPP read of no bytes is left out: it starts a cycle and leaves it open.
Read(n) ==
  /\ Len(log) <= MaxSupply
  /\ \/ mode = "byte" /\ Goto("idle", "b_next")
     \/ mode = "epp" /\ n > 0 /\ Goto("idle", "r_idle")
  /\ len' = n /\ count' = 0
  /\ UNCHANGED <<byte, session, wires, device, faults, lateness>>

Write(n) ==
  /\ sent + n <= MaxSend
  /\ \/ mode = "compat" /\ (TurnsBack => ~reverse) /\ Goto("idle", "c_next")
     \/ mode = "epp" /\ Goto("idle", "w_idle")
  /\ len' = n /\ count' = 0
  /\ UNCHANGED <<byte, session, wires, device, faults, lateness>>

\* ieee1284_data_dir (port, 0).
DataDir ==
  /\ TurnsBack /\ pc = "idle" /\ mode = "compat" /\ reverse
  /\ reverse' = FALSE
  /\ UNCHANGED <<pc, call, session, ctl, data, device, faults, lateness>>

\* Negotiation to byte or EPP mode, or termination (Negotiation), which has left
\* the peripheral in the same mode; the drivers stay as they are.
NewSession(m) ==
  /\ pc = "idle" /\ dev # "off"
  /\ len' = 0 /\ count' = 0 /\ byte' = 0
  /\ mode' = m /\ sent' = 0 /\ log' = <<>> /\ slipped' = FALSE
  /\ ctl' = (IF m = "compat" THEN CompatLines ELSE ControlLines)
  /\ data' = 0
  /\ dev' = m /\ ack' = TRUE /\ busy' = FALSE /\ bus' = 0
  /\ given' = 0 /\ taken' = <<>>
  /\ supply' \in (IF m = "compat" THEN {0} ELSE 0 .. MaxSupply)
  /\ perror' = (supply' = 0)
  /\ UNCHANGED <<pc, reverse, faults, late>>

-----------------------------------------------------------------------------
(* The peripheral (external). *)

Reacts == UNCHANGED <<pc, call, session, wires, dev, supply, faults, lateness>>

OnTheLines == IF reverse THEN 0 ELSE data

\* Compatibility mode: it takes what is on the lines when nStrobe is low, and is
\* busy with it.
CompatTake ==
  /\ dev \in {"compat", "reset"} /\ "nStrobe" \notin ctl /\ ~busy
  /\ busy' = TRUE
  /\ taken' = IF dev = "compat" THEN Append(taken, OnTheLines) ELSE taken
  /\ Reacts /\ UNCHANGED <<perror, ack, bus, given>>

CompatReady ==
  /\ dev \in {"compat", "reset"} /\ "nStrobe" \in ctl /\ busy
  /\ busy' = FALSE
  /\ Reacts /\ UNCHANGED <<perror, ack, bus, given, taken>>

\* Byte mode, events 9 and 11.
ByteOffer ==
  /\ dev = "byte" /\ "nAutoFd" \notin ctl /\ ack /\ given < supply
  /\ ack' = FALSE /\ bus' = given + 1
  /\ Reacts /\ UNCHANGED <<perror, busy, given, taken>>

ByteAdvance ==
  /\ dev = "byte" /\ "nAutoFd" \in ctl /\ ~ack
  /\ ack' = TRUE /\ bus' = 0
  /\ given' = given + 1 /\ perror' = (given' = supply)
  /\ Reacts /\ UNCHANGED <<busy, taken>>

\* EPP, events 58 and 60; nStrobe is low for a write.
EppTake ==
  /\ dev = "epp" /\ {"nAutoFd", "nStrobe"} \cap ctl = {} /\ ~busy
  /\ busy' = TRUE /\ taken' = Append(taken, OnTheLines)
  /\ Reacts /\ UNCHANGED <<perror, ack, bus, given>>

EppOffer ==
  /\ dev = "epp" /\ {"nAutoFd", "nStrobe"} \cap ctl = {"nStrobe"} /\ ~busy
  /\ given < supply
  /\ busy' = TRUE /\ bus' = given + 1
  /\ Reacts /\ UNCHANGED <<perror, ack, given, taken>>

EppDone ==
  /\ dev = "epp" /\ "nAutoFd" \in ctl /\ busy
  /\ busy' = FALSE /\ bus' = 0
  /\ given' = (IF bus = 0 THEN given ELSE given + 1)
  /\ Reacts /\ UNCHANGED <<perror, ack, taken>>

Respond ==
  \/ CompatTake \/ CompatReady \/ ByteOffer \/ ByteAdvance
  \/ EppTake \/ EppOffer \/ EppDone

SwitchOff ==
  /\ dev # "off" /\ faults < MaxFaults
  /\ dev' = "off" /\ faults' = faults + 1 /\ bus' = 0
  /\ perror' \in BOOLEAN /\ ack' \in BOOLEAN /\ busy' \in BOOLEAN
  /\ UNCHANGED <<pc, call, session, wires, given, supply, taken, lateness>>

SwitchOn ==
  /\ dev = "off" /\ dev' = "reset"
  /\ perror' = FALSE /\ ack' = TRUE /\ busy' = FALSE
  /\ UNCHANGED <<pc, call, session, wires, bus, given, supply, taken, faults, lateness>>

-----------------------------------------------------------------------------
Init ==
  /\ pc = "idle" /\ len = 0 /\ count = 0 /\ byte = 0
  /\ mode = "compat" /\ sent = 0 /\ log = <<>> /\ slipped = FALSE
  /\ ctl = CompatLines /\ reverse = FALSE /\ data = 0
  /\ dev = "compat" /\ perror = FALSE /\ ack = TRUE /\ busy = FALSE /\ bus = 0
  /\ given = 0 /\ supply = 0 /\ taken = <<>> /\ faults = 0 /\ late = 0

Next ==
  \/ \E n \in 0 .. MaxLen : Read(n) \/ Write(n)
  \/ DataDir \/ \E m \in Modes : NewSession(m)
  \/ HostStep \/ Respond \/ SwitchOff \/ SwitchOn

Spec == Init /\ [][Next]_vars

\* A call under way goes on; a peripheral answers in the end, in time or late.
FairSpec == Spec /\ WF_vars(HostStep) /\ WF_vars(Respond)

-----------------------------------------------------------------------------
(* Properties. *)

HostTypes ==
  /\ pc \in Labels /\ len \in 0 .. MaxLen /\ count \in 0 .. len
  /\ byte \in 0 .. MaxSupply
  /\ mode \in Modes /\ sent \in 0 .. MaxSend /\ log \in Seq(0 .. MaxSupply)
  /\ ctl \subseteq ControlLines /\ data \in 0 .. MaxSend /\ late \in 0 .. MaxLate

DeviceTypes ==
  /\ dev \in Modes \cup {"off", "reset"}
  /\ bus \in 0 .. MaxSupply /\ supply \in 0 .. MaxSupply /\ given \in 0 .. supply
  /\ taken \in Seq(0 .. MaxSend)
  /\ faults \in 0 .. MaxFaults

Flags == {slipped, reverse, perror, ack, busy} \subseteq BOOLEAN

TypeOK == HostTypes /\ DeviceTypes /\ Flags

\* The peripheral has kept its power and been in time since the session began.
Sound == dev \in Modes /\ ~slipped

\* The data lines are driven from both ends only in an EPP read whose idle state
\* has nAutoFd low while the drivers are still on.
OneDriver == Sound /\ bus # 0 => reverse \/ pc = "r_dir"

\* Between calls both ends agree: the bytes the writes counted are the bytes the
\* peripheral has taken, and those it has handed over the reads have counted.  A
\* read that returns fewer bytes than asked for has left none behind.
InStep == Sound /\ pc = "idle" =>
  /\ taken = [i \in 1 .. sent |-> i]
  /\ Len(log) = given
  /\ mode # "compat" /\ count < len => given = supply

\* "The return value is the number of bytes successfully transferred."
CountIsTransferred == Sound => \A i \in 1 .. sent : \E j \in 1 .. Len(taken) : taken[j] = i

\* Every call returns: no wait is without a limit.
CallsReturn == pc # "idle" ~> pc = "idle"

Reading == INSTANCE ByteChannel WITH got <- log, sound <- Sound

\* What the reads count is what the peripheral sent, each byte once and in order.
ImplementsChannel == Reading!Spec
=============================================================================
