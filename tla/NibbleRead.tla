------------------------------ MODULE NibbleRead ------------------------------
(***************************************************************************)
(* default_nibble_read (default.c): a byte at a time, as two nibbles over  *)
(* the status lines, each with its own handshake of nAutoFd and nAck.      *)
(*                                                                         *)
(* The peripheral is external: it puts a nibble on the lines and lowers    *)
(* nAck when nAutoFd is low, raises nAck when nAutoFd is high, and after a *)
(* whole byte shows on nFault whether it has another.  It has a fixed      *)
(* supply in a session, answers when it likes, and can lose power, which   *)
(* leaves any levels on the lines.                                         *)
(***************************************************************************)
EXTENDS Naturals, Sequences

CONSTANTS
  MaxLen,      \* bound: the longest read an application asks for
  MaxSupply,   \* bound: the bytes a peripheral has in one session
  MaxFaults    \* bound: how often its power is cut

ASSUME LenAssumption == MaxLen \in Nat
ASSUME SupplyAssumption == MaxSupply \in Nat
ASSUME FaultsAssumption == MaxFaults \in Nat

VARIABLES
  pc,       \* the host: where it is in default_nibble_read
  len,      \* the length asked for
  count,    \* the bytes read in this call
  low,      \* the nibbles of the byte being read
  high,
  ret,      \* what the last call returned
  log,      \* the bytes stored since the session began
  up,       \* the port is in nibble mode
  autofd,   \* nAutoFd is high
  dev,      \* the peripheral: in the session, off, or back in compatibility mode
  ack,      \* nAck is high
  fault,    \* nFault is high
  nibble,   \* the nibble on the lines
  half,     \* the nibble it puts next
  given,    \* the bytes it has handed over
  supply,   \* the bytes it has for this session
  faults,   \* how often its power was cut
  timely    \* it answers before the library's deadlines

call == <<len, count, low, high, ret, log, up>>
device == <<dev, ack, fault, nibble, half, given, supply>>
vars == <<pc, call, autofd, device, faults, timely>>

Labels == {"idle", "more", "low_9", "low_read", "low_11", "high_9", "high_read",
           "high_11", "error"}

Halves == {"low", "high"}
Nibbles == (0 .. MaxSupply) \X Halves
Junk == <<0, "low">>                       \* no nibble of the stream

Sent == [i \in 1 .. MaxSupply |-> <<<<i, "low">>, <<i, "high">>>>]

-----------------------------------------------------------------------------
(* The host. *)

\* A reaction the peripheral owes to nAutoFd as it is.
PeripheralOwes ==
  /\ dev = "session"
  /\ IF autofd THEN ~ack ELSE ack /\ (half = "high" \/ given < supply)

BugTimesOut(level) == FALSE

\* wait_status for nAck reaches its deadline after a poll that did not match.
TimesOut(level) == ack # level /\ (timely => ~PeripheralOwes)

WaitAck(from, level, to) ==
  /\ pc = from
  /\ \/ ack = level     /\ pc' = to
     \/ TimesOut(level) /\ pc' = "error"
  /\ UNCHANGED <<call, autofd, device, faults, timely>>

\* read_status >> 3: the nibble, if the peripheral still holds it there.
OnTheLines == IF ack THEN Junk ELSE nibble

Read(n) ==
  /\ pc = "idle" /\ up /\ pc' = "more"
  /\ len' = n /\ count' = 0
  /\ UNCHANGED <<low, high, ret, log, up, autofd, device, faults, timely>>

\* "More data?" is asked before an even byte only.
NoMoreData == count % 2 = 0 /\ fault

NextByte ==
  /\ pc = "more" /\ count < len
  /\ ~NoMoreData
  /\ pc' = "low_9" /\ autofd' = FALSE
  /\ UNCHANGED <<call, device, faults, timely>>

\* The buffer is full, or "No more data": the value returned is len either way.
Return ==
  /\ pc = "more" /\ pc' = "idle" /\ ret' = len
  /\ \/ count = len /\ UNCHANGED autofd
     \/ count < len /\ NoMoreData /\ autofd' = FALSE
  /\ UNCHANGED <<len, count, low, high, log, up, device, faults, timely>>

Event9Low == WaitAck("low_9", FALSE, "low_read")

BugReadLow ==
  /\ pc = "low_read" /\ pc' = "low_11"
  /\ low' = OnTheLines
  /\ UNCHANGED <<len, count, high, ret, log, up, autofd, device, faults, timely>>

ReadLow ==
  /\ pc = "low_read" /\ pc' = "low_11"
  /\ low' = OnTheLines /\ autofd' = TRUE
  /\ UNCHANGED <<len, count, high, ret, log, up, device, faults, timely>>

\* nAck is high again: nAutoFd goes low for the high nibble.
Event11Low ==
  /\ pc = "low_11"
  /\ \/ ack            /\ pc' = "high_9" /\ autofd' = FALSE
     \/ TimesOut(TRUE) /\ pc' = "error"  /\ UNCHANGED autofd
  /\ UNCHANGED <<call, device, faults, timely>>

BugEvent9High ==
  /\ pc = "high_9" /\ pc' = "high_read"
  /\ UNCHANGED <<call, autofd, device, faults, timely>>

Event9High == WaitAck("high_9", FALSE, "high_read")

ReadHigh ==
  /\ pc = "high_read" /\ pc' = "high_11"
  /\ high' = OnTheLines /\ autofd' = TRUE
  /\ UNCHANGED <<len, count, low, ret, log, up, device, faults, timely>>

BugEvent11High ==
  /\ pc = "high_11" /\ pc' = "more"
  /\ log' = Append(log, <<low, high>>) /\ count' = count + 1
  /\ UNCHANGED <<len, low, high, ret, up, autofd, device, faults, timely>>

\* The byte is stored once its whole handshake is done.
Event11High ==
  /\ pc = "high_11"
  /\ \/ /\ ack /\ pc' = "more"
        /\ log' = Append(log, <<low, high>>) /\ count' = count + 1
     \/ TimesOut(TRUE) /\ pc' = "error" /\ UNCHANGED <<log, count>>
  /\ UNCHANGED <<len, low, high, ret, up, autofd, device, faults, timely>>

\* error: fn->terminate, which ends the session for both, and a short count.
GiveUp ==
  /\ pc = "error" /\ pc' = "idle"
  /\ ret' = count /\ up' = FALSE
  /\ autofd' = TRUE
  /\ dev' = IF dev = "session" THEN "compat" ELSE dev
  /\ ack' = IF dev = "off" THEN ack ELSE TRUE
  /\ fault' = IF dev = "off" THEN fault ELSE TRUE
  /\ UNCHANGED <<len, count, low, high, log, nibble, half, given, supply, faults, timely>>

HostStep ==
  \/ NextByte \/ Return \/ Event9Low \/ ReadLow \/ Event11Low
  \/ Event9High \/ ReadHigh \/ Event11High \/ GiveUp

-----------------------------------------------------------------------------
(* The peripheral (external), and the negotiation that starts a session. *)

NewSession ==
  /\ pc = "idle" /\ dev # "off"
  /\ log' = <<>> /\ up' = TRUE /\ autofd' = TRUE
  /\ dev' = "session" /\ ack' = TRUE /\ half' = "low" /\ given' = 0
  /\ supply' \in 0 .. MaxSupply /\ fault' = (supply' = 0)
  /\ UNCHANGED <<pc, len, count, low, high, ret, nibble, faults, timely>>

\* Events 8 and 9.  nFault carries a bit of the nibble.
PutNibble ==
  /\ dev = "session" /\ ~autofd /\ ack
  /\ half = "high" \/ given < supply
  /\ nibble' = <<given + 1, half>> /\ ack' = FALSE /\ fault' \in BOOLEAN
  /\ UNCHANGED <<pc, call, autofd, dev, half, given, supply, faults, timely>>

\* Event 11: after a high nibble, nFault tells whether there is more.
TakeBack ==
  /\ dev = "session" /\ autofd /\ ~ack
  /\ ack' = TRUE
  /\ \/ half = "low"  /\ half' = "high" /\ UNCHANGED <<given, fault>>
     \/ half = "high" /\ half' = "low"  /\ given' = given + 1 /\ fault' = (given' = supply)
  /\ UNCHANGED <<pc, call, autofd, dev, nibble, supply, faults, timely>>

Respond == PutNibble \/ TakeBack

SwitchOff ==
  /\ dev # "off" /\ faults < MaxFaults
  /\ dev' = "off" /\ faults' = faults + 1
  /\ ack' \in BOOLEAN /\ fault' \in BOOLEAN /\ nibble' = Junk
  /\ UNCHANGED <<pc, call, autofd, half, given, supply, timely>>

SwitchOn ==
  /\ dev = "off" /\ dev' = "compat" /\ ack' = TRUE /\ fault' = TRUE
  /\ UNCHANGED <<pc, call, autofd, nibble, half, given, supply, faults, timely>>

-----------------------------------------------------------------------------

Init ==
  /\ pc = "idle" /\ len = 0 /\ count = 0 /\ low = Junk /\ high = Junk /\ ret = 0
  /\ log = <<>> /\ up = TRUE /\ autofd = TRUE
  /\ dev = "session" /\ ack = TRUE /\ nibble = Junk /\ half = "low" /\ given = 0
  /\ supply \in 0 .. MaxSupply /\ fault = (supply = 0)
  /\ faults = 0 /\ timely \in BOOLEAN

Next ==
  \/ \E n \in 0 .. MaxLen : Read(n)
  \/ HostStep \/ Respond \/ NewSession \/ SwitchOff \/ SwitchOn

Spec == Init /\ [][Next]_vars

\* A call under way goes on; a peripheral that answers in time does answer.
FairSpec == Spec /\ WF_vars(HostStep) /\ WF_vars(timely /\ Respond)

-----------------------------------------------------------------------------
(* Properties. *)

TypeOK ==
  /\ pc \in Labels /\ len \in 0 .. MaxLen /\ count \in 0 .. len /\ ret \in 0 .. MaxLen
  /\ low \in Nibbles /\ high \in Nibbles /\ nibble \in Nibbles
  /\ log \in Seq(Nibbles \X Nibbles) /\ up \in BOOLEAN /\ autofd \in BOOLEAN
  /\ dev \in {"session", "off", "compat"} /\ ack \in BOOLEAN /\ fault \in BOOLEAN
  /\ half \in Halves /\ supply \in 0 .. MaxSupply /\ given \in 0 .. supply
  /\ faults \in 0 .. MaxFaults /\ timely \in BOOLEAN

Sound == up /\ dev = "session"

\* Between two calls host and peripheral agree how far the stream has come: a byte
\* is neither skipped nor read again, however the application cuts it into calls.
InStep == pc = "idle" /\ Sound => Len(log) = given /\ half = "low" /\ ack

\* A timely peripheral that keeps its power loses its session only after the last
\* byte (the library asks for more data at even counts only, so an odd supply
\* ends in a time-out).
EndsOnlyWhenDry == timely /\ faults = 0 /\ ~up => given = supply

\* Every call returns.
CallsReturn == pc # "idle" ~> pc = "idle"

Channel == INSTANCE ByteChannel WITH got <- log, sound <- Sound

\* The bytes stored are the bytes sent, in order, each once: nibbles of different
\* bytes are never mixed.
ImplementsChannel == Channel!Spec
=============================================================================
