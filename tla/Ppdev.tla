-------------------------------- MODULE Ppdev --------------------------------
(***************************************************************************)
(* access_ppdev.c over an open, claimed file of the kernel's ppdev driver: *)
(* block transfers and the mode, flags and O_NONBLOCK they set up, the     *)
(* inactivity timer, and the nAck handshake that rests on interrupts.      *)
(*                                                                         *)
(* What the library remembers of the kernel's state (mode, fast, nonblock) *)
(* stands beside that state (kmode, kfast, onb).  The kernel is external:  *)
(* each request can fail, except one to end a mode.  Control values are    *)
(* the sets of the lines that are high; the PC-style register behind them  *)
(* has three of the four inverted.                                         *)
(***************************************************************************)
EXTENDS Integers

CONSTANTS
  Uses,      \* what an application may use the port for: a subset of SUBSET Kinds
  FlagSets,  \* the sets of flags it passes
  Timeouts,  \* the inactivity times it sets
  Controls,  \* the control values it writes
  MaxIrqs    \* bound: the interrupts of the peripheral

Kinds == {"transfers", "timer", "wires"}
Flags == {"NONBLOCK", "SWE", "RLE", "FASTEPP"}
NoTime == 0
ControlLines == {"nStrobe", "nAutoFd", "nInit", "nSelectIn"}

ASSUME UsesAssumption == Uses \subseteq SUBSET Kinds
ASSUME FlagsAssumption == FlagSets \subseteq SUBSET Flags
ASSUME TimeoutsAssumption == Timeouts \subseteq Nat \ {NoTime}
ASSUME ControlsAssumption == Controls # {} /\ Controls \subseteq SUBSET ControlLines
ASSUME IrqsAssumption == MaxIrqs \in Nat

VARIABLES
  use,       \* what this application uses the port for
  pc,        \* where the library is in a call
  call,      \* the block transfer being made
  flags,     \* its flags
  ret,       \* the return value
  mode,      \* port->current_mode
  fast,      \* current_flags: PP_FASTREAD | PP_FASTWRITE
  nonblock,  \* priv->nonblock
  kmode,     \* the kernel: the mode of a transfer
  kfast,     \* the fast EPP flags are set
  onb,       \* the file is O_NONBLOCK
  old,       \* priv->inactivity_timer, where set_timeout's result points
  timer,     \* the kernel's inactivity time
  before,    \* ct_before of the handshake
  after,     \* ct_after
  lines,     \* the control lines
  armed,     \* the kernel writes its register at the next interrupt
  onirq,     \* the value it then writes
  irqs,      \* its interrupt count
  seen,      \* interrupts since the handshake began
  early,     \* one of them before ct_before was on the lines
  total      \* interrupts so far

library == <<mode, fast, nonblock>>
kernel == <<kmode, kfast, onb>>
timing == <<old, timer>>
handshake == <<before, after>>
wires == <<lines, armed, onirq, irqs, seen, early, total>>
vars == <<use, pc, call, flags, ret, library, kernel, timing, handshake, wires>>

-----------------------------------------------------------------------------
(* Codes, modes and transfers. *)

E1284_OK == 0
E1284_NOTIMPL == -1
E1284_NOTAVAIL == -2
E1284_TIMEDOUT == -3
E1284_REJECTED == -4
E1284_NEGFAILED == -5
E1284_SYS == -8
EAGAIN == 11

M1284_NIBBLE == 0
M1284_BYTE == 1
M1284_ECP == 16
M1284_ECPRLE == 48
M1284_EPP == 64
M1284_COMPAT == 256
M1284_BECP == 512
M1284_ECPSWE == 1024
M1284_EPPSWE == 4096
IEEE1284_ADDR == 8192
NibbleID == 4                          \* M1284_NIBBLE | M1284_FLAG_DEVICEID

PlainModes == {M1284_NIBBLE, M1284_BYTE, M1284_COMPAT, M1284_ECPRLE, M1284_ECPSWE, M1284_EPPSWE}
Negotiated == PlainModes \cup {M1284_ECP, M1284_EPP, M1284_BECP, NibbleID}
KernelModes == PlainModes \cup {M1284_ECP, M1284_EPP, NibbleID}
TransferModes == KernelModes \cup {m + IEEE1284_ADDR : m \in KernelModes}

EcpVariant(fl) ==
  IF "RLE" \in fl THEN M1284_ECPRLE
  ELSE IF "SWE" \in fl THEN M1284_ECPSWE
  ELSE IF fl \subseteq {"NONBLOCK"} THEN M1284_ECP ELSE E1284_NOTIMPL

EppVariant(fl) ==
  IF "SWE" \in fl THEN M1284_EPPSWE
  ELSE IF fl \subseteq {"NONBLOCK", "FASTEPP"} THEN M1284_EPP ELSE E1284_NOTIMPL

WhichMode(m, fl) ==
  CASE m \in PlainModes \cup {NibbleID} -> m
    [] m = M1284_ECP -> EcpVariant(fl)
    [] m = M1284_EPP -> EppVariant(fl)
    [] OTHER -> E1284_NOTIMPL

\* System calls fail with -1, whatever errno says.
Failed == -1
TranslateErrorCode(e) ==
  IF e = -EAGAIN THEN E1284_TIMEDOUT ELSE IF e < 0 THEN E1284_SYS ELSE e

\* The block transfers: EPP and ECP pass their flags on to set_mode.
BlockTransfers ==
  [mode : {M1284_NIBBLE, M1284_COMPAT, M1284_BYTE}, addr : {0}]
    \cup [mode : {M1284_EPP, M1284_ECP}, addr : {0, IEEE1284_ADDR}]

ModeFlags == IF call.mode \in {M1284_EPP, M1284_ECP} THEN flags ELSE {}
Wanted == WhichMode(call.mode, ModeFlags)

AllReturn(r) == pc' = "idle" /\ ret' = r

-----------------------------------------------------------------------------
(* A block transfer: do_nonblock, the two requests of set_mode, the I/O. *)

BlockTransfer(c, fl) ==
  /\ pc = "idle" /\ "transfers" \in use
  /\ pc' = "nonblock" /\ call' = c /\ flags' = fl
  /\ UNCHANGED <<use, ret, library, kernel, timing, handshake, wires>>

\* nonblock is read here and set nowhere; clearing would keep the flag it masks with.
DoNonblock ==
  LET enable == "NONBLOCK" \in flags /\ ~nonblock
      disable == "NONBLOCK" \notin flags /\ nonblock
  IN /\ pc = "nonblock"
     /\ \/ pc' = "mode" /\ onb' = (onb \/ enable) /\ UNCHANGED ret
        \/ (enable \/ disable) /\ AllReturn(Failed) /\ UNCHANGED onb
     /\ UNCHANGED <<use, call, flags, library, kmode, kfast, timing, handshake, wires>>

\* A mode that is not implemented, the mode already set, or PPSETMODE.
SetMode ==
  LET m == Wanted + call.addr
  IN /\ pc = "mode"
     /\ \/ Wanted < 0 /\ AllReturn(Wanted) /\ UNCHANGED <<mode, kmode>>
        \/ Wanted >= 0 /\ m = mode /\ pc' = "flags" /\ ret' = E1284_OK
           /\ UNCHANGED <<mode, kmode>>
        \/ Wanted >= 0 /\ m # mode /\ pc' = "flags"
           /\ \/ mode' = m /\ kmode' = m /\ ret' = E1284_OK
              \/ ret' = TranslateErrorCode(Failed) /\ UNCHANGED <<mode, kmode>>
     /\ UNCHANGED <<use, call, flags, fast, nonblock, kfast, onb, timing, handshake, wires>>

WantsFast == "FASTEPP" \in flags
Proceed(r) == ret' = r /\ pc' = IF r = E1284_OK THEN "io" ELSE "idle"

BugSetFlags ==
  /\ pc = "flags"
  /\ Proceed(E1284_OK) /\ UNCHANGED <<fast, kfast>>
  /\ UNCHANGED <<use, call, flags, mode, nonblock, kmode, onb, timing, handshake, wires>>

\* PPSETFLAGS, for EPP only; its result replaces that of PPSETMODE.
SetFlags ==
  /\ pc = "flags"
  /\ \/ (call.mode # M1284_EPP \/ fast = WantsFast) /\ Proceed(ret) /\ UNCHANGED <<fast, kfast>>
     \/ /\ call.mode = M1284_EPP /\ fast # WantsFast
        /\ \/ Proceed(E1284_OK) /\ fast' = WantsFast /\ kfast' = WantsFast
           \/ Proceed(TranslateErrorCode(Failed)) /\ UNCHANGED <<fast, kfast>>
  /\ UNCHANGED <<use, call, flags, mode, nonblock, kmode, onb, timing, handshake, wires>>

\* read or write: some bytes, none, or a failure (EAGAIN is one of them).
Io ==
  /\ pc = "io"
  /\ \E n \in {Failed, 0, 1} : AllReturn(TranslateErrorCode(n))
  /\ UNCHANGED <<use, call, flags, library, kernel, timing, handshake, wires>>

Refusals == {E1284_NEGFAILED, E1284_REJECTED, TranslateErrorCode(Failed)}

BugNegotiate(m) ==
  /\ pc = "idle" /\ "transfers" \in use /\ mode = M1284_COMPAT
  /\ mode' = m
  /\ \/ kmode' = WhichMode(m, {}) /\ ret' = E1284_OK
     \/ kmode' = M1284_COMPAT /\ ret' \in Refusals
  /\ UNCHANGED <<use, pc, call, flags, fast, nonblock, kfast, onb, timing, handshake, wires>>

\* PPNEGOT, from compatibility mode as the documentation asks, with whatever
\* which_mode returns: its error code is not tested, and the kernel may take it.
Negotiate(m) ==
  /\ pc = "idle" /\ "transfers" \in use /\ mode = M1284_COMPAT
  /\ \/ kmode' = WhichMode(m, {}) /\ mode' = m /\ ret' = E1284_OK
     \/ kmode' = M1284_COMPAT /\ UNCHANGED mode /\ ret' \in Refusals
  /\ UNCHANGED <<use, pc, call, flags, fast, nonblock, kfast, onb, timing, handshake, wires>>

Terminate ==
  /\ pc = "idle" /\ "transfers" \in use
  /\ mode' = M1284_COMPAT /\ kmode' = M1284_COMPAT
  /\ UNCHANGED <<use, pc, call, flags, ret, fast, nonblock, kfast, onb, timing, handshake, wires>>

\* ieee1284_close and ieee1284_open again: a new file and a new ppdev_priv.
Reopen ==
  /\ pc = "idle"
  /\ mode' = M1284_COMPAT /\ fast' = FALSE /\ nonblock' = FALSE
  /\ kmode' = M1284_COMPAT /\ kfast' = FALSE /\ onb' = FALSE
  /\ old' = NoTime /\ timer' \in Timeouts
  /\ armed' = FALSE /\ irqs' = 0 /\ ret' = E1284_OK
  /\ UNCHANGED <<use, pc, call, flags, handshake, lines, onirq, seen, early, total>>

-----------------------------------------------------------------------------
(* The inactivity timer. *)

\* PPGETTIME into the storage the result points to, then PPSETTIME from the argument:
\* NULL, which the kernel refuses, or a time of the application's.
SetTimeout(t) ==
  /\ pc = "idle" /\ "timer" \in use
  /\ old' = timer /\ timer' = IF t = NoTime THEN timer ELSE t
  /\ UNCHANGED <<use, pc, call, flags, ret, library, kernel, handshake, wires>>

\* The argument is the pointer an earlier call returned.
RestoreTimeout ==
  /\ pc = "idle" /\ "timer" \in use /\ old # NoTime
  /\ old' = timer /\ timer' = old'
  /\ UNCHANGED <<use, pc, call, flags, ret, library, kernel, handshake, wires>>

-----------------------------------------------------------------------------
(* do_nack_handshake, and the interrupts of the peripheral. *)

Xor(a, b) == (a \ b) \cup (b \ a)
C1284_INVERTED == {"nStrobe", "nAutoFd", "nSelectIn"}

\* The lines a PC-style port drives for a value of its control register.
LinesOf(register) == Xor(register, C1284_INVERTED)

PutControl(ct) == lines' = LinesOf(Xor(ct, C1284_INVERTED))

WriteControl(ct) ==
  /\ pc = "idle" /\ "wires" \in use
  /\ PutControl(ct)
  /\ UNCHANGED <<use, pc, call, flags, ret, library, kernel, timing, handshake>>
  /\ UNCHANGED <<armed, onirq, irqs, seen, early, total>>

BugClearIrq(b, a) ==
  /\ pc = "idle" /\ "wires" \in use
  /\ before' = b /\ after' = a
  /\ pc' = "arm" /\ seen' = 0 /\ early' = FALSE
  /\ UNCHANGED <<use, call, flags, ret, library, kernel, timing, lines, armed, onirq, irqs, total>>

\* PPCLRIRQ.
ClearIrq(b, a) ==
  /\ pc = "idle" /\ "wires" \in use
  /\ before' = b /\ after' = a
  /\ \/ pc' = "arm" /\ irqs' = 0 /\ seen' = 0 /\ early' = FALSE /\ UNCHANGED ret
     \/ AllReturn(E1284_NOTAVAIL) /\ UNCHANGED <<irqs, seen, early>>
  /\ UNCHANGED <<use, call, flags, library, kernel, timing, lines, armed, onirq, total>>

BugArm ==
  /\ pc = "arm" /\ pc' = "write"
  /\ UNCHANGED <<use, call, flags, ret, library, kernel, timing, handshake, wires>>

\* PPWCTLONIRQ: a value of the register, but ct_after is not converted to one.
Arm ==
  /\ pc = "arm"
  /\ \/ pc' = "write" /\ armed' = TRUE /\ onirq' = after /\ UNCHANGED ret
     \/ AllReturn(E1284_NOTAVAIL) /\ UNCHANGED <<armed, onirq>>
  /\ UNCHANGED <<use, call, flags, library, kernel, timing, handshake, lines, irqs, seen, early, total>>

WriteBefore ==
  /\ pc = "write" /\ pc' = "select" /\ PutControl(before)
  /\ UNCHANGED <<use, call, flags, ret, library, kernel, timing, handshake>>
  /\ UNCHANGED <<armed, onirq, irqs, seen, early, total>>

\* select: an interrupt, the time-out or a signal.
Select ==
  /\ pc = "select"
  /\ \/ irqs > 0 /\ irqs' = 0 /\ AllReturn(E1284_OK)
     \/ irqs = 0 /\ AllReturn(E1284_TIMEDOUT) /\ UNCHANGED irqs
     \/ AllReturn(E1284_NOTAVAIL) /\ UNCHANGED irqs
  /\ UNCHANGED <<use, call, flags, library, kernel, timing, handshake, lines, armed, onirq, seen, early, total>>

\* The peripheral raises nAck: the kernel counts it and writes its register if it was told to.
Interrupt ==
  /\ "wires" \in use /\ total < MaxIrqs
  /\ irqs' = irqs + 1 /\ seen' = seen + 1 /\ total' = total + 1
  /\ early' = (early \/ pc \in {"arm", "write"})
  /\ lines' = (IF armed THEN LinesOf(onirq) ELSE lines) /\ armed' = FALSE
  /\ UNCHANGED <<use, pc, call, flags, ret, library, kernel, timing, handshake, onirq>>

-----------------------------------------------------------------------------

Init ==
  /\ use \in Uses /\ pc = "idle" /\ call \in BlockTransfers /\ call.mode = M1284_COMPAT
  /\ flags = {} /\ ret = E1284_OK
  /\ mode = M1284_COMPAT /\ fast = FALSE /\ nonblock = FALSE
  /\ kmode = M1284_COMPAT /\ kfast = FALSE /\ onb = FALSE
  /\ old = NoTime /\ timer \in Timeouts
  /\ before \in Controls /\ after = before /\ lines = before /\ onirq = {}
  /\ armed = FALSE /\ irqs = 0 /\ seen = 0 /\ early = FALSE /\ total = 0

Next ==
  \/ \E c \in BlockTransfers, fl \in FlagSets : BlockTransfer(c, fl)
  \/ DoNonblock \/ SetMode \/ SetFlags \/ Io
  \/ \E m \in Negotiated : Negotiate(m)
  \/ Terminate \/ Reopen
  \/ \E t \in Timeouts \cup {NoTime} : SetTimeout(t)
  \/ RestoreTimeout
  \/ \E ct \in Controls : WriteControl(ct)
  \/ \E b, a \in Controls : ClearIrq(b, a)
  \/ Arm \/ WriteBefore \/ Select \/ Interrupt

Spec == Init /\ [][Next]_vars

-----------------------------------------------------------------------------
(* Properties. *)

TypeOK ==
  /\ use \in Uses
  /\ pc \in {"idle", "nonblock", "mode", "flags", "io", "arm", "write", "select"}
  /\ call \in BlockTransfers /\ flags \in SUBSET Flags
  /\ ret \in {E1284_OK, 1, E1284_NOTIMPL, E1284_NOTAVAIL, E1284_TIMEDOUT, E1284_REJECTED,
             E1284_NEGFAILED, E1284_SYS}
  /\ mode \in TransferModes \cup Negotiated /\ kmode \in TransferModes \cup {E1284_NOTIMPL}
  /\ fast \in BOOLEAN /\ nonblock \in BOOLEAN /\ kfast \in BOOLEAN /\ onb \in BOOLEAN
  /\ old \in Timeouts \cup {NoTime} /\ timer \in Timeouts
  /\ before \in Controls /\ after \in Controls
  /\ lines \subseteq ControlLines /\ onirq \subseteq ControlLines
  /\ armed \in BOOLEAN /\ early \in BOOLEAN
  /\ irqs \in Nat /\ seen \in Nat /\ total \in 0 .. MaxIrqs

\* The library skips a request to the kernel when its own record says there is
\* nothing to change: the records are the kernel's state, whichever request failed.
\* Only a mode which_mode does not know is recorded while the kernel has something
\* else, the error code it was given.
CacheIsKernel ==
  /\ kmode = IF mode \in TransferModes THEN mode ELSE E1284_NOTIMPL
  /\ fast = kfast

\* Data moves only in the mode the application called, without blocking if it said
\* so, and in EPP with the speed it chose; the mode of an EPP transfer is left out,
\* because there a failed PPSETMODE is forgotten (set_mode overwrites ret).
TransferAsAsked == pc = "io" =>
  /\ "NONBLOCK" \in flags => onb
  /\ call.mode = M1284_EPP => kfast = WantsFast
  /\ call.mode # M1284_EPP => kmode = Wanted + call.addr

HandshakeSucceeds == pc = "select" /\ pc' = "idle" /\ ret' = E1284_OK

\* A handshake succeeds on an interrupt of its own, never on one of before it began.
NoStaleInterrupt == [][HandshakeSucceeds => seen > 0]_vars

\* A peripheral that answers what ct_before asked finds on the lines what the kernel
\* makes of ct_after, whatever an earlier handshake that timed out had left armed.  That
\* is not ct_after as a control value of the library, which write_control would invert.
HandshakeCompletes == [][HandshakeSucceeds /\ ~early => lines = LinesOf(after)]_vars

\* do_nack_handshake: "set control pins to ct_after and return 0", whichever of the
\* library's and the register's values ct_after is.
ZeroMeansAfter == [][HandshakeSucceeds => lines \in {after, LinesOf(after)}]_vars
=============================================================================
