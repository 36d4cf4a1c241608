----------------------------- MODULE Negotiation -----------------------------
(***************************************************************************)
(* IEEE 1284 negotiation, termination and ECP direction switching as the   *)
(* library does them itself (default.c), one register access or one wait   *)
(* at a time, over the wires to a peripheral that steps in between.        *)
(*                                                                         *)
(* A wait (access_io.c wait_status) ends when the lines match or, after a  *)
(* poll that did not match, at its deadline.  The peripheral is external:  *)
(* it follows the events the comments of default.c name, at its own pace,  *)
(* can be switched off and on, and when off leaves any status on the lines.*)
(* `timely' says whether it answers within the library's deadlines.        *)
(***************************************************************************)
EXTENDS Integers

CONSTANTS
  Modes,           \* the modes the application negotiates
  Accepts,         \* the request bytes the peripheral accepts
  MaxFaults,       \* bound: how often the peripheral is switched off
  TerminateFirst,  \* TRUE: applications terminate before they first negotiate
  NoByte           \* no request byte latched

\* ieee1284.h
NIBBLE == 0
BYTE == 1
COMPAT == 256
BECP == 512
ECP == 16
ECPRLE == 48
ECPSWE == 1024
EPP == 64
EPPSL == 2048
EPPSWE == 4096
DEVICEID == 4
EXT_LINK == 16384

ASSUME ModesAssumption == Modes \subseteq Nat /\ COMPAT \in Modes
ASSUME AcceptsAssumption == Accepts \subseteq 0 .. 255 /\ NIBBLE \in Accepts
ASSUME FaultsAssumption == MaxFaults \in Nat
ASSUME FirstAssumption == TerminateFirst \in BOOLEAN
ASSUME NoByteAssumption == NoByte \notin 0 .. 255

VARIABLES
  pc,       \* the host: where it is in a library call
  back,     \* where ecp_rev_to_fwd returns to
  call,     \* the last call made
  asked,    \* the mode of the last negotiation
  ret,      \* what the last call returned
  mode,     \* port->current_mode
  phase,    \* port->current_phase
  ctl,      \* the control lines that are high
  data,     \* the byte in the data register
  reverse,  \* the host's data drivers are off
  status,   \* the status lines that are high
  pst,      \* the peripheral's state
  latch,    \* the request byte it latched
  faults,   \* how often it was switched off
  timely    \* it answers before the library's deadlines

host == <<pc, back, call, asked, ret, mode, phase>>
wires == <<ctl, data, reverse>>
periph == <<status, pst, latch>>
vars == <<host, wires, periph, faults, timely>>

ControlLines == {"nStrobe", "nAutoFd", "nInit", "nSelectIn"}
StatusLines  == {"nAck", "PError", "Select", "nFault"}
IdleLines    == {"nStrobe", "nAutoFd", "nInit"}
IdleStatus   == {"nAck", "Select", "nFault"}

Phases == {"FWD_DATA", "FWD_IDLE", "REV_IDLE", "ECP_DIR_UNKNOWN"}
Results == {"OK", "NEGFAILED", "REJECTED", "TIMEDOUT"}
HostLabels == {"idle", "n_ev1", "n_ev2", "n_ev3", "n_ev4", "n_ev6", "n_ev5",
               "n_ev30", "n_ev31", "t_first", "t_ev22", "t_ev24", "t_ev26",
               "t_ev27", "t_ev28", "f_ev38", "f_dir", "f_ev39", "f_ev40",
               "r_ev47", "r_ev49"}
\* In a session the peripheral's states are: mode (other than ECP), refused,
\* setup (ECP accepted, before event 31), fwd and rev.
Session == {"mode", "refused", "setup", "fwd", "rev"}
PeriphStates == Session \cup {"off", "compat", "request", "ending"}

-----------------------------------------------------------------------------
(* The request byte. *)

BugRequestCode(m) ==
  CASE m >= EXT_LINK         -> 128
    [] m \in {EPPSL, EPPSWE} -> EPP
    [] m = BECP              -> 24
    [] OTHER                 -> m

\* The byte default_negotiate asks for a mode with: the switch names three
\* families, the extensibility link replaces everything.
RequestCode(m) ==
  CASE m >= EXT_LINK         -> 128
    [] m = ECPSWE            -> ECP
    [] m \in {EPPSL, EPPSWE} -> EPP
    [] m = BECP              -> 24
    [] OTHER                 -> m

RequestByte(m) == RequestCode(m) % 256                  \* (unsigned char) m
AsksForECP(b) == (b \div ECP) % 2 = 1                   \* m & M1284_ECP

-----------------------------------------------------------------------------
(* The registers. *)

WriteControl(val) == ctl' = val
Frob(mask, val) == ctl' = (ctl \ mask) \cup val

\* A reaction the peripheral owes to the lines as they are.
PeripheralOwes ==
  \/ pst = "compat"  /\ "nSelectIn" \in ctl /\ "nAutoFd" \notin ctl
  \/ pst = "request" /\ "nSelectIn" \notin ctl
  \/ pst = "request" /\ latch # NoByte /\ {"nStrobe", "nAutoFd"} \subseteq ctl
  \/ pst \in Session /\ "nSelectIn" \notin ctl
  \/ pst = "ending"  /\ "nAutoFd" \notin ctl
  \/ pst = "setup"   /\ "nAutoFd" \notin ctl
  \/ pst = "fwd"     /\ "nInit" \notin ctl
  \/ pst = "rev"     /\ "nInit" \in ctl

Matches(mask, val) == status \cap mask = val

BugTimesOut(mask, val) == FALSE

\* wait_status reaches its deadline after a poll that did not match.
TimesOut(mask, val) == ~Matches(mask, val) /\ (timely => ~PeripheralOwes)

Goto(from, to) == pc = from /\ pc' = to

\* One write to the control register, nothing else.
Control(from, to) ==
  /\ Goto(from, to)
  /\ UNCHANGED <<back, call, asked, ret, mode, phase, data, reverse,
                 periph, faults, timely>>

\* A wait that only decides where to go on.
Wait(from, mask, val, ok, late) ==
  /\ \/ Matches(mask, val)  /\ Goto(from, ok)
     \/ TimesOut(mask, val) /\ Goto(from, late)
  /\ UNCHANGED <<back, call, asked, ret, mode, phase, wires, periph,
                 faults, timely>>

-----------------------------------------------------------------------------
(* default_negotiate. *)

\* Documented: terminate between two negotiations (and, for TerminateFirst, once
\* at the start, as ieee1284_get_deviceid does).
MayNegotiate(m) ==
  /\ mode \in {m, COMPAT} \/ m = COMPAT \/ call = "none"
  /\ TerminateFirst => call # "none"

\* Nothing to do; back to compatibility mode; or event 0.
Negotiate(m) ==
  /\ MayNegotiate(m)
  /\ \/ /\ m = mode /\ pc = "idle" /\ pc' = "idle"
        /\ ret' = "OK" /\ UNCHANGED data
     \/ /\ m # mode /\ m = COMPAT /\ Goto("idle", "t_first")
        /\ ret' = "OK" /\ UNCHANGED data
     \/ /\ m # mode /\ m # COMPAT /\ Goto("idle", "n_ev1")
        /\ ret' = "NEGFAILED" /\ data' = RequestByte(m)
  /\ call' = "negotiate" /\ asked' = m
  /\ UNCHANGED <<back, mode, phase, ctl, reverse, periph, faults, timely>>

Event1 == Control("n_ev1", "n_ev2") /\ Frob(ControlLines, {"nSelectIn", "nStrobe", "nInit"})

BugEvent2 == Wait("n_ev2", {"Select", "nFault"}, {"Select", "nFault"}, "n_ev3", "t_first")

Event2 == Wait("n_ev2", StatusLines, {"PError", "Select", "nFault"}, "n_ev3", "t_first")

\* The falling edge of nStrobe makes the peripheral latch the data lines; when
\* nobody drives them it latches anything.
Event3 ==
  /\ Goto("n_ev3", "n_ev4")
  /\ Frob({"nStrobe"}, {})
  /\ IF pst = "request"
     THEN latch' \in IF reverse THEN Accepts \cup {data} ELSE {data}
     ELSE UNCHANGED latch
  /\ UNCHANGED <<back, call, asked, ret, mode, phase, data, reverse,
                 status, pst, faults, timely>>

Event4 == Control("n_ev4", "n_ev6") /\ Frob({"nStrobe", "nAutoFd"}, {"nStrobe", "nAutoFd"})

Event6 == Wait("n_ev6", {"nAck"}, {"nAck"}, "n_ev5", "t_first")

BugEvent5 ==
  /\ \/ /\ ("Select" \in status) # (asked # NIBBLE)
        /\ mode' = IF asked = 0 THEN 1 ELSE 0
        /\ ret' = "REJECTED" /\ Goto("n_ev5", "t_first")
     \/ /\ ("Select" \in status) = (asked # NIBBLE)
        /\ mode' = RequestCode(asked)
        /\ IF AsksForECP(RequestCode(asked))
           THEN Goto("n_ev5", "n_ev30") /\ UNCHANGED ret
           ELSE Goto("n_ev5", "idle") /\ ret' = "OK"
  /\ UNCHANGED <<back, call, asked, phase, wires, periph, faults, timely>>

\* Select answers yes to every mode but nibble, and no to nibble.  A refusal
\* leaves port->current_mode at !mode for termination to overwrite.
Event5 ==
  /\ \/ /\ ("Select" \in status) # (asked # NIBBLE)
        /\ mode' = IF asked = 0 THEN 1 ELSE 0
        /\ ret' = "REJECTED" /\ Goto("n_ev5", "t_first")
     \/ /\ ("Select" \in status) = (asked # NIBBLE)
        /\ mode' = asked
        /\ IF AsksForECP(RequestCode(asked))
           THEN Goto("n_ev5", "n_ev30") /\ UNCHANGED ret
           ELSE Goto("n_ev5", "idle") /\ ret' = "OK"
  /\ UNCHANGED <<back, call, asked, phase, wires, periph, faults, timely>>

Event30 == Control("n_ev30", "n_ev31") /\ Frob({"nAutoFd"}, {})

Event31 ==
  /\ \/ /\ Matches({"PError"}, {"PError"}) /\ Goto("n_ev31", "idle")
        /\ phase' = "FWD_IDLE" /\ ret' = "OK"
     \/ /\ TimesOut({"PError"}, {"PError"}) /\ Goto("n_ev31", "t_first")
        /\ UNCHANGED <<phase, ret>>
  /\ UNCHANGED <<back, call, asked, mode, wires, periph, faults, timely>>

NegotiateStep == Event1 \/ Event2 \/ Event3 \/ Event4 \/ Event6 \/ Event5 \/ Event30 \/ Event31

-----------------------------------------------------------------------------
(* default_terminate. *)

Terminate ==
  /\ Goto("idle", "t_first")
  /\ call' = "terminate"
  /\ UNCHANGED <<back, asked, ret, mode, phase, wires, periph, faults, timely>>

\* An ECP session that was reversed is turned forward first.
TerminateFromForward ==
  /\ IF phase = "REV_IDLE"
     THEN Goto("t_first", "r_ev47") /\ back' = "t_ev22"
     ELSE Goto("t_first", "t_ev22") /\ UNCHANGED back
  /\ UNCHANGED <<call, asked, ret, mode, phase, wires, periph, faults, timely>>

BugEvent22 ==
  /\ Goto("t_ev22", "t_ev24")
  /\ WriteControl(IdleLines)
  /\ UNCHANGED <<back, call, asked, ret, mode, phase, data, reverse, periph,
                 faults, timely>>

\* nSelectIn is dropped, and with it the mode, whatever the peripheral answers.
Event22 ==
  /\ Goto("t_ev22", "t_ev24")
  /\ WriteControl(IdleLines)
  /\ mode' = COMPAT
  /\ UNCHANGED <<back, call, asked, ret, phase, data, reverse, periph,
                 faults, timely>>

BugEvent26 == Control("t_ev26", "t_ev27") /\ WriteControl(IdleLines)
BugEvent28 == Control("t_ev28", "idle") /\ UNCHANGED ctl

Event24 == Wait("t_ev24", {"nAck"}, {}, "t_ev26", "idle")
Event26 == Control("t_ev26", "t_ev27") /\ WriteControl({"nInit", "nStrobe"})
Event27 == Wait("t_ev27", {"nAck"}, {"nAck"}, "t_ev28", "idle")
Event28 == Control("t_ev28", "idle") /\ WriteControl(IdleLines)

TerminateStep ==
  TerminateFromForward \/ Event22 \/ Event24 \/ Event26 \/ Event27 \/ Event28

-----------------------------------------------------------------------------
(* default_ecp_fwd_to_rev and default_ecp_rev_to_fwd. *)

InECP == AsksForECP(RequestCode(mode))

FwdToRev ==
  /\ InECP /\ Goto("idle", "f_ev38")
  /\ call' = "fwd_to_rev"
  /\ UNCHANGED <<back, asked, ret, mode, phase, wires, periph, faults, timely>>

Event38 == Control("f_ev38", "f_dir") /\ Frob({"nAutoFd"}, {})

BugDriversOff ==
  /\ Goto("f_dir", "f_ev39")
  /\ UNCHANGED <<back, call, asked, ret, mode, phase, wires, periph, faults, timely>>

DriversOff ==
  /\ Goto("f_dir", "f_ev39")
  /\ reverse' = TRUE
  /\ UNCHANGED <<back, call, asked, ret, mode, phase, ctl, data, periph,
                 faults, timely>>

Event39 == Control("f_ev39", "f_ev40") /\ Frob({"nInit"}, {})

Event40 ==
  /\ Goto("f_ev40", "idle")
  /\ \/ Matches({"PError"}, {})  /\ phase' = "REV_IDLE" /\ ret' = "OK"
     \/ TimesOut({"PError"}, {}) /\ phase' = "ECP_DIR_UNKNOWN" /\ ret' = "TIMEDOUT"
  /\ UNCHANGED <<back, call, asked, mode, wires, periph, faults, timely>>

RevToFwd ==
  /\ InECP /\ Goto("idle", "r_ev47")
  /\ call' = "rev_to_fwd" /\ back' = "idle"
  /\ UNCHANGED <<asked, ret, mode, phase, wires, periph, faults, timely>>

Event47 == Control("r_ev47", "r_ev49") /\ Frob({"nInit", "nAutoFd"}, {"nInit", "nAutoFd"})

\* default_terminate ignores what ecp_rev_to_fwd returned.
Event49 ==
  /\ Goto("r_ev49", back)
  /\ \/ /\ Matches({"PError"}, {"PError"})
        /\ reverse' = FALSE /\ phase' = "FWD_IDLE"
        /\ ret' = IF back = "idle" THEN "OK" ELSE ret
     \/ /\ TimesOut({"PError"}, {"PError"})
        /\ phase' = "ECP_DIR_UNKNOWN" /\ UNCHANGED reverse
        /\ ret' = IF back = "idle" THEN "TIMEDOUT" ELSE ret
  /\ UNCHANGED <<back, call, asked, mode, ctl, data, periph, faults, timely>>

DirectionStep == Event38 \/ DriversOff \/ Event39 \/ Event40 \/ Event47 \/ Event49

-----------------------------------------------------------------------------
(* The peripheral (external). *)

React(from, to) == pst = from /\ pst' = to /\ UNCHANGED <<host, wires, faults, timely>>

\* Event 2: it recognises the request.
Recognise ==
  /\ "nSelectIn" \in ctl /\ "nAutoFd" \notin ctl
  /\ React("compat", "request")
  /\ status' = {"PError", "Select", "nFault"} /\ latch' = NoByte

\* Events 5 and 6: the answer.  nFault is low when it has data to send.
Answer ==
  /\ latch # NoByte /\ {"nStrobe", "nAutoFd", "nSelectIn"} \subseteq ctl
  /\ React("request", IF latch \notin Accepts THEN "refused"
                      ELSE IF AsksForECP(latch) THEN "setup" ELSE "mode")
  /\ \E quiet \in BOOLEAN :
       status' = {"nAck"} \cup (IF latch \in Accepts \ {NIBBLE} THEN {"Select"} ELSE {})
                          \cup (IF quiet THEN {"nFault"} ELSE {})
  /\ UNCHANGED latch

\* The host gave up in the middle of the request.
Abandon ==
  /\ "nSelectIn" \notin ctl
  /\ React("request", "compat")
  /\ status' = IdleStatus /\ UNCHANGED latch

\* Event 24, from any session state; a reversed bus is let go.
BeginTermination ==
  /\ "nSelectIn" \notin ctl
  /\ \E s \in Session : React(s, "ending")
  /\ status' = status \ {"nAck"} /\ UNCHANGED latch

\* Event 27.
EndTermination ==
  /\ "nAutoFd" \notin ctl
  /\ React("ending", "compat")
  /\ status' = IdleStatus /\ UNCHANGED latch

\* Event 31: ECP is set up.
SetUpECP ==
  /\ {"nSelectIn"} = {"nSelectIn", "nAutoFd"} \cap ctl
  /\ React("setup", "fwd")
  /\ status' = status \cup {"PError"} /\ UNCHANGED latch

\* Events 40 and 49: the bus is reversed, and turned back.
ReverseBus ==
  /\ "nSelectIn" \in ctl /\ "nInit" \notin ctl
  /\ React("fwd", "rev")
  /\ status' = status \ {"PError"} /\ UNCHANGED latch

ForwardBus ==
  /\ {"nSelectIn", "nInit"} \subseteq ctl
  /\ React("rev", "fwd")
  /\ status' = status \cup {"PError"} /\ UNCHANGED latch

Respond == Recognise \/ Answer \/ Abandon \/ BeginTermination \/ EndTermination
           \/ SetUpECP \/ ReverseBus \/ ForwardBus

\* It drives the data lines.
Drives == pst = "rev"

SwitchOff ==
  /\ pst # "off" /\ faults < MaxFaults
  /\ pst' = "off" /\ status' \in SUBSET StatusLines
  /\ faults' = faults + 1
  /\ UNCHANGED <<host, wires, latch, timely>>

SwitchOn ==
  /\ pst = "off" /\ pst' = "compat"
  /\ status' = IdleStatus /\ latch' = NoByte
  /\ UNCHANGED <<host, wires, faults, timely>>

-----------------------------------------------------------------------------

\* The I/O method leaves port->current_mode and current_phase as add_port zeroed
\* them: M1284_NIBBLE and PH1284_FWD_DATA.
Init ==
  /\ pc = "idle" /\ back = "idle" /\ call = "none" /\ asked = COMPAT /\ ret = "OK"
  /\ mode = NIBBLE /\ phase = "FWD_DATA"
  /\ ctl = IdleLines /\ data = 0 /\ reverse = FALSE
  /\ pst = "compat" /\ status = IdleStatus
  /\ latch = NoByte /\ faults = 0 /\ timely \in BOOLEAN

AppCall == Terminate \/ FwdToRev \/ RevToFwd \/ \E m \in Modes : Negotiate(m)

HostStep == NegotiateStep \/ TerminateStep \/ DirectionStep

Next == AppCall \/ HostStep \/ Respond \/ SwitchOff \/ SwitchOn

Spec == Init /\ [][Next]_vars

\* A call under way is executed; a peripheral that answers in time does answer.
Fairness == WF_vars(HostStep) /\ WF_vars(timely /\ Respond)

FairSpec == Spec /\ Fairness

-----------------------------------------------------------------------------
(* Properties. *)

TypeOK ==
  /\ pc \in HostLabels /\ back \in {"idle", "t_ev22"}
  /\ call \in {"none", "negotiate", "terminate", "fwd_to_rev", "rev_to_fwd"}
  /\ asked \in Modes /\ ret \in Results
  /\ mode \in Modes \cup {NIBBLE, BYTE} /\ phase \in Phases
  /\ ctl \subseteq ControlLines /\ data \in 0 .. 255 /\ reverse \in BOOLEAN
  /\ status \subseteq StatusLines /\ pst \in PeriphStates /\ latch \in (0 .. 255) \cup {NoByte}
  /\ faults \in 0 .. MaxFaults /\ timely \in BOOLEAN

\* "When the peripheral is driving them the host must not" (ieee1284_data_dir):
\* the data lines never have two drivers, however late the peripheral is and
\* whatever the library gives up on.
NoContention == Drives => reverse

Between == pc = "idle"

\* The IEEE 1284 mode that a mode of the library is a variation of.
Family(m) ==
  IF m \in {ECP, ECPSWE} THEN ECP
  ELSE IF m \in {EPP, EPPSL, EPPSWE} THEN EPP
  ELSE IF m = BECP THEN 24
  ELSE m

Faultless == timely /\ faults = 0

\* Between calls both ends of the cable agree: in compatibility mode, or in the
\* very mode port->current_mode names, an ECP session in the same direction.
ModeAgreement == Between /\ Faultless /\ call # "none" =>
  /\ mode = COMPAT => pst = "compat"
  /\ mode # COMPAT => pst \in Session \ {"refused"} /\ latch = Family(mode)
  /\ InECP /\ phase = "FWD_IDLE" => pst = "fwd"
  /\ InECP /\ phase = "REV_IDLE" => pst = "rev"

\* In compatibility mode nothing is left of a session on the lines: never what
\* would reset, strobe or address the device, and with a peripheral that answers
\* in time not nAutoFd either (a termination that gives up at event 27 leaves it).
CompatLinesReleased == Between /\ mode = COMPAT =>
  /\ {"nSelectIn", "nStrobe", "nInit"} \cap ctl = {"nStrobe", "nInit"}
  /\ Faultless => "nAutoFd" \in ctl

\* The result of ieee1284_negotiate and the mode of the port say the same.
ResultMatchesMode == Between /\ call = "negotiate" =>
  mode = IF ret = "OK" THEN asked ELSE COMPAT

\* A compliant peripheral that answers in time is never reported as failing
\* negotiation, and is reported as refusing exactly the modes it refuses.
VerdictIsTrue == Between /\ Faultless /\ call = "negotiate" /\ asked # COMPAT =>
  ret = IF Family(asked) \in Accepts THEN "OK" ELSE "REJECTED"

\* The host strobes only a peripheral that awaits the request byte.
StrobeIsAwaited == [][Faultless /\ "nStrobe" \in ctl /\ "nStrobe" \notin ctl' =>
  pst = "request"]_vars

\* Every call returns, whatever the peripheral does.
CallsReturn == pc # "idle" ~> pc = "idle"
=============================================================================
