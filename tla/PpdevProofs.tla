------------------------------ MODULE PpdevProofs ------------------------------
(***************************************************************************)
(* Theorems about access_ppdev.c: what the library remembers is what the   *)
(* kernel has, a transfer runs as it was asked to, and a handshake ends on *)
(* an interrupt of its own, for any flags, times and interrupts.           *)
(***************************************************************************)
EXTENDS Ppdev, TLAPS

\* What a block transfer has established by each of its steps.
TransferInv ==
  /\ ~nonblock
  /\ pc \in {"mode", "flags", "io"} /\ "NONBLOCK" \in flags => onb
  /\ pc = "flags" /\ ret = E1284_OK => kmode = Wanted + call.addr
  /\ pc = "io" /\ call.mode = M1284_EPP => kfast = WantsFast
  /\ pc = "io" /\ call.mode # M1284_EPP => kmode = Wanted + call.addr

\* The kernel counts the interrupts of the handshake; without an early one it is
\* armed, with what this handshake gave it, until the first.
HandshakeInv ==
  /\ pc \in {"arm", "write", "select"} => irqs = seen
  /\ pc \in {"arm", "write"} /\ ~early => irqs = 0
  /\ pc = "write" /\ ~early => armed /\ onirq = after
  /\ pc = "select" /\ ~early => IF irqs = 0 THEN armed /\ onirq = after ELSE ~armed /\ lines = LinesOf(after)

-----------------------------------------------------------------------------

\* which_mode finds a mode the kernel knows, or none.
LEMMA WhichModeKnown ==
  ASSUME NEW m, NEW fl
  PROVE  WhichMode(m, fl) \in KernelModes \cup {E1284_NOTIMPL}
<1>1. EcpVariant(fl) \in KernelModes \cup {E1284_NOTIMPL}
  BY DEF EcpVariant, KernelModes, PlainModes
<1>2. EppVariant(fl) \in KernelModes \cup {E1284_NOTIMPL}
  BY DEF EppVariant, KernelModes, PlainModes
<1>3. CASE m \in PlainModes \cup {NibbleID}
  BY <1>3 DEF WhichMode, KernelModes, PlainModes, M1284_NIBBLE, M1284_BYTE, M1284_COMPAT, M1284_ECP, M1284_ECPRLE,
         M1284_ECPSWE, M1284_EPP, M1284_EPPSWE, NibbleID
<1>4. CASE m \notin PlainModes \cup {NibbleID} /\ m = M1284_ECP
  BY <1>1, <1>4 DEF WhichMode, M1284_ECP, M1284_EPP
<1>5. CASE m \notin PlainModes \cup {NibbleID} /\ m = M1284_EPP
  BY <1>2, <1>5 DEF WhichMode, M1284_ECP, M1284_EPP
<1>6. CASE m \notin PlainModes \cup {NibbleID, M1284_ECP, M1284_EPP}
  BY <1>6 DEF WhichMode
<1> QED
  BY <1>3, <1>4, <1>5, <1>6

\* What the kernel is asked to negotiate is what the application asked for, or the
\* error code for a mode it has not.
LEMMA NegotiatedExact ==
  ASSUME NEW m \in Negotiated
  PROVE  WhichMode(m, {}) = IF m \in TransferModes THEN m ELSE E1284_NOTIMPL
<1>1. m # M1284_BECP => m \in TransferModes /\ WhichMode(m, {}) = m
  BY DEF WhichMode, EcpVariant, EppVariant, Negotiated, KernelModes, TransferModes, PlainModes, M1284_BECP,
         M1284_NIBBLE, M1284_BYTE, M1284_COMPAT, M1284_ECP, M1284_ECPRLE,
         M1284_ECPSWE, M1284_EPP, M1284_EPPSWE, NibbleID
<1>2. WhichMode(M1284_BECP, {}) = E1284_NOTIMPL /\ M1284_BECP \notin TransferModes
  BY DEF WhichMode, KernelModes, TransferModes, PlainModes, M1284_BECP, IEEE1284_ADDR,
         M1284_NIBBLE, M1284_BYTE, M1284_COMPAT, M1284_ECP, M1284_ECPRLE,
         M1284_ECPSWE, M1284_EPP, M1284_EPPSWE, NibbleID
<1> QED
  BY <1>1, <1>2

\* The mode set_mode asks for is one of the kernel's when it asks for any.
LEMMA WantedKnown ==
  ASSUME TypeOK, Wanted >= 0
  PROVE  Wanted + call.addr \in TransferModes
<1>1. Wanted \in KernelModes
  BY WhichModeKnown DEF Wanted, E1284_NOTIMPL
<1>2. call.addr \in {0, IEEE1284_ADDR}
  BY DEF TypeOK, BlockTransfers
<1>3. Wanted \in Int
  BY <1>1 DEF KernelModes, PlainModes, M1284_NIBBLE, M1284_BYTE, M1284_COMPAT, M1284_ECP, M1284_ECPRLE,
         M1284_ECPSWE, M1284_EPP, M1284_EPPSWE, NibbleID
<1>4. CASE call.addr = 0
  BY <1>1, <1>3, <1>4 DEF TransferModes
<1>5. CASE call.addr = IEEE1284_ADDR
  BY <1>1, <1>5 DEF TransferModes
<1> QED
  BY <1>2, <1>4, <1>5

\* The initial states satisfy the invariant.
LEMMA InitInv == Init => TypeOK /\ CacheIsKernel /\ TransferInv /\ HandshakeInv
<1> SUFFICES ASSUME Init PROVE TypeOK /\ CacheIsKernel /\ TransferInv /\ HandshakeInv
  OBVIOUS
<1>1. M1284_COMPAT \in TransferModes
  BY DEF TransferModes, KernelModes, PlainModes
<1>2. TypeOK
  <2>1. mode \in TransferModes /\ kmode \in TransferModes
    BY <1>1 DEF Init
  <2>6. before \in Controls /\ after \in Controls /\ lines \subseteq ControlLines /\ onirq \subseteq ControlLines
    BY ControlsAssumption DEF Init
  <2>2. fast \in BOOLEAN /\ nonblock \in BOOLEAN /\ kfast \in BOOLEAN /\ onb \in BOOLEAN
    BY DEF Init
  <2>3. armed \in BOOLEAN /\ early \in BOOLEAN
    BY DEF Init
  <2>4. irqs \in Nat /\ seen \in Nat /\ total \in 0 .. MaxIrqs
    BY IrqsAssumption DEF Init
  <2>5. call \in BlockTransfers /\ flags \in SUBSET Flags
    BY DEF Init
  <2> QED
    BY <2>1, <2>2, <2>3, <2>4, <2>5, <2>6 DEF Init, TypeOK
<1>3. CacheIsKernel /\ TransferInv /\ HandshakeInv
  BY <1>1 DEF Init, CacheIsKernel, TransferInv, HandshakeInv
<1> QED
  BY <1>2, <1>3

\* COMPAT, and every mode the kernel takes, is a mode of transfers.
LEMMA ModesKnown == M1284_COMPAT \in TransferModes /\ KernelModes \subseteq TransferModes
  BY DEF TransferModes, KernelModes, PlainModes

\* A register value drives a set of control lines.
LEMMA LinesAreLines ==
  ASSUME NEW r \in SUBSET ControlLines
  PROVE  LinesOf(r) \subseteq ControlLines /\ Xor(r, C1284_INVERTED) \subseteq ControlLines
  BY DEF LinesOf, Xor, C1284_INVERTED, ControlLines

\* Every step keeps the types.
LEMMA TypeStep == TypeOK /\ [Next]_vars => TypeOK'
<1> SUFFICES ASSUME TypeOK, [Next]_vars PROVE TypeOK'
  OBVIOUS
<1> USE ModesKnown, FlagsAssumption, TimeoutsAssumption, IrqsAssumption
    DEF TypeOK, library, kernel, timing, handshake, wires, AllReturn, TranslateErrorCode, E1284_OK, E1284_NOTIMPL, E1284_NOTAVAIL, E1284_TIMEDOUT, E1284_REJECTED,
       E1284_NEGFAILED, E1284_SYS, EAGAIN, Failed
<1>1. ASSUME NEW c \in BlockTransfers, NEW fl \in FlagSets, BlockTransfer(c, fl) PROVE TypeOK'
  BY <1>1 DEF BlockTransfer
<1>2. ASSUME NEW m \in Negotiated, Negotiate(m) PROVE TypeOK'
  <2>1. kmode' \in TransferModes \cup {E1284_NOTIMPL} /\ mode' \in TransferModes \cup Negotiated
    BY <1>2, NegotiatedExact DEF Negotiate
  <2>2. ret' \in {E1284_OK, E1284_NEGFAILED, E1284_REJECTED, E1284_SYS}
    BY <1>2 DEF Negotiate, Refusals
  <2>3. UNCHANGED <<use, pc, call, flags, fast, nonblock, kfast, onb, timing, handshake, wires>>
    BY <1>2 DEF Negotiate
  <2> QED
    BY <2>1, <2>2, <2>3
<1>3. ASSUME NEW t \in Timeouts \cup {NoTime}, SetTimeout(t) PROVE TypeOK'
  BY <1>3 DEF SetTimeout
<1>4. CASE DoNonblock
  <2>1. onb' \in BOOLEAN
    BY <1>4 DEF DoNonblock
  <2>2. pc' \in {"idle", "mode"} /\ (ret' = ret \/ ret' = Failed)
    BY <1>4 DEF DoNonblock
  <2>3. UNCHANGED <<use, call, flags, library, kmode, kfast, timing, handshake, wires>>
    BY <1>4 DEF DoNonblock
  <2> QED
    BY <2>1, <2>2, <2>3
<1>5. CASE SetMode
  <2>1. CASE Wanted < 0 /\ AllReturn(Wanted) /\ UNCHANGED <<mode, kmode>>
    <3>1. Wanted = E1284_NOTIMPL
      <4>1. \A k \in KernelModes : k \in Nat
        BY DEF KernelModes, PlainModes, M1284_NIBBLE, M1284_BYTE, M1284_COMPAT, M1284_ECP, M1284_ECPRLE,
               M1284_ECPSWE, M1284_EPP, M1284_EPPSWE, NibbleID
      <4>2. Wanted \in KernelModes \cup {E1284_NOTIMPL}
        BY WhichModeKnown DEF Wanted
      <4>3. Wanted < 0
        BY <2>1
      <4> QED
        BY ONLY <4>1, <4>2, <4>3
    <3> QED
      BY <1>5, <2>1, <3>1 DEF SetMode
  <2>2. CASE Wanted >= 0 /\ Wanted + call.addr = mode /\ pc' = "flags" /\ ret' = E1284_OK
              /\ UNCHANGED <<mode, kmode>>
    BY <1>5, <2>2 DEF SetMode
  <2>3. CASE Wanted >= 0 /\ Wanted + call.addr # mode /\ pc' = "flags"
              /\ \/ mode' = Wanted + call.addr /\ kmode' = Wanted + call.addr /\ ret' = E1284_OK
                 \/ ret' = TranslateErrorCode(Failed) /\ UNCHANGED <<mode, kmode>>
    BY <1>5, <2>3, WantedKnown DEF SetMode
  <2> QED
    BY <1>5, <2>1, <2>2, <2>3 DEF SetMode
<1>6. CASE SetFlags
  <2>1. ret' \in {ret, E1284_OK, E1284_SYS} /\ pc' \in {"idle", "io"}
    BY <1>6 DEF SetFlags, Proceed
  <2>2. fast' \in BOOLEAN /\ kfast' \in BOOLEAN
    <3>1. WantsFast \in BOOLEAN
      BY DEF WantsFast
    <3> QED
      BY <1>6, <3>1 DEF SetFlags
  <2>3. UNCHANGED <<use, call, flags, mode, nonblock, kmode, onb, timing, handshake, wires>>
    BY <1>6 DEF SetFlags
  <2> QED
    BY <2>1, <2>2, <2>3
<1>7. CASE Io
  BY <1>7 DEF Io
<1>8. CASE Terminate
  BY <1>8 DEF Terminate
<1>9. CASE Reopen
  BY <1>9 DEF Reopen
<1>10. CASE RestoreTimeout
  BY <1>10 DEF RestoreTimeout
<1>11. ASSUME NEW ct \in Controls, WriteControl(ct) PROVE TypeOK'
  <2>1. ct \in SUBSET ControlLines
    BY <1>11, ControlsAssumption
  <2>2. lines' \subseteq ControlLines
    BY <1>11, <2>1, LinesAreLines DEF WriteControl, PutControl
  <2> QED
    BY <1>11, <2>2 DEF WriteControl
<1>12. ASSUME NEW b \in Controls, NEW a \in Controls, ClearIrq(b, a) PROVE TypeOK'
  <2>0. irqs' \in {irqs, 0} /\ seen' \in {seen, 0}
    BY <1>12 DEF ClearIrq
  <2>1. early' \in BOOLEAN
    BY <1>12 DEF ClearIrq
  <2>2. pc' \in {"idle", "arm"} /\ ret' \in {ret, E1284_NOTAVAIL}
    BY <1>12 DEF ClearIrq
  <2>3. UNCHANGED <<use, call, flags, library, kernel, timing, lines, armed, onirq, total>>
    BY <1>12 DEF ClearIrq
  <2>4. before' \in Controls /\ after' \in Controls
    BY <1>12 DEF ClearIrq
  <2> QED
    BY <2>0, <2>1, <2>2, <2>3, <2>4
<1>13. CASE Arm
  <2>1. armed' \in BOOLEAN
    BY <1>13 DEF Arm
  <2>2. pc' \in {"idle", "write"} /\ ret' \in {ret, E1284_NOTAVAIL}
    BY <1>13 DEF Arm
  <2>3. UNCHANGED <<use, call, flags, library, kernel, timing, handshake, lines, irqs, seen, early, total>>
    BY <1>13 DEF Arm
  <2>4. onirq' \subseteq ControlLines
    BY <1>13, ControlsAssumption DEF Arm
  <2> QED
    BY <2>1, <2>2, <2>3, <2>4
<1>14. CASE WriteBefore
  <2>1. before \in SUBSET ControlLines
    BY ControlsAssumption
  <2>2. lines' \subseteq ControlLines
    BY <1>14, <2>1, LinesAreLines DEF WriteBefore, PutControl
  <2> QED
    BY <1>14, <2>2 DEF WriteBefore
<1>15. CASE Select
  BY <1>15 DEF Select
<1>16. CASE Interrupt
  <2>1. early' \in BOOLEAN /\ armed' \in BOOLEAN
    BY <1>16 DEF Interrupt
  <2>2. irqs' \in Nat /\ seen' \in Nat /\ total' \in 0 .. MaxIrqs /\ lines' \subseteq ControlLines
    BY <1>16, LinesAreLines DEF Interrupt
  <2>3. UNCHANGED <<use, pc, call, flags, ret, library, kernel, timing, handshake, onirq>>
    BY <1>16 DEF Interrupt
  <2> QED
    BY <2>1, <2>2, <2>3
<1>17. CASE UNCHANGED vars
  BY <1>17 DEF vars
<1> QED
  BY <1>1, <1>2, <1>3, <1>4, <1>5, <1>6, <1>7, <1>8, <1>9,
     <1>10, <1>11, <1>12, <1>13, <1>14, <1>15, <1>16, <1>17 DEF Next

\* Whichever request fails, the records stay those of the kernel.
LEMMA CacheStep == TypeOK /\ CacheIsKernel /\ [Next]_vars => CacheIsKernel'
<1> SUFFICES ASSUME TypeOK, CacheIsKernel, [Next]_vars PROVE CacheIsKernel'
  OBVIOUS
<1> USE DEF CacheIsKernel, library, kernel, timing, handshake, wires
<1>1. ASSUME NEW c \in BlockTransfers, NEW fl \in FlagSets, BlockTransfer(c, fl) PROVE CacheIsKernel'
  BY <1>1 DEF BlockTransfer
<1>2. ASSUME NEW m \in Negotiated, Negotiate(m) PROVE CacheIsKernel'
  <2>1. CASE kmode' = WhichMode(m, {}) /\ mode' = m
    BY <1>2, <2>1, NegotiatedExact DEF Negotiate
  <2>2. CASE kmode' = M1284_COMPAT /\ UNCHANGED mode
    <3>1. mode = M1284_COMPAT /\ UNCHANGED <<fast, kfast>>
      BY <1>2 DEF Negotiate
    <3> QED
      BY <2>2, <3>1, ModesKnown
  <2> QED
    BY <1>2, <2>1, <2>2 DEF Negotiate
<1>3. ASSUME NEW t \in Timeouts \cup {NoTime}, SetTimeout(t) PROVE CacheIsKernel'
  BY <1>3 DEF SetTimeout
<1>4. CASE DoNonblock
  BY <1>4 DEF DoNonblock
<1>5. CASE SetMode
  BY <1>5, WantedKnown DEF SetMode
<1>6. CASE SetFlags
  BY <1>6 DEF SetFlags, Proceed
<1>7. CASE Io
  BY <1>7 DEF Io
<1>8. CASE Terminate
  BY <1>8, ModesKnown DEF Terminate
<1>9. CASE Reopen
  BY <1>9, ModesKnown DEF Reopen
<1>10. CASE RestoreTimeout
  BY <1>10 DEF RestoreTimeout
<1>11. ASSUME NEW ct \in Controls, WriteControl(ct) PROVE CacheIsKernel'
  BY <1>11 DEF WriteControl
<1>12. ASSUME NEW b \in Controls, NEW a \in Controls, ClearIrq(b, a) PROVE CacheIsKernel'
  BY <1>12 DEF ClearIrq
<1>13. CASE Arm
  BY <1>13 DEF Arm
<1>14. CASE WriteBefore
  BY <1>14 DEF WriteBefore
<1>15. CASE Select
  BY <1>15 DEF Select
<1>16. CASE Interrupt
  BY <1>16 DEF Interrupt
<1>17. CASE UNCHANGED vars
  BY <1>17 DEF vars
<1> QED
  BY <1>1, <1>2, <1>3, <1>4, <1>5, <1>6, <1>7, <1>8, <1>9,
     <1>10, <1>11, <1>12, <1>13, <1>14, <1>15, <1>16, <1>17 DEF Next

\* Every step of a block transfer establishes what the next one rests on.
LEMMA TransferStep == TypeOK /\ CacheIsKernel /\ TransferInv /\ [Next]_vars => TransferInv'
<1> SUFFICES ASSUME TypeOK, CacheIsKernel, TransferInv, [Next]_vars PROVE TransferInv'
  OBVIOUS
<1> USE DEF TransferInv, CacheIsKernel, WantsFast, Wanted, ModeFlags, library, kernel, timing, handshake, wires, AllReturn
<1>1. ASSUME NEW c \in BlockTransfers, NEW fl \in FlagSets, BlockTransfer(c, fl) PROVE TransferInv'
  BY <1>1 DEF BlockTransfer
<1>2. ASSUME NEW m \in Negotiated, Negotiate(m) PROVE TransferInv'
  BY <1>2 DEF Negotiate
<1>3. ASSUME NEW t \in Timeouts \cup {NoTime}, SetTimeout(t) PROVE TransferInv'
  BY <1>3 DEF SetTimeout
<1>4. CASE DoNonblock
  BY <1>4 DEF DoNonblock
<1>5. CASE SetMode
  BY <1>5, WantedKnown DEF SetMode, TranslateErrorCode, E1284_OK, E1284_SYS, Failed, EAGAIN
<1>6. CASE SetFlags
  BY <1>6 DEF SetFlags, Proceed, TranslateErrorCode, E1284_OK, E1284_SYS, Failed, EAGAIN
<1>7. CASE Io
  BY <1>7 DEF Io
<1>8. CASE Terminate
  BY <1>8 DEF Terminate
<1>9. CASE Reopen
  BY <1>9 DEF Reopen
<1>10. CASE RestoreTimeout
  BY <1>10 DEF RestoreTimeout
<1>11. ASSUME NEW ct \in Controls, WriteControl(ct) PROVE TransferInv'
  BY <1>11 DEF WriteControl
<1>12. ASSUME NEW b \in Controls, NEW a \in Controls, ClearIrq(b, a) PROVE TransferInv'
  BY <1>12 DEF ClearIrq
<1>13. CASE Arm
  BY <1>13 DEF Arm
<1>14. CASE WriteBefore
  BY <1>14 DEF WriteBefore
<1>15. CASE Select
  BY <1>15 DEF Select
<1>16. CASE Interrupt
  BY <1>16 DEF Interrupt
<1>17. CASE UNCHANGED vars
  BY <1>17 DEF vars
<1> QED
  BY <1>1, <1>2, <1>3, <1>4, <1>5, <1>6, <1>7, <1>8, <1>9,
     <1>10, <1>11, <1>12, <1>13, <1>14, <1>15, <1>16, <1>17 DEF Next

\* Every step keeps the handshake's account of interrupts.
LEMMA HandshakeStep == TypeOK /\ HandshakeInv /\ [Next]_vars => HandshakeInv'
<1> SUFFICES ASSUME TypeOK, HandshakeInv, [Next]_vars PROVE HandshakeInv'
  OBVIOUS
<1> USE DEF TypeOK, HandshakeInv, library, kernel, timing, handshake, wires, AllReturn
<1>1. ASSUME NEW c \in BlockTransfers, NEW fl \in FlagSets, BlockTransfer(c, fl) PROVE HandshakeInv'
  BY <1>1 DEF BlockTransfer
<1>2. ASSUME NEW m \in Negotiated, Negotiate(m) PROVE HandshakeInv'
  BY <1>2 DEF Negotiate
<1>3. ASSUME NEW t \in Timeouts \cup {NoTime}, SetTimeout(t) PROVE HandshakeInv'
  BY <1>3 DEF SetTimeout
<1>4. CASE DoNonblock
  BY <1>4 DEF DoNonblock
<1>5. CASE SetMode
  BY <1>5 DEF SetMode
<1>6. CASE SetFlags
  BY <1>6 DEF SetFlags, Proceed
<1>7. CASE Io
  BY <1>7 DEF Io
<1>8. CASE Terminate
  BY <1>8 DEF Terminate
<1>9. CASE Reopen
  BY <1>9 DEF Reopen
<1>10. CASE RestoreTimeout
  BY <1>10 DEF RestoreTimeout
<1>11. ASSUME NEW ct \in Controls, WriteControl(ct) PROVE HandshakeInv'
  BY <1>11 DEF WriteControl
<1>12. ASSUME NEW b \in Controls, NEW a \in Controls, ClearIrq(b, a) PROVE HandshakeInv'
  BY <1>12 DEF ClearIrq
<1>13. CASE Arm
  BY <1>13 DEF Arm
<1>14. CASE WriteBefore
  BY <1>14 DEF WriteBefore
<1>15. CASE Select
  BY <1>15 DEF Select
<1>16. CASE Interrupt
  <2>1. irqs' = irqs + 1 /\ seen' = seen + 1 /\ pc' = pc
    BY <1>16 DEF Interrupt
  <2>2. irqs' # 0
    BY <2>1
  <2>3. pc \in {"arm", "write"} => early'
    BY <1>16 DEF Interrupt
  <2>4. early => early'
    BY <1>16 DEF Interrupt
  <2>5. lines' = (IF armed THEN LinesOf(onirq) ELSE lines) /\ after' = after
    BY <1>16 DEF Interrupt
  <2>6. ~armed'
    BY <1>16 DEF Interrupt
  <2>7. pc = "select" /\ ~early => lines' = LinesOf(after')
    <3>1. ASSUME pc = "select", ~early PROVE lines' = LinesOf(after)
      <4>1. CASE irqs = 0
        BY <3>1, <2>5, <4>1
      <4>2. CASE irqs # 0
        BY <3>1, <2>5, <4>2
      <4> QED
        BY <4>1, <4>2
    <3> QED
      BY <3>1, <2>5
  <2> QED
    BY <2>1, <2>2, <2>3, <2>4, <2>6, <2>7
<1>17. CASE UNCHANGED vars
  BY <1>17 DEF vars
<1> QED
  BY <1>1, <1>2, <1>3, <1>4, <1>5, <1>6, <1>7, <1>8, <1>9,
     <1>10, <1>11, <1>12, <1>13, <1>14, <1>15, <1>16, <1>17 DEF Next

-----------------------------------------------------------------------------

\* The invariant holds in every reachable state.
THEOREM Invariance == Spec => [](TypeOK /\ CacheIsKernel /\ TransferInv /\ HandshakeInv)
<1>1. TypeOK /\ CacheIsKernel /\ TransferInv /\ HandshakeInv /\ [Next]_vars =>
        (TypeOK /\ CacheIsKernel /\ TransferInv /\ HandshakeInv)'
  BY TypeStep, CacheStep, TransferStep, HandshakeStep
<1> QED
  BY InitInv, <1>1, PTL DEF Spec

\* Every variable of library and kernel stays in range: a mode of the kernel is one of
\* its own, or the error code that negotiate passed on.
THEOREM TypeCorrect == Spec => []TypeOK
  BY Invariance, PTL

\* The library's records of mode and flags are the kernel's, always.
THEOREM RecordsAreTrue == Spec => []CacheIsKernel
  BY Invariance, PTL

\* A block transfer moves data only as it was called.
THEOREM TransfersAsAsked == Spec => []TransferAsAsked
<1>1. TransferInv => TransferAsAsked
  BY DEF TransferInv, TransferAsAsked
<1> QED
  BY <1>1, Invariance, PTL

\* A successful handshake had an interrupt after it cleared the count.
THEOREM InterruptIsOwn == Spec => NoStaleInterrupt
<1>1. TypeOK /\ HandshakeInv /\ [Next]_vars => [HandshakeSucceeds => seen > 0]_vars
  <2> SUFFICES ASSUME HandshakeInv, Next, HandshakeSucceeds PROVE seen > 0
    BY DEF vars
  <2>1. CASE Select
    BY <2>1 DEF HandshakeInv, HandshakeSucceeds, Select, AllReturn, E1284_OK, E1284_TIMEDOUT, E1284_NOTAVAIL
  <2>2. CASE ~Select
    BY <2>2 DEF HandshakeSucceeds, Next, BlockTransfer, DoNonblock, SetMode, SetFlags, Io, Negotiate,
           Terminate, Reopen, SetTimeout, RestoreTimeout, WriteControl, ClearIrq, Arm, WriteBefore, Interrupt
  <2> QED
    BY <2>1, <2>2
<1> QED
  BY <1>1, Invariance, PTL DEF Spec, NoStaleInterrupt

\* Unless an interrupt came before ct_before was on the lines, they are what the kernel
\* makes of ct_after when the handshake succeeds.
THEOREM HandshakeEnds == Spec => HandshakeCompletes
<1>1. TypeOK /\ HandshakeInv /\ [Next]_vars => [HandshakeSucceeds /\ ~early => lines = LinesOf(after)]_vars
  <2> SUFFICES ASSUME HandshakeInv, Next, HandshakeSucceeds, ~early PROVE lines = LinesOf(after)
    BY DEF vars
  <2>1. CASE Select
    BY <2>1 DEF HandshakeInv, HandshakeSucceeds, Select, AllReturn, E1284_OK, E1284_TIMEDOUT, E1284_NOTAVAIL
  <2>2. CASE ~Select
    BY <2>2 DEF HandshakeSucceeds, Next, BlockTransfer, DoNonblock, SetMode, SetFlags, Io, Negotiate,
           Terminate, Reopen, SetTimeout, RestoreTimeout, WriteControl, ClearIrq, Arm, WriteBefore, Interrupt
  <2> QED
    BY <2>1, <2>2
<1> QED
  BY <1>1, Invariance, PTL DEF Spec, HandshakeCompletes

=============================================================================
