------------------------- MODULE PortLifecycleProofs -------------------------
(***************************************************************************)
(* Proofs about PortLifecycle, for any set of processes, any methods and   *)
(* any bound on the references an application takes.                       *)
(***************************************************************************)
EXTENDS PortLifecycle, TLAPS

-----------------------------------------------------------------------------
(* The inductive invariant: the types, and what holds of each process. *)

RefCounted(p) == ref[p] = Count(listed[p]) + held[p] + Count(opened[p])

Detecting == {"fp_claiming", "fp_loaded"}
Opening == {"op_claiming", "op_modes"}

\* A struct that does not exist has no references, no file, and no call but the
\* find_ports that will build it.
GoneIsClean(p) == ~alive[p] =>
  /\ ~listed[p] /\ held[p] = 0 /\ ~opened[p] /\ pc[p] \in {"idle"} \cup Detecting

\* priv->fd is a file exactly while the port is open, or is being opened, with a
\* method that has one.
FdTracksOpen(p) == fd[p] <=> (opened[p] \/ pc[p] \in Opening) /\ type[p] # "io"

\* The kernel's claim is known to the library.
OwnerKnown(p) == owner = p =>
  pc[p] \in Looking \/ (opened[p] /\ claimed[p] /\ Exclusive(p))

\* What a call in progress may rely on between two of its steps.
CallInv(p) ==
  /\ pc[p] = "gd_open" => Entitled(p)
  /\ pc[p] \in Detecting => ~alive[p]
  /\ pc[p] \in Opening => Entitled(p) /\ ~opened[p] /\ Exclusive(p)
  /\ pc[p] \in Looking => owner = p
  /\ pc[p] \in {"gd_claim", "gd_fresh", "gd_release", "gd_close"} => opened[p]
  /\ pc[p] \in {"claiming", "gd_claiming"} => opened[p] /\ ~claimed[p] /\ Exclusive(p)
  /\ pc[p] \in {"gd_fresh", "gd_release"} => claimed[p]
  /\ pc[p] = "gd_close" => ~claimed[p]

\* get_deviceid only proceeds when it opened the port itself, and nothing else
\* happens to the struct meanwhile.
EntryInv(p) ==
  /\ pc[p] = "gd_open" => entry[p] = [opened |-> opened[p], ref |-> ref[p]]
  /\ pc[p] \in {"gd_claim", "gd_claiming", "gd_fresh", "gd_release", "gd_close"} =>
       entry[p] = [opened |-> FALSE, ref |-> ref[p] - 1]

PortInv(p) ==
  /\ RefCounted(p) /\ GoneIsClean(p) /\ FdTracksOpen(p)
  /\ OwnerKnown(p) /\ CallInv(p) /\ EntryInv(p)

IInv == TypeOK /\ \A p \in Procs : PortInv(p)

USE DEF AddPort, Drop, Init1284, Opened, Detecting, Opening, Looking

\* With applications that release before they close, a claim never outlives the
\* opening it was made in, and on the exclusive method it is the kernel's.
ClaimInv == \A p \in Procs : alive[p] /\ claimed[p] =>
  /\ opened[p]
  /\ Exclusive(p) => owner = p

-----------------------------------------------------------------------------
LEMMA InitInv == Init => IInv
BY MethodsAssumption, BoundAssumption, NoneAssumption
   DEF Init, IInv, PortInv, TypeOK, RefCounted, GoneIsClean, FdTracksOpen, OwnerKnown,
       CallInv, EntryInv, Count, Labels, Entitled, Exclusive

LEMMA LastTriedType == \A p \in Procs : LastTried(p) \in AccessMethods
BY DEF LastTried, AccessMethods

\* What a step leaves alone of process q.
Same(q) ==
  /\ alive'[q] = alive[q] /\ opened'[q] = opened[q] /\ claimed'[q] = claimed[q]
  /\ ref'[q] = ref[q] /\ type'[q] = type[q] /\ fd'[q] = fd[q]
  /\ listed'[q] = listed[q] /\ held'[q] = held[q]
  /\ pc'[q] = pc[q] /\ entry'[q] = entry[q]

\* A step of process p changes nothing of the others, and the kernel's owner
\* only from or to p or None.
StepOf(p) ==
  /\ \A q \in Procs \ {p} : Same(q)
  /\ owner' # owner => owner \in {p, None} /\ owner' \in {p, None}

\* So the invariant has to be looked at for p alone.
LEMMA Locality ==
  ASSUME IInv, TypeOK', NEW p \in Procs, StepOf(p), PortInv(p)'
  PROVE  IInv'
<1>1. ASSUME NEW q \in Procs \ {p} PROVE PortInv(q)'
  <2>1. Same(q) /\ PortInv(q)
    BY DEF StepOf, IInv
  <2>2. (owner' = q) => (owner = q)
    BY NoneAssumption DEF StepOf
  <2>3. RefCounted(q)' /\ GoneIsClean(q)' /\ FdTracksOpen(q)'
    BY <2>1 DEF Same, PortInv, RefCounted, GoneIsClean, FdTracksOpen
  <2>4. OwnerKnown(q)'
    BY <2>1, <2>2 DEF Same, PortInv, OwnerKnown, Exclusive
  <2>5. CallInv(q)'
    BY <2>1, NoneAssumption DEF StepOf, Same, PortInv, CallInv, Entitled, Exclusive
  <2>6. EntryInv(q)'
    BY <2>1 DEF Same, PortInv, EntryInv
  <2>7. QED
    BY <2>3, <2>4, <2>5, <2>6 DEF PortInv
<1>2. QED
  BY <1>1 DEF IInv

\* One action at a time: every step of the library, of an application or of the
\* kernel keeps the invariant.
LEMMA StepInv == IInv /\ [Next]_vars => IInv'
<1> SUFFICES ASSUME IInv, [Next]_vars PROVE IInv'
  OBVIOUS
<1> USE MethodsAssumption, BoundAssumption, NoneAssumption
<1>1. CASE UNCHANGED vars
  <2>1. TypeOK' /\ \A p \in Procs : PortInv(p)'
    BY <1>1 DEF IInv, vars, TypeOK, PortInv, RefCounted, GoneIsClean, FdTracksOpen,
       OwnerKnown, CallInv, EntryInv, Entitled, Exclusive
  <2>2. QED
    BY <2>1 DEF IInv
<1>2. CASE Next
  <2> PICK p \in Procs :
        AppCall(p) \/ ClaimGranted(p) \/ ClaimError(p) \/ LibStep(p) \/ Exit(p)
    BY <1>2 DEF Next
  <2>0. TypeOK /\ PortInv(p)
    BY DEF IInv
  <2>1. CASE FindPorts(p)
    <3>1. TypeOK'
      <4>1. CASE AddPort(p) /\ UNCHANGED <<owner, pc>>
        BY <2>0, <2>1, <4>1 DEF TypeOK, FindPorts
      <4>2. CASE ~(AddPort(p) /\ UNCHANGED <<owner, pc>>)
        <5> HIDE DEF AddPort
        <5>1. /\ UNCHANGED <<alive, opened, claimed, ref, type, fd, owner, listed, held, entry>>
              /\ pc' = [pc EXCEPT ![p] = "fp_claiming"] /\ detected' = [detected EXCEPT ![p] = TRUE]
          BY <2>1, <4>2 DEF FindPorts, Goto
        <5> QED
          BY <2>0, <5>1 DEF TypeOK, Labels
      <4> QED
        BY <4>1, <4>2
    <3>2. StepOf(p)
      BY <2>0, <2>1 DEF TypeOK, StepOf, Same, MayCall, Goto, FindPorts, AccessMethods
    <3>3. (RefCounted(p) /\ GoneIsClean(p) /\ FdTracksOpen(p) /\ OwnerKnown(p))'
      BY <2>0, <2>1 DEF TypeOK, PortInv, RefCounted, GoneIsClean, FdTracksOpen,
         OwnerKnown, CallInv, Count, Entitled, Exclusive, MayCall, Goto, FindPorts, AccessMethods
    <3>4. CallInv(p)'
      BY <2>0, <2>1 DEF TypeOK, PortInv, RefCounted, GoneIsClean, CallInv, Count,
         Entitled, Exclusive, MayCall, Goto, FindPorts, AccessMethods
    <3>5. EntryInv(p)'
      BY <2>0, <2>1 DEF TypeOK, PortInv, EntryInv, MayCall, Goto, FindPorts, AccessMethods
    <3>6. QED
      BY <3>1, <3>2, <3>3, <3>4, <3>5, Locality DEF PortInv
  <2>2. CASE FreePorts(p)
    <3>0. ref[p] - 1 \in Nat
      BY <2>0, <2>2 DEF TypeOK, PortInv, RefCounted, CallInv, Count, MayCall,
         Goto, Entitled, FreePorts, Deref
    <3>1. TypeOK'
      BY <2>0, <2>2, <3>0 DEF TypeOK, Labels, MayCall, Goto, FreePorts, Deref
    <3>2. StepOf(p)
      BY <2>0, <2>2 DEF TypeOK, StepOf, Same, MayCall, Goto, FreePorts, Deref
    <3>7. /\ pc[p] = "idle" /\ listed[p] /\ ref'[p] = ref[p] - 1 /\ ~listed'[p]
          /\ (alive'[p] <=> ref[p] # 1)
          /\ UNCHANGED <<opened, claimed, type, fd, owner, held, pc>>
      BY <2>0, <2>2 DEF TypeOK, MayCall, FreePorts, Deref
    <3>3. (RefCounted(p) /\ GoneIsClean(p) /\ FdTracksOpen(p) /\ OwnerKnown(p))'
      <4>1. ref[p] = 1 + held[p] + Count(opened[p]) /\ held[p] \in Nat
        BY <2>0, <3>7 DEF TypeOK, PortInv, RefCounted, Count
      <4>2. ref[p] - 1 = 0 + held[p] + Count(opened[p])
        BY <4>1 DEF Count
      <4>3. RefCounted(p)'
        BY <3>7, <4>2 DEF RefCounted, Count
      <4>4. ref[p] = 1 => held[p] = 0 /\ ~opened[p]
        BY <4>1 DEF Count
      <4>5. GoneIsClean(p)'
        BY <3>7, <4>4 DEF GoneIsClean
      <4> QED
        BY <2>0, <3>7, <4>3, <4>5 DEF PortInv, FdTracksOpen, OwnerKnown, Exclusive
    <3>4. CallInv(p)'
      BY <2>0, <2>2 DEF TypeOK, PortInv, RefCounted, GoneIsClean, CallInv, Count,
         Entitled, Exclusive, MayCall, Goto, FreePorts, Deref
    <3>5. EntryInv(p)'
      BY <2>0, <2>2 DEF TypeOK, PortInv, EntryInv, MayCall, Goto, FreePorts, Deref
    <3>6. QED
      BY <3>1, <3>2, <3>3, <3>4, <3>5, Locality DEF PortInv
  <2>3. CASE Ref(p)
    <3>1. TypeOK'
      BY <2>0, <2>3 DEF TypeOK, Labels, MayCall, Goto, Ref
    <3>2. StepOf(p)
      BY <2>0, <2>3 DEF TypeOK, StepOf, Same, MayCall, Goto, Ref
    <3>3. (RefCounted(p) /\ GoneIsClean(p) /\ FdTracksOpen(p) /\ OwnerKnown(p))'
      BY <2>0, <2>3 DEF TypeOK, PortInv, RefCounted, GoneIsClean, FdTracksOpen,
         OwnerKnown, CallInv, Count, Entitled, Exclusive, MayCall, Goto, Ref
    <3>4. CallInv(p)'
      BY <2>0, <2>3 DEF TypeOK, PortInv, RefCounted, GoneIsClean, CallInv, Count,
         Entitled, Exclusive, MayCall, Goto, Ref
    <3>5. EntryInv(p)'
      BY <2>0, <2>3 DEF TypeOK, PortInv, EntryInv, MayCall, Goto, Ref
    <3>6. QED
      BY <3>1, <3>2, <3>3, <3>4, <3>5, Locality DEF PortInv
  <2>4. CASE Unref(p)
    <3>0. ref[p] - 1 \in Nat
      BY <2>0, <2>4 DEF TypeOK, PortInv, RefCounted, CallInv, Count, MayCall,
         Goto, Entitled, Unref, Deref
    <3>1. TypeOK'
      BY <2>0, <2>4, <3>0 DEF TypeOK, Labels, MayCall, Goto, Unref, Deref
    <3>2. StepOf(p)
      BY <2>0, <2>4 DEF TypeOK, StepOf, Same, MayCall, Goto, Unref, Deref
    <3>3. (RefCounted(p) /\ GoneIsClean(p) /\ FdTracksOpen(p) /\ OwnerKnown(p))'
      BY <2>0, <2>4 DEF TypeOK, PortInv, RefCounted, GoneIsClean, FdTracksOpen,
         OwnerKnown, CallInv, Count, Entitled, Exclusive, MayCall, Goto, Unref, Deref
    <3>4. CallInv(p)'
      BY <2>0, <2>4 DEF TypeOK, PortInv, RefCounted, GoneIsClean, CallInv, Count,
         Entitled, Exclusive, MayCall, Goto, Unref, Deref
    <3>5. EntryInv(p)'
      BY <2>0, <2>4 DEF TypeOK, PortInv, EntryInv, MayCall, Goto, Unref, Deref
    <3>6. QED
      BY <3>1, <3>2, <3>3, <3>4, <3>5, Locality DEF PortInv
  <2>5. CASE UnrefLast(p)
    <3>0. ref[p] - 1 \in Nat
      BY <2>0, <2>5 DEF TypeOK, PortInv, RefCounted, CallInv, Count, MayCall,
         Goto, Entitled, UnrefLast, CloseEffect, Cleanup, Deref
    <3>1. TypeOK'
      BY <2>0, <2>5, <3>0 DEF TypeOK, Labels, MayCall, Goto, UnrefLast, CloseEffect, Cleanup, Deref
    <3>2. StepOf(p)
      BY <2>0, <2>5 DEF TypeOK, StepOf, Same, MayCall, Goto, UnrefLast, CloseEffect, Cleanup, Deref
    <3>3. (RefCounted(p) /\ GoneIsClean(p) /\ FdTracksOpen(p) /\ OwnerKnown(p))'
      BY <2>0, <2>5 DEF TypeOK, PortInv, RefCounted, GoneIsClean, FdTracksOpen,
         OwnerKnown, CallInv, Count, Entitled, Exclusive, MayCall, Goto, UnrefLast, CloseEffect, Cleanup, Deref
    <3>4. CallInv(p)'
      BY <2>0, <2>5 DEF TypeOK, PortInv, RefCounted, GoneIsClean, CallInv, Count,
         Entitled, Exclusive, MayCall, Goto, UnrefLast, CloseEffect, Cleanup, Deref
    <3>5. EntryInv(p)'
      BY <2>0, <2>5 DEF TypeOK, PortInv, EntryInv, MayCall, Goto, UnrefLast, CloseEffect, Cleanup, Deref
    <3>6. QED
      BY <3>1, <3>2, <3>3, <3>4, <3>5, Locality DEF PortInv
  <2>6. CASE Open(p)
    <3>1. CASE OpenFails(p) /\ UNCHANGED <<pc, listed, held, entry, detected>>
      <4>1. TypeOK'
        BY <2>0, <2>6, <3>1, LastTriedType DEF TypeOK, Labels, MayCall, Goto, Open, OpenFails
      <4>2. StepOf(p)
        BY <2>0, <2>6, <3>1, LastTriedType DEF TypeOK, StepOf, Same, MayCall, Goto, Open, OpenFails
      <4>3. (RefCounted(p) /\ GoneIsClean(p) /\ FdTracksOpen(p) /\ OwnerKnown(p))'
        BY <2>0, <2>6, <3>1, LastTriedType DEF TypeOK, PortInv, RefCounted, GoneIsClean, FdTracksOpen,
           OwnerKnown, CallInv, Count, Entitled, Exclusive, MayCall, Goto, Open, OpenFails
      <4>4. CallInv(p)'
        BY <2>0, <2>6, <3>1, LastTriedType DEF TypeOK, PortInv, RefCounted, GoneIsClean, CallInv, Count,
           Entitled, Exclusive, MayCall, Goto, Open, OpenFails
      <4>5. EntryInv(p)'
        BY <2>0, <2>6, <3>1, LastTriedType DEF TypeOK, PortInv, EntryInv, MayCall, Goto, Open, OpenFails
      <4>6. QED
        BY <4>1, <4>2, <4>3, <4>4, <4>5, Locality DEF PortInv
    <3>2. ASSUME NEW m \in AccessMethods, NEW excl \in BOOLEAN, OpenOK(p, m, excl), UNCHANGED pc
          PROVE  IInv'
      <4>1. TypeOK'
        BY <2>0, <2>6, <3>2 DEF TypeOK, Labels, MayCall, Goto, Open, OpenOK
      <4>2. StepOf(p)
        BY <2>0, <2>6, <3>2 DEF TypeOK, StepOf, Same, MayCall, Goto, Open, OpenOK
      <4>3. (RefCounted(p) /\ GoneIsClean(p) /\ FdTracksOpen(p) /\ OwnerKnown(p))'
        BY <2>0, <2>6, <3>2 DEF TypeOK, PortInv, RefCounted, GoneIsClean, FdTracksOpen,
           OwnerKnown, CallInv, Count, Entitled, Exclusive, MayCall, Goto, Open, OpenOK
      <4>4. CallInv(p)'
        BY <2>0, <2>6, <3>2 DEF TypeOK, PortInv, RefCounted, GoneIsClean, CallInv, Count,
           Entitled, Exclusive, MayCall, Goto, Open, OpenOK
      <4>5. EntryInv(p)'
        BY <2>0, <2>6, <3>2 DEF TypeOK, PortInv, EntryInv, MayCall, Goto, Open, OpenOK
      <4>6. QED
        BY <4>1, <4>2, <4>3, <4>4, <4>5, Locality DEF PortInv
    <3>3. ASSUME NEW excl \in BOOLEAN, OpenAsks(p, excl)
          PROVE  IInv'
      <4>1. TypeOK'
        BY <2>0, <2>6, <3>3 DEF Open, MayCall, AccessMethods, TypeOK, Labels, Goto, OpenAsks
      <4>2. StepOf(p)
        BY <2>0, <2>6, <3>3 DEF Open, MayCall, AccessMethods, TypeOK, StepOf, Same, Goto, OpenAsks
      <4>3. (RefCounted(p) /\ GoneIsClean(p) /\ FdTracksOpen(p) /\ OwnerKnown(p))'
        BY <2>0, <2>6, <3>3 DEF Open, MayCall, AccessMethods, TypeOK, PortInv, RefCounted, GoneIsClean, FdTracksOpen,
           OwnerKnown, CallInv, Count, Entitled, Exclusive, Goto, OpenAsks
      <4>4. CallInv(p)'
        BY <2>0, <2>6, <3>3 DEF Open, MayCall, AccessMethods, TypeOK, PortInv, RefCounted, GoneIsClean, CallInv, Count,
           Entitled, Exclusive, Goto, OpenAsks
      <4>5. EntryInv(p)'
        BY <2>0, <2>6, <3>3 DEF Open, MayCall, AccessMethods, TypeOK, PortInv, EntryInv, Goto, OpenAsks
      <4>6. QED
        BY <4>1, <4>2, <4>3, <4>4, <4>5, Locality DEF PortInv
    <3>4. QED
      BY <2>6, <3>1, <3>2, <3>3 DEF Open
  <2>7. CASE Close(p)
    <3>0. ref[p] - 1 \in Nat
      BY <2>0, <2>7 DEF TypeOK, PortInv, RefCounted, CallInv, Count, MayCall,
         Goto, Entitled, Close, CloseEffect, Cleanup, Deref
    <3>1. TypeOK'
      BY <2>0, <2>7, <3>0 DEF TypeOK, Labels, MayCall, Goto, Close, CloseEffect, Cleanup, Deref
    <3>2. StepOf(p)
      BY <2>0, <2>7 DEF TypeOK, StepOf, Same, MayCall, Goto, Close, CloseEffect, Cleanup, Deref
    <3>3. (RefCounted(p) /\ GoneIsClean(p) /\ FdTracksOpen(p) /\ OwnerKnown(p))'
      BY <2>0, <2>7 DEF TypeOK, PortInv, RefCounted, GoneIsClean, FdTracksOpen,
         OwnerKnown, CallInv, Count, Entitled, Exclusive, MayCall, Goto, Close, CloseEffect, Cleanup, Deref
    <3>4. CallInv(p)'
      BY <2>0, <2>7 DEF TypeOK, PortInv, RefCounted, GoneIsClean, CallInv, Count,
         Entitled, Exclusive, MayCall, Goto, Close, CloseEffect, Cleanup, Deref
    <3>5. EntryInv(p)'
      BY <2>0, <2>7 DEF TypeOK, PortInv, EntryInv, MayCall, Goto, Close, CloseEffect, Cleanup, Deref
    <3>6. QED
      BY <3>1, <3>2, <3>3, <3>4, <3>5, Locality DEF PortInv
  <2>8. CASE Claim(p)
    <3>1. TypeOK'
      BY <2>0, <2>8 DEF TypeOK, Labels, MayCall, Goto, Claim, ClaimCall
    <3>2. StepOf(p)
      BY <2>0, <2>8 DEF TypeOK, StepOf, Same, MayCall, Goto, Claim, ClaimCall
    <3>3. (RefCounted(p) /\ GoneIsClean(p) /\ FdTracksOpen(p) /\ OwnerKnown(p))'
      BY <2>0, <2>8 DEF TypeOK, PortInv, RefCounted, GoneIsClean, FdTracksOpen,
         OwnerKnown, CallInv, Count, Entitled, Exclusive, MayCall, Goto, Claim, ClaimCall
    <3>4. CallInv(p)'
      BY <2>0, <2>8 DEF TypeOK, PortInv, RefCounted, GoneIsClean, CallInv, Count,
         Entitled, Exclusive, MayCall, Goto, Claim, ClaimCall
    <3>5. EntryInv(p)'
      BY <2>0, <2>8 DEF TypeOK, PortInv, EntryInv, MayCall, Goto, Claim, ClaimCall
    <3>6. QED
      BY <3>1, <3>2, <3>3, <3>4, <3>5, Locality DEF PortInv
  <2>9. CASE Release(p)
    <3>1. TypeOK'
      BY <2>0, <2>9 DEF TypeOK, Labels, MayCall, Goto, Release, ReleaseEffect
    <3>2. StepOf(p)
      BY <2>0, <2>9 DEF TypeOK, StepOf, Same, MayCall, Goto, Release, ReleaseEffect
    <3>3. (RefCounted(p) /\ GoneIsClean(p) /\ FdTracksOpen(p) /\ OwnerKnown(p))'
      BY <2>0, <2>9 DEF TypeOK, PortInv, RefCounted, GoneIsClean, FdTracksOpen,
         OwnerKnown, CallInv, Count, Entitled, Exclusive, MayCall, Goto, Release, ReleaseEffect
    <3>4. CallInv(p)'
      BY <2>0, <2>9 DEF TypeOK, PortInv, RefCounted, GoneIsClean, CallInv, Count,
         Entitled, Exclusive, MayCall, Goto, Release, ReleaseEffect
    <3>5. EntryInv(p)'
      BY <2>0, <2>9 DEF TypeOK, PortInv, EntryInv, MayCall, Goto, Release, ReleaseEffect
    <3>6. QED
      BY <3>1, <3>2, <3>3, <3>4, <3>5, Locality DEF PortInv
  <2>10. CASE GetDeviceid(p)
    <3>1. TypeOK'
      BY <2>0, <2>10 DEF TypeOK, Labels, MayCall, Goto, GetDeviceid
    <3>2. StepOf(p)
      BY <2>0, <2>10 DEF TypeOK, StepOf, Same, MayCall, Goto, GetDeviceid
    <3>3. (RefCounted(p) /\ GoneIsClean(p) /\ FdTracksOpen(p) /\ OwnerKnown(p))'
      BY <2>0, <2>10 DEF TypeOK, PortInv, RefCounted, GoneIsClean, FdTracksOpen,
         OwnerKnown, CallInv, Count, Entitled, Exclusive, MayCall, Goto, GetDeviceid
    <3>4. CallInv(p)'
      BY <2>0, <2>10 DEF TypeOK, PortInv, RefCounted, GoneIsClean, CallInv, Count,
         Entitled, Exclusive, MayCall, Goto, GetDeviceid
    <3>5. EntryInv(p)'
      BY <2>0, <2>10 DEF TypeOK, PortInv, EntryInv, MayCall, Goto, GetDeviceid
    <3>6. QED
      BY <3>1, <3>2, <3>3, <3>4, <3>5, Locality DEF PortInv
  <2>11. CASE ClaimGranted(p)
    <3>1. TypeOK'
      BY <2>0, <2>11 DEF TypeOK, Labels, MayCall, Goto, ClaimGranted
    <3>2. StepOf(p)
      BY <2>0, <2>11 DEF TypeOK, StepOf, Same, MayCall, Goto, ClaimGranted
    <3>3. (RefCounted(p) /\ GoneIsClean(p) /\ FdTracksOpen(p) /\ OwnerKnown(p))'
      BY <2>0, <2>11 DEF TypeOK, PortInv, RefCounted, GoneIsClean, FdTracksOpen,
         OwnerKnown, CallInv, Count, Entitled, Exclusive, MayCall, Goto, ClaimGranted
    <3>4. CallInv(p)'
      BY <2>0, <2>11 DEF TypeOK, PortInv, RefCounted, GoneIsClean, CallInv, Count,
         Entitled, Exclusive, MayCall, Goto, ClaimGranted
    <3>5. EntryInv(p)'
      BY <2>0, <2>11 DEF TypeOK, PortInv, EntryInv, MayCall, Goto, ClaimGranted
    <3>6. QED
      BY <3>1, <3>2, <3>3, <3>4, <3>5, Locality DEF PortInv
  <2>12. CASE ClaimError(p)
    <3>1. TypeOK'
      <4>1. CASE UNCHANGED <<alive, opened, claimed, ref, type, fd, listed, held, entry>>
        BY <2>0, <2>12, <4>1 DEF TypeOK, Labels, Goto, ClaimError
      <4>2. CASE Goto(p, "op_claiming", "idle") /\ Opened(p)
                 /\ UNCHANGED <<alive, claimed, type, fd, listed, held, entry>>
        BY <2>0, <2>12, <4>2 DEF TypeOK, Labels, Goto, ClaimError
      <4>3. CASE Goto(p, "fp_claiming", "idle") /\ AddPort(p)
        BY <2>0, <2>12, <4>3 DEF TypeOK, Labels, Goto, ClaimError
      <4> QED
        BY <2>12, <4>1, <4>2, <4>3 DEF ClaimError
    <3>2. StepOf(p)
      BY <2>0, <2>12 DEF TypeOK, StepOf, Same, MayCall, Goto, ClaimError
    <3>3. (RefCounted(p) /\ GoneIsClean(p) /\ FdTracksOpen(p) /\ OwnerKnown(p))'
      BY <2>0, <2>12 DEF TypeOK, PortInv, RefCounted, GoneIsClean, FdTracksOpen,
         OwnerKnown, CallInv, Count, Entitled, Exclusive, MayCall, Goto, ClaimError
    <3>4. CallInv(p)'
      BY <2>0, <2>12 DEF TypeOK, PortInv, RefCounted, GoneIsClean, CallInv, Count,
         Entitled, Exclusive, MayCall, Goto, ClaimError
    <3>5. EntryInv(p)'
      BY <2>0, <2>12 DEF TypeOK, PortInv, EntryInv, MayCall, Goto, ClaimError
    <3>6. QED
      BY <3>1, <3>2, <3>3, <3>4, <3>5, Locality DEF PortInv
  <2>13. CASE GdOpen(p)
    <3>1. CASE opened[p] /\ Goto(p, "gd_open", "idle")
               /\ UNCHANGED <<alive, opened, claimed, ref, type, fd, owner>>
      <4>1. TypeOK'
        BY <2>0, <2>13, <3>1 DEF TypeOK, Labels, MayCall, Goto, GdOpen
      <4>2. StepOf(p)
        BY <2>0, <2>13, <3>1 DEF TypeOK, StepOf, Same, MayCall, Goto, GdOpen
      <4>3. (RefCounted(p) /\ GoneIsClean(p) /\ FdTracksOpen(p) /\ OwnerKnown(p))'
        BY <2>0, <2>13, <3>1 DEF TypeOK, PortInv, RefCounted, GoneIsClean, FdTracksOpen,
           OwnerKnown, CallInv, Count, Entitled, Exclusive, MayCall, Goto, GdOpen
      <4>4. CallInv(p)'
        BY <2>0, <2>13, <3>1 DEF TypeOK, PortInv, RefCounted, GoneIsClean, CallInv, Count,
           Entitled, Exclusive, MayCall, Goto, GdOpen
      <4>5. EntryInv(p)'
        BY <2>0, <2>13, <3>1 DEF TypeOK, PortInv, EntryInv, MayCall, Goto, GdOpen
      <4>6. QED
        BY <4>1, <4>2, <4>3, <4>4, <4>5, Locality DEF PortInv
    <3>2. CASE OpenFails(p) /\ Goto(p, "gd_open", "idle")
      <4>1. TypeOK'
        BY <2>0, <2>13, <3>2, LastTriedType DEF TypeOK, Labels, MayCall, Goto, GdOpen, OpenFails
      <4>2. StepOf(p)
        BY <2>0, <2>13, <3>2, LastTriedType DEF TypeOK, StepOf, Same, MayCall, Goto, GdOpen, OpenFails
      <4>3. (RefCounted(p) /\ GoneIsClean(p) /\ FdTracksOpen(p) /\ OwnerKnown(p))'
        BY <2>0, <2>13, <3>2, LastTriedType DEF TypeOK, PortInv, RefCounted, GoneIsClean, FdTracksOpen,
           OwnerKnown, CallInv, Count, Entitled, Exclusive, MayCall, Goto, GdOpen, OpenFails
      <4>4. CallInv(p)'
        BY <2>0, <2>13, <3>2, LastTriedType DEF TypeOK, PortInv, RefCounted, GoneIsClean, CallInv, Count,
           Entitled, Exclusive, MayCall, Goto, GdOpen, OpenFails
      <4>5. EntryInv(p)'
        BY <2>0, <2>13, <3>2, LastTriedType DEF TypeOK, PortInv, EntryInv, MayCall, Goto, GdOpen, OpenFails
      <4>6. QED
        BY <4>1, <4>2, <4>3, <4>4, <4>5, Locality DEF PortInv
    <3>3. ASSUME NEW m \in AccessMethods, OpenOK(p, m, FALSE), Goto(p, "gd_open", "gd_claim")
          PROVE  IInv'
      <4>1. TypeOK'
        BY <2>0, <2>13, <3>3 DEF TypeOK, Labels, MayCall, Goto, GdOpen, OpenOK
      <4>2. StepOf(p)
        BY <2>0, <2>13, <3>3 DEF TypeOK, StepOf, Same, MayCall, Goto, GdOpen, OpenOK
      <4>3. (RefCounted(p) /\ GoneIsClean(p) /\ FdTracksOpen(p) /\ OwnerKnown(p))'
        BY <2>0, <2>13, <3>3 DEF TypeOK, PortInv, RefCounted, GoneIsClean, FdTracksOpen,
           OwnerKnown, CallInv, Count, Entitled, Exclusive, MayCall, Goto, GdOpen, OpenOK
      <4>4. CallInv(p)'
        BY <2>0, <2>13, <3>3 DEF TypeOK, PortInv, RefCounted, GoneIsClean, CallInv, Count,
           Entitled, Exclusive, MayCall, Goto, GdOpen, OpenOK
      <4>5. EntryInv(p)'
        BY <2>0, <2>13, <3>3 DEF TypeOK, PortInv, EntryInv, MayCall, Goto, GdOpen, OpenOK
      <4>6. QED
        BY <4>1, <4>2, <4>3, <4>4, <4>5, Locality DEF PortInv
    <3>4. QED
      BY <2>13, <3>1, <3>2, <3>3 DEF GdOpen
  <2>14. CASE GdClaim(p)
    <3>1. CASE ClaimCall(p, "gd_claim", "gd_claiming", "gd_fresh")
      <4>1. TypeOK'
        BY <2>0, <3>1 DEF TypeOK, Labels, MayCall, Goto, ClaimCall
      <4>2. StepOf(p)
        BY <2>0, <3>1 DEF TypeOK, StepOf, Same, MayCall, Goto, ClaimCall
      <4>3. (RefCounted(p) /\ GoneIsClean(p) /\ FdTracksOpen(p) /\ OwnerKnown(p))'
        BY <2>0, <3>1 DEF TypeOK, PortInv, RefCounted, GoneIsClean, FdTracksOpen,
           OwnerKnown, CallInv, Count, Entitled, Exclusive, MayCall, Goto, ClaimCall
      <4>4. CallInv(p)'
        BY <2>0, <3>1 DEF TypeOK, PortInv, RefCounted, GoneIsClean, CallInv, Count,
           Entitled, Exclusive, MayCall, Goto, ClaimCall
      <4>5. EntryInv(p)'
        BY <2>0, <3>1 DEF TypeOK, PortInv, EntryInv, MayCall, Goto, ClaimCall
      <4>6. QED
        BY <4>1, <4>2, <4>3, <4>4, <4>5, Locality DEF PortInv
    <3>2. CASE claimed[p] /\ Goto(p, "gd_claim", "idle")
               /\ UNCHANGED <<alive, opened, claimed, ref, type, fd, owner, listed, held, entry, detected>>
      <4>1. TypeOK'
        BY <2>0, <3>2 DEF TypeOK, Labels, MayCall, Goto, CallInv
      <4>2. StepOf(p)
        BY <2>0, <3>2 DEF TypeOK, StepOf, Same, MayCall, Goto, CallInv
      <4>3. (RefCounted(p) /\ GoneIsClean(p) /\ FdTracksOpen(p) /\ OwnerKnown(p))'
        BY <2>0, <3>2 DEF TypeOK, PortInv, RefCounted, GoneIsClean, FdTracksOpen,
           OwnerKnown, CallInv, Count, Entitled, Exclusive, MayCall, Goto, CallInv
      <4>4. CallInv(p)'
        BY <2>0, <3>2 DEF TypeOK, PortInv, RefCounted, GoneIsClean, CallInv, Count,
           Entitled, Exclusive, MayCall, Goto, CallInv
      <4>5. EntryInv(p)'
        BY <2>0, <3>2 DEF TypeOK, PortInv, EntryInv, MayCall, Goto, CallInv
      <4>6. QED
        BY <4>1, <4>2, <4>3, <4>4, <4>5, Locality DEF PortInv
    <3>3. QED
      BY <2>14, <3>1, <3>2 DEF GdClaim
  <2>15. CASE GdFresh(p)
    <3>1. TypeOK'
      BY <2>0, <2>15 DEF TypeOK, Labels, MayCall, Goto, GdFresh
    <3>2. StepOf(p)
      BY <2>0, <2>15 DEF TypeOK, StepOf, Same, MayCall, Goto, GdFresh
    <3>3. (RefCounted(p) /\ GoneIsClean(p) /\ FdTracksOpen(p) /\ OwnerKnown(p))'
      BY <2>0, <2>15 DEF TypeOK, PortInv, RefCounted, GoneIsClean, FdTracksOpen,
         OwnerKnown, CallInv, Count, Entitled, Exclusive, MayCall, Goto, GdFresh
    <3>4. CallInv(p)'
      BY <2>0, <2>15 DEF TypeOK, PortInv, RefCounted, GoneIsClean, CallInv, Count,
         Entitled, Exclusive, MayCall, Goto, GdFresh
    <3>5. EntryInv(p)'
      BY <2>0, <2>15 DEF TypeOK, PortInv, EntryInv, MayCall, Goto, GdFresh
    <3>6. QED
      BY <3>1, <3>2, <3>3, <3>4, <3>5, Locality DEF PortInv
  <2>16. CASE GdRelease(p)
    <3>1. TypeOK'
      BY <2>0, <2>16 DEF TypeOK, Labels, MayCall, Goto, GdRelease, ReleaseEffect
    <3>2. StepOf(p)
      BY <2>0, <2>16 DEF TypeOK, StepOf, Same, MayCall, Goto, GdRelease, ReleaseEffect
    <3>3. (RefCounted(p) /\ GoneIsClean(p) /\ FdTracksOpen(p) /\ OwnerKnown(p))'
      BY <2>0, <2>16 DEF TypeOK, PortInv, RefCounted, GoneIsClean, FdTracksOpen,
         OwnerKnown, CallInv, Count, Entitled, Exclusive, MayCall, Goto, GdRelease, ReleaseEffect
    <3>4. CallInv(p)'
      BY <2>0, <2>16 DEF TypeOK, PortInv, RefCounted, GoneIsClean, CallInv, Count,
         Entitled, Exclusive, MayCall, Goto, GdRelease, ReleaseEffect
    <3>5. EntryInv(p)'
      BY <2>0, <2>16 DEF TypeOK, PortInv, EntryInv, MayCall, Goto, GdRelease, ReleaseEffect
    <3>6. QED
      BY <3>1, <3>2, <3>3, <3>4, <3>5, Locality DEF PortInv
  <2>17. CASE GdClose(p)
    <3>0. ref[p] - 1 \in Nat
      BY <2>0, <2>17 DEF TypeOK, PortInv, RefCounted, CallInv, Count, MayCall,
         Goto, Entitled, GdClose, CloseEffect, Cleanup, Deref
    <3>1. TypeOK'
      BY <2>0, <2>17, <3>0 DEF TypeOK, Labels, MayCall, Goto, GdClose, CloseEffect, Cleanup, Deref
    <3>2. StepOf(p)
      BY <2>0, <2>17 DEF TypeOK, StepOf, Same, MayCall, Goto, GdClose, CloseEffect, Cleanup, Deref
    <3>3. (RefCounted(p) /\ GoneIsClean(p) /\ FdTracksOpen(p) /\ OwnerKnown(p))'
      BY <2>0, <2>17 DEF TypeOK, PortInv, RefCounted, GoneIsClean, FdTracksOpen,
         OwnerKnown, CallInv, Count, Entitled, Exclusive, MayCall, Goto, GdClose, CloseEffect, Cleanup, Deref
    <3>4. CallInv(p)'
      BY <2>0, <2>17 DEF TypeOK, PortInv, RefCounted, GoneIsClean, CallInv, Count,
         Entitled, Exclusive, MayCall, Goto, GdClose, CloseEffect, Cleanup, Deref
    <3>5. EntryInv(p)'
      BY <2>0, <2>17 DEF TypeOK, PortInv, EntryInv, MayCall, Goto, GdClose, CloseEffect, Cleanup, Deref
    <3>6. QED
      BY <3>1, <3>2, <3>3, <3>4, <3>5, Locality DEF PortInv
  <2>18. CASE Exit(p)
    <3>1. TypeOK'
      BY <2>0, <2>18 DEF TypeOK, Labels, MayCall, Goto, Exit, Cleanup
    <3>2. StepOf(p)
      BY <2>0, <2>18 DEF TypeOK, StepOf, Same, MayCall, Goto, Exit, Cleanup
    <3>3. (RefCounted(p) /\ GoneIsClean(p) /\ FdTracksOpen(p) /\ OwnerKnown(p))'
      BY <2>0, <2>18 DEF TypeOK, PortInv, RefCounted, GoneIsClean, FdTracksOpen,
         OwnerKnown, CallInv, Count, Entitled, Exclusive, MayCall, Goto, Exit, Cleanup
    <3>4. CallInv(p)'
      BY <2>0, <2>18 DEF TypeOK, PortInv, RefCounted, GoneIsClean, CallInv, Count,
         Entitled, Exclusive, MayCall, Goto, Exit, Cleanup
    <3>5. EntryInv(p)'
      BY <2>0, <2>18 DEF TypeOK, PortInv, EntryInv, MayCall, Goto, Exit, Cleanup
    <3>6. QED
      BY <3>1, <3>2, <3>3, <3>4, <3>5, Locality DEF PortInv
  <2>19. CASE OpRelease(p)
    <3>1. TypeOK'
      BY <2>0, <2>19 DEF TypeOK, Labels, Goto, OpRelease
    <3>2. StepOf(p)
      BY <2>0, <2>19 DEF TypeOK, StepOf, Same, Goto, OpRelease
    <3>3. (RefCounted(p) /\ GoneIsClean(p) /\ FdTracksOpen(p) /\ OwnerKnown(p))'
      BY <2>0, <2>19 DEF TypeOK, PortInv, RefCounted, GoneIsClean, FdTracksOpen,
         OwnerKnown, CallInv, Count, Entitled, Exclusive, Goto, OpRelease
    <3>4. CallInv(p)'
      BY <2>0, <2>19 DEF TypeOK, PortInv, RefCounted, GoneIsClean, CallInv, Count,
         Entitled, Exclusive, Goto, OpRelease
    <3>5. EntryInv(p)'
      BY <2>0, <2>19 DEF TypeOK, PortInv, EntryInv, Goto, OpRelease
    <3>6. QED
      BY <3>1, <3>2, <3>3, <3>4, <3>5, Locality DEF PortInv
  <2>20. CASE FpRelease(p)
    <3>1. TypeOK'
      BY <2>0, <2>20 DEF TypeOK, Labels, Goto, FpRelease
    <3>2. StepOf(p)
      BY <2>0, <2>20 DEF TypeOK, StepOf, Same, Goto, FpRelease
    <3>3. (RefCounted(p) /\ GoneIsClean(p) /\ FdTracksOpen(p) /\ OwnerKnown(p))'
      BY <2>0, <2>20 DEF TypeOK, PortInv, RefCounted, GoneIsClean, FdTracksOpen,
         OwnerKnown, CallInv, Count, Entitled, Exclusive, Goto, FpRelease
    <3>4. CallInv(p)'
      BY <2>0, <2>20 DEF TypeOK, PortInv, RefCounted, GoneIsClean, CallInv, Count,
         Entitled, Exclusive, Goto, FpRelease
    <3>5. EntryInv(p)'
      BY <2>0, <2>20 DEF TypeOK, PortInv, EntryInv, Goto, FpRelease
    <3>6. QED
      BY <3>1, <3>2, <3>3, <3>4, <3>5, Locality DEF PortInv
  <2>21. QED
    BY <2>1, <2>2, <2>3, <2>4, <2>5, <2>6, <2>7, <2>8, <2>9, <2>10, <2>11, <2>12,
       <2>13, <2>14, <2>15, <2>16, <2>17, <2>18, <2>19, <2>20 DEF AppCall, LibStep, GdStep
<1>3. QED
  BY <1>1, <1>2

\* The invariant holds throughout, whether or not applications release first.
THEOREM Invariance == Spec => []IInv
<1>1. Init => IInv
  BY InitInv
<1>2. IInv /\ [Next]_vars => IInv'
  BY StepInv
<1>3. QED
  BY <1>1, <1>2, PTL DEF Spec

-----------------------------------------------------------------------------
(* What holds of every application. *)

\* The variables keep their types (structure fields of parport_internal).
THEOREM TypeCorrect == Spec => []TypeOK
<1>1. IInv => TypeOK
  BY DEF IInv
<1>2. QED
  BY <1>1, Invariance, PTL

\* priv->ref counts the list, the taken references and the opening, exactly, so
\* that deref_port frees at the right moment (interface.c, ports.c).
THEOREM RefCountExact == Spec => []RefExact
<1>1. IInv => RefExact
  BY DEF IInv, PortInv, RefCounted, RefExact
<1>2. QED
  BY <1>1, Invariance, PTL

\* No function of the library that an application may call, and no step of one
\* under way, finds the struct freed.
THEOREM NeverFreedInUse == Spec => []NoUseAfterFree
<1>1. IInv => NoUseAfterFree
  BY DEF IInv, PortInv, TypeOK, GoneIsClean, NoUseAfterFree, Entitled
<1>2. QED
  BY <1>1, Invariance, PTL

\* A struct that is gone left neither an open file nor a claim in the kernel.
THEOREM NothingLeft == Spec => []NothingLeaks
<1>1. IInv => NothingLeaks
  BY DEF IInv, PortInv, GoneIsClean, FdTracksOpen, OwnerKnown, NothingLeaks
<1>2. QED
  BY <1>1, Invariance, PTL

\* ieee1284_get_deviceid, once it has claimed the port, puts everything back.
THEOREM DeviceidUndone == Spec => DeviceidBalanced
<1>1. IInv /\ [Next]_vars => [\A p \in Procs : Returns(p, "gd_close") =>
        /\ ~opened'[p] /\ ~claimed'[p]
        /\ [opened |-> opened'[p], ref |-> ref'[p]] = entry[p]]_vars
  <2> SUFFICES ASSUME IInv, Next, NEW p \in Procs, Returns(p, "gd_close")
               PROVE  /\ ~opened'[p] /\ ~claimed'[p]
                      /\ [opened |-> opened'[p], ref |-> ref'[p]] = entry[p]
    OBVIOUS
  <2>1. PICK q \in Procs :
          AppCall(q) \/ ClaimGranted(q) \/ ClaimError(q) \/ LibStep(q) \/ Exit(q)
    BY DEF Next
  <2>2. GdClose(p)
    <3>1. pc[p] = "gd_close" /\ pc'[p] = "idle" /\ alive'[p]
      BY DEF Returns
    <3>2. ~AppCall(q)
      BY <3>1 DEF AppCall, FindPorts, FreePorts, Ref, Unref, UnrefLast, Open, OpenAsks, Close,
         Claim, ClaimCall, Release, GetDeviceid, Goto, IInv, TypeOK
    <3>3. ~ClaimGranted(q) /\ ~ClaimError(q) /\ ~Exit(q)
      BY <3>1 DEF ClaimGranted, ClaimError, Exit, Goto, IInv, TypeOK
    <3>4. /\ ~GdOpen(q) /\ ~GdClaim(q) /\ ~GdFresh(q) /\ ~GdRelease(q)
          /\ ~OpRelease(q) /\ ~FpRelease(q)
      BY <3>1 DEF GdOpen, GdClaim, ClaimCall, GdFresh, GdRelease, OpRelease, FpRelease, Goto,
         IInv, TypeOK
    <3>5. GdClose(q)
      BY <2>1, <3>2, <3>3, <3>4 DEF LibStep, GdStep
    <3>6. QED
      BY <3>1, <3>5 DEF GdClose, Goto, IInv, TypeOK
  <2>3. ~claimed[p] /\ entry[p] = [opened |-> FALSE, ref |-> ref[p] - 1]
    BY <2>2 DEF GdClose, Goto, IInv, PortInv, CallInv, EntryInv
  <2>4. opened'[p] = FALSE /\ claimed'[p] = claimed[p] /\ ref'[p] = ref[p] - 1
    BY <2>2 DEF GdClose, CloseEffect, Deref, IInv, TypeOK
  <2>5. QED
    BY <2>3, <2>4
<1>2. QED
  BY <1>1, Invariance, PTL DEF Spec, DeviceidBalanced

-----------------------------------------------------------------------------
(* What holds of applications that release a port before they close it. *)

LEMMA ClaimStep == ReleaseFirst /\ IInv /\ ClaimInv /\ [Next]_vars => ClaimInv'
<1> SUFFICES ASSUME ReleaseFirst, IInv, ClaimInv, [Next]_vars PROVE ClaimInv'
  OBVIOUS
<1> USE NoneAssumption DEF IInv, TypeOK, ClaimInv, Exclusive, Goto
<1>1. CASE UNCHANGED vars
  BY <1>1 DEF vars
<1>2. CASE Next
  <2> PICK p \in Procs :
        AppCall(p) \/ ClaimGranted(p) \/ ClaimError(p) \/ LibStep(p) \/ Exit(p)
    BY <1>2 DEF Next
  <2>0. Entitled(p) => alive[p]
    BY DEF PortInv, GoneIsClean, Entitled
  <2>1. CASE FindPorts(p)
    BY <2>1 DEF FindPorts
  <2>2. CASE FreePorts(p) \/ Ref(p) \/ Unref(p) \/ GetDeviceid(p)
    BY <2>0, <2>2 DEF FreePorts, Ref, Unref, GetDeviceid, Deref, MayCall
  <2>3. CASE UnrefLast(p)
    BY <2>0, <2>3 DEF UnrefLast, CloseEffect, Cleanup, Deref, MayCall
  <2>4. CASE Open(p)
    <3>1. alive[p] /\ ~opened[p]
      BY <2>0, <2>4 DEF Open, OpenOK, OpenAsks, OpenFails, MayCall
    <3>2. claimed' = claimed /\ alive' = alive /\ owner' = owner
      BY <2>4 DEF Open, OpenOK, OpenAsks, OpenFails
    <3>3. \A q \in Procs \ {p} : opened'[q] = opened[q] /\ type'[q] = type[q]
      BY <2>4 DEF Open, OpenOK, OpenAsks, OpenFails
    <3>4. QED
      BY <3>1, <3>2, <3>3
  <2>5. CASE Close(p)
    BY <2>5 DEF Close, CloseEffect, Cleanup, Deref
  <2>6. CASE Claim(p)
    BY <2>6 DEF Claim, ClaimCall
  <2>7. CASE Release(p)
    BY <2>7 DEF Release, ReleaseEffect
  <2>8. CASE ClaimGranted(p)
    BY <2>8 DEF ClaimGranted, PortInv, CallInv
  <2>9. CASE ClaimError(p)
    BY <2>0, <2>9 DEF ClaimError, PortInv, CallInv
  <2>10. CASE GdOpen(p)
    <3>1. (alive[p] => (opened[p] \/ ~claimed[p])) /\ claimed' = claimed /\ alive' = alive
          /\ owner' = owner
          /\ (opened[p] => opened'[p] /\ type'[p] = type[p])
          /\ \A q \in Procs \ {p} : opened'[q] = opened[q] /\ type'[q] = type[q]
      BY <2>10 DEF GdOpen, OpenOK, OpenFails
    <3>2. QED
      BY <3>1
  <2>11. CASE GdClaim(p)
    BY <2>11 DEF GdClaim, ClaimCall
  <2>12. CASE GdFresh(p)
    BY <2>12 DEF GdFresh
  <2>13. CASE GdRelease(p)
    BY <2>13 DEF GdRelease, ReleaseEffect
  <2>14. CASE GdClose(p)
    BY <2>14 DEF GdClose, CloseEffect, Cleanup, Deref, PortInv, CallInv
  <2>15. CASE Exit(p)
    BY <2>15 DEF Exit, Cleanup
  <2>16. CASE OpRelease(p)
    BY <2>0, <2>16 DEF OpRelease, PortInv, CallInv
  <2>17. CASE FpRelease(p)
    BY <2>17 DEF FpRelease, PortInv, CallInv
  <2>18. QED
    BY <2>1, <2>2, <2>3, <2>4, <2>5, <2>6, <2>7, <2>8, <2>9, <2>10, <2>11, <2>12,
       <2>13, <2>14, <2>15, <2>16, <2>17 DEF AppCall, LibStep, GdStep
<1>3. QED
  BY <1>1, <1>2

THEOREM ClaimInvariance == ASSUME ReleaseFirst PROVE Spec => []ClaimInv
<1>1. Init => ClaimInv
  BY DEF Init, ClaimInv
<1>2. IInv /\ ClaimInv /\ [Next]_vars => ClaimInv'
  BY ClaimStep
<1>3. QED
  BY <1>1, <1>2, Invariance, PTL DEF Spec

\* priv->claimed tells the truth about the kernel's claim (interface.c tests it
\* in place of asking).
THEOREM ClaimIsTrue == ASSUME ReleaseFirst PROVE Spec => []AccessIsOwned
<1>1. IInv /\ ClaimInv => AccessIsOwned
  BY NoneAssumption
     DEF IInv, PortInv, ClaimInv, GoneIsClean, OwnerKnown, CallInv, AccessIsOwned, PassesGuard
<1>2. QED
  BY <1>1, Invariance, ClaimInvariance, PTL

\* Two processes on ppdev never both get past the test that guards the wires.
THEOREM ClaimsExclude == ASSUME ReleaseFirst PROVE Spec => []ClaimExcludes
<1>1. IInv /\ ClaimInv => ClaimExcludes
  BY DEF ClaimInv, ClaimExcludes, PassesGuard
<1>2. QED
  BY <1>1, Invariance, ClaimInvariance, PTL

-----------------------------------------------------------------------------
(* The documented contract is implemented. *)

\* What an abstract step of one process looks like from the two abstract
\* variables of that process alone.
LEMMA LocalStep ==
  ASSUME NEW p \in Procs,
         \A q \in Procs \ {p} :
           /\ ContractState(q)' = ContractState(q)
           /\ (alive[q] /\ opened[q] /\ Exclusive(q))' = (alive[q] /\ opened[q] /\ Exclusive(q))
  PROVE  /\ [q \in Procs |-> ContractState(q)]'
              = [[q \in Procs |-> ContractState(q)] EXCEPT ![p] = ContractState(p)']
         /\ {q \in Procs : alive[q] /\ opened[q] /\ Exclusive(q)}'
              = IF (alive[p] /\ opened[p] /\ Exclusive(p))'
                THEN {q \in Procs : alive[q] /\ opened[q] /\ Exclusive(q)} \cup {p}
                ELSE {q \in Procs : alive[q] /\ opened[q] /\ Exclusive(q)} \ {p}
OBVIOUS

\* Every step of the library is one step of the contract, or none.
LEMMA ContractStep ==
  ReleaseFirst /\ IInv /\ ClaimInv /\ [Next]_vars => [Contract!Next]_(Contract!vars)
<1> SUFFICES ASSUME ReleaseFirst, IInv, ClaimInv, [Next]_vars
             PROVE  [Contract!Next]_(Contract!vars)
  OBVIOUS
<1> USE DEF Contract!vars
<1>1. CASE UNCHANGED vars
  BY <1>1 DEF vars, ContractState, Exclusive
<1>2. CASE Next
  <2> PICK p \in Procs :
        AppCall(p) \/ ClaimGranted(p) \/ ClaimError(p) \/ LibStep(p) \/ Exit(p)
    BY <1>2 DEF Next
  <2> DEFINE St == [q \in Procs |-> ContractState(q)]
             Ex == {q \in Procs : alive[q] /\ opened[q] /\ Exclusive(q)}
  <2>1. Entitled(p) => alive[p]
    BY DEF IInv, PortInv, GoneIsClean, Entitled
  <2>2. alive[p] /\ claimed[p] => opened[p]
    BY DEF ClaimInv
  <2>3. ASSUME \A q \in Procs \ {p} :
                  /\ alive'[q] = alive[q] /\ opened'[q] = opened[q]
                  /\ claimed'[q] = claimed[q] /\ type'[q] = type[q]
        PROVE  /\ St' = [St EXCEPT ![p] = ContractState(p)']
               /\ Ex' = IF (alive[p] /\ opened[p] /\ Exclusive(p))'
                        THEN Ex \cup {p} ELSE Ex \ {p}
    BY <2>3, LocalStep DEF ContractState, Exclusive
  <2>4. ASSUME AddPort(p), ~alive[p]
        PROVE  [Contract!Next]_(Contract!vars)
    <3>1. ContractState(p) = "absent" /\ ContractState(p)' = "closed" /\ ~opened'[p]
          /\ ~alive[p]
      BY <2>4 DEF ContractState, IInv, TypeOK
    <3>2. St' = [St EXCEPT ![p] = "closed"] /\ Ex' = Ex \ {p}
      BY <2>3, <2>4, <3>1 DEF IInv, TypeOK
    <3>3. QED
      BY <3>1, <3>2 DEF Contract!Next, Contract!Appear, Contract!Move
  <2>21. CASE FindPorts(p) \/ FpRelease(p)
    <3>1. ~alive[p]
      BY <2>21 DEF FindPorts, FpRelease, Goto, IInv, PortInv, CallInv
    <3>2. AddPort(p) \/ UNCHANGED <<alive, opened, claimed, type>>
      BY <2>21 DEF FindPorts, FpRelease
    <3>3. QED
      BY <2>4, <3>1, <3>2 DEF ContractState, Exclusive
  <2>5. CASE FreePorts(p) \/ Unref(p)
    <3>1. alive[p] /\ opened' = opened /\ claimed' = claimed /\ type' = type
          /\ \A q \in Procs \ {p} : alive'[q] = alive[q]
      BY <2>1, <2>5 DEF FreePorts, Unref, Deref, MayCall, IInv, TypeOK
    <3>2. CASE alive'[p]
      <4>1. ContractState(p)' = ContractState(p)
        BY <3>1, <3>2 DEF ContractState
      <4>2. St' = [St EXCEPT ![p] = St[p]]
        BY <2>3, <3>1, <4>1
      <4>3. Ex' = Ex
        BY <2>3, <3>1, <3>2 DEF Exclusive
      <4>4. QED
        BY <4>2, <4>3
    <3>3. CASE ~alive'[p]
      <4>1. ~opened[p]
        BY <2>5, <3>3 DEF FreePorts, Unref, Deref, IInv, PortInv, TypeOK, RefCounted, Count
      <4>2. ContractState(p) = "closed" /\ ContractState(p)' = "absent"
        BY <3>1, <3>3, <4>1 DEF ContractState
      <4>3. St' = [St EXCEPT ![p] = "absent"] /\ Ex' = Ex
        BY <2>3, <3>1, <3>3, <4>1, <4>2
      <4>4. QED
        BY <4>2, <4>3 DEF Contract!Next, Contract!Destroy, Contract!Move
    <3>4. QED
      BY <3>2, <3>3
  <2>6. CASE Ref(p) \/ GetDeviceid(p) \/ GdFresh(p)
    BY <2>6 DEF Ref, GetDeviceid, GdFresh, ContractState, Exclusive
  <2>7. ASSUME CloseEffect(p), alive[p], opened[p], ~claimed[p]
        PROVE  [Contract!Next]_(Contract!vars)
    <3>1. ContractState(p) = "open" /\ ContractState(p)' \in {"closed", "absent"}
          /\ ~opened'[p]
      BY <2>7 DEF CloseEffect, Cleanup, Deref, ContractState, IInv, TypeOK
    <3>2. St' = [St EXCEPT ![p] = ContractState(p)'] /\ Ex' = Ex \ {p}
      BY <2>3, <2>7, <3>1 DEF CloseEffect, Cleanup, Deref, IInv, TypeOK
    <3>3. QED
      BY <3>1, <3>2 DEF Contract!Next, Contract!Close, Contract!Move
  <2>8. CASE Close(p) \/ GdClose(p)
    <3>1. alive[p] /\ opened[p] /\ ~claimed[p] /\ CloseEffect(p)
      BY <2>1, <2>8 DEF Close, GdClose, Goto, MayCall, Entitled, IInv, PortInv, CallInv
    <3>2. QED
      BY <2>7, <3>1
  <2>25. CASE Exit(p) /\ ~alive[p]
    BY <2>3, <2>25 DEF Exit, Cleanup, ContractState, IInv, TypeOK
  <2>9. CASE UnrefLast(p) \/ (Exit(p) /\ alive[p])
    <3>1. ContractState(p) # "absent" /\ ContractState(p)' = "absent" /\ ~alive'[p]
      BY <2>1, <2>9 DEF UnrefLast, MayCall, CloseEffect, Cleanup, Deref, Exit,
         ContractState, IInv, TypeOK
    <3>2. St' = [St EXCEPT ![p] = "absent"] /\ Ex' = Ex \ {p}
      BY <2>3, <2>9, <3>1 DEF UnrefLast, CloseEffect, Cleanup, Deref, Exit, IInv, TypeOK
    <3>3. QED
      BY <3>1, <3>2 DEF Contract!Next, Contract!Vanish
  <2>10. ASSUME Opened(p), ~opened[p], alive[p], UNCHANGED <<alive, claimed>>,
                UNCHANGED type \/ \E m : type' = [type EXCEPT ![p] = m]
         PROVE  [Contract!Next]_(Contract!vars)
    <3>1. ContractState(p) = "closed" /\ ContractState(p)' = "open"
      BY <2>2, <2>10 DEF ContractState, IInv, TypeOK
    <3>2. p \notin Ex
      BY <2>10
    <3>3. St' = [St EXCEPT ![p] = "open"] /\ Ex' \in {Ex, Ex \cup {p}}
      BY <2>3, <2>10, <3>1, <3>2 DEF IInv, TypeOK
    <3>4. QED
      BY <3>1, <3>3 DEF Contract!Next, Contract!Open, Contract!Move
  <2>22. CASE OpRelease(p)
    BY <2>1, <2>10, <2>22 DEF OpRelease, Goto, IInv, PortInv, CallInv
  <2>23. CASE ClaimError(p)
    <3>1. CASE UNCHANGED <<alive, opened, claimed, type>>
      BY <3>1 DEF ContractState, Exclusive
    <3>2. CASE Goto(p, "op_claiming", "idle") /\ Opened(p) /\ UNCHANGED <<alive, claimed, type>>
      BY <2>1, <2>10, <3>2 DEF Goto, IInv, PortInv, CallInv
    <3>3. CASE Goto(p, "fp_claiming", "idle") /\ AddPort(p)
      BY <2>4, <3>3 DEF Goto, IInv, PortInv, CallInv
    <3>4. QED
      BY <2>23, <3>1, <3>2, <3>3 DEF ClaimError
  <2>11. ASSUME OpenFails(p) \/ \E excl \in BOOLEAN : OpenAsks(p, excl)
         PROVE  UNCHANGED Contract!vars
    <3>1. /\ ~opened[p] /\ ~opened'[p] /\ ContractState(p)' = ContractState(p)
          /\ UNCHANGED <<alive, opened, claimed>> /\ \E m : type' = [type EXCEPT ![p] = m]
      BY <2>11 DEF OpenFails, OpenAsks, ContractState
    <3>2. St' = [St EXCEPT ![p] = St[p]] /\ Ex' = Ex \ {p} /\ p \notin Ex
      BY <2>3, <3>1 DEF IInv, TypeOK
    <3>3. QED
      BY <3>2
  <2>24. ASSUME NEW m \in AccessMethods, NEW excl \in BOOLEAN, OpenOK(p, m, excl), alive[p]
         PROVE  [Contract!Next]_(Contract!vars)
    BY <2>10, <2>24 DEF OpenOK
  <2>12. CASE Open(p)
    BY <2>1, <2>11, <2>12, <2>24 DEF Open, MayCall
  <2>13. CASE GdOpen(p)
    <3>1. alive[p]
      BY <2>1, <2>13 DEF GdOpen, Goto, IInv, PortInv, CallInv
    <3>2. CASE opened[p] /\ Goto(p, "gd_open", "idle")
               /\ UNCHANGED <<alive, opened, claimed, ref, type, fd, owner>>
      BY <3>2 DEF ContractState, Exclusive
    <3>3. QED
      BY <2>11, <2>13, <2>24, <3>1, <3>2 DEF GdOpen
  <2>14. ASSUME alive[p], opened[p], ~claimed[p], claimed' = [claimed EXCEPT ![p] = TRUE],
                UNCHANGED <<alive, opened, type>>,
                Exclusive(p) => owner = None
         PROVE  [Contract!Next]_(Contract!vars)
    <3>1. ContractState(p) = "open" /\ ContractState(p)' = "claimed"
      BY <2>14 DEF ContractState, IInv, TypeOK
    <3>2. St' = [St EXCEPT ![p] = "claimed"] /\ Ex' = Ex
      BY <2>3, <2>14, <3>1 DEF IInv, TypeOK, Exclusive
    <3>3. p \in Ex => \A q \in Ex : St[q] # "claimed"
      BY <2>14, NoneAssumption DEF ContractState, ClaimInv
    <3>4. QED
      BY <3>1, <3>2, <3>3 DEF Contract!Next, Contract!Claim, Contract!Move
  <2>15. CASE ClaimGranted(p)
    <3>1. CASE UNCHANGED claimed
      BY <2>15, <3>1 DEF ClaimGranted, ContractState, Exclusive
    <3>2. CASE ~UNCHANGED claimed
      BY <2>14, <2>15, <3>2 DEF ClaimGranted, Goto, IInv, PortInv, CallInv, GoneIsClean
    <3>3. QED
      BY <3>1, <3>2
  <2>16. ASSUME NEW from, NEW asleep, NEW done, ClaimCall(p, from, asleep, done), alive[p]
         PROVE  [Contract!Next]_(Contract!vars)
    <3>1. CASE Exclusive(p)
      BY <2>16, <3>1 DEF ClaimCall, ContractState, Exclusive, IInv, TypeOK
    <3>2. CASE ~Exclusive(p)
      BY <2>14, <2>16, <3>2 DEF ClaimCall
    <3>3. QED
      BY <3>1, <3>2
  <2>17. CASE Claim(p)
    BY <2>1, <2>16, <2>17 DEF Claim
  <2>18. CASE GdClaim(p)
    <3>1. alive[p]
      BY <2>18 DEF GdClaim, ClaimCall, Goto, IInv, PortInv, GoneIsClean
    <3>2. CASE ClaimCall(p, "gd_claim", "gd_claiming", "gd_fresh")
      BY <2>16, <3>1, <3>2
    <3>3. CASE UNCHANGED <<alive, opened, claimed, ref, type, fd, owner, listed, held, entry, detected>>
      BY <3>3 DEF ContractState, Exclusive
    <3>4. QED
      BY <2>18, <3>2, <3>3 DEF GdClaim
  <2>19. CASE Release(p) \/ GdRelease(p)
    <3>1. alive[p] /\ claimed[p] /\ ReleaseEffect(p)
      BY <2>1, <2>19 DEF Release, GdRelease, MayCall, Goto, IInv, PortInv, CallInv, GoneIsClean
    <3>2. ContractState(p) = "claimed" /\ ContractState(p)' = "open"
      BY <2>2, <3>1 DEF ReleaseEffect, ContractState, IInv, TypeOK
    <3>3. St' = [St EXCEPT ![p] = "open"] /\ Ex' = Ex
      BY <2>3, <3>1, <3>2 DEF ReleaseEffect, IInv, TypeOK, Exclusive
    <3>4. QED
      BY <3>2, <3>3 DEF Contract!Next, Contract!Release, Contract!Move
  <2>20. QED
    BY <2>5, <2>6, <2>8, <2>9, <2>12, <2>13, <2>15, <2>17, <2>18, <2>19, <2>21, <2>22,
       <2>23, <2>25
       DEF AppCall, LibStep, GdStep
<1>3. QED
  BY <1>1, <1>2

\* PortLifecycle implements PortContract: what interface.xml promises of one port
\* holds of everything the library does with it.
THEOREM ContractImplemented == ASSUME ReleaseFirst PROVE Spec => ImplementsContract
<1>1. Init => Contract!Init
  BY DEF Init, Contract!Init, ContractState
<1>2. IInv /\ ClaimInv /\ [Next]_vars => [Contract!Next]_(Contract!vars)
  BY ContractStep
<1>3. QED
  BY <1>1, <1>2, Invariance, ClaimInvariance, PTL
     DEF Spec, ImplementsContract, Contract!Spec
=============================================================================
