---------------------------- MODULE PortLifecycle ----------------------------
(***************************************************************************)
(* The life of a struct parport: found, referenced, opened, claimed,       *)
(* released, closed and destroyed (interface.c, state.c, ports.c), and the *)
(* outer sequence of ieee1284_get_deviceid (deviceid.c), for several       *)
(* processes that each hold their own struct for ONE physical port.        *)
(*                                                                         *)
(* The processes meet only in the kernel: the ppdev driver remembers which *)
(* open file owns the port (PPCLAIM, PPRELEASE), and forgets it when that  *)
(* file is closed or its process dies.  The other access methods (port I/O *)
(* and /dev/port) have no claim at all.  The library takes the kernel's    *)
(* claim in three places: for ieee1284_claim; to ask for capabilities when *)
(* a port is opened; and once in a process, when its first find_ports      *)
(* looks for device nodes.                                                 *)
(*                                                                         *)
(* Inside a process calls do not overlap: the library has no locks.  A     *)
(* call that the library refuses at its first test (E1284_INVALIDPORT)     *)
(* changes nothing and is a stuttering step.                               *)
(***************************************************************************)
EXTENDS Naturals

CONSTANTS
  Procs,         \* the processes
  Methods,       \* [Procs -> SUBSET AccessMethods]: what detection found usable
  MaxHeld,       \* bound: references one application takes with ieee1284_ref
  None,          \* nobody owns the port
  ReleaseFirst   \* TRUE: applications release a claimed port before closing it

AccessMethods == {"ppdev", "io", "devport"}

ASSUME MethodsAssumption ==
         Methods \in [Procs -> (SUBSET AccessMethods) \ {{}}]
ASSUME BoundAssumption == MaxHeld \in Nat
ASSUME NoneAssumption == None \notin Procs
ASSUME DisciplineAssumption == ReleaseFirst \in BOOLEAN

VARIABLES
  alive,     \* the struct parport is allocated
  opened,    \* priv->opened
  claimed,   \* priv->claimed
  ref,       \* priv->ref
  type,      \* priv->type, and with it the method table priv->fn
  fd,        \* priv->fd is an open file
  owner,     \* kernel: the process whose open file owns the port
  listed,    \* application: the port is in an undisposed port list
  held,      \* application: references taken with ieee1284_ref
  pc,        \* where the process is in a call that spans several steps
  entry,     \* auxiliary: opened and ref when ieee1284_get_deviceid was called
  detected   \* the static variable of detect_environment

vars == <<alive, opened, claimed, ref, type, fd, owner, listed, held, pc, entry, detected>>

Labels == {"idle", "claiming", "fp_claiming", "fp_loaded", "op_claiming", "op_modes",
           "gd_open", "gd_claim", "gd_claiming", "gd_fresh",
           "gd_release", "gd_close"}

\* Asleep in PPCLAIM; and holding a claim that is none of ieee1284_claim's.
Sleeping == {"claiming", "fp_claiming", "op_claiming", "gd_claiming"}
Looking == {"fp_loaded", "op_modes"}

Init ==
  /\ alive   = [p \in Procs |-> FALSE]
  /\ opened  = [p \in Procs |-> FALSE]
  /\ claimed = [p \in Procs |-> FALSE]
  /\ ref     = [p \in Procs |-> 0]
  /\ type    = [p \in Procs |-> "none"]
  /\ fd      = [p \in Procs |-> FALSE]
  /\ owner   = None
  /\ listed  = [p \in Procs |-> FALSE]
  /\ held    = [p \in Procs |-> 0]
  /\ pc      = [p \in Procs |-> "idle"]
  /\ entry   = [p \in Procs |-> [opened |-> FALSE, ref |-> 0]]
  /\ detected = [p \in Procs |-> FALSE]

\* The documented right to use the struct: it is in a port list, or a reference
\* was taken, or it is open ("the port list may be freed even if it contains
\* pointers to ports that are still open").
Entitled(p) == listed[p] \/ held[p] > 0 \/ opened[p]

MayCall(p) == pc[p] = "idle" /\ Entitled(p)

Goto(p, from, to) == pc[p] = from /\ pc' = [pc EXCEPT ![p] = to]

-----------------------------------------------------------------------------
(* The port list and the reference count. *)

\* add_port builds the struct from zeroed memory.
AddPort(p) ==
  /\ alive'   = [alive EXCEPT ![p] = TRUE]
  /\ opened'  = [opened EXCEPT ![p] = FALSE]
  /\ claimed' = [claimed EXCEPT ![p] = FALSE]
  /\ ref'     = [ref EXCEPT ![p] = 1]
  /\ type'    = [type EXCEPT ![p] = "none"]
  /\ fd'      = [fd EXCEPT ![p] = FALSE]
  /\ listed'  = [listed EXCEPT ![p] = TRUE]
  /\ UNCHANGED <<held, entry>>

\* ieee1284_find_ports.  The first one looks for a device node that opens, and claims
\* it to have a driver loaded: it is the node of this port, or of another one.
FindPorts(p) ==
  /\ pc[p] = "idle" /\ ~alive[p]
  /\ detected' = [detected EXCEPT ![p] = TRUE]
  /\ \/ AddPort(p) /\ UNCHANGED <<owner, pc>>
     \/ /\ ~detected[p] /\ "ppdev" \in Methods[p]
        /\ Goto(p, "idle", "fp_claiming")
        /\ UNCHANGED <<alive, opened, claimed, ref, type, fd, owner, listed, held, entry>>

\* The kernel takes its claim back.
Drop(p) == owner' = IF owner = p THEN None ELSE owner

FpRelease(p) ==
  /\ Goto(p, "fp_loaded", "idle")
  /\ Drop(p)
  /\ AddPort(p) /\ UNCHANGED detected

BugDerefTwice(p) ==
  /\ ref'   = [ref EXCEPT ![p] = @ - 2]
  /\ alive' = [alive EXCEPT ![p] = ref[p] # 2]

BugDerefDestroysClosed(p) ==
  /\ ref'   = [ref EXCEPT ![p] = @ - 1]
  /\ alive' = [alive EXCEPT ![p] = ref[p] # 1 /\ (opened[p] \/ ref[p] # 2)]

\* deref_port: the last reference frees the struct, open or not.
Deref(p) ==
  /\ ref'   = [ref EXCEPT ![p] = @ - 1]
  /\ alive' = [alive EXCEPT ![p] = ref[p] # 1]

FreePorts(p) ==
  /\ MayCall(p) /\ listed[p]
  /\ Deref(p)
  /\ listed' = [listed EXCEPT ![p] = FALSE]
  /\ UNCHANGED <<opened, claimed, type, fd, owner, held, pc, entry, detected>>

Ref(p) ==
  /\ MayCall(p) /\ held[p] < MaxHeld
  /\ ref'  = [ref EXCEPT ![p] = @ + 1]
  /\ held' = [held EXCEPT ![p] = @ + 1]
  /\ UNCHANGED <<alive, opened, claimed, type, fd, owner, listed, pc, entry, detected>>

-----------------------------------------------------------------------------
(* Opening and closing. *)

\* init_port stops at the first method that initialises.  Any of them may fail
\* (no device node, no privilege), and those on raw I/O refuse every flag.
MayInit(p, m, excl) == m \in Methods[p] /\ (excl => m = "ppdev")

\* What a failed init_port leaves in priv->type: the last method it tried.
LastTried(p) ==
  IF "devport" \in Methods[p] THEN "devport"
  ELSE IF "io" \in Methods[p] THEN "io" ELSE "ppdev"

\* init_port comes to method m, and its device opens.
Init1284(p, m, excl) ==
  /\ ~opened[p] /\ MayInit(p, m, excl)
  /\ type'   = [type EXCEPT ![p] = m]
  /\ fd'     = [fd EXCEPT ![p] = m # "io"]

Opened(p) ==
  /\ opened' = [opened EXCEPT ![p] = TRUE]
  /\ ref'    = [ref EXCEPT ![p] = @ + 1]

\* ieee1284_open when init_port succeeds with method m, which asks nothing of the
\* kernel: it is not ppdev, or no capabilities are asked for.
OpenOK(p, m, excl) ==
  /\ Init1284(p, m, excl) /\ Opened(p)
  /\ UNCHANGED <<alive, claimed, owner>>

\* ieee1284_open with capabilities to fill in: find_capabilities of ppdev claims the
\* port, without a word to priv->claimed.
OpenAsks(p, excl) ==
  /\ Init1284(p, "ppdev", excl) /\ Goto(p, "idle", "op_claiming")
  /\ UNCHANGED <<alive, opened, claimed, ref, owner>>

BugOpRelease(p) ==
  /\ Goto(p, "op_modes", "idle")
  /\ Opened(p)
  /\ UNCHANGED <<alive, claimed, type, fd, owner, listed, held, entry, detected>>

\* PPGETMODES, whatever it says, and PPRELEASE.
OpRelease(p) ==
  /\ Goto(p, "op_modes", "idle")
  /\ Drop(p)
  /\ Opened(p)
  /\ UNCHANGED <<alive, claimed, type, fd, listed, held, entry, detected>>

\* ieee1284_open when every method fails: not open, the type of the last try.
OpenFails(p) ==
  /\ ~opened[p]
  /\ type' = [type EXCEPT ![p] = LastTried(p)]
  /\ UNCHANGED <<alive, opened, claimed, ref, fd, owner>>

Open(p) ==
  /\ MayCall(p)
  /\ \/ \E m \in AccessMethods, excl \in BOOLEAN : OpenOK(p, m, excl) /\ UNCHANGED pc
     \/ \E excl \in BOOLEAN : OpenAsks(p, excl)
     \/ OpenFails(p) /\ UNCHANGED pc
  /\ UNCHANGED <<listed, held, entry, detected>>

BugCleanup(p) == UNCHANGED <<fd, owner>>

\* priv->fn->cleanup: the file is closed, and with it goes the kernel's claim.
Cleanup(p) ==
  /\ fd'    = [fd EXCEPT ![p] = FALSE]
  /\ Drop(p)

BugCloseKeepsRef(p) ==
  /\ Cleanup(p)
  /\ opened' = [opened EXCEPT ![p] = FALSE]
  /\ UNCHANGED <<alive, ref, claimed, type>>

\* ieee1284_close of an open port.  priv->claimed is not touched.
CloseEffect(p) ==
  /\ Cleanup(p)
  /\ opened' = [opened EXCEPT ![p] = FALSE]
  /\ Deref(p)
  /\ UNCHANGED <<claimed, type>>

Close(p) ==
  /\ MayCall(p) /\ opened[p]
  /\ ReleaseFirst => ~claimed[p]
  /\ CloseEffect(p)
  /\ UNCHANGED <<listed, held, pc, entry, detected>>

\* ieee1284_unref of a reference the application took.  The branch for "last
\* reference to open port" is UnrefLast: with a taken reference in hand and the
\* port open, the count is at least two.
Unref(p) ==
  /\ MayCall(p) /\ held[p] > 0
  /\ ~(opened[p] /\ ref[p] = 1)
  /\ Deref(p)
  /\ held' = [held EXCEPT ![p] = @ - 1]
  /\ UNCHANGED <<opened, claimed, type, fd, owner, listed, pc, entry, detected>>

\* ieee1284_unref with no reference taken, on an open port whose list is gone:
\* against the documentation, and handled by the code, which closes the port.
UnrefLast(p) ==
  /\ MayCall(p) /\ held[p] = 0 /\ ~listed[p]
  /\ opened[p] /\ ref[p] = 1
  /\ CloseEffect(p)
  /\ UNCHANGED <<listed, held, pc, entry, detected>>

-----------------------------------------------------------------------------
(* Claiming and releasing. *)

\* The method that asks the kernel; the other method tables hold NULL.
Exclusive(p) == type[p] = "ppdev"

BugClaimUnopened(p, from, asleep, done) ==
  /\ ~claimed[p]
  /\ Goto(p, from, IF Exclusive(p) THEN asleep ELSE done)
  /\ claimed' = [claimed EXCEPT ![p] = ~Exclusive(p)]
  /\ UNCHANGED <<alive, opened, ref, type, fd, owner, listed, held, entry, detected>>

\* ieee1284_claim past its two tests: PPCLAIM sleeps in the kernel, at label
\* asleep; without a claim method the port is claimed at once.
ClaimCall(p, from, asleep, done) ==
  /\ opened[p] /\ ~claimed[p]
  /\ Goto(p, from, IF Exclusive(p) THEN asleep ELSE done)
  /\ claimed' = [claimed EXCEPT ![p] = ~Exclusive(p)]
  /\ UNCHANGED <<alive, opened, ref, type, fd, owner, listed, held, entry, detected>>

Claim(p) == Entitled(p) /\ ClaimCall(p, "idle", "claiming", "idle")

\* PPCLAIM returns 0: only to one open file at a time.
ClaimGranted(p) ==
  /\ \/ Goto(p, "claiming", "idle") /\ claimed' = [claimed EXCEPT ![p] = TRUE]
     \/ Goto(p, "gd_claiming", "gd_fresh") /\ claimed' = [claimed EXCEPT ![p] = TRUE]
     \/ Goto(p, "op_claiming", "op_modes") /\ UNCHANGED claimed
     \/ Goto(p, "fp_claiming", "fp_loaded") /\ UNCHANGED claimed
  /\ owner = None
  /\ owner'   = p
  /\ UNCHANGED <<alive, opened, ref, type, fd, listed, held, entry, detected>>

BugClaimError(p) ==
  /\ \/ Goto(p, "claiming", "idle")
     \/ Goto(p, "gd_claiming", "idle")
  /\ claimed' = [claimed EXCEPT ![p] = TRUE]
  /\ UNCHANGED <<alive, opened, ref, type, fd, owner, listed, held, entry, detected>>

\* PPCLAIM fails.  ieee1284_claim returns E1284_SYS, and ieee1284_get_deviceid at
\* once with it, leaving the port it has just opened open; to open a port, the
\* capabilities are guessed; detection goes on.
ClaimError(p) ==
  /\ \/ /\ Goto(p, "claiming", "idle") \/ Goto(p, "gd_claiming", "idle")
        /\ UNCHANGED <<alive, opened, claimed, ref, type, fd, listed, held, entry>>
     \/ /\ Goto(p, "op_claiming", "idle") /\ Opened(p)
        /\ UNCHANGED <<alive, claimed, type, fd, listed, held, entry>>
     \/ Goto(p, "fp_claiming", "idle") /\ AddPort(p)
  /\ UNCHANGED <<owner, detected>>

\* ieee1284_release: PPRELEASE only when priv->claimed and the method has one.
ReleaseEffect(p) ==
  /\ owner'   = IF claimed[p] /\ Exclusive(p) /\ owner = p THEN None ELSE owner
  /\ claimed' = [claimed EXCEPT ![p] = FALSE]
  /\ UNCHANGED <<alive, opened, ref, type, fd>>

Release(p) ==
  /\ MayCall(p) /\ claimed[p]
  /\ ReleaseEffect(p)
  /\ UNCHANGED <<listed, held, pc, entry, detected>>

\* The test at the head of every function that touches the wires.
PassesGuard(p) == alive[p] /\ claimed[p]

-----------------------------------------------------------------------------
(* ieee1284_get_deviceid, past the cached copy the operating system may have. *)

GetDeviceid(p) ==
  /\ Entitled(p)
  /\ Goto(p, "idle", "gd_open")
  /\ entry' = [entry EXCEPT ![p] = [opened |-> opened[p], ref |-> ref[p]]]
  /\ UNCHANGED <<alive, opened, claimed, ref, type, fd, owner, listed, held, detected>>

GdOpen(p) ==
  /\ \/ \E m \in AccessMethods : OpenOK(p, m, FALSE) /\ Goto(p, "gd_open", "gd_claim")
     \/ OpenFails(p) /\ Goto(p, "gd_open", "idle")
     \/ opened[p] /\ Goto(p, "gd_open", "idle")
                  /\ UNCHANGED <<alive, opened, claimed, ref, type, fd, owner>>
  /\ UNCHANGED <<listed, held, entry, detected>>

\* ieee1284_claim; refused when priv->claimed is still set from an earlier open.
GdClaim(p) ==
  \/ ClaimCall(p, "gd_claim", "gd_claiming", "gd_fresh")
  \/ /\ claimed[p] /\ Goto(p, "gd_claim", "idle")
     /\ UNCHANGED <<alive, opened, claimed, ref, type, fd, owner, listed, held, entry, detected>>

\* get_fresh talks to the device and leaves the struct's life alone.
GdFresh(p) ==
  /\ Goto(p, "gd_fresh", "gd_release")
  /\ UNCHANGED <<alive, opened, claimed, ref, type, fd, owner, listed, held, entry, detected>>

GdRelease(p) ==
  /\ Goto(p, "gd_release", "gd_close")
  /\ ReleaseEffect(p)
  /\ UNCHANGED <<listed, held, entry, detected>>

BugGdClose(p) ==
  /\ Goto(p, "gd_close", "idle")
  /\ UNCHANGED <<alive, opened, claimed, ref, type, fd, owner, listed, held, entry, detected>>

GdClose(p) ==
  /\ Goto(p, "gd_close", "idle")
  /\ CloseEffect(p)
  /\ UNCHANGED <<listed, held, entry, detected>>

\* The process dies, anywhere: its memory and its files are gone.
Exit(p) ==
  /\ alive[p] \/ pc[p] # "idle"
  /\ Cleanup(p)
  /\ alive'   = [alive EXCEPT ![p] = FALSE]
  /\ opened'  = [opened EXCEPT ![p] = FALSE]
  /\ claimed' = [claimed EXCEPT ![p] = FALSE]
  /\ ref'     = [ref EXCEPT ![p] = 0]
  /\ type'    = [type EXCEPT ![p] = "none"]
  /\ listed'  = [listed EXCEPT ![p] = FALSE]
  /\ held'    = [held EXCEPT ![p] = 0]
  /\ pc'      = [pc EXCEPT ![p] = "idle"]
  /\ detected' = [detected EXCEPT ![p] = FALSE]
  /\ UNCHANGED entry

GdStep(p) == GdOpen(p) \/ GdClaim(p) \/ GdFresh(p) \/ GdRelease(p) \/ GdClose(p)

AppCall(p) ==
  \/ FindPorts(p) \/ FreePorts(p) \/ Ref(p) \/ Unref(p) \/ UnrefLast(p)
  \/ Open(p) \/ Close(p) \/ Claim(p) \/ Release(p) \/ GetDeviceid(p)

\* A call that holds the kernel's claim, or is about to, goes on by itself.
LibStep(p) == GdStep(p) \/ OpRelease(p) \/ FpRelease(p)

Next == \E p \in Procs :
  AppCall(p) \/ ClaimGranted(p) \/ ClaimError(p) \/ LibStep(p) \/ Exit(p)

Spec == Init /\ [][Next]_vars

\* A call inside the library goes on until it returns.  The kernel serves the
\* processes asleep in PPCLAIM in turn, and an application gives a claimed port
\* back "within a reasonable amount of time", as ieee1284_claim asks of it.
Fairness == \A p \in Procs :
  /\ WF_vars(LibStep(p))
  /\ SF_vars(ClaimGranted(p))
  /\ SF_vars(Release(p))

FairSpec == Spec /\ Fairness

-----------------------------------------------------------------------------
(* Properties. *)

TypeOK ==
  /\ alive   \in [Procs -> BOOLEAN]
  /\ opened  \in [Procs -> BOOLEAN]
  /\ claimed \in [Procs -> BOOLEAN]
  /\ ref     \in [Procs -> Nat]
  /\ type    \in [Procs -> AccessMethods \cup {"none"}]
  /\ fd      \in [Procs -> BOOLEAN]
  /\ owner   \in Procs \cup {None}
  /\ listed  \in [Procs -> BOOLEAN]
  /\ held    \in [Procs -> 0 .. MaxHeld]
  /\ pc      \in [Procs -> Labels]
  /\ entry   \in [Procs -> [opened : BOOLEAN, ref : Nat]]
  /\ detected \in [Procs -> BOOLEAN]

Count(b) == IF b THEN 1 ELSE 0

\* priv->ref is exactly the number of reasons to keep the struct: the port list,
\* the references taken with ieee1284_ref, the open port.  (ports.c deref_port
\* frees at zero without looking at priv->opened; this is what makes that safe.)
RefExact == \A p \in Procs :
  ref[p] = Count(listed[p]) + held[p] + Count(opened[p])

\* No use after free: whoever is entitled to the struct finds it allocated, a
\* call in progress included.  (Detection comes before there is a struct.)
NoUseAfterFree == \A p \in Procs :
  Entitled(p) \/ pc[p] \notin {"idle", "fp_claiming", "fp_loaded"} => alive[p]

\* Nothing outlives the struct: no file stays open, and no claim stays in the
\* kernel but the one detection is about to give back.
NothingLeaks == \A p \in Procs :
  ~alive[p] => ~fd[p] /\ (owner = p => pc[p] = "fp_loaded")

\* The flag the library tests before it touches the wires tells the truth: with
\* a method that can claim, the kernel's claim is ours exactly while it is set, or
\* while ieee1284_open, which touches no wire, asks for the port's capabilities.
AccessIsOwned == \A p \in Procs :
  Exclusive(p) /\ alive[p] => (owner = p <=> PassesGuard(p) \/ pc[p] = "op_modes")

\* Two processes on the exclusive method never both pass the test that guards
\* the wires ("to prevent multiple drivers from trampling on each other").
ClaimExcludes == \A p, q \in Procs :
  PassesGuard(p) /\ PassesGuard(q) /\ Exclusive(p) /\ Exclusive(q) => p = q

Returns(p, from) == pc[p] = from /\ pc'[p] = "idle" /\ alive'[p]

\* A get_deviceid that got its claim undoes all it did: the port is closed again,
\* not claimed, with the references it had.
DeviceidBalanced == [][\A p \in Procs : Returns(p, "gd_close") =>
  /\ ~opened'[p] /\ ~claimed'[p]
  /\ [opened |-> opened'[p], ref |-> ref'[p]] = entry[p]]_vars

\* A process asleep in PPCLAIM is not forgotten, whichever call it made: no path
\* through the library keeps the kernel's claim for good.
WaiterServed == \A p \in Procs : pc[p] \in Sleeping ~> pc[p] \notin Sleeping

-----------------------------------------------------------------------------
(* The detailed specification implements the documented contract. *)

ContractState(p) ==
  IF ~alive[p] THEN "absent"
  ELSE IF ~opened[p] THEN "closed"
  ELSE IF claimed[p] THEN "claimed" ELSE "open"

Contract == INSTANCE PortContract WITH
  st   <- [p \in Procs |-> ContractState(p)],
  excl <- {p \in Procs : alive[p] /\ opened[p] /\ Exclusive(p)}

ImplementsContract == Contract!Spec
=============================================================================
