------------------------------- MODULE Discovery -------------------------------
(***************************************************************************)
(* ieee1284_find_ports on Linux (ports.c) with everything it and its       *)
(* results go through: read_config_file (conf.c), detect_environment       *)
(* (detect.c), the choice of an access method when a port is opened        *)
(* (init_port, state.c), and the choice of a source for a device ID        *)
(* (deviceid.c).                                                           *)
(*                                                                         *)
(* The system is external: drivers are loaded and removed between any two  *)
(* steps.  The names of ports are numbers in the order of strcmp.          *)
(***************************************************************************)
EXTENDS Naturals, Integers, FiniteSets, Sequences

CONSTANTS
  Files,       \* the configuration files of the first call
  LaterFiles,  \* bound: those of later calls
  Names,       \* the entries of /proc/sys/dev/parport or /proc/parport
  Number,      \* the digits at the end of each name, or -1
  Dirs,        \* bound: the sets of them that there may be at a time
  NodeSets,    \* bound: the sets of Nodes
  Guesses,     \* the ports guessed when there is neither
  MaxPorts,
  MaxChanges,  \* bound: how often the system changes
  Ids,         \* the lengths of device IDs
  Buffers,     \* the lengths of buffers for them
  SizeT        \* bound: the number of values of a size_t

ASSUME FilesAssumption ==
  /\ LaterFiles \subseteq Files /\ Files \subseteq Seq(Seq(STRING))
  /\ \A f \in Files : \A i \in 1 .. Len(f) : f[i] # <<>>
ASSUME NamesAssumption ==
  Names \subseteq Nat /\ Guesses \subseteq Nat /\ Number \in [Names -> Int]
\* Two ports of the kernel have different numbers.
ASSUME NumberAssumption == \A m, n \in Names : Number[m] = Number[n] => m = n \/ Number[m] = -1
ASSUME LimitAssumption == MaxPorts \in Nat \ {0} /\ MaxChanges \in Nat
\* An ID has its length field, of two bytes, and a byte at least; a buffer is not nearly
\* as large as there are addresses.
LongestId == 65535
ASSUME LengthAssumption ==
  /\ SizeT \in Nat /\ Ids \subseteq 3 .. LongestId
  /\ Buffers \subseteq Nat /\ \A len \in Buffers : len + LongestId < SizeT

Methods == <<"ppdev", "io", "devport">>    \* in the order init_port tries them
\* What there may be: /dev/parport0 and so on, /dev/parports/0 and so on, the right to
\* use the ports of the processor, and /dev/port.
Nodes == {"ppdev", "udev", "io", "devport"}
Flags == {"none", "excl", "other"}

ASSUME SystemAssumption == Dirs \subseteq SUBSET Names /\ NodeSets \subseteq SUBSET Nodes

VARIABLES
  pc,            \* where find_ports is
  file, line, at, where, tokens, had,  \* the configuration file, as in ConfigFile
  disallow,      \* conf.disallow_ppdev
  config_read,   \* there was no file
  detected,
  capabilities,
  todo,          \* the names readdir has still to return
  seen,          \* auxiliary: those it has in all
  short,         \* auxiliary: a port was dropped for want of memory
  list,          \* portv
  kept,          \* bound: one port of an earlier list that the application still has
  system,        \* the devices that can be opened, the kind of /proc, its entries
  held,          \* another process has claimed the port that is looked at
  changes,       \* how often the system changed
  id             \* the device ID that the last step got

config == <<file, line, at, where, tokens, had, disallow>>
library == <<config_read, detected, capabilities>>
scan == <<todo, seen, short>>
ports == <<list, kept>>
outside == <<system, held, changes>>
vars == <<pc, config, library, scan, ports, outside, id>>

Config == INSTANCE ConfigFile

NoFile == <<>>

Systems ==
  {s \in [nodes : NodeSets \cup {{}}, proc : {"sysdev", "proc", "none"}, dir : Dirs \cup {{}}] :
     s.proc = "none" => s.dir = {}}

\* /dev/parportN, /dev/parports/N, and paths without a number.
Node(n) == <<"/dev/parport", n>>
UdevNode(n) == <<"/dev/parports", n>>
Path(s) == <<s, -1>>
Null == Path("NULL")
Junk == Path("uninitialised")

NoId == [source |-> "none", whole |-> 0, field |-> 0, len |-> 0, filled |-> 0, ret |-> 0]

NoAnswer == id' = NoId

-----------------------------------------------------------------------------
(* ieee1284_find_ports. *)

\* Bound: what the application keeps is a port open with ppdev, the only one of its list.
Keeps == {<<p>> : p \in {list[i] : i \in {j \in DOMAIN list :
                            Len(list) = 1 /\ list[j].open /\ list[j].type = "ppdev"}}}

\* read_config_file: the file is read on every call, until there is none.  An earlier
\* list is overwritten; the application may still have its ports.
FindPorts ==
  /\ pc = "idle"
  /\ file' \in IF detected THEN LaterFiles ELSE Files
  /\ line' = <<>> /\ at' = 1 /\ tokens' = <<>> /\ had' = 0
  /\ IF config_read
     THEN pc' = "detect" /\ where' = "end" /\ UNCHANGED disallow
     ELSE pc' = "config" /\ where' = "word" /\ disallow' = FALSE
  /\ list' = <<>> /\ kept' \in {<<>>, kept} \cup Keeps
  /\ UNCHANGED <<library, scan, outside>> /\ NoAnswer

ReadConfig ==
  /\ pc = "config" /\ Config!Next
  /\ UNCHANGED <<pc, library, scan, ports, outside>> /\ NoAnswer

\* No file, which differs from an empty one.
NoConfig ==
  /\ pc = "config" /\ file = NoFile /\ line = <<>> /\ where = "word" /\ pc' = "detect"
  /\ config_read' = TRUE /\ where' = "end"
  /\ UNCHANGED <<file, line, at, tokens, had, disallow, detected, capabilities, scan, ports,
                 outside>> /\ NoAnswer

ConfigDone ==
  /\ pc = "config" /\ where = "end" /\ pc' = "detect"
  /\ file' = NoFile /\ line' = <<>> /\ at' = 1 /\ tokens' = <<>> /\ had' = 0
  /\ UNCHANGED <<where, disallow, library, scan, ports, outside>> /\ NoAnswer

\* check_proc_type: of /proc/parport an entry is required.
ProcType(s) ==
  IF s.proc = "proc" /\ s.dir = {} THEN {} ELSE {s.proc} \ {"none"}

\* detect_environment (0), once.  What the system is like matters from then on, and
\* whether the port is claimed while check_dev_node waits for it.
Detect ==
  /\ pc = "detect" /\ detected' = TRUE
  /\ IF detected
     THEN pc' = "open" /\ UNCHANGED <<capabilities, system, held>>
     ELSE /\ system' \in Systems
          /\ IF {"ppdev", "udev"} \cap system'.nodes # {}
             THEN pc' = "claim" /\ capabilities' = {"ppdev"} /\ held' \in BOOLEAN
             ELSE pc' = "rest" /\ capabilities' = {} /\ UNCHANGED held
  /\ UNCHANGED <<config, config_read, scan, ports, changes>> /\ NoAnswer

\* check_dev_node: PPCLAIM, which sleeps while the port is not free, and PPRELEASE.
Claimed ==
  /\ pc = "claim" /\ ~held /\ pc' = "rest"
  /\ UNCHANGED <<config, library, scan, ports, outside>> /\ NoAnswer

\* Or PPCLAIM fails, and is not looked at.
ClaimFails ==
  /\ pc = "claim" /\ pc' = "rest" /\ held' = FALSE
  /\ UNCHANGED <<config, library, scan, ports, system, changes>> /\ NoAnswer

\* The rest of detect_environment.
DetectRest ==
  /\ pc = "rest" /\ pc' = "open"
  /\ capabilities' =
       capabilities \cup (system.nodes \cap {"io", "devport"}) \cup ProcType(system)
  /\ UNCHANGED <<config, config_read, detected, scan, ports, outside>> /\ NoAnswer

\* The directory that detection found, if it is still there; or a guess.
Kind ==
  CASE "sysdev" \in capabilities -> "sysdev"
    [] "sysdev" \notin capabilities /\ "proc" \in capabilities -> "proc"
    [] OTHER -> "guess"

Opendir ==
  /\ pc = "open" /\ pc' = "scan"
  /\ todo' = (CASE Kind = "guess"     -> Guesses
                [] Kind = system.proc -> system.dir
                [] OTHER              -> {})
  /\ seen' = todo' /\ short' = FALSE
  /\ UNCHANGED <<config, library, ports, outside>> /\ NoAnswer

\* Device and udevice; where the code leaves a buffer unset, Junk.
Raw(otherwise) ==
  CASE "io" \in capabilities -> Path("")
    [] "io" \notin capabilities /\ "devport" \in capabilities -> Path("/dev/port")
    [] OTHER -> otherwise

BugDevices(n) ==
  IF "ppdev" \in capabilities /\ Kind # "guess"
  THEN <<Node(Len(list)), UdevNode(Len(list))>>
  ELSE <<Raw(Path("")), Path("")>>

Devices(n) ==
  CASE Kind = "guess" -> <<Path("/dev/port"), Null>>
    [] Kind = "proc" -> IF "ppdev" \in capabilities
                        THEN <<Node(Number[n]), UdevNode(Number[n])>>
                        ELSE <<Raw(Junk), Junk>>
    [] Kind = "sysdev" -> IF "ppdev" \in capabilities /\ Number[n] # -1
                          THEN <<Node(Number[n]), UdevNode(Number[n])>>
                          ELSE <<Raw(Path("")), Path("")>>

Port(n) == [name |-> n, device |-> Devices(n)[1], udevice |-> Devices(n)[2],
            filename |-> Devices(n)[1], type |-> "none", open |-> FALSE]

\* The list with p at its place in the order of names.
Sorted(seq, p) ==
  LET before == {i \in DOMAIN seq : seq[i].name < p.name}
      k == Cardinality(before)
  IN  SubSeq(seq, 1, k) \o <<p>> \o SubSeq(seq, k + 1, Len(seq))

\* add_port: its failures are not looked at.
AddPort(n) ==
  /\ pc = "scan" /\ n \in todo /\ todo' = todo \ {n}
  /\ \/ Len(list) # MaxPorts - 1 /\ list' = Sorted(list, Port(n)) /\ UNCHANGED short
     \/ Len(list) = MaxPorts - 1 /\ UNCHANGED <<list, short>>
     \/ short' = TRUE /\ UNCHANGED list
  /\ UNCHANGED <<pc, config, library, seen, kept, outside>> /\ NoAnswer

BugFound ==
  /\ pc = "scan" /\ Cardinality(todo) < 2 /\ pc' = "idle"
  /\ UNCHANGED <<config, library, scan, ports, outside>> /\ NoAnswer

Found ==
  /\ pc = "scan" /\ todo = {} /\ pc' = "idle"
  /\ UNCHANGED <<config, library, scan, ports, outside>> /\ NoAnswer

LibraryStep ==
  \/ ReadConfig \/ ConfigDone \/ NoConfig \/ Detect \/ Claimed \/ DetectRest \/ Opendir
  \/ \E n \in Names \cup Guesses : AddPort(n)
  \/ Found

\* ieee1284_free_ports.
FreePorts ==
  /\ pc = "idle" /\ list # <<>> /\ list' = <<>>
  /\ UNCHANGED <<pc, config, library, scan, kept, outside>> /\ NoAnswer

-----------------------------------------------------------------------------
(* init_port, for ieee1284_open.  A method's init succeeds when what it opens  *)
(* can be opened; the type set last is left behind by a failure.              *)

Allowed(m) == m \in capabilities /\ (m = "ppdev" => ~disallow)

IsNode(path) == path[1] \in {"/dev/parport", "/dev/parports"} /\ path[2] >= 0

\* What open(2) says to a path; nobody knows what a path of junk names.
Opens(path, junk) ==
  \/ IsNode(path) /\ path[1] = "/dev/parport" /\ "ppdev" \in system.nodes
  \/ IsNode(path) /\ path[1] = "/dev/parports" /\ "udev" \in system.nodes
  \/ path = Path("/dev/port") /\ "devport" \in system.nodes
  \/ path = Junk /\ junk

\* What ppdev's init has opened: the device or, failing that, the udevice.
Opened(p, junk) ==
  CASE Opens(p.device, junk) -> p.device
    [] ~Opens(p.device, junk) /\ Opens(p.udevice, junk) -> p.udevice
    [] OTHER -> Null

\* Only a parport knows PPEXCL.
Works(m, p, flags, junk) ==
  IF m = "ppdev"
  THEN /\ flags # "other" /\ Opened(p, junk) # Null
       /\ flags = "excl" => IsNode(Opened(p, junk))
  ELSE flags = "none" /\ m \in system.nodes

\* ppdev's init records the name of what it opened, also when PPEXCL then fails.
Filename(p, flags, junk) ==
  IF Allowed("ppdev") /\ flags # "other" /\ Opened(p, junk) # Null
  THEN Opened(p, junk) ELSE p.filename

Handles == {list[i] : i \in DOMAIN list} \cup {kept[i] : i \in DOMAIN kept}

\* p, of the list or kept, becomes q.
Becomes(p, q) ==
  \/ /\ \E i \in DOMAIN list : p = list[i] /\ list' = [list EXCEPT ![i] = q]
     /\ UNCHANGED kept
  \/ kept = <<p>> /\ kept' = <<q>> /\ UNCHANGED list

\* The methods that are tried, in their order, until one works.
Tried(p, flags, junk) ==
  {k \in DOMAIN Methods :
     /\ Allowed(Methods[k])
     /\ \A j \in 1 .. k - 1 : Allowed(Methods[j]) => ~Works(Methods[j], p, flags, junk)}

\* init_port leaves p with the last of them, m, whether it works or not.
Tries(m, p, flags, junk) ==
  \E k \in Tried(p, flags, junk) : m = Methods[k] /\ \A j \in Tried(p, flags, junk) : j <= k

Left(m, p, flags, junk) ==
  [p EXCEPT !.filename = Filename(p, flags, junk), !.type = m]

Open(p, flags, junk) ==
  /\ pc = "idle" /\ ~p.open
  /\ \E m \in {Methods[k] : k \in DOMAIN Methods} :
       /\ Tries(m, p, flags, junk)
       /\ Becomes(p, [Left(m, p, flags, junk) EXCEPT !.open = Works(m, p, flags, junk)])
  /\ UNCHANGED <<pc, config, library, scan, outside>> /\ NoAnswer

Close(p) ==
  /\ pc = "idle" /\ p.open /\ Becomes(p, [p EXCEPT !.open = FALSE])
  /\ UNCHANGED <<pc, config, library, scan, outside>> /\ NoAnswer

-----------------------------------------------------------------------------
(* ieee1284_get_deviceid: where the ID comes from, and what the caller gets of *)
(* an ID of so many bytes, the length field among them.                       *)

Least(a, b) == IF a < b THEN a ELSE b

Id(source, whole, field, len, filled, ret) ==
  [source |-> source, whole |-> whole, field |-> field, len |-> len, filled |-> filled,
   ret |-> ret]

\* As size_t, what is negative is very large.
Size(n) == IF n < 0 THEN SizeT + n ELSE n

\* The file deviceid under /proc/sys/dev/parport.
FromDeviceid(whole, len) ==
  Id("deviceid", whole, 0, len, Least(whole, len), Least(whole, len))

\* A file autoprobe holds the ID without its length field; room is how much of it
\* is read.
FromAutoprobe(whole, len, room) ==
  LET got == Least(whole - 2, room) IN Id("autoprobe", whole, 0, len, 2 + got, got)

\* A plain char is signed.
Char(b) == IF b < 128 THEN b ELSE b - 256

IdLen(field) == 256 * Char(field \div 256) + Char(field % 256)

BugAsks(field, len) == Least(IdLen(field), len - 2)

Asks(field, len) == Least(Size(IdLen(field)), Size(len - 2))

\* get_fresh: it asks for the length the field says behind the field, and the
\* nibble read at the end of the data returns what was asked for, or after an odd
\* number of bytes times out (NibbleRead).
FromDevice(field, whole, len) ==
  LET asked == Asks(field, len)
      rest == whole - 2
      read == IF asked > rest /\ rest % 2 = 1 THEN rest ELSE asked
  IN  Id("device", whole, field, len, 2 + Least(asked, rest), 2 + read)

\* How much of an autoprobe file is read; read(2) refuses what is negative.
Room(len) == IF "sysdev" \in capabilities THEN len - 3 ELSE len - 2

\* has: the files the kernel has of the ID.  One that cannot be opened, or of which
\* nothing is read, sends the call on to the next source.
Source(fresh, has, len) ==
  CASE ~fresh /\ "sysdev" \in capabilities /\ "deviceid" \in has /\ len > 0 -> "deviceid"
    [] /\ ~fresh /\ {"sysdev", "proc"} \cap capabilities # {} /\ "autoprobe" \in has
       /\ "sysdev" \in capabilities => "deviceid" \notin has
       /\ Room(len) > 0 -> "autoprobe"
    [] OTHER -> "device"

\* The device is opened for the call and closed again; a call that fails to open or to
\* claim it is as in PortLifecycle.
Borrow(p) ==
  \E m \in {Methods[k] : k \in DOMAIN Methods}, junk \in BOOLEAN :
    /\ Tries(m, p, "none", junk) /\ Works(m, p, "none", junk)
    /\ Becomes(p, Left(m, p, "none", junk))

\* A call that gets an ID.  Bound: it is looked at with one port in the list, which was
\* not opened yet, and before the system changes.
GetDeviceid(fresh, has, whole, field, len) ==
  /\ pc = "idle" /\ Len(list) = 1 /\ kept = <<>> /\ changes = 0
  /\ list[1].type = "none" /\ ~list[1].open /\ id = NoId
  /\ \/ /\ Source(fresh, has, len) = "deviceid" /\ id' = FromDeviceid(whole, len)
        /\ UNCHANGED ports
     \/ /\ Source(fresh, has, len) = "autoprobe" /\ id' = FromAutoprobe(whole, len, Room(len))
        /\ UNCHANGED ports
     \/ /\ Source(fresh, has, len) = "device" /\ id' = FromDevice(field, whole, len)
        /\ Borrow(list[1])
  /\ UNCHANGED <<pc, config, library, scan, outside>>

-----------------------------------------------------------------------------
\* A driver is loaded or removed, with its devices or its entries (external).  Bound:
\* where the next step may look.
Change ==
  /\ pc \in {"idle", "claim", "rest", "open"} /\ detected /\ changes < MaxChanges
  /\ system' \in Systems /\ changes' = changes + 1
  /\ system'.nodes = system.nodes \/ <<system'.proc, system'.dir>> = <<system.proc, system.dir>>
  /\ UNCHANGED <<pc, config, library, scan, ports, held>> /\ NoAnswer

\* Another process claims the port and gives it back (external).
Take ==
  /\ pc = "claim" /\ ~held /\ held' = TRUE
  /\ UNCHANGED <<pc, config, library, scan, ports, system, changes, id>>

GiveBack ==
  /\ pc = "claim" /\ held /\ held' = FALSE
  /\ UNCHANGED <<pc, config, library, scan, ports, system, changes, id>>

\* What the system is like before it is looked at does not matter.
Init ==
  /\ pc = "idle" /\ file = NoFile /\ line = <<>> /\ at = 1 /\ where = "end" /\ tokens = <<>>
  /\ had = 0 /\ disallow = FALSE /\ config_read = FALSE /\ detected = FALSE
  /\ capabilities = {} /\ todo = {} /\ seen = {} /\ short = FALSE /\ list = <<>> /\ kept = <<>>
  /\ system = [nodes |-> {}, proc |-> "none", dir |-> {}] /\ held = FALSE /\ changes = 0
  /\ id = NoId

Next ==
  \/ FindPorts \/ LibraryStep \/ ClaimFails \/ FreePorts
  \/ \E p \in Handles :
       Close(p) \/ \E flags \in Flags, junk \in BOOLEAN : Open(p, flags, junk)
  \/ \E fresh \in BOOLEAN, has \in SUBSET {"deviceid", "autoprobe"}, len \in Buffers :
       \E whole \in Ids : \E field \in {whole, whole - 2} :
         GetDeviceid(fresh, has, whole, field, len)
  \/ Change \/ Take \/ GiveBack

Spec == Init /\ [][Next]_vars

\* find_ports goes on; other processes give the port back, and the kernel grants it to
\* who waits for it in the end.
FairSpec == Spec /\ WF_vars(LibraryStep) /\ WF_vars(GiveBack) /\ SF_vars(Claimed)

-----------------------------------------------------------------------------
(* Properties. *)

TypeOK ==
  /\ pc \in {"idle", "config", "detect", "claim", "rest", "open", "scan"}
  /\ config_read \in BOOLEAN /\ detected \in BOOLEAN /\ short \in BOOLEAN
  /\ capabilities \subseteq {"ppdev", "io", "devport", "sysdev", "proc"}
  /\ todo \subseteq seen /\ seen \subseteq Names \cup Guesses
  /\ Len(list) < MaxPorts /\ Len(kept) <= 1
  /\ \A p \in Handles : p.name \in Names \cup Guesses /\ p.open \in BOOLEAN
       /\ p.type \in {"ppdev", "io", "devport", "none"}
  /\ system \in Systems /\ held \in BOOLEAN /\ changes \in 0 .. MaxChanges

\* The configuration file is read as the manual page says, but for comments glued to a
\* token: at the end of a line its tokens are those the line spells, and ppdev is
\* disallowed exactly when the words of the file so far say so.  get_token goes behind
\* the end of a line only at a backslash.
ConfigAsDocumented == pc = "config" =>
  Config!TypeOK /\ Config!TokensAsDocumented /\ Config!DisallowAsDocumented

Stuck == pc = "config" /\ where = "stuck"

\* find_ports returns, whatever the system is, when other processes give back the port
\* that detection claims, unless the file ends in a backslash and get_token hangs
\* behind it.
CallsReturn == pc # "idle" ~> pc = "idle" \/ Stuck

Listed == {list[i].name : i \in DOMAIN list}

\* The ports are in the order of their names, each once, and they are all there
\* were, up to the limit, less those find_ports has still to come to.
ListIsComplete ==
  /\ \A i, j \in DOMAIN list : i < j => list[i].name < list[j].name
  /\ list # <<>> /\ ~short =>
       /\ Listed \subseteq seen
       /\ \/ Len(list) = MaxPorts - 1
          \/ Listed \cup (IF pc = "scan" THEN todo ELSE {}) = seen

\* A port that is open with ppdev is open on a device node of its own number or, when it
\* has none or was guessed, on /dev/port; never on another port's node nor on a path
\* nobody wrote.
OwnNode == \A p \in Handles : p.open /\ p.type = "ppdev" =>
  IF Kind = "guess" \/ Number[p.name] = -1
  THEN p.filename = Path("/dev/port")
  ELSE p.filename \in {Node(Number[p.name]), UdevNode(Number[p.name])}

\* The length the field says, as it is read, is another one.
Misread(field) == IdLen(field) >= 0 /\ IdLen(field) # field

\* Of two bytes or more the ID never exceeds the buffer, and a buffer with room for it
\* and its zero byte gets all of it: but for an ID read from the device whose length
\* has a low byte that is negative as a char, and counts 256 less.
IdIsWhole ==
  /\ id.len >= 2 => id.filled <= id.len /\ id.ret <= id.len
  /\ id.whole + 1 <= id.len /\ ~Misread(id.field) => id.filled = id.whole
=============================================================================
