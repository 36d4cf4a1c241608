---------------------------- MODULE DiscoveryProofs ----------------------------
(***************************************************************************)
(* A port is opened with ppdev on a device node of its own number or, when *)
(* it has none, on /dev/port, for every configuration file, every set of   *)
(* names and drivers, and every change of the system.  What is detected    *)
(* may be out of date when a port is opened; the argument is that it does  *)
(* not change once there are ports made from it, those the application     *)
(* keeps from an earlier list among them, and so a path is never used      *)
(* under capabilities other than those it was made under.                  *)
(***************************************************************************)
EXTENDS Discovery, FiniteSetTheorems, TLAPS

Paths == {Path(s) : s \in {"", "/dev/port", "NULL", "uninitialised"}}
           \cup {Node(n) : n \in Int} \cup {UdevNode(n) : n \in Int}
Types == {"ppdev", "io", "devport", "none"}
Ports == [name : Names \cup Guesses, device : Paths, udevice : Paths, filename : Paths,
          type : Types, open : BOOLEAN]

\* Where a port's paths come from, and what it can be open on with ppdev.
Faithful(p) ==
  /\ p.device = Devices(p.name)[1] /\ p.udevice = Devices(p.name)[2]
  /\ p.open /\ p.type = "ppdev" =>
       /\ "ppdev" \in capabilities
       /\ p.filename \in {p.device, p.udevice}
       /\ IsNode(p.filename) \/ p.filename \in {Path("/dev/port"), Junk}

\* The names there can be a list of.
Known == IF Kind = "guess" THEN Guesses ELSE Names

\* No port is made before all is detected.
IInv ==
  /\ TypeOK
  /\ list \in Seq(Ports) /\ kept \in Seq(Ports)
  /\ pc \in {"config", "detect", "claim", "rest", "open"} => list = <<>>
  /\ ~detected \/ pc \in {"claim", "rest"} => list = <<>> /\ kept = <<>>
  /\ ~detected => pc \in {"idle", "config", "detect"}
  /\ pc = "scan" => todo \subseteq Known
  /\ \A p \in Handles : p.name \in Known /\ Faithful(p)

-----------------------------------------------------------------------------
(* Paths. *)

LEMMA KindIsOne == Kind \in {"sysdev", "proc", "guess"}
BY DEF Kind

\* What find_ports writes down is a pair of paths.
LEMMA DevicesType ==
  ASSUME NEW n \in Known
  PROVE  Devices(n)[1] \in Paths /\ Devices(n)[2] \in Paths
<1>1. \A s \in {"", "/dev/port", "NULL", "uninitialised"} : Path(s) \in Paths
  BY DEF Paths
<1>2. Junk \in Paths /\ Null \in Paths
  BY <1>1 DEF Junk, Null
<1>3. \A s \in Paths : Raw(s) \in Paths
  BY <1>1 DEF Raw
<1>4. n \in Names => Node(Number[n]) \in Paths /\ UdevNode(Number[n]) \in Paths
  BY NamesAssumption DEF Paths
<1> HIDE DEF Paths
<1>5. CASE Kind = "guess"
  BY <1>5, <1>1, <1>2 DEF Devices
<1>6. CASE Kind = "proc"
  BY <1>6, <1>2, <1>3, <1>4 DEF Devices, Known
<1>7. CASE Kind = "sysdev"
  BY <1>7, <1>1, <1>3, <1>4 DEF Devices, Known
<1> QED
  BY <1>5, <1>6, <1>7, KindIsOne

\* With ppdev, a path that can be opened is the port's own node, or it has none.
LEMMA NodeIsOwn ==
  ASSUME NEW n \in Known, "ppdev" \in capabilities, NEW path \in {Devices(n)[1], Devices(n)[2]},
         IsNode(path) \/ path \in {Path("/dev/port"), Junk}
  PROVE  IF Kind = "guess" \/ Number[n] = -1
         THEN path = Path("/dev/port")
         ELSE path \in {Node(Number[n]), UdevNode(Number[n])}
<1>1. \A k : /\ Node(k) \notin {Junk, Path("/dev/port")}
             /\ UdevNode(k) \notin {Junk, Path("/dev/port")}
             /\ k = -1 => ~IsNode(Node(k)) /\ ~IsNode(UdevNode(k))
  BY DEF Node, UdevNode, Junk, Path, IsNode
<1>2. Raw(Path("")) \in {Path(""), Path("/dev/port")}
  BY DEF Raw
<1>3. /\ Path("") \notin {Path("/dev/port"), Junk} /\ ~IsNode(Path(""))
      /\ Null \notin {Path("/dev/port"), Junk} /\ ~IsNode(Null)
  BY DEF Path, Junk, Null, IsNode
<1>4. CASE Kind = "guess"
  <2>1. path \in {Path("/dev/port"), Null}
    BY <1>4 DEF Devices
  <2> QED
    BY <2>1, <1>3, <1>4
<1>5. CASE Kind = "proc"
  <2>1. path \in {Node(Number[n]), UdevNode(Number[n])}
    BY <1>5 DEF Devices
  <2> QED
    BY <2>1, <1>1, <1>5
<1>6. CASE Kind = "sysdev"
  <2>1. CASE Number[n] # -1
    <3>1. path \in {Node(Number[n]), UdevNode(Number[n])}
      BY <1>6, <2>1 DEF Devices
    <3> QED
      BY <3>1, <2>1, <1>6
  <2>2. CASE Number[n] = -1
    <3>1. path \in {Raw(Path("")), Path("")}
      BY <1>6, <2>2 DEF Devices
    <3> QED
      BY <3>1, <2>2, <1>2, <1>3
  <2> QED
    BY <2>1, <2>2
<1> QED
  BY <1>4, <1>5, <1>6, KindIsOne

-----------------------------------------------------------------------------
(* The list. *)

Before(seq, p) == {i \in DOMAIN seq : seq[i].name < p.name}

\* Putting a port in its place: what is before it, the port, and the rest.
LEMMA SortedShape ==
  ASSUME NEW seq \in Seq(Ports), NEW p \in Ports
  PROVE  LET k == Cardinality(Before(seq, p)) IN
         /\ k \in 0 .. Len(seq)
         /\ Sorted(seq, p) \in Seq(Ports)
         /\ Len(Sorted(seq, p)) = Len(seq) + 1
         /\ \A i \in 1 .. k : Sorted(seq, p)[i] = seq[i]
         /\ Sorted(seq, p)[k + 1] = p
         /\ \A i \in k + 2 .. Len(seq) + 1 : Sorted(seq, p)[i] = seq[i - 1]
<1> DEFINE k == Cardinality(Before(seq, p))
           a == SubSeq(seq, 1, k)
           b == SubSeq(seq, k + 1, Len(seq))
<1>1. k \in 0 .. Len(seq)
  <2>1. IsFiniteSet(1 .. Len(seq)) /\ Cardinality(1 .. Len(seq)) = Len(seq)
    BY FS_Interval, Len(seq) \in Nat
  <2>2. Before(seq, p) \subseteq 1 .. Len(seq)
    BY DEF Before
  <2> QED
    BY <2>1, <2>2, FS_Subset, FS_CardinalityType
<1> HIDE DEF k
<1>2. /\ a \in Seq(Ports) /\ Len(a) = k /\ \A i \in 1 .. k : a[i] = seq[i]
      /\ b \in Seq(Ports) /\ Len(b) = Len(seq) - k
      /\ \A i \in 1 .. Len(seq) - k : b[i] = seq[k + i]
  BY <1>1
<1>3. Sorted(seq, p) = a \o <<p>> \o b
  BY DEF Sorted, Before, k
<1> HIDE DEF a, b
<1> DEFINE c == a \o <<p>>
           s == c \o b
<1>4. /\ c \in Seq(Ports) /\ Len(c) = k + 1
      /\ \A i \in 1 .. k : c[i] = a[i]
      /\ c[k + 1] = p
  <2>1. <<p>> \in Seq(Ports) /\ Len(<<p>>) = 1 /\ <<p>>[1] = p
    OBVIOUS
  <2>2. c \in Seq(Ports) /\ Len(c) = k + 1
    BY <2>1, <1>1, <1>2
  <2>3. \A i \in 1 .. k : c[i] = a[i]
    BY <2>1, <1>1, <1>2
  <2>4. c[k + 1] = p
    BY <2>1, <1>1, <1>2
  <2> QED
    BY <2>2, <2>3, <2>4
<1> HIDE DEF c
<1>5. /\ s \in Seq(Ports) /\ Len(s) = Len(seq) + 1
      /\ \A i \in 1 .. k + 1 : s[i] = c[i]
      /\ \A i \in k + 2 .. Len(seq) + 1 : s[i] = b[i - k - 1]
  <2>1. \A S : \A u, v \in Seq(S) :
          /\ u \o v \in Seq(S) /\ Len(u \o v) = Len(u) + Len(v)
          /\ \A i \in 1 .. Len(u) : (u \o v)[i] = u[i]
          /\ \A i \in Len(u) + 1 .. Len(u) + Len(v) : (u \o v)[i] = v[i - Len(u)]
    OBVIOUS
  <2>2. /\ s \in Seq(Ports) /\ Len(s) = Len(c) + Len(b)
        /\ \A i \in 1 .. Len(c) : s[i] = c[i]
        /\ \A i \in Len(c) + 1 .. Len(c) + Len(b) : s[i] = b[i - Len(c)]
    <3>1. c \in Seq(Ports) /\ b \in Seq(Ports)
      BY <1>2, <1>4
    <3> QED
      BY <2>1, <3>1, Zenon
  <2> HIDE DEF s
  <2>3. Len(c) = k + 1 /\ Len(b) = Len(seq) - k /\ k \in Nat /\ Len(seq) \in Nat
    BY <1>1, <1>2, <1>4
  <2>4. Len(s) = Len(seq) + 1
    BY ONLY <2>2, <2>3
  <2>5. \A i \in 1 .. k + 1 : s[i] = c[i]
    BY ONLY <2>2, <2>3
  <2>6. \A i \in k + 2 .. Len(seq) + 1 : s[i] = b[i - k - 1]
    <3>1. ASSUME NEW i \in k + 2 .. Len(seq) + 1
          PROVE  i \in Len(c) + 1 .. Len(c) + Len(b) /\ i - Len(c) = i - k - 1
      BY ONLY <2>3, <3>1
    <3> QED
      BY <2>2, <3>1
  <2> QED
    BY <2>2, <2>4, <2>5, <2>6
<1>6. \A i \in 1 .. k : s[i] = seq[i]
  BY <1>1, <1>2, <1>4, <1>5
<1>7. s[k + 1] = p
  BY <1>1, <1>4, <1>5
<1>8. ASSUME NEW i \in k + 2 .. Len(seq) + 1 PROVE s[i] = seq[i - 1]
  <2>1. i - k - 1 \in 1 .. Len(seq) - k /\ k + (i - k - 1) = i - 1
    BY <1>1
  <2> QED
    BY <2>1, <1>2, <1>5
<1> QED
  BY <1>1, <1>3, <1>5, <1>6, <1>7, <1>8 DEF c, k

\* It adds the port and loses none.
LEMMA SortedAdds ==
  ASSUME NEW seq \in Seq(Ports), NEW p \in Ports
  PROVE  /\ Sorted(seq, p) \in Seq(Ports)
         /\ Len(Sorted(seq, p)) = Len(seq) + 1
         /\ \A i \in DOMAIN Sorted(seq, p) :
              \/ Sorted(seq, p)[i] = p
              \/ \E j \in DOMAIN seq : Sorted(seq, p)[i] = seq[j]
         /\ \E i \in DOMAIN Sorted(seq, p) : Sorted(seq, p)[i] = p
         /\ \A j \in DOMAIN seq :
              \E i \in DOMAIN Sorted(seq, p) : Sorted(seq, p)[i] = seq[j]
<1> DEFINE k == Cardinality(Before(seq, p))
           s == Sorted(seq, p)
           n == Len(seq)
<1>0. n \in Nat /\ DOMAIN seq = 1 .. n
  OBVIOUS
<1> HIDE DEF k, s, Ports
<1>1. /\ k \in 0 .. n /\ s \in Seq(Ports) /\ Len(s) = n + 1
      /\ \A i \in 1 .. k : s[i] = seq[i]
      /\ s[k + 1] = p
      /\ \A i \in k + 2 .. n + 1 : s[i] = seq[i - 1]
  BY SortedShape DEF k, s
<1> HIDE DEF n
<1>2. DOMAIN s = 1 .. n + 1 /\ DOMAIN seq = 1 .. n
  BY <1>0, <1>1
<1>3. ASSUME NEW i \in DOMAIN s
      PROVE  s[i] = p \/ \E j \in DOMAIN seq : s[i] = seq[j]
  <2>1. CASE i \in 1 .. k
    <3>1. s[i] = seq[i] /\ i \in 1 .. n
      BY <2>1, <1>0, <1>1
    <3> QED
      BY <3>1, <1>2
  <2>2. CASE i = k + 1
    BY <2>2, <1>0, <1>1
  <2>3. CASE i \in k + 2 .. n + 1
    <3>1. s[i] = seq[i - 1] /\ i - 1 \in 1 .. n
      BY <2>3, <1>0, <1>1
    <3> QED
      BY <3>1, <1>2
  <2> QED
    BY <2>1, <2>2, <2>3, <1>0, <1>1, <1>2
<1>4. \E i \in DOMAIN s : s[i] = p
  <2>1. k + 1 \in DOMAIN s
    BY <1>0, <1>1, <1>2
  <2> QED
    BY <2>1, <1>0, <1>1
<1>5. ASSUME NEW j \in DOMAIN seq PROVE \E i \in DOMAIN s : s[i] = seq[j]
  <2>1. CASE j \in 1 .. k
    <3>1. s[j] = seq[j] /\ j \in DOMAIN s
      BY <2>1, <1>0, <1>1, <1>2
    <3> QED
      BY <3>1
  <2>2. CASE j \in k + 1 .. n
    <3>1. j + 1 \in k + 2 .. n + 1 /\ (j + 1) - 1 = j
      BY <2>2, <1>0, <1>1
    <3>2. s[j + 1] = seq[j] /\ j + 1 \in DOMAIN s
      BY <3>1, <1>0, <1>1, <1>2
    <3> QED
      BY <3>2
  <2> QED
    BY <2>1, <2>2, <1>0, <1>1, <1>2
<1> QED
  BY <1>1, <1>3, <1>4, <1>5 DEF s, n

\* A set of the first numbers, without gaps, is as large as its largest.
LEMMA NoGaps ==
  ASSUME NEW n \in Nat, NEW S \in SUBSET (1 .. n),
         \A i \in S : \A j \in 1 .. i : j \in S
  PROVE  S = 1 .. Cardinality(S)
<1> DEFINE k == Cardinality(S)
<1>1. IsFiniteSet(S) /\ k \in Nat
  <2>1. IsFiniteSet(1 .. n)
    BY FS_Interval
  <2> QED
    BY <2>1, FS_Subset, FS_CardinalityType
<1>2. ASSUME NEW i \in S PROVE i <= k
  <2>1. i \in Nat /\ 1 .. i \in SUBSET S
    OBVIOUS
  <2>2. Cardinality(1 .. i) = i
    BY <2>1, FS_Interval
  <2> QED
    BY <1>1, <2>1, <2>2, FS_Subset
<1> HIDE DEF k
<1>3. S \in SUBSET (1 .. k)
  BY <1>1, <1>2
<1>4. IsFiniteSet(1 .. k) /\ Cardinality(1 .. k) = k
  BY <1>1, FS_Interval
<1> QED
  BY <1>3, <1>4, FS_Subset DEF k

InOrder(seq) == \A i, j \in DOMAIN seq : i < j => seq[i].name < seq[j].name

\* In a list that is in order, a port with another name is put where it belongs.
LEMMA SortedInOrder ==
  ASSUME NEW seq \in Seq(Ports), NEW p \in Ports, InOrder(seq),
         \A i \in DOMAIN seq : seq[i].name # p.name
  PROVE  InOrder(Sorted(seq, p))
<1> DEFINE B == Before(seq, p)
           k == Cardinality(B)
           s == Sorted(seq, p)
           n == Len(seq)
<1>0. n \in Nat /\ DOMAIN seq = 1 .. n
  OBVIOUS
<1>1. p.name \in Nat /\ \A i \in 1 .. n : seq[i].name \in Nat
  <2>1. \A q \in Ports : q.name \in Nat
    BY NamesAssumption DEF Ports
  <2>2. \A i \in 1 .. n : seq[i] \in Ports
    BY <1>0
  <2> QED
    BY <2>1, <2>2
<1>2. B = 1 .. k
  <2>1. B \in SUBSET (1 .. n)
    BY DEF Before
  <2>2. ASSUME NEW i \in B, NEW j \in 1 .. i PROVE j \in B
    <3>1. i \in 1 .. n /\ j \in 1 .. n /\ seq[i].name < p.name
      BY <2>1, <2>2 DEF Before
    <3>2. j = i \/ seq[j].name < seq[i].name
      BY <3>1, <1>0 DEF InOrder
    <3> QED
      BY <3>1, <3>2, <1>0, <1>1 DEF Before
  <2> QED
    BY <2>1, <2>2, <1>0, NoGaps
<1> HIDE DEF k, s, Ports
<1>3. /\ k \in 0 .. n /\ Len(s) = n + 1 /\ s \in Seq(Ports)
      /\ \A i \in 1 .. k : s[i] = seq[i]
      /\ s[k + 1] = p
      /\ \A i \in k + 2 .. n + 1 : s[i] = seq[i - 1]
  BY SortedShape DEF k, s
<1>4. \A i \in 1 .. k : seq[i].name < p.name
  BY <1>2 DEF Before
<1>5. \A i \in k + 1 .. n : p.name < seq[i].name
  <2> SUFFICES ASSUME NEW i \in k + 1 .. n PROVE p.name < seq[i].name
    OBVIOUS
  <2>1. i \in 1 .. n /\ i \notin B
    BY <1>2, <1>3
  <2> QED
    BY <2>1, <1>0, <1>1 DEF Before
<1> HIDE DEF n, B
<1>6. ASSUME NEW i \in 1 .. n + 1, NEW j \in 1 .. n + 1, i < j
      PROVE  s[i].name < s[j].name
  <2>1. CASE j \in 1 .. k
    BY <2>1, <1>0, <1>3, <1>6 DEF InOrder
  <2>2. CASE j = k + 1
    BY <2>2, <1>3, <1>4, <1>6
  <2>3. CASE j \in k + 2 .. n + 1
    <3>1. s[j] = seq[j - 1] /\ j - 1 \in k + 1 .. n /\ j - 1 \in 1 .. n
      BY <2>3, <1>0, <1>3
    <3>2. CASE i \in 1 .. k
      <4>1. s[i] = seq[i] /\ i \in 1 .. n /\ i < j - 1
        BY <3>1, <3>2, <1>0, <1>3
      <4> QED
        BY <3>1, <4>1, <1>0 DEF InOrder
    <3>3. CASE i = k + 1
      BY <3>1, <3>3, <1>3, <1>5
    <3>4. CASE i \in k + 2 .. n + 1
      <4>1. s[i] = seq[i - 1] /\ i - 1 \in 1 .. n /\ i - 1 < j - 1
        BY <3>1, <3>4, <1>0, <1>3, <1>6
      <4> QED
        BY <3>1, <4>1, <1>0 DEF InOrder
    <3> QED
      BY <3>2, <3>3, <3>4, <1>0, <1>3
  <2> QED
    BY <2>1, <2>2, <2>3, <1>0, <1>3
<1>7. DOMAIN s = 1 .. n + 1
  BY <1>0, <1>3
<1> QED
  BY <1>6, <1>7 DEF InOrder, s

-----------------------------------------------------------------------------
(* The invariant. *)

LEMMA EmptyFacts ==
  <<>> \in Seq(Ports) /\ Len(<<>>) = 0 /\ DOMAIN <<>> = {}
OBVIOUS

LEMMA HandlesType ==
  ASSUME list \in Seq(Ports), kept \in Seq(Ports)
  PROVE  Handles \subseteq Ports
BY DEF Handles

\* With its type, what TypeOK says of a port.
LEMMA PortType ==
  ASSUME NEW p \in Ports
  PROVE  p.name \in Names \cup Guesses /\ p.open \in BOOLEAN
           /\ p.type \in {"ppdev", "io", "devport", "none"}
BY DEF Ports, Types

\* Without a port, whatever is read or detected will do.
LEMMA NoPorts ==
  /\ list = <<>> /\ kept = <<>> /\ pc # "scan" /\ TypeOK
  /\ ~detected => pc \in {"idle", "config", "detect"}
  => IInv
<1> SUFFICES ASSUME list = <<>>, kept = <<>>, pc # "scan", TypeOK,
                    ~detected => pc \in {"idle", "config", "detect"}
             PROVE  IInv
  OBVIOUS
<1>1. Handles = {}
  BY EmptyFacts DEF Handles
<1> QED
  BY <1>1, EmptyFacts DEF IInv

LEMMA NoPortsNext ==
  ASSUME list' = <<>>, kept' = <<>>, pc' # "scan", TypeOK',
         ~detected' => pc' \in {"idle", "config", "detect"}
  PROVE  IInv'
<1>1. Handles' = {}
  BY EmptyFacts DEF Handles
<1> QED
  BY <1>1, EmptyFacts DEF IInv

LEMMA InitEstablishes == Init => IInv
<1> SUFFICES ASSUME Init PROVE IInv
  OBVIOUS
<1>1. list = <<>> /\ kept = <<>>
  BY DEF Init
<1>2. system \in Systems
  BY DEF Init, Systems
<1>3. /\ pc = "idle" /\ config_read = FALSE /\ detected = FALSE /\ capabilities = {}
      /\ todo = {} /\ seen = {} /\ short = FALSE /\ held = FALSE /\ changes = 0
  BY DEF Init
<1>4. Len(list) < MaxPorts /\ Len(kept) <= 1 /\ changes \in 0 .. MaxChanges /\ Handles = {}
  BY <1>1, <1>3, LimitAssumption, EmptyFacts DEF Handles
<1>5. TypeOK
  BY <1>2, <1>3, <1>4 DEF TypeOK
<1> QED
  BY <1>1, <1>3, <1>5, NoPorts

\* Capabilities, which Known and Faithful read, are detected before there is a port.
LEMMA CapabilitiesStay ==
  ASSUME UNCHANGED capabilities
  PROVE  Known' = Known /\ \A p : Faithful(p)' <=> Faithful(p)
<1>1. Kind' = Kind
  BY DEF Kind
<1>2. \A path : Raw(path)' = Raw(path)
  BY DEF Raw
<1>3. \A n : Devices(n)' = Devices(n)
  BY <1>1, <1>2 DEF Devices
<1> QED
  BY <1>1, <1>3 DEF Known, Faithful

\* A step after which there are only ports there were, and one that is made as they were.
LEMMA PortsJoin ==
  ASSUME IInv, UNCHANGED <<capabilities, detected>>, NEW q, Handles' \subseteq Handles \cup {q},
         q \in Handles \/ (q.name \in Known /\ Faithful(q)),
         list' \in Seq(Ports), kept' \in Seq(Ports), TypeOK',
         pc' \in {"config", "detect", "claim", "rest", "open"} => list' = <<>>,
         detected' \/ (list' = <<>> /\ kept' = <<>>),
         pc' \in {"claim", "rest"} => pc = pc' /\ list' = <<>> /\ UNCHANGED kept,
         ~detected => pc' \in {"idle", "config", "detect"},
         pc' = "scan" => todo' \subseteq Known
  PROVE  IInv'
<1>1. \A p \in Handles' : p.name \in Known /\ Faithful(p)
  BY DEF IInv
<1>2. \A p \in Handles' : p.name \in Known' /\ Faithful(p)'
  BY <1>1, CapabilitiesStay
<1>3. ~detected' \/ pc' \in {"claim", "rest"} => list' = <<>> /\ kept' = <<>>
  BY DEF IInv
<1>4. (~detected => pc \in {"idle", "config", "detect"})'
  OBVIOUS
<1>5. (\A p \in Handles : p.name \in Known /\ Faithful(p))'
  BY <1>2
<1>6. Known' = Known
  BY CapabilitiesStay
<1> QED
  BY <1>3, <1>4, <1>5, <1>6 DEF IInv

LEMMA PortsStay ==
  ASSUME IInv, UNCHANGED <<capabilities, detected>>, Handles' \subseteq Handles,
         list' \in Seq(Ports), kept' \in Seq(Ports), TypeOK',
         pc' \in {"config", "detect", "claim", "rest", "open"} => list' = <<>>,
         detected' \/ (list' = <<>> /\ kept' = <<>>),
         pc' \in {"claim", "rest"} => pc = pc' /\ list' = <<>> /\ UNCHANGED kept,
         ~detected => pc' \in {"idle", "config", "detect"},
         pc' = "scan" => todo' \subseteq Known
  PROVE  IInv'
<1>1. CASE Handles = {}
  <2>1. \A p \in Handles' : p.name \in Known' /\ Faithful(p)'
    BY <1>1
  <2>2. (\A p \in Handles : p.name \in Known /\ Faithful(p))'
    BY <2>1
  <2>3. ~detected' \/ pc' \in {"claim", "rest"} => list' = <<>> /\ kept' = <<>>
    BY DEF IInv
  <2>4. (~detected => pc \in {"idle", "config", "detect"})'
    OBVIOUS
  <2>5. Known' = Known
    BY CapabilitiesStay
  <2> QED
    BY <2>2, <2>3, <2>4, <2>5 DEF IInv
<1>2. CASE Handles # {}
  <2>1. PICK q : q \in Handles
    BY <1>2
  <2>2. Handles' \subseteq Handles \cup {q}
    OBVIOUS
  <2> QED
    BY <2>1, <2>2, PortsJoin
<1> QED
  BY <1>1, <1>2

\* Of a port that was open the application may keep the struct.
LEMMA KeepsOld ==
  ASSUME IInv
  PROVE  \A s \in {<<>>, kept} \cup Keeps :
           /\ s \in Seq(Ports) /\ Len(s) <= 1
           /\ \A i \in DOMAIN s : s[i] \in Handles
           /\ ~detected => s = <<>>
<1>1. ASSUME NEW s \in Keeps
      PROVE  \E p \in Ports : p \in Handles /\ s = <<p>> /\ detected
  <2>1. PICK i \in DOMAIN list : s = <<list[i]>>
    BY <1>1 DEF Keeps
  <2>2. list[i] \in Ports /\ list[i] \in Handles /\ list # <<>>
    BY <2>1 DEF IInv, Handles
  <2> QED
    BY <2>1, <2>2 DEF IInv
<1>2. \A p \in Ports : <<p>> \in Seq(Ports) /\ Len(<<p>>) = 1 /\ DOMAIN <<p>> = {1} /\ <<p>>[1] = p
  OBVIOUS
<1>3. /\ kept \in Seq(Ports) /\ Len(kept) <= 1 /\ \A i \in DOMAIN kept : kept[i] \in Handles
      /\ ~detected => kept = <<>>
  BY DEF IInv, TypeOK, Handles
<1> HIDE DEF Ports
<1>4. ASSUME NEW s \in Keeps
      PROVE  /\ s \in Seq(Ports) /\ Len(s) <= 1
             /\ \A i \in DOMAIN s : s[i] \in Handles
             /\ ~detected => s = <<>>
  <2>1. PICK p \in Ports : p \in Handles /\ s = <<p>> /\ detected
    BY <1>1, <1>4
  <2> QED
    BY <2>1, <1>2
<1>5. /\ <<>> \in Seq(Ports) /\ Len(<<>>) <= 1
      /\ \A i \in DOMAIN <<>> : <<>>[i] \in Handles
  BY EmptyFacts
<1> QED
  BY <1>3, <1>4, <1>5, Zenon

LEMMA FindPreserves == IInv /\ FindPorts => IInv'
<1> SUFFICES ASSUME IInv, FindPorts PROVE IInv'
  OBVIOUS
<1>1. /\ list' = <<>> /\ kept' \in {<<>>, kept} \cup Keeps /\ pc' \in {"config", "detect"}
      /\ UNCHANGED <<config_read, detected, capabilities, todo, seen, short, system, held, changes>>
  BY DEF FindPorts, library, scan, outside
<1>2. /\ kept' \in Seq(Ports) /\ Len(kept') <= 1
      /\ \A i \in DOMAIN kept' : kept'[i] \in Handles
      /\ ~detected => kept' = <<>>
  BY <1>1, KeepsOld
<1>3. Handles' \subseteq Handles
  BY <1>1, <1>2, EmptyFacts DEF Handles
<1>4. TypeOK'
  BY <1>1, <1>2, <1>3, EmptyFacts, LimitAssumption DEF IInv, TypeOK
<1> QED
  BY <1>1, <1>2, <1>3, <1>4, EmptyFacts, PortsStay

\* Nothing of the ports changes, nor of what they were made under.
LEMMA QuietPreserves ==
  ASSUME IInv, UNCHANGED <<list, kept, capabilities, detected, todo, seen, short>>,
         pc' = pc \/ (pc' \in {"detect", "open", "config"} /\ list = <<>> /\ (detected \/ pc' # "open"))
                  \/ pc' = "idle",
         config_read' \in BOOLEAN, system' \in Systems, held' \in BOOLEAN,
         changes' \in 0 .. MaxChanges
  PROVE  IInv'
<1>1. Handles' = Handles
  BY DEF Handles
<1>2. TypeOK'
  BY <1>1 DEF IInv, TypeOK
<1> QED
  BY <1>1, <1>2, PortsStay DEF IInv

LEMMA ReadingPreserves == IInv /\ (ReadConfig \/ NoConfig \/ ConfigDone) => IInv'
<1> SUFFICES ASSUME IInv, ReadConfig \/ NoConfig \/ ConfigDone PROVE IInv'
  OBVIOUS
<1>1. /\ pc = "config" /\ pc' \in {"config", "detect"} /\ config_read' \in BOOLEAN
      /\ UNCHANGED <<list, kept, capabilities, detected, todo, seen, short, system, held, changes>>
  BY DEF ReadConfig, NoConfig, ConfigDone, library, scan, ports, outside, IInv, TypeOK
<1>2. list = <<>>
  BY <1>1 DEF IInv
<1> QED
  BY <1>1, <1>2, QuietPreserves DEF IInv, TypeOK

\* What is detected, of whatever system.
LEMMA DetectedType ==
  ASSUME NEW s \in Systems
  PROVE  s.nodes \subseteq Nodes /\ ProcType(s) \subseteq {"sysdev", "proc"}
BY SystemAssumption DEF Systems, ProcType

LEMMA DetectPreserves ==
  IInv /\ (Detect \/ Claimed \/ ClaimFails \/ DetectRest \/ Take \/ GiveBack) => IInv'
<1>1. ASSUME IInv, Detect PROVE IInv'
  <2>1. /\ pc = "detect" /\ detected' = TRUE /\ list = <<>>
        /\ UNCHANGED <<list, kept, config_read, todo, seen, short, changes>>
    BY <1>1 DEF Detect, IInv, scan, ports
  <2>2. CASE detected
    <3>1. pc' = "open" /\ UNCHANGED <<capabilities, system, held>>
      BY <1>1, <2>2 DEF Detect
    <3> QED
      BY <1>1, <2>1, <2>2, <3>1, QuietPreserves DEF IInv, TypeOK
  <2>3. CASE ~detected
    <3>1. /\ system' \in Systems /\ capabilities' \in {{}, {"ppdev"}} /\ held' \in BOOLEAN
          /\ pc' \in {"claim", "rest"} /\ kept = <<>>
      BY <1>1, <2>3 DEF Detect, IInv, TypeOK
    <3>2. Handles' = {}
      BY <2>1, <3>1, EmptyFacts DEF Handles
    <3>3. TypeOK'
      BY <1>1, <2>1, <3>1, <3>2 DEF IInv, TypeOK
    <3>4. list' = <<>> /\ kept' = <<>> /\ pc' # "scan" /\ detected'
      BY <2>1, <3>1
    <3> QED
      BY <3>3, <3>4, NoPortsNext
  <2> QED
    BY <2>2, <2>3
<1>2. ASSUME IInv, Claimed \/ ClaimFails \/ DetectRest \/ Take \/ GiveBack PROVE IInv'
  <2>1. /\ pc \in {"claim", "rest"} /\ pc' \in {"claim", "rest", "open"}
        /\ UNCHANGED <<list, kept, detected, config_read, todo, seen, short, changes, system>>
        /\ held' \in BOOLEAN
    BY <1>2
    DEF Claimed, ClaimFails, DetectRest, Take, GiveBack, library, scan, ports, outside, IInv,
        TypeOK
  <2>2. list = <<>> /\ kept = <<>> /\ detected = TRUE
    BY <1>2, <2>1 DEF IInv, TypeOK
  <2>3. capabilities' \subseteq {"ppdev", "io", "devport", "sysdev", "proc"}
    <3>1. CASE DetectRest
      <4>1. ProcType(system) \subseteq {"sysdev", "proc"}
        BY <1>2, DetectedType DEF IInv, TypeOK
      <4> QED
        BY <1>2, <3>1, <4>1 DEF DetectRest, IInv, TypeOK
    <3>2. CASE UNCHANGED library
      BY <1>2, <3>2 DEF library, IInv, TypeOK
    <3> QED
      BY <1>2, <3>1, <3>2 DEF Claimed, ClaimFails, Take, GiveBack
  <2>4. Handles' = {}
    BY <2>1, <2>2, EmptyFacts DEF Handles
  <2>5. TypeOK'
    BY <1>2, <2>1, <2>3, <2>4 DEF IInv, TypeOK
  <2>6. list' = <<>> /\ kept' = <<>> /\ pc' # "scan" /\ detected'
    BY <2>1, <2>2
  <2> QED
    BY <2>5, <2>6, NoPortsNext
<1> QED
  BY <1>1, <1>2

LEMMA ScanPreserves ==
  IInv /\ (Opendir \/ (\E n \in Names \cup Guesses : AddPort(n)) \/ Found) => IInv'
<1>1. ASSUME IInv, Opendir PROVE IInv'
  <2>1. system.dir \subseteq Names /\ system.proc # "guess"
    BY <1>1, SystemAssumption DEF IInv, TypeOK, Systems
  <2>2. todo' \subseteq Known /\ Known \subseteq Names \cup Guesses
    <3>1. CASE Kind = "guess"
      BY <1>1, <2>1, <3>1 DEF Opendir, Known
    <3>2. CASE Kind # "guess" /\ Kind = system.proc
      BY <1>1, <2>1, <3>2 DEF Opendir, Known
    <3>3. CASE Kind # "guess" /\ Kind # system.proc
      BY <1>1, <2>1, <3>3 DEF Opendir, Known
    <3> QED
      BY <3>1, <3>2, <3>3
  <2>3. /\ UNCHANGED <<list, kept, capabilities, detected, config_read, system, held, changes>>
        /\ seen' = todo' /\ short' = FALSE /\ pc = "open" /\ pc' = "scan"
    BY <1>1 DEF Opendir, config, library, ports, outside
  <2>4. Handles' = Handles
    BY <2>3 DEF Handles
  <2>5. TypeOK'
    BY <1>1, <2>2, <2>3, <2>4 DEF IInv, TypeOK
  <2>6. detected
    BY <1>1, <2>3 DEF IInv
  <2> QED
    BY <1>1, <2>2, <2>3, <2>4, <2>5, <2>6, PortsStay DEF IInv
<1>2. ASSUME IInv, NEW n \in Names \cup Guesses, AddPort(n) PROVE IInv'
  <2>1. /\ UNCHANGED <<pc, capabilities, config_read, detected, system, held, changes, seen, kept>>
        /\ pc = "scan" /\ todo' = todo \ {n} /\ n \in Known /\ short' \in BOOLEAN
    BY <1>2 DEF AddPort, config, library, outside, IInv, TypeOK
  <2>2. Port(n) \in Ports /\ Faithful(Port(n)) /\ Port(n).name = n
    BY <2>1, DevicesType DEF Port, Ports, Types, Faithful
  <2>3. /\ list' \in Seq(Ports) /\ Len(list') < MaxPorts
        /\ \A i \in DOMAIN list' : \/ list'[i] = Port(n)
                                   \/ \E j \in DOMAIN list : list'[i] = list[j]
    <3>1. CASE list' = list
      BY <3>1, <1>2 DEF IInv, TypeOK
    <3>2. CASE Len(list) # MaxPorts - 1 /\ list' = Sorted(list, Port(n))
      <4>1. list \in Seq(Ports) /\ Len(list) < MaxPorts
        BY <1>2 DEF IInv, TypeOK
      <4>2. Len(list) \in Nat /\ Len(list) + 1 < MaxPorts
        BY <4>1, <3>2, LimitAssumption
      <4> HIDE DEF Ports
      <4> QED
        BY <3>2, <4>1, <4>2, <2>2, SortedAdds
    <3> QED
      BY <1>2, <3>1, <3>2 DEF AddPort
  <2>4. Handles' \subseteq Handles \cup {Port(n)}
    BY <2>1, <2>3 DEF Handles
  <2>5. TypeOK'
    <3>1. \A p \in Handles' : p \in Handles \/ p \in Ports
      BY <2>2, <2>4
    <3>2. \A p \in Handles' : p.name \in Names \cup Guesses /\ p.open \in BOOLEAN
            /\ p.type \in {"ppdev", "io", "devport", "none"}
      <4> HIDE DEF Ports
      <4> QED
        BY <1>2, <3>1, PortType DEF IInv, TypeOK
    <3> QED
      BY <1>2, <2>1, <2>3, <3>2 DEF IInv, TypeOK
  <2>6. detected
    BY <1>2, <2>1 DEF IInv
  <2>7. kept' \in Seq(Ports) /\ todo' \subseteq Known /\ pc' = "scan" /\ detected'
    BY <1>2, <2>1, <2>6 DEF IInv
  <2> QED
    BY <1>2, <2>1, <2>2, <2>3, <2>4, <2>5, <2>6, <2>7, PortsJoin
<1>3. ASSUME IInv, Found PROVE IInv'
  BY <1>3, QuietPreserves DEF Found, library, scan, ports, outside, IInv, TypeOK
<1> QED
  BY <1>1, <1>2, <1>3

\* One port, of the list or kept, changes.
LEMMA BecomesShape ==
  ASSUME IInv, NEW p \in Handles, NEW q \in Ports, q.name = p.name, Becomes(p, q)
  PROVE  /\ list' \in Seq(Ports) /\ kept' \in Seq(Ports)
         /\ Len(list') = Len(list) /\ Len(kept') = Len(kept) /\ DOMAIN list' = DOMAIN list
         /\ \A i \in DOMAIN list : list'[i].name = list[i].name
         /\ Handles' \subseteq Handles \cup {q}
         /\ list # <<>> \/ list' = list
         /\ detected
<1>0. list \in Seq(Ports) /\ kept \in Seq(Ports) /\ (~detected => list = <<>> /\ kept = <<>>)
  BY DEF IInv
<1> HIDE DEF Ports
<1>1. ASSUME NEW i \in DOMAIN list, p = list[i], list' = [list EXCEPT ![i] = q], UNCHANGED kept
      PROVE  /\ list' \in Seq(Ports) /\ kept' \in Seq(Ports)
             /\ Len(list') = Len(list) /\ Len(kept') = Len(kept) /\ DOMAIN list' = DOMAIN list
             /\ \A j \in DOMAIN list : list'[j].name = list[j].name
             /\ Handles' \subseteq Handles \cup {q}
             /\ list # <<>>
  <2>1. /\ list' \in Seq(Ports) /\ Len(list') = Len(list) /\ DOMAIN list' = DOMAIN list
        /\ \A j \in DOMAIN list : list'[j] = IF j = i THEN q ELSE list[j]
        /\ list # <<>>
    BY <1>0, <1>1
  <2>2. Handles' \subseteq Handles \cup {q}
    BY <1>1, <2>1 DEF Handles
  <2> QED
    BY <1>0, <1>1, <2>1, <2>2
<1>2. ASSUME kept = <<p>>, kept' = <<q>>, UNCHANGED list
      PROVE  /\ list' \in Seq(Ports) /\ kept' \in Seq(Ports)
             /\ Len(list') = Len(list) /\ Len(kept') = Len(kept) /\ DOMAIN list' = DOMAIN list
             /\ \A j \in DOMAIN list : list'[j].name = list[j].name
             /\ Handles' \subseteq Handles \cup {q}
             /\ kept # <<>>
  <2>1. kept' \in Seq(Ports) /\ Len(kept') = 1 /\ Len(kept) = 1 /\ kept # <<>>
        /\ DOMAIN kept' = {1} /\ kept'[1] = q
    BY <1>2
  <2>2. Handles' \subseteq Handles \cup {q}
    BY <1>2, <2>1 DEF Handles
  <2> QED
    BY <1>0, <1>2, <2>1, <2>2
<1> QED
  BY <1>0, <1>1, <1>2, Zenon DEF Becomes

\* And keeps its name and its paths.
LEMMA OnePort ==
  ASSUME IInv, NEW p \in Handles, NEW q \in Ports, q.name = p.name, Faithful(q), Becomes(p, q),
         pc = "idle", UNCHANGED <<pc, config, library, scan, outside>>
  PROVE  IInv'
<1>1. /\ list' \in Seq(Ports) /\ kept' \in Seq(Ports)
      /\ Len(list') = Len(list) /\ Len(kept') = Len(kept)
      /\ Handles' \subseteq Handles \cup {q} /\ detected
  BY BecomesShape
<1>2. UNCHANGED <<capabilities, config_read, detected, todo, seen, short, system, held, changes>>
  BY DEF library, scan, outside
<1>3. p.name \in Known
  BY DEF IInv
<1>4. TypeOK'
  <2>1. \A r \in Handles' : r.name \in Names \cup Guesses /\ r.open \in BOOLEAN
          /\ r.type \in {"ppdev", "io", "devport", "none"}
    BY <1>1, PortType DEF IInv, TypeOK
  <2> QED
    BY <1>1, <1>2, <2>1 DEF IInv, TypeOK
<1> QED
  BY <1>1, <1>2, <1>3, <1>4, PortsJoin

\* What open(2) takes, and which of a port's paths it was.
LEMMA OpenedIs ==
  ASSUME NEW p, NEW junk \in BOOLEAN, Opened(p, junk) # Null
  PROVE  /\ Opened(p, junk) \in {p.device, p.udevice}
         /\ \/ IsNode(Opened(p, junk))
            \/ Opened(p, junk) \in {Path("/dev/port"), Junk}
BY DEF Opened, Opens

\* What init_port leaves behind is a port as there was.
LEMMA LeftType ==
  ASSUME IInv, NEW p \in Handles, NEW m \in {Methods[k] : k \in DOMAIN Methods}, NEW flags,
         NEW junk \in BOOLEAN, Tries(m, p, flags, junk)
  PROVE  /\ Left(m, p, flags, junk) \in Ports
         /\ Left(m, p, flags, junk).name = p.name
         /\ ~p.open => Faithful(Left(m, p, flags, junk))
         /\ [Left(m, p, flags, junk) EXCEPT !.open = Works(m, p, flags, junk)] \in Ports
         /\ [Left(m, p, flags, junk) EXCEPT !.open = Works(m, p, flags, junk)].name = p.name
         /\ Faithful([Left(m, p, flags, junk) EXCEPT !.open = Works(m, p, flags, junk)])
<1> DEFINE f == Filename(p, flags, junk)
           q == Left(m, p, flags, junk)
           w == Works(m, p, flags, junk)
           o == [q EXCEPT !.open = w]
<1>1. p \in Ports /\ Faithful(p) /\ m \in Types /\ w \in BOOLEAN
  <2>1. p \in Ports
    BY HandlesType DEF IInv
  <2>2. m \in Types
    BY DEF Methods, Types
  <2>3. w \in BOOLEAN
    BY DEF Works
  <2> QED
    BY <2>1, <2>2, <2>3 DEF IInv
<1>2. f \in {p.device, p.udevice, p.filename}
  BY OpenedIs DEF Filename
<1>3. f \in Paths
  BY <1>1, <1>2 DEF Ports
<1>4. ASSUME w, m = "ppdev"
      PROVE  /\ "ppdev" \in capabilities /\ f \in {p.device, p.udevice}
             /\ IsNode(f) \/ f \in {Path("/dev/port"), Junk}
  <2>1. Allowed("ppdev")
    BY <1>4 DEF Tries, Tried
  <2>2. flags # "other" /\ Opened(p, junk) # Null
    BY <1>4 DEF Works
  <2> QED
    BY <2>1, <2>2, OpenedIs DEF Filename, Allowed
<1> HIDE DEF f, w
<1>5. q = [p EXCEPT !.filename = f, !.type = m]
  BY DEF Left, f
<1> HIDE DEF q
<1>6. /\ q \in Ports /\ q.name = p.name /\ q.open = p.open
      /\ q.device = p.device /\ q.udevice = p.udevice /\ q.filename = f /\ q.type = m
  BY <1>1, <1>3, <1>5 DEF Ports
<1>7. /\ o \in Ports /\ o.name = p.name /\ o.open = w
      /\ o.device = p.device /\ o.udevice = p.udevice /\ o.filename = f /\ o.type = m
  BY <1>1, <1>6 DEF Ports
<1> HIDE DEF o
<1>8. ~p.open => Faithful(q)
  BY <1>1, <1>6 DEF Faithful
<1>9. Faithful(o)
  BY <1>1, <1>4, <1>7 DEF Faithful
<1> QED
  BY <1>6, <1>7, <1>8, <1>9 DEF q, o, w

\* So a call that opens makes one port another, with its name,
LEMMA OpenLeaves ==
  ASSUME IInv, NEW p \in Handles, NEW flags, NEW junk \in BOOLEAN, Open(p, flags, junk)
  PROVE  \E q \in Ports : q.name = p.name /\ Faithful(q) /\ Becomes(p, q)
<1>1. PICK m \in {Methods[k] : k \in DOMAIN Methods} :
        /\ Tries(m, p, flags, junk)
        /\ Becomes(p, [Left(m, p, flags, junk) EXCEPT !.open = Works(m, p, flags, junk)])
  BY DEF Open
<1> DEFINE o == [Left(m, p, flags, junk) EXCEPT !.open = Works(m, p, flags, junk)]
<1>2. o \in Ports /\ o.name = p.name /\ Faithful(o)
  BY <1>1, LeftType
<1>3. Becomes(p, o)
  BY <1>1
<1> HIDE DEF o
<1> QED
  BY <1>2, <1>3

\* and so does one that opens for as long as it takes.
LEMMA BorrowLeaves ==
  ASSUME IInv, NEW p \in Handles, ~p.open, Borrow(p)
  PROVE  \E q \in Ports : q.name = p.name /\ Faithful(q) /\ Becomes(p, q)
<1>1. PICK flags : flags = "none"
  OBVIOUS
<1>2. PICK m \in {Methods[k] : k \in DOMAIN Methods}, junk \in BOOLEAN :
        Tries(m, p, flags, junk) /\ Becomes(p, Left(m, p, flags, junk))
  BY <1>1 DEF Borrow
<1> DEFINE o == Left(m, p, flags, junk)
<1>3. o \in Ports /\ o.name = p.name /\ Faithful(o)
  <2>1. Left(m, p, flags, junk) \in Ports
    BY <1>2, LeftType
  <2>2. Left(m, p, flags, junk).name = p.name
    <3> DEFINE f == Filename(p, flags, junk)
    <3>1. p \in Ports
      BY HandlesType DEF IInv
    <3>2. Left(m, p, flags, junk) = [p EXCEPT !.filename = f, !.type = m]
      BY DEF Left
    <3> HIDE DEF f
    <3> QED
      BY <3>1, <3>2 DEF Ports
  <2>3. Faithful(Left(m, p, flags, junk))
    BY <1>2, LeftType
  <2> QED
    BY <2>1, <2>2, <2>3
<1>4. Becomes(p, o)
  BY <1>2
<1> HIDE DEF o
<1> QED
  BY <1>3, <1>4

LEMMA OpenPreserves ==
  ASSUME IInv, NEW p \in Handles, NEW flags, NEW junk \in BOOLEAN, Open(p, flags, junk)
  PROVE  IInv'
<1>1. PICK q \in Ports : q.name = p.name /\ Faithful(q) /\ Becomes(p, q)
  BY OpenLeaves
<1>2. pc = "idle" /\ UNCHANGED <<pc, config, library, scan, outside>>
  BY DEF Open
<1> QED
  BY <1>1, <1>2, OnePort

LEMMA ClosePreserves == ASSUME IInv, NEW p \in Handles, Close(p) PROVE IInv'
<1> DEFINE q == [p EXCEPT !.open = FALSE]
<1>1. p \in Ports /\ Faithful(p) /\ pc = "idle" /\ Becomes(p, q)
      /\ UNCHANGED <<pc, config, library, scan, outside>>
  BY HandlesType DEF Close, IInv
<1>2. q \in Ports /\ q.name = p.name /\ Faithful(q)
  BY <1>1 DEF Ports, Faithful
<1> QED
  BY <1>1, <1>2, OnePort

LEMMA DeviceidPreserves ==
  ASSUME IInv, NEW fresh, NEW has, NEW whole, NEW field, NEW l,
         GetDeviceid(fresh, has, whole, field, l)
  PROVE  IInv'
<1>1. pc = "idle" /\ UNCHANGED <<pc, config, library, scan, outside>>
  BY DEF GetDeviceid
<1>2. CASE UNCHANGED ports
  BY <1>1, <1>2, QuietPreserves DEF ports, library, scan, outside, IInv, TypeOK
<1>3. CASE Borrow(list[1])
  <2>1. list[1] \in Handles /\ ~list[1].open
    BY DEF GetDeviceid, Handles, IInv
  <2>2. PICK q \in Ports : q.name = list[1].name /\ Faithful(q) /\ Becomes(list[1], q)
    BY <1>3, <2>1, BorrowLeaves
  <2> QED
    BY <1>1, <2>1, <2>2, OnePort
<1> QED
  BY <1>2, <1>3 DEF GetDeviceid

LEMMA FreePreserves == IInv /\ FreePorts => IInv'
<1> SUFFICES ASSUME IInv, FreePorts PROVE IInv'
  OBVIOUS
<1>1. /\ pc = "idle" /\ list' = <<>>
      /\ UNCHANGED <<pc, kept, config_read, detected, capabilities, todo, seen, short, system,
                     held, changes>>
  BY DEF FreePorts, library, scan, outside
<1>2. Handles' \subseteq Handles
  BY <1>1, EmptyFacts DEF Handles
<1>3. TypeOK'
  BY <1>1, <1>2, EmptyFacts, LimitAssumption DEF IInv, TypeOK
<1> QED
  BY <1>1, <1>2, <1>3, EmptyFacts, PortsStay DEF IInv

LEMMA RestPreserves == IInv /\ (Change \/ UNCHANGED vars) => IInv'
<1> SUFFICES ASSUME IInv, Change \/ UNCHANGED vars PROVE IInv'
  OBVIOUS
<1>1. UNCHANGED <<pc, list, kept, capabilities, config_read, detected, todo, seen, short, held>>
  BY DEF Change, vars, config, library, scan, ports, outside
<1>2. system' \in Systems /\ changes' \in 0 .. MaxChanges
  BY LimitAssumption DEF Change, vars, outside, IInv, TypeOK
<1> QED
  BY <1>1, <1>2, QuietPreserves DEF IInv, TypeOK

LEMMA StepPreserves == IInv /\ [Next]_vars => IInv'
<1> SUFFICES ASSUME IInv, [Next]_vars PROVE IInv'
  OBVIOUS
<1>1. CASE FindPorts \/ ReadConfig \/ NoConfig \/ ConfigDone
  BY <1>1, FindPreserves, ReadingPreserves
<1>2. CASE Detect \/ Claimed \/ ClaimFails \/ DetectRest \/ Take \/ GiveBack
  BY <1>2, DetectPreserves
<1>3. CASE Opendir \/ (\E n \in Names \cup Guesses : AddPort(n)) \/ Found
  BY <1>3, ScanPreserves
<1>4. CASE FreePorts \/ Change \/ UNCHANGED vars
  BY <1>4, FreePreserves, RestPreserves
<1>5. ASSUME NEW p \in Handles,
             Close(p) \/ \E flags \in Flags, junk \in BOOLEAN : Open(p, flags, junk)
      PROVE  IInv'
  BY <1>5, OpenPreserves, ClosePreserves
<1>6. ASSUME NEW fresh, NEW has, NEW whole, NEW field, NEW l,
             GetDeviceid(fresh, has, whole, field, l)
      PROVE  IInv'
  BY <1>6, DeviceidPreserves
<1> QED
  BY <1>1, <1>2, <1>3, <1>4, <1>5, <1>6 DEF Next, LibraryStep

LEMMA Invariance == Spec => []IInv
BY InitEstablishes, StepPreserves, PTL DEF Spec

-----------------------------------------------------------------------------
\* find_ports (ports.c) never lists more than MAX_PORTS - 1 ports, and every variable
\* keeps its type.
THEOREM TypeCorrect == Spec => []TypeOK
<1>1. IInv => TypeOK
  BY DEF IInv
<1> QED
  BY <1>1, Invariance, PTL

\* init_port (state.c) opens a port with ppdev only on a device node of the port's own
\* number, made under the capabilities it is opened under, or on /dev/port when the port
\* was guessed or has no number.
THEOREM OpenedOnOwnNode == Spec => []OwnNode
<1>1. IInv => OwnNode
  <2> SUFFICES ASSUME IInv, NEW p \in Handles, p.open, p.type = "ppdev"
               PROVE  IF Kind = "guess" \/ Number[p.name] = -1
                      THEN p.filename = Path("/dev/port")
                      ELSE p.filename \in {Node(Number[p.name]), UdevNode(Number[p.name])}
    BY DEF OwnNode
  <2>1. Faithful(p) /\ p.name \in Known
    BY DEF IInv
  <2>2. /\ "ppdev" \in capabilities
        /\ p.filename \in {Devices(p.name)[1], Devices(p.name)[2]}
        /\ IsNode(p.filename) \/ p.filename \in {Path("/dev/port"), Junk}
    BY <2>1 DEF Faithful
  <2> QED
    BY <2>1, <2>2, NodeIsOwn
<1> QED
  BY <1>1, Invariance, PTL

-----------------------------------------------------------------------------
(* The list is complete. *)

\* A port is listed, or still to come, or was dropped for a reason that shows: there was
\* no memory, or the list is full.
ListInv ==
  /\ InOrder(list)
  /\ pc # "scan" => todo = {}
  /\ pc = "scan" \/ list # <<>> => Listed \subseteq seen /\ Listed \cap todo = {}
  /\ (pc = "scan" \/ list # <<>>) /\ ~short =>
       Len(list) = MaxPorts - 1 \/ Listed \cup todo = seen

\* An empty list is in order.
LEMMA EmptyInOrder == InOrder(<<>>)
BY DEF InOrder

\* A list that keeps the names keeps everything that is said of them.
LEMMA SameNames ==
  ASSUME ListInv, DOMAIN list' = DOMAIN list, Len(list') = Len(list), list # <<>> \/ list' = list,
         \A i \in DOMAIN list : list'[i].name = list[i].name,
         UNCHANGED <<pc, todo, seen, short>>
  PROVE  ListInv'
<1>1. InOrder(list)'
  BY DEF ListInv, InOrder
<1>2. Listed' = Listed
  BY DEF Listed
<1> QED
  BY <1>1, <1>2 DEF ListInv

\* add_port.
LEMMA AddPreserves ==
  ASSUME IInv, ListInv, NEW n \in Names \cup Guesses, AddPort(n)
  PROVE  ListInv'
<1>1. /\ pc = "scan" /\ pc' = "scan" /\ n \in todo /\ todo' = todo \ {n} /\ UNCHANGED seen
      /\ todo \subseteq seen
  BY DEF AddPort, IInv, TypeOK
<1>2. CASE Len(list) # MaxPorts - 1 /\ list' = Sorted(list, Port(n)) /\ UNCHANGED short
  <2>1. Port(n) \in Ports /\ Port(n).name = n /\ list \in Seq(Ports)
    <3>1. n \in Known
      BY <1>1 DEF IInv
    <3> QED
      BY <3>1, DevicesType DEF IInv, Port, Ports, Types
  <2>2. \A i \in DOMAIN list : list[i].name # Port(n).name
    BY <1>1, <2>1 DEF ListInv, Listed
  <2>3. InOrder(list')
    BY <1>2, <2>1, <2>2, SortedInOrder DEF ListInv
  <2>4. Listed' = Listed \cup {n}
    <3> HIDE DEF Ports
    <3>1. /\ \A i \in DOMAIN list' : \/ list'[i] = Port(n)
                                    \/ \E j \in DOMAIN list : list'[i] = list[j]
          /\ \E i \in DOMAIN list' : list'[i] = Port(n)
          /\ \A j \in DOMAIN list : \E i \in DOMAIN list' : list'[i] = list[j]
      BY <1>2, <2>1, SortedAdds, ZenonT(30)
    <3>2. ASSUME NEW i \in DOMAIN list' PROVE list'[i].name \in Listed \cup {n}
      BY <2>1, <3>1 DEF Listed
    <3>3. ASSUME NEW j \in DOMAIN list PROVE list[j].name \in Listed'
      BY <3>1 DEF Listed
    <3>4. n \in Listed'
      BY <2>1, <3>1 DEF Listed
    <3> QED
      BY <3>2, <3>3, <3>4 DEF Listed
  <2> QED
    BY <1>1, <1>2, <2>3, <2>4 DEF ListInv
<1>3. CASE Len(list) = MaxPorts - 1 /\ UNCHANGED <<list, short>>
  BY <1>1, <1>3 DEF ListInv, Listed, InOrder
<1>4. CASE short' = TRUE /\ UNCHANGED list
  BY <1>1, <1>4 DEF ListInv, Listed, InOrder
<1> QED
  BY <1>2, <1>3, <1>4 DEF AddPort

\* Every step keeps it.
LEMMA ListPreserves == IInv /\ ListInv /\ [Next]_vars => ListInv'
<1> SUFFICES ASSUME IInv, ListInv, [Next]_vars PROVE ListInv'
  OBVIOUS
<1>1. CASE \/ FindPorts \/ ReadConfig \/ NoConfig \/ ConfigDone \/ Detect \/ Claimed
           \/ ClaimFails \/ DetectRest \/ Take \/ GiveBack
  <2>1. list' = <<>> /\ UNCHANGED todo /\ pc # "scan" /\ pc' # "scan"
    BY <1>1 DEF IInv, FindPorts, ReadConfig, NoConfig, ConfigDone, Detect, Claimed, ClaimFails,
                DetectRest, Take, GiveBack, scan, ports
  <2> QED
    BY <2>1, EmptyInOrder DEF ListInv
<1>2. CASE Opendir
  <2>1. list = <<>> /\ UNCHANGED list /\ seen' = todo' /\ pc' = "scan"
    BY <1>2 DEF IInv, Opendir, ports
  <2>2. Listed' = {}
    BY <2>1 DEF Listed
  <2> QED
    BY <2>1, <2>2, EmptyInOrder DEF ListInv
<1>3. ASSUME NEW n \in Names \cup Guesses, AddPort(n) PROVE ListInv'
  BY <1>3, AddPreserves
<1>4. CASE Found
  BY <1>4 DEF Found, scan, ports, ListInv, Listed, InOrder
<1>5. CASE FreePorts
  BY <1>5, EmptyInOrder DEF FreePorts, scan, ListInv
<1>6. ASSUME NEW p \in Handles, NEW q \in Ports, q.name = p.name, Becomes(p, q),
             UNCHANGED <<pc, todo, seen, short>>
      PROVE  ListInv'
  <2>1. /\ DOMAIN list' = DOMAIN list /\ Len(list') = Len(list) /\ (list # <<>> \/ list' = list)
        /\ \A i \in DOMAIN list : list'[i].name = list[i].name
    BY <1>6, BecomesShape
  <2> QED
    BY <2>1, <1>6, SameNames
<1>7. ASSUME NEW p \in Handles, Close(p) PROVE ListInv'
  <2> DEFINE q == [p EXCEPT !.open = FALSE]
  <2>1. q \in Ports /\ q.name = p.name
    <3>1. p \in Ports
      BY HandlesType DEF IInv
    <3> QED
      BY <3>1 DEF Ports
  <2>2. Becomes(p, q) /\ UNCHANGED <<pc, todo, seen, short>>
    BY <1>7 DEF Close, scan
  <2> HIDE DEF q
  <2> QED
    BY <2>1, <2>2, <1>6
<1>8. ASSUME NEW p \in Handles, NEW flags, NEW junk \in BOOLEAN, Open(p, flags, junk)
      PROVE  ListInv'
  <2>1. PICK q \in Ports : q.name = p.name /\ Becomes(p, q)
    BY <1>8, OpenLeaves
  <2>2. UNCHANGED <<pc, todo, seen, short>>
    BY <1>8 DEF Open, scan
  <2> QED
    BY <2>1, <2>2, <1>6
<1>9. ASSUME NEW fresh, NEW has, NEW whole, NEW field, NEW l,
             GetDeviceid(fresh, has, whole, field, l)
      PROVE  ListInv'
  <2>1. UNCHANGED <<pc, todo, seen, short>>
    BY <1>9 DEF GetDeviceid, scan
  <2>2. CASE UNCHANGED ports
    BY <2>1, <2>2 DEF ports, ListInv, Listed, InOrder
  <2>3. CASE Borrow(list[1])
    <3>1. list[1] \in Handles /\ ~list[1].open
      BY <1>9 DEF GetDeviceid, Handles, IInv
    <3>2. PICK q \in Ports : q.name = list[1].name /\ Becomes(list[1], q)
      BY <2>3, <3>1, BorrowLeaves
    <3> QED
      BY <2>1, <3>1, <3>2, <1>6
  <2> QED
    BY <1>9, <2>2, <2>3 DEF GetDeviceid
<1>10. CASE Change \/ UNCHANGED vars
  <2>1. UNCHANGED <<list, pc, todo, seen, short>>
    BY <1>10 DEF Change, vars, scan, ports
  <2> QED
    BY <2>1 DEF ListInv, Listed, InOrder
<1> QED
  BY <1>1, <1>2, <1>3, <1>4, <1>5, <1>7, <1>8, <1>9, <1>10 DEF Next, LibraryStep

\* find_ports lists every port there was, once and in the order of the names, up to
\* MAX_PORTS - 1.
THEOREM ListComplete == Spec => []ListIsComplete
<1>1. Init => ListInv
  BY DEF Init, ListInv, InOrder
<1>2. ListInv => ListIsComplete
  BY DEF ListInv, ListIsComplete, InOrder
<1> QED
  BY <1>1, <1>2, ListPreserves, Invariance, PTL DEF Spec

-----------------------------------------------------------------------------
(* The device ID. *)

LEMMA CharsBounded ==
  ASSUME NEW x \in Int, x >= -128, x <= 127, NEW y \in Int, y >= -128, y <= 127
  PROVE  256 * x + y \in Int /\ 256 * x + y >= -65535 /\ 256 * x + y <= 65535
OBVIOUS

\* What get_fresh asks for fits behind the length field, and with room for the whole ID
\* and its zero byte it is the rest of the ID at least.
LEMMA AsksEnough ==
  ASSUME NEW whole \in Nat, 3 <= whole, whole <= LongestId, NEW d \in 0 .. 2,
         NEW len \in Nat, 2 <= len, len + LongestId < SizeT, NEW field, field = whole - d
  PROVE  /\ Asks(field, len) \in 0 .. len - 2
         /\ whole + 1 <= len /\ ~Misread(field) => Asks(field, len) >= whole - 2
<1> DEFINE hi == field \div 256
           lo == field % 256
           n == IdLen(field)
<1>1. field \in Nat /\ field >= whole - 2 /\ field <= 65535
  BY DEF LongestId
<1>2. hi \in 0 .. 255 /\ lo \in 0 .. 255
  BY <1>1
<1>3. n = 256 * Char(hi) + Char(lo)
  BY DEF IdLen
<1> HIDE DEF hi, lo, n
<1>4. /\ Char(hi) \in Int /\ Char(hi) >= -128 /\ Char(hi) <= 127
      /\ Char(lo) \in Int /\ Char(lo) >= -128 /\ Char(lo) <= 127
  BY <1>2 DEF Char
<1>5. n \in Int /\ n >= -65535 /\ n <= 65535
  BY <1>3, <1>4, CharsBounded
<1>6. SizeT \in Nat /\ len + 65535 < SizeT
  <2>1. SizeT \in Nat
    BY LengthAssumption
  <2>2. len + 65535 < SizeT
    BY ONLY len + LongestId < SizeT DEF LongestId
  <2> QED
    BY <2>1, <2>2
<1>7. Size(len - 2) = len - 2
  BY DEF Size
<1>8. Size(n) \in Nat /\ (n < 0 => Size(n) > len) /\ (n >= 0 => Size(n) = n)
  BY <1>5, <1>6 DEF Size
<1>9. Asks(field, len) = Least(Size(n), len - 2)
  BY <1>7 DEF Asks, n
<1>10. Asks(field, len) \in 0 .. len - 2
  BY <1>8, <1>9 DEF Least
<1>11. ASSUME whole + 1 <= len, ~Misread(field) PROVE Asks(field, len) >= whole - 2
  <2>1. ~(n >= 0 /\ n # field)
    BY <1>11 DEF Misread, n
  <2> QED
    BY <2>1, <1>1, <1>5, <1>8, <1>9, <1>11 DEF Least
<1> QED
  BY <1>10, <1>11

IdFits(r) ==
  /\ r.len >= 2 => r.filled <= r.len /\ r.ret <= r.len
  /\ r.whole + 1 <= r.len /\ ~Misread(r.field) => r.filled = r.whole

\* Whichever source the ID comes from.
LEMMA SourcesFit ==
  ASSUME NEW len \in Buffers, NEW whole \in Ids, NEW field \in {whole, whole - 2}
  PROVE  /\ IdFits(FromDeviceid(whole, len))
         /\ Room(len) > 0 => IdFits(FromAutoprobe(whole, len, Room(len)))
         /\ IdFits(FromDevice(field, whole, len))
<1>1. whole \in Nat /\ 3 <= whole /\ whole <= LongestId
  <2>1. LongestId \in Int
    BY DEF LongestId
  <2> QED
    BY <2>1, LengthAssumption
<1>2. len \in Nat /\ len + LongestId < SizeT
  BY LengthAssumption
<1>3. PICK d \in 0 .. 2 : field = whole - d
  BY ONLY <1>1, field \in {whole, whole - 2}
<1>4. IdFits(FromDeviceid(whole, len))
  <2> DEFINE r == FromDeviceid(whole, len)
  <2>1. r.filled = Least(whole, len) /\ r.ret = Least(whole, len) /\ r.whole = whole /\ r.len = len
    BY DEF FromDeviceid, Id
  <2> HIDE DEF r
  <2>2. IdFits(r)
    BY ONLY <1>1, <1>2, <2>1 DEF IdFits, Least
  <2> QED
    BY <2>2 DEF r
<1>5. ASSUME Room(len) > 0 PROVE IdFits(FromAutoprobe(whole, len, Room(len)))
  <2> DEFINE room == Room(len)
             r == FromAutoprobe(whole, len, room)
  <2>1. room \in {len - 3, len - 2} /\ room > 0
    BY <1>5 DEF Room
  <2>2. /\ r.filled = 2 + Least(whole - 2, room) /\ r.ret = Least(whole - 2, room)
        /\ r.whole = whole /\ r.len = len
    BY DEF FromAutoprobe, Id
  <2> HIDE DEF r, room
  <2>3. IdFits(r)
    BY ONLY <1>1, <1>2, <2>1, <2>2 DEF IdFits, Least
  <2> QED
    BY <2>3 DEF r, room
<1>6. IdFits(FromDevice(field, whole, len))
  <2> DEFINE asked == Asks(field, len)
             rest == whole - 2
             r == FromDevice(field, whole, len)
  <2>1. /\ r.filled = 2 + Least(asked, rest)
        /\ r.ret = 2 + (IF asked > rest /\ rest % 2 = 1 THEN rest ELSE asked)
        /\ r.whole = whole /\ r.len = len /\ r.field = field
    BY DEF FromDevice, Id
  <2>2. len >= 2 =>
          /\ asked \in 0 .. len - 2
          /\ whole + 1 <= len /\ ~Misread(field) => asked >= rest
    BY <1>1, <1>2, <1>3, AsksEnough
  <2> HIDE DEF asked, r
  <2>3. IdFits(r)
    BY ONLY <1>1, <1>2, <2>1, <2>2 DEF IdFits, Least
  <2> QED
    BY <2>3 DEF r
<1> QED
  BY <1>4, <1>5, <1>6

\* ieee1284_get_deviceid never writes or reports more than a buffer of two bytes or more
\* holds, and gets all of an ID there is room for, unless it reads its length as another
\* one.
THEOREM IdWhole == Spec => []IdIsWhole
<1>1. IdFits(NoId)
  BY DEF IdFits, NoId
<1>2. Init => IdFits(id)
  BY <1>1 DEF Init
<1>3. IdFits(id) /\ [Next]_vars => IdFits(id)'
  <2> SUFFICES ASSUME IdFits(id), [Next]_vars PROVE IdFits(id')
    BY DEF IdFits
  <2>1. ASSUME NoAnswer \/ UNCHANGED id PROVE IdFits(id')
    BY <1>1, <2>1 DEF NoAnswer
  <2>2. CASE \/ FindPorts \/ ReadConfig \/ NoConfig \/ ConfigDone \/ Detect \/ Claimed \/ DetectRest
             \/ ClaimFails \/ Opendir \/ Found \/ FreePorts \/ Change \/ Take \/ GiveBack
             \/ UNCHANGED vars
    BY <2>1, <2>2 DEF FindPorts, ReadConfig, NoConfig, ConfigDone, Detect, Claimed, DetectRest,
                      ClaimFails, Opendir, Found, FreePorts, Change, Take, GiveBack, vars
  <2>3. ASSUME NEW n, AddPort(n) PROVE IdFits(id')
    BY <2>1, <2>3 DEF AddPort
  <2>4. ASSUME NEW p, NEW flags, NEW junk, Open(p, flags, junk) \/ Close(p) PROVE IdFits(id')
    BY <2>1, <2>4 DEF Open, Close
  <2>5. ASSUME NEW fresh \in BOOLEAN, NEW has, NEW len \in Buffers, NEW whole \in Ids,
               NEW field \in {whole, whole - 2}, GetDeviceid(fresh, has, whole, field, len)
        PROVE  IdFits(id')
    <3>1. Source(fresh, has, len) = "autoprobe" => Room(len) > 0
      BY DEF Source
    <3>2. CASE id' = FromDeviceid(whole, len)
      BY <3>2, SourcesFit
    <3>3. CASE Source(fresh, has, len) = "autoprobe" /\ id' = FromAutoprobe(whole, len, Room(len))
      BY <3>1, <3>3, SourcesFit
    <3>4. CASE id' = FromDevice(field, whole, len)
      BY <3>4, SourcesFit
    <3> QED
      BY <2>5, <3>2, <3>3, <3>4 DEF GetDeviceid
  <2>6. CASE LibraryStep
    BY <2>2, <2>3, <2>6 DEF LibraryStep
  <2> QED
    BY <2>2, <2>3, <2>4, <2>5, <2>6 DEF Next
<1>4. IdFits(id) => IdIsWhole
  BY DEF IdFits, IdIsWhole
<1> QED
  BY <1>2, <1>3, <1>4, PTL DEF Spec

-----------------------------------------------------------------------------
(* The configuration file. *)

Reading == INSTANCE ConfigFileProofs

\* What holds of reading a file holds of find_ports while it reads it.
ConfigInv == pc = "config" =>
  Reading!IInv /\ Reading!LineInv /\ Reading!TypeOK

\* The files are lines.
LEMMA FilesFit == Reading!FilesAreLines
<1>1. ASSUME NEW f \in Files PROVE f \in Seq(Reading!Lines)
  <2>1. f \in Seq(Seq(STRING)) /\ \A i \in 1 .. Len(f) : f[i] # <<>>
    BY FilesAssumption
  <2>2. \A i \in 1 .. Len(f) : f[i] \in Reading!Lines
    BY <2>1 DEF Reading!Lines, Reading!Text, Reading!Strings, Reading!Char
  <2>3. \A S, T : \A g \in Seq(S) : (\A i \in 1 .. Len(g) : g[i] \in T) => g \in Seq(T)
    OBVIOUS
  <2> HIDE DEF Reading!Lines
  <2> QED
    BY <2>1, <2>2, <2>3, Zenon
<1> QED
  BY <1>1 DEF Reading!FilesAreLines

\* The steps are the same.
LEMMA SameFgets == Config!Fgets => Reading!Fgets
BY DEF Config!Fgets, Reading!Fgets, Config!AtEnd, Reading!AtEnd, Config!Going, Reading!Going

LEMMA SameEndOfFile == Config!EndOfFile => Reading!EndOfFile
BY DEF Config!EndOfFile, Reading!EndOfFile, Config!AtEnd, Reading!AtEnd, Config!Going,
   Reading!Going

LEMMA SameStart == Config!Start = Reading!Start
BY DEF Config!Start, Reading!Start, Config!Ifs, Reading!Ifs

LEMMA SameSkipLine == Config!SkipLine => Reading!SkipLine
BY SameStart DEF Config!SkipLine, Reading!SkipLine, Config!Going, Reading!Going,
   Config!Comment, Reading!Comment

LEMMA SameReadBehind == Config!ReadBehind => Reading!ReadBehind
BY DEF Config!ReadBehind, Reading!ReadBehind, Config!Behind, Reading!Behind, Config!Going,
   Reading!Going

LEMMA SameEnd == \A l, s : Config!End(l, s) = Reading!End(l, s)
BY DEF Config!End, Reading!End, Config!Quotes, Reading!Quotes, Config!Escapes, Reading!Escapes,
   Config!Quote, Reading!Quote, Config!Ifs, Reading!Ifs, Config!TokenChars, Reading!TokenChars

LEMMA SameCopied ==
  \A l, s, e : Config!Copied(l, s, Config!Stop(l, e)) = Reading!Copied(l, s, Reading!Stop(l, e))
BY DEF Config!Copied, Reading!Copied, Config!Quotes, Reading!Quotes, Config!Escapes,
   Reading!Escapes, Config!Quote, Reading!Quote, Config!Stop, Reading!Stop

LEMMA SameToken == Config!Token => Reading!Token
BY SameStart, SameEnd, SameCopied
DEF Config!Token, Reading!Token, Config!Going, Reading!Going, Config!Comment, Reading!Comment,
    Config!Parse, Reading!Parse, Config!Word, Reading!Word, Config!DisallowWord,
    Reading!DisallowWord, Config!MethodWord, Reading!MethodWord, Config!PpdevWord,
    Reading!PpdevWord

LEMMA SameRead == \A l : Config!Read(l) = Reading!Read(l)
BY DEF Config!Read, Reading!Read, Config!Reader, Reading!Reader, Config!Reads, Reading!Reads,
   Config!Closed, Reading!Closed, Config!Escapes, Reading!Escapes, Config!Quote,
   Reading!Quote, Config!Ifs, Reading!Ifs, Config!TokenChars, Reading!TokenChars

LEMMA SameDocumented ==
  \A l : Config!Documented(l) = Reading!Documented(l) /\ (Config!Glued(l) <=> Reading!Glued(l))
BY SameRead
DEF Config!Documented, Reading!Documented, Config!Closed, Reading!Closed, Config!Glued,
    Reading!Glued

LEMMA ConfigStep == IInv /\ ConfigInv /\ [Next]_vars => ConfigInv'
<1> SUFFICES ASSUME IInv, ConfigInv, [Next]_vars, pc' = "config"
             PROVE  Reading!IInv' /\ Reading!LineInv' /\ Reading!TypeOK'
  BY DEF ConfigInv
<1>1. CASE FindPorts
  <2>1. /\ file' \in Files /\ line' = <<>> /\ at' = 1 /\ tokens' = <<>> /\ had' = 0
        /\ where' = "word" /\ disallow' = FALSE
    BY <1>1, FilesAssumption DEF FindPorts
  <2>2. Reading!Init'
    BY <2>1 DEF Reading!Init
  <2>3. Reading!IInv'
    BY <2>2, Reading!InitEstablishes, PTL
  <2>4. Reading!LineInv'
    BY <2>2, FilesFit, Reading!LineInit, PTL
  <2>5. Reading!TypeOK'
    <3>1. Len(line') = 0 /\ at' = 1 /\ where' = "word" /\ disallow' = FALSE
      BY <2>1, Len(<<>>) = 0
    <3>2. ~Reading!Behind'
      BY <3>1 DEF Reading!Behind
    <3>3. at' \in 1 .. Len(line') + 2
      BY <3>1
    <3>4. where' \in {"word", "method", "name", "end", "stuck"} /\ where' # "stuck"
      BY <3>1
    <3> QED
      BY <3>1, <3>2, <3>3, <3>4, Zenon DEF Reading!TypeOK
  <2> QED
    BY <2>3, <2>4, <2>5
<1>2. CASE ReadConfig
  <2>1. Reading!Next /\ pc = "config"
    BY <1>2, SameFgets, SameEndOfFile, SameSkipLine, SameReadBehind, SameToken
    DEF ReadConfig, Config!Next, Reading!Next
  <2>2. Reading!IInv /\ Reading!LineInv /\ Reading!TypeOK
    BY <2>1 DEF ConfigInv
  <2> QED
    BY <2>1, <2>2, Reading!StepPreserves, Reading!LineStep, Reading!PlaceStep
<1>3. CASE UNCHANGED <<pc, config>>
  <2>1. UNCHANGED Reading!vars /\ pc = "config"
    BY <1>3 DEF config, Reading!vars
  <2>2. Reading!IInv /\ Reading!LineInv /\ Reading!TypeOK
    BY <2>1 DEF ConfigInv
  <2> QED
    BY <2>1, <2>2, Reading!StepPreserves, Reading!LineStep, Reading!PlaceStep
<1>4. ~(NoConfig \/ ConfigDone \/ Detect \/ Claimed \/ ClaimFails \/ DetectRest \/ Opendir \/ Found)
  BY DEF NoConfig, ConfigDone, Detect, Claimed, ClaimFails, DetectRest, Opendir, Found
<1>5. (\E n \in Names \cup Guesses : AddPort(n)) => UNCHANGED <<pc, config>>
  BY DEF AddPort
<1>6. FreePorts \/ Change \/ Take \/ GiveBack \/ UNCHANGED vars => UNCHANGED <<pc, config>>
  BY DEF FreePorts, Change, Take, GiveBack, vars
<1>7. ASSUME NEW p, NEW flags, NEW junk, Open(p, flags, junk) \/ Close(p)
      PROVE  UNCHANGED <<pc, config>>
  BY <1>7 DEF Open, Close
<1>8. ASSUME NEW fresh, NEW has, NEW whole, NEW field, NEW l,
             GetDeviceid(fresh, has, whole, field, l)
      PROVE  UNCHANGED <<pc, config>>
  BY <1>8 DEF GetDeviceid
<1> QED
  BY <1>1, <1>2, <1>3, <1>4, <1>5, <1>6, <1>7, <1>8 DEF Next, LibraryStep

\* find_ports reads its configuration file as the manual page says, whatever the files are,
\* but for comments glued to a token: the tokens of every other line are those it spells,
\* the place is behind its end only at a backslash, and ppdev is disallowed exactly when
\* the words so far say so (conf.c).
THEOREM ConfigRead == Spec => []ConfigAsDocumented
<1>1. Init => ConfigInv
  BY DEF Init, ConfigInv
<1>2. ConfigInv => ConfigAsDocumented
  <2> SUFFICES ASSUME ConfigInv, pc = "config"
               PROVE  /\ Config!TypeOK /\ Config!TokensAsDocumented
                      /\ Config!DisallowAsDocumented
    BY DEF ConfigAsDocumented
  <2>1. Reading!IInv /\ Reading!LineInv /\ Reading!TypeOK
    BY DEF ConfigInv
  <2>2. Config!TypeOK
    BY <2>1 DEF Config!TypeOK, Reading!TypeOK, Config!Behind, Reading!Behind
  <2>3. Config!TokensAsDocumented
    BY <2>1, Reading!LineEnds, SameDocumented
    DEF Config!TokensAsDocumented, Reading!TokensAsDocumented, Config!LineSpelled,
        Reading!LineSpelled
  <2>4. Config!DisallowAsDocumented
    BY <2>1 DEF Config!DisallowAsDocumented, Reading!DisallowAsDocumented, Reading!IInv,
       Config!DisallowWord, Reading!DisallowWord, Config!MethodWord, Reading!MethodWord,
       Config!PpdevWord, Reading!PpdevWord
  <2> QED
    BY <2>2, <2>3, <2>4
<1> QED
  BY <1>1, <1>2, Invariance, ConfigStep, PTL DEF Spec
=============================================================================
