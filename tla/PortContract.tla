----------------------------- MODULE PortContract -----------------------------
(***************************************************************************)
(* What the library promises about one port (doc/interface.xml): a port is *)
(* absent, closed, open or claimed; it is claimed only after it was        *)
(* opened, by one process at a time among those whose access method can    *)
(* exclude, and must be released before it can be closed.                  *)
(***************************************************************************)
CONSTANTS Procs

VARIABLES
  st,    \* [Procs -> {"absent", "closed", "open", "claimed"}]
  excl   \* the processes that opened the port with a method that can exclude

vars == <<st, excl>>

Init == st = [p \in Procs |-> "absent"] /\ excl = {}

Move(p, from, to) == st[p] = from /\ st' = [st EXCEPT ![p] = to]

Appear(p) == Move(p, "absent", "closed") /\ UNCHANGED excl
Destroy(p) == Move(p, "closed", "absent") /\ UNCHANGED excl
Open(p) == Move(p, "closed", "open") /\ (excl' = excl \/ excl' = excl \cup {p})

Claim(p) ==
  /\ Move(p, "open", "claimed")
  /\ p \in excl => \A q \in excl : st[q] # "claimed"
  /\ UNCHANGED excl

Release(p) == Move(p, "claimed", "open") /\ UNCHANGED excl

\* Closing an open port; it is destroyed when nothing else refers to it.
Close(p) ==
  /\ Move(p, "open", "closed") \/ Move(p, "open", "absent")
  /\ excl' = excl \ {p}

\* The struct goes away under its user: the process dies, or gives up the last
\* reference.
Vanish(p) ==
  /\ st[p] # "absent" /\ st' = [st EXCEPT ![p] = "absent"]
  /\ excl' = excl \ {p}

Next == \E p \in Procs :
  \/ Appear(p) \/ Destroy(p) \/ Open(p) \/ Claim(p)
  \/ Release(p) \/ Close(p) \/ Vanish(p)

Spec == Init /\ [][Next]_vars
=============================================================================
