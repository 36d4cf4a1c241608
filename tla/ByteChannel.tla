----------------------------- MODULE ByteChannel -----------------------------
(***************************************************************************)
(* What a read from the peripheral promises: the bytes it hands to the     *)
(* application are the bytes the peripheral sent, each once and in their   *)
(* order, for as long as the session lasts and the peripheral has power.   *)
(***************************************************************************)
EXTENDS Naturals, Sequences

CONSTANT Sent   \* the stream: [1 .. longest -> bytes]

VARIABLES
  got,    \* the bytes handed to the application in this session
  sound   \* the session is on and the peripheral was not switched off in it

vars == <<got, sound>>

Init == got = <<>> /\ sound = TRUE

Deliver ==
  /\ sound /\ Len(got) + 1 \in DOMAIN Sent
  /\ got' = Append(got, Sent[Len(got) + 1])
  /\ UNCHANGED sound

\* The session is over, or the power is gone: nothing is promised any more.
End == sound /\ ~sound' /\ UNCHANGED got

NewSession == got' = <<>> /\ sound'

Unsound == ~sound /\ ~sound'

Next == Deliver \/ End \/ NewSession \/ Unsound

Spec == Init /\ [][Next]_vars
=============================================================================
