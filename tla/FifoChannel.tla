----------------------------- MODULE FifoChannel -----------------------------
(***************************************************************************)
(* One direction of a reliable link: what was handed in comes out once, in  *)
(* order, or not at all.                                                    *)
(***************************************************************************)
EXTENDS Integers, Sequences

CONSTANT Message

VARIABLES
    sent,   \* everything handed in, in order
    got     \* everything taken out, in order

Init == sent = <<>> /\ got = <<>>

Send ==
    /\ \E m \in Message : sent' = Append(sent, m)
    /\ UNCHANGED got

Receive ==
    /\ Len(got) < Len(sent)
    /\ got' = Append(got, sent[Len(got) + 1])
    /\ UNCHANGED sent

\* A step of the channel, or one that leaves it alone.
Step == Send \/ Receive \/ UNCHANGED <<sent, got>>

Spec == Init /\ [][Send \/ Receive]_<<sent, got>>

=============================================================================
