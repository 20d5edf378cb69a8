-------------------------------- MODULE Pipe --------------------------------
(***************************************************************************)
(* What a relay promises for one direction of a tunnel: frames come out in *)
(* the order they went in, each of them once, and a pipe that ends as      *)
(* "complete" has handed over everything.                                  *)
(***************************************************************************)
EXTENDS Naturals, Sequences

VARIABLES sent, got, end

vars == <<sent, got, end>>

Init == sent = <<>> /\ got = <<>> /\ end = "open"

\* Frames are numbered.
Send ==
  /\ sent' = Append(sent, Len(sent) + 1)
  /\ UNCHANGED <<got, end>>

Deliver ==
  /\ end = "open" /\ Len(got) < Len(sent)
  /\ got' = Append(got, sent[Len(got) + 1])
  /\ UNCHANGED <<sent, end>>

Complete ==
  /\ end = "open" /\ got = sent
  /\ end' = "complete"
  /\ UNCHANGED <<sent, got>>

Break ==
  /\ end = "open" /\ end' = "broken"
  /\ UNCHANGED <<sent, got>>

Next == Send \/ Deliver \/ Complete \/ Break

Spec == Init /\ [][Next]_vars

=============================================================================
