---------------------------- MODULE MCRendezvous ----------------------------
(***************************************************************************)
(* Small instances of Rendezvous for TLC: one or two devices, one of them  *)
(* with an ID that is not valid, and a program that only looks them up.    *)
(***************************************************************************)
EXTENDS Rendezvous, TLC

CONSTANTS c1, c2, c3, c4, d1, d2, e1, e2, peer

\* Three calls of one device, and one that looks it up.
OneDevice == [c \in Calls |-> IF c = c4 THEN peer ELSE d1]

\* The calls of one program are alike.
CallSymmetry == Permutations({c \in Calls : Caller[c] = d1})

\* Two devices that look each other up.
TwoDevices == [c \in Calls |-> IF c \in {c1, c2} THEN d1 ELSE d2]
=============================================================================
