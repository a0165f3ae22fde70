-------------------------- MODULE MCDeviceSessions ---------------------------
(* Devices, a key and a string for the runs.                               *)
EXTENDS DeviceSessions, TLC

CONSTANTS c1, c2

Pair == {c1, c2}

(* Nothing tells the connections apart but their devices: of two initial   *)
(* states with the devices exchanged one is enough.                        *)
PairInit == Init /\ prof[c1].dev < prof[c2].dev

PairSpec == PairInit /\ [][Next]_vars
PairFairSpec == PairSpec /\ Fairness

Key == (0 :> 1 @@ 1 :> 0 @@ 2 :> 1 @@ 3 :> 1)
Agreed == <<1, 0, 1>>
LastWrong == <<1, 0, 0>>
FirstWrong == <<0, 0, 1>>

Device(dev, ethnum, scr, term_num) ==
  [dev |-> dev, ethnum |-> ethnum, ttys |-> DOMAIN scr, term_num |-> term_num,
   scr |-> scr, string |-> Agreed, newer |-> FALSE, mute |-> "none"]

(* No port, two terminals with screens. *)
TwoTtys == Device(1, 0, (1 :> 2 @@ 2 :> 1), 2)
(* Two ports, a terminal without screens and one with. *)
TwoPorts == Device(2, 2, (1 :> 0 @@ 2 :> 1), 2)
(* One port, more terminals configured than active. *)
Idle == Device(3, 1, (2 :> 1), 2)
(* Fewer terminals configured than active. *)
Short == Device(4, 0, (1 :> 1 @@ 2 :> 0), 1)
(* Three ports: more than the server asks about. *)
ThreePorts == Device(5, 3, (1 :> 0), 1)
(* A string that is wrong in its last character. *)
Impostor == [Device(6, 0, (1 :> 0), 1) EXCEPT !.string = LastWrong]
(* Two terminals, the last without screens. *)
Last0 == Device(7, 1, (1 :> 2 @@ 2 :> 0), 2)
(* One port and an IP terminal with two screens, when terminal 1 is dumb. *)
Screened == Device(8, 1, (2 :> 2), 1)
(* One port and one terminal without screens. *)
OnePort == Device(9, 1, (1 :> 0), 1)
(* A string that is wrong in its first character only. *)
Lucky == [Device(10, 0, (1 :> 1), 1) EXCEPT !.string = FirstWrong]
(* Does not answer the request for its terminal. *)
Silent == [Device(11, 0, (1 :> 1), 1) EXCEPT !.mute = "ipterm"]
(* Answers that the server's version is too old. *)
Newer == [Device(12, 0, (1 :> 0), 1) EXCEPT !.newer = TRUE]

PairProfiles == {TwoTtys, TwoPorts, Last0, Impostor, Lucky}
PacedProfiles == {TwoPorts, Idle, Short, ThreePorts, Impostor, Last0, Silent}
RefusedProfiles == {OnePort, Impostor}
FaultProfiles == {Screened, OnePort, Newer}
=============================================================================
