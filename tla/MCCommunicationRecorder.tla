----------------------- MODULE MCCommunicationRecorder -----------------------
(* Instances of CommunicationRecorder: guests that share memory, fetch with *)
(* page walks, spin, or idle.                                               *)
EXTENDS CommunicationRecorder, TLC
CONSTANTS c1, c2, l1, l2

Guest(c, k, p, l, e, q) ==
  [cores |-> c, calls |-> k, privilege |-> p, lines |-> l, events |-> e, quitAt |-> q]
Guests ==
  {Guest({c1, c2}, {"ldxr", "lse"}, {}, {l1}, 4, 2),
   Guest({c1, c2}, {"fetch", "stxr"}, {"os"}, {l1, l2}, 3, 1),
   Guest({c1}, {"cas"}, {}, {l1, l2}, 4, 1),
   Guest({c1}, {"wfe"}, {}, {}, 5, 2), Guest({c1}, {"wfi"}, {}, {}, 6, 2)}
PageWalks == {<<>>, <<l2>>}
=============================================================================
