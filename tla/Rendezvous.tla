---------------------------- MODULE Rendezvous ------------------------------
(***************************************************************************)
(* What xEventGroupSync promises to tasks that meet at an event group      *)
(* (event_groups.h, lines 631-634): each stops until all the others have   *)
(* come, then all go on together.                                          *)
(***************************************************************************)
CONSTANT Party       \* the tasks that meet

VARIABLE stopped     \* those that have come and wait for the rest

Come(p) ==
  /\ p \notin stopped
  /\ stopped' = IF stopped \cup {p} = Party THEN {} ELSE stopped \cup {p}

RendezvousInit == stopped = {}

RendezvousNext == \E p \in Party : Come(p)

RendezvousSpec == RendezvousInit /\ [][RendezvousNext]_stopped

(* Each of them comes again and again. *)
RendezvousFairness == \A p \in Party : WF_stopped(Come(p))

=============================================================================
