-------------------------------- MODULE Feed --------------------------------
(***************************************************************************)
(* What a subscription promises its consumer: it sees every change, in the   *)
(* order in which the server made them.                                    *)
(***************************************************************************)
EXTENDS Naturals

CONSTANT MaxEvents   (* bound on the changes the server makes              *)

VARIABLES
  produced,  (* how many changes the server made                          *)
  seen       (* the changes the consumer received                         *)

Init == produced = 0 /\ seen = {}

Produce ==
  /\ produced < MaxEvents
  /\ produced' = produced + 1
  /\ UNCHANGED seen

(* The next change; one that was seen before may be seen again.            *)
See ==
  /\ \E e \in 1 .. produced : seen = 1 .. (e - 1) /\ seen' = 1 .. e
  /\ UNCHANGED produced

Next == Produce \/ See

Spec == Init /\ [][Next]_<<produced, seen>> /\ WF_<<produced, seen>>(See)
=============================================================================
