---------------------------- MODULE MCSemaphore ----------------------------
(* Small instances of Semaphore: the operation lists processes hand to     *)
(* semop.                                                                  *)
EXTENDS Semaphore, TLC

Do(num, op, undoFlag, nowaitFlag) ==
  [num |-> num, op |-> op, undo |-> undoFlag, nowait |-> nowaitFlag]

(* Each list names a semaphore once: lists that wait for two semaphores,   *)
(* that undo, that fail half way and that do not wait.                     *)
OnceEach ==
  { <<Do(0, -1, TRUE, FALSE), Do(1, -1, TRUE, TRUE)>>,
    <<Do(1, 1, FALSE, FALSE), Do(0, 0, FALSE, FALSE)>>,
    <<Do(0, 2, TRUE, FALSE)>> }

(* Take, give, wait for zero. *)
Simple == { <<Do(0, op, FALSE, FALSE)>> : op \in {-1, 0, 1} }

(* A wait, a post and a list of two, for the holding area. *)
Plain == { <<Do(0, -1, FALSE, FALSE)>>,
           <<Do(0, 1, FALSE, FALSE), Do(0, 1, FALSE, FALSE)>> }

ASSUME CountsAssumption == CountsFit

ASSUME OnceAssumption == \A list \in OnceEach : NamesOnce(list)

Symmetry == Permutations(Proc)
=============================================================================
