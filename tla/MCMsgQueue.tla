---------------------------- MODULE MCMsgQueue -----------------------------
(* Small instances of MsgQueue: the calls processes make. *)
EXTENDS MsgQueue, TLC

Ask(op, id, type, size, text) ==
  [op |-> op, id |-> id, type |-> type, size |-> size, nowait |-> FALSE,
   noerror |-> FALSE, text |-> text]

Ids == 0 .. msgmni * (MaxSeq + 1) - 1

(* A long and a short message of different types; receivers take any       *)
(* message, one type or the lowest, with and without room for the text.    *)
Mixed ==
  { Ask("snd", id, 1, 3, "a") : id \in Ids }
    \cup { Ask("snd", id, 2, 1, "b") : id \in Ids }
    \cup { Ask("rcv", id, want, 3, NoText) : id \in Ids, want \in {1, -2} }
    \cup { [Ask("rcv", id, 0, 1, NoText) EXCEPT !.noerror = b] :
             id \in Ids, b \in BOOLEAN }
    \cup { Ask("rmid", id, 0, 0, NoText) : id \in Ids }

(* Two queues that share headers and text space; one has limits that       *)
(* change and calls that do not wait.                                      *)
Shared ==
  { Ask("snd", id, 1, 3, "a") : id \in Ids }
    \cup { Ask("rcv", id, 0, 3, NoText) : id \in Ids }
    \cup { [Ask("snd", 0, 1, 0, NoText) EXCEPT !.nowait = TRUE],
           [Ask("rcv", 0, 0, 3, NoText) EXCEPT !.nowait = TRUE],
           Ask("set", 0, 0, 0, NoText), Ask("set", 0, 0, 4, NoText),
           Ask("stat", 0, 0, 0, NoText) }

Symmetry == Permutations(Proc)
=============================================================================
