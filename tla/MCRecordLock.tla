---------------------------- MODULE MCRecordLock ----------------------------
(* Small instances of RecordLock: the requests processes make. *)
EXTENDS RecordLock, TLC

Ask(cmd, type, s, e) ==
  [cmd |-> cmd, type |-> type, start |-> s, end |-> e, append |-> FALSE]

Types == {"F_RDLCK", "F_WRLCK", "F_UNLCK"}
Ranges == {r \in (0 .. MAXEND) \X (0 .. MAXEND) : r[1] <= r[2]}

(* Every range and type, calls that wait, transfers. *)
AllRanges ==
  { Ask("F_SETLK", t, r[1], r[2]) : t \in Types, r \in Ranges }
    \cup { Ask("F_SETLKW", "F_WRLCK", 0, MAXEND),
           Ask("F_SETLKW", "F_RDLCK", 1, 1), Ask("rdwr", "F_RDLCK", 0, 0),
           Ask("FNDELAY", "F_RDLCK", 1, 1) }

(* Appends of one byte, to a file that is locked and unlocked. *)
Appends ==
  { [Ask("rdwr", "F_WRLCK", 0, 0) EXCEPT !.append = TRUE],
    Ask("F_SETLK", "F_WRLCK", 0, MAXEND), Ask("F_SETLK", "F_UNLCK", 0, MAXEND) }

Symmetry == Permutations(Proc)
=============================================================================
