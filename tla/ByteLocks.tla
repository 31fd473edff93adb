----------------------------- MODULE ByteLocks -----------------------------
(***************************************************************************)
(* What record locking promises: every byte of the file is held by each    *)
(* process for reading, for writing or not at all.  A call that succeeds   *)
(* gives its process exactly the bytes asked for in the mode asked for and *)
(* nothing that another process's hold excludes; a call that fails changes *)
(* nothing, except that one that runs out of records may have given up     *)
(* bytes of the range it was called for.                                   *)
(***************************************************************************)
EXTENDS Naturals

CONSTANTS
  Proc,       \* processes
  Byte,       \* the positions of the file
  Calls,      \* requests: cmd, type and the bytes start .. end
  NoCall,
  NoRet

VARIABLES
  held,       \* the mode in which each process holds each byte
  want,       \* the request each process is in, or NoCall
  ret         \* what the last step returned, and to whom

absVars == <<held, want, ret>>

AbsInit ==
  /\ held = [p \in Proc |-> [b \in Byte |-> "F_UNLCK"]]
  /\ want = [p \in Proc |-> NoCall]
  /\ ret = NoRet

Span(rq) == {b \in Byte : rq.start <= b /\ b <= rq.end}

Excluded(p, rq) ==
  /\ rq.type # "F_UNLCK"
  /\ \E q \in Proc \ {p}, b \in Span(rq) :
       \/ held[q][b] = "F_WRLCK"
       \/ held[q][b] = "F_RDLCK" /\ rq.type = "F_WRLCK"

Ask(p) ==
  /\ want[p] = NoCall
  /\ want'[p] \in Calls
  /\ want' = [want EXCEPT ![p] = want'[p]]
  /\ ret' = NoRet
  /\ UNCHANGED held

Return(p, code) ==
  /\ want[p] # NoCall
  /\ want' = [want EXCEPT ![p] = NoCall]
  /\ ret' = <<p, code>>

Grant(p) ==
  /\ Return(p, "ok")
  /\ ~Excluded(p, want[p])
  /\ held' = IF want[p].cmd \in {"F_SETLK", "F_SETLKW"}
               THEN [held EXCEPT ![p] = [b \in Byte |->
                       IF b \in Span(want[p]) THEN want[p].type ELSE @[b]]]
               ELSE held

(* F_SETLK does not wait. *)
Refuse(p) ==
  /\ \/ /\ Return(p, "EAGAIN")
        /\ want[p].cmd \in {"F_SETLK", "FNDELAY"}
        /\ Excluded(p, want[p])
     \/ \E code \in {"EDEADLK", "EINTR"} :
          Return(p, code) /\ want[p].cmd \in {"F_SETLKW", "rdwr"}
  /\ UNCHANGED held

OutOfRecords(p) ==
  /\ Return(p, "ENOLCK")
  /\ \E lost \in SUBSET Span(want[p]) :
       held' = [held EXCEPT ![p] = [b \in Byte |->
                  IF b \in lost THEN "F_UNLCK" ELSE @[b]]]

Release(p) ==
  /\ want[p] = NoCall
  /\ held' = [held EXCEPT ![p] = [b \in Byte |-> "F_UNLCK"]]
  /\ ret' = NoRet
  /\ UNCHANGED want

(* A step that concerns nobody's call. *)
Tick == ret' = NoRet /\ UNCHANGED <<held, want>>

AbsNext ==
  \/ \E p \in Proc :
       \/ Ask(p) \/ Grant(p) \/ Refuse(p) \/ OutOfRecords(p) \/ Release(p)
  \/ Tick

AbsSpec == AbsInit /\ [][AbsNext]_absVars
=============================================================================
