----------------------------- MODULE RecordLock -----------------------------
(***************************************************************************)
(* Record locks (uts/3b2/os/flock.c), with the calls that reach them:      *)
(* fcntl, read and write of a file with mandatory locks (s5chklock), close.*)
(*                                                                         *)
(* One file.  The kernel is not preemptive, so reclock runs from its entry *)
(* to the point where it sleeps or returns: one action.  A sleeping        *)
(* process waits for the address of the record that blocks it; the         *)
(* processes that sleep for a record are kept with the record.  sleeplcks  *)
(* is a function from the sleeping process to the owner of that record.    *)
(*                                                                         *)
(* Abstracted: whence and length of a request, which reclock turns into    *)
(* start and end before anything else; wakeflg is a count in the code and  *)
(* only compared with zero; F_GETLK, which changes nothing; processes of   *)
(* other systems (l_sysid).                                                *)
(***************************************************************************)
EXTENDS Integers, Sequences, SequencesExt, FiniteSets

CONSTANTS
  Proc,       \* processes
  NoProc,
  MAXEND,     \* the last position of a file
  recs,       \* flckinfo.recs: records configured
  Calls       \* the requests processes make

NoCall == [cmd |-> "none", type |-> "F_UNLCK", start |-> 0, end |-> 0,
           append |-> FALSE]
NoRet == <<NoProc, "none">>

(* F_SETLK and F_SETLKW set a lock; rdwr and FNDELAY are the check that a  *)
(* transfer makes, with and without waiting.                               *)
Request ==
  [cmd : {"F_SETLK", "F_SETLKW", "rdwr", "FNDELAY"},
   type : {"F_RDLCK", "F_WRLCK", "F_UNLCK"},
   start : 0 .. MAXEND, end : 0 .. MAXEND, append : BOOLEAN]

ASSUME ConstAssumption ==
  /\ NoProc \notin Proc
  /\ MAXEND \in Nat
  /\ recs \in Nat
  /\ Calls \subseteq {rq \in Request :
       /\ rq.start <= rq.end
       /\ rq.cmd \in {"rdwr", "FNDELAY"} => rq.type # "F_UNLCK"
       /\ rq.append => rq.cmd \in {"rdwr", "FNDELAY"} /\ rq.type = "F_WRLCK"}

VARIABLES
  list,       \* the records of the file (i_filocks)
  blk,        \* sleeplcks: whom the entry of a process says it waits for
  pc,         \* where each process is
  req,        \* the request each process is in
  ilock,      \* the process that has the inode locked, or NoProc
  size,       \* i_size
  ret         \* what reclock returned in the last step, and to whom

procVars == <<pc, req>>
inode == <<ilock, size>>
vars == <<list, blk, procVars, inode, ret>>

(* flckinit *)
Init ==
  /\ list = <<>>
  /\ blk = [p \in Proc |-> NoProc]
  /\ pc = [p \in Proc |-> "user"]
  /\ req = [p \in Proc |-> NoCall]
  /\ ilock = NoProc
  /\ size = 0
  /\ ret = NoRet

-----------------------------------------------------------------------------
(* Records and the list. *)

Record(p, rq) ==
  [pid |-> p, type |-> rq.type, start |-> rq.start, end |-> rq.end,
   wakeflg |-> FALSE, sleepers |-> {}]

SetsLock(rq) == rq.cmd \in {"F_SETLK", "F_SETLKW"}
Waits(rq) == rq.cmd \in {"F_SETLKW", "rdwr"}

Free(l, b) == recs - Len(l) - Cardinality({p \in Proc : b[p] # NoProc})

(* The first index of S, or the one past the list. *)
First(S, l) == IF S = {} THEN Len(l) + 1
                         ELSE CHOOSE i \in S : \A j \in S : i <= j

(* WAKEUP: who is woken when the record is deleted or shortened. *)
WAKEUP(f) == IF f.wakeflg THEN f.sleepers ELSE {}

Cut(f, end) ==
  [f EXCEPT !.end = end, !.wakeflg = FALSE, !.sleepers = @ \ WAKEUP(f)]

(* Faulty: an adjoining record is taken for one that is apart. *)
regflckApart(ld, f) ==
  IF ld.start > f.end THEN <<"AFTER", "AFTER">>
  ELSE << IF ld.start > f.start THEN "MIDDLE"
          ELSE IF ld.start = f.start THEN "START" ELSE "BEFORE",
          IF ld.end >= f.end THEN IF ld.end = f.end THEN "END" ELSE "AFTER"
          ELSE IF ld.end < f.start THEN "BEFORE" ELSE "MIDDLE" >>

(* regflck: where ld starts and where it ends relative to a record. *)
regflck(ld, f) ==
  IF ld.start > f.start /\ ld.start - 1 = f.end THEN <<"END", "AFTER">>
  ELSE IF ld.start > f.start /\ ld.start > f.end THEN <<"AFTER", "AFTER">>
  ELSE << IF ld.start > f.start THEN "MIDDLE"
          ELSE IF ld.start = f.start THEN "START" ELSE "BEFORE",
          IF ld.end < f.end
            THEN IF ld.end = f.start - 1 THEN "START"
                 ELSE IF ld.end < f.start THEN "BEFORE" ELSE "MIDDLE"
            ELSE IF ld.end = f.end THEN "END" ELSE "AFTER" >>

(* From a record on, the last one before the first that does not start     *)
(* before the given position; 0 is the head of the list.                   *)
Place(l, from, start) ==
  LET after == {i \in from .. Len(l) : i > 0 /\ l[i].start >= start}
  IN  IF from = 0 THEN 0
      ELSE IF First(after, l) = from THEN from ELSE First(after, l) - 1

(* Faulty: the last position of a record is left out. *)
OverlapsShort(f, rq) == rq.start < f.end

(* The request does not start after the record. *)
Overlaps(f, rq) == rq.start <= f.end
Excludes(f, p, rq) ==
  /\ f.pid # p
  /\ f.type = "F_WRLCK" \/ (f.type = "F_RDLCK" /\ rq.type = "F_WRLCK")

(* blocked: the first record of another process that excludes the request  *)
(* (0 if none), and the record where updating the list is to begin.        *)
blocked(p, rq) ==
  LET Bars(i) == Overlaps(list[i], rq) /\ Excludes(list[i], p, rq)
      Touches(i) == list[i].pid = p /\ rq.start - 1 <= list[i].end
      Early(i) == list[i].start < rq.start
      f1 == First({i \in DOMAIN list : ~Early(i) \/ Touches(i) \/ Bars(i)},
                  list)
      f2 == First({i \in f1 .. Len(list) :
                     rq.end < list[i].start \/ Bars(i)}, list)
      in1 == f1 \in DOMAIN list /\ Early(f1)
  IN  [found |-> IF in1 /\ Bars(f1) THEN f1
                 ELSE IF f2 \in DOMAIN list /\ ~(rq.end < list[f2].start)
                      THEN f2 ELSE 0,
       insrt |-> IF in1 THEN f1 ELSE f1 - 1]

-----------------------------------------------------------------------------
(* flckadj.  Its state: the list l, the (un)lock ld, the index at of the   *)
(* record looked at (0 ends the scan), insrtp as an index (0 is NULL), who *)
(* has been woken, and the value to return when the scan returns.          *)

delflck(s) ==
  [s EXCEPT !.l = RemoveAt(@, s.at),
            !.insrtp = IF @ >= s.at THEN @ - 1 ELSE @,
            !.woken = @ \cup WAKEUP(s.l[s.at])]

(* Faulty: a record that is shortened wakes nobody. *)
ShortenQuiet(s) ==
  [s EXCEPT !.l[s.at].end = s.ld.start - 1, !.insrtp = s.at, !.at = @ + 1]

(* The record ends before the (un)lock; who slept for it looks again. *)
Shorten(s) ==
  [s EXCEPT !.l[s.at] = Cut(@, s.ld.start - 1),
            !.insrtp = s.at, !.at = @ + 1,
            !.woken = @ \cup WAKEUP(s.l[s.at])]

End(s) == [s EXCEPT !.at = 0]
Fail(s, code) == [End(s) EXCEPT !.code = code]

(* Faulty: the piece starts after the end of the record itself. *)
PieceAfterRecord(s, p) ==
  LET f == s.l[s.at]
      td == Record(p, [f EXCEPT !.start = f.end + 1])
  IN  [s EXCEPT !.l = InsertAt(@, Place(@, s.at, td.start) + 1, td)]

(* The piece of a record after the end of the (un)lock. *)
PieceAfter(s, p) ==
  LET f == s.l[s.at]
      td == Record(p, [f EXCEPT !.start = s.ld.end + 1])
  IN  [s EXCEPT !.l = InsertAt(@, Place(@, s.at, td.start) + 1, td)]

(* One record of the process itself is adjusted. *)
Adjust(s, p, free) ==
  LET f == s.l[s.at]
      reg == regflck(s.ld, f)
      same == s.ld.type = f.type
      backed == [s EXCEPT !.insrtp = s.at - 1]
      toEnd == [s EXCEPT !.ld.end = f.end]
      toStart == [backed EXCEPT !.ld.start = f.start]
  IN  CASE reg = <<"BEFORE", "BEFORE">> -> End(s)
        [] reg = <<"BEFORE", "START">> ->
             End(IF same THEN delflck(toEnd) ELSE s)
        [] reg = <<"START", "END">> ->
             IF same THEN Fail(s, "ok") ELSE delflck(backed)
        [] reg = <<"START", "AFTER">> -> delflck(backed)
        [] reg = <<"BEFORE", "END">> ->
             IF same THEN End(delflck(s)) ELSE delflck(s)
        [] reg = <<"BEFORE", "AFTER">> -> delflck(s)
        [] reg[2] = "MIDDLE" ->
             IF same
               THEN IF reg[1] = "BEFORE" THEN End(delflck(toEnd))
                                         ELSE Fail(s, "ok")
             ELSE IF free = 0 THEN Fail(s, "ENOLCK")
             ELSE End(CASE reg[1] = "MIDDLE" -> Shorten(PieceAfter(s, p))
                        [] reg[1] = "START" -> delflck(PieceAfter(backed, p))
                        [] reg[1] = "BEFORE" -> delflck(PieceAfter(s, p)))
        [] reg = <<"MIDDLE", "END">> ->
             IF same THEN Fail(s, "ok") ELSE Shorten(s)
        [] reg = <<"MIDDLE", "AFTER">> ->
             IF same THEN delflck(toStart) ELSE Shorten(s)
        [] reg = <<"END", "AFTER">> ->
             IF same THEN delflck(toStart) ELSE [s EXCEPT !.at = @ + 1]
        [] reg = <<"AFTER", "AFTER">> ->
             [s EXCEPT !.insrtp = s.at, !.at = @ + 1]

(* The loop looks at one record and goes on to the next. *)
Visit(s, p, b) ==
  IF s.at \notin DOMAIN s.l THEN End(s)
  ELSE IF s.l[s.at].pid # p THEN [s EXCEPT !.at = @ + 1]
  ELSE Adjust(s, p, Free(s.l, b))

(* Each turn of the loop passes, deletes or ends at a record of the list.  *)
Scan(start, p, b) ==
  LET scan[n \in 0 .. Len(list)] ==
        IF n = 0 THEN start ELSE Visit(scan[n - 1], p, b)
  IN  scan[Len(list)]

flckadj(p, insrtp, rq, b) ==
  LET start == [l |-> list, ld |-> rq, at |-> IF insrtp = 0 THEN 1 ELSE insrtp,
                insrtp |-> insrtp, woken |-> {}, code |-> "go"]
      s == Scan(start, p, b)
  IN  IF s.code # "go" THEN s
      ELSE IF rq.type = "F_UNLCK" THEN [s EXCEPT !.code = "ok"]
      ELSE IF Free(s.l, b) = 0 THEN [s EXCEPT !.code = "ENOLCK"]
      ELSE [s EXCEPT
              !.l = InsertAt(@, Place(@, s.insrtp, s.ld.start) + 1,
                             Record(p, s.ld)),
              !.code = "ok"]

-----------------------------------------------------------------------------
(* reclock. *)

(* Faulty: only the owner of the blocking record is compared. *)
deadflckOne(p, found) == list[found].pid = p

(* deadflck: following sleeplcks from the owner of the record leads to the *)
(* process itself, which is to say that it is in every set that has the    *)
(* owner in it and is closed under sleeplcks.                              *)
deadflck(p, found) ==
  \A S \in SUBSET Proc :
     /\ list[found].pid \in S
     /\ \A q \in S : blk[q] \in S \cup {NoProc}
     => p \in S

(* wakeup makes the sleepers runnable; where p goes. *)
Goes(p, to, woken) ==
  pc' = [q \in Proc |-> IF q = p THEN to
                        ELSE IF q \in woken THEN "woken" ELSE pc[q]]

(* A call is over for reclock; a transfer that may go on does so with the  *)
(* inode locked.                                                           *)
Returns(p, code, woken) ==
  LET rq == req[p]
      io == ~SetsLock(rq) /\ code = "ok"
  IN  /\ Goes(p, IF io THEN "io" ELSE "user", woken)
      /\ req' = IF io THEN req ELSE [req EXCEPT ![p] = NoCall]
      /\ ilock' = IF io THEN p ELSE IF ilock = p THEN NoProc ELSE ilock
      /\ ret' = <<p, code>>
      /\ UNCHANGED size

Dropped(p) == [blk EXCEPT ![p] = NoProc]

(* The lock can be set, or removed. *)
SetLock(p) ==
  LET rq == req[p]
      bl == blocked(p, rq)
      head == IF list = <<>> THEN 0 ELSE 1
      s == flckadj(p, IF rq.type = "F_UNLCK" THEN head ELSE bl.insrt,
                   rq, Dropped(p))
  IN  /\ SetsLock(rq)
      /\ rq.type = "F_UNLCK" \/ bl.found = 0
      /\ list' = s.l
      /\ Returns(p, s.code, s.woken)
      /\ blk' = Dropped(p)

(* A transfer finds no record against it. *)
Clear(p) ==
  /\ ~SetsLock(req[p])
  /\ blocked(p, req[p]).found = 0
  /\ Returns(p, "ok", {})
  /\ blk' = Dropped(p)
  /\ UNCHANGED list

IsBlocked(p) == req[p].type # "F_UNLCK" /\ blocked(p, req[p]).found # 0

(* The request is blocked and does not wait, would deadlock, or there is   *)
(* no record for sleeplcks.                                                *)
Refused(p) ==
  LET found == blocked(p, req[p]).found
      full == Free(list, Dropped(p)) = 0
  IN  /\ IsBlocked(p)
      /\ \/ ~Waits(req[p]) /\ Returns(p, "EAGAIN", {})
         \/ /\ Waits(req[p]) /\ deadflck(p, found)
            /\ Returns(p, "EDEADLK", {})
         \/ /\ Waits(req[p]) /\ ~deadflck(p, found) /\ full
            /\ Returns(p, "ENOLCK", {})
      /\ blk' = Dropped(p)
      /\ UNCHANGED list

(* The request is entered in sleeplcks and sleeps for the record. *)
Sleep(p) ==
  LET found == blocked(p, req[p]).found
  IN  /\ IsBlocked(p)
      /\ Waits(req[p])
      /\ ~deadflck(p, found)
      /\ Free(list, Dropped(p)) > 0
      /\ list' = [list EXCEPT ![found].wakeflg = TRUE,
                              ![found].sleepers = @ \cup {p}]
      /\ blk' = [blk EXCEPT ![p] = list[found].pid]
      /\ Goes(p, "asleep", {})
      /\ ilock' = IF ilock = p THEN NoProc ELSE ilock
      /\ ret' = NoRet
      /\ UNCHANGED <<req, size>>

Reclock(p) == SetLock(p) \/ Clear(p) \/ Refused(p) \/ Sleep(p)

-----------------------------------------------------------------------------
(* System calls. *)

(* fcntl copies its argument in.  Until it enters reclock the process is   *)
(* to the others as if it had not called: it is enough that one process at *)
(* a time is there.                                                        *)
fcntl(p, rq) ==
  /\ pc[p] = "user"
  /\ \A q \in Proc : pc[q] # "call"
  /\ SetsLock(rq)
  /\ pc' = [pc EXCEPT ![p] = "call"]
  /\ req' = [req EXCEPT ![p] = rq]
  /\ ret' = NoRet
  /\ UNCHANGED <<list, blk, inode>>

(* rdwr locks the inode and takes the offset: of an append, the size.  The *)
(* bound on the size is that of the file.                                  *)
rdwr(p, rq) ==
  LET len == rq.end - rq.start
      there == IF rq.append
                 THEN [rq EXCEPT !.start = size, !.end = size + len]
                 ELSE rq
  IN  /\ pc[p] = "user"
      /\ ~SetsLock(rq)
      /\ ilock = NoProc
      /\ there.end <= MAXEND
      /\ pc' = [pc EXCEPT ![p] = "call"]
      /\ req' = [req EXCEPT ![p] = there]
      /\ ilock' = p
      /\ ret' = NoRet
      /\ UNCHANGED <<list, blk, size>>

Enter(p) == pc[p] = "call" /\ Reclock(p)

(* A signal reaches a process that sleeps, or that has been woken and has  *)
(* not run yet.                                                            *)
Signal(p) ==
  /\ pc[p] \in {"asleep", "woken"}
  /\ pc' = [pc EXCEPT ![p] = "intr"]
  /\ list' = [i \in DOMAIN list |-> [list[i] EXCEPT !.sleepers = @ \ {p}]]
  /\ ret' = NoRet
  /\ UNCHANGED <<blk, req, inode>>

(* sleep returns: the entry in sleeplcks is deleted.  A transfer locks the *)
(* inode again, for which it may have to wait; the others look again.      *)
Resume(p) ==
  /\ pc[p] = "woken"
  /\ \/ SetsLock(req[p]) /\ Reclock(p)
     \/ /\ ~SetsLock(req[p])
        /\ blk' = Dropped(p)
        /\ pc' = [pc EXCEPT ![p] = "plock"]
        /\ ret' = NoRet
        /\ UNCHANGED <<list, req, inode>>

plock(p) == pc[p] = "plock" /\ ilock = NoProc /\ Reclock(p)

Interrupted(p) ==
  /\ pc[p] = "intr"
  /\ Returns(p, "EINTR", {})
  /\ blk' = Dropped(p)
  /\ UNCHANGED list

(* The transfer is made, the inode unlocked. *)
Transfer(p) ==
  /\ pc[p] = "io"
  /\ size' = IF req[p].type = "F_WRLCK" /\ req[p].end + 1 > size
               THEN req[p].end + 1 ELSE size
  /\ ilock' = NoProc
  /\ pc' = [pc EXCEPT ![p] = "user"]
  /\ req' = [req EXCEPT ![p] = NoCall]
  /\ ret' = NoRet
  /\ UNCHANGED <<list, blk>>

(* The records of p deleted, one after the other; who slept for them. *)
Cleaned(p) ==
  LET start == [l |-> list, at |-> 1, insrtp |-> 0, woken |-> {}]
      clean[n \in 0 .. Len(list)] ==
        IF n = 0 THEN start
        ELSE LET s == clean[n - 1]
             IN  IF s.l[s.at].pid = p THEN delflck(s) ELSE [s EXCEPT !.at = @ + 1]
  IN  clean[Len(list)]

(* cleanlocks, for the process: on close, and so on exit. *)
cleanlocks(p) ==
  /\ pc[p] = "user"
  /\ \E i \in DOMAIN list : list[i].pid = p
  /\ list' = Cleaned(p).l
  /\ Goes(p, "user", Cleaned(p).woken)
  /\ ret' = NoRet
  /\ UNCHANGED <<blk, req, inode>>

Next ==
  \E p \in Proc :
    \/ \E rq \in Calls : fcntl(p, rq) \/ rdwr(p, rq)
    \/ Enter(p) \/ Signal(p) \/ Resume(p) \/ plock(p) \/ Interrupted(p)
    \/ Transfer(p) \/ cleanlocks(p)

Spec == Init /\ [][Next]_vars

-----------------------------------------------------------------------------
TypeOK ==
  /\ list \in Seq([pid : Proc, type : {"F_RDLCK", "F_WRLCK"},
                   start : 0 .. MAXEND, end : 0 .. MAXEND,
                   wakeflg : BOOLEAN, sleepers : SUBSET Proc])
  /\ blk \in [Proc -> Proc \cup {NoProc}]
  /\ pc \in [Proc -> {"user", "call", "asleep", "woken", "intr", "plock",
                      "io"}]
  /\ req \in [Proc -> Request \cup {NoCall}]
  /\ ilock \in Proc \cup {NoProc}
  /\ size \in 0 .. MAXEND + 1
  /\ ret \in (Proc \X {"ok", "EAGAIN", "EDEADLK", "ENOLCK", "EINTR"})
               \cup {NoRet}

(* The list is in the order of starting positions, the records of one      *)
(* process do not overlap, two that adjoin differ in type, and the records *)
(* in use, here and in sleeplcks, are at most those configured.            *)
ListIsNormal ==
  /\ \A i, j \in DOMAIN list :
       i < j =>
         /\ list[i].start <= list[j].start
         /\ list[i].pid = list[j].pid =>
              \/ list[i].end + 1 < list[j].start
              \/ /\ list[i].end + 1 = list[j].start
                 /\ list[i].type # list[j].type
  /\ Free(list, blk) >= 0

(* No wakeup is lost: a process sleeps for a record that is in the list,   *)
(* flagged, owned by the process that sleeplcks names, and still against   *)
(* its request.                                                            *)
SleepersAreBlocked ==
  \A p \in Proc : pc[p] = "asleep" =>
    \E i \in DOMAIN list :
      /\ p \in list[i].sleepers
      /\ list[i].wakeflg
      /\ list[i].pid = blk[p]
      /\ Excludes(list[i], p, req[p])
      /\ list[i].start <= req[p].end /\ req[p].start <= list[i].end

(* The processes in sleeplcks do not wait for each other in a circle: no   *)
(* deadlock goes undetected, and the loop of deadflck ends.                *)
WaitsAreAcyclic ==
  \A S \in (SUBSET Proc) \ {{}} : \E p \in S : blk[p] \notin S

(* Every byte is held as the calls that returned say. *)
Held ==
  [p \in Proc |-> [b \in 0 .. MAXEND |->
     IF \E i \in DOMAIN list : list[i].pid = p /\ b \in list[i].start .. list[i].end
       THEN (CHOOSE f \in Range(list) : f.pid = p /\ b \in f.start .. f.end).type
       ELSE "F_UNLCK"]]

Wanted == [p \in Proc |-> IF pc[p] \in {"user", "io"} THEN NoCall ELSE req[p]]

Locks == INSTANCE ByteLocks
           WITH Byte <- 0 .. MAXEND, Calls <- Request, held <- Held,
                want <- Wanted

(* Record locking implements locks on bytes. *)
ImplementsByteLocks == Locks!AbsSpec

(* append: what is written to the file is written at its end. *)
AppendsAtEnd ==
  [][\A p \in Proc :
       pc[p] = "io" /\ pc'[p] = "user" /\ req[p].append
         => req[p].start = size]_vars
=============================================================================
