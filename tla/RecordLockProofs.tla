-------------------------- MODULE RecordLockProofs --------------------------
(***************************************************************************)
(* Proofs about RecordLock, for any number of processes, records and       *)
(* positions: the deadlock detection of deadflck is complete, the list of  *)
(* a file stays normal through the scans of flckadj and cleanlocks, and    *)
(* no process is left asleep for a record that is gone.                    *)
(***************************************************************************)
EXTENDS RecordLock, Sums, SequenceTheorems

(* The inductive invariant of deadlock detection. *)
WaitInv == blk = [p \in Proc |-> blk[p]] /\ WaitsAreAcyclic

(* Deleting an entry of sleeplcks closes no circle. *)
LEMMA DropKeeps ==
  ASSUME WaitInv, NEW p \in Proc, blk' = Dropped(p)
  PROVE  WaitInv'
<1>1. blk' = [q \in Proc |-> blk'[q]]
  BY DEF WaitInv, Dropped
<1>2. ASSUME NEW S \in (SUBSET Proc) \ {{}}
      PROVE  \E q \in S : blk'[q] \notin S
  <2>1. CASE p \in S
    <3>1. blk'[p] = NoProc
      BY DEF WaitInv, Dropped
    <3>2. NoProc \notin S
      BY <1>2, ConstAssumption
    <3> QED BY <2>1, <3>1, <3>2
  <2>2. CASE p \notin S
    <3>1. PICK q \in S : blk[q] \notin S
      BY <1>2 DEF WaitInv, WaitsAreAcyclic
    <3>2. blk'[q] = blk[q]
      BY <1>2, <2>2, <3>1 DEF WaitInv, Dropped
    <3> QED BY <3>1, <3>2
  <2> QED BY <2>1, <2>2
<1> QED BY <1>1, <1>2 DEF WaitInv, WaitsAreAcyclic

(* An entry that deadflck let through closes no circle: a circle through   *)
(* it would meet the closed set that deadflck found in a smaller circle.   *)
LEMMA EntryKeeps ==
  ASSUME WaitInv, NEW p \in Proc, NEW found, ~deadflck(p, found),
         blk' = [blk EXCEPT ![p] = list[found].pid]
  PROVE  WaitInv'
<1> DEFINE owner == list[found].pid
<1>1. blk' = [q \in Proc |-> blk'[q]]
  BY DEF WaitInv
<1>2. PICK T \in SUBSET Proc : /\ owner \in T
                               /\ \A q \in T : blk[q] \in T \cup {NoProc}
                               /\ p \notin T
  BY DEF deadflck
<1>3. ASSUME NEW S \in (SUBSET Proc) \ {{}}, \A q \in S : blk'[q] \in S
      PROVE  FALSE
  <2>1. CASE p \notin S
    <3>1. \A q \in S : blk'[q] = blk[q]
      BY <1>3, <2>1 DEF WaitInv
    <3> QED BY <1>3, <3>1 DEF WaitInv, WaitsAreAcyclic
  <2>2. CASE p \in S
    <3>1. blk'[p] = owner
      BY DEF WaitInv
    <3>2. owner \in S \cap T
      BY <1>2, <1>3, <2>2, <3>1
    <3>3. \A q \in S \cap T : blk[q] \in S \cap T
      <4> SUFFICES ASSUME NEW q \in S \cap T PROVE blk[q] \in S \cap T
        OBVIOUS
      <4>1. blk'[q] = blk[q]
        BY <1>2, <1>3 DEF WaitInv
      <4>2. blk[q] \in S /\ blk[q] \in T \cup {NoProc}
        BY <1>2, <1>3, <4>1
      <4> QED BY <1>3, <4>2, ConstAssumption
    <3>4. S \cap T \in (SUBSET Proc) \ {{}}
      BY <1>3, <3>2
    <3> QED BY <3>3, <3>4 DEF WaitInv, WaitsAreAcyclic
  <2> QED BY <2>1, <2>2
<1> QED BY <1>1, <1>3 DEF WaitInv, WaitsAreAcyclic

(* One pass of reclock, in whichever of its ways. *)
LEMMA ReclockKeeps ==
  ASSUME WaitInv, NEW p \in Proc, Reclock(p)
  PROVE  WaitInv'
<1>1. CASE SetLock(p)
  BY <1>1, DropKeeps DEF SetLock
<1>2. CASE Clear(p)
  BY <1>2, DropKeeps DEF Clear
<1>3. CASE Refused(p)
  BY <1>3, DropKeeps DEF Refused
<1>4. CASE Sleep(p)
  BY <1>4, EntryKeeps DEF Sleep
<1> QED BY <1>1, <1>2, <1>3, <1>4 DEF Reclock

LEMMA UnchangedKeeps ==
  ASSUME WaitInv, UNCHANGED blk
  PROVE  WaitInv'
BY DEF WaitInv, WaitsAreAcyclic

(* The entries of sleeplcks never lead round in a circle, for any number   *)
(* of processes: a call that would close one is refused with EDEADLK, and  *)
(* the loop that follows the entries ends.                                 *)
THEOREM NoUndetectedDeadlock == Spec => []WaitsAreAcyclic
<1>1. Init => WaitInv
  <2> SUFFICES ASSUME Init PROVE WaitInv
    OBVIOUS
  <2>1. blk = [p \in Proc |-> blk[p]] /\ \A p \in Proc : blk[p] = NoProc
    BY DEF Init
  <2> QED BY <2>1, ConstAssumption DEF WaitInv, WaitsAreAcyclic
<1>2. WaitInv /\ [Next]_vars => WaitInv'
  <2> SUFFICES ASSUME WaitInv, [Next]_vars PROVE WaitInv'
    OBVIOUS
  <2>1. CASE UNCHANGED vars
    BY <2>1, UnchangedKeeps DEF vars
  <2>2. ASSUME NEW p \in Proc, NEW rq \in Calls, fcntl(p, rq) \/ rdwr(p, rq)
        PROVE  WaitInv'
    BY <2>2, UnchangedKeeps DEF fcntl, rdwr
  <2>3. ASSUME NEW p \in Proc, Enter(p)
        PROVE  WaitInv'
    BY <2>3, ReclockKeeps DEF Enter
  <2>4. ASSUME NEW p \in Proc, Signal(p)
        PROVE  WaitInv'
    BY <2>4, UnchangedKeeps DEF Signal
  <2>5. ASSUME NEW p \in Proc, Resume(p)
        PROVE  WaitInv'
    BY <2>5, ReclockKeeps, DropKeeps DEF Resume
  <2>6. ASSUME NEW p \in Proc, plock(p)
        PROVE  WaitInv'
    BY <2>6, ReclockKeeps DEF plock
  <2>7. ASSUME NEW p \in Proc, Interrupted(p)
        PROVE  WaitInv'
    BY <2>7, DropKeeps DEF Interrupted
  <2>8. ASSUME NEW p \in Proc, Transfer(p)
        PROVE  WaitInv'
    BY <2>8, UnchangedKeeps DEF Transfer
  <2>9. ASSUME NEW p \in Proc, cleanlocks(p)
        PROVE  WaitInv'
    BY <2>9, UnchangedKeeps DEF cleanlocks
  <2> QED BY <2>1, <2>2, <2>3, <2>4, <2>5, <2>6, <2>7, <2>8, <2>9 DEF Next
<1>3. WaitInv => WaitsAreAcyclic
  BY DEF WaitInv
<1> QED BY <1>1, <1>2, <1>3, PTL DEF Spec

-----------------------------------------------------------------------------
(* Sequences: taking out an element, putting one in. *)

LEMMA RemoveIs ==
  ASSUME NEW S, NEW s \in Seq(S), NEW i \in DOMAIN s
  PROVE  /\ RemoveAt(s, i) \in Seq(S)
         /\ Len(RemoveAt(s, i)) = Len(s) - 1
         /\ \A j \in 1 .. Len(s) - 1 :
              RemoveAt(s, i)[j] = IF j < i THEN s[j] ELSE s[j + 1]
<1> DEFINE a == SubSeq(s, 1, i - 1)
           b == SubSeq(s, i + 1, Len(s))
           n == Len(s)
<1>1. n \in Nat /\ i \in 1 .. n
  OBVIOUS
<1>2. a \in Seq(S) /\ Len(a) = i - 1 /\ \A j \in 1 .. i - 1 : a[j] = s[j]
  BY <1>1
<1>3. b \in Seq(S) /\ Len(b) = n - i /\ \A j \in 1 .. n - i : b[j] = s[j + i]
  BY <1>1
<1>4. RemoveAt(s, i) = a \o b
  BY DEF RemoveAt
<1> HIDE DEF a, b, n
<1>5. /\ a \o b \in Seq(S)
      /\ Len(a \o b) = n - 1
      /\ \A j \in 1 .. n - 1 :
           (a \o b)[j] = IF j <= i - 1 THEN a[j] ELSE b[j - (i - 1)]
  <2>1. /\ a \o b \in Seq(S)
        /\ Len(a \o b) = Len(a) + Len(b)
        /\ \A j \in 1 .. Len(a) + Len(b) :
             (a \o b)[j] = IF j <= Len(a) THEN a[j] ELSE b[j - Len(a)]
    BY <1>2, <1>3, ConcatProperties
  <2>2. Len(a) = i - 1 /\ Len(a) + Len(b) = n - 1
    BY <1>1, <1>2, <1>3
  <2> QED
    BY <2>1, <2>2
<1>6. ASSUME NEW j \in 1 .. n - 1
      PROVE  (a \o b)[j] = IF j < i THEN s[j] ELSE s[j + 1]
  <2>1. CASE j < i
    BY <2>1, <1>1, <1>2, <1>5
  <2>2. CASE ~(j < i)
    <3>1. j - (i - 1) \in 1 .. n - i /\ (j - (i - 1)) + i = j + 1 /\ ~(j <= i - 1)
      BY <2>2, <1>1
    <3> QED
      BY <2>2, <3>1, <1>3, <1>5
  <2> QED
    BY <2>1, <2>2
<1> QED
  BY <1>4, <1>5, <1>6 DEF n

(* The elements of m are those of s with e put in at i. *)
Put(m, s, i, e) ==
  \A j \in 1 .. Len(s) + 1 :
    m[j] = IF j < i THEN s[j] ELSE IF j = i THEN e ELSE s[j - 1]

LEMMA InsertIs ==
  ASSUME NEW S, NEW s \in Seq(S), NEW i \in 1 .. Len(s) + 1, NEW e \in S
  PROVE  /\ InsertAt(s, i, e) \in Seq(S)
         /\ Len(InsertAt(s, i, e)) = Len(s) + 1
         /\ Put(InsertAt(s, i, e), s, i, e)
<1> DEFINE a == SubSeq(s, 1, i - 1)
           c == a \o <<e>>
           b == SubSeq(s, i, Len(s))
           n == Len(s)
<1>1. n \in Nat /\ i \in 1 .. n + 1
  OBVIOUS
<1>2. a \in Seq(S) /\ Len(a) = i - 1 /\ \A j \in 1 .. i - 1 : a[j] = s[j]
  BY <1>1
<1>3. b \in Seq(S) /\ Len(b) = n - i + 1 /\ \A j \in 1 .. n - i + 1 : b[j] = s[j + i - 1]
  BY <1>1
<1>4. InsertAt(s, i, e) = c \o b
  BY DEF InsertAt
<1>5. <<e>> \in Seq(S) /\ Len(<<e>>) = 1 /\ <<e>>[1] = e
  OBVIOUS
<1> HIDE DEF a, b, n
<1>6. /\ c \in Seq(S) /\ Len(c) = i
      /\ \A j \in 1 .. i : c[j] = IF j <= i - 1 THEN a[j] ELSE <<e>>[j - (i - 1)]
  BY <1>1, <1>2, <1>5
<1>7. c[i] = e /\ \A j \in 1 .. i - 1 : c[j] = s[j]
  BY <1>1, <1>2, <1>5, <1>6
<1> HIDE DEF c
<1>8. /\ c \o b \in Seq(S)
      /\ Len(c \o b) = n + 1
      /\ \A j \in 1 .. n + 1 : (c \o b)[j] = IF j <= i THEN c[j] ELSE b[j - i]
  <2>1. /\ c \o b \in Seq(S)
        /\ Len(c \o b) = Len(c) + Len(b)
        /\ \A j \in 1 .. Len(c) + Len(b) :
             (c \o b)[j] = IF j <= Len(c) THEN c[j] ELSE b[j - Len(c)]
    BY <1>3, <1>6, ConcatProperties
  <2>2. Len(c) = i /\ Len(c) + Len(b) = n + 1
    BY <1>1, <1>3, <1>6
  <2> QED
    BY <2>1, <2>2
<1>9. ASSUME NEW j \in 1 .. n + 1
      PROVE  (c \o b)[j] = IF j < i THEN s[j] ELSE IF j = i THEN e ELSE s[j - 1]
  <2>1. CASE j < i
    BY <2>1, <1>1, <1>7, <1>8
  <2>2. CASE j = i
    BY <2>2, <1>1, <1>7, <1>8
  <2>3. CASE j > i
    <3>1. j - i \in 1 .. n - i + 1 /\ (j - i) + i - 1 = j - 1 /\ ~(j <= i)
      BY <2>3, <1>1
    <3> QED
      BY <2>3, <3>1, <1>1, <1>3, <1>8
  <2>4. i \in Int /\ j \in Int
    BY <1>1
  <2>5. j < i \/ j = i \/ j > i
    BY <2>4
  <2> QED
    BY <2>1, <2>2, <2>3, <2>5
<1>10. Put(c \o b, s, i, e)
  BY <1>9 DEF Put, n
<1> QED
  BY <1>4, <1>8, <1>10 DEF n

(* First finds the least of a set of positions, or the one past the list.  *)
LEMMA FirstIs ==
  ASSUME NEW T, NEW l \in Seq(T), NEW S \in SUBSET Nat
  PROVE  /\ S = {} => First(S, l) = Len(l) + 1
         /\ S # {} => First(S, l) \in S /\ \A j \in S : First(S, l) <= j
<1> DEFINE R == OpToRel(<, Nat)
<1>1. ASSUME S # {}
      PROVE  \E i \in S : \A j \in S : i <= j
  <2>1. IsWellFoundedOn(R, Nat)
    BY NatLessThanWellFounded
  <2>2. PICK x \in S : \A y \in S : ~(<<y, x>> \in R)
    <3> HIDE DEF R
    <3> QED
      BY <1>1, <2>1, WFMin
  <2>3. \A y \in S : ~(y < x)
    BY <2>2 DEF OpToRel
  <2>4. \A y \in S : x <= y
    BY <2>3
  <2> QED
    BY <2>4
<1> QED
  BY <1>1 DEF First

(* Place goes on from a record as long as the next one starts before start. *)
LEMMA PlaceIs ==
  ASSUME NEW T, NEW l \in Seq(T), NEW from \in 1 .. Len(l), NEW start \in Int,
         \A i \in DOMAIN l : l[i].start \in Int
  PROVE  /\ Place(l, from, start) \in from .. Len(l)
         /\ \A i \in from + 1 .. Place(l, from, start) : l[i].start < start
         /\ l[from].start >= start => Place(l, from, start) = from
         /\ (l[from].start < start /\ Place(l, from, start) < Len(l))
              => l[Place(l, from, start) + 1].start >= start
<1> DEFINE after == {i \in from .. Len(l) : i > 0 /\ l[i].start >= start}
           at == First(after, l)
           pl == Place(l, from, start)
<1>1. after \in SUBSET Nat /\ Len(l) \in Nat
  OBVIOUS
<1>2. /\ after = {} => at = Len(l) + 1
      /\ after # {} => at \in after /\ \A j \in after : at <= j
  BY <1>1, FirstIs
<1>3. pl = IF at = from THEN from ELSE at - 1
  BY DEF Place
<1>4. at \in from .. Len(l) + 1
  BY <1>1, <1>2
<1>5. \A i \in from .. Len(l) : i < at => l[i].start < start
  BY <1>1, <1>2, <1>4
<1>6. at <= Len(l) => l[at].start >= start
  BY <1>1, <1>2
<1> HIDE DEF after, at, pl
<1>7. pl \in from .. Len(l)
  BY <1>1, <1>3, <1>4
<1>8. \A i \in from + 1 .. pl : l[i].start < start
  BY <1>1, <1>3, <1>4, <1>5
<1>9. l[from].start >= start => pl = from
  BY <1>1, <1>3, <1>4, <1>5
<1>10. (l[from].start < start /\ pl < Len(l)) => l[pl + 1].start >= start
  BY <1>1, <1>3, <1>4, <1>6
<1> QED
  BY <1>7, <1>8, <1>9, <1>10 DEF pl

-----------------------------------------------------------------------------
(* Types: a record covers at least one position, and so does a request.    *)

Rec ==
  {r \in [pid : Proc, type : {"F_RDLCK", "F_WRLCK"},
          start : 0 .. MAXEND, end : 0 .. MAXEND,
          wakeflg : BOOLEAN, sleepers : SUBSET Proc] : r.start <= r.end}

Lock == {rq \in Request : rq.start <= rq.end}

(* The states of the scan of flckadj. *)
Scans ==
  {s \in [l : Seq(Rec), ld : Lock, at : Nat, insrtp : Nat,
          woken : SUBSET Proc, code : {"go", "ok", "ENOLCK"}] :
     s.insrtp <= Len(s.l)}

(* Where the index of a record is when the one at i is deleted. *)
Closed(k, i) == IF k >= i THEN k - 1 ELSE k

LEMMA ScanIs ==
  ASSUME NEW s \in Scans
  PROVE  /\ s.l \in Seq(Rec) /\ Len(s.l) \in Nat /\ DOMAIN s.l = 1 .. Len(s.l)
         /\ s.ld \in Lock /\ s.ld.start \in 0 .. MAXEND /\ s.ld.end \in 0 .. MAXEND
         /\ s.ld.start <= s.ld.end
         /\ s.at \in Nat /\ s.insrtp \in Nat /\ s.insrtp <= Len(s.l)
         /\ s.woken \in SUBSET Proc
         /\ \A i \in DOMAIN s.l : s.l[i] \in Rec
  BY DEF Scans, Lock, Request

LEMMA RecIs ==
  ASSUME NEW f \in Rec
  PROVE  /\ f.pid \in Proc /\ f.type \in {"F_RDLCK", "F_WRLCK"}
         /\ f.start \in 0 .. MAXEND /\ f.end \in 0 .. MAXEND /\ f.start <= f.end
         /\ f.wakeflg \in BOOLEAN /\ f.sleepers \in SUBSET Proc
         /\ WAKEUP(f) \in SUBSET Proc
  BY DEF Rec, WAKEUP

LEMMA RecordIs ==
  ASSUME NEW p \in Proc, NEW type \in {"F_RDLCK", "F_WRLCK"},
         NEW rq, rq.type = type, rq.start \in 0 .. MAXEND, rq.end \in 0 .. MAXEND,
         rq.start <= rq.end
  PROVE  /\ Record(p, rq) \in Rec
         /\ Record(p, rq).pid = p /\ Record(p, rq).type = type
         /\ Record(p, rq).start = rq.start /\ Record(p, rq).end = rq.end
  BY DEF Record, Rec

LEMMA CutIs ==
  ASSUME NEW f \in Rec, NEW e \in 0 .. MAXEND, f.start <= e
  PROVE  /\ Cut(f, e) \in Rec
         /\ Cut(f, e).pid = f.pid /\ Cut(f, e).type = f.type
         /\ Cut(f, e).start = f.start /\ Cut(f, e).end = e
  BY DEF Cut, Rec

LEMMA DelflckIs ==
  ASSUME NEW s \in Scans, s.at \in DOMAIN s.l
  PROVE  /\ delflck(s) \in Scans
         /\ delflck(s).l = RemoveAt(s.l, s.at)
         /\ delflck(s).ld = s.ld /\ delflck(s).at = s.at
         /\ delflck(s).code = s.code
         /\ delflck(s).insrtp = Closed(s.insrtp, s.at)
         /\ delflck(s).woken = s.woken \cup WAKEUP(s.l[s.at])
<1> DEFINE t == [s EXCEPT !.l = RemoveAt(s.l, s.at),
                          !.insrtp = Closed(s.insrtp, s.at),
                          !.woken = s.woken \cup WAKEUP(s.l[s.at])]
<1>1. t = delflck(s)
  BY DEF delflck, Closed, Scans
<1>2. /\ t.l = RemoveAt(s.l, s.at) /\ t.ld = s.ld /\ t.at = s.at
      /\ t.code = s.code /\ t.insrtp = Closed(s.insrtp, s.at)
      /\ t.woken = s.woken \cup WAKEUP(s.l[s.at])
  BY DEF Scans
<1>3. t \in Scans
  <2>1. RemoveAt(s.l, s.at) \in Seq(Rec) /\ Len(RemoveAt(s.l, s.at)) = Len(s.l) - 1
    BY ScanIs, RemoveIs
  <2>2. /\ Closed(s.insrtp, s.at) \in Nat
        /\ Closed(s.insrtp, s.at) <= Len(s.l) - 1
    BY ScanIs DEF Closed
  <2>3. WAKEUP(s.l[s.at]) \in SUBSET Proc
    BY ScanIs, RecIs
  <2>4. s.woken \cup WAKEUP(s.l[s.at]) \in SUBSET Proc
    BY <2>3, ScanIs
  <2>5. t \in [l : Seq(Rec), ld : Lock, at : Nat, insrtp : Nat,
               woken : SUBSET Proc, code : {"go", "ok", "ENOLCK"}]
    BY <2>1, <2>2, <2>4 DEF Scans
  <2> QED
    BY <1>2, <2>1, <2>2, <2>5 DEF Scans
<1> QED
  BY <1>1, <1>2, <1>3

(* The piece that PieceAfter adds. *)
Piece(s, p) == Record(p, [s.l[s.at] EXCEPT !.start = s.ld.end + 1])
PlaceAfter(s) == Place(s.l, s.at, s.ld.end + 1)

LEMMA PieceAfterIs ==
  ASSUME NEW s \in Scans, s.at \in DOMAIN s.l, NEW p \in Proc,
         s.ld.end < s.l[s.at].end
  PROVE  /\ PieceAfter(s, p) \in Scans
         /\ PieceAfter(s, p).l = InsertAt(s.l, PlaceAfter(s) + 1, Piece(s, p))
         /\ PieceAfter(s, p).ld = s.ld /\ PieceAfter(s, p).at = s.at
         /\ PieceAfter(s, p).code = s.code
         /\ PieceAfter(s, p).insrtp = s.insrtp
         /\ PieceAfter(s, p).woken = s.woken
         /\ PlaceAfter(s) \in s.at .. Len(s.l)
         /\ PieceAfter(s, p).l[s.at] = s.l[s.at]
         /\ Piece(s, p) \in Rec
         /\ Piece(s, p).pid = p /\ Piece(s, p).type = s.l[s.at].type
         /\ Piece(s, p).start = s.ld.end + 1 /\ Piece(s, p).end = s.l[s.at].end
<1> DEFINE f == s.l[s.at]
           g == [f EXCEPT !.start = s.ld.end + 1]
           n == InsertAt(s.l, PlaceAfter(s) + 1, Piece(s, p))
           t == [s EXCEPT !.l = n]
<1>1. f \in Rec
  BY ScanIs
<1>2. g.type = f.type /\ g.start = s.ld.end + 1 /\ g.end = f.end
  BY <1>1 DEF Rec
<1>3. /\ f.type \in {"F_RDLCK", "F_WRLCK"} /\ g.start \in 0 .. MAXEND
      /\ g.end \in 0 .. MAXEND /\ g.start <= g.end
  <2>1. /\ f.start \in 0 .. MAXEND /\ f.end \in 0 .. MAXEND
        /\ f.type \in {"F_RDLCK", "F_WRLCK"}
        /\ s.ld.end \in 0 .. MAXEND /\ MAXEND \in Nat
    BY <1>1, RecIs, ScanIs, ConstAssumption
  <2> HIDE DEF f, g
  <2>2. s.ld.end < f.end
    BY DEF f
  <2> QED
    BY <1>2, <2>1, <2>2
<1>4. /\ Piece(s, p) \in Rec
      /\ Piece(s, p).pid = p /\ Piece(s, p).type = f.type
      /\ Piece(s, p).start = s.ld.end + 1 /\ Piece(s, p).end = f.end
  <2>1. Piece(s, p) = Record(p, g)
    BY DEF Piece
  <2> HIDE DEF g
  <2> QED
    BY <2>1, <1>2, <1>3, RecordIs
<1>5. PlaceAfter(s) \in s.at .. Len(s.l)
  <2>1. s.at \in 1 .. Len(s.l) /\ s.ld.end + 1 \in Int
    BY ScanIs
  <2>2. \A i \in DOMAIN s.l : s.l[i].start \in Int
    BY ScanIs, RecIs
  <2>3. s.l \in Seq(Rec)
    BY ScanIs
  <2> QED
    BY <2>1, <2>2, <2>3, PlaceIs DEF PlaceAfter
<1>6. /\ n \in Seq(Rec) /\ Len(n) = Len(s.l) + 1 /\ n[s.at] = f
  <2>1. s.l \in Seq(Rec) /\ PlaceAfter(s) + 1 \in 1 .. Len(s.l) + 1
    BY <1>5, ScanIs
  <2>2. /\ n \in Seq(Rec) /\ Len(n) = Len(s.l) + 1
        /\ \A j \in 1 .. Len(s.l) + 1 :
             n[j] = IF j < PlaceAfter(s) + 1 THEN s.l[j]
                    ELSE IF j = PlaceAfter(s) + 1 THEN Piece(s, p) ELSE s.l[j - 1]
    <3> DEFINE k == PlaceAfter(s) + 1
               e == Piece(s, p)
               l == s.l
    <3>1. k \in 1 .. Len(l) + 1 /\ e \in Rec /\ l \in Seq(Rec)
      BY <2>1, <1>4
    <3>2. n = InsertAt(l, k, e)
      OBVIOUS
    <3> HIDE DEF k, e, n, l
    <3>3. /\ InsertAt(l, k, e) \in Seq(Rec) /\ Len(InsertAt(l, k, e)) = Len(l) + 1
          /\ \A j \in 1 .. Len(l) + 1 :
               InsertAt(l, k, e)[j] = IF j < k THEN l[j] ELSE IF j = k THEN e ELSE l[j - 1]
      <4>1. /\ InsertAt(l, k, e) \in Seq(Rec) /\ Len(InsertAt(l, k, e)) = Len(l) + 1
            /\ Put(InsertAt(l, k, e), l, k, e)
        BY <3>1, InsertIs
      <4> QED
        BY <4>1 DEF Put
    <3> QED
      BY <3>2, <3>3 DEF k, e, l
  <2>3. s.at \in 1 .. Len(s.l) + 1 /\ s.at < PlaceAfter(s) + 1
    BY <1>5, ScanIs
  <2> HIDE DEF n
  <2> QED
    BY <2>2, <2>3
<1>7. PieceAfter(s, p) = t
  <2>1. PieceAfter(s, p) = [s EXCEPT !.l = InsertAt(@, Place(@, s.at, Piece(s, p).start) + 1, Piece(s, p))]
    BY DEF PieceAfter, Piece
  <2> QED
    BY <2>1, <1>4 DEF PlaceAfter
<1> HIDE DEF n
<1>8. /\ t.l = n /\ t.ld = s.ld /\ t.at = s.at /\ t.code = s.code
      /\ t.insrtp = s.insrtp /\ t.woken = s.woken
  BY DEF Scans
<1>9. t \in Scans
  <2>1. s.insrtp <= Len(n)
    BY <1>6, ScanIs
  <2>2. t \in [l : Seq(Rec), ld : Lock, at : Nat, insrtp : Nat,
               woken : SUBSET Proc, code : {"go", "ok", "ENOLCK"}]
    BY <1>6 DEF Scans
  <2> QED
    BY <1>8, <2>1, <2>2 DEF Scans
<1> QED
  BY <1>4, <1>5, <1>6, <1>7, <1>8, <1>9 DEF n

LEMMA ShortenIs ==
  ASSUME NEW s \in Scans, s.at \in DOMAIN s.l, s.l[s.at].start < s.ld.start
  PROVE  /\ Shorten(s) \in Scans
         /\ Shorten(s).l = [s.l EXCEPT ![s.at] = Cut(s.l[s.at], s.ld.start - 1)]
         /\ Shorten(s).ld = s.ld /\ Shorten(s).at = s.at + 1
         /\ Shorten(s).code = s.code /\ Shorten(s).insrtp = s.at
         /\ Shorten(s).woken = s.woken \cup WAKEUP(s.l[s.at])
<1> DEFINE f == s.l[s.at]
           n == [s.l EXCEPT ![s.at] = Cut(f, s.ld.start - 1)]
           t == [s EXCEPT !.l = n, !.insrtp = s.at, !.at = s.at + 1,
                          !.woken = s.woken \cup WAKEUP(f)]
<1>1. f \in Rec /\ WAKEUP(f) \in SUBSET Proc
  BY ScanIs, RecIs
<1>2. s.ld.start - 1 \in 0 .. MAXEND /\ f.start <= s.ld.start - 1
  <2>1. f.start \in 0 .. MAXEND /\ s.ld.start \in 0 .. MAXEND /\ MAXEND \in Nat
    BY <1>1, ScanIs, RecIs, ConstAssumption
  <2> HIDE DEF f
  <2>2. f.start < s.ld.start
    BY DEF f
  <2> QED
    BY <2>1, <2>2
<1>3. Cut(f, s.ld.start - 1) \in Rec
  BY <1>1, <1>2, CutIs
<1>4. n \in Seq(Rec) /\ Len(n) = Len(s.l)
  BY <1>3, ScanIs
<1>5. Shorten(s) = t
  BY DEF Shorten, Scans
<1> HIDE DEF n
<1>6. /\ t.l = n /\ t.ld = s.ld /\ t.at = s.at + 1 /\ t.code = s.code
      /\ t.insrtp = s.at /\ t.woken = s.woken \cup WAKEUP(f)
  BY DEF Scans
<1>7. t \in Scans
  <2>1. s.at \in Nat /\ s.at + 1 \in Nat /\ s.at <= Len(n)
    BY <1>4, ScanIs
  <2>2. s.woken \cup WAKEUP(f) \in SUBSET Proc
    BY <1>1, ScanIs
  <2>3. t \in [l : Seq(Rec), ld : Lock, at : Nat, insrtp : Nat,
               woken : SUBSET Proc, code : {"go", "ok", "ENOLCK"}]
    BY <1>4, <2>1, <2>2 DEF Scans
  <2> QED
    BY <1>6, <2>1, <2>3 DEF Scans
<1> QED
  BY <1>5, <1>6, <1>7 DEF n

LEMMA EndIs ==
  ASSUME NEW s \in Scans
  PROVE  /\ End(s) \in Scans
         /\ End(s).l = s.l /\ End(s).ld = s.ld /\ End(s).at = 0
         /\ End(s).code = s.code /\ End(s).insrtp = s.insrtp
         /\ End(s).woken = s.woken
  BY DEF End, Scans

LEMMA FailIs ==
  ASSUME NEW s \in Scans, NEW code \in {"ok", "ENOLCK"}
  PROVE  /\ Fail(s, code) \in Scans
         /\ Fail(s, code).l = s.l /\ Fail(s, code).ld = s.ld
         /\ Fail(s, code).at = 0 /\ Fail(s, code).code = code
         /\ Fail(s, code).insrtp = s.insrtp /\ Fail(s, code).woken = s.woken
  BY DEF Fail, End, Scans

(* The (un)lock grown by a record of its type, and insrtp set back. *)
LEMMA GrownIs ==
  ASSUME NEW s \in Scans, s.at \in DOMAIN s.l
  PROVE  LET f == s.l[s.at]
             toEnd == [s EXCEPT !.ld.end = f.end]
             backed == [s EXCEPT !.insrtp = s.at - 1]
             toStart == [backed EXCEPT !.ld.start = f.start]
         IN  /\ s.ld.start <= f.end =>
                  /\ toEnd \in Scans /\ toEnd.ld.type = s.ld.type
                  /\ toEnd.ld.start = s.ld.start /\ toEnd.ld.end = f.end
             /\ toEnd.l = s.l /\ toEnd.at = s.at /\ toEnd.code = s.code
             /\ toEnd.insrtp = s.insrtp /\ toEnd.woken = s.woken
             /\ backed \in Scans /\ backed.ld = s.ld
             /\ backed.l = s.l /\ backed.at = s.at /\ backed.code = s.code
             /\ backed.insrtp = s.at - 1 /\ backed.woken = s.woken
             /\ f.start <= s.ld.end =>
                  /\ toStart \in Scans /\ toStart.ld.type = s.ld.type
                  /\ toStart.ld.start = f.start /\ toStart.ld.end = s.ld.end
             /\ toStart.l = s.l /\ toStart.at = s.at /\ toStart.code = s.code
             /\ toStart.insrtp = s.at - 1 /\ toStart.woken = s.woken
<1> DEFINE f == s.l[s.at]
           toEnd == [s EXCEPT !.ld.end = f.end]
           backed == [s EXCEPT !.insrtp = s.at - 1]
           toStart == [backed EXCEPT !.ld.start = f.start]
<1>1. f \in Rec /\ f.start \in 0 .. MAXEND /\ f.end \in 0 .. MAXEND
  BY ScanIs, RecIs
<1>2. /\ backed.ld = s.ld /\ backed.l = s.l /\ backed.at = s.at
      /\ backed.code = s.code /\ backed.insrtp = s.at - 1 /\ backed.woken = s.woken
  BY DEF Scans
<1>3. backed \in Scans
  <2>1. s.at - 1 \in Nat /\ s.at - 1 <= Len(s.l)
    BY ScanIs
  <2>2. backed \in [l : Seq(Rec), ld : Lock, at : Nat, insrtp : Nat,
                    woken : SUBSET Proc, code : {"go", "ok", "ENOLCK"}]
    BY <2>1 DEF Scans
  <2> QED
    BY <1>2, <2>1, <2>2 DEF Scans
<1>4. ASSUME s.ld.start <= f.end
      PROVE  [s.ld EXCEPT !.end = f.end] \in Lock
  BY <1>1, <1>4, ScanIs DEF Lock, Request
<1>5. ASSUME f.start <= s.ld.end
      PROVE  [s.ld EXCEPT !.start = f.start] \in Lock
  BY <1>1, <1>5, ScanIs DEF Lock, Request
<1>6. /\ toEnd.ld = [s.ld EXCEPT !.end = f.end]
      /\ toEnd.l = s.l /\ toEnd.at = s.at /\ toEnd.code = s.code
      /\ toEnd.insrtp = s.insrtp /\ toEnd.woken = s.woken
  BY DEF Scans
<1>7. s.ld.start <= f.end => toEnd \in Scans
  BY <1>4 DEF Scans
<1> HIDE DEF backed
<1>8. /\ toStart.ld = [s.ld EXCEPT !.start = f.start]
      /\ toStart.l = s.l /\ toStart.at = s.at /\ toStart.code = s.code
      /\ toStart.insrtp = s.at - 1 /\ toStart.woken = s.woken
  BY <1>2, <1>3 DEF Scans
<1>9. f.start <= s.ld.end => toStart \in Scans
  BY <1>5, <1>2, <1>3 DEF Scans
<1>10. /\ [s.ld EXCEPT !.end = f.end].type = s.ld.type
       /\ [s.ld EXCEPT !.end = f.end].start = s.ld.start
       /\ [s.ld EXCEPT !.end = f.end].end = f.end
       /\ [s.ld EXCEPT !.start = f.start].type = s.ld.type
       /\ [s.ld EXCEPT !.start = f.start].start = f.start
       /\ [s.ld EXCEPT !.start = f.start].end = s.ld.end
  BY ScanIs DEF Lock, Request
<1> QED
  BY <1>2, <1>3, <1>6, <1>7, <1>8, <1>9, <1>10 DEF backed

(* The next record, with insrtp left or brought up. *)
LEMMA NextIs ==
  ASSUME NEW s \in Scans, s.at \in DOMAIN s.l
  PROVE  /\ [s EXCEPT !.at = @ + 1] \in Scans
         /\ [s EXCEPT !.insrtp = s.at, !.at = @ + 1] \in Scans
         /\ [s EXCEPT !.at = @ + 1].l = s.l /\ [s EXCEPT !.at = @ + 1].ld = s.ld
         /\ [s EXCEPT !.at = @ + 1].at = s.at + 1
         /\ [s EXCEPT !.at = @ + 1].code = s.code
         /\ [s EXCEPT !.at = @ + 1].woken = s.woken
         /\ [s EXCEPT !.at = @ + 1].insrtp = s.insrtp
         /\ [s EXCEPT !.insrtp = s.at, !.at = @ + 1].l = s.l
         /\ [s EXCEPT !.insrtp = s.at, !.at = @ + 1].ld = s.ld
         /\ [s EXCEPT !.insrtp = s.at, !.at = @ + 1].at = s.at + 1
         /\ [s EXCEPT !.insrtp = s.at, !.at = @ + 1].code = s.code
         /\ [s EXCEPT !.insrtp = s.at, !.at = @ + 1].woken = s.woken
         /\ [s EXCEPT !.insrtp = s.at, !.at = @ + 1].insrtp = s.at
<1> DEFINE u == [s EXCEPT !.at = @ + 1]
           v == [s EXCEPT !.insrtp = s.at, !.at = @ + 1]
<1>1. s.at + 1 \in Nat /\ s.at <= Len(s.l) /\ s.insrtp <= Len(s.l)
  BY ScanIs
<1>2. /\ u \in [l : Seq(Rec), ld : Lock, at : Nat, insrtp : Nat,
                woken : SUBSET Proc, code : {"go", "ok", "ENOLCK"}]
      /\ v \in [l : Seq(Rec), ld : Lock, at : Nat, insrtp : Nat,
                woken : SUBSET Proc, code : {"go", "ok", "ENOLCK"}]
  BY <1>1 DEF Scans
<1>3. u.l = s.l /\ u.insrtp = s.insrtp /\ v.l = s.l /\ v.insrtp = s.at
  BY DEF Scans
<1> HIDE DEF u, v
<1>4. u \in Scans /\ v \in Scans
  BY <1>1, <1>2, <1>3 DEF Scans
<1>5. /\ u.ld = s.ld /\ u.at = s.at + 1 /\ u.code = s.code /\ u.woken = s.woken
      /\ v.ld = s.ld /\ v.at = s.at + 1 /\ v.code = s.code /\ v.woken = s.woken
  BY DEF Scans, u, v
<1> QED
  BY <1>3, <1>4, <1>5 DEF u, v

-----------------------------------------------------------------------------
(* What Adjust does at a record f that it looks at, from s to t.           *)

(* f ends before g starts, and is not to be merged with it: of two records, *)
(* or of one and the (un)lock.                                             *)
Apart(f, g) ==
  f.end + 1 < g.start \/ (f.end + 1 = g.start /\ f.type # g.type)

(* The list and the (un)lock are left as they are. *)
Leaves(s, t) ==
  t.l = s.l /\ t.ld = s.ld /\ t.woken = s.woken

Stops(s, t) ==
  Leaves(s, t) /\ t.at = 0 /\ t.code = s.code /\ t.insrtp = s.insrtp
    /\ Apart(s.ld, s.l[s.at])

Covers(s, t) ==
  LET f == s.l[s.at]
  IN  /\ Leaves(s, t) /\ t.at = 0 /\ t.code = "ok" /\ t.insrtp = s.insrtp
      /\ f.type = s.ld.type /\ f.start <= s.ld.start /\ s.ld.end <= f.end

Fills(s, t, free) ==
  Leaves(s, t) /\ t.at = 0 /\ t.code = "ENOLCK" /\ t.insrtp = s.insrtp /\ free = 0

Skips(s, t) ==
  /\ Leaves(s, t) /\ t.at = s.at + 1 /\ t.code = s.code
  /\ t.insrtp \in {s.insrtp, s.at}
  /\ Apart(s.l[s.at], s.ld)

(* Where insrtp is set back or follows the deletion. *)
Follows(s, t) ==
  LET f == s.l[s.at]
  IN  \/ t.insrtp = s.at - 1 /\ t.ld.start = f.start
      \/ /\ t.insrtp = Closed(s.insrtp, s.at)
         /\ t.ld.start = s.ld.start /\ s.ld.start < f.start

Deletes(s, t) ==
  LET f == s.l[s.at]
  IN  /\ t.l = RemoveAt(s.l, s.at)
      /\ t.woken = s.woken \cup WAKEUP(f)
      /\ t.code = s.code
      /\ t.ld.type = s.ld.type
      /\ t.ld.start <= f.start /\ f.end <= t.ld.end
      /\ t.ld.start <= s.ld.start /\ s.ld.end <= t.ld.end
      /\ f.start <= s.ld.end + 1 /\ s.ld.start <= f.end + 1
      /\ t.ld.start < s.ld.start => f.type = s.ld.type /\ t.ld.start = f.start
      /\ s.ld.end < t.ld.end =>
           f.type = s.ld.type /\ t.ld.end = f.end /\ t.at = 0
      /\ t.at \in {0, s.at}
      /\ t.at = 0 => f.type = s.ld.type /\ t.ld.end = f.end
      /\ Follows(s, t)

Shortens(s, t) ==
  LET f == s.l[s.at]
  IN  /\ f.start < s.ld.start /\ s.ld.start <= f.end /\ f.end <= s.ld.end
      /\ f.type # s.ld.type
      /\ t.l = [s.l EXCEPT ![s.at] = Cut(f, s.ld.start - 1)]
      /\ t.ld = s.ld /\ t.at = s.at + 1 /\ t.code = s.code
      /\ t.insrtp = s.at
      /\ t.woken = s.woken \cup WAKEUP(f)

Splits(s, t, p, free) ==
  LET f == s.l[s.at]
  IN  /\ f.start < s.ld.start /\ s.ld.end < f.end
      /\ f.type # s.ld.type /\ free # 0
      /\ t.l = [InsertAt(s.l, PlaceAfter(s) + 1, Piece(s, p))
                  EXCEPT ![s.at] = Cut(f, s.ld.start - 1)]
      /\ t.ld = s.ld /\ t.at = 0 /\ t.code = s.code
      /\ t.insrtp = s.at
      /\ t.woken = s.woken \cup WAKEUP(f)

Trims(s, t, p, free) ==
  LET f == s.l[s.at]
  IN  /\ s.ld.start <= f.start /\ f.start <= s.ld.end /\ s.ld.end < f.end
      /\ f.type # s.ld.type /\ free # 0
      /\ t.l = RemoveAt(InsertAt(s.l, PlaceAfter(s) + 1, Piece(s, p)), s.at)
      /\ t.ld = s.ld /\ t.at = 0 /\ t.code = s.code
      /\ t.woken = s.woken \cup WAKEUP(f)
      /\ Follows(s, t)

Shaped(s, t, p, free) ==
  \/ Stops(s, t) \/ Covers(s, t) \/ Fills(s, t, free) \/ Skips(s, t)
  \/ Deletes(s, t) \/ Shortens(s, t) \/ Splits(s, t, p, free)
  \/ Trims(s, t, p, free)

LEMMA AdjustShapes ==
  ASSUME NEW s \in Scans, s.at \in DOMAIN s.l, NEW p \in Proc, NEW free
  PROVE  /\ Adjust(s, p, free) \in Scans
         /\ Shaped(s, Adjust(s, p, free), p, free)
<1> DEFINE f == s.l[s.at]
           ld == s.ld
           reg == regflck(ld, f)
           same == ld.type = f.type
           toEnd == [s EXCEPT !.ld.end = f.end]
           backed == [s EXCEPT !.insrtp = s.at - 1]
           toStart == [backed EXCEPT !.ld.start = f.start]
           mid == CASE reg[1] = "MIDDLE" -> Shorten(PieceAfter(s, p))
                    [] reg[1] = "START" -> delflck(PieceAfter(backed, p))
                    [] reg[1] = "BEFORE" -> delflck(PieceAfter(s, p))
           t == Adjust(s, p, free)
           Goal == t \in Scans /\ Shaped(s, t, p, free)
<1> SUFFICES Goal
  OBVIOUS
<1>1. /\ f \in Rec /\ ld.start \in Int /\ ld.end \in Int /\ f.start \in Int /\ f.end \in Int
      /\ ld.start <= ld.end /\ f.start <= f.end
      /\ s.at \in Nat \ {0} /\ s.insrtp \in Nat
  <2>1. f \in Rec
    BY ScanIs
  <2> QED
    BY <2>1, ScanIs, RecIs
<1>2. t = CASE reg = <<"BEFORE", "BEFORE">> -> End(s)
        [] reg = <<"BEFORE", "START">> ->
             End(IF same THEN delflck(toEnd) ELSE s)
        [] reg = <<"START", "END">> ->
             IF same THEN Fail(s, "ok") ELSE delflck(backed)
        [] reg = <<"START", "AFTER">> -> delflck(backed)
        [] reg = <<"BEFORE", "END">> ->
             IF same THEN End(delflck(s)) ELSE delflck(s)
        [] reg = <<"BEFORE", "AFTER">> -> delflck(s)
        [] reg[2] = "MIDDLE" ->
             IF same
               THEN IF reg[1] = "BEFORE" THEN End(delflck(toEnd))
                                         ELSE Fail(s, "ok")
             ELSE IF free = 0 THEN Fail(s, "ENOLCK")
             ELSE End(mid)
        [] reg = <<"MIDDLE", "END">> ->
             IF same THEN Fail(s, "ok") ELSE Shorten(s)
        [] reg = <<"MIDDLE", "AFTER">> ->
             IF same THEN delflck(toStart) ELSE Shorten(s)
        [] reg = <<"END", "AFTER">> ->
             IF same THEN delflck(toStart) ELSE [s EXCEPT !.at = @ + 1]
        [] reg = <<"AFTER", "AFTER">> ->
             [s EXCEPT !.insrtp = s.at, !.at = @ + 1]
  BY DEF Adjust
<1>3. reg = IF ld.start > f.start /\ ld.start - 1 = f.end THEN <<"END", "AFTER">>
            ELSE IF ld.start > f.start /\ ld.start > f.end THEN <<"AFTER", "AFTER">>
            ELSE << IF ld.start > f.start THEN "MIDDLE"
                    ELSE IF ld.start = f.start THEN "START" ELSE "BEFORE",
                    IF ld.end < f.end
                      THEN IF ld.end = f.start - 1 THEN "START"
                           ELSE IF ld.end < f.start THEN "BEFORE" ELSE "MIDDLE"
                      ELSE IF ld.end = f.end THEN "END" ELSE "AFTER" >>
  BY DEF regflck
<1>g. /\ ld.start <= f.end =>
            /\ toEnd \in Scans /\ toEnd.ld.type = ld.type
            /\ toEnd.ld.start = ld.start /\ toEnd.ld.end = f.end
      /\ toEnd.l = s.l /\ toEnd.at = s.at /\ toEnd.code = s.code
      /\ toEnd.insrtp = s.insrtp /\ toEnd.woken = s.woken
      /\ backed \in Scans /\ backed.ld = ld
      /\ backed.l = s.l /\ backed.at = s.at /\ backed.code = s.code
      /\ backed.insrtp = s.at - 1 /\ backed.woken = s.woken
      /\ f.start <= ld.end =>
           /\ toStart \in Scans /\ toStart.ld.type = ld.type
           /\ toStart.ld.start = f.start /\ toStart.ld.end = ld.end
      /\ toStart.l = s.l /\ toStart.at = s.at /\ toStart.code = s.code
      /\ toStart.insrtp = s.at - 1 /\ toStart.woken = s.woken
  BY GrownIs
<1>p. /\ [s EXCEPT !.at = @ + 1] \in Scans
      /\ [s EXCEPT !.insrtp = s.at, !.at = @ + 1] \in Scans
  BY NextIs
<1>q. /\ [s EXCEPT !.at = @ + 1].l = s.l /\ [s EXCEPT !.at = @ + 1].ld = ld
      /\ [s EXCEPT !.at = @ + 1].at = s.at + 1
      /\ [s EXCEPT !.at = @ + 1].code = s.code
      /\ [s EXCEPT !.at = @ + 1].woken = s.woken
      /\ [s EXCEPT !.at = @ + 1].insrtp = s.insrtp
      /\ [s EXCEPT !.insrtp = s.at, !.at = @ + 1].l = s.l
      /\ [s EXCEPT !.insrtp = s.at, !.at = @ + 1].ld = ld
      /\ [s EXCEPT !.insrtp = s.at, !.at = @ + 1].at = s.at + 1
      /\ [s EXCEPT !.insrtp = s.at, !.at = @ + 1].code = s.code
      /\ [s EXCEPT !.insrtp = s.at, !.at = @ + 1].woken = s.woken
      /\ [s EXCEPT !.insrtp = s.at, !.at = @ + 1].insrtp = s.at
  BY NextIs
<1> HIDE DEF reg, toEnd, backed, toStart, mid, t
<1>4. CASE reg = <<"BEFORE", "BEFORE">>
  <2>1. t = End(s)
    BY <1>2, <1>4
  <2>2. ld.end + 1 < f.start
    BY <1>1, <1>3, <1>4
  <2>3. Stops(s, t)
    BY <2>1, <2>2, EndIs DEF Stops, Leaves, Apart
  <2> QED
    BY <2>1, <2>3, EndIs DEF Shaped
<1>5. CASE reg = <<"BEFORE", "START">>
  <2>0. ld.end + 1 = f.start /\ ld.start < f.start /\ ld.start <= f.end
    BY <1>1, <1>3, <1>5
  <2>1. CASE same
    <3>1. t = End(delflck(toEnd))
      BY <1>2, <1>5, <2>1
    <3>2. toEnd \in Scans /\ toEnd.at \in DOMAIN toEnd.l
      BY <2>0, <1>g
    <3>3. delflck(toEnd) \in Scans
      BY <3>2, DelflckIs
    <3>4. /\ t \in Scans /\ t.l = RemoveAt(s.l, s.at) /\ t.ld = toEnd.ld /\ t.at = 0
          /\ t.code = s.code /\ t.insrtp = Closed(s.insrtp, s.at)
          /\ t.woken = s.woken \cup WAKEUP(f)
      BY <3>1, <3>2, <3>3, <1>g, DelflckIs, EndIs
    <3>5. Deletes(s, t)
      BY <3>4, <2>0, <2>1, <1>1, <1>g DEF Deletes, Follows
    <3> QED
      BY <3>4, <3>5 DEF Shaped
  <2>2. CASE ~same
    <3>1. t = End(s)
      BY <1>2, <1>5, <2>2
    <3>3. Stops(s, t)
      BY <3>1, <2>0, <2>2, <1>1, EndIs DEF Stops, Leaves, Apart
    <3> QED
      BY <3>1, <3>3, EndIs DEF Shaped
  <2> QED
    BY <2>1, <2>2
<1>6. CASE reg = <<"START", "END">>
  <2>0. ld.start = f.start /\ ld.end = f.end
    BY <1>1, <1>3, <1>6
  <2>1. CASE same
    <3>1. t = Fail(s, "ok")
      BY <1>2, <1>6, <2>1
    <3>2. Covers(s, t)
      BY <3>1, <2>0, <2>1, <1>1, FailIs DEF Covers, Leaves
    <3> QED
      BY <3>1, <3>2, FailIs DEF Shaped
  <2>2. CASE ~same
    <3>1. t = delflck(backed)
      BY <1>2, <1>6, <2>2
    <3>2. backed \in Scans /\ backed.at \in DOMAIN backed.l
      BY <1>g
    <3>3. /\ t \in Scans /\ t.l = RemoveAt(s.l, s.at) /\ t.ld = ld /\ t.at = s.at
          /\ t.code = s.code /\ t.insrtp = Closed(s.at - 1, s.at)
          /\ t.woken = s.woken \cup WAKEUP(f)
      BY <3>1, <3>2, <1>g, DelflckIs
    <3>4. t.insrtp = s.at - 1
      BY <3>3, <1>1 DEF Closed
    <3>5. Deletes(s, t)
      BY <3>3, <3>4, <2>0, <1>1 DEF Deletes, Follows
    <3> QED
      BY <3>3, <3>5 DEF Shaped
  <2> QED
    BY <2>1, <2>2
<1>7. CASE reg = <<"START", "AFTER">>
  <2>0. ld.start = f.start /\ ld.end > f.end
    BY <1>1, <1>3, <1>7
  <2>1. t = delflck(backed)
    BY <1>2, <1>7
  <2>2. backed \in Scans /\ backed.at \in DOMAIN backed.l
    BY <1>g
  <2>3. /\ t \in Scans /\ t.l = RemoveAt(s.l, s.at) /\ t.ld = ld /\ t.at = s.at
        /\ t.code = s.code /\ t.insrtp = Closed(s.at - 1, s.at)
        /\ t.woken = s.woken \cup WAKEUP(f)
    BY <2>1, <2>2, <1>g, DelflckIs
  <2>4. t.insrtp = s.at - 1
    BY <2>3, <1>1 DEF Closed
  <2>5. Deletes(s, t)
    BY <2>3, <2>4, <2>0, <1>1 DEF Deletes, Follows
  <2> QED
    BY <2>3, <2>5 DEF Shaped
<1>8. CASE reg = <<"BEFORE", "END">>
  <2>0. ld.start < f.start /\ ld.end = f.end
    BY <1>1, <1>3, <1>8
  <2>1. /\ delflck(s) \in Scans /\ delflck(s).l = RemoveAt(s.l, s.at)
        /\ delflck(s).ld = ld /\ delflck(s).at = s.at /\ delflck(s).code = s.code
        /\ delflck(s).insrtp = Closed(s.insrtp, s.at)
        /\ delflck(s).woken = s.woken \cup WAKEUP(f)
    BY DelflckIs
  <2>2. t = IF same THEN End(delflck(s)) ELSE delflck(s)
    BY <1>2, <1>8
  <2>3. /\ t \in Scans /\ t.l = RemoveAt(s.l, s.at) /\ t.ld = ld
        /\ t.at = (IF same THEN 0 ELSE s.at)
        /\ t.code = s.code /\ t.insrtp = Closed(s.insrtp, s.at)
        /\ t.woken = s.woken \cup WAKEUP(f)
    BY <2>1, <2>2, EndIs
  <2>5. Deletes(s, t)
    BY <2>3, <2>0, <1>1 DEF Deletes, Follows
  <2> QED
    BY <2>3, <2>5 DEF Shaped
<1>9. CASE reg = <<"BEFORE", "AFTER">>
  <2>0. ld.start < f.start /\ ld.end > f.end
    BY <1>1, <1>3, <1>9
  <2>1. t = delflck(s)
    BY <1>2, <1>9
  <2>3. /\ t \in Scans /\ t.l = RemoveAt(s.l, s.at) /\ t.ld = ld /\ t.at = s.at
        /\ t.code = s.code /\ t.insrtp = Closed(s.insrtp, s.at)
        /\ t.woken = s.woken \cup WAKEUP(f)
    BY <2>1, DelflckIs
  <2>5. Deletes(s, t)
    BY <2>3, <2>0, <1>1 DEF Deletes, Follows
  <2> QED
    BY <2>3, <2>5 DEF Shaped
<1>10. CASE reg = <<"MIDDLE", "END">>
  <2>0. f.start < ld.start /\ ld.start <= f.end /\ ld.end = f.end
    BY <1>1, <1>3, <1>10
  <2>1. t = IF same THEN Fail(s, "ok") ELSE Shorten(s)
    BY <1>2, <1>10
  <2>2. CASE same
    <3>2. Covers(s, t)
      BY <2>0, <2>1, <2>2, <1>1, FailIs DEF Covers, Leaves
    <3> QED
      BY <2>1, <2>2, <3>2, FailIs DEF Shaped
  <2>3. CASE ~same
    <3>2. Shortens(s, t)
      BY <2>0, <2>1, <2>3, <1>1, ShortenIs DEF Shortens
    <3> QED
      BY <2>0, <2>1, <2>3, <3>2, ShortenIs DEF Shaped
  <2> QED
    BY <2>2, <2>3
<1>11. CASE reg \in {<<"MIDDLE", "AFTER">>, <<"END", "AFTER">>} /\ same
  <2>0. f.start < ld.start /\ ld.start <= f.end + 1 /\ f.end < ld.end
    BY <1>1, <1>3, <1>11
  <2>1. t = delflck(toStart)
    BY <1>2, <1>11
  <2>2. toStart \in Scans /\ toStart.at \in DOMAIN toStart.l
    BY <2>0, <1>1, <1>g
  <2>3. /\ t \in Scans /\ t.l = RemoveAt(s.l, s.at) /\ t.ld = toStart.ld
        /\ t.at = s.at /\ t.code = s.code
        /\ t.insrtp = Closed(s.at - 1, s.at)
        /\ t.woken = s.woken \cup WAKEUP(f)
    BY <2>1, <2>2, <1>g, DelflckIs
  <2>4. /\ t.insrtp = s.at - 1
        /\ t.ld.start = f.start /\ t.ld.end = ld.end /\ t.ld.type = ld.type
    BY <2>0, <2>3, <1>1, <1>g DEF Closed
  <2>5. Deletes(s, t)
    BY <2>3, <2>4, <2>0, <1>1, <1>11 DEF Deletes, Follows
  <2> QED
    BY <2>3, <2>5 DEF Shaped
<1>12. CASE reg = <<"MIDDLE", "AFTER">> /\ ~same
  <2>0. f.start < ld.start /\ ld.start <= f.end /\ f.end < ld.end
    BY <1>1, <1>3, <1>12
  <2>1. t = Shorten(s)
    BY <1>2, <1>12
  <2>2. Shortens(s, t)
    BY <2>0, <2>1, <1>12, <1>1, ShortenIs DEF Shortens
  <2> QED
    BY <2>0, <2>1, <2>2, ShortenIs DEF Shaped
<1>13. CASE reg = <<"END", "AFTER">> /\ ~same
  <2>0. f.end + 1 = ld.start
    BY <1>1, <1>3, <1>13
  <2>1. t = [s EXCEPT !.at = @ + 1]
    BY <1>2, <1>13
  <2>2. Skips(s, t)
    BY <2>0, <2>1, <1>13, <1>q DEF Skips, Leaves, Apart
  <2> QED
    BY <2>1, <2>2, <1>p DEF Shaped
<1>14. CASE reg = <<"AFTER", "AFTER">>
  <2>0. f.end + 1 < ld.start
    BY <1>1, <1>3, <1>14
  <2>1. t = [s EXCEPT !.insrtp = s.at, !.at = @ + 1]
    BY <1>2, <1>14
  <2>2. Skips(s, t)
    BY <2>0, <2>1, <1>q DEF Skips, Leaves, Apart
  <2> QED
    BY <2>1, <2>2, <1>p DEF Shaped
<1>15. CASE reg[2] = "MIDDLE" /\ same
  <2>0. /\ f.start <= ld.end /\ ld.end < f.end
        /\ reg[1] = "BEFORE" => ld.start < f.start
        /\ reg[1] # "BEFORE" => f.start <= ld.start
    BY <1>1, <1>3, <1>15
  <2>1. t = IF reg[1] = "BEFORE" THEN End(delflck(toEnd)) ELSE Fail(s, "ok")
    BY <1>2, <1>15
  <2>2. CASE reg[1] = "BEFORE"
    <3>2. toEnd \in Scans /\ toEnd.at \in DOMAIN toEnd.l
      BY <2>0, <1>1, <1>g
    <3>3. delflck(toEnd) \in Scans
      BY <3>2, DelflckIs
    <3>4. /\ t \in Scans /\ t.l = RemoveAt(s.l, s.at) /\ t.ld = toEnd.ld /\ t.at = 0
          /\ t.code = s.code /\ t.insrtp = Closed(s.insrtp, s.at)
          /\ t.woken = s.woken \cup WAKEUP(f)
      BY <2>1, <2>2, <3>2, <3>3, <1>g, DelflckIs, EndIs
    <3>5. ld.start < f.start /\ toEnd.ld.start = ld.start /\ toEnd.ld.end = f.end
          /\ toEnd.ld.type = ld.type
      BY <2>0, <2>2, <1>1, <1>g
    <3>6. Deletes(s, t)
      BY <3>4, <3>5, <2>0, <1>1, <1>15 DEF Deletes, Follows
    <3> QED
      BY <3>4, <3>6 DEF Shaped
  <2>3. CASE reg[1] # "BEFORE"
    <3>2. Covers(s, t)
      BY <2>0, <2>1, <2>3, <1>1, <1>15, FailIs DEF Covers, Leaves
    <3> QED
      BY <2>1, <2>3, <3>2, FailIs DEF Shaped
  <2> QED
    BY <2>2, <2>3
<1>16. CASE reg[2] = "MIDDLE" /\ ~same /\ free = 0
  <2>1. t = Fail(s, "ENOLCK")
    BY <1>2, <1>16
  <2>2. Fills(s, t, free)
    BY <2>1, <1>16, FailIs DEF Fills, Leaves
  <2> QED
    BY <2>1, <2>2, FailIs DEF Shaped
<1>17. CASE reg[2] = "MIDDLE" /\ ~same /\ free # 0
  <2> DEFINE n == InsertAt(s.l, PlaceAfter(s) + 1, Piece(s, p))
  <2>0. f.start <= ld.end /\ ld.end < f.end /\ reg[1] \in {"BEFORE", "START", "MIDDLE"}
    BY <1>1, <1>3, <1>17
  <2>1. t = End(mid)
    <3>1. reg \notin {<<"BEFORE", "BEFORE">>, <<"BEFORE", "START">>,
                      <<"START", "END">>, <<"START", "AFTER">>,
                      <<"BEFORE", "END">>, <<"BEFORE", "AFTER">>}
      BY <1>17
    <3> QED
      BY <1>2, <1>17, <3>1
  <2>2. /\ PieceAfter(s, p) \in Scans /\ PieceAfter(s, p).l = n
        /\ PieceAfter(s, p).ld = ld /\ PieceAfter(s, p).at = s.at
        /\ PieceAfter(s, p).code = s.code
        /\ PieceAfter(s, p).insrtp = s.insrtp
        /\ PieceAfter(s, p).woken = s.woken
        /\ n[s.at] = f /\ s.at \in DOMAIN n
    <3>1. /\ PieceAfter(s, p) \in Scans /\ PieceAfter(s, p).l = n
          /\ PieceAfter(s, p).ld = ld /\ PieceAfter(s, p).at = s.at
          /\ PieceAfter(s, p).code = s.code
          /\ PieceAfter(s, p).insrtp = s.insrtp
          /\ PieceAfter(s, p).woken = s.woken
          /\ PieceAfter(s, p).l[s.at] = f
          /\ PlaceAfter(s) \in s.at .. Len(s.l) /\ Piece(s, p) \in Rec
      BY <2>0, PieceAfterIs
    <3>2. Len(n) = Len(s.l) + 1 /\ n \in Seq(Rec)
      <4> DEFINE k == PlaceAfter(s) + 1
                 l == s.l
                 e == Piece(s, p)
      <4>1. k \in 1 .. Len(l) + 1 /\ l \in Seq(Rec) /\ e \in Rec
        BY <3>1, ScanIs
      <4> HIDE DEF k, l, e
      <4>2. Len(InsertAt(l, k, e)) = Len(l) + 1 /\ InsertAt(l, k, e) \in Seq(Rec)
        BY <4>1, InsertIs
      <4> QED
        BY <4>2 DEF k, l, e
    <3>3. s.at \in 1 .. Len(s.l)
      BY ScanIs
    <3> QED
      BY <3>1, <3>2, <3>3
  <2>3. CASE reg[1] = "MIDDLE"
    <3>0. f.start < ld.start
      BY <2>3, <1>1, <1>3, <1>17
    <3>1. t = End(Shorten(PieceAfter(s, p)))
      BY <2>1, <2>3 DEF mid
    <3>2. /\ Shorten(PieceAfter(s, p)) \in Scans
          /\ Shorten(PieceAfter(s, p)).l = [n EXCEPT ![s.at] = Cut(f, ld.start - 1)]
          /\ Shorten(PieceAfter(s, p)).ld = ld
          /\ Shorten(PieceAfter(s, p)).code = s.code
          /\ Shorten(PieceAfter(s, p)).insrtp = s.at
          /\ Shorten(PieceAfter(s, p)).woken = s.woken \cup WAKEUP(f)
      <4> HIDE DEF n
      <4> QED
        BY <3>0, <2>2, ShortenIs
    <3>3. /\ t \in Scans /\ t.l = [n EXCEPT ![s.at] = Cut(f, ld.start - 1)]
          /\ t.ld = ld /\ t.at = 0 /\ t.code = s.code
          /\ t.insrtp = s.at /\ t.woken = s.woken \cup WAKEUP(f)
      BY <3>1, <3>2, EndIs
    <3>4. Splits(s, t, p, free)
      BY <3>0, <3>3, <2>0, <1>17 DEF Splits
    <3> QED
      BY <3>3, <3>4 DEF Shaped
  <2>4. CASE reg[1] = "BEFORE"
    <3>0. ld.start < f.start
      BY <2>4, <1>1, <1>3, <1>17
    <3>1. t = End(delflck(PieceAfter(s, p)))
      BY <2>1, <2>4 DEF mid
    <3>2. /\ delflck(PieceAfter(s, p)) \in Scans
          /\ delflck(PieceAfter(s, p)).l = RemoveAt(n, s.at)
          /\ delflck(PieceAfter(s, p)).ld = ld
          /\ delflck(PieceAfter(s, p)).code = s.code
          /\ delflck(PieceAfter(s, p)).insrtp = Closed(s.insrtp, s.at)
          /\ delflck(PieceAfter(s, p)).woken = s.woken \cup WAKEUP(f)
      <4> HIDE DEF n
      <4> QED
        BY <2>2, DelflckIs
    <3>3. /\ t \in Scans /\ t.l = RemoveAt(n, s.at)
          /\ t.ld = ld /\ t.at = 0 /\ t.code = s.code
          /\ t.insrtp = Closed(s.insrtp, s.at) /\ t.woken = s.woken \cup WAKEUP(f)
      BY <3>1, <3>2, EndIs
    <3>4. Trims(s, t, p, free)
      BY <3>0, <3>3, <2>0, <1>1, <1>17 DEF Trims, Follows
    <3> QED
      BY <3>3, <3>4 DEF Shaped
  <2>5. CASE reg[1] = "START"
    <3>0. ld.start = f.start
      BY <2>5, <1>1, <1>3, <1>17
    <3>1. t = End(delflck(PieceAfter(backed, p)))
      BY <2>1, <2>5 DEF mid
    <3>2. Piece(backed, p) = Piece(s, p) /\ PlaceAfter(backed) = PlaceAfter(s)
      BY <1>g DEF Piece, PlaceAfter
    <3>3. /\ PieceAfter(backed, p) \in Scans /\ PieceAfter(backed, p).l = n
          /\ PieceAfter(backed, p).ld = ld /\ PieceAfter(backed, p).at = s.at
          /\ PieceAfter(backed, p).code = s.code
          /\ PieceAfter(backed, p).insrtp = s.at - 1
          /\ PieceAfter(backed, p).woken = s.woken
      <4>1. backed \in Scans /\ backed.at \in DOMAIN backed.l
            /\ backed.ld.end < backed.l[backed.at].end
        BY <2>0, <1>g
      <4>2. /\ PieceAfter(backed, p) \in Scans
            /\ PieceAfter(backed, p).l = InsertAt(backed.l, PlaceAfter(backed) + 1, Piece(backed, p))
            /\ PieceAfter(backed, p).ld = backed.ld /\ PieceAfter(backed, p).at = backed.at
            /\ PieceAfter(backed, p).code = backed.code
            /\ PieceAfter(backed, p).insrtp = backed.insrtp
            /\ PieceAfter(backed, p).woken = backed.woken
        BY <4>1, PieceAfterIs
      <4> QED
        BY <4>2, <3>2, <1>g
    <3>4. /\ delflck(PieceAfter(backed, p)) \in Scans
          /\ delflck(PieceAfter(backed, p)).l = RemoveAt(n, s.at)
          /\ delflck(PieceAfter(backed, p)).ld = ld
          /\ delflck(PieceAfter(backed, p)).code = s.code
          /\ delflck(PieceAfter(backed, p)).insrtp = Closed(s.at - 1, s.at)
          /\ delflck(PieceAfter(backed, p)).woken = s.woken \cup WAKEUP(f)
      <4> HIDE DEF n
      <4> QED
        BY <2>2, <3>3, DelflckIs
    <3>5. /\ t \in Scans /\ t.l = RemoveAt(n, s.at)
          /\ t.ld = ld /\ t.at = 0 /\ t.code = s.code
          /\ t.insrtp = s.at - 1 /\ t.woken = s.woken \cup WAKEUP(f)
      <4>1. Closed(s.at - 1, s.at) = s.at - 1
        BY <1>1 DEF Closed
      <4> QED
        BY <3>1, <3>4, <4>1, EndIs
    <3>6. Trims(s, t, p, free)
      BY <3>0, <3>5, <2>0, <1>1, <1>17 DEF Trims, Follows
    <3> QED
      BY <3>5, <3>6 DEF Shaped
  <2> QED
    BY <2>0, <2>3, <2>4, <2>5
<1> QED
  <2>1. \/ reg \in {<<"BEFORE", "BEFORE">>, <<"BEFORE", "START">>,
                    <<"START", "END">>, <<"START", "AFTER">>,
                    <<"BEFORE", "END">>, <<"BEFORE", "AFTER">>,
                    <<"MIDDLE", "END">>, <<"MIDDLE", "AFTER">>,
                    <<"END", "AFTER">>, <<"AFTER", "AFTER">>}
        \/ reg[2] = "MIDDLE"
    BY <1>1, <1>3
  <2> HIDE DEF Goal
  <2> QED
    BY <2>1, <1>4, <1>5, <1>6, <1>7, <1>8, <1>9, <1>10, <1>11, <1>12, <1>13,
       <1>14, <1>15, <1>16, <1>17

-----------------------------------------------------------------------------
(* The turns of a loop. *)

Turns(D, F, x, N) ==
  {g \in [0 .. N -> D] : g[0] = x /\ \A n \in 1 .. N : g[n] = F[g[n - 1]]}

LEMMA TurnsExist ==
  ASSUME NEW D, NEW F \in [D -> D], NEW x \in D, NEW N \in Nat
  PROVE  Turns(D, F, x, N) # {}
<1> DEFINE Is(g, n) == g[0] = x /\ \A m \in 1 .. n : g[m] = F[g[m - 1]]
           T == {n \in Nat : \E g \in [0 .. n -> D] : Is(g, n)}
<1>1. 0 \in T
  <2>1. [m \in 0 .. 0 |-> x] \in [0 .. 0 -> D] /\ Is([m \in 0 .. 0 |-> x], 0)
    OBVIOUS
  <2> QED
    BY <2>1
<1>2. ASSUME NEW n \in T
      PROVE  n + 1 \in T
  <2>1. PICK g \in [0 .. n -> D] : Is(g, n)
    BY <1>2
  <2> DEFINE h == [m \in 0 .. n + 1 |-> IF m <= n THEN g[m] ELSE F[g[n]]]
  <2>2. n \in Nat /\ g[n] \in D /\ F[g[n]] \in D
    BY <2>1
  <2>3. h \in [0 .. n + 1 -> D]
    BY <2>1, <2>2
  <2>4. h[0] = x
    BY <2>1, <2>2
  <2>5. ASSUME NEW m \in 1 .. n + 1
        PROVE  h[m] = F[h[m - 1]]
    <3>1. m \in 0 .. n + 1 /\ m - 1 \in 0 .. n /\ m - 1 \in 0 .. n + 1
      BY <2>2
    <3>2. h[m - 1] = g[m - 1]
      BY <3>1
    <3>3. CASE m <= n
      <4>1. m \in 1 .. n
        BY <3>3, <2>2
      <4>2. h[m] = g[m] /\ g[m] = F[g[m - 1]]
        BY <4>1, <3>1, <3>3, <2>1
      <4> QED
        BY <4>2, <3>2
    <3>4. CASE ~(m <= n)
      <4>1. m = n + 1 /\ m - 1 = n
        BY <3>4, <2>2
      <4>2. h[m] = F[g[n]]
        BY <3>1, <3>4
      <4> QED
        BY <4>1, <4>2, <3>2
    <3> QED
      BY <3>3, <3>4
  <2> HIDE DEF h
  <2>6. Is(h, n + 1) /\ n + 1 \in Nat
    BY <2>2, <2>4, <2>5
  <2> QED
    BY <2>3, <2>6
<1>3. T = Nat
  <2> HIDE DEF T
  <2>1. T \in SUBSET Nat
    BY DEF T
  <2> QED
    BY <1>1, <1>2, <2>1, NatSetInduction
<1>4. N \in T
  BY <1>3
<1> QED
  BY <1>4 DEF Turns

(* The scan of flckadj is the sequence of the visits. *)
LEMMA ScanRuns ==
  ASSUME list \in Seq(Rec), NEW p \in Proc, NEW b, NEW start \in Scans,
         \A s \in Scans : Visit(s, p, b) \in Scans
  PROVE  \E g \in [0 .. Len(list) -> Scans] :
           /\ g[0] = start
           /\ \A n \in 1 .. Len(list) : g[n] = Visit(g[n - 1], p, b)
           /\ Scan(start, p, b) = g[Len(list)]
<1> DEFINE N == Len(list)
           F == [s \in Scans |-> Visit(s, p, b)]
           sc == CHOOSE sc : sc = [n \in 0 .. N |-> IF n = 0 THEN start
                                                    ELSE Visit(sc[n - 1], p, b)]
<1>0. N \in Nat /\ F \in [Scans -> Scans]
  OBVIOUS
<1>1. PICK g \in [0 .. N -> Scans] :
        g[0] = start /\ \A n \in 1 .. N : g[n] = F[g[n - 1]]
  <2> DEFINE D == Scans
  <2>1. N \in Nat
    BY <1>0
  <2>2. F \in [D -> D]
    BY <1>0
  <2>3. start \in D
    OBVIOUS
  <2> HIDE DEF F, N, D
  <2>4. Turns(D, F, start, N) # {}
    BY <2>1, <2>2, <2>3, TurnsExist
  <2> QED
    BY <2>4 DEF D, Turns
<1>2. \A n \in 1 .. N : g[n - 1] \in Scans /\ g[n] = Visit(g[n - 1], p, b)
  <2>1. \A n \in 1 .. N : n - 1 \in 0 .. N
    BY <1>0
  <2> QED
    BY <1>1, <2>1
<1>3. Scan(start, p, b) = sc[N]
  BY DEF Scan
<1> HIDE DEF N, F
<1>4. g = [n \in 0 .. N |-> IF n = 0 THEN start ELSE Visit(g[n - 1], p, b)]
  <2>1. \A n \in 0 .. N : g[n] = IF n = 0 THEN start ELSE Visit(g[n - 1], p, b)
    BY <1>0, <1>1, <1>2
  <2>2. g = [n \in 0 .. N |-> g[n]]
    BY <1>1
  <2> QED
    BY <2>1, <2>2
<1>5. sc = [n \in 0 .. N |-> IF n = 0 THEN start ELSE Visit(sc[n - 1], p, b)]
  BY <1>4
<1> HIDE DEF sc
<1>6. N \in {n \in Nat : n <= N => sc[n] = g[n]}
  <2> DEFINE T == {n \in Nat : n <= N => sc[n] = g[n]}
  <2>1. 0 \in T
    BY <1>0, <1>1, <1>5
  <2>2. ASSUME NEW n \in T
        PROVE  n + 1 \in T
    <3>1. CASE n + 1 <= N
      <4>1. n \in Nat /\ n <= N /\ n + 1 \in 0 .. N /\ n + 1 \in 1 .. N /\ n + 1 # 0
            /\ (n + 1) - 1 = n
        BY <1>0, <3>1
      <4>2. sc[n] = g[n]
        BY <4>1
      <4>3. sc[n + 1] = Visit(sc[n], p, b)
        BY <4>1, <1>5
      <4>4. g[n + 1] = Visit(g[n], p, b)
        BY <4>1, <1>2
      <4> QED
        BY <4>1, <4>2, <4>3, <4>4
    <3>2. CASE ~(n + 1 <= N)
      BY <3>2
    <3> QED
      BY <3>1, <3>2
  <2>3. T = Nat
    <3> HIDE DEF T
    <3>1. T \in SUBSET Nat
      BY DEF T
    <3> QED
      BY <2>1, <2>2, <3>1, NatSetInduction
  <2> QED
    BY <1>0, <2>3
<1>7. Scan(start, p, b) = g[N]
  BY <1>0, <1>3, <1>6
<1> QED
  BY <1>1, <1>2, <1>7 DEF N

(* What every visit keeps, with the number of turns, the scan keeps. *)
LEMMA ScanKeeps ==
  ASSUME list \in Seq(Rec), NEW p \in Proc, NEW b, NEW start \in Scans,
         \A s \in Scans : Visit(s, p, b) \in Scans,
         NEW J \in SUBSET (Nat \X Scans), <<0, start>> \in J,
         \A n \in Nat, s \in Scans : <<n, s>> \in J => <<n + 1, Visit(s, p, b)>> \in J
  PROVE  <<Len(list), Scan(start, p, b)>> \in J
<1> DEFINE N == Len(list)
<1>0. N \in Nat
  OBVIOUS
<1>1. PICK g \in [0 .. N -> Scans] :
        /\ g[0] = start
        /\ \A n \in 1 .. N : g[n] = Visit(g[n - 1], p, b)
        /\ Scan(start, p, b) = g[N]
  BY ScanRuns
<1> HIDE DEF N
<1> DEFINE T == {n \in Nat : n <= N => <<n, g[n]>> \in J}
<1>2. 0 \in T
  BY <1>1
<1>3. ASSUME NEW n \in T
      PROVE  n + 1 \in T
  <2>1. CASE n + 1 <= N
    <3>1. n \in Nat /\ n <= N /\ n + 1 \in 1 .. N /\ (n + 1) - 1 = n /\ n \in 0 .. N
      BY <1>0, <2>1
    <3>2. <<n, g[n]>> \in J /\ g[n] \in Scans
      BY <3>1, <1>1
    <3>3. g[n + 1] = Visit(g[n], p, b)
      BY <3>1, <1>1
    <3> QED
      BY <3>1, <3>2, <3>3
  <2>2. CASE ~(n + 1 <= N)
    BY <2>2
  <2> QED
    BY <2>1, <2>2
<1>4. T = Nat
  <2> HIDE DEF T
  <2>1. T \in SUBSET Nat
    BY DEF T
  <2> QED
    BY <1>2, <1>3, <2>1, NatSetInduction
<1> QED
  BY <1>0, <1>1, <1>4 DEF N

-----------------------------------------------------------------------------
(* Lists in order. *)

Normal(l) ==
  \A i, j \in DOMAIN l :
    i < j => /\ l[i].start <= l[j].start
             /\ l[i].pid = l[j].pid => Apart(l[i], l[j])

LEMMA ListIs ==
  ASSUME NEW l \in Seq(Rec)
  PROVE  /\ Len(l) \in Nat /\ DOMAIN l = 1 .. Len(l)
         /\ \A i \in DOMAIN l :
              /\ l[i] \in Rec
              /\ l[i].start \in Int /\ l[i].end \in Int /\ l[i].start <= l[i].end
<1>1. \A i \in DOMAIN l : l[i] \in Rec
  OBVIOUS
<1> QED
  BY <1>1, RecIs

(* m is l with e put in at k. *)
Inserted(m, l, k, e) ==
  m \in Seq(Rec) /\ Len(m) = Len(l) + 1 /\ Put(m, l, k, e)

LEMMA InsertAtIs ==
  ASSUME NEW l \in Seq(Rec), NEW k \in 1 .. Len(l) + 1, NEW e \in Rec
  PROVE  Inserted(InsertAt(l, k, e), l, k, e)
BY InsertIs DEF Inserted

LEMMA RemoveRange ==
  ASSUME NEW l \in Seq(Rec), NEW i \in DOMAIN l
  PROVE  Range(RemoveAt(l, i)) = {l[j] : j \in DOMAIN l \ {i}}
<1> DEFINE m == RemoveAt(l, i)
<1>1. Len(l) \in Nat /\ DOMAIN l = 1 .. Len(l) /\ i \in 1 .. Len(l)
  BY ListIs
<1>2. m \in Seq(Rec) /\ Len(m) = Len(l) - 1
      /\ \A j \in 1 .. Len(l) - 1 : m[j] = IF j < i THEN l[j] ELSE l[j + 1]
  BY RemoveIs
<1> HIDE DEF m
<1>3. DOMAIN m = 1 .. Len(l) - 1
  BY <1>1, <1>2
<1>4. ASSUME NEW j \in DOMAIN m
      PROVE  m[j] \in {l[k] : k \in DOMAIN l \ {i}}
  <2>1. CASE j < i
    BY <2>1, <1>1, <1>2, <1>3
  <2>2. CASE ~(j < i)
    <3>1. j + 1 \in DOMAIN l \ {i}
      BY <2>2, <1>1, <1>3
    <3> QED
      BY <3>1, <2>2, <1>2, <1>3
  <2> QED
    BY <2>1, <2>2
<1>5. ASSUME NEW k \in DOMAIN l \ {i}
      PROVE  \E j \in DOMAIN m : m[j] = l[k]
  <2>1. CASE k < i
    <3>1. k \in 1 .. Len(l) - 1
      BY <2>1, <1>1
    <3> QED
      BY <3>1, <2>1, <1>2, <1>3
  <2>2. CASE ~(k < i)
    <3>1. k - 1 \in 1 .. Len(l) - 1 /\ ~(k - 1 < i) /\ (k - 1) + 1 = k
      BY <2>2, <1>1
    <3>2. m[k - 1] = l[(k - 1) + 1]
      BY <3>1, <1>2
    <3> QED
      BY <3>1, <3>2, <1>3
  <2> QED
    BY <2>1, <2>2
<1>6. Range(m) = {l[j] : j \in DOMAIN l \ {i}}
  BY <1>4, <1>5 DEF Range
<1> QED
  BY <1>6 DEF m

LEMMA ExceptRange ==
  ASSUME NEW l \in Seq(Rec), NEW i \in DOMAIN l, NEW c
  PROVE  Range([l EXCEPT ![i] = c]) = {c} \cup {l[j] : j \in DOMAIN l \ {i}}
BY DEF Range

LEMMA InsertRange ==
  ASSUME NEW l \in Seq(Rec), NEW k \in 1 .. Len(l) + 1, NEW e \in Rec
  PROVE  Range(InsertAt(l, k, e)) = {e} \cup Range(l)
<1> DEFINE m == InsertAt(l, k, e)
<1>1. Len(l) \in Nat /\ DOMAIN l = 1 .. Len(l) /\ k \in Int
  BY ListIs
<1>2. m \in Seq(Rec) /\ Len(m) = Len(l) + 1
      /\ \A j \in 1 .. Len(l) + 1 :
           m[j] = IF j < k THEN l[j] ELSE IF j = k THEN e ELSE l[j - 1]
  <2>1. Inserted(m, l, k, e)
    BY InsertAtIs
  <2> HIDE DEF m
  <2> QED
    BY <2>1 DEF Inserted, Put
<1> HIDE DEF m
<1>3. DOMAIN m = 1 .. Len(l) + 1
  BY <1>1, <1>2
<1>4. ASSUME NEW j \in DOMAIN m
      PROVE  m[j] = e \/ m[j] \in Range(l)
  <2>1. CASE j < k
    <3>1. j \in DOMAIN l
      BY <2>1, <1>1, <1>3
    <3> QED
      BY <3>1, <2>1, <1>2, <1>3 DEF Range
  <2>2. CASE j = k
    BY <2>2, <1>2, <1>3
  <2>3. CASE j > k
    <3>1. j - 1 \in DOMAIN l /\ ~(j < k) /\ j # k
      BY <2>3, <1>1, <1>3
    <3> QED
      BY <3>1, <1>2, <1>3 DEF Range
  <2>4. j < k \/ j = k \/ j > k
    BY <1>1, <1>3
  <2> QED
    BY <2>1, <2>2, <2>3, <2>4
<1>5. \E j \in DOMAIN m : m[j] = e
  BY <1>1, <1>2, <1>3
<1>6. ASSUME NEW i \in DOMAIN l
      PROVE  \E j \in DOMAIN m : m[j] = l[i]
  <2>1. CASE i < k
    <3>1. i \in 1 .. Len(l) + 1
      BY <1>1
    <3> QED
      BY <3>1, <2>1, <1>2, <1>3
  <2>2. CASE ~(i < k)
    <3>1. i + 1 \in 1 .. Len(l) + 1 /\ ~(i + 1 < k) /\ i + 1 # k /\ (i + 1) - 1 = i
      BY <2>2, <1>1
    <3>2. m[i + 1] = l[(i + 1) - 1]
      BY <3>1, <1>2
    <3> QED
      BY <3>1, <3>2, <1>3
  <2> QED
    BY <2>1, <2>2
<1>7. Range(m) = {e} \cup Range(l)
  BY <1>4, <1>5, <1>6 DEF Range
<1> QED
  BY <1>7 DEF m

LEMMA RemoveNormal ==
  ASSUME NEW l \in Seq(Rec), NEW i \in DOMAIN l, Normal(l)
  PROVE  Normal(RemoveAt(l, i))
<1> DEFINE m == RemoveAt(l, i)
           up(j) == IF j < i THEN j ELSE j + 1
<1>1. Len(l) \in Nat /\ DOMAIN l = 1 .. Len(l) /\ i \in 1 .. Len(l)
  BY ListIs
<1>2. m \in Seq(Rec) /\ Len(m) = Len(l) - 1
      /\ \A j \in 1 .. Len(l) - 1 : m[j] = l[up(j)]
  <2>1. m \in Seq(Rec) /\ Len(m) = Len(l) - 1
        /\ \A j \in 1 .. Len(l) - 1 : m[j] = IF j < i THEN l[j] ELSE l[j + 1]
    BY RemoveIs
  <2> HIDE DEF m
  <2> QED
    BY <2>1
<1> HIDE DEF m
<1>3. DOMAIN m = 1 .. Len(l) - 1
  BY <1>1, <1>2
<1>4. ASSUME NEW a \in DOMAIN m, NEW c \in DOMAIN m, a < c
      PROVE  m[a].start <= m[c].start /\ (m[a].pid = m[c].pid => Apart(m[a], m[c]))
  <2>1. up(a) \in DOMAIN l /\ up(c) \in DOMAIN l /\ up(a) < up(c)
    BY <1>1, <1>3, <1>4
  <2>2. m[a] = l[up(a)] /\ m[c] = l[up(c)]
    BY <1>2, <1>3
  <2> HIDE DEF up
  <2> QED
    BY <2>1, <2>2 DEF Normal
<1>5. Normal(m)
  BY <1>4 DEF Normal
<1> QED
  BY <1>5 DEF m

(* A record that ends earlier. *)
LEMMA CutNormal ==
  ASSUME NEW l \in Seq(Rec), NEW i \in DOMAIN l, NEW c \in Rec, Normal(l),
         c.pid = l[i].pid, c.type = l[i].type, c.start = l[i].start,
         c.end <= l[i].end
  PROVE  Normal([l EXCEPT ![i] = c])
<1> DEFINE m == [l EXCEPT ![i] = c]
<1>1. /\ DOMAIN m = DOMAIN l /\ m[i] = c
      /\ \A j \in DOMAIN l : j # i => m[j] = l[j]
      /\ DOMAIN l \subseteq Int
  BY ListIs
<1>2. c.end \in Int /\ l[i].end \in Int
  BY ListIs, RecIs
<1> HIDE DEF m
<1>3. ASSUME NEW a \in DOMAIN m, NEW d \in DOMAIN m, a < d
      PROVE  m[a].start <= m[d].start /\ (m[a].pid = m[d].pid => Apart(m[a], m[d]))
  <2>1. /\ l[a].start <= l[d].start
        /\ l[a].pid = l[d].pid => Apart(l[a], l[d])
        /\ l[d].start \in Int
    BY <1>1, <1>3, ListIs DEF Normal
  <2>2. CASE a = i
    <3>1. d # i /\ m[d] = l[d] /\ m[a] = c
      BY <2>2, <1>1, <1>3
    <3>2. Apart(l[i], l[d]) => Apart(c, l[d])
      BY <2>1, <1>2 DEF Apart
    <3> QED
      BY <2>1, <2>2, <3>1, <3>2
  <2>3. CASE d = i
    <3>1. a # i /\ m[a] = l[a] /\ m[d] = c
      BY <2>3, <1>1, <1>3
    <3>2. Apart(l[a], l[i]) => Apart(l[a], c)
      BY DEF Apart
    <3> QED
      BY <2>1, <2>3, <3>1, <3>2
  <2>4. CASE a # i /\ d # i
    BY <2>1, <2>4, <1>1
  <2> QED
    BY <2>2, <2>3, <2>4
<1>4. Normal(m)
  BY <1>3 DEF Normal
<1> QED
  BY <1>4 DEF m

(* A record put between those it lies between. *)
LEMMA InsertNormal ==
  ASSUME NEW l \in Seq(Rec), NEW k \in 0 .. Len(l), NEW e \in Rec, Normal(l),
         \A i \in 1 .. k : /\ l[i].start <= e.start
                           /\ l[i].pid = e.pid => Apart(l[i], e),
         \A i \in k + 1 .. Len(l) : /\ e.start <= l[i].start
                                    /\ e.pid = l[i].pid => Apart(e, l[i])
  PROVE  Normal(InsertAt(l, k + 1, e))
<1> DEFINE h == k + 1
           m == InsertAt(l, h, e)
<1>1. Len(l) \in Nat /\ DOMAIN l = 1 .. Len(l) /\ k \in Nat /\ h = k + 1 /\ h \in 1 .. Len(l) + 1
  BY ListIs
<1>h. h \in 1 .. Len(l) + 1
  BY <1>1
<1> HIDE DEF h
<1>2. m \in Seq(Rec) /\ Len(m) = Len(l) + 1
      /\ \A j \in 1 .. Len(l) + 1 :
           m[j] = IF j < h THEN l[j] ELSE IF j = h THEN e ELSE l[j - 1]
  <2>1. Inserted(m, l, h, e)
    BY <1>h, InsertAtIs
  <2> QED
    BY <2>1 DEF Inserted, Put
<1> HIDE DEF m
<1>3. DOMAIN m = 1 .. Len(l) + 1
  BY <1>1, <1>2
<1>4. ASSUME NEW a \in DOMAIN m, NEW c \in DOMAIN m, a < c
      PROVE  m[a].start <= m[c].start /\ (m[a].pid = m[c].pid => Apart(m[a], m[c]))
  <2>0. a \in Int /\ c \in Int
    BY <1>3
  <2>1. CASE c < h
    <3>1. m[a] = l[a] /\ m[c] = l[c] /\ a \in DOMAIN l /\ c \in DOMAIN l
      BY <2>1, <1>1, <1>2, <1>3, <1>4
    <3> QED
      BY <3>1, <1>4 DEF Normal
  <2>2. CASE c = h
    <3>1. m[a] = l[a] /\ m[c] = e /\ a \in 1 .. k
      BY <2>2, <1>1, <1>2, <1>3, <1>4
    <3> QED
      BY <3>1
  <2>3. CASE c > h /\ a < h
    <3>1. m[a] = l[a] /\ m[c] = l[c - 1] /\ a \in DOMAIN l /\ c - 1 \in DOMAIN l /\ a < c - 1
      BY <2>3, <1>1, <1>2, <1>3, <1>4
    <3> HIDE DEF m
    <3> QED
      BY <3>1 DEF Normal
  <2>4. CASE c > h /\ a = h
    <3>1. m[a] = e /\ m[c] = l[c - 1] /\ c - 1 \in k + 1 .. Len(l)
      BY <2>4, <1>1, <1>2, <1>3, <1>4
    <3> QED
      BY <3>1
  <2>5. CASE c > h /\ a > h
    <3>1. /\ m[a] = l[a - 1] /\ m[c] = l[c - 1]
          /\ a - 1 \in DOMAIN l /\ c - 1 \in DOMAIN l /\ a - 1 < c - 1
      BY <2>5, <1>1, <1>2, <1>3, <1>4
    <3> QED
      BY <3>1 DEF Normal
  <2> QED
    BY <2>0, <1>1, <2>1, <2>2, <2>3, <2>4, <2>5
<1>5. Normal(m)
  BY <1>4 DEF Normal
<1> QED
  BY <1>5 DEF m, h

(* The order of a change or a deletion and an insertion after it. *)
LEMMA SplitIs ==
  ASSUME NEW l \in Seq(Rec), NEW i \in DOMAIN l, NEW k \in i .. Len(l),
         NEW e \in Rec, NEW c \in Rec
  PROVE  [InsertAt(l, k + 1, e) EXCEPT ![i] = c] = InsertAt([l EXCEPT ![i] = c], k + 1, e)
<1> DEFINE h == k + 1
           x == [l EXCEPT ![i] = c]
           m == InsertAt(l, h, e)
           u == [m EXCEPT ![i] = c]
           v == InsertAt(x, h, e)
<1>1. /\ Len(l) \in Nat /\ DOMAIN l = 1 .. Len(l) /\ i \in Nat /\ i < h /\ h \in 1 .. Len(l) + 1
  BY ListIs
<1>h. h \in 1 .. Len(l) + 1
  BY <1>1
<1> HIDE DEF h
<1>2. x \in Seq(Rec) /\ Len(x) = Len(l) /\ \A j \in 1 .. Len(l) : x[j] = IF j = i THEN c ELSE l[j]
  BY <1>1
<1>3. m \in Seq(Rec) /\ Len(m) = Len(l) + 1
      /\ \A j \in 1 .. Len(l) + 1 :
           m[j] = IF j < h THEN l[j] ELSE IF j = h THEN e ELSE l[j - 1]
  <2>1. Inserted(m, l, h, e)
    BY <1>h, InsertAtIs
  <2> QED
    BY <2>1 DEF Inserted, Put
<1> HIDE DEF x, m
<1>4. v \in Seq(Rec) /\ Len(v) = Len(l) + 1
      /\ \A j \in 1 .. Len(l) + 1 :
           v[j] = IF j < h THEN x[j] ELSE IF j = h THEN e ELSE x[j - 1]
  <2>1. h \in 1 .. Len(x) + 1 /\ Len(x) + 1 = Len(l) + 1
    BY <1>h, <1>2
  <2>2. h \in 1 .. Len(x) + 1 /\ x \in Seq(Rec)
    BY <2>1, <1>2
  <2>3. v \in Seq(Rec) /\ Len(v) = Len(x) + 1
        /\ \A j \in 1 .. Len(x) + 1 :
             v[j] = IF j < h THEN x[j] ELSE IF j = h THEN e ELSE x[j - 1]
    <3>1. Inserted(v, x, h, e)
      BY <2>2, InsertAtIs
    <3> HIDE DEF v
    <3> QED
      BY <3>1 DEF Inserted, Put
  <2> QED
    BY <2>1, <2>3
<1>5. u \in Seq(Rec) /\ Len(u) = Len(l) + 1
      /\ \A j \in 1 .. Len(l) + 1 : u[j] = IF j = i THEN c ELSE m[j]
  BY <1>1, <1>3
<1> HIDE DEF u, v
<1>6. ASSUME NEW j \in 1 .. Len(l) + 1
      PROVE  u[j] = v[j]
  <2>1. CASE j < h
    <3>1. j \in 1 .. Len(l)
      BY <2>1, <1>1
    <3> QED
      BY <3>1, <2>1, <1>2, <1>3, <1>4, <1>5
  <2>2. CASE j = h
    <3>1. j # i /\ ~(j < h)
      BY <2>2, <1>1
    <3>2. v[j] = e /\ m[j] = e /\ u[j] = m[j]
      BY <2>2, <3>1, <1>3, <1>4, <1>5
    <3> QED
      BY <3>2
  <2>3. CASE j > h
    <3>1. j - 1 \in 1 .. Len(l) /\ j - 1 # i /\ j # i /\ ~(j < h) /\ j # h
      BY <2>3, <1>1
    <3>2. m[j] = l[j - 1] /\ v[j] = x[j - 1] /\ u[j] = m[j] /\ x[j - 1] = l[j - 1]
      BY <3>1, <1>2, <1>3, <1>4, <1>5
    <3> QED
      BY <3>2
  <2> QED
    BY <1>1, <2>1, <2>2, <2>3
<1>7. u = v
  BY <1>4, <1>5, <1>6, SeqEqual
<1> QED
  BY <1>7 DEF u, v, m, x, h

LEMMA TrimIs ==
  ASSUME NEW l \in Seq(Rec), NEW i \in DOMAIN l, NEW k \in i .. Len(l), NEW e \in Rec
  PROVE  RemoveAt(InsertAt(l, k + 1, e), i) = InsertAt(RemoveAt(l, i), k, e)
<1> DEFINE h == k + 1
           x == RemoveAt(l, i)
           m == InsertAt(l, h, e)
           u == RemoveAt(m, i)
           v == InsertAt(x, k, e)
<1>1. /\ Len(l) \in Nat /\ DOMAIN l = 1 .. Len(l) /\ i \in 1 .. Len(l) /\ i <= k /\ h = k + 1
      /\ h \in 1 .. Len(l) + 1 /\ k \in 1 .. Len(l)
  BY ListIs
<1>h. h \in 1 .. Len(l) + 1
  BY <1>1
<1> HIDE DEF h
<1>2. x \in Seq(Rec) /\ Len(x) = Len(l) - 1
      /\ \A j \in 1 .. Len(l) - 1 : x[j] = IF j < i THEN l[j] ELSE l[j + 1]
  BY RemoveIs
<1>3. m \in Seq(Rec) /\ Len(m) = Len(l) + 1
      /\ \A j \in 1 .. Len(l) + 1 :
           m[j] = IF j < h THEN l[j] ELSE IF j = h THEN e ELSE l[j - 1]
  <2>1. Inserted(m, l, h, e)
    BY <1>h, InsertAtIs
  <2> QED
    BY <2>1 DEF Inserted, Put
<1> HIDE DEF x, m
<1>4. v \in Seq(Rec) /\ Len(v) = Len(l)
      /\ \A j \in 1 .. Len(l) :
           v[j] = IF j < k THEN x[j] ELSE IF j = k THEN e ELSE x[j - 1]
  <2>1. k \in 1 .. Len(x) + 1 /\ Len(x) + 1 = Len(l)
    BY <1>1, <1>2
  <2>2. v \in Seq(Rec) /\ Len(v) = Len(x) + 1
        /\ \A j \in 1 .. Len(x) + 1 :
             v[j] = IF j < k THEN x[j] ELSE IF j = k THEN e ELSE x[j - 1]
    <3>1. Inserted(v, x, k, e)
      BY <2>1, <1>2, InsertAtIs
    <3> HIDE DEF v
    <3> QED
      BY <3>1 DEF Inserted, Put
  <2> QED
    BY <2>1, <2>2
<1>5. u \in Seq(Rec) /\ Len(u) = Len(l)
      /\ \A j \in 1 .. Len(l) : u[j] = IF j < i THEN m[j] ELSE m[j + 1]
  <2>1. i \in DOMAIN m /\ Len(m) - 1 = Len(l)
    BY <1>1, <1>3
  <2>2. u \in Seq(Rec) /\ Len(u) = Len(m) - 1
        /\ \A j \in 1 .. Len(m) - 1 : u[j] = IF j < i THEN m[j] ELSE m[j + 1]
    BY <2>1, <1>3, RemoveIs
  <2> QED
    BY <2>1, <2>2
<1> HIDE DEF u, v
<1>6. ASSUME NEW j \in 1 .. Len(l)
      PROVE  u[j] = v[j]
  <2>1. CASE j < i
    <3>1. j \in 1 .. Len(l) + 1 /\ j \in 1 .. Len(l) - 1 /\ j < h /\ j < k
      BY <2>1, <1>1
    <3> QED
      BY <3>1, <2>1, <1>2, <1>3, <1>4, <1>5
  <2>2. CASE ~(j < i) /\ j < k
    <3>1. j + 1 \in 1 .. Len(l) + 1 /\ j \in 1 .. Len(l) - 1 /\ j + 1 < h
      BY <2>2, <1>1
    <3> QED
      BY <3>1, <2>2, <1>2, <1>3, <1>4, <1>5
  <2>3. CASE j = k
    <3>1. j + 1 = h /\ ~(j < i) /\ ~(j < k)
      BY <2>3, <1>1
    <3> QED
      BY <3>1, <2>3, <1>1, <1>3, <1>4, <1>5
  <2>4. CASE j > k
    <3>1. /\ j + 1 \in 1 .. Len(l) + 1 /\ ~(j + 1 < h) /\ j + 1 # h /\ (j + 1) - 1 = j
          /\ j - 1 \in 1 .. Len(l) - 1 /\ ~(j - 1 < i) /\ (j - 1) + 1 = j
          /\ ~(j < i) /\ ~(j < k) /\ j # k
      BY <2>4, <1>1
    <3>2. u[j] = m[j + 1] /\ v[j] = x[j - 1]
      BY <3>1, <1>4, <1>5
    <3>3. m[j + 1] = l[(j + 1) - 1]
      BY <3>1, <1>3
    <3>4. x[j - 1] = l[(j - 1) + 1]
      BY <3>1, <1>2
    <3> QED
      BY <3>1, <3>2, <3>3, <3>4
  <2> QED
    BY <1>1, <2>1, <2>2, <2>3, <2>4
<1>7. u = v
  BY <1>4, <1>5, <1>6, SeqEqual
<1> QED
  BY <1>7 DEF u, v, m, x, h

-----------------------------------------------------------------------------
(* One visit of the scan, from s to t. *)

Passes(s, t) ==
  Leaves(s, t) /\ t.at = s.at + 1 /\ t.code = s.code /\ t.insrtp = s.insrtp

LEMMA VisitShapes ==
  ASSUME NEW s \in Scans, NEW p \in Proc, NEW b
  PROVE  /\ Visit(s, p, b) \in Scans
         /\ s.at \notin DOMAIN s.l => Visit(s, p, b) = End(s)
         /\ s.at \in DOMAIN s.l /\ s.l[s.at].pid # p => Passes(s, Visit(s, p, b))
         /\ s.at \in DOMAIN s.l /\ s.l[s.at].pid = p
              => Shaped(s, Visit(s, p, b), p, Free(s.l, b))
<1>1. CASE s.at \notin DOMAIN s.l
  BY <1>1, EndIs DEF Visit
<1>2. CASE s.at \in DOMAIN s.l /\ s.l[s.at].pid # p
  <2>1. Visit(s, p, b) = [s EXCEPT !.at = @ + 1]
    BY <1>2 DEF Visit
  <2> QED
    BY <1>2, <2>1, NextIs DEF Passes, Leaves
<1>3. CASE s.at \in DOMAIN s.l /\ s.l[s.at].pid = p
  <2> DEFINE free == Free(s.l, b)
  <2>1. Visit(s, p, b) = Adjust(s, p, free)
    BY <1>3 DEF Visit
  <2> HIDE DEF free
  <2>2. Adjust(s, p, free) \in Scans /\ Shaped(s, Adjust(s, p, free), p, free)
    BY <1>3, AdjustShapes
  <2> QED
    BY <1>3, <2>1, <2>2 DEF free
<1> QED
  BY <1>1, <1>2, <1>3

(* The piece after the (un)lock lies between the records about it. *)
LEMMA PieceFits ==
  ASSUME NEW s \in Scans, s.at \in DOMAIN s.l, NEW p \in Proc, Normal(s.l),
         s.l[s.at].pid = p, s.l[s.at].start <= s.ld.end, s.ld.end < s.l[s.at].end
  PROVE  LET l == s.l
             k == PlaceAfter(s)
             e == Piece(s, p)
         IN  /\ k \in s.at .. Len(l) /\ e \in Rec /\ e.pid = p
             /\ e.start = s.ld.end + 1 /\ e.end = l[s.at].end /\ e.type = l[s.at].type
             /\ \A i \in 1 .. k : /\ l[i].start <= e.start
                                  /\ i # s.at /\ l[i].pid = p => Apart(l[i], e)
             /\ \A i \in k + 1 .. Len(l) : /\ e.start <= l[i].start
                                           /\ l[i].pid = p => Apart(e, l[i])
<1> DEFINE l == s.l
           k == PlaceAfter(s)
           e == Piece(s, p)
           f == l[s.at]
           at == s.at
<1>1. /\ k \in at .. Len(l) /\ e \in Rec /\ e.pid = p
      /\ e.start = s.ld.end + 1 /\ e.end = f.end /\ e.type = f.type
  BY PieceAfterIs
<1>2. /\ l \in Seq(Rec) /\ Len(l) \in Nat /\ DOMAIN l = 1 .. Len(l)
      /\ at \in 1 .. Len(l) /\ s.ld.end \in Int
      /\ \A i \in DOMAIN l : l[i].start \in Int /\ l[i].end \in Int /\ l[i].start <= l[i].end
  BY ScanIs, ListIs
<1>3. f.start <= s.ld.end /\ s.ld.end < f.end
  OBVIOUS
<1>f. f = l[at] /\ f.pid = p /\ at \in DOMAIN l /\ at \in Int
  BY <1>2
<1>4. /\ \A i \in at + 1 .. k : l[i].start < s.ld.end + 1
      /\ k < Len(l) => l[k + 1].start >= s.ld.end + 1
  <2> DEFINE st == s.ld.end + 1
  <2>1. k = Place(l, at, st) /\ st \in Int /\ l[at].start < st
    BY <1>2, <1>3 DEF PlaceAfter
  <2> HIDE DEF st, k, l, at
  <2>2. /\ \A i \in at + 1 .. Place(l, at, st) : l[i].start < st
        /\ (l[at].start < st /\ Place(l, at, st) < Len(l))
              => l[Place(l, at, st) + 1].start >= st
    BY <1>2, <2>1, PlaceIs
  <2> QED
    BY <2>1, <2>2 DEF st
<1> HIDE DEF k, e, f
<1>5. ASSUME NEW i \in 1 .. k
      PROVE  /\ l[i].start <= e.start
             /\ i # at /\ l[i].pid = p => Apart(l[i], e)
  <2>0. i \in DOMAIN l /\ l[i].start \in Int /\ l[i].end \in Int /\ l[i].start <= l[i].end
        /\ f.start \in Int /\ f.end \in Int
    BY <1>1, <1>2 DEF f
  <2>1. CASE i < at
    <3>1. l[i].start <= f.start /\ (l[i].pid = p => Apart(l[i], f))
      <4>1. i \in DOMAIN l /\ at \in DOMAIN l /\ i < at
        BY <2>0, <2>1, <1>f
      <4>2. l[i].start <= l[at].start /\ (l[i].pid = l[at].pid => Apart(l[i], l[at]))
        BY <4>1 DEF Normal
      <4> QED
        BY <4>2, <1>f
    <3> QED
      <4>1. l[i].start <= e.start
        BY <2>0, <3>1, <1>1, <1>2, <1>3
      <4>2. ASSUME l[i].pid = p
            PROVE  Apart(l[i], e)
        <5>1. l[i].end + 1 <= f.start
          BY <2>0, <3>1, <4>2 DEF Apart
        <5>2. l[i].end + 1 < e.start
          BY <2>0, <5>1, <1>1, <1>2, <1>3
        <5> QED
          BY <5>2 DEF Apart
      <4> QED
        BY <4>1, <4>2
  <2>2. CASE i = at
    BY <2>0, <2>2, <1>1, <1>2, <1>3 DEF f
  <2>3. CASE i > at
    <3>1. i \in at + 1 .. k
      BY <2>3, <1>1, <1>2
    <3>2. l[i].start < s.ld.end + 1
      BY <3>1, <1>4
    <3>3. l[i].pid = p => Apart(f, l[i])
      BY <2>0, <2>3, <1>f DEF Normal
    <3>4. l[i].pid # p
      BY <2>0, <3>2, <3>3, <1>2, <1>3 DEF Apart
    <3> QED
      BY <2>0, <3>2, <3>4, <1>1, <1>2
  <2> QED
    BY <2>1, <2>2, <2>3, <1>2
<1>6. ASSUME NEW i \in k + 1 .. Len(l)
      PROVE  /\ e.start <= l[i].start
             /\ l[i].pid = p => Apart(e, l[i])
  <2>0. i \in DOMAIN l /\ l[i].start \in Int /\ l[i].end \in Int /\ l[i].start <= l[i].end
        /\ at < i /\ k + 1 \in DOMAIN l /\ l[k + 1].start \in Int /\ k + 1 <= i /\ k < Len(l)
    <3>1. i \in 1 .. Len(l) /\ k + 1 \in 1 .. Len(l) /\ at < i /\ k + 1 <= i /\ k < Len(l)
      BY <1>1, <1>2
    <3> QED
      BY <3>1, <1>2
  <2>1. l[k + 1].start <= l[i].start
    <3>1. CASE i = k + 1
      BY <3>1, <2>0
    <3>2. CASE k + 1 < i
      BY <3>2, <2>0 DEF Normal
    <3> QED
      BY <3>1, <3>2, <2>0, <1>1, <1>2
  <2>2. l[i].pid = p => Apart(f, l[i])
    BY <2>0, <1>f DEF Normal
  <2>3. e.start <= l[i].start
    BY <2>0, <2>1, <1>1, <1>2, <1>4
  <2>4. Apart(f, l[i]) => Apart(e, l[i])
    BY <1>1 DEF Apart
  <2> QED
    BY <2>2, <2>3, <2>4
<1> QED
  BY <1>1, <1>5, <1>6 DEF k, e, f

(* The record before the (un)lock, and what Splits and Trims make of the   *)
(* list.                                                                   *)
LEMMA CutFits ==
  ASSUME NEW s \in Scans, s.at \in DOMAIN s.l, s.l[s.at].start < s.ld.start,
         s.ld.start <= s.l[s.at].end
  PROVE  LET f == s.l[s.at]
             c == Cut(f, s.ld.start - 1)
         IN  /\ c \in Rec /\ c.pid = f.pid /\ c.type = f.type /\ c.start = f.start
             /\ c.end = s.ld.start - 1 /\ c.end <= f.end
<1> DEFINE f == s.l[s.at]
           d == s.ld.start - 1
<1>1. f \in Rec /\ f.start \in 0 .. MAXEND /\ f.end \in 0 .. MAXEND
  BY ScanIs, RecIs
<1>2. s.ld.start \in 0 .. MAXEND /\ MAXEND \in Nat
  BY ScanIs, ConstAssumption
<1>3. f.start < s.ld.start /\ s.ld.start <= f.end
  OBVIOUS
<1> HIDE DEF f
<1>4. d \in 0 .. MAXEND /\ f.start <= d /\ d <= f.end
  BY <1>1, <1>2, <1>3
<1> HIDE DEF d
<1>5. /\ Cut(f, d) \in Rec /\ Cut(f, d).pid = f.pid /\ Cut(f, d).type = f.type
      /\ Cut(f, d).start = f.start /\ Cut(f, d).end = d
  BY <1>1, <1>4, CutIs
<1> QED
  BY <1>4, <1>5 DEF f, d

(* What is left of the other records when one is replaced. *)
Others(l, i) == {l[j] : j \in DOMAIN l \ {i}}

LEMMA SplitsList ==
  ASSUME NEW s \in Scans, s.at \in DOMAIN s.l, NEW t, NEW p \in Proc, NEW free,
         Normal(s.l), s.l[s.at].pid = p, Splits(s, t, p, free)
  PROVE  /\ Normal(t.l) /\ t.l \in Seq(Rec) /\ Len(t.l) = Len(s.l) + 1
         /\ Range(t.l) = {Piece(s, p), Cut(s.l[s.at], s.ld.start - 1)} \cup Others(s.l, s.at)
         /\ \A j \in DOMAIN s.l : j < s.at => t.l[j] = s.l[j]
         /\ t.l[s.at] = Cut(s.l[s.at], s.ld.start - 1)
<1> DEFINE l == s.l
           at == s.at
           k == PlaceAfter(s)
           e == Piece(s, p)
           f == l[at]
           c == Cut(f, s.ld.start - 1)
           x == [l EXCEPT ![at] = c]
           h == k + 1
           m == InsertAt(x, h, e)
<1>0. /\ s.ld.start \in Int /\ s.ld.end \in Int /\ s.ld.start <= s.ld.end
      /\ l \in Seq(Rec) /\ Len(l) \in Nat /\ DOMAIN l = 1 .. Len(l) /\ at \in 1 .. Len(l)
      /\ at \in DOMAIN l /\ Normal(l)
  BY ScanIs
<1>1. /\ f.start < s.ld.start /\ s.ld.end < f.end
      /\ t.l = [InsertAt(l, k + 1, e) EXCEPT ![at] = c]
  BY DEF Splits
<1>2. f.start \in Int /\ f.end \in Int
  BY <1>0, ListIs
<1>3. f.start <= s.ld.end /\ s.ld.start <= f.end
  BY <1>0, <1>1, <1>2
<1>4. /\ k \in at .. Len(l) /\ e \in Rec /\ e.pid = p
      /\ e.start = s.ld.end + 1 /\ e.end = f.end /\ e.type = f.type
      /\ \A i \in 1 .. k : /\ l[i].start <= e.start
                           /\ i # at /\ l[i].pid = p => Apart(l[i], e)
      /\ \A i \in k + 1 .. Len(l) : /\ e.start <= l[i].start
                                    /\ l[i].pid = p => Apart(e, l[i])
  BY <1>1, <1>3, PieceFits
<1>5. /\ c \in Rec /\ c.pid = p /\ c.type = f.type /\ c.start = f.start
      /\ c.end = s.ld.start - 1 /\ c.end <= f.end
  BY <1>1, <1>3, CutFits
<1> HIDE DEF l, at, k, e, c
<1>6. Normal(x)
  BY <1>0, <1>5, CutNormal DEF f, l, at
<1>7. /\ x \in Seq(Rec) /\ Len(x) = Len(l) /\ DOMAIN x = DOMAIN l /\ x[at] = c
      /\ \A j \in DOMAIN l : j # at => x[j] = l[j]
  BY <1>0, <1>5
<1>8. t.l = m
  <2>1. at \in DOMAIN l
    BY <1>0
  <2>2. l \in Seq(Rec) /\ k \in at .. Len(l) /\ e \in Rec /\ c \in Rec
    BY <1>0, <1>4, <1>5
  <2>3. [InsertAt(l, k + 1, e) EXCEPT ![at] = c] = InsertAt([l EXCEPT ![at] = c], k + 1, e)
    BY <2>1, <2>2, SplitIs
  <2> QED
    BY <1>1, <2>3
<1> HIDE DEF x
<1>9. /\ \A i \in 1 .. k : /\ x[i].start <= e.start
                           /\ x[i].pid = e.pid => Apart(x[i], e)
      /\ \A i \in k + 1 .. Len(x) : /\ e.start <= x[i].start
                                    /\ e.pid = x[i].pid => Apart(e, x[i])
  <2>1. ASSUME NEW i \in 1 .. k
        PROVE  x[i].start <= e.start /\ (x[i].pid = e.pid => Apart(x[i], e))
    <3>0. i \in DOMAIN l
      BY <1>0, <1>4
    <3>1. CASE i = at
      <4>1. c.end + 1 < e.start /\ c.start <= e.start
        BY <1>0, <1>1, <1>2, <1>4, <1>5
      <4> QED
        BY <3>1, <4>1, <1>7 DEF Apart
    <3>2. CASE i # at
      BY <3>0, <3>2, <1>4, <1>7
    <3> QED
      BY <3>1, <3>2
  <2>2. ASSUME NEW i \in k + 1 .. Len(x)
        PROVE  e.start <= x[i].start /\ (e.pid = x[i].pid => Apart(e, x[i]))
    <3>1. i \in k + 1 .. Len(l) /\ i \in DOMAIN l /\ i # at
      BY <1>0, <1>4, <1>7
    <3> QED
      BY <3>1, <1>4, <1>7
  <2> QED
    BY <2>1, <2>2
<1>10. k \in 0 .. Len(x) /\ h \in 1 .. Len(x) + 1 /\ at < h /\ h \in Int
  BY <1>0, <1>4, <1>7
<1>11. Normal(m)
  BY <1>4, <1>6, <1>7, <1>9, <1>10, InsertNormal
<1> HIDE DEF h
<1>12. h \in 1 .. Len(x) + 1
  BY <1>10
<1>13. Inserted(m, x, h, e)
  BY <1>4, <1>7, <1>12, InsertAtIs
<1>14. Range(m) = {e} \cup Range(x)
  BY <1>4, <1>7, <1>12, InsertRange
<1>15. Range(x) = {c} \cup Others(l, at)
  BY <1>0, ExceptRange DEF x, Others
<1> HIDE DEF m
<1>16. m \in Seq(Rec) /\ Len(m) = Len(l) + 1
       /\ \A j \in 1 .. Len(l) + 1 : j < h => m[j] = x[j]
  BY <1>13, <1>7 DEF Inserted, Put
<1>17. ASSUME NEW j \in DOMAIN l, j <= at
       PROVE  m[j] = x[j]
  BY <1>0, <1>10, <1>16, <1>17
<1>18. /\ \A j \in DOMAIN l : j < at => m[j] = l[j]
       /\ m[at] = c
  BY <1>0, <1>7, <1>17
<1> QED
  BY <1>8, <1>11, <1>14, <1>15, <1>16, <1>18 DEF l, at, e, c

LEMMA TrimsList ==
  ASSUME NEW s \in Scans, s.at \in DOMAIN s.l, NEW t, NEW p \in Proc, NEW free,
         Normal(s.l), s.l[s.at].pid = p, Trims(s, t, p, free)
  PROVE  /\ Normal(t.l) /\ t.l \in Seq(Rec) /\ Len(t.l) = Len(s.l)
         /\ Range(t.l) = {Piece(s, p)} \cup Others(s.l, s.at)
         /\ \A j \in DOMAIN s.l : j < s.at => t.l[j] = s.l[j]
<1> DEFINE l == s.l
           at == s.at
           k == PlaceAfter(s)
           e == Piece(s, p)
           f == l[at]
           x == RemoveAt(l, at)
           m == InsertAt(x, k, e)
<1>0. /\ s.ld.start \in Int /\ s.ld.end \in Int /\ s.ld.start <= s.ld.end
      /\ l \in Seq(Rec) /\ Len(l) \in Nat /\ DOMAIN l = 1 .. Len(l) /\ at \in 1 .. Len(l)
      /\ at \in DOMAIN l /\ Normal(l)
  BY ScanIs
<1>1. /\ f.start <= s.ld.end /\ s.ld.end < f.end
      /\ t.l = RemoveAt(InsertAt(l, k + 1, e), at)
  BY DEF Trims
<1>4. /\ k \in at .. Len(l) /\ e \in Rec /\ e.pid = p
      /\ \A i \in 1 .. k : /\ l[i].start <= e.start
                           /\ i # at /\ l[i].pid = p => Apart(l[i], e)
      /\ \A i \in k + 1 .. Len(l) : /\ e.start <= l[i].start
                                    /\ l[i].pid = p => Apart(e, l[i])
  BY <1>1, PieceFits
<1> HIDE DEF l, at, k, e
<1>6. Normal(x)
  BY <1>0, RemoveNormal
<1>7. /\ x \in Seq(Rec) /\ Len(x) = Len(l) - 1
      /\ \A j \in 1 .. Len(l) - 1 : x[j] = IF j < at THEN l[j] ELSE l[j + 1]
  BY <1>0, RemoveIs
<1>8. t.l = m
  BY <1>0, <1>1, <1>4, TrimIs
<1>15. Range(x) = Others(l, at)
  BY <1>0, RemoveRange DEF Others
<1> HIDE DEF x
<1> DEFINE g == k - 1
<1>9. /\ \A i \in 1 .. g : /\ x[i].start <= e.start
                           /\ x[i].pid = e.pid => Apart(x[i], e)
      /\ \A i \in g + 1 .. Len(x) : /\ e.start <= x[i].start
                                    /\ e.pid = x[i].pid => Apart(e, x[i])
  <2>1. ASSUME NEW i \in 1 .. g
        PROVE  x[i].start <= e.start /\ (x[i].pid = e.pid => Apart(x[i], e))
    <3>1. i \in 1 .. Len(l) - 1 /\ i \in 1 .. k /\ i + 1 \in 1 .. k /\ i + 1 # i
      BY <1>0, <1>4
    <3>2. CASE i < at
      BY <3>1, <3>2, <1>0, <1>4, <1>7
    <3>3. CASE ~(i < at)
      <4>1. x[i] = l[i + 1] /\ i + 1 # at
        BY <3>1, <3>3, <1>0, <1>7
      <4> QED
        BY <3>1, <4>1, <1>4
    <3> QED
      BY <3>2, <3>3
  <2>2. ASSUME NEW i \in g + 1 .. Len(x)
        PROVE  e.start <= x[i].start /\ (e.pid = x[i].pid => Apart(e, x[i]))
    <3>1. i \in 1 .. Len(l) - 1 /\ ~(i < at) /\ i + 1 \in k + 1 .. Len(l)
      BY <1>0, <1>4, <1>7
    <3>2. x[i] = l[i + 1]
      BY <3>1, <1>7
    <3> QED
      BY <3>1, <3>2, <1>4
  <2> QED
    BY <2>1, <2>2
<1>10. g \in 0 .. Len(x) /\ k \in 1 .. Len(x) + 1 /\ at <= k /\ k \in Int /\ k = g + 1
  BY <1>0, <1>4, <1>7
<1>11. Normal(m)
  <2> HIDE DEF g
  <2>1. Normal(InsertAt(x, g + 1, e))
    BY <1>4, <1>6, <1>7, <1>9, <1>10, InsertNormal
  <2> QED
    BY <2>1, <1>10
<1>12. k \in 1 .. Len(x) + 1
  BY <1>10
<1>13. Inserted(m, x, k, e)
  BY <1>4, <1>7, <1>12, InsertAtIs
<1>14. Range(m) = {e} \cup Range(x)
  BY <1>4, <1>7, <1>12, InsertRange
<1> HIDE DEF m
<1>16. m \in Seq(Rec) /\ Len(m) = Len(x) + 1
       /\ \A j \in 1 .. Len(x) + 1 : j < k => m[j] = x[j]
  BY <1>13 DEF Inserted, Put
<1>17. ASSUME NEW j \in DOMAIN l, j < at
       PROVE  m[j] = l[j]
  <2>1. j \in 1 .. Len(l) - 1 /\ j \in 1 .. Len(x) + 1 /\ j < k
    BY <1>0, <1>7, <1>10, <1>17
  <2>2. m[j] = x[j]
    BY <2>1, <1>16
  <2> QED
    BY <2>1, <2>2, <1>7, <1>17
<1>18. Len(m) = Len(l)
  BY <1>0, <1>7, <1>16
<1> QED
  BY <1>8, <1>11, <1>14, <1>15, <1>16, <1>17, <1>18 DEF l, at, e

LEMMA OthersIs ==
  ASSUME NEW l \in Seq(Rec), NEW i \in DOMAIN l, NEW f \in Range(l)
  PROVE  f = l[i] \/ f \in Others(l, i)
BY DEF Others, Range

(* The list stays in order, grows only where there is a record for it, and *)
(* who loses a record that was slept for is called.                        *)
LEMMA ShapedKeeps ==
  ASSUME NEW s \in Scans, s.at \in DOMAIN s.l, NEW t, NEW p \in Proc, NEW free,
         Normal(s.l), s.l[s.at].pid = p, Shaped(s, t, p, free)
  PROVE  /\ Normal(t.l)
         /\ Len(t.l) <= Len(s.l) \/ (free # 0 /\ Len(t.l) = Len(s.l) + 1)
         /\ s.woken \subseteq t.woken
         /\ \A f \in Range(s.l) : f \in Range(t.l) \/ WAKEUP(f) \subseteq t.woken
<1> DEFINE l == s.l
           at == s.at
           f == l[at]
           c == Cut(f, s.ld.start - 1)
           Goal == /\ Normal(t.l)
                   /\ Len(t.l) <= Len(l) \/ (free # 0 /\ Len(t.l) = Len(l) + 1)
                   /\ s.woken \subseteq t.woken
                   /\ \A g \in Range(l) : g \in Range(t.l) \/ WAKEUP(g) \subseteq t.woken
<1> SUFFICES Goal
  OBVIOUS
<1>0. /\ l \in Seq(Rec) /\ Len(l) \in Nat /\ at \in DOMAIN l /\ Normal(l)
      /\ \A g \in Range(l) : g = f \/ g \in Others(l, at)
  <2>1. l \in Seq(Rec) /\ Len(l) \in Nat /\ at \in DOMAIN l /\ Normal(l)
    BY ScanIs
  <2> QED
    BY <2>1, OthersIs
<1>1. CASE t.l = l /\ t.woken = s.woken
  BY <1>0, <1>1
<1>2. CASE Deletes(s, t)
  <2>1. t.l = RemoveAt(l, at) /\ t.woken = s.woken \cup WAKEUP(f)
    BY <1>2 DEF Deletes
  <2>2. Normal(t.l) /\ Len(t.l) = Len(l) - 1 /\ Range(t.l) = Others(l, at)
    BY <1>0, <2>1, RemoveNormal, RemoveIs, RemoveRange DEF Others
  <2> QED
    BY <1>0, <2>1, <2>2
<1>3. CASE Shortens(s, t)
  <2>1. /\ f.start < s.ld.start /\ s.ld.start <= f.end
        /\ t.l = [l EXCEPT ![at] = c] /\ t.woken = s.woken \cup WAKEUP(f)
    BY <1>3 DEF Shortens
  <2>2. /\ c \in Rec /\ c.pid = f.pid /\ c.type = f.type /\ c.start = f.start
        /\ c.end <= f.end
    BY <2>1, CutFits
  <2> HIDE DEF c
  <2>3. Normal(t.l)
    BY <1>0, <2>1, <2>2, CutNormal
  <2>4. Len(t.l) = Len(l) /\ Others(l, at) \subseteq Range(t.l)
    BY <1>0, <2>1, ExceptRange DEF Others
  <2> QED
    BY <1>0, <2>1, <2>3, <2>4
<1>4. CASE Splits(s, t, p, free)
  <2>1. t.woken = s.woken \cup WAKEUP(f) /\ free # 0
    BY <1>4 DEF Splits
  <2>2. /\ Normal(t.l) /\ Len(t.l) = Len(l) + 1
        /\ Others(l, at) \subseteq Range(t.l)
    BY <1>4, SplitsList
  <2> QED
    BY <1>0, <2>1, <2>2
<1>5. CASE Trims(s, t, p, free)
  <2>1. t.woken = s.woken \cup WAKEUP(f)
    BY <1>5 DEF Trims
  <2>2. /\ Normal(t.l) /\ Len(t.l) = Len(l)
        /\ Others(l, at) \subseteq Range(t.l)
    BY <1>5, TrimsList
  <2> QED
    BY <1>0, <2>1, <2>2
<1>6. Stops(s, t) \/ Covers(s, t) \/ Fills(s, t, free) \/ Skips(s, t)
        => t.l = l /\ t.woken = s.woken
  BY DEF Stops, Covers, Fills, Skips, Leaves
<1> QED
  <2> HIDE DEF Goal
  <2> QED
    BY <1>1, <1>2, <1>3, <1>4, <1>5, <1>6 DEF Shaped

(* Where the (un)lock is to be put in: after the records up to insrtp.     *)
Room(l, i, start) ==
  /\ i = 0 => \A j \in DOMAIN l : start <= l[j].start
  /\ \A j \in DOMAIN l : j <= i => l[j].start <= start

LEMMA FollowsRoom ==
  ASSUME NEW s \in Scans, s.at \in DOMAIN s.l, NEW t, Follows(s, t), Normal(s.l),
         Room(s.l, s.insrtp, s.ld.start)
  PROVE  /\ t.insrtp \in Nat /\ t.insrtp < s.at
         /\ \A j \in DOMAIN s.l : j <= t.insrtp => s.l[j].start <= t.ld.start
         /\ t.insrtp = 0 =>
              \A j \in DOMAIN s.l : j # s.at => t.ld.start <= s.l[j].start
<1> DEFINE l == s.l
           at == s.at
           f == l[at]
<1>0. /\ l \in Seq(Rec) /\ Len(l) \in Nat /\ DOMAIN l = 1 .. Len(l)
      /\ at \in DOMAIN l /\ at \in Nat /\ 1 <= at
      /\ s.insrtp \in Nat /\ s.insrtp <= Len(l) /\ s.ld.start \in Int
      /\ \A j \in DOMAIN l : l[j].start \in Int /\ j \in Nat /\ 1 <= j
      /\ \A i, j \in DOMAIN l : i < j => l[i].start <= l[j].start
  <2>1. l \in Seq(Rec) /\ Len(l) \in Nat /\ DOMAIN l = 1 .. Len(l) /\ at \in 1 .. Len(l)
        /\ s.insrtp \in Nat /\ s.insrtp <= Len(l) /\ s.ld.start \in Int
    BY ScanIs
  <2>2. \A i, j \in DOMAIN l : i < j => l[i].start <= l[j].start
    BY DEF Normal
  <2> QED
    BY <2>1, <2>2, ListIs
<1>1. CASE t.insrtp = at - 1 /\ t.ld.start = f.start
  <2>1. t.insrtp \in Nat /\ t.insrtp < at
    BY <1>0, <1>1
  <2>2. ASSUME NEW j \in DOMAIN l, j <= t.insrtp
        PROVE  l[j].start <= t.ld.start
    BY <1>0, <1>1, <2>1, <2>2
  <2>3. ASSUME t.insrtp = 0, NEW j \in DOMAIN l, j # at
        PROVE  t.ld.start <= l[j].start
    BY <1>0, <1>1, <2>3
  <2> QED
    BY <2>1, <2>2, <2>3
<1>2. CASE /\ t.insrtp = Closed(s.insrtp, at)
           /\ t.ld.start = s.ld.start /\ s.ld.start < f.start
  <2>1. s.insrtp < at
    <3> SUFFICES ASSUME at <= s.insrtp
                 PROVE  FALSE
      BY <1>0
    <3>1. f.start <= s.ld.start
      BY <1>0 DEF Room
    <3> QED
      BY <1>0, <1>2, <3>1
  <2>2. t.insrtp = s.insrtp
    BY <1>0, <1>2, <2>1 DEF Closed
  <2> QED
    BY <1>0, <1>2, <2>1, <2>2 DEF Room
<1> QED
  BY <1>1, <1>2 DEF Follows

LEMMA ShapedRoom ==
  ASSUME NEW s \in Scans, s.at \in DOMAIN s.l, NEW t, NEW p \in Proc, NEW free,
         Normal(s.l), s.l[s.at].pid = p, Shaped(s, t, p, free),
         Room(s.l, s.insrtp, s.ld.start)
  PROVE  Room(t.l, t.insrtp, t.ld.start)
<1> DEFINE l == s.l
           at == s.at
           f == l[at]
           ld == s.ld
           c == Cut(f, ld.start - 1)
           Goal == Room(t.l, t.insrtp, t.ld.start)
<1> SUFFICES Goal
  OBVIOUS
<1>0. /\ l \in Seq(Rec) /\ Len(l) \in Nat /\ DOMAIN l = 1 .. Len(l)
      /\ at \in DOMAIN l /\ at \in Nat /\ 1 <= at /\ at <= Len(l)
      /\ ld.start \in Int /\ ld.end \in Int /\ ld.start <= ld.end /\ f.start \in Int
      /\ f.end \in Int /\ f.start <= f.end
      /\ \A j \in DOMAIN l : l[j].start \in Int /\ j \in Nat /\ 1 <= j
      /\ \A i, j \in DOMAIN l : i < j => l[i].start <= l[j].start
  <2>1. l \in Seq(Rec) /\ Len(l) \in Nat /\ DOMAIN l = 1 .. Len(l) /\ at \in 1 .. Len(l)
        /\ ld.start \in Int /\ ld.end \in Int /\ ld.start <= ld.end
    BY ScanIs
  <2>2. \A i, j \in DOMAIN l : i < j => l[i].start <= l[j].start
    BY DEF Normal
  <2> QED
    BY <2>1, <2>2, ListIs
<1>1. CASE t.l = l /\ t.ld = ld /\ t.insrtp = s.insrtp
  BY <1>1
<1>2. ASSUME t.insrtp = at, t.ld = ld, f.start <= ld.start, at \in DOMAIN t.l,
             DOMAIN t.l \subseteq Nat \ {0},
             \A j \in DOMAIN t.l : j <= at => t.l[j].start = l[j].start
      PROVE  Goal
  <2>1. ASSUME NEW j \in DOMAIN t.l, j <= at
        PROVE  t.l[j].start <= ld.start
    <3>1. j \in DOMAIN l
      BY <1>0, <1>2, <2>1
    <3>2. l[j].start <= f.start
      BY <1>0, <2>1, <3>1
    <3> QED
      BY <3>1, <3>2, <1>0, <1>2, <2>1
  <2> QED
    BY <1>0, <1>2, <2>1 DEF Room
<1>3. CASE Skips(s, t)
  <2>1. t.l = l /\ t.ld = ld /\ t.insrtp \in {s.insrtp, at} /\ Apart(f, ld)
    BY <1>3 DEF Skips, Leaves
  <2>2. f.start <= ld.start
    BY <1>0, <2>1 DEF Apart
  <2> HIDE DEF Goal
  <2> QED
    BY <1>0, <1>1, <1>2, <2>1, <2>2
<1>4. CASE Shortens(s, t)
  <2>1. /\ f.start < ld.start /\ ld.start <= f.end /\ t.ld = ld /\ t.insrtp = at
        /\ t.l = [l EXCEPT ![at] = c]
    BY <1>4 DEF Shortens
  <2>2. c.start = f.start
    BY <2>1, CutFits
  <2>3. DOMAIN t.l = DOMAIN l /\ \A j \in DOMAIN l : t.l[j].start = l[j].start
    BY <2>1, <2>2
  <2> HIDE DEF Goal
  <2> QED
    BY <1>0, <1>2, <2>1, <2>3
<1>5. CASE Splits(s, t, p, free)
  <2>1. f.start < ld.start /\ ld.end < f.end /\ t.ld = ld /\ t.insrtp = at
    BY <1>5 DEF Splits
  <2>2. c.start = f.start
    BY <1>0, <2>1, CutFits
  <2>3. /\ t.l \in Seq(Rec) /\ Len(t.l) = Len(l) + 1 /\ t.l[at] = c
        /\ \A j \in DOMAIN l : j < at => t.l[j] = l[j]
    BY <1>5, SplitsList
  <2>4. DOMAIN t.l = 1 .. Len(l) + 1
    BY <2>3, ListIs
  <2>5. ASSUME NEW j \in DOMAIN t.l, j <= at
        PROVE  t.l[j].start = l[j].start
    <3>1. j \in DOMAIN l /\ (j = at \/ j < at)
      BY <1>0, <2>4, <2>5
    <3> QED
      BY <2>2, <2>3, <3>1
  <2>6. at \in DOMAIN t.l /\ DOMAIN t.l \subseteq Nat \ {0}
    BY <1>0, <2>4
  <2> HIDE DEF Goal
  <2> QED
    BY <1>0, <1>2, <2>1, <2>5, <2>6
<1>6. ASSUME Follows(s, t), DOMAIN t.l \subseteq Nat,
             \A j \in DOMAIN t.l : j < at => j \in DOMAIN l /\ t.l[j] = l[j],
             t.insrtp = 0 => \A g \in Range(t.l) : g \in Others(l, at) \/ t.ld.start <= g.start
      PROVE  Goal
  <2>1. /\ t.insrtp \in Nat /\ t.insrtp < at
        /\ \A j \in DOMAIN l : j <= t.insrtp => l[j].start <= t.ld.start
        /\ t.insrtp = 0 => \A j \in DOMAIN l : j # at => t.ld.start <= l[j].start
    BY <1>6, FollowsRoom
  <2>2. ASSUME NEW j \in DOMAIN t.l, j <= t.insrtp
        PROVE  t.l[j].start <= t.ld.start
    <3>1. j < at /\ j \in Nat
      BY <1>0, <1>6, <2>1, <2>2
    <3> QED
      BY <1>6, <2>1, <2>2, <3>1
  <2>3. ASSUME t.insrtp = 0, NEW j \in DOMAIN t.l
        PROVE  t.ld.start <= t.l[j].start
    <3>1. t.l[j] \in Others(l, at) \/ t.ld.start <= t.l[j].start
      BY <1>6, <2>3 DEF Range
    <3>2. \A g \in Others(l, at) : t.ld.start <= g.start
      BY <2>1, <2>3 DEF Others
    <3> QED
      BY <3>1, <3>2
  <2> QED
    BY <2>2, <2>3 DEF Room
<1>7. CASE Deletes(s, t)
  <2>1. t.l = RemoveAt(l, at) /\ Follows(s, t)
    BY <1>7 DEF Deletes
  <2>2. /\ t.l \in Seq(Rec) /\ Len(t.l) = Len(l) - 1
        /\ \A j \in 1 .. Len(l) - 1 : t.l[j] = IF j < at THEN l[j] ELSE l[j + 1]
    BY <1>0, <2>1, RemoveIs
  <2>3. Range(t.l) = Others(l, at)
    BY <1>0, <2>1, RemoveRange DEF Others
  <2>4. DOMAIN t.l = 1 .. Len(l) - 1
    BY <2>2, ListIs
  <2>5. \A j \in DOMAIN t.l : j < at => j \in DOMAIN l /\ t.l[j] = l[j]
    BY <1>0, <2>2, <2>4
  <2>6. DOMAIN t.l \subseteq Nat
    BY <2>4
  <2> HIDE DEF Goal
  <2> QED
    BY <1>6, <2>1, <2>3, <2>5, <2>6
<1>8. CASE Trims(s, t, p, free)
  <2>1. t.ld = ld /\ Follows(s, t) /\ f.start <= ld.end /\ ld.end < f.end
    BY <1>8 DEF Trims
  <2>2. /\ t.l \in Seq(Rec) /\ Len(t.l) = Len(l)
        /\ Range(t.l) = {Piece(s, p)} \cup Others(l, at)
        /\ \A j \in DOMAIN l : j < at => t.l[j] = l[j]
    BY <1>8, TrimsList
  <2>3. Piece(s, p).start = ld.end + 1
    BY <2>1, PieceAfterIs
  <2>4. ld.start <= Piece(s, p).start
    BY <1>0, <2>3
  <2>5. DOMAIN t.l = DOMAIN l /\ DOMAIN l \subseteq Nat
    BY <1>0, <2>2, ListIs
  <2> HIDE DEF Goal
  <2> QED
    BY <1>6, <2>1, <2>2, <2>4, <2>5
<1>9. Stops(s, t) \/ Covers(s, t) \/ Fills(s, t, free)
        => t.l = l /\ t.ld = ld /\ t.insrtp = s.insrtp
  BY DEF Stops, Covers, Fills, Leaves
<1> QED
  <2> HIDE DEF Goal
  <2> QED
    BY <1>1, <1>3, <1>4, <1>5, <1>7, <1>8, <1>9 DEF Shaped

(* The records of p that the scan has passed, and all of them when it ends. *)
Passed(s, p) ==
  \A i \in DOMAIN s.l : i < s.at /\ s.l[i].pid = p => Apart(s.l[i], s.ld)
Cleared(s, p) ==
  \A g \in Range(s.l) : g.pid = p => Apart(g, s.ld) \/ Apart(s.ld, g)

LEMMA ShapedPasses ==
  ASSUME NEW s \in Scans, s.at \in DOMAIN s.l, NEW t \in Scans, NEW p \in Proc, NEW free,
         Normal(s.l), s.l[s.at].pid = p, Shaped(s, t, p, free), Passed(s, p),
         s.code = "go"
  PROVE  t.code = "go" => IF t.at = 0 THEN Cleared(t, p) ELSE Passed(t, p)
<1> DEFINE l == s.l
           at == s.at
           f == l[at]
           ld == s.ld
           c == Cut(f, ld.start - 1)
           Goal == t.code = "go" => IF t.at = 0 THEN Cleared(t, p) ELSE Passed(t, p)
<1> SUFFICES Goal
  OBVIOUS
<1>0. /\ l \in Seq(Rec) /\ Len(l) \in Nat /\ DOMAIN l = 1 .. Len(l)
      /\ at \in DOMAIN l /\ at \in Nat /\ 1 <= at /\ at + 1 # 0 /\ at # 0
      /\ ld.start \in Int /\ ld.end \in Int /\ ld.start <= ld.end /\ f.start \in Int
      /\ f.end \in Int /\ f.start <= f.end
      /\ \A j \in DOMAIN l : /\ l[j].start \in Int /\ l[j].end \in Int
                             /\ l[j].start <= l[j].end /\ j \in Nat /\ 1 <= j
  <2>1. l \in Seq(Rec) /\ Len(l) \in Nat /\ DOMAIN l = 1 .. Len(l) /\ at \in 1 .. Len(l)
        /\ ld.start \in Int /\ ld.end \in Int /\ ld.start <= ld.end
    BY ScanIs
  <2> QED
    BY <2>1, ListIs
(* The records of p on the two sides of f. *)
<1>1. ASSUME NEW j \in DOMAIN l, j < at, l[j].pid = p
      PROVE  Apart(l[j], ld) /\ Apart(l[j], f)
  <2>1. Apart(l[j], ld)
    BY <1>1 DEF Passed
  <2>2. l[j].pid = f.pid => Apart(l[j], f)
    BY <1>0, <1>1 DEF Normal
  <2> QED
    BY <1>1, <2>1, <2>2
<1>2. ASSUME NEW j \in DOMAIN l, at < j, l[j].pid = p
      PROVE  Apart(f, l[j])
  <2>1. f.pid = l[j].pid => Apart(f, l[j])
    BY <1>0, <1>2 DEF Normal
  <2> QED
    BY <1>2, <2>1
<1>3. \A j \in DOMAIN l : j < at \/ j = at \/ at < j
  BY <1>0
(* The (un)lock ends with f, or before it. *)
<1>4. ASSUME ld.end < f.end \/ ld.end + 1 < f.start \/ ld.end + 1 = f.start,
             NEW j \in DOMAIN l, at < j, l[j].pid = p
      PROVE  Apart(ld, l[j])
  <2>1. f.end + 1 <= l[j].start /\ l[j].start \in Int
    <3>1. Apart(f, l[j])
      BY <1>2, <1>4
    <3>2. l[j].start \in Int
      BY <1>0
    <3>3. f.end \in Int
      BY <1>0
    <3> QED
      BY <3>1, <3>2, <3>3 DEF Apart
  <2>2. ld.end + 1 < l[j].start
    <3>1. ld.end \in Int /\ f.end \in Int /\ f.start \in Int /\ f.start <= f.end
      BY <1>0
    <3>2. ld.end + 1 <= f.end
      BY <3>1, <1>4
    <3> HIDE DEF f, l, ld
    <3> QED
      BY <2>1, <3>1, <3>2
  <2> QED
    BY <2>2 DEF Apart
<1>5. CASE Stops(s, t)
  <2>1. t.l = l /\ t.ld = ld /\ t.at = 0 /\ Apart(ld, f)
    BY <1>5 DEF Stops, Leaves
  <2>2. ld.end + 1 < f.start \/ ld.end + 1 = f.start
    BY <2>1 DEF Apart
  <2>3. ASSUME NEW j \in DOMAIN l, l[j].pid = p
        PROVE  Apart(l[j], ld) \/ Apart(ld, l[j])
    <3>1. CASE j < at
      BY <1>1, <2>3, <3>1
    <3>2. CASE j = at
      BY <2>1, <3>2
    <3>3. CASE at < j
      BY <1>4, <2>2, <2>3, <3>3
    <3> QED
      BY <1>3, <3>1, <3>2, <3>3
  <2> QED
    BY <2>1, <2>3 DEF Cleared, Range
<1>6. CASE Skips(s, t)
  <2>1. t.l = l /\ t.ld = ld /\ t.at = at + 1 /\ Apart(f, ld)
    BY <1>6 DEF Skips, Leaves
  <2>2. ASSUME NEW j \in DOMAIN l, j < at + 1, l[j].pid = p
        PROVE  Apart(l[j], ld)
    <3>1. j = at \/ j < at
      BY <1>0, <2>2
    <3> QED
      BY <1>1, <2>1, <2>2, <3>1
  <2> QED
    BY <1>0, <2>1, <2>2 DEF Passed
<1>7. CASE Shortens(s, t)
  <2>1. /\ f.start < ld.start /\ ld.start <= f.end /\ t.ld = ld /\ t.at = at + 1
        /\ t.l = [l EXCEPT ![at] = c] /\ f.type # ld.type
    BY <1>7 DEF Shortens
  <2>2. c.end = ld.start - 1 /\ c.type = f.type
    BY <2>1, CutFits
  <2>3. Apart(c, ld)
    BY <1>0, <2>1, <2>2 DEF Apart
  <2>4. DOMAIN t.l = DOMAIN l /\ t.l[at] = c /\ \A j \in DOMAIN l : j # at => t.l[j] = l[j]
    BY <1>0, <2>1
  <2>5. ASSUME NEW j \in DOMAIN t.l, j < at + 1, t.l[j].pid = p
        PROVE  Apart(t.l[j], ld)
    <3>1. j \in DOMAIN l /\ (j = at \/ j < at)
      BY <1>0, <2>4, <2>5
    <3>2. CASE j = at
      BY <2>3, <2>4, <3>2
    <3>3. CASE j < at /\ j # at
      BY <1>1, <2>4, <2>5, <3>1, <3>3
    <3> QED
      BY <1>0, <3>1, <3>2, <3>3
  <2> QED
    BY <1>0, <2>1, <2>5 DEF Passed
<1>8. CASE Deletes(s, t)
  <2>1. /\ t.l = RemoveAt(l, at) /\ t.ld.type = ld.type
        /\ t.ld.start <= ld.start /\ ld.end <= t.ld.end
        /\ t.ld.start < ld.start => f.type = ld.type /\ t.ld.start = f.start
        /\ ld.end < t.ld.end => f.type = ld.type /\ t.ld.end = f.end /\ t.at = 0
        /\ t.at \in {0, at}
        /\ t.at = 0 => f.type = ld.type /\ t.ld.end = f.end
    BY <1>8 DEF Deletes
  <2>2. t.ld.start \in Int /\ t.ld.end \in Int
    BY ScanIs
  <2>3. ASSUME NEW j \in DOMAIN l, j < at, l[j].pid = p
        PROVE  Apart(l[j], t.ld)
    <3>0. Apart(l[j], ld) /\ Apart(l[j], f)
      BY <1>1, <2>3
    <3>1. CASE t.ld.start = ld.start
      BY <2>1, <3>0, <3>1 DEF Apart
    <3>2. CASE t.ld.start < ld.start
      BY <2>1, <3>0, <3>2 DEF Apart
    <3> QED
      BY <1>0, <2>1, <2>2, <3>1, <3>2
  <2>4. CASE t.at = 0
    <3>1. ASSUME NEW j \in DOMAIN l, j # at, l[j].pid = p
          PROVE  Apart(l[j], t.ld) \/ Apart(t.ld, l[j])
      <4>1. CASE j < at
        BY <2>3, <3>1, <4>1
      <4>2. CASE at < j
        <5>1. Apart(f, l[j])
          BY <1>2, <3>1, <4>2
        <5> QED
          BY <2>1, <2>4, <5>1 DEF Apart
      <4> QED
        BY <1>3, <3>1, <4>1, <4>2
    <3>2. Range(t.l) = {l[j] : j \in DOMAIN l \ {at}}
      BY <1>0, <2>1, RemoveRange
    <3>3. Cleared(t, p)
      BY <3>1, <3>2 DEF Cleared
    <3> QED
      BY <2>4, <3>3
  <2>5. CASE t.at = at
    <3>0. t.l = RemoveAt(l, at) /\ l \in Seq(Rec) /\ at \in DOMAIN l
      BY <1>0, <2>1
    <3>1. /\ Len(t.l) = Len(l) - 1 /\ t.l \in Seq(Rec)
          /\ \A j \in 1 .. Len(l) - 1 : t.l[j] = IF j < at THEN l[j] ELSE l[j + 1]
      BY <3>0, RemoveIs
    <3>2. DOMAIN t.l = 1 .. Len(l) - 1
      BY <3>1, ListIs
    <3>3. ASSUME NEW j \in DOMAIN t.l, j < at, t.l[j].pid = p
          PROVE  Apart(t.l[j], t.ld)
      <4>0. j \in 1 .. Len(l) - 1 /\ DOMAIN l = 1 .. Len(l) /\ Len(l) \in Nat
        BY <1>0, <3>2
      <4>1. j \in DOMAIN l /\ t.l[j] = l[j]
        BY <3>1, <3>3, <4>0
      <4> QED
        BY <2>3, <3>3, <4>1
    <3>4. Passed(t, p)
      BY <2>5, <3>3 DEF Passed
    <3> QED
      BY <1>0, <2>5, <3>4
  <2> QED
    BY <2>1, <2>4, <2>5
(* A piece is left after the (un)lock. *)
<1>9. ASSUME f.start <= ld.end, ld.end < f.end, f.type # ld.type, t.ld = ld, t.at = 0,
             NEW g, Range(t.l) \subseteq {g, Piece(s, p)} \cup Others(l, at), Apart(g, ld)
      PROVE  Goal
  <2>1. Piece(s, p).start = ld.end + 1 /\ Piece(s, p).type = f.type
    BY <1>9, PieceAfterIs
  <2>2. Apart(ld, Piece(s, p))
    BY <2>1, <1>9 DEF Apart
  <2>3. ASSUME NEW j \in DOMAIN l \ {at}, l[j].pid = p
        PROVE  Apart(l[j], ld) \/ Apart(ld, l[j])
    <3>1. CASE j < at
      BY <1>1, <2>3, <3>1
    <3>2. CASE at < j
      BY <1>4, <1>9, <2>3, <3>2
    <3> QED
      BY <1>3, <2>3, <3>1, <3>2
  <2>4. \A h \in Others(l, at) : h.pid = p => Apart(h, ld) \/ Apart(ld, h)
    BY <2>3 DEF Others
  <2> QED
    BY <1>9, <2>2, <2>4 DEF Cleared
<1>10. CASE Splits(s, t, p, free)
  <2>1. /\ f.start < ld.start /\ ld.end < f.end /\ f.type # ld.type /\ t.ld = ld /\ t.at = 0
    BY <1>10 DEF Splits
  <2>2. f.start <= ld.end /\ ld.start <= f.end
    BY <1>0, <2>1
  <2>3. c.end = ld.start - 1 /\ c.type = f.type
    BY <2>1, <2>2, CutFits
  <2>4. Apart(c, ld)
    BY <1>0, <2>1, <2>3 DEF Apart
  <2>5. Range(t.l) = {Piece(s, p), c} \cup Others(l, at)
    BY <1>10, SplitsList
  <2> HIDE DEF Goal, c
  <2> QED
    BY <1>9, <2>1, <2>2, <2>4, <2>5
<1>11. CASE Trims(s, t, p, free)
  <2>1. /\ f.start <= ld.end /\ ld.end < f.end /\ f.type # ld.type /\ t.ld = ld /\ t.at = 0
    BY <1>11 DEF Trims
  <2>2. Range(t.l) = {Piece(s, p)} \cup Others(l, at)
    BY <1>11, TrimsList
  <2> DEFINE g == [end |-> ld.start - 2, type |-> "F_RDLCK", start |-> 0]
  <2>3. Apart(g, ld)
    BY <1>0 DEF Apart
  <2> HIDE DEF Goal, g
  <2> QED
    BY <1>9, <2>1, <2>2, <2>3
<1>12. Covers(s, t) \/ Fills(s, t, free) => t.code # "go"
  BY DEF Covers, Fills
<1> QED
  <2> HIDE DEF Goal
  <2>1. Covers(s, t) \/ Fills(s, t, free) => Goal
    BY <1>12 DEF Goal
  <2> QED
    BY <1>5, <1>6, <1>7, <1>8, <1>10, <1>11, <2>1 DEF Shaped

(* The turns: the scan goes on, or ends and changes nothing more. *)
LEMMA ShapedTurns ==
  ASSUME NEW s \in Scans, s.at \in DOMAIN s.l, NEW t, NEW p \in Proc, NEW free,
         Normal(s.l), s.l[s.at].pid = p, Shaped(s, t, p, free), s.code = "go"
  PROVE  /\ t.ld.type = s.ld.type
         /\ t.code = "go" \/ t.at = 0
         /\ t.at = 0 \/ Len(t.l) - t.at = Len(s.l) - s.at - 1
<1>0. Len(s.l) \in Nat /\ s.at \in Nat /\ s.l \in Seq(Rec) /\ s.at # 0
  BY ScanIs
<1>1. CASE Skips(s, t)
  BY <1>0, <1>1 DEF Skips, Leaves
<1>2. CASE Deletes(s, t)
  <2>1. Len(RemoveAt(s.l, s.at)) = Len(s.l) - 1
    BY <1>0, RemoveIs
  <2> QED
    BY <1>0, <1>2, <2>1 DEF Deletes
<1>3. CASE Shortens(s, t)
  <2>1. Len(t.l) = Len(s.l)
    BY <1>0, <1>3 DEF Shortens
  <2> QED
    BY <1>0, <1>3, <2>1 DEF Shortens
<1> QED
  BY <1>1, <1>2, <1>3 DEF Shaped, Stops, Covers, Fills, Leaves, Splits, Trims

(* The processes asleep are each with one record, and those that have been *)
(* woken with none.                                                        *)
Asleep == {q \in Proc : pc[q] = "asleep"}

Quiet(l, woken) ==
  /\ woken \subseteq Asleep
  /\ \A i \in DOMAIN l : /\ l[i].sleepers \subseteq Asleep
                         /\ l[i].sleepers \cap woken = {}
  /\ \A i, j \in DOMAIN l : i # j => l[i].sleepers \cap l[j].sleepers = {}

LEMMA WakeupIs ==
  ASSUME NEW f
  PROVE  WAKEUP(f) \subseteq f.sleepers \/ WAKEUP(f) = {}
BY DEF WAKEUP

LEMMA RemoveQuiet ==
  ASSUME NEW l \in Seq(Rec), NEW i \in DOMAIN l, NEW woken, Quiet(l, woken)
  PROVE  Quiet(RemoveAt(l, i), woken \cup WAKEUP(l[i]))
<1> DEFINE m == RemoveAt(l, i)
           w == WAKEUP(l[i])
           up(j) == IF j < i THEN j ELSE j + 1
<1>1. Len(l) \in Nat /\ DOMAIN l = 1 .. Len(l) /\ i \in 1 .. Len(l)
  BY ListIs
<1>2. m \in Seq(Rec) /\ Len(m) = Len(l) - 1
      /\ \A j \in 1 .. Len(l) - 1 : m[j] = l[up(j)]
  <2>1. m \in Seq(Rec) /\ Len(m) = Len(l) - 1
        /\ \A j \in 1 .. Len(l) - 1 : m[j] = IF j < i THEN l[j] ELSE l[j + 1]
    BY RemoveIs
  <2> HIDE DEF m
  <2> QED
    BY <2>1
<1> HIDE DEF m
<1>3. DOMAIN m = 1 .. Len(l) - 1
  BY <1>1, <1>2
<1>4. \A j \in DOMAIN m : m[j] = l[up(j)] /\ up(j) \in DOMAIN l /\ up(j) # i
  BY <1>1, <1>2, <1>3
<1>5. \A j, k \in DOMAIN m : j # k => up(j) # up(k)
  BY <1>1, <1>3
<1> HIDE DEF up
<1>6. w \subseteq l[i].sleepers
  BY WakeupIs
<1> HIDE DEF w
<1>7. w \subseteq Asleep /\ \A j \in DOMAIN l : j # i => l[j].sleepers \cap w = {}
  BY <1>6 DEF Quiet
<1>8. /\ woken \cup w \subseteq Asleep
      /\ \A j \in DOMAIN m : /\ m[j].sleepers \subseteq Asleep
                             /\ m[j].sleepers \cap (woken \cup w) = {}
  BY <1>4, <1>7 DEF Quiet
<1>9. \A j, k \in DOMAIN m : j # k => m[j].sleepers \cap m[k].sleepers = {}
  BY <1>4, <1>5 DEF Quiet
<1>10. Quiet(m, woken \cup w)
  BY <1>8, <1>9 DEF Quiet
<1> QED
  BY <1>10 DEF m, w

LEMMA CutQuiet ==
  ASSUME NEW l \in Seq(Rec), NEW i \in DOMAIN l, NEW woken, Quiet(l, woken), NEW c,
         c.sleepers = l[i].sleepers \ WAKEUP(l[i])
  PROVE  Quiet([l EXCEPT ![i] = c], woken \cup WAKEUP(l[i]))
<1> DEFINE m == [l EXCEPT ![i] = c]
           w == WAKEUP(l[i])
<1>1. DOMAIN m = DOMAIN l /\ m[i] = c /\ \A j \in DOMAIN l : j # i => m[j] = l[j]
  OBVIOUS
<1>2. w \subseteq l[i].sleepers /\ c.sleepers = l[i].sleepers \ w
  BY WakeupIs
<1> HIDE DEF m, w
<1>3. w \subseteq Asleep /\ \A j \in DOMAIN l : j # i => l[j].sleepers \cap w = {}
  BY <1>2 DEF Quiet
<1>4. \A j \in DOMAIN m : /\ m[j].sleepers \subseteq l[j].sleepers
                          /\ m[j].sleepers \cap w = {}
  BY <1>1, <1>2, <1>3
<1>5. /\ woken \cup w \subseteq Asleep
      /\ \A j \in DOMAIN m : /\ m[j].sleepers \subseteq Asleep
                             /\ m[j].sleepers \cap (woken \cup w) = {}
  BY <1>1, <1>3, <1>4 DEF Quiet
<1>6. \A j, k \in DOMAIN m : j # k => m[j].sleepers \cap m[k].sleepers = {}
  BY <1>1, <1>4 DEF Quiet
<1>7. Quiet(m, woken \cup w)
  BY <1>5, <1>6 DEF Quiet
<1> QED
  BY <1>7 DEF m, w

LEMMA InsertQuiet ==
  ASSUME NEW l \in Seq(Rec), NEW k \in 1 .. Len(l) + 1, NEW e \in Rec, NEW woken,
         Quiet(l, woken), e.sleepers = {}
  PROVE  Quiet(InsertAt(l, k, e), woken)
<1> DEFINE m == InsertAt(l, k, e)
           down(j) == IF j < k THEN j ELSE j - 1
<1>1. Len(l) \in Nat /\ DOMAIN l = 1 .. Len(l) /\ k \in Int
  BY ListIs
<1>2. Inserted(m, l, k, e)
  BY InsertAtIs
<1> HIDE DEF m
<1>3. m \in Seq(Rec) /\ Len(m) = Len(l) + 1
      /\ \A j \in 1 .. Len(l) + 1 :
           m[j] = IF j < k THEN l[j] ELSE IF j = k THEN e ELSE l[j - 1]
  BY <1>2 DEF Inserted, Put
<1>4. DOMAIN m = 1 .. Len(l) + 1
  BY <1>1, <1>3
<1>5. \A j \in DOMAIN m : \/ m[j].sleepers = {}
                          \/ j # k /\ down(j) \in DOMAIN l /\ m[j] = l[down(j)]
  BY <1>1, <1>3, <1>4
<1>6. \A i, j \in DOMAIN m : i # j /\ i # k /\ j # k => down(i) # down(j)
  BY <1>1, <1>4
<1> HIDE DEF down
<1>7. \A j \in DOMAIN m : /\ m[j].sleepers \subseteq Asleep
                          /\ m[j].sleepers \cap woken = {}
  BY <1>5 DEF Quiet
<1>8. \A i, j \in DOMAIN m : i # j => m[i].sleepers \cap m[j].sleepers = {}
  BY <1>5, <1>6 DEF Quiet
<1>9. Quiet(m, woken)
  BY <1>7, <1>8 DEF Quiet
<1> QED
  BY <1>9 DEF m

LEMMA ShapedSleeps ==
  ASSUME NEW s \in Scans, s.at \in DOMAIN s.l, NEW t, NEW p \in Proc, NEW free,
         s.l[s.at].pid = p, Shaped(s, t, p, free), Quiet(s.l, s.woken)
  PROVE  Quiet(t.l, t.woken)
<1> DEFINE l == s.l
           at == s.at
           f == l[at]
           c == Cut(f, s.ld.start - 1)
           k == PlaceAfter(s) + 1
           e == Piece(s, p)
           m == InsertAt(l, k, e)
           Goal == Quiet(t.l, t.woken)
<1> SUFFICES Goal
  OBVIOUS
<1>1. l \in Seq(Rec) /\ Len(l) \in Nat /\ DOMAIN l = 1 .. Len(l) /\ at \in DOMAIN l /\ f \in Rec
      /\ s.ld.start \in Int /\ s.ld.end \in Int /\ s.ld.start <= s.ld.end
      /\ f.start \in Int /\ f.end \in Int
  <2>1. l \in Seq(Rec) /\ Len(l) \in Nat /\ DOMAIN l = 1 .. Len(l) /\ at \in DOMAIN l
        /\ s.ld.start \in Int /\ s.ld.end \in Int /\ s.ld.start <= s.ld.end
    BY ScanIs
  <2> QED
    BY <2>1, ListIs
<1>2. c.sleepers = f.sleepers \ WAKEUP(f)
  BY <1>1 DEF Cut, Rec
<1>3. ASSUME f.start <= s.ld.end, s.ld.end < f.end
      PROVE  Quiet(m, s.woken) /\ m \in Seq(Rec) /\ at \in DOMAIN m /\ m[at] = f
  <2>1. /\ PlaceAfter(s) \in at .. Len(l) /\ e \in Rec
        /\ PieceAfter(s, p).l = m /\ PieceAfter(s, p).l[at] = f
    BY <1>3, PieceAfterIs
  <2>2. e.sleepers = {}
    BY DEF Piece, Record
  <2>3. k \in 1 .. Len(l) + 1
    BY <2>1, <1>1
  <2>4. m[at] = f
    BY <2>1
  <2> HIDE DEF k, e
  <2>5. Quiet(m, s.woken)
    BY <2>1, <2>2, <2>3, <1>1, InsertQuiet
  <2>6. Inserted(m, l, k, e)
    BY <2>1, <2>3, <1>1, InsertAtIs
  <2> HIDE DEF m
  <2>7. m \in Seq(Rec) /\ Len(m) = Len(l) + 1
    BY <2>6 DEF Inserted
  <2>8. at \in DOMAIN m
    BY <2>7, <1>1
  <2> QED
    BY <2>4, <2>5, <2>7, <2>8
<1>4. CASE t.l = l /\ t.woken = s.woken
  BY <1>4
<1>5. CASE Deletes(s, t)
  <2>1. t.l = RemoveAt(l, at) /\ t.woken = s.woken \cup WAKEUP(f)
    BY <1>5 DEF Deletes
  <2> QED
    BY <2>1, <1>1, RemoveQuiet
<1>6. CASE Shortens(s, t)
  <2>1. t.l = [l EXCEPT ![at] = c] /\ t.woken = s.woken \cup WAKEUP(f)
    BY <1>6 DEF Shortens
  <2> HIDE DEF c
  <2> QED
    BY <2>1, <1>1, <1>2, CutQuiet
<1>7. CASE Splits(s, t, p, free)
  <2>1. /\ f.start < s.ld.start /\ s.ld.end < f.end
        /\ t.l = [m EXCEPT ![at] = c] /\ t.woken = s.woken \cup WAKEUP(f)
    BY <1>7 DEF Splits
  <2>2. f.start <= s.ld.end
    BY <2>1, <1>1
  <2>3. Quiet(m, s.woken) /\ m \in Seq(Rec) /\ at \in DOMAIN m /\ m[at] = f
    BY <2>1, <2>2, <1>3
  <2> HIDE DEF m, c, f
  <2>4. Quiet([m EXCEPT ![at] = c], s.woken \cup WAKEUP(m[at]))
    BY <2>3, <1>2, CutQuiet
  <2> QED
    BY <2>1, <2>3, <2>4
<1>8. CASE Trims(s, t, p, free)
  <2>1. /\ f.start <= s.ld.end /\ s.ld.end < f.end
        /\ t.l = RemoveAt(m, at) /\ t.woken = s.woken \cup WAKEUP(f)
    BY <1>8 DEF Trims
  <2>2. Quiet(m, s.woken) /\ m \in Seq(Rec) /\ at \in DOMAIN m /\ m[at] = f
    BY <2>1, <1>3
  <2> HIDE DEF m, f
  <2>3. Quiet(RemoveAt(m, at), s.woken \cup WAKEUP(m[at]))
    BY <2>2, RemoveQuiet
  <2> QED
    BY <2>1, <2>2, <2>3
<1>9. Stops(s, t) \/ Covers(s, t) \/ Fills(s, t, free) \/ Skips(s, t)
        => t.l = l /\ t.woken = s.woken
  BY DEF Stops, Covers, Fills, Skips, Leaves
<1> QED
  <2> HIDE DEF Goal
  <2> QED
    BY <1>4, <1>5, <1>6, <1>7, <1>8, <1>9 DEF Shaped

-----------------------------------------------------------------------------
(* The scan. *)

Entries(b) == {q \in Proc : b[q] # NoProc}

LEMMA FreeIs ==
  ASSUME NEW b, IsFiniteSet(Entries(b)), NEW l, Len(l) \in Nat
  PROVE  /\ Cardinality(Entries(b)) \in Nat
         /\ Free(l, b) = recs - Len(l) - Cardinality(Entries(b))
         /\ Free(l, b) \in Int
<1>1. Cardinality(Entries(b)) \in Nat
  BY FS_CardinalityType
<1>2. Free(l, b) = recs - Len(l) - Cardinality(Entries(b))
  BY DEF Free, Entries
<1> QED
  BY <1>1, <1>2, ConstAssumption

(* A record of the list before is still there, or its sleepers are called. *)
Kept(l, woken) ==
  \A f \in Range(list) : f \in Range(l) \/ WAKEUP(f) \subseteq woken

(* After n turns. *)
ScanInv(n, s, p, type, b) ==
  /\ Normal(s.l) /\ Free(s.l, b) >= 0
  /\ Kept(s.l, s.woken) /\ Quiet(s.l, s.woken)
  /\ s.ld.type = type
  /\ s.code = "go" \/ s.at = 0
  /\ s.at = 0 \/ Len(s.l) - s.at + 1 + n <= Len(list)
  /\ s.code = "go" => IF s.at = 0 THEN Cleared(s, p) ELSE Passed(s, p)
  /\ type # "F_UNLCK" => Room(s.l, s.insrtp, s.ld.start)

LEMMA PassedAll ==
  ASSUME NEW s \in Scans, NEW p, Passed(s, p), s.at > Len(s.l)
  PROVE  Cleared(s, p)
<1>1. \A i \in DOMAIN s.l : i < s.at
  BY ScanIs
<1> QED
  BY <1>1 DEF Passed, Cleared, Range

LEMMA VisitKeeps ==
  ASSUME list \in Seq(Rec), NEW s \in Scans, NEW p \in Proc, NEW type, NEW b,
         NEW n \in Nat, IsFiniteSet(Entries(b)), ScanInv(n, s, p, type, b)
  PROVE  Visit(s, p, b) \in Scans /\ ScanInv(n + 1, Visit(s, p, b), p, type, b)
<1> DEFINE t == Visit(s, p, b)
           free == Free(s.l, b)
           Goal == ScanInv(n + 1, t, p, type, b)
<1> SUFFICES t \in Scans /\ Goal
  OBVIOUS
<1>1. /\ t \in Scans
      /\ s.at \notin DOMAIN s.l => t = End(s)
      /\ s.at \in DOMAIN s.l /\ s.l[s.at].pid # p => Passes(s, t)
      /\ s.at \in DOMAIN s.l /\ s.l[s.at].pid = p => Shaped(s, t, p, free)
  BY VisitShapes
<1>2. /\ s.l \in Seq(Rec) /\ Len(s.l) \in Nat /\ DOMAIN s.l = 1 .. Len(s.l) /\ s.at \in Nat
      /\ Len(list) \in Nat
  BY ScanIs
<1>3. t.l \in Seq(Rec) /\ Len(t.l) \in Nat /\ t.at \in Nat
  BY <1>1, ScanIs
<1>4. /\ Normal(s.l) /\ Free(s.l, b) >= 0 /\ Kept(s.l, s.woken) /\ s.ld.type = type
      /\ Quiet(s.l, s.woken)
      /\ s.code = "go" \/ s.at = 0
      /\ s.at = 0 \/ Len(s.l) - s.at + 1 + n <= Len(list)
      /\ s.code = "go" => IF s.at = 0 THEN Cleared(s, p) ELSE Passed(s, p)
      /\ type # "F_UNLCK" => Room(s.l, s.insrtp, s.ld.start)
  BY DEF ScanInv
<1> HIDE DEF t, free
<1>5. CASE s.at \notin DOMAIN s.l
  <2>1. /\ t.l = s.l /\ t.ld = s.ld /\ t.at = 0 /\ t.code = s.code
        /\ t.insrtp = s.insrtp /\ t.woken = s.woken
    BY <1>1, <1>5, EndIs
  <2>2. s.code = "go" => Cleared(s, p)
    <3>1. CASE s.at = 0
      BY <3>1, <1>4
    <3>2. CASE s.at # 0
      <4>1. s.at > Len(s.l)
        BY <3>2, <1>2, <1>5
      <4> QED
        BY <3>2, <4>1, <1>4, PassedAll
    <3> QED
      BY <3>1, <3>2
  <2>3. Cleared(s, p) => Cleared(t, p)
    BY <2>1 DEF Cleared
  <2> QED
    BY <1>1, <1>4, <2>1, <2>2, <2>3 DEF ScanInv
<1>6. CASE s.at \in DOMAIN s.l /\ s.l[s.at].pid # p
  <2>1. /\ t.l = s.l /\ t.ld = s.ld /\ t.at = s.at + 1 /\ t.code = s.code
        /\ t.insrtp = s.insrtp /\ t.woken = s.woken
    BY <1>1, <1>6 DEF Passes, Leaves
  <2>2. s.at # 0 /\ t.at # 0 /\ s.code = "go"
    BY <1>2, <1>4, <1>6, <2>1
  <2>3. Passed(t, p)
    <3> SUFFICES ASSUME NEW i \in DOMAIN t.l, i < t.at, t.l[i].pid = p
                 PROVE  Apart(t.l[i], t.ld)
      BY DEF Passed
    <3>1. i \in DOMAIN s.l /\ s.l[i].pid = p /\ i # s.at /\ i < s.at
      BY <1>2, <1>6, <2>1
    <3> QED
      BY <3>1, <2>1, <2>2, <1>4 DEF Passed
  <2>4. Len(t.l) - t.at + 1 + (n + 1) <= Len(list)
    BY <1>2, <1>4, <2>1, <2>2
  <2> QED
    BY <1>1, <1>4, <2>1, <2>2, <2>3, <2>4 DEF ScanInv
<1>7. CASE s.at \in DOMAIN s.l /\ s.l[s.at].pid = p
  <2>0. Shaped(s, t, p, free) /\ s.at # 0 /\ s.code = "go" /\ Passed(s, p)
    BY <1>1, <1>2, <1>4, <1>7
  <2>1. /\ Normal(t.l)
        /\ Len(t.l) <= Len(s.l) \/ (free # 0 /\ Len(t.l) = Len(s.l) + 1)
        /\ s.woken \subseteq t.woken
        /\ \A f \in Range(s.l) : f \in Range(t.l) \/ WAKEUP(f) \subseteq t.woken
    BY <1>4, <1>7, <2>0, ShapedKeeps
  <2>2. type # "F_UNLCK" => Room(t.l, t.insrtp, t.ld.start)
    BY <1>4, <1>7, <2>0, ShapedRoom
  <2>3. t.code = "go" => IF t.at = 0 THEN Cleared(t, p) ELSE Passed(t, p)
    BY <1>1, <1>4, <1>7, <2>0, ShapedPasses
  <2>4. /\ t.ld.type = s.ld.type
        /\ t.code = "go" \/ t.at = 0
        /\ t.at = 0 \/ Len(t.l) - t.at = Len(s.l) - s.at - 1
    BY <1>4, <1>7, <2>0, ShapedTurns
  <2>5. t.at = 0 \/ Len(t.l) - t.at + 1 + (n + 1) <= Len(list)
    BY <1>2, <1>3, <1>4, <2>0, <2>4
  <2>6. Free(t.l, b) >= 0
    <3>1. /\ Cardinality(Entries(b)) \in Nat
          /\ Free(s.l, b) = recs - Len(s.l) - Cardinality(Entries(b))
          /\ Free(t.l, b) = recs - Len(t.l) - Cardinality(Entries(b))
      BY <1>2, <1>3, FreeIs
    <3>2. recs \in Nat
      BY ConstAssumption
    <3> QED
      BY <1>2, <1>3, <1>4, <2>1, <3>1, <3>2 DEF free
  <2>7. Kept(t.l, t.woken)
    BY <1>4, <2>1 DEF Kept
  <2>8. Quiet(t.l, t.woken)
    BY <1>4, <1>7, <2>0, ShapedSleeps
  <2> QED
    BY <1>1, <1>4, <2>1, <2>2, <2>3, <2>4, <2>5, <2>6, <2>7, <2>8 DEF ScanInv
<1> QED
  BY <1>5, <1>6, <1>7

LEMMA ScanDone ==
  ASSUME list \in Seq(Rec), NEW start \in Scans, NEW p \in Proc, NEW type, NEW b,
         IsFiniteSet(Entries(b)), ScanInv(0, start, p, type, b)
  PROVE  LET s == Scan(start, p, b)
         IN  /\ s \in Scans
             /\ Normal(s.l) /\ Free(s.l, b) >= 0 /\ Kept(s.l, s.woken)
             /\ Quiet(s.l, s.woken)
             /\ s.ld.type = type
             /\ s.code = "go" => Cleared(s, p)
             /\ type # "F_UNLCK" => Room(s.l, s.insrtp, s.ld.start)
<1> DEFINE s == Scan(start, p, b)
           J == {x \in Nat \X Scans : ScanInv(x[1], x[2], p, type, b)}
           V(r) == Visit(r, p, b)
<1>1. \A r \in Scans : Visit(r, p, b) \in Scans
  BY VisitShapes
<1>2. <<0, start>> \in J
  BY DEF J
<1>3. ASSUME NEW n \in Nat, NEW r \in Scans, <<n, r>> \in J
      PROVE  <<n + 1, Visit(r, p, b)>> \in J
  <2>1. ScanInv(n, r, p, type, b)
    BY <1>3
  <2>2. ScanInv(n + 1, Visit(r, p, b), p, type, b)
    BY <2>1, VisitKeeps
  <2> QED
    BY <1>1, <2>2
<1>4. <<Len(list), s>> \in J
  <2>1. J \in SUBSET (Nat \X Scans)
    OBVIOUS
  <2> HIDE DEF J
  <2> QED
    BY <1>1, <1>2, <1>3, <2>1, ScanKeeps
<1> HIDE DEF s
<1>5. s \in Scans /\ ScanInv(Len(list), s, p, type, b)
  BY <1>4
<1>6. s.code = "go" => Cleared(s, p)
  <2>1. CASE s.at = 0
    BY <2>1, <1>5 DEF ScanInv
  <2>2. CASE s.at # 0
    <3>1. s.at \in Nat /\ Len(s.l) \in Nat /\ Len(list) \in Nat
      BY <1>5, ScanIs
    <3>2. s.at > Len(s.l)
      BY <2>2, <3>1, <1>5 DEF ScanInv
    <3> QED
      BY <2>2, <3>2, <1>5, PassedAll DEF ScanInv
  <2> QED
    BY <2>1, <2>2
<1> QED
  BY <1>5, <1>6 DEF ScanInv, s

(* The record put in where there is room for it. *)
LEMMA PlaceFits ==
  ASSUME NEW s \in Scans, NEW p \in Proc, Normal(s.l), Cleared(s, p),
         Room(s.l, s.insrtp, s.ld.start), s.ld.type # "F_UNLCK"
  PROVE  LET e == Record(p, s.ld)
             k == Place(s.l, s.insrtp, s.ld.start)
         IN  /\ e \in Rec /\ e.pid = p /\ k \in 0 .. Len(s.l)
             /\ e.type = s.ld.type /\ e.start = s.ld.start /\ e.end = s.ld.end
             /\ Normal(InsertAt(s.l, k + 1, e))
<1> DEFINE l == s.l
           ld == s.ld
           at == s.insrtp
           e == Record(p, ld)
           k == Place(l, at, ld.start)
<1>0. /\ l \in Seq(Rec) /\ Len(l) \in Nat /\ DOMAIN l = 1 .. Len(l)
      /\ at \in Nat /\ at <= Len(l) /\ ld \in Lock
      /\ ld.start \in 0 .. MAXEND /\ ld.end \in 0 .. MAXEND /\ ld.start <= ld.end
      /\ ld.start \in Int /\ ld.end \in Int
      /\ \A j \in DOMAIN l : l[j].start \in Int /\ l[j].end \in Int /\ l[j].start <= l[j].end
  <2>1. /\ l \in Seq(Rec) /\ Len(l) \in Nat /\ DOMAIN l = 1 .. Len(l)
        /\ at \in Nat /\ at <= Len(l) /\ ld \in Lock
        /\ ld.start \in 0 .. MAXEND /\ ld.end \in 0 .. MAXEND /\ ld.start <= ld.end
        /\ ld.start \in Int /\ ld.end \in Int
    BY ScanIs
  <2> QED
    BY <2>1, ListIs
<1>1. ld.type \in {"F_RDLCK", "F_WRLCK"}
  BY <1>0 DEF Lock, Request
<1>2. /\ e \in Rec /\ e.pid = p /\ e.type = ld.type
      /\ e.start = ld.start /\ e.end = ld.end
  BY <1>0, <1>1, RecordIs
<1>3. /\ at = 0 => \A j \in DOMAIN l : ld.start <= l[j].start
      /\ \A j \in DOMAIN l : j <= at => l[j].start <= ld.start
      /\ \A i, j \in DOMAIN l : i < j => l[i].start <= l[j].start
  BY DEF Room, Normal
<1>4. \A j \in DOMAIN l : l[j].pid = p => Apart(l[j], ld) \/ Apart(ld, l[j])
  BY DEF Cleared, Range
<1>5. /\ k \in 0 .. Len(l)
      /\ \A i \in 1 .. k : l[i].start <= ld.start
      /\ \A i \in k + 1 .. Len(l) : ld.start <= l[i].start
  <2>1. CASE at = 0
    <3>1. k = 0
      BY <2>1 DEF Place
    <3> QED
      BY <2>1, <3>1, <1>0, <1>3
  <2>2. CASE at # 0
    <3> DEFINE st == ld.start
    <3>0. at \in 1 .. Len(l) /\ st \in Int /\ \A i \in DOMAIN l : l[i].start \in Int
      BY <2>2, <1>0
    <3> HIDE DEF st, l, at
    <3>1. /\ Place(l, at, st) \in at .. Len(l)
          /\ \A i \in at + 1 .. Place(l, at, st) : l[i].start < st
          /\ l[at].start >= st => Place(l, at, st) = at
          /\ (l[at].start < st /\ Place(l, at, st) < Len(l))
               => l[Place(l, at, st) + 1].start >= st
      BY <3>0, <1>0, PlaceIs
    <3>2. k = Place(l, at, st)
      BY DEF st
    <3> HIDE DEF k
    <3>3. ASSUME NEW i \in 1 .. k
          PROVE  l[i].start <= ld.start
      <4>1. CASE i <= at
        BY <4>1, <3>0, <3>1, <3>2, <1>0, <1>3
      <4>2. CASE ~(i <= at)
        <5>1. i \in at + 1 .. k /\ i \in DOMAIN l
          BY <4>2, <3>0, <3>1, <3>2, <1>0
        <5>2. l[i].start < st
          BY <5>1, <3>1, <3>2
        <5> QED
          BY <5>1, <5>2, <1>0 DEF st
      <4> QED
        BY <4>1, <4>2
    <3>4. ASSUME NEW i \in k + 1 .. Len(l)
          PROVE  ld.start <= l[i].start
      <4>0. k \in Nat /\ k < Len(l) /\ i \in DOMAIN l /\ k + 1 \in DOMAIN l /\ at \in DOMAIN l
            /\ at < i /\ k + 1 <= i
        BY <3>0, <3>1, <3>2, <1>0
      <4>1. CASE l[at].start >= st
        <5>1. l[at].start <= l[i].start
          BY <4>0, <1>3
        <5> QED
          BY <4>0, <4>1, <5>1, <1>0 DEF st
      <4>2. CASE l[at].start < st
        <5>1. l[k + 1].start >= st
          BY <4>0, <4>2, <3>1, <3>2
        <5>2. l[k + 1].start <= l[i].start
          <6>1. CASE k + 1 = i
            BY <6>1, <4>0, <1>0
          <6>2. CASE k + 1 < i
            BY <6>2, <4>0, <1>3
          <6> QED
            BY <6>1, <6>2, <4>0, <1>0
        <5> QED
          BY <4>0, <5>1, <5>2, <1>0 DEF st
      <4> QED
        BY <4>0, <4>1, <4>2, <1>0 DEF st
    <3>5. k \in 0 .. Len(l)
      BY <3>0, <3>1, <3>2
    <3> QED
      BY <3>3, <3>4, <3>5
  <2> QED
    BY <2>1, <2>2
<1> HIDE DEF k, e
<1>6. ASSUME NEW i \in 1 .. k
      PROVE  /\ l[i].start <= e.start
             /\ l[i].pid = e.pid => Apart(l[i], e)
  <2>1. i \in DOMAIN l /\ l[i].start <= ld.start /\ l[i].start \in Int
    BY <1>0, <1>5
  <2>2. ~Apart(ld, l[i])
    BY <1>0, <2>1 DEF Apart
  <2>3. Apart(l[i], ld) => Apart(l[i], e)
    BY <1>2 DEF Apart
  <2> QED
    BY <1>2, <1>4, <2>1, <2>2, <2>3
<1>7. ASSUME NEW i \in k + 1 .. Len(l)
      PROVE  /\ e.start <= l[i].start
             /\ e.pid = l[i].pid => Apart(e, l[i])
  <2>1. i \in DOMAIN l /\ ld.start <= l[i].start
    BY <1>0, <1>5
  <2>2. ~Apart(l[i], ld)
    <3>1. l[i].start \in Int /\ l[i].end \in Int /\ l[i].start <= l[i].end
      BY <2>1, <1>0
    <3> QED
      BY <1>0, <2>1, <3>1 DEF Apart
  <2>3. Apart(ld, l[i]) => Apart(e, l[i])
    BY <1>2 DEF Apart
  <2> QED
    BY <1>2, <1>4, <2>1, <2>2, <2>3
<1>8. Normal(InsertAt(l, k + 1, e))
  BY <1>0, <1>2, <1>5, <1>6, <1>7, InsertNormal
<1> QED
  BY <1>2, <1>5, <1>8 DEF k, e

(* flckadj: the list it leaves, whom it wakes, what it returns. *)
LEMMA FlckadjIs ==
  ASSUME list \in Seq(Rec), Normal(list), Quiet(list, {}), NEW p \in Proc, NEW b, IsFiniteSet(Entries(b)),
         Free(list, b) >= 0, NEW rq \in Lock, NEW insrtp \in 0 .. Len(list),
         \A i \in DOMAIN list : i < insrtp /\ list[i].pid = p => Apart(list[i], rq),
         rq.type # "F_UNLCK" => Room(list, insrtp, rq.start)
  PROVE  LET s == flckadj(p, insrtp, rq, b)
         IN  /\ s.l \in Seq(Rec) /\ Normal(s.l) /\ Free(s.l, b) >= 0
             /\ Kept(s.l, s.woken) /\ Quiet(s.l, s.woken) /\ s.woken \in SUBSET Proc
             /\ s.code \in {"ok", "ENOLCK"}
<1> DEFINE start == [l |-> list, ld |-> rq, at |-> IF insrtp = 0 THEN 1 ELSE insrtp,
                     insrtp |-> insrtp, woken |-> {}, code |-> "go"]
           s == Scan(start, p, b)
           k == Place(s.l, s.insrtp, s.ld.start)
           e == Record(p, s.ld)
           m == InsertAt(s.l, k + 1, e)
           t == flckadj(p, insrtp, rq, b)
           Goal(u) == /\ u.l \in Seq(Rec) /\ Normal(u.l) /\ Free(u.l, b) >= 0
                      /\ Kept(u.l, u.woken) /\ Quiet(u.l, u.woken) /\ u.woken \in SUBSET Proc
                      /\ u.code \in {"ok", "ENOLCK"}
<1> SUFFICES Goal(t)
  OBVIOUS
<1>1. start \in Scans
  BY DEF Scans
<1>2. ScanInv(0, start, p, rq.type, b)
  <2>1. Kept(list, {})
    BY DEF Kept
  <2>2. Passed(start, p)
    BY DEF Passed
  <2>3. start.at # 0 /\ Len(list) - start.at + 1 + 0 <= Len(list)
    OBVIOUS
  <2> QED
    BY <2>1, <2>2, <2>3 DEF ScanInv
<1>3. t = IF s.code # "go" THEN s
          ELSE IF rq.type = "F_UNLCK" THEN [s EXCEPT !.code = "ok"]
          ELSE IF Free(s.l, b) = 0 THEN [s EXCEPT !.code = "ENOLCK"]
          ELSE [s EXCEPT !.l = m, !.code = "ok"]
  BY DEF flckadj
<1> HIDE DEF start
<1>4. /\ s \in Scans
      /\ Normal(s.l) /\ Free(s.l, b) >= 0 /\ Kept(s.l, s.woken) /\ Quiet(s.l, s.woken)
      /\ s.ld.type = rq.type
      /\ s.code = "go" => Cleared(s, p)
      /\ rq.type # "F_UNLCK" => Room(s.l, s.insrtp, s.ld.start)
  BY <1>1, <1>2, ScanDone
<1>5. s.l \in Seq(Rec) /\ s.woken \in SUBSET Proc /\ Len(s.l) \in Nat
  BY <1>4, ScanIs
<1> HIDE DEF s, t
<1>6. CASE s.code # "go"
  <2>1. s.code \in {"ok", "ENOLCK"}
    BY <1>4, <1>6 DEF Scans
  <2> QED
    BY <1>3, <1>4, <1>5, <1>6, <2>1
<1>7. ASSUME NEW c \in {"ok", "ENOLCK"}, t = [s EXCEPT !.code = c]
      PROVE  Goal(t)
  <2>1. t.l = s.l /\ t.woken = s.woken /\ t.code = c
    BY <1>4, <1>7 DEF Scans
  <2> QED
    BY <1>4, <1>5, <2>1
<1>8. CASE s.code = "go" /\ rq.type # "F_UNLCK" /\ Free(s.l, b) # 0
  <2>1. t = [s EXCEPT !.l = m, !.code = "ok"]
    BY <1>3, <1>8
  <2>2. /\ e \in Rec /\ k \in 0 .. Len(s.l) /\ Normal(m)
    BY <1>4, <1>8, PlaceFits
  <2>a. e.sleepers = {}
    BY DEF Record
  <2> DEFINE h == k + 1
  <2>3. h \in 1 .. Len(s.l) + 1 /\ m = InsertAt(s.l, h, e)
    BY <1>5, <2>2
  <2> HIDE DEF h, k, e, m
  <2>4. Inserted(m, s.l, h, e) /\ Range(m) = {e} \cup Range(s.l)
    BY <1>5, <2>2, <2>3, InsertAtIs, InsertRange
  <2>5. m \in Seq(Rec) /\ Len(m) = Len(s.l) + 1
    BY <2>4 DEF Inserted
  <2>6. Free(m, b) >= 0
    <3>1. /\ Cardinality(Entries(b)) \in Nat
          /\ Free(s.l, b) = recs - Len(s.l) - Cardinality(Entries(b))
          /\ Free(m, b) = recs - Len(m) - Cardinality(Entries(b))
      BY <1>5, <2>5, FreeIs
    <3> QED
      BY <1>4, <1>5, <1>8, <2>5, <3>1, ConstAssumption
  <2>7. Kept(m, s.woken)
    BY <1>4, <2>4 DEF Kept
  <2>9. Quiet(m, s.woken)
    BY <1>4, <1>5, <2>a, <2>2, <2>3, InsertQuiet
  <2>8. t.l = m /\ t.woken = s.woken /\ t.code = "ok"
    BY <1>4, <2>1 DEF Scans
  <2> QED
    BY <1>5, <2>2, <2>5, <2>6, <2>7, <2>8, <2>9
<1> QED
  <2> HIDE DEF Goal
  <2> QED
    BY <1>3, <1>6, <1>7, <1>8

(* blocked: the record found is against the request, and the scan may      *)
(* begin at the other one.                                                 *)
LEMMA BlockedIs ==
  ASSUME list \in Seq(Rec), Normal(list), NEW p \in Proc, NEW rq \in Lock
  PROVE  LET bl == blocked(p, rq)
         IN  /\ bl.found \in 0 .. Len(list) /\ bl.insrt \in 0 .. Len(list)
             /\ bl.found # 0 => /\ Excludes(list[bl.found], p, rq)
                                /\ list[bl.found].start <= rq.end
                                /\ rq.start <= list[bl.found].end
             /\ \A i \in DOMAIN list :
                  i < bl.insrt /\ list[i].pid = p => Apart(list[i], rq)
             /\ Room(list, bl.insrt, rq.start)
<1> DEFINE Bars(i) == Overlaps(list[i], rq) /\ Excludes(list[i], p, rq)
           Touches(i) == list[i].pid = p /\ rq.start - 1 <= list[i].end
           Early(i) == list[i].start < rq.start
           S1 == {i \in DOMAIN list : ~Early(i) \/ Touches(i) \/ Bars(i)}
           f1 == First(S1, list)
           S2 == {i \in f1 .. Len(list) : rq.end < list[i].start \/ Bars(i)}
           f2 == First(S2, list)
           in1 == f1 \in DOMAIN list /\ Early(f1)
           found == IF in1 /\ Bars(f1) THEN f1
                    ELSE IF f2 \in DOMAIN list /\ ~(rq.end < list[f2].start)
                         THEN f2 ELSE 0
           insrt == IF in1 THEN f1 ELSE f1 - 1
<1>0. /\ Len(list) \in Nat /\ DOMAIN list = 1 .. Len(list)
      /\ rq.start \in Int /\ rq.end \in Int /\ rq.start <= rq.end
      /\ \A i \in DOMAIN list : /\ list[i].start \in Int /\ list[i].end \in Int
                                /\ list[i].start <= list[i].end
      /\ \A i, j \in DOMAIN list : i < j => list[i].start <= list[j].start
  <2>1. rq.start \in Int /\ rq.end \in Int /\ rq.start <= rq.end
    BY DEF Lock, Request
  <2> QED
    BY <2>1, ListIs DEF Normal
<1>1. blocked(p, rq).found = found /\ blocked(p, rq).insrt = insrt
  BY DEF blocked
<1>2. /\ f1 \in 1 .. Len(list) + 1
      /\ f1 <= Len(list) => f1 \in S1
      /\ \A i \in DOMAIN list : i < f1 => i \notin S1
  <2>1. S1 \in SUBSET Nat /\ S1 \in SUBSET DOMAIN list
    BY <1>0
  <2> HIDE DEF S1
  <2>2. /\ S1 = {} => f1 = Len(list) + 1
        /\ S1 # {} => f1 \in S1 /\ \A j \in S1 : f1 <= j
    BY <2>1, FirstIs
  <2> HIDE DEF f1
  <2> QED
    BY <1>0, <2>1, <2>2
<1> HIDE DEF f1
<1>3. /\ f2 \in 1 .. Len(list) + 1
      /\ f2 <= Len(list) => f2 \in S2
  <2>1. S2 \in SUBSET Nat /\ S2 \in SUBSET DOMAIN list
    BY <1>0, <1>2
  <2> HIDE DEF S2
  <2>2. /\ S2 = {} => f2 = Len(list) + 1
        /\ S2 # {} => f2 \in S2 /\ \A j \in S2 : f2 <= j
    BY <2>1, FirstIs
  <2> HIDE DEF f2
  <2>3. CASE S2 = {}
    BY <2>2, <2>3, <1>0
  <2>4. CASE S2 # {}
    <3>1. f2 \in S2 /\ f2 \in 1 .. Len(list)
      BY <2>1, <2>2, <2>4, <1>0
    <3> QED
      BY <3>1, <1>0
  <2> QED
    BY <2>3, <2>4
<1>4. /\ found \in 0 .. Len(list)
      /\ found # 0 => /\ found \in DOMAIN list /\ Bars(found)
                      /\ list[found].start <= rq.end
  <2>1. CASE in1 /\ Bars(f1)
    <3>1. found = f1
      BY <2>1
    <3>2. list[f1].start <= rq.end
      BY <2>1, <1>0
    <3> HIDE DEF found
    <3> QED
      BY <2>1, <3>1, <3>2, <1>0
  <2>2. CASE ~(in1 /\ Bars(f1)) /\ f2 \in DOMAIN list /\ ~(rq.end < list[f2].start)
    <3>1. found = f2
      BY <2>2
    <3> HIDE DEF f2, found
    <3> QED
      BY <2>2, <3>1, <1>0, <1>3
  <2>3. CASE ~(in1 /\ Bars(f1)) /\ ~(f2 \in DOMAIN list /\ ~(rq.end < list[f2].start))
    <3>1. found = 0
      BY <2>3
    <3> HIDE DEF found
    <3> QED
      BY <3>1, <1>0
  <2> QED
    BY <2>1, <2>2, <2>3
<1> HIDE DEF f2, found
<1>5. insrt \in 0 .. Len(list)
  BY <1>0, <1>2
<1>6. ASSUME NEW i \in DOMAIN list, i < f1
      PROVE  /\ list[i].start < rq.start
             /\ list[i].pid = p => Apart(list[i], rq)
  <2>1. Early(i) /\ ~Touches(i)
    BY <1>2, <1>6
  <2>2. list[i].pid = p => ~(rq.start - 1 <= list[i].end)
    BY <2>1
  <2>3. ~(rq.start - 1 <= list[i].end) => list[i].end + 1 < rq.start
    BY <1>0
  <2> QED
    BY <2>1, <2>2, <2>3 DEF Apart
<1>7. ASSUME NEW i \in DOMAIN list, i < insrt, list[i].pid = p
      PROVE  Apart(list[i], rq)
  <2>1. i < f1
    BY <1>0, <1>2, <1>7
  <2> QED
    BY <1>6, <1>7, <2>1
<1>8. Room(list, insrt, rq.start)
  <2>1. ASSUME NEW j \in DOMAIN list, j <= insrt
        PROVE  list[j].start <= rq.start
    <3>1. j < f1 \/ (j = f1 /\ in1)
      BY <1>0, <1>2, <2>1
    <3>2. list[j].start < rq.start
      BY <1>6, <3>1
    <3> QED
      BY <3>2, <1>0
  <2>2. ASSUME insrt = 0, NEW j \in DOMAIN list
        PROVE  rq.start <= list[j].start
    <3>1. f1 = 1 /\ ~in1
      BY <1>2, <2>2
    <3>2. 1 \in DOMAIN list /\ ~Early(1)
      BY <1>0, <2>2, <3>1
    <3>3. list[1].start <= list[j].start
      <4>1. CASE j = 1
        BY <4>1, <1>0
      <4>2. CASE j # 1
        <5>1. 1 < j
          BY <4>2, <1>0
        <5> QED
          BY <5>1, <3>2, <1>0
      <4> QED
        BY <4>1, <4>2
    <3> QED
      BY <3>2, <3>3, <1>0
  <2> QED
    BY <2>1, <2>2 DEF Room
<1> HIDE DEF insrt
<1> QED
  BY <1>1, <1>4, <1>5, <1>7, <1>8 DEF Overlaps

-----------------------------------------------------------------------------
(* cleanlocks: one record after the other. *)

Cleans ==
  {s \in [l : Seq(Rec), at : Nat, insrtp : {0}, woken : SUBSET Proc] : s.at >= 1}

CleanStep(s, p) == IF s.l[s.at].pid = p THEN delflck(s) ELSE [s EXCEPT !.at = @ + 1]

(* After n records have been looked at. *)
CleanInv(n, s) ==
  /\ Normal(s.l) /\ Kept(s.l, s.woken) /\ Quiet(s.l, s.woken)
  /\ Len(s.l) <= Len(list)
  /\ Len(s.l) - s.at + 1 = Len(list) - n

LEMMA CleanStepIs ==
  ASSUME list \in Seq(Rec), NEW s \in Cleans, s.at \in DOMAIN s.l, NEW p \in Proc,
         NEW n \in Nat, CleanInv(n, s)
  PROVE  CleanStep(s, p) \in Cleans /\ CleanInv(n + 1, CleanStep(s, p))
<1> DEFINE l == s.l
           at == s.at
           f == l[at]
           m == RemoveAt(l, at)
           w == s.woken \cup WAKEUP(f)
           t == [s EXCEPT !.l = m, !.woken = w]
           u == [s EXCEPT !.at = @ + 1]
<1>1. /\ l \in Seq(Rec) /\ Len(l) \in Nat /\ DOMAIN l = 1 .. Len(l) /\ at \in 1 .. Len(l)
      /\ at \in Nat /\ s.insrtp = 0 /\ s.woken \in SUBSET Proc /\ Len(list) \in Nat
  <2>1. s.l \in Seq(Rec) /\ s.at \in Nat /\ s.insrtp = 0 /\ s.woken \in SUBSET Proc
    BY DEF Cleans
  <2> QED
    BY <2>1
<1>2. f \in Rec /\ WAKEUP(f) \in SUBSET Proc
  BY <1>1, ListIs, RecIs
<1>3. /\ m \in Seq(Rec) /\ Len(m) = Len(l) - 1 /\ Normal(m)
      /\ Range(m) = {l[j] : j \in DOMAIN l \ {at}}
      /\ Quiet(m, w)
  <2> HIDE DEF l, at
  <2>1. m \in Seq(Rec) /\ Len(m) = Len(l) - 1
    BY <1>1, RemoveIs
  <2>2. Normal(m)
    BY <1>1, RemoveNormal DEF CleanInv, l
  <2>3. Range(m) = {l[j] : j \in DOMAIN l \ {at}}
    BY <1>1, RemoveRange
  <2>4. Quiet(m, w)
    BY <1>1, RemoveQuiet DEF CleanInv, l
  <2> QED
    BY <2>1, <2>2, <2>3, <2>4
<1>4. Kept(m, w)
  <2>1. ASSUME NEW g \in Range(list)
        PROVE  g \in Range(m) \/ WAKEUP(g) \subseteq w
    <3>1. g \in Range(l) \/ WAKEUP(g) \subseteq s.woken
      BY DEF CleanInv, Kept
    <3>2. CASE g \in Range(l) /\ g # f
      BY <3>2, <1>3 DEF Range
    <3>3. CASE g = f
      BY <3>3
    <3>4. CASE WAKEUP(g) \subseteq s.woken
      BY <3>4
    <3> QED
      BY <3>1, <3>2, <3>3, <3>4
  <2> QED
    BY <2>1 DEF Kept
<1>5. delflck(s) = t
  <2>1. (IF s.insrtp >= s.at THEN s.insrtp - 1 ELSE s.insrtp) = s.insrtp
    BY <1>1
  <2>2. delflck(s) = [s EXCEPT !.l = m, !.insrtp = s.insrtp, !.woken = w]
    BY <2>1 DEF delflck
  <2>3. [s EXCEPT !.l = m, !.insrtp = s.insrtp, !.woken = w] = t
    BY DEF Cleans
  <2> QED
    BY <2>2, <2>3
<1> HIDE DEF m, w
<1>6. t \in Cleans /\ t.l = m /\ t.at = at /\ t.woken = w
  <2>1. w \in SUBSET Proc
    BY <1>1, <1>2 DEF w
  <2>2. t.l = m /\ t.at = at /\ t.woken = w
    BY DEF Cleans
  <2>3. t \in [l : Seq(Rec), at : Nat, insrtp : {0}, woken : SUBSET Proc]
    BY <1>3, <2>1 DEF Cleans
  <2> HIDE DEF t
  <2> QED
    BY <1>1, <2>2, <2>3 DEF Cleans
<1>7. u \in Cleans /\ u.l = l /\ u.at = at + 1 /\ u.woken = s.woken
  <2>1. u.l = l /\ u.at = at + 1 /\ u.woken = s.woken
    BY DEF Cleans
  <2>2. u \in [l : Seq(Rec), at : Nat, insrtp : {0}, woken : SUBSET Proc]
    BY <1>1 DEF Cleans
  <2> HIDE DEF u
  <2> QED
    BY <1>1, <2>1, <2>2 DEF Cleans
<1> HIDE DEF t, u
<1>8. CleanInv(n + 1, t)
  <2>1. Len(m) <= Len(list) /\ Len(m) - at + 1 = Len(list) - (n + 1)
    BY <1>1, <1>3 DEF CleanInv
  <2> QED
    BY <1>3, <1>4, <1>6, <2>1 DEF CleanInv
<1>9. CleanInv(n + 1, u)
  <2>1. Len(l) <= Len(list) /\ Len(l) - (at + 1) + 1 = Len(list) - (n + 1)
    BY <1>1 DEF CleanInv
  <2> QED
    BY <1>7, <2>1 DEF CleanInv
<1>10. CleanStep(s, p) = t \/ CleanStep(s, p) = u
  BY <1>5 DEF CleanStep, u
<1> QED
  BY <1>6, <1>7, <1>8, <1>9, <1>10

LEMMA CleanedIs ==
  ASSUME list \in Seq(Rec), Normal(list), Quiet(list, {}), NEW p \in Proc
  PROVE  LET s == Cleaned(p)
         IN  /\ s.l \in Seq(Rec) /\ Normal(s.l) /\ Len(s.l) <= Len(list)
             /\ Kept(s.l, s.woken) /\ Quiet(s.l, s.woken) /\ s.woken \in SUBSET Proc
<1> DEFINE N == Len(list)
           D == Cleans
           start == [l |-> list, at |-> 1, insrtp |-> 0, woken |-> {}]
           Step(s) == IF s.at \in DOMAIN s.l /\ CleanStep(s, p) \in Cleans
                      THEN CleanStep(s, p) ELSE s
           F == [s \in D |-> Step(s)]
           cl == CHOOSE cl : cl = [n \in 0 .. N |->
                   IF n = 0 THEN start ELSE CleanStep(cl[n - 1], p)]
<1>0. N \in Nat /\ F \in [D -> D]
  OBVIOUS
<1>1. start \in D /\ CleanInv(0, start)
  <2>1. start \in [l : Seq(Rec), at : Nat, insrtp : {0}, woken : SUBSET Proc]
    OBVIOUS
  <2>2. Kept(list, {})
    BY DEF Kept
  <2> QED
    BY <2>1, <2>2, <1>0 DEF Cleans, CleanInv
<1>2. PICK g \in [0 .. N -> D] :
        g[0] = start /\ \A n \in 1 .. N : g[n] = F[g[n - 1]]
  <2> HIDE DEF F, N, D, start
  <2>1. Turns(D, F, start, N) # {}
    BY <1>0, <1>1, TurnsExist
  <2> QED
    BY <2>1 DEF Turns
<1>3. Cleaned(p) = cl[N]
  BY DEF Cleaned, CleanStep
<1> HIDE DEF start
<1>4. ASSUME NEW n \in Nat, NEW k \in Nat, k = n + 1, k <= N, CleanInv(n, g[n])
      PROVE  g[k] = CleanStep(g[n], p) /\ CleanInv(k, g[k])
  <2>1. n \in 0 .. N /\ k \in 1 .. N /\ k - 1 = n
    BY <1>0, <1>4
  <2>2. g[n] \in Cleans /\ g[k] = F[g[n]]
    BY <1>2, <2>1
  <2> HIDE DEF F
  <2>3. PICK s \in Cleans : s = g[n]
    BY <2>2
  <2>4. s.at \in DOMAIN s.l
    <3>1. s.l \in Seq(Rec) /\ s.at \in Nat /\ s.at >= 1
      BY DEF Cleans
    <3>2. Len(s.l) - s.at + 1 = N - n
      BY <1>4, <2>3 DEF CleanInv
    <3>3. Len(s.l) \in Nat
      BY <3>1
    <3>4. s.at <= Len(s.l)
      BY <3>1, <3>2, <3>3, <2>1, <1>0, <1>4
    <3> QED
      BY <3>1, <3>3, <3>4
  <2>5. CleanStep(s, p) \in Cleans /\ CleanInv(n + 1, CleanStep(s, p))
    BY <1>4, <2>3, <2>4, CleanStepIs
  <2>6. g[k] = CleanStep(s, p)
    BY <2>2, <2>3, <2>4, <2>5 DEF F
  <2> QED
    BY <1>4, <2>3, <2>5, <2>6
<1> HIDE DEF F
<1> DEFINE T == {n \in Nat : n <= N => CleanInv(n, g[n])}
<1>5. T = Nat
  <2>1. 0 \in T
    BY <1>1, <1>2
  <2>2. ASSUME NEW n \in T
        PROVE  n + 1 \in T
    <3>1. PICK k \in Nat : k = n + 1
      OBVIOUS
    <3>2. k <= N => n \in Nat /\ n <= N
      BY <1>0, <3>1
    <3>3. k <= N => CleanInv(k, g[k])
      BY <3>1, <3>2, <1>4
    <3> QED
      BY <3>1, <3>3
  <2>3. T \in SUBSET Nat
    OBVIOUS
  <2> HIDE DEF T
  <2> QED
    BY <2>1, <2>2, <2>3, NatSetInduction
<1>6. \A n \in 1 .. N : g[n] = CleanStep(g[n - 1], p)
  <2> SUFFICES ASSUME NEW k \in 1 .. N
               PROVE  g[k] = CleanStep(g[k - 1], p)
    OBVIOUS
  <2>1. PICK n \in Nat : k = n + 1 /\ n = k - 1 /\ n <= N
    BY <1>0
  <2>2. CleanInv(n, g[n])
    BY <1>5, <2>1
  <2> QED
    BY <1>0, <1>4, <2>1, <2>2
<1>7. g = [n \in 0 .. N |-> IF n = 0 THEN start ELSE CleanStep(g[n - 1], p)]
  <2>1. \A n \in 0 .. N : g[n] = IF n = 0 THEN start ELSE CleanStep(g[n - 1], p)
    BY <1>0, <1>2, <1>6
  <2>2. g = [n \in 0 .. N |-> g[n]]
    BY <1>2
  <2> QED
    BY <2>1, <2>2
<1>8. cl = [n \in 0 .. N |-> IF n = 0 THEN start ELSE CleanStep(cl[n - 1], p)]
  BY <1>7
<1> HIDE DEF cl, T, N
<1> DEFINE U == {n \in Nat : n <= N => cl[n] = g[n]}
<1>9. U = Nat
  <2>1. 0 \in U
    BY <1>0, <1>2, <1>8
  <2>2. ASSUME NEW n \in U
        PROVE  n + 1 \in U
    <3>1. CASE n + 1 <= N
      <4>1. n \in Nat /\ n <= N /\ n + 1 \in 0 .. N /\ n + 1 \in 1 .. N /\ n + 1 # 0
            /\ (n + 1) - 1 = n
        BY <1>0, <3>1
      <4>2. cl[n] = g[n]
        BY <4>1
      <4>3. cl[n + 1] = CleanStep(cl[n], p)
        BY <4>1, <1>8
      <4>4. g[n + 1] = CleanStep(g[n], p)
        BY <4>1, <1>6
      <4> QED
        BY <4>1, <4>2, <4>3, <4>4
    <3>2. CASE ~(n + 1 <= N)
      BY <3>2
    <3> QED
      BY <3>1, <3>2
  <2>3. U \in SUBSET Nat
    OBVIOUS
  <2> HIDE DEF U
  <2> QED
    BY <2>1, <2>2, <2>3, NatSetInduction
<1>10. Cleaned(p) = g[N] /\ CleanInv(N, g[N]) /\ g[N] \in Cleans
  <2>1. N \in U /\ N \in T /\ N \in 0 .. N /\ N <= N
    BY <1>0, <1>5, <1>9
  <2> QED
    BY <2>1, <1>2, <1>3 DEF U, T
<1> QED
  BY <1>10 DEF CleanInv, Cleans

-----------------------------------------------------------------------------
(* The inductive invariant of the list. *)

Places == {"user", "call", "asleep", "woken", "intr", "plock", "io"}
Codes == {"ok", "EAGAIN", "EDEADLK", "ENOLCK", "EINTR"}

LockInv ==
  /\ list \in Seq(Rec) /\ Normal(list) /\ Quiet(list, {})
  /\ blk \in [Proc -> Proc \cup {NoProc}]
  /\ IsFiniteSet(Entries(blk)) /\ Free(list, blk) >= 0
  /\ pc \in [Proc -> Places]
  /\ req \in [Proc -> Request \cup {NoCall}]
  /\ \A p \in Proc : pc[p] # "user" => req[p] \in Lock
  /\ ilock \in Proc \cup {NoProc}
  /\ size \in 0 .. MAXEND + 1
  /\ ret \in (Proc \X Codes) \cup {NoRet}
  /\ SleepersAreBlocked

(* The entry of a process taken out of sleeplcks. *)
LEMMA DroppedIs ==
  ASSUME blk \in [Proc -> Proc \cup {NoProc}], IsFiniteSet(Entries(blk)),
         NEW p \in Proc, NEW l, Len(l) \in Nat, Free(l, blk) >= 0
  PROVE  /\ Dropped(p) \in [Proc -> Proc \cup {NoProc}]
         /\ \A q \in Proc : q # p => Dropped(p)[q] = blk[q]
         /\ IsFiniteSet(Entries(Dropped(p))) /\ p \notin Entries(Dropped(p))
         /\ Free(l, Dropped(p)) >= 0
<1> DEFINE d == Dropped(p)
<1>1. d \in [Proc -> Proc \cup {NoProc}] /\ d[p] = NoProc
      /\ \A q \in Proc : q # p => d[q] = blk[q]
  BY DEF Dropped
<1> HIDE DEF d
<1>2. Entries(d) \subseteq Entries(blk) /\ p \notin Entries(d)
  BY <1>1 DEF Entries
<1>3. IsFiniteSet(Entries(d)) /\ Cardinality(Entries(d)) <= Cardinality(Entries(blk))
  BY <1>2, FS_Subset
<1>4. /\ Cardinality(Entries(blk)) \in Nat /\ Cardinality(Entries(d)) \in Nat
      /\ Free(l, blk) = recs - Len(l) - Cardinality(Entries(blk))
      /\ Free(l, d) = recs - Len(l) - Cardinality(Entries(d))
  BY <1>3, FreeIs
<1>5. Free(l, d) >= 0
  BY <1>3, <1>4, ConstAssumption
<1> QED
  BY <1>1, <1>2, <1>3, <1>5 DEF d

(* One process goes on, others are woken. *)
LEMMA GoesIs ==
  ASSUME pc \in [Proc -> Places], NEW p \in Proc, pc[p] # "asleep",
         NEW to \in Places, to # "asleep", NEW woken, woken \subseteq Asleep,
         Goes(p, to, woken)
  PROVE  /\ pc' \in [Proc -> Places] /\ pc'[p] = to
         /\ Asleep' = Asleep \ woken
         /\ \A q \in Proc : q # p /\ pc'[q] # "user" => pc[q] # "user"
<1>1. pc' \in [Proc -> Places]
  BY DEF Goes, Places
<1>2. \A q \in Proc : pc'[q] = IF q = p THEN to ELSE IF q \in woken THEN "woken" ELSE pc[q]
  BY DEF Goes
<1>3. \A q \in Proc : q \in Asleep' <=> q \in Asleep /\ q \notin woken
  BY <1>2 DEF Asleep
<1>4. Asleep' \subseteq Proc /\ Asleep \subseteq Proc
  BY DEF Asleep
<1>5. Asleep' = Asleep \ woken
  BY <1>3, <1>4
<1> QED
  BY <1>1, <1>2, <1>5 DEF Asleep

(* What sleeps on still sleeps for a record of the list. *)
LEMMA StillBlocked ==
  ASSUME SleepersAreBlocked, NEW woken, Kept(list', woken), Asleep' = Asleep \ woken,
         \A q \in Asleep' : blk'[q] = blk[q] /\ req'[q] = req[q]
  PROVE  SleepersAreBlocked'
<1> SUFFICES ASSUME NEW q \in Proc, pc'[q] = "asleep"
             PROVE  \E i \in DOMAIN list' :
                      /\ q \in list'[i].sleepers
                      /\ list'[i].wakeflg
                      /\ list'[i].pid = blk'[q]
                      /\ Excludes(list'[i], q, req'[q])
                      /\ list'[i].start <= req'[q].end /\ req'[q].start <= list'[i].end
  BY DEF SleepersAreBlocked, Excludes
<1>1. q \in Asleep' /\ q \in Asleep /\ q \notin woken /\ pc[q] = "asleep"
  BY DEF Asleep
<1>2. PICK i \in DOMAIN list :
        /\ q \in list[i].sleepers
        /\ list[i].wakeflg
        /\ list[i].pid = blk[q]
        /\ Excludes(list[i], q, req[q])
        /\ list[i].start <= req[q].end /\ req[q].start <= list[i].end
  BY <1>1 DEF SleepersAreBlocked
<1>3. list[i] \in Range(list')
  <2>1. list[i] \in Range(list) /\ q \in WAKEUP(list[i])
    BY <1>2 DEF Range, WAKEUP
  <2> QED
    BY <2>1, <1>1 DEF Kept
<1>4. PICK j \in DOMAIN list' : list'[j] = list[i]
  BY <1>3 DEF Range
<1>5. blk'[q] = blk[q] /\ req'[q] = req[q]
  BY <1>1
<1> QED
  BY <1>2, <1>4, <1>5

(* The list as a call left it, when the woken no longer sleep. *)
LEMMA QuietAfter ==
  ASSUME NEW woken, Quiet(list', woken), Asleep' = Asleep \ woken
  PROVE  Quiet(list, {})'
<1>1. \A i \in DOMAIN list' : list'[i].sleepers \subseteq Asleep'
  BY DEF Quiet
<1>2. \A i, j \in DOMAIN list' : i # j => list'[i].sleepers \cap list'[j].sleepers = {}
  BY DEF Quiet
<1> QED
  BY <1>1, <1>2 DEF Quiet

(* A call that returns, with the list changed or not. *)
LEMMA ReturnKeeps ==
  ASSUME LockInv, NEW p \in Proc, pc[p] \notin {"user", "asleep"},
         NEW code \in Codes, NEW woken, Returns(p, code, woken), blk' = Dropped(p),
         list' \in Seq(Rec), Normal(list'), Free(list', Dropped(p)) >= 0,
         Kept(list', woken), Quiet(list', woken)
  PROVE  LockInv'
<1> DEFINE io == ~SetsLock(req[p]) /\ code = "ok"
           to == IF io THEN "io" ELSE "user"
<1>1. /\ Goes(p, to, woken) /\ ret' = <<p, code>> /\ size' = size
      /\ req' = IF io THEN req ELSE [req EXCEPT ![p] = NoCall]
      /\ ilock' = IF io THEN p ELSE IF ilock = p THEN NoProc ELSE ilock
  BY DEF Returns
<1>2. to \in Places /\ to # "asleep"
  BY DEF Places
<1>3. woken \subseteq Asleep
  BY DEF Quiet
<1>4. /\ pc' \in [Proc -> Places] /\ pc'[p] = to /\ Asleep' = Asleep \ woken
      /\ \A q \in Proc : q # p /\ pc'[q] # "user" => pc[q] # "user"
  <2> HIDE DEF to
  <2> QED
    BY <1>1, <1>2, <1>3, GoesIs DEF LockInv
<1>5. /\ blk' \in [Proc -> Proc \cup {NoProc}] /\ IsFiniteSet(Entries(blk'))
      /\ \A q \in Proc : q # p => blk'[q] = blk[q]
  <2>1. Len(list) \in Nat
    BY DEF LockInv
  <2> QED
    BY <2>1, DroppedIs DEF LockInv
<1>6. /\ req' \in [Proc -> Request \cup {NoCall}]
      /\ \A q \in Proc : q # p => req'[q] = req[q]
      /\ io => req'[p] = req[p]
  BY <1>1 DEF LockInv
<1>7. \A q \in Proc : pc'[q] # "user" => req'[q] \in Lock
  <2>1. io => req[p] \in Lock
    BY DEF LockInv
  <2> QED
    BY <2>1, <1>4, <1>6 DEF LockInv
<1>8. ilock' \in Proc \cup {NoProc} /\ size' \in 0 .. MAXEND + 1
      /\ ret' \in (Proc \X Codes) \cup {NoRet}
  BY <1>1 DEF LockInv
<1>9. SleepersAreBlocked'
  <2>1. \A q \in Asleep' : q \in Proc /\ q # p
    BY <1>2, <1>4 DEF Asleep
  <2> QED
    BY <2>1, <1>4, <1>5, <1>6, StillBlocked DEF LockInv
<1>10. Quiet(list, {})'
  BY <1>4, QuietAfter
<1>11. Free(list', blk') >= 0
  OBVIOUS
<1>12. Free(list, blk)' >= 0
  BY <1>11 DEF Free
<1>13. IsFiniteSet(Entries(blk))' /\ Normal(list)'
  BY <1>5 DEF Entries, Normal, Apart
<1> QED
  BY <1>4, <1>5, <1>6, <1>7, <1>8, <1>9, <1>10, <1>12, <1>13 DEF LockInv, Lock, Rec

LEMMA SetLockKeeps ==
  ASSUME LockInv, NEW p \in Proc, pc[p] \notin {"user", "asleep"}, SetLock(p)
  PROVE  LockInv'
<1> DEFINE rq == req[p]
           bl == blocked(p, rq)
           head == IF list = <<>> THEN 0 ELSE 1
           at == IF rq.type = "F_UNLCK" THEN head ELSE bl.insrt
           b == Dropped(p)
           s == flckadj(p, at, rq, b)
<1>1. list' = s.l /\ Returns(p, s.code, s.woken) /\ blk' = b
  BY DEF SetLock
<1>2. /\ rq \in Lock /\ list \in Seq(Rec) /\ Len(list) \in Nat
      /\ Normal(list) /\ Quiet(list, {}) /\ DOMAIN list = 1 .. Len(list)
  BY DEF LockInv
<1>3. IsFiniteSet(Entries(b)) /\ Free(list, b) >= 0
  BY <1>2, DroppedIs DEF LockInv
<1>4. /\ at \in 0 .. Len(list)
      /\ \A i \in DOMAIN list : i < at /\ list[i].pid = p => Apart(list[i], rq)
      /\ rq.type # "F_UNLCK" => Room(list, at, rq.start)
  <2>1. CASE rq.type = "F_UNLCK"
    <3>1. at = head /\ head \in {0, 1} /\ head <= Len(list)
      BY <2>1, <1>2
    <3> HIDE DEF at, head
    <3>2. \A i \in DOMAIN list : ~(i < at)
      BY <3>1, <1>2
    <3> QED
      BY <2>1, <3>1, <3>2, <1>2
  <2>2. CASE rq.type # "F_UNLCK"
    <3>1. at = bl.insrt
      BY <2>2
    <3>2. /\ bl.insrt \in 0 .. Len(list)
          /\ \A i \in DOMAIN list : i < bl.insrt /\ list[i].pid = p => Apart(list[i], rq)
          /\ Room(list, bl.insrt, rq.start)
      <4> HIDE DEF rq
      <4> QED
        BY <1>2, BlockedIs
    <3> QED
      BY <3>1, <3>2
  <2> QED
    BY <2>1, <2>2
<1>5. /\ s.l \in Seq(Rec) /\ Normal(s.l) /\ Free(s.l, b) >= 0
      /\ Kept(s.l, s.woken) /\ Quiet(s.l, s.woken) /\ s.woken \in SUBSET Proc
      /\ s.code \in {"ok", "ENOLCK"}
  <2> HIDE DEF rq, at, b
  <2> QED
    BY <1>2, <1>3, <1>4, FlckadjIs
<1> HIDE DEF s
<1>6. s.code \in Codes
  BY <1>5 DEF Codes
<1>7. /\ list' \in Seq(Rec) /\ Normal(list') /\ Free(list', Dropped(p)) >= 0
      /\ Kept(list', s.woken) /\ Quiet(list', s.woken)
  BY <1>1, <1>5
<1> QED
  BY <1>1, <1>6, <1>7, ReturnKeeps

(* A call that returns and leaves the list as it is. *)
LEMMA LeaveKeeps ==
  ASSUME LockInv, NEW p \in Proc, pc[p] \notin {"user", "asleep"},
         NEW code \in Codes, Returns(p, code, {}), blk' = Dropped(p), UNCHANGED list
  PROVE  LockInv'
<1>1. /\ list' \in Seq(Rec) /\ Normal(list') /\ Len(list) \in Nat /\ Quiet(list', {})
  BY DEF LockInv
<1>2. Free(list', Dropped(p)) >= 0
  BY <1>1, DroppedIs DEF LockInv
<1>3. Kept(list', {})
  BY DEF Kept
<1> QED
  BY <1>1, <1>2, <1>3, ReturnKeeps

(* What changes in a record that is slept for, or no longer slept for. *)
Alike(f, g) ==
  g \in Rec /\ g.pid = f.pid /\ g.type = f.type /\ g.start = f.start /\ g.end = f.end

LEMMA AlikeNormal ==
  ASSUME NEW l \in Seq(Rec), NEW m \in Seq(Rec), Normal(l), DOMAIN m = DOMAIN l,
         \A i \in DOMAIN l : Alike(l[i], m[i])
  PROVE  Normal(m)
BY DEF Normal, Apart, Alike

LEMMA SleepKeeps ==
  ASSUME LockInv, NEW p \in Proc, pc[p] \notin {"user", "asleep"}, Sleep(p)
  PROVE  LockInv'
<1> DEFINE rq == req[p]
           k == blocked(p, rq).found
           f == list[k]
           g == [f EXCEPT !.wakeflg = TRUE, !.sleepers = @ \cup {p}]
           d == Dropped(p)
<1>1. /\ list' = [list EXCEPT ![k].wakeflg = TRUE, ![k].sleepers = @ \cup {p}]
      /\ blk' = [blk EXCEPT ![p] = f.pid]
      /\ Goes(p, "asleep", {})
      /\ ilock' = IF ilock = p THEN NoProc ELSE ilock
      /\ ret' = NoRet /\ req' = req /\ size' = size
      /\ IsBlocked(p) /\ Free(list, d) > 0
  BY DEF Sleep
<1>2. /\ rq \in Lock /\ list \in Seq(Rec) /\ Len(list) \in Nat
      /\ Normal(list) /\ Quiet(list, {}) /\ DOMAIN list = 1 .. Len(list)
  BY DEF LockInv
<1>3. /\ k \in DOMAIN list /\ Excludes(f, p, rq)
      /\ f.start <= rq.end /\ rq.start <= f.end
  <2>1. k # 0
    BY <1>1 DEF IsBlocked
  <2>2. LET bl == blocked(p, rq)
        IN  /\ bl.found \in 0 .. Len(list)
            /\ bl.found # 0 => /\ Excludes(list[bl.found], p, rq)
                               /\ list[bl.found].start <= rq.end
                               /\ rq.start <= list[bl.found].end
    <3> HIDE DEF rq
    <3> QED
      BY <1>2, BlockedIs
  <2>3. k \in 0 .. Len(list)
    BY <2>2
  <2>4. k \in DOMAIN list
    <3> HIDE DEF k
    <3> QED
      BY <2>1, <2>3, <1>2
  <2> QED
    BY <2>1, <2>2, <2>4
<1> HIDE DEF k
<1>4. f \in Rec /\ f.pid \in Proc
  BY <1>2, <1>3, RecIs
<1>5. /\ Alike(f, g) /\ g.wakeflg = TRUE /\ g.sleepers = f.sleepers \cup {p}
  BY <1>4 DEF Rec, Alike
<1>6. list' = [list EXCEPT ![k] = g]
  <2>1. DOMAIN list = 1 .. Len(list) /\ list[k] \in Rec
    BY <1>2, <1>4
  <2> QED
    BY <1>1, <1>2, <1>3 DEF Rec
<1>7. /\ list' \in Seq(Rec) /\ Len(list') = Len(list) /\ DOMAIN list' = DOMAIN list
      /\ list'[k] = g /\ \A i \in DOMAIN list : i # k => list'[i] = list[i]
  BY <1>2, <1>3, <1>5, <1>6 DEF Alike
<1> HIDE DEF g
<1>8. Normal(list')
  <2>1. \A i \in DOMAIN list : Alike(list[i], list'[i])
    BY <1>2, <1>5, <1>7 DEF Alike
  <2> QED
    BY <2>1, <1>2, <1>7, AlikeNormal
<1>9. \A q \in Proc : pc'[q] = IF q = p THEN "asleep" ELSE pc[q]
  BY <1>1 DEF Goes
<1>10. pc' \in [Proc -> Places] /\ Asleep' = Asleep \cup {p} /\ p \notin Asleep
  <2>1. pc' \in [Proc -> Places]
    BY <1>1 DEF Goes, Places, LockInv
  <2>2. Asleep' = Asleep \cup {p}
    BY <1>9 DEF Asleep
  <2> QED
    BY <2>1, <2>2 DEF Asleep
<1>11. Quiet(list, {})'
  <2>1. \A i \in DOMAIN list : list[i].sleepers \subseteq Asleep
    BY <1>2 DEF Quiet
  <2>2. \A i, j \in DOMAIN list : i # j => list[i].sleepers \cap list[j].sleepers = {}
    BY <1>2 DEF Quiet
  <2>3. \A i \in DOMAIN list' : /\ list'[i].sleepers \subseteq Asleep'
                                /\ list'[i].sleepers \subseteq
                                     IF i = k THEN list[i].sleepers \cup {p} ELSE list[i].sleepers
    BY <2>1, <1>5, <1>7, <1>10
  <2>4. \A i, j \in DOMAIN list' : i # j => list'[i].sleepers \cap list'[j].sleepers = {}
    BY <2>1, <2>2, <2>3, <1>7, <1>10
  <2>5. \A i \in DOMAIN list' : list'[i].sleepers \subseteq Asleep'
    BY <2>3
  <2> QED
    BY <2>4, <2>5 DEF Quiet
<1>12. /\ blk' \in [Proc -> Proc \cup {NoProc}] /\ blk'[p] = f.pid
       /\ \A q \in Proc : q # p => blk'[q] = blk[q]
       /\ Entries(blk') = Entries(d) \cup {p}
  <2>1. /\ blk' \in [Proc -> Proc \cup {NoProc}] /\ blk'[p] = f.pid
        /\ \A q \in Proc : q # p => blk'[q] = blk[q]
    BY <1>1, <1>4 DEF LockInv
  <2>2. \A q \in Proc : d[q] = IF q = p THEN NoProc ELSE blk[q]
    BY DEF Dropped, LockInv
  <2>3. f.pid # NoProc
    BY <1>4, ConstAssumption
  <2> HIDE DEF f, d
  <2> QED
    BY <2>1, <2>2, <2>3 DEF Entries
<1>13. IsFiniteSet(Entries(blk')) /\ Free(list', blk') >= 0
  <2>1. IsFiniteSet(Entries(d)) /\ p \notin Entries(d)
    BY <1>2, DroppedIs DEF LockInv
  <2>2. /\ IsFiniteSet(Entries(d) \cup {p})
        /\ Cardinality(Entries(d) \cup {p}) = Cardinality(Entries(d)) + 1
    <3> HIDE DEF d
    <3> QED
      BY <2>1, FS_AddElement
  <2>3. /\ Cardinality(Entries(d)) \in Nat
        /\ Free(list, d) = recs - Len(list) - Cardinality(Entries(d))
    <3> HIDE DEF d
    <3> QED
      BY <2>1, <1>2, FreeIs
  <2>4. IsFiniteSet(Entries(blk'))
    BY <1>12, <2>2
  <2>5. Free(list', blk') = recs - Len(list') - Cardinality(Entries(blk'))
    BY DEF Free, Entries
  <2>6. /\ Cardinality(Entries(blk')) = Cardinality(Entries(d)) + 1
        /\ Len(list') = Len(list) /\ Len(list) \in Nat
        /\ Free(list, d) > 0 /\ recs \in Nat
    BY <2>2, <1>1, <1>2, <1>7, <1>12, ConstAssumption
  <2> HIDE DEF d
  <2>7. Free(list', blk') = Free(list, d) - 1 /\ Free(list, d) \in Int
    BY <2>3, <2>5, <2>6
  <2>8. Free(list', blk') >= 0
    BY <2>6, <2>7
  <2> QED
    BY <2>4, <2>8
<1>14. SleepersAreBlocked'
  <2> SUFFICES ASSUME NEW q \in Proc, pc'[q] = "asleep"
               PROVE  \E i \in DOMAIN list' :
                        /\ q \in list'[i].sleepers
                        /\ list'[i].wakeflg
                        /\ list'[i].pid = blk'[q]
                        /\ Excludes(list'[i], q, req'[q])
                        /\ list'[i].start <= req'[q].end /\ req'[q].start <= list'[i].end
    BY DEF SleepersAreBlocked, Excludes
  <2>1. CASE q = p
    <3>1. /\ k \in DOMAIN list' /\ p \in list'[k].sleepers /\ list'[k].wakeflg
          /\ list'[k].pid = blk'[p] /\ Excludes(list'[k], p, rq)
          /\ list'[k].start <= rq.end /\ rq.start <= list'[k].end
      BY <1>3, <1>5, <1>7, <1>12 DEF Excludes, Alike
    <3> QED
      BY <3>1, <2>1, <1>1
  <2>2. CASE q # p
    <3>1. pc[q] = "asleep"
      BY <2>2, <1>9
    <3>2. PICK i \in DOMAIN list :
            /\ q \in list[i].sleepers
            /\ list[i].wakeflg
            /\ list[i].pid = blk[q]
            /\ Excludes(list[i], q, req[q])
            /\ list[i].start <= req[q].end /\ req[q].start <= list[i].end
      BY <3>1 DEF LockInv, SleepersAreBlocked
    <3>3. /\ i \in DOMAIN list' /\ Alike(list[i], list'[i])
          /\ q \in list'[i].sleepers /\ list'[i].wakeflg
      BY <3>2, <1>2, <1>5, <1>7 DEF Alike
    <3>4. Excludes(list'[i], q, req[q])
      BY <3>2, <3>3 DEF Excludes, Alike
    <3> QED
      BY <2>2, <3>2, <3>3, <3>4, <1>1, <1>12 DEF Alike
  <2> QED
    BY <2>1, <2>2
<1>15. \A q \in Proc : pc'[q] # "user" => req'[q] \in Lock
  BY <1>1, <1>2, <1>9 DEF LockInv
<1>16. /\ ilock' \in Proc \cup {NoProc} /\ size' \in 0 .. MAXEND + 1
       /\ ret' \in (Proc \X Codes) \cup {NoRet}
       /\ req' \in [Proc -> Request \cup {NoCall}]
  BY <1>1 DEF LockInv
<1>17. IsFiniteSet(Entries(blk))' /\ Free(list, blk)' >= 0 /\ Normal(list)'
  BY <1>8, <1>13 DEF Entries, Free, Normal, Apart
<1>18. (list \in Seq(Rec))' /\ (\A q \in Proc : pc[q] # "user" => req[q] \in Lock)'
  BY <1>7, <1>15 DEF Rec, Lock
<1> QED
  BY <1>10, <1>11, <1>12, <1>14, <1>16, <1>17, <1>18 DEF LockInv

LEMMA ReclockLocks ==
  ASSUME LockInv, NEW p \in Proc, pc[p] \notin {"user", "asleep"}, Reclock(p)
  PROVE  LockInv'
<1>1. CASE SetLock(p)
  BY <1>1, SetLockKeeps
<1>2. CASE Clear(p)
  BY <1>2, LeaveKeeps DEF Clear, Codes
<1>3. CASE Refused(p)
  <2>1. PICK code \in Codes : Returns(p, code, {})
    BY <1>3 DEF Refused, Codes
  <2>2. blk' = Dropped(p) /\ UNCHANGED list
    BY <1>3 DEF Refused
  <2> QED
    BY <2>1, <2>2, LeaveKeeps
<1>4. CASE Sleep(p)
  BY <1>4, SleepKeeps
<1> QED
  BY <1>1, <1>2, <1>3, <1>4 DEF Reclock

LEMMA SignalKeeps ==
  ASSUME LockInv, NEW p \in Proc, Signal(p)
  PROVE  LockInv'
<1> DEFINE g(i) == [list[i] EXCEPT !.sleepers = @ \ {p}]
<1>1. /\ pc' = [pc EXCEPT ![p] = "intr"] /\ list' = [i \in DOMAIN list |-> g(i)]
      /\ ret' = NoRet /\ blk' = blk /\ req' = req /\ ilock' = ilock /\ size' = size
      /\ pc[p] # "user"
  BY DEF Signal, inode
<1>2. list \in Seq(Rec) /\ Len(list) \in Nat /\ DOMAIN list = 1 .. Len(list)
      /\ Normal(list) /\ Quiet(list, {})
  BY DEF LockInv
<1>3. \A i \in DOMAIN list : /\ Alike(list[i], g(i)) /\ g(i).wakeflg = list[i].wakeflg
                             /\ g(i).sleepers = list[i].sleepers \ {p}
  <2>1. \A i \in DOMAIN list : list[i] \in Rec
    BY <1>2
  <2> QED
    BY <2>1 DEF Rec, Alike
<1>4. /\ DOMAIN list' = DOMAIN list
      /\ \A i \in DOMAIN list : /\ Alike(list[i], list'[i]) /\ list'[i].wakeflg = list[i].wakeflg
                                /\ list'[i].sleepers = list[i].sleepers \ {p}
  BY <1>1, <1>3
<1>5. list' \in Seq(Rec) /\ Len(list') = Len(list)
  <2>1. \A i \in 1 .. Len(list) : g(i) \in Rec
    BY <1>2, <1>3 DEF Alike
  <2>2. list' = [i \in 1 .. Len(list) |-> g(i)]
    BY <1>1, <1>2
  <2> HIDE DEF g
  <2> QED
    BY <2>1, <2>2, <1>2
<1> HIDE DEF g
<1>6. Normal(list')
  BY <1>2, <1>4, <1>5, AlikeNormal
<1>7. pc' \in [Proc -> Places] /\ Asleep' = Asleep \ {p}
      /\ \A q \in Proc : q # p => pc'[q] = pc[q]
  BY <1>1 DEF LockInv, Places, Asleep
<1>8. Quiet(list, {})'
  <2>1. \A i \in DOMAIN list' : list'[i].sleepers \subseteq Asleep'
    BY <1>2, <1>4, <1>7 DEF Quiet
  <2>2. \A i, j \in DOMAIN list' : i # j => list'[i].sleepers \cap list'[j].sleepers = {}
    BY <1>2, <1>4 DEF Quiet
  <2> QED
    BY <2>1, <2>2 DEF Quiet
<1>9. SleepersAreBlocked'
  <2> SUFFICES ASSUME NEW q \in Proc, pc'[q] = "asleep"
               PROVE  \E i \in DOMAIN list' :
                        /\ q \in list'[i].sleepers
                        /\ list'[i].wakeflg
                        /\ list'[i].pid = blk'[q]
                        /\ Excludes(list'[i], q, req'[q])
                        /\ list'[i].start <= req'[q].end /\ req'[q].start <= list'[i].end
    BY DEF SleepersAreBlocked, Excludes
  <2>1. q # p /\ pc[q] = "asleep"
    BY <1>1, <1>7 DEF LockInv
  <2>2. PICK i \in DOMAIN list :
          /\ q \in list[i].sleepers
          /\ list[i].wakeflg
          /\ list[i].pid = blk[q]
          /\ Excludes(list[i], q, req[q])
          /\ list[i].start <= req[q].end /\ req[q].start <= list[i].end
    BY <2>1 DEF LockInv, SleepersAreBlocked
  <2>3. Excludes(list'[i], q, req[q])
    BY <2>2, <1>4 DEF Excludes, Alike
  <2> QED
    BY <2>1, <2>2, <2>3, <1>1, <1>4 DEF Alike
<1>10. Free(list', blk') >= 0
  BY <1>1, <1>5 DEF LockInv, Free
<1>11. /\ IsFiniteSet(Entries(blk))' /\ Free(list, blk)' >= 0 /\ Normal(list)'
  BY <1>1, <1>6, <1>10 DEF Entries, Free, Normal, Apart, LockInv
<1>12. \A q \in Proc : pc'[q] # "user" => req'[q] \in Lock
  BY <1>1, <1>7 DEF LockInv
<1> QED
  BY <1>1, <1>5, <1>7, <1>8, <1>9, <1>11, <1>12 DEF LockInv, Lock, Rec

LEMMA CleanKeeps ==
  ASSUME LockInv, NEW p \in Proc, cleanlocks(p)
  PROVE  LockInv'
<1> DEFINE l == Cleaned(p).l
           woken == Cleaned(p).woken
<1>1. /\ pc[p] = "user" /\ list' = l /\ Goes(p, "user", woken) /\ ret' = NoRet
      /\ blk' = blk /\ req' = req /\ ilock' = ilock /\ size' = size
  BY DEF cleanlocks, inode
<1>2. /\ l \in Seq(Rec) /\ Normal(l) /\ Len(l) <= Len(list)
      /\ Kept(l, woken) /\ Quiet(l, woken) /\ woken \in SUBSET Proc
  BY CleanedIs DEF LockInv
<1> HIDE DEF l, woken
<1>3. /\ pc' \in [Proc -> Places] /\ pc'[p] = "user" /\ Asleep' = Asleep \ woken
      /\ \A q \in Proc : q # p /\ pc'[q] # "user" => pc[q] # "user"
  <2>1. woken \subseteq Asleep
    BY <1>2 DEF Quiet
  <2>2. "user" \in Places
    BY DEF Places
  <2> QED
    BY <2>1, <2>2, <1>1, GoesIs DEF LockInv
<1>4. SleepersAreBlocked'
  BY <1>1, <1>2, <1>3, StillBlocked DEF LockInv
<1>5. Quiet(list, {})'
  BY <1>1, <1>2, <1>3, QuietAfter
<1>6. Free(list', blk') >= 0
  <2>1. Len(l) \in Nat /\ Len(list) \in Nat
    BY <1>2 DEF LockInv
  <2>2. /\ Cardinality(Entries(blk)) \in Nat
        /\ Free(l, blk) = recs - Len(l) - Cardinality(Entries(blk))
        /\ Free(list, blk) = recs - Len(list) - Cardinality(Entries(blk))
    BY <2>1, FreeIs DEF LockInv
  <2>3. Free(l, blk) >= 0
    BY <2>1, <2>2, <1>2, ConstAssumption DEF LockInv
  <2> QED
    BY <2>3, <1>1
<1>7. IsFiniteSet(Entries(blk))' /\ Free(list, blk)' >= 0 /\ Normal(list)'
  BY <1>1, <1>2, <1>6 DEF Entries, Free, Normal, Apart, LockInv
<1>8. \A q \in Proc : pc'[q] # "user" => req'[q] \in Lock
  BY <1>1, <1>3 DEF LockInv
<1> QED
  BY <1>1, <1>2, <1>3, <1>4, <1>5, <1>7, <1>8 DEF LockInv, Lock, Rec

(* A process goes on and the list stays as it is. *)
LEMMA MoveKeeps ==
  ASSUME LockInv, NEW p \in Proc, pc[p] # "asleep",
         NEW to \in Places, to # "asleep", pc' = [pc EXCEPT ![p] = to],
         NEW rq \in Request \cup {NoCall}, to # "user" => rq \in Lock,
         req' = [req EXCEPT ![p] = rq],
         UNCHANGED list, blk' = blk \/ blk' = Dropped(p),
         ilock' \in Proc \cup {NoProc}, size' \in 0 .. MAXEND + 1, ret' = NoRet
  PROVE  LockInv'
<1>1. /\ pc' \in [Proc -> Places] /\ pc'[p] = to
      /\ \A q \in Proc : q # p => pc'[q] = pc[q]
  BY DEF LockInv
<1>2. /\ req' \in [Proc -> Request \cup {NoCall}] /\ req'[p] = rq
      /\ \A q \in Proc : q # p => req'[q] = req[q]
  BY DEF LockInv
<1>3. Asleep' = Asleep \ {}
  BY <1>1 DEF Asleep
<1>4. /\ blk' \in [Proc -> Proc \cup {NoProc}] /\ IsFiniteSet(Entries(blk'))
      /\ Free(list, blk') >= 0
      /\ \A q \in Proc : q # p => blk'[q] = blk[q]
  <2>1. Len(list) \in Nat
    BY DEF LockInv
  <2>2. CASE blk' = blk
    BY <2>2 DEF LockInv
  <2>3. CASE blk' = Dropped(p)
    BY <2>1, <2>3, DroppedIs DEF LockInv
  <2> QED
    BY <2>2, <2>3
<1>5. SleepersAreBlocked'
  <2>1. \A q \in Asleep' : q \in Proc /\ q # p
    BY <1>1 DEF Asleep
  <2>2. Kept(list', {})
    BY DEF Kept
  <2> QED
    BY <2>1, <2>2, <1>2, <1>3, <1>4, StillBlocked DEF LockInv
<1>6. Quiet(list, {})'
  <2>1. Quiet(list', {})
    BY DEF LockInv
  <2> QED
    BY <2>1, <1>3, QuietAfter
<1>7. IsFiniteSet(Entries(blk))' /\ Free(list, blk)' >= 0 /\ Normal(list)'
  BY <1>4 DEF Entries, Free, Normal, Apart, LockInv
<1>8. \A q \in Proc : pc'[q] # "user" => req'[q] \in Lock
  BY <1>1, <1>2 DEF LockInv
<1>9. (list \in Seq(Rec))' /\ (\A q \in Proc : pc[q] # "user" => req[q] \in Lock)'
  BY <1>8 DEF LockInv, Rec, Lock
<1> QED
  BY <1>1, <1>2, <1>4, <1>5, <1>6, <1>7, <1>9 DEF LockInv

LEMMA CallsAre ==
  ASSUME NEW rq \in Calls
  PROVE  rq \in Lock /\ rq \in Request
BY ConstAssumption DEF Lock

LEMMA RdwrKeeps ==
  ASSUME LockInv, NEW p \in Proc, NEW rq \in Calls, rdwr(p, rq)
  PROVE  LockInv'
<1> DEFINE there == IF rq.append
                      THEN [rq EXCEPT !.start = size, !.end = size + (rq.end - rq.start)]
                      ELSE rq
<1>1. /\ pc[p] = "user" /\ there.end <= MAXEND /\ pc' = [pc EXCEPT ![p] = "call"]
      /\ req' = [req EXCEPT ![p] = there] /\ ilock' = p /\ ret' = NoRet
      /\ list' = list /\ blk' = blk /\ size' = size
  BY DEF rdwr
<1>2. rq \in Lock /\ rq \in Request
  BY CallsAre
<1>3. there \in Lock /\ there \in Request
  <2>1. CASE rq.append
    <3>1. /\ size \in Nat /\ rq.start \in Nat /\ rq.end \in Nat /\ rq.start <= rq.end
      BY <1>2 DEF LockInv, Lock, Request
    <3>2. there = [rq EXCEPT !.start = size, !.end = size + (rq.end - rq.start)]
      BY <2>1
    <3>3. there.start = size /\ there.end = size + (rq.end - rq.start)
      BY <3>2, <1>2 DEF Request
    <3>4. size \in 0 .. MAXEND /\ size + (rq.end - rq.start) \in 0 .. MAXEND
          /\ size <= size + (rq.end - rq.start)
      <4> HIDE DEF there
      <4> QED
        BY <3>1, <3>3, <1>1, ConstAssumption
    <3>5. there \in Request
      BY <3>2, <3>4, <1>2 DEF Request
    <3> HIDE DEF there
    <3> QED
      BY <3>3, <3>4, <3>5 DEF Lock
  <2>2. CASE ~rq.append
    BY <2>2, <1>2
  <2> QED
    BY <2>1, <2>2
<1> HIDE DEF there
<1>4. "call" \in Places /\ ilock' \in Proc \cup {NoProc} /\ size' \in 0 .. MAXEND + 1
  BY <1>1 DEF Places, LockInv
<1> QED
  BY <1>1, <1>3, <1>4, MoveKeeps

LEMMA ResumeKeeps ==
  ASSUME LockInv, NEW p \in Proc, Resume(p)
  PROVE  LockInv'
<1>1. pc[p] = "woken"
  BY DEF Resume
<1>2. CASE Reclock(p)
  BY <1>1, <1>2, ReclockLocks
<1>3. CASE /\ blk' = Dropped(p) /\ pc' = [pc EXCEPT ![p] = "plock"]
           /\ ret' = NoRet /\ UNCHANGED <<list, req, inode>>
  <2>1. req[p] \in Lock /\ req[p] \in Request \cup {NoCall}
    BY <1>1 DEF LockInv
  <2>2. req' = [req EXCEPT ![p] = req[p]]
    BY <1>3 DEF LockInv
  <2>3. "plock" \in Places /\ ilock' \in Proc \cup {NoProc} /\ size' \in 0 .. MAXEND + 1
    BY <1>3 DEF Places, LockInv, inode
  <2> QED
    BY <1>1, <1>3, <2>1, <2>2, <2>3, MoveKeeps
<1> QED
  BY <1>2, <1>3 DEF Resume

LEMMA TransferKeeps ==
  ASSUME LockInv, NEW p \in Proc, Transfer(p)
  PROVE  LockInv'
<1>1. /\ pc[p] = "io" /\ pc' = [pc EXCEPT ![p] = "user"]
      /\ req' = [req EXCEPT ![p] = NoCall] /\ ilock' = NoProc /\ ret' = NoRet
      /\ list' = list /\ blk' = blk
      /\ size' = size \/ size' = req[p].end + 1
  BY DEF Transfer
<1>2. req[p].end + 1 \in 0 .. MAXEND + 1
  BY <1>1, ConstAssumption DEF LockInv, Lock, Request
<1>3. "user" \in Places /\ size' \in 0 .. MAXEND + 1
  BY <1>1, <1>2 DEF Places, LockInv
<1> QED
  BY <1>1, <1>3, MoveKeeps

LEMMA LockInit == Init => LockInv
<1> SUFFICES ASSUME Init PROVE LockInv
  OBVIOUS
<1>1. /\ list = <<>> /\ blk = [p \in Proc |-> NoProc] /\ pc = [p \in Proc |-> "user"]
      /\ req = [p \in Proc |-> NoCall] /\ ilock = NoProc /\ size = 0 /\ ret = NoRet
  BY DEF Init
<1>2. list \in Seq(Rec) /\ Len(list) = 0 /\ DOMAIN list = {}
  BY <1>1
<1>3. Normal(list) /\ Quiet(list, {})
  BY <1>2 DEF Normal, Quiet
<1>4. Entries(blk) = {}
  BY <1>1 DEF Entries
<1>5. IsFiniteSet(Entries(blk)) /\ Free(list, blk) >= 0
  <2>1. IsFiniteSet({}) /\ Cardinality({}) = 0
    BY FS_EmptySet
  <2>2. Free(list, blk) = recs - Len(list) - Cardinality(Entries(blk))
    BY DEF Free, Entries
  <2> QED
    BY <2>1, <2>2, <1>2, <1>4, ConstAssumption
<1>6. SleepersAreBlocked
  BY <1>1 DEF SleepersAreBlocked
<1>7. size \in 0 .. MAXEND + 1 /\ pc \in [Proc -> Places]
  BY <1>1, ConstAssumption DEF Places
<1> QED
  BY <1>1, <1>2, <1>3, <1>5, <1>6, <1>7 DEF LockInv

LEMMA LockStep == LockInv /\ [Next]_vars => LockInv'
<1> SUFFICES ASSUME LockInv, [Next]_vars PROVE LockInv'
  OBVIOUS
<1>1. CASE UNCHANGED vars
  <2>1. /\ list' = list /\ blk' = blk /\ pc' = pc /\ req' = req /\ ilock' = ilock
        /\ size' = size /\ ret' = ret
    BY <1>1 DEF vars, procVars, inode
  <2>2. Asleep' = Asleep
    BY <2>1 DEF Asleep
  <2>3. Quiet(list, {})' /\ Normal(list)' /\ IsFiniteSet(Entries(blk))'
        /\ Free(list, blk)' >= 0 /\ SleepersAreBlocked'
    BY <2>1, <2>2 DEF LockInv, Quiet, Normal, Apart, Entries, Free, SleepersAreBlocked, Excludes
  <2>4. (list \in Seq(Rec))' /\ (\A q \in Proc : pc[q] # "user" => req[q] \in Lock)'
    BY <2>1 DEF LockInv, Rec, Lock
  <2> QED
    BY <2>1, <2>3, <2>4 DEF LockInv
<1>2. ASSUME NEW p \in Proc, NEW rq \in Calls, fcntl(p, rq)
      PROVE  LockInv'
  <2>1. /\ pc[p] = "user" /\ pc' = [pc EXCEPT ![p] = "call"]
        /\ req' = [req EXCEPT ![p] = rq] /\ ret' = NoRet
        /\ list' = list /\ blk' = blk /\ ilock' = ilock /\ size' = size
    BY <1>2 DEF fcntl, inode
  <2>2. rq \in Lock /\ rq \in Request
    BY CallsAre
  <2>3. "call" \in Places /\ ilock' \in Proc \cup {NoProc} /\ size' \in 0 .. MAXEND + 1
    BY <2>1 DEF Places, LockInv
  <2> QED
    BY <2>1, <2>2, <2>3, MoveKeeps
<1>3. ASSUME NEW p \in Proc, NEW rq \in Calls, rdwr(p, rq)
      PROVE  LockInv'
  BY <1>3, RdwrKeeps
<1>4. ASSUME NEW p \in Proc, Enter(p)
      PROVE  LockInv'
  BY <1>4, ReclockLocks DEF Enter
<1>5. ASSUME NEW p \in Proc, Signal(p)
      PROVE  LockInv'
  BY <1>5, SignalKeeps
<1>6. ASSUME NEW p \in Proc, Resume(p)
      PROVE  LockInv'
  BY <1>6, ResumeKeeps
<1>7. ASSUME NEW p \in Proc, plock(p)
      PROVE  LockInv'
  BY <1>7, ReclockLocks DEF plock
<1>8. ASSUME NEW p \in Proc, Interrupted(p)
      PROVE  LockInv'
  BY <1>8, LeaveKeeps DEF Interrupted, Codes
<1>9. ASSUME NEW p \in Proc, Transfer(p)
      PROVE  LockInv'
  BY <1>9, TransferKeeps
<1>10. ASSUME NEW p \in Proc, cleanlocks(p)
       PROVE  LockInv'
  BY <1>10, CleanKeeps
<1> QED
  BY <1>1, <1>2, <1>3, <1>4, <1>5, <1>6, <1>7, <1>8, <1>9, <1>10 DEF Next

LEMMA LockInvariant == Spec => []LockInv
BY LockInit, LockStep, PTL DEF Spec

(* Every value reclock and its callers keep is of its type: a record       *)
(* begins and ends in the file, however flckadj splits and joins it.       *)
THEOREM RecordTypes == Spec => []TypeOK
<1>1. LockInv => TypeOK
  <2> SUFFICES ASSUME LockInv PROVE TypeOK
    OBVIOUS
  <2> DEFINE R == [pid : Proc, type : {"F_RDLCK", "F_WRLCK"},
                   start : 0 .. MAXEND, end : 0 .. MAXEND,
                   wakeflg : BOOLEAN, sleepers : SUBSET Proc]
  <2>1. list \in Seq(Rec) /\ Rec \subseteq R
    BY DEF LockInv, Rec
  <2>2. list \in Seq(R)
    <3> HIDE DEF R
    <3> QED
      BY <2>1, SeqMonotonic
  <2> QED
    BY <2>2 DEF LockInv, TypeOK, Places, Codes
<1> QED
  BY <1>1, LockInvariant, PTL

(* flckadj, deleting, splitting, shortening and joining records, leaves    *)
(* the list of a file in order, the records of a process apart from each   *)
(* other, and no more records in use than there are.                       *)
THEOREM ListStaysNormal == Spec => []ListIsNormal
<1>1. LockInv => ListIsNormal
  BY DEF LockInv, ListIsNormal, Normal, Apart
<1> QED
  BY <1>1, LockInvariant, PTL

(* Whatever takes a record away or shortens it calls who sleeps for it     *)
(* (delflck, the WAKEUPs of flckadj): a process asleep in reclock is kept  *)
(* from its lock by a record that is there, is flagged and is that of the  *)
(* process it waits for.                                                   *)
THEOREM SleepersStayBlocked == Spec => []SleepersAreBlocked
<1>1. LockInv => SleepersAreBlocked
  BY DEF LockInv
<1> QED
  BY <1>1, LockInvariant, PTL
=============================================================================
