-------------------------- MODULE BlockStoreProofs --------------------------
(***************************************************************************)
(* The buffer cache implements the block store, for every number of        *)
(* processes, buffers and blocks: no store is dropped, the holder of a     *)
(* block sees the contents stored last, and every step of the cache is a   *)
(* step of BlockStore or changes nothing of it.                            *)
(*                                                                         *)
(* The last close of a device (s5closei) is excluded by the hypothesis of  *)
(* the theorems: it invalidates buffers whose writes are still queued, so  *)
(* that a later open may read what the queue has not yet written.          *)
(***************************************************************************)
EXTENDS BufferCacheProofs

-----------------------------------------------------------------------------
(* The invariant.  That no store is dropped is not inductive: a read that  *)
(* completes is right only because no other buffer of the block is dirty,  *)
(* and a write that completes only because the buffer holds what was       *)
(* stored last.                                                            *)

(* The combinations of flags the code leaves on a buffer: an invalid       *)
(* buffer is free and clean, a delayed write is complete and good, only    *)
(* the process that holds a buffer sees it in error.                       *)
Fit(b) ==
  /\ "STALE" \in flags[b] => "BUSY" \notin flags[b] /\ "DELWRI" \notin flags[b]
  /\ "DELWRI" \in flags[b] => "DONE" \in flags[b] /\ "ERROR" \notin flags[b]
  /\ "ERROR" \in flags[b] => "BUSY" \in flags[b]
  /\ b \in io => "DELWRI" \notin flags[b] /\ "ERROR" \notin flags[b]

(* The buffer has contents: it was read or written without error, or it    *)
(* is being written.                                                       *)
Valid(b) ==
  /\ "STALE" \notin flags[b]
  /\ \/ /\ "DONE" \in flags[b]
        /\ "ERROR" \notin flags[b]
     \/ /\ b \in io
        /\ "READ" \notin flags[b]

(* The contents are still to reach the disk. *)
Dirty(b) ==
  /\ "STALE" \notin flags[b]
  /\ \/ "DELWRI" \in flags[b]
     \/ b \in io /\ "READ" \notin flags[b]

Right(b) == Valid(b) /\ ident[b] \in Block \ failed => data[b] = cur[ident[b]]

Stored(k) == disk[k] = cur[k] \/ \E b \in Buf : ident[b] = k /\ Dirty(b)

StoreInv ==
  /\ \A b \in Buf : Fit(b)
  /\ \A b \in Buf : Right(b)
  /\ \A k \in Block \ failed : Stored(k)
  /\ \A p \in Proc : arg[p].k # "close"

(* What the other invariants say of the state before a step. *)
Ground == Inv /\ Assigned /\ OneBufferPerBlock /\ StoreInv

LEMMA DirtyIsValid ==
  ASSUME NEW b, Fit(b), Dirty(b)
  PROVE  Valid(b)
BY DEF Fit, Dirty, Valid

-----------------------------------------------------------------------------
(* A step that concerns one buffer and moves no data. *)
LEMMA BufferStep ==
  ASSUME StoreInv, NEW b \in Buf,
         UNCHANGED <<data, cur, disk, failed>>,
         \A c \in Buf : c # b => /\ flags'[c] = flags[c]
                                 /\ ident'[c] = ident[c]
                                 /\ c \in io' <=> c \in io,
         Fit(b)',
         Valid(b)' => Valid(b) /\ ident'[b] = ident[b],
         Dirty(b) => Dirty(b)' /\ ident'[b] = ident[b],
         \A p \in Proc : arg'[p].k # "close"
  PROVE  StoreInv'
<1>1. ASSUME NEW c \in Buf, c # b
      PROVE  /\ Fit(c)' <=> Fit(c)
             /\ Valid(c)' <=> Valid(c)
             /\ Dirty(c)' <=> Dirty(c)
             /\ ident'[c] = ident[c]
  BY <1>1 DEF Fit, Valid, Dirty
<1>2. \A c \in Buf : Fit(c)'
  BY <1>1 DEF StoreInv
<1>3. ASSUME NEW c \in Buf
      PROVE  Right(c)'
  <2>1. Valid(c)' => Valid(c) /\ ident'[c] = ident[c]
    BY <1>1
  <2>2. Right(c)
    BY DEF StoreInv
  <2>3. QED BY <2>1, <2>2 DEF Right
<1>4. ASSUME NEW k \in Block \ failed'
      PROVE  Stored(k)'
  <2>1. Stored(k)
    BY <1>4 DEF StoreInv
  <2>2. \A c \in Buf : Dirty(c) => Dirty(c)' /\ ident'[c] = ident[c]
    BY <1>1
  <2>3. QED BY <2>1, <2>2 DEF Stored
<1>5. QED BY <1>2, <1>3, <1>4 DEF StoreInv

(* A step that changes nothing the store depends on. *)
LEMMA StoreQuiet ==
  ASSUME StoreInv, UNCHANGED <<flags, ident, data, io, cur, disk, failed>>,
         \A p \in Proc : arg'[p].k # "close"
  PROVE  StoreInv'
BY DEF StoreInv, Fit, Valid, Dirty, Right, Stored

(* The holder stores a value and releases the buffer as a delayed write or *)
(* gives it to the device.                                                 *)
LEMMA HolderStores ==
  ASSUME Ground, NEW p \in Proc, NEW b \in Buf, b = mine[p], Store(p),
         \A c \in Buf : c # b => /\ flags'[c] = flags[c]
                                 /\ c \in io' <=> c \in io,
         Fit(b)', Dirty(b)',
         \A q \in Proc : arg'[q].k # "close"
  PROVE  StoreInv'
<1> DEFINE k == ident[b]
<1>1. /\ flags \in [Buf -> SUBSET Flag] /\ ident \in [Buf -> Block \cup {NoBlock}]
      /\ data \in [Buf -> Value] /\ cur \in [Block -> Value]
      /\ mine \in [Proc -> Buf \cup {NoBuf}]
  BY DEF Ground, Inv, TypeOK
<1>2. pc[p] = "hold" /\ "BUSY" \in flags[b]
  BY <1>1 DEF Store, At, Ground, Inv, Frames, Kept
<1>3. k \in Block
  BY <1>1, <1>2 DEF Store
<1>4. PICK v \in Value : /\ data' = [data EXCEPT ![b] = v]
                         /\ cur' = [cur EXCEPT ![k] = v]
  BY DEF Store
<1>5. failed' = failed \ {k} /\ ident' = ident /\ disk' = disk
  BY DEF Store
<1>6. "STALE" \notin flags[b]
  BY <1>2 DEF Ground, StoreInv, Fit
<1>7. ASSUME NEW c \in Buf, c # b
      PROVE  /\ Fit(c)' <=> Fit(c)
             /\ Valid(c)' <=> Valid(c)
             /\ Dirty(c)' <=> Dirty(c)
  BY <1>7 DEF Fit, Valid, Dirty
<1>8. ASSUME NEW c \in Buf, c # b, ident[c] = k
      PROVE  "STALE" \in flags[c]
  BY <1>2, <1>3, <1>6, <1>8, ConstAssumption DEF Ground, OneBufferPerBlock
<1>9. ASSUME NEW c \in Buf
      PROVE  Right(c)'
  <2>1. CASE c = b
    BY <1>1, <1>2, <1>3, <1>4, <1>5, <2>1 DEF Right
  <2>2. CASE c # b /\ ident[c] = k
    BY <1>7, <1>8, <2>2 DEF Right, Valid
  <2>3. CASE c # b /\ ident[c] # k
    <3>1. Right(c)
      BY DEF Ground, StoreInv
    <3>2. data'[c] = data[c] /\ ident'[c] = ident[c]
      BY <1>1, <1>4, <1>5, <2>3
    <3>3. ident[c] \in Block => cur'[ident[c]] = cur[ident[c]]
      BY <1>1, <1>4, <2>3
    <3>4. Valid(c)' => Valid(c)
      BY <1>7, <2>3
    <3> HIDE DEF k
    <3>5. QED BY <1>5, <2>3, <3>1, <3>2, <3>3, <3>4 DEF Right
  <2>4. QED BY <2>1, <2>2, <2>3
<1>10. ASSUME NEW m \in Block \ failed'
       PROVE  Stored(m)'
  <2>1. CASE m = k
    BY <1>2, <1>5, <2>1 DEF Stored
  <2>2. CASE m # k
    <3>1. Stored(m)
      BY <1>5, <1>10, <2>2 DEF Ground, StoreInv
    <3>2. disk'[m] = disk[m] /\ cur'[m] = cur[m]
      BY <1>1, <1>4, <1>5, <2>2
    <3>3. \A c \in Buf : ident[c] = m /\ Dirty(c) => ident'[c] = m /\ Dirty(c)'
      BY <1>5, <1>7, <2>2
    <3>4. QED BY <3>1, <3>2, <3>3 DEF Stored
  <2>3. QED BY <2>1, <2>2
<1>11. \A c \in Buf : Fit(c)'
  BY <1>7 DEF Ground, StoreInv
<1>12. QED BY <1>9, <1>10, <1>11 DEF StoreInv

-----------------------------------------------------------------------------
(* The steps of the cache. *)

LEMMA EnterStore ==
  ASSUME Ground, "close" \notin Ops, NEW p \in Proc, Enter(p)
  PROVE  StoreInv'
<1>1. \E a : a.k # "close" /\ arg' = [arg EXCEPT ![p] = a]
  BY DEF Enter, StartBread, StartGetblk, StartGeteblk, StartBreada, StartBflush,
         StartBdwait, StartBdflush, StartClose, Start, NoFrame
<1>2. UNCHANGED <<flags, ident, data, io, cur, disk, failed>>
  BY DEF Enter, StartBread, StartGetblk, StartGeteblk, StartBreada, StartBflush,
         StartBdwait, StartBdflush, StartClose, Start, bufVars, histVars
<1>3. arg \in [Proc -> Frame]
  BY DEF Ground, Inv, TypeOK
<1>4. \A q \in Proc : arg'[q].k # "close"
  BY <1>1, <1>3 DEF Ground, StoreInv
<1>5. QED BY <1>2, <1>4, StoreQuiet DEF Ground

(* No step turns the caller of bflush into s5closei. *)
LEMMA StepNotClosing ==
  ASSUME Ground, NEW p \in Proc, Step(p)
  PROVE  \A q \in Proc : arg'[q].k # "close"
<1>1. arg \in [Proc -> Frame] /\ \A q \in Proc : arg[q].k # "close"
  BY DEF Ground, Inv, TypeOK, StoreInv
<1>2. \/ arg' = arg
      \/ arg' = [arg EXCEPT ![p] = NoFrame]
      \/ arg' = [arg EXCEPT ![p].k = "ra"]
      \/ arg' = [arg EXCEPT ![p].k = "write"]
      \/ arg' = [arg EXCEPT ![p].k = "read", ![p].ra = NoBlock]
      \/ \E r : arg' = [arg EXCEPT ![p].ret = r]
  BY DEF Step, GetblkBusy, GetblkEmpty, GetblkDelwri, AsyncWrite, GetblkHit,
         GetblkTake, TakeHead, Got, Return, BreadaEnd, Reada, IowaitSleep,
         IowaitDone, Brelse, Release, bdwrite, bwrite, bawrite, SyncWrite,
         Bwtail, BflushWrite, BflushDone, binval, BdflushWrite, BdflushDone,
         BdwaitSleep, BdwaitDone
<1>3. \A q \in Proc : q # p => arg'[q] = arg[q]
  BY <1>1, <1>2
<1>4. \/ arg'[p] = arg[p]
      \/ arg'[p] = NoFrame
      \/ arg'[p] = [arg[p] EXCEPT !.k = "ra"]
      \/ arg'[p] = [arg[p] EXCEPT !.k = "write"]
      \/ arg'[p] = [arg[p] EXCEPT !.k = "read", !.ra = NoBlock]
      \/ \E r : arg'[p] = [arg[p] EXCEPT !.ret = r]
  BY <1>1, <1>2
<1>5. arg[p] \in Frame
  BY <1>1
<1>6. arg'[p].k # "close"
  <2>1. NoFrame.k # "close"
    BY DEF NoFrame
  <2>2. /\ [arg[p] EXCEPT !.k = "ra"].k = "ra"
        /\ [arg[p] EXCEPT !.k = "write"].k = "write"
        /\ [arg[p] EXCEPT !.k = "read", !.ra = NoBlock].k = "read"
    BY <1>5 DEF Frame
  <2>3. \A r : [arg[p] EXCEPT !.ret = r].k = arg[p].k
    BY <1>5 DEF Frame
  <2>4. QED BY <1>1, <1>4, <2>1, <2>2, <2>3
<1>7. QED BY <1>1, <1>3, <1>6

(* A free delayed write is handed to its device: it stays dirty. *)
LEMMA AsyncWriteStore ==
  ASSUME Ground, NEW p \in Proc, NEW b \in Buf, "DELWRI" \in flags[b],
         NEW r, AsyncWrite(p, b, r),
         \A q \in Proc : arg'[q].k # "close"
  PROVE  StoreInv'
<1>1. flags \in [Buf -> SUBSET Flag]
  BY DEF Ground, Inv, TypeOK
<1>2. /\ flags'[b] = (flags[b] \ {"READ", "DONE", "ERROR", "DELWRI"})
                         \cup {"BUSY", "ASYNC"}
      /\ \A c \in Buf : c # b => flags'[c] = flags[c]
      /\ io' = io \cup {b}
      /\ UNCHANGED <<ident, data, cur, disk, failed>>
  BY <1>1 DEF AsyncWrite, histVars
<1>3. Fit(b)
  BY DEF Ground, StoreInv
<1>4. Fit(b)' /\ Dirty(b)' /\ Valid(b)
  BY <1>2, <1>3 DEF Fit, Dirty, Valid
<1>5. QED BY <1>2, <1>4, BufferStep DEF Ground

(* brelse of a buffer that is not written. *)
LEMMA BrelseStore ==
  ASSUME Ground, NEW p \in Proc, NEW b \in Buf, b = mine[p], b \notin io,
         Brelse(p, flags[b]),
         UNCHANGED <<ident, data, io, cur, disk, failed>>,
         \A q \in Proc : arg'[q].k # "close"
  PROVE  StoreInv'
<1>1. flags \in [Buf -> SUBSET Flag]
  BY DEF Ground, Inv, TypeOK
<1>2. /\ flags'[b] = brelseFlags(flags[b])
      /\ \A c \in Buf : c # b => flags'[c] = flags[c]
  BY <1>1 DEF Brelse
<1>3. Fit(b)
  BY DEF Ground, StoreInv
<1>4. Fit(b)' /\ (Valid(b)' => Valid(b)) /\ (Dirty(b) => Dirty(b)')
  BY <1>2, <1>3 DEF Fit, Dirty, Valid, brelseFlags
<1>5. QED BY <1>2, <1>4, BufferStep DEF Ground

(* getblk returns a buffer with flags f to its caller: if it was dirty it  *)
(* stays so, and contents are not made up.                                 *)
LEMMA GotStore ==
  ASSUME Ground, NEW p \in Proc, NEW b \in Buf, b \notin io, NEW f, NEW list,
         Got(p, b, f, list),
         \/ f = flags[b] \cup {"BUSY"} /\ ident' = ident
            /\ "STALE" \notin flags[b] /\ "BUSY" \notin flags[b]
         \/ /\ f \in {{"BUSY"}, {"BUSY", "AGE"}} /\ "DELWRI" \notin flags[b]
            /\ \A c \in Buf : c # b => ident'[c] = ident[c],
         UNCHANGED <<data, cur, disk, failed>>,
         \A q \in Proc : arg'[q].k # "close"
  PROVE  StoreInv'
<1>1. flags \in [Buf -> SUBSET Flag] /\ io \subseteq Buf
  BY DEF Ground, Inv, TypeOK
<1>2. Fit(b)
  BY DEF Ground, StoreInv
<1> DEFINE g == flags'[b]
<1>3. \/ flags' = [flags EXCEPT ![b] = f] /\ io' = io
      \/ flags' = [flags EXCEPT ![b] = brelseFlags(f)] /\ io' = io
      \/ /\ "DONE" \notin f /\ io' = io \cup {b}
         /\ \/ flags' = [flags EXCEPT ![b] = f \cup {"READ"}]
            \/ flags' = [flags EXCEPT ![b] = f \cup {"READ", "ASYNC"}]
  BY DEF Got
<1>4. /\ \A c \in Buf : c # b => flags'[c] = flags[c] /\ (c \in io' <=> c \in io)
      /\ \/ g \in {f, brelseFlags(f)} /\ io' = io
         \/ /\ "DONE" \notin f /\ io' = io \cup {b}
            /\ g \in {f \cup {"READ"}, f \cup {"READ", "ASYNC"}}
  BY <1>1, <1>3
<1>5. CASE /\ f = flags[b] \cup {"BUSY"} /\ ident' = ident
           /\ "STALE" \notin flags[b] /\ "BUSY" \notin flags[b]
  <2>1. Fit(b)'
    BY <1>2, <1>4, <1>5 DEF Fit, brelseFlags
  <2>2. Valid(b)' => Valid(b)
    BY <1>2, <1>4, <1>5 DEF Fit, Valid, brelseFlags
  <2>3. Dirty(b) => Dirty(b)'
    BY <1>2, <1>4, <1>5 DEF Fit, Dirty, brelseFlags
  <2>4. QED BY <1>4, <1>5, <2>1, <2>2, <2>3, BufferStep DEF Ground
<1>6. CASE /\ f \in {{"BUSY"}, {"BUSY", "AGE"}} /\ "DELWRI" \notin flags[b]
           /\ \A c \in Buf : c # b => ident'[c] = ident[c]
  <2>1. /\ "DONE" \notin f /\ "ERROR" \notin f /\ "STALE" \notin f
        /\ "DELWRI" \notin f
    BY <1>6
  <2>2. Fit(b)' /\ ~Valid(b)'
    BY <1>4, <2>1 DEF Fit, Valid, brelseFlags
  <2>3. ~Dirty(b)
    BY <1>6 DEF Dirty
  <2>4. QED BY <1>4, <1>6, <2>2, <2>3, BufferStep DEF Ground
<1>7. QED BY <1>5, <1>6

LEMMA StepStore ==
  ASSUME Ground, NEW p \in Proc, Step(p)
  PROVE  StoreInv'
<1> USE DEF bufVars, asyVars, histVars
<1>1. /\ flags \in [Buf -> SUBSET Flag] /\ freelist \in Seq(Buf)
      /\ mine \in [Proc -> Buf \cup {NoBuf}] /\ io \subseteq Buf
      /\ ident \in [Buf -> Block \cup {NoBlock}]
  BY DEF Ground, Inv, TypeOK
<1>2. \A q \in Proc : arg[q].k # "close" /\ arg'[q].k # "close"
  BY StepNotClosing DEF Ground, StoreInv
<1>3. CASE GetblkBusy(p)
  <2>1. PICK b \in Buf : flags' = [flags EXCEPT ![b] = @ \cup {"WANTED"}]
    BY <1>3 DEF GetblkBusy, Match
  <2>2. UNCHANGED <<ident, data, io, cur, disk, failed>>
    BY <1>3 DEF GetblkBusy
  <2>3. /\ flags'[b] = flags[b] \cup {"WANTED"}
        /\ \A c \in Buf : c # b => flags'[c] = flags[c]
    BY <1>1, <2>1
  <2>4. Fit(b)
    BY DEF Ground, StoreInv
  <2>5. Fit(b)' /\ (Valid(b)' => Valid(b)) /\ (Dirty(b) => Dirty(b)')
    BY <2>2, <2>3, <2>4 DEF Fit, Valid, Dirty
  <2>6. QED BY <1>2, <2>2, <2>3, <2>5, BufferStep DEF Ground
<1>4. CASE GetblkEmpty(p) \/ Reada(p) \/ IowaitSleep(p) \/ Bwtail(p)
           \/ BflushDone(p) \/ BdflushDone(p) \/ BdwaitSleep(p) \/ BdwaitDone(p)
  <2>1. UNCHANGED <<flags, ident, data, io, cur, disk, failed>>
    BY <1>4 DEF GetblkEmpty, Reada, IowaitSleep, Bwtail, BflushDone, BdflushDone,
       BdwaitSleep, BdwaitDone
  <2>2. QED BY <1>2, <2>1, StoreQuiet DEF Ground
<1>5. CASE GetblkDelwri(p)
  <2>1. Head(freelist) \in Buf
    BY <1>1, <1>5, TailLemma DEF GetblkDelwri
  <2>2. QED BY <1>2, <1>5, <2>1, AsyncWriteStore DEF GetblkDelwri
<1>6. CASE BflushWrite(p) \/ BdflushWrite(p)
  <2>1. PICK i \in DOMAIN freelist, r \in {"bflush", "bdflush"} :
          "DELWRI" \in flags[freelist[i]] /\ AsyncWrite(p, freelist[i], r)
    BY <1>6 DEF BflushWrite, BdflushWrite, Delayed
  <2>2. freelist[i] \in Buf
    BY <1>1
  <2>3. QED BY <1>2, <2>1, <2>2, AsyncWriteStore
<1>7. CASE GetblkHit(p)
  <2>1. PICK b \in Match(Wanted(p)) :
          /\ "BUSY" \notin flags[b]
          /\ Got(p, b, flags[b] \cup {"BUSY"}, notavail(freelist, b))
    BY <1>7 DEF GetblkHit
  <2>2. b \in Buf /\ "STALE" \notin flags[b] /\ b \notin io
    BY <2>1 DEF Match, Ground, Inv, Kept
  <2>3. UNCHANGED <<ident, data, cur, disk, failed>>
    BY <1>7 DEF GetblkHit
  <2>4. QED BY <1>2, <2>1, <2>2, <2>3, GotStore
<1>8. CASE GetblkTake(p)
  <2> DEFINE b == Head(freelist)
             f == IF Wanted(p) = NoBlock THEN {"BUSY", "AGE"} ELSE {"BUSY"}
  <2>1. /\ Got(p, b, f, Tail(freelist)) /\ freelist # <<>>
        /\ ident' = [ident EXCEPT ![b] = Wanted(p)]
        /\ "DELWRI" \notin flags[b]
        /\ UNCHANGED <<data, cur, disk, failed>>
    BY <1>8 DEF GetblkTake, TakeHead
  <2>2. b \in Buf /\ Holds(freelist, b)
    BY <1>1, <2>1, TailLemma
  <2>3. b \notin io
    BY <2>2 DEF Ground, Inv, Available, Kept
  <2>4. f \in {{"BUSY"}, {"BUSY", "AGE"}}
    OBVIOUS
  <2> HIDE DEF b, f
  <2>5. \A c \in Buf : c # b => ident'[c] = ident[c]
    BY <1>1, <2>1
  <2>6. QED BY <1>2, <2>1, <2>2, <2>3, <2>4, <2>5, GotStore
<1>9. CASE IowaitDone(p)
  <2>1. /\ mine[p] \in Buf /\ mine[p] \notin io
        /\ UNCHANGED <<ident, data, io, cur, disk, failed>>
    BY <1>1, <1>9 DEF IowaitDone, At, Ground, Inv, Frames, Kept
  <2>2. CASE arg[p].k = "write"
    <3>1. Brelse(p, flags[mine[p]])
      BY <1>9, <2>2 DEF IowaitDone
    <3>2. QED BY <1>2, <2>1, <3>1, BrelseStore
  <2>3. CASE arg[p].k # "write"
    <3>1. flags' = flags
      BY <1>9, <2>3 DEF IowaitDone
    <3>2. QED BY <1>2, <2>1, <3>1, StoreQuiet DEF Ground
  <2>4. QED BY <2>2, <2>3
<1>10. CASE Release(p)
  <2>1. /\ mine[p] \in Buf /\ mine[p] \notin io
        /\ UNCHANGED <<ident, data, io, cur, disk, failed>>
        /\ Brelse(p, flags[mine[p]])
    BY <1>1, <1>10 DEF Release, At, Ground, Inv, Frames
  <2>2. QED BY <1>2, <2>1, BrelseStore
<1>11. ASSUME Store(p)
       PROVE  /\ mine[p] \in Buf /\ mine[p] \notin io
              /\ "ERROR" \notin flags[mine[p]] /\ "STALE" \notin flags[mine[p]]
  <2>1. mine[p] \in Buf /\ mine[p] \notin io /\ "BUSY" \in flags[mine[p]]
    BY <1>1, <1>11 DEF Store, At, Ground, Inv, Frames, Kept
  <2>2. QED BY <1>11, <2>1 DEF Store, Ground, StoreInv, Fit
<1>12. CASE bdwrite(p)
  <2>1. PICK b \in Buf : /\ b = mine[p] /\ b \notin io
                         /\ "ERROR" \notin flags[b] /\ "STALE" \notin flags[b]
    BY <1>11, <1>12 DEF bdwrite
  <2>2. Store(p) /\ io' = io /\ Brelse(p, flags[b] \cup {"DELWRI", "DONE"})
    BY <1>12, <2>1 DEF bdwrite
  <2>3. /\ flags'[b] = brelseFlags(flags[b] \cup {"DELWRI", "DONE"})
        /\ \A c \in Buf : c # b => flags'[c] = flags[c]
    BY <1>1, <2>1, <2>2 DEF Brelse
  <2>4. Fit(b)' /\ Dirty(b)'
    BY <2>1, <2>2, <2>3 DEF Fit, Dirty, brelseFlags
  <2>5. QED BY <1>2, <2>1, <2>2, <2>3, <2>4, HolderStores
<1>13. CASE bwrite(p) \/ bawrite(p)
  <2>1. Store(p)
    BY <1>13 DEF bwrite, bawrite
  <2>2. PICK b \in Buf : /\ b = mine[p] /\ b \notin io
                         /\ "ERROR" \notin flags[b] /\ "STALE" \notin flags[b]
    BY <1>11, <2>1
  <2> DEFINE w == flags[b] \ {"READ", "DONE", "ERROR", "DELWRI"}
  <2>3. io' = io \cup {b}
    BY <1>13, <2>2 DEF bwrite, bawrite, SyncWrite
  <2>4. \/ flags' = [flags EXCEPT ![b] = w]
        \/ flags' = [flags EXCEPT ![b] = w \cup {"AGE", "ASYNC"}]
        \/ flags' = [flags EXCEPT ![b] =
              (flags[b] \cup {"AGE"}) \ {"READ", "DONE", "ERROR", "DELWRI"}]
    BY <1>1, <1>13, <2>2 DEF bwrite, bawrite, SyncWrite
  <2>5. /\ {"READ", "DONE", "ERROR", "DELWRI", "STALE"} \cap flags'[b] = {}
        /\ \A c \in Buf : c # b => flags'[c] = flags[c]
    BY <1>1, <2>2, <2>4
  <2>6. Fit(b)' /\ Dirty(b)'
    BY <2>3, <2>5 DEF Fit, Dirty
  <2>7. QED BY <1>2, <2>1, <2>2, <2>3, <2>5, <2>6, HolderStores
<1>14. ~binval(p)
  BY <1>2 DEF binval
<1>15. QED
  BY <1>3, <1>4, <1>5, <1>6, <1>7, <1>8, <1>9, <1>10, <1>12, <1>13, <1>14 DEF Step

(* A transfer ends: a read brings in what was stored last, since no other  *)
(* buffer of the block is dirty; a write leaves it on the disk.            *)
LEMMA InterruptStore ==
  ASSUME Ground, NEW b \in Buf, Interrupt(b)
  PROVE  StoreInv'
<1> DEFINE k == ident[b]
<1>1. /\ flags \in [Buf -> SUBSET Flag] /\ io \subseteq Buf
      /\ data \in [Buf -> Value] /\ disk \in [Block -> Value]
      /\ failed \subseteq Block
  BY DEF Ground, Inv, TypeOK
<1>2. PICK err \in BOOLEAN : IodoneAsync(b, err) \/ IodoneSync(b, err)
  BY DEF Interrupt
<1>3. /\ b \in io /\ Transfer(b, err) /\ io' = io \ {b}
      /\ UNCHANGED <<ident, arg, cur>>
      /\ \/ flags' = [flags EXCEPT ![b] = brelseFlags(doneFlags(b, err))]
         \/ flags' = [flags EXCEPT ![b] = doneFlags(b, err) \ {"WANTED"}]
  BY <1>2 DEF IodoneAsync, IodoneSync
<1>4. /\ k \in Block /\ "BUSY" \in flags[b] /\ "DONE" \notin flags[b]
      /\ Fit(b) /\ Right(b)
  BY <1>3 DEF Ground, Assigned, Inv, Kept, StoreInv
<1>5. "STALE" \notin flags[b] /\ "DELWRI" \notin flags[b] /\ "ERROR" \notin flags[b]
  BY <1>3, <1>4 DEF Fit
<1>6. \/ flags'[b] = brelseFlags(doneFlags(b, err))
      \/ flags'[b] = doneFlags(b, err) \ {"WANTED"}
  BY <1>1, <1>3
<1>7. /\ "DELWRI" \notin flags'[b]
      /\ "STALE" \in flags'[b] => "BUSY" \notin flags'[b]
      /\ "ERROR" \in flags'[b] => "BUSY" \in flags'[b]
      /\ err => "STALE" \in flags'[b] \/ "ERROR" \in flags'[b]
  BY <1>4, <1>5, <1>6 DEF brelseFlags, doneFlags
<1>8. ASSUME NEW c \in Buf, c # b
      PROVE  /\ flags'[c] = flags[c] /\ (c \in io' <=> c \in io)
             /\ data'[c] = data[c]
             /\ Fit(c)' <=> Fit(c)
             /\ Valid(c)' <=> Valid(c)
             /\ Dirty(c)' <=> Dirty(c)
  <2>1. flags'[c] = flags[c] /\ (c \in io' <=> c \in io) /\ data'[c] = data[c]
    BY <1>1, <1>3, <1>8 DEF Transfer
  <2>2. QED BY <2>1 DEF Fit, Valid, Dirty
<1>9. Fit(b)'
  BY <1>3, <1>7 DEF Fit
<1>10. ASSUME NEW c \in Buf, c # b, ident[c] = k
       PROVE  "STALE" \in flags[c]
  BY <1>4, <1>5, <1>10, ConstAssumption DEF Ground, OneBufferPerBlock
<1>11. failed \subseteq failed'
  BY <1>3 DEF Transfer
<1>12. ASSUME Valid(b)', k \notin failed'
       PROVE  data'[b] = cur[k]
  <2>1. ~err
    BY <1>3, <1>7, <1>12 DEF Valid
  <2>2. CASE "READ" \in flags[b]
    <3>1. \A c \in Buf : ident[c] = k => ~Dirty(c)
      BY <1>5, <1>10, <2>2 DEF Dirty
    <3>2. disk[k] = cur[k]
      BY <1>4, <1>11, <1>12, <3>1 DEF Ground, StoreInv, Stored
    <3>3. data'[b] = disk[k]
      BY <1>1, <1>3, <2>1, <2>2 DEF Transfer
    <3>4. QED BY <3>2, <3>3
  <2>3. CASE "READ" \notin flags[b]
    <3>1. data' = data
      BY <1>3, <2>3 DEF Transfer
    <3>2. Valid(b)
      BY <1>3, <1>5, <2>3 DEF Valid
    <3>3. QED BY <1>4, <1>11, <1>12, <3>1, <3>2 DEF Right
  <2>4. QED BY <2>2, <2>3
<1>13. ASSUME NEW c \in Buf
       PROVE  Right(c)'
  <2>1. CASE c = b
    BY <1>3, <1>12, <2>1 DEF Right
  <2>2. CASE c # b
    <3>1. Right(c)
      BY DEF Ground, StoreInv
    <3>2. QED BY <1>3, <1>8, <1>11, <2>2, <3>1 DEF Right
  <2>3. QED BY <2>1, <2>2
<1>14. ASSUME NEW m \in Block \ failed'
       PROVE  Stored(m)'
  <2>1. Stored(m)
    BY <1>11, <1>14 DEF Ground, StoreInv
  <2>2. CASE m = k /\ Dirty(b)
    <3>1. "READ" \notin flags[b]
      BY <1>5, <2>2 DEF Dirty
    <3>2. disk' = IF err THEN disk ELSE [disk EXCEPT ![k] = data[b]]
      BY <1>3, <3>1 DEF Transfer
    <3>3. ~err
      BY <1>3, <1>14, <2>2, <3>1 DEF Transfer
    <3>4. data[b] = cur[k]
      <4>1. Valid(b)
        BY <1>4, <2>2, DirtyIsValid
      <4>2. QED BY <1>4, <1>11, <1>14, <2>2, <4>1 DEF Right
    <3>5. disk'[m] = cur'[m]
      BY <1>1, <1>3, <1>4, <2>2, <3>2, <3>3, <3>4
    <3>6. QED BY <3>5 DEF Stored
  <2>3. CASE ~(m = k /\ Dirty(b))
    <3>1. CASE disk[m] = cur[m] /\ disk'[m] = disk[m]
      BY <1>3, <3>1 DEF Stored
    <3>2. CASE disk'[m] # disk[m]
      <4>1. m = k /\ "READ" \notin flags[b]
        BY <1>1, <1>3, <3>2 DEF Transfer
      <4>2. Dirty(b)
        BY <1>3, <1>5, <4>1 DEF Dirty
      <4>3. QED BY <2>3, <4>1, <4>2
    <3>3. CASE disk[m] # cur[m] /\ disk'[m] = disk[m]
      <4>1. PICK c \in Buf : ident[c] = m /\ Dirty(c)
        BY <2>1, <3>3 DEF Stored
      <4>2. c # b
        BY <2>3, <4>1
      <4>3. QED BY <1>3, <1>8, <4>1, <4>2 DEF Stored
    <3>4. QED BY <3>1, <3>2, <3>3
  <2>4. QED BY <2>2, <2>3
<1>15. \A c \in Buf : Fit(c)'
  BY <1>8, <1>9 DEF Ground, StoreInv
<1>16. \A p \in Proc : arg'[p].k # "close"
  BY <1>3 DEF Ground, StoreInv
<1>17. QED BY <1>13, <1>14, <1>15, <1>16 DEF StoreInv

LEMMA StoreInvHolds ==
  ASSUME "close" \notin Ops
  PROVE  Spec => []Ground
<1>1. Init => StoreInv
  BY DEF Init, StoreInv, Fit, Valid, Right, Stored, NoFrame
<1>2. Ground /\ [Next]_vars => StoreInv'
  <2> SUFFICES ASSUME Ground, [Next]_vars
               PROVE  StoreInv'
    OBVIOUS
  <2>1. ASSUME NEW p \in Proc, Enter(p)
        PROVE  StoreInv'
    BY <2>1, EnterStore
  <2>2. ASSUME NEW p \in Proc, Step(p)
        PROVE  StoreInv'
    BY <2>2, StepStore
  <2>3. ASSUME NEW b \in Buf, Interrupt(b)
        PROVE  StoreInv'
    BY <2>3, InterruptStore
  <2>4. CASE UNCHANGED vars
    <3>1. UNCHANGED <<flags, ident, data, io, cur, disk, failed, arg>>
      BY <2>4 DEF vars, bufVars, procVars, histVars
    <3>2. \A p \in Proc : arg'[p].k # "close"
      BY <3>1 DEF Ground, StoreInv
    <3>3. QED BY <3>1, <3>2, StoreQuiet DEF Ground
  <2>5. QED BY <2>1, <2>2, <2>3, <2>4 DEF Next
<1>3. QED BY <1>1, <1>2, InvHolds, CacheUnique, PTL DEF Spec, Ground

(* No store is dropped: while s5closei is not called, what was stored last *)
(* in a block is on its disk or in a buffer that is still to be written,   *)
(* unless an I/O error lost it, whatever getblk reuses and in whatever     *)
(* order idstrategy completes the requests.                                *)
THEOREM NothingStoredIsDropped ==
  ASSUME "close" \notin Ops
  PROVE  Spec => []NoStoreIsDropped
<1>1. Ground => NoStoreIsDropped
  <2> SUFFICES ASSUME Ground, NEW k \in Block \ failed, disk[k] # cur[k]
               PROVE  \E b \in Buf : /\ ident[b] = k
                                     /\ data[b] = cur[k]
                                     /\ "DELWRI" \in flags[b] \/ b \in io
    BY DEF NoStoreIsDropped
  <2>1. PICK b \in Buf : ident[b] = k /\ Dirty(b)
    BY DEF Ground, StoreInv, Stored
  <2>2. data[b] = cur[k]
    BY <2>1, DirtyIsValid DEF Ground, StoreInv, Right
  <2>3. QED BY <2>1, <2>2 DEF Dirty
<1>2. QED BY <1>1, StoreInvHolds, PTL

-----------------------------------------------------------------------------
(* The refinement.  What the block store shows of a process: the block it  *)
(* holds and what it sees in it.                                           *)

heldNow == [p \in Proc |-> holdsBlock(p)]
seenNow == [p \in Proc |-> seesContents(p)]

Same(q) == holdsBlock(q)' = holdsBlock(q) /\ seesContents(q)' = seesContents(q)

(* The view of q is what its place, its buffer and that buffer say.        *)
LEMMA SameView ==
  ASSUME NEW q \in Proc, pc'[q] = pc[q],
         pc[q] = "hold" =>
           \E b \in Buf :
             /\ b = mine[q] /\ b = mine'[q]
             /\ ident'[b] = ident[b] /\ data'[b] = data[b]
             /\ "DONE" \in flags'[b] <=> "DONE" \in flags[b]
             /\ "ERROR" \in flags'[b] <=> "ERROR" \in flags[b]
             /\ ident[b] \in failed' <=> ident[b] \in failed
  PROVE  Same(q)
<1>1. CASE pc[q] = "hold"
  BY <1>1 DEF Same, holdsBlock, seesContents
<1>2. CASE pc[q] # "hold"
  BY <1>2 DEF Same, holdsBlock, seesContents
<1>3. QED BY <1>1, <1>2

(* A step of p touches no buffer that another process holds.               *)
LEMMA OthersKeep ==
  ASSUME Ground, NEW p \in Proc, Step(p), NEW q \in Proc, q # p
  PROVE  Same(q)
<1> USE DEF bufVars, asyVars, histVars
<1>1. /\ flags \in [Buf -> SUBSET Flag] /\ freelist \in Seq(Buf)
      /\ mine \in [Proc -> Buf \cup {NoBuf}] /\ io \subseteq Buf
      /\ ident \in [Buf -> Block \cup {NoBlock}] /\ pc \in [Proc -> PC]
      /\ data \in [Buf -> Value]
  BY DEF Ground, Inv, TypeOK
<1>2. pc'[q] = pc[q] /\ mine'[q] = mine[q]
  BY <1>1 DEF Step, GetblkBusy, GetblkEmpty, GetblkDelwri, AsyncWrite, GetblkHit,
         GetblkTake, TakeHead, Got, Return, BreadaEnd, Reada, IowaitSleep,
         IowaitDone, Brelse, Release, bdwrite, bwrite, bawrite, SyncWrite,
         Bwtail, BflushWrite, BflushDone, binval, BdflushWrite, BdflushDone,
         BdwaitSleep, BdwaitDone, Go
<1>3. CASE pc[q] = "hold"
  <2>1. PICK b \in Buf : b = mine[q]
    BY <1>1, <1>3 DEF Ground, Inv, Frames
  <2>2. "BUSY" \in flags[b] /\ b # mine[p] /\ "STALE" \notin flags[b]
    BY <2>1, ConstAssumption DEF Ground, Inv, Kept, StoreInv, Fit
  <2> DEFINE Keeps == /\ ident'[b] = ident[b] /\ data'[b] = data[b]
                      /\ "DONE" \in flags'[b] <=> "DONE" \in flags[b]
                      /\ "ERROR" \in flags'[b] <=> "ERROR" \in flags[b]
                      /\ ident[b] \in failed' <=> ident[b] \in failed
  <2> SUFFICES Keeps
    BY <1>2, <2>1, SameView
  <2>3. \A c \in Buf : OnList(c) => c # b
    BY <2>2 DEF Ground, Inv, Available, OnList, Holds
  <2>4. ASSUME NEW c, c # b, NEW g, flags' = [flags EXCEPT ![c] = g],
               UNCHANGED <<data, failed>>, ident'[b] = ident[b]
        PROVE  Keeps
    BY <1>1, <2>4
  <2>5. CASE GetblkBusy(p)
    <3>1. PICK c \in Buf : flags' = [flags EXCEPT ![c] = @ \cup {"WANTED"}]
      BY <2>5 DEF GetblkBusy, Match
    <3>2. QED BY <1>1, <2>5, <3>1 DEF GetblkBusy
  <2>6. CASE GetblkEmpty(p) \/ Reada(p) \/ IowaitSleep(p) \/ Bwtail(p)
             \/ BflushDone(p) \/ BdflushDone(p) \/ BdwaitSleep(p) \/ BdwaitDone(p)
    BY <2>6 DEF GetblkEmpty, Reada, IowaitSleep, Bwtail, BflushDone, BdflushDone,
       BdwaitSleep, BdwaitDone
  <2>7. CASE GetblkDelwri(p)
    <3>1. Head(freelist) \in Buf /\ OnList(Head(freelist))
      BY <1>1, <2>7, TailLemma DEF GetblkDelwri, OnList, Holds
    <3>2. QED BY <2>3, <2>4, <2>7, <3>1 DEF GetblkDelwri, AsyncWrite
  <2>8. CASE BflushWrite(p) \/ BdflushWrite(p)
    <3>1. PICK i \in DOMAIN freelist, r \in {"bflush", "bdflush"} :
            AsyncWrite(p, freelist[i], r)
      BY <2>8 DEF BflushWrite, BdflushWrite, Delayed
    <3>2. freelist[i] \in Buf /\ OnList(freelist[i])
      BY <1>1 DEF OnList
    <3>3. QED BY <2>3, <2>4, <3>1, <3>2 DEF AsyncWrite
  <2>9. ASSUME NEW c \in Buf, c # b, NEW f, NEW list, Got(p, c, f, list)
        PROVE  \E g : flags' = [flags EXCEPT ![c] = g]
    BY <2>9 DEF Got
  <2>10. CASE GetblkHit(p)
    <3>1. PICK c \in Match(Wanted(p)) :
            /\ "BUSY" \notin flags[c]
            /\ Got(p, c, flags[c] \cup {"BUSY"}, notavail(freelist, c))
      BY <2>10 DEF GetblkHit
    <3>2. c \in Buf /\ c # b
      BY <2>2, <3>1 DEF Match
    <3>3. QED BY <2>4, <2>9, <2>10, <3>1, <3>2 DEF GetblkHit
  <2>11. CASE GetblkTake(p)
    <3> DEFINE c == Head(freelist)
               f == IF Wanted(p) = NoBlock THEN {"BUSY", "AGE"} ELSE {"BUSY"}
    <3>1. /\ Got(p, c, f, Tail(freelist)) /\ freelist # <<>>
          /\ ident' = [ident EXCEPT ![c] = Wanted(p)]
          /\ UNCHANGED <<data, failed>>
      BY <2>11 DEF GetblkTake, TakeHead
    <3>2. c \in Buf /\ c # b
      BY <1>1, <2>3, <3>1, TailLemma DEF OnList, Holds
    <3> HIDE DEF c, f
    <3>3. ident'[b] = ident[b]
      BY <1>1, <3>1, <3>2
    <3>4. QED BY <2>4, <2>9, <3>1, <3>2, <3>3
  <2>12. CASE IowaitDone(p) \/ Release(p)
    <3>1. /\ flags' = flags \/ \E g : flags' = [flags EXCEPT ![mine[p]] = g]
          /\ UNCHANGED <<ident, data, failed>>
      BY <2>12 DEF IowaitDone, Release, Brelse
    <3>2. QED BY <2>2, <2>4, <3>1
  <2>13. CASE bdwrite(p) \/ bwrite(p) \/ bawrite(p)
    <3>1. Store(p)
      BY <2>13 DEF bdwrite, bwrite, bawrite
    <3>2. \E g : flags' = [flags EXCEPT ![mine[p]] = g]
      BY <1>1, <2>13 DEF bdwrite, bwrite, bawrite, Brelse, SyncWrite
    <3>3. mine[p] \in Buf /\ "BUSY" \in flags[mine[p]] /\ ident[mine[p]] # NoBlock
      BY <1>1, <3>1 DEF Store, At, Ground, Inv, Frames, Kept
    <3>4. "STALE" \notin flags[mine[p]]
      BY <3>3 DEF Ground, StoreInv, Fit
    <3>5. ident[mine[p]] # ident[b]
      BY <2>2, <3>3, <3>4 DEF Ground, OneBufferPerBlock
    <3>6. /\ ident' = ident /\ failed' = failed \ {ident[mine[p]]}
          /\ \E v \in Value : data' = [data EXCEPT ![mine[p]] = v]
      BY <3>1 DEF Store
    <3>7. data'[b] = data[b] /\ flags'[b] = flags[b]
      BY <1>1, <2>2, <3>2, <3>6
    <3>8. QED BY <3>5, <3>6, <3>7
  <2>14. ~binval(p)
    BY DEF binval, Ground, StoreInv
  <2>15. QED
    BY <2>5, <2>6, <2>7, <2>8, <2>10, <2>11, <2>12, <2>13, <2>14 DEF Step
<1>4. CASE pc[q] # "hold"
  BY <1>2, <1>4, SameView
<1>5. QED BY <1>3, <1>4

(* A process that holds a block holds it alone and sees nothing in it but  *)
(* what was stored last.                                                   *)
HoldsWell ==
  \A p \in Proc : pc[p] = "hold" =>
    /\ holdsBlock(p) \in Block \cup {NoBlock}
    /\ seesContents(p) \in {Unknown} \cup
         (IF holdsBlock(p) = NoBlock THEN {} ELSE {cur[holdsBlock(p)]})
    /\ \A q \in Proc : q # p /\ holdsBlock(p) # NoBlock =>
                         holdsBlock(q) # holdsBlock(p)

LEMMA HoldsRight == Ground => HoldsWell
<1> SUFFICES ASSUME Ground, NEW p \in Proc, pc[p] = "hold"
             PROVE  /\ holdsBlock(p) \in Block \cup {NoBlock}
                    /\ seesContents(p) \in {Unknown} \cup
                         (IF holdsBlock(p) = NoBlock THEN {}
                          ELSE {cur[holdsBlock(p)]})
                    /\ \A q \in Proc : q # p /\ holdsBlock(p) # NoBlock =>
                                         holdsBlock(q) # holdsBlock(p)
  BY DEF HoldsWell
<1>1. PICK b \in Buf : b = mine[p] /\ "BUSY" \in flags[b] /\ "STALE" \notin flags[b]
  BY DEF Ground, Inv, TypeOK, Frames, Kept, StoreInv, Fit
<1>2. holdsBlock(p) = ident[b] /\ ident[b] \in Block \cup {NoBlock}
  BY <1>1 DEF holdsBlock, Ground, Inv, TypeOK
<1>3. \/ seesContents(p) = Unknown
      \/ /\ ident[b] \in Block \ failed /\ seesContents(p) = data[b]
         /\ "DONE" \in flags[b] /\ "ERROR" \notin flags[b]
  BY <1>1 DEF seesContents
<1>4. \/ seesContents(p) = Unknown
      \/ seesContents(p) = cur[ident[b]] /\ ident[b] \in Block
  BY <1>1, <1>3 DEF Ground, StoreInv, Right, Valid
<1>5. ASSUME NEW q \in Proc, q # p, ident[b] # NoBlock
      PROVE  holdsBlock(q) # ident[b]
  <2>1. CASE pc[q] = "hold"
    <3>1. PICK c \in Buf : c = mine[q] /\ "BUSY" \in flags[c] /\ "STALE" \notin flags[c]
      BY <2>1 DEF Ground, Inv, TypeOK, Frames, Kept, StoreInv, Fit
    <3>2. c # b
      BY <1>1, <1>5, <3>1, ConstAssumption DEF Ground, Inv, Kept
    <3>3. ident[c] # ident[b]
      BY <1>1, <1>5, <3>1, <3>2 DEF Ground, OneBufferPerBlock
    <3>4. QED BY <2>1, <3>1, <3>3 DEF holdsBlock
  <2>2. CASE pc[q] # "hold"
    BY <1>5, <2>2 DEF holdsBlock
  <2>3. QED BY <2>1, <2>2
<1>6. seesContents(p) \in {Unknown} \cup
        (IF holdsBlock(p) = NoBlock THEN {} ELSE {cur[holdsBlock(p)]})
  <2>1. CASE seesContents(p) = Unknown
    BY <2>1
  <2>2. CASE seesContents(p) = cur[ident[b]] /\ ident[b] \in Block
    <3>1. holdsBlock(p) # NoBlock
      BY <1>2, <2>2, ConstAssumption
    <3>2. QED BY <1>2, <2>2, <3>1
  <2>3. QED BY <1>4, <2>1, <2>2
<1>7. \A q \in Proc : q # p /\ holdsBlock(p) # NoBlock =>
                      holdsBlock(q) # holdsBlock(p)
  BY <1>2, <1>5
<1>8. QED BY <1>2, <1>6, <1>7

(* Only storing changes cur, and it is the holder who stores, giving up    *)
(* the block.                                                              *)
LEMMA StepShape ==
  ASSUME Ground, NEW p \in Proc, Step(p)
  PROVE  \/ /\ pc[p] = "hold" /\ pc'[p] # "hold" /\ holdsBlock(p) # NoBlock
            /\ \E v \in Value : cur' = [cur EXCEPT ![holdsBlock(p)] = v]
         \/ pc[p] = "hold" /\ pc'[p] # "hold" /\ cur' = cur
         \/ pc[p] # "hold" /\ cur' = cur
<1> USE DEF histVars
<1>1. pc \in [Proc -> PC]
  BY DEF Ground, Inv, TypeOK
<1>2. CASE bdwrite(p) \/ bwrite(p) \/ bawrite(p)
  <2>1. Store(p) /\ pc'[p] # "hold"
    BY <1>1, <1>2 DEF bdwrite, bwrite, bawrite, Brelse, Return, SyncWrite, Go
  <2>2. pc[p] = "hold" /\ holdsBlock(p) = ident[mine[p]] /\ ident[mine[p]] # NoBlock
    BY <2>1 DEF Store, At, holdsBlock
  <2>3. PICK v \in Value : cur' = [cur EXCEPT ![ident[mine[p]]] = v]
    BY <2>1 DEF Store
  <2>4. QED BY <2>1, <2>2, <2>3
<1>3. CASE Release(p)
  BY <1>1, <1>3 DEF Release, At, Brelse, Return
<1>4. CASE ~(bdwrite(p) \/ bwrite(p) \/ bawrite(p) \/ Release(p))
  BY <1>4 DEF Step, At, GetblkBusy, GetblkEmpty, GetblkDelwri, AsyncWrite, GetblkHit,
     GetblkTake, TakeHead, Reada, IowaitSleep, IowaitDone, Bwtail, BflushWrite,
     BflushDone, binval, BdflushWrite, BdflushDone, BdwaitSleep, BdwaitDone
<1>5. QED BY <1>2, <1>3, <1>4

(* The actions of the block store under the refinement mapping. *)
LEMMA AbstractSteps ==
  ASSUME NEW p \in Proc
  PROVE  /\ \A k : Abstract!Acquire(p, k) <=>
               /\ heldNow[p] = NoBlock
               /\ \A q \in Proc : heldNow[q] # k
               /\ heldNow' = [heldNow EXCEPT ![p] = k]
               /\ \E v \in {cur[k], Unknown} :
                    seenNow' = [seenNow EXCEPT ![p] = v]
               /\ UNCHANGED cur
         /\ Abstract!GiveUp(p) <=>
               /\ heldNow[p] # NoBlock
               /\ heldNow' = [heldNow EXCEPT ![p] = NoBlock]
               /\ seenNow' = [seenNow EXCEPT ![p] = Unknown]
         /\ \A v : Abstract!Put(p, v) <=>
               /\ Abstract!GiveUp(p)
               /\ cur' = [cur EXCEPT ![heldNow[p]] = v]
         /\ Abstract!Drop(p) <=> Abstract!GiveUp(p) /\ UNCHANGED cur
BY DEF Abstract!Acquire, Abstract!GiveUp, Abstract!Put, Abstract!Drop, heldNow, seenNow

(* A step of a process is a step of the block store or changes nothing of  *)
(* it.                                                                     *)
LEMMA StepRefines ==
  ASSUME Ground, HoldsWell', NEW p \in Proc, Step(p)
  PROVE  Abstract!AbsNext \/ UNCHANGED <<cur, heldNow, seenNow>>
<1>1. \A q \in Proc : q # p => Same(q)
  BY OthersKeep
<1>2. /\ heldNow' = [heldNow EXCEPT ![p] = holdsBlock(p)']
      /\ seenNow' = [seenNow EXCEPT ![p] = seesContents(p)']
      /\ \A q \in Proc : heldNow[q] = holdsBlock(q) /\ seenNow[q] = seesContents(q)
  BY <1>1 DEF heldNow, seenNow, Same
<1>3. pc[p] # "hold" => holdsBlock(p) = NoBlock /\ seesContents(p) = Unknown
  BY DEF holdsBlock, seesContents
<1>4. pc'[p] # "hold" => holdsBlock(p)' = NoBlock /\ seesContents(p)' = Unknown
  BY DEF holdsBlock, seesContents
<1>5. holdsBlock(p) = NoBlock => seesContents(p) = Unknown
  BY ConstAssumption DEF holdsBlock, seesContents
<1>6. CASE pc[p] = "hold" /\ pc'[p] # "hold" /\ holdsBlock(p) # NoBlock
  <2>1. Abstract!GiveUp(p)
    BY <1>2, <1>4, <1>6, AbstractSteps
  <2>2. cur' = cur \/ \E v \in Value : cur' = [cur EXCEPT ![heldNow[p]] = v]
    BY <1>2, <1>6, StepShape
  <2>3. Abstract!Drop(p) \/ \E v \in Value : Abstract!Put(p, v)
    BY <2>1, <2>2, AbstractSteps
  <2>4. QED BY <2>3 DEF Abstract!AbsNext
<1>7. CASE pc[p] # "hold" /\ pc'[p] = "hold" /\ holdsBlock(p)' # NoBlock
  <2> DEFINE k == holdsBlock(p)'
  <2>1. cur' = cur
    BY <1>7, StepShape
  <2>2. /\ k \in Block
        /\ seesContents(p)' \in {Unknown} \cup
              (IF k = NoBlock THEN {} ELSE {cur'[k]})
        /\ \A q \in Proc : q # p /\ k # NoBlock => holdsBlock(q)' # k
    BY <1>7 DEF HoldsWell
  <2>3. seesContents(p)' \in {cur[k], Unknown}
    BY <1>7, <2>1, <2>2
  <2>4. \A q \in Proc : q # p => holdsBlock(q) # k
    BY <1>1, <1>7, <2>2 DEF Same
  <2>5. holdsBlock(p) = NoBlock
    BY <1>3, <1>7
  <2> HIDE DEF k
  <2>6. \A q \in Proc : heldNow[q] # k
    BY <1>2, <1>7, <2>4, <2>5 DEF k
  <2>7. Abstract!Acquire(p, k)
    BY <1>2, <2>1, <2>3, <2>5, <2>6, AbstractSteps DEF k
  <2>8. QED BY <2>2, <2>7 DEF Abstract!AbsNext
<1>8. CASE /\ holdsBlock(p)' = holdsBlock(p) /\ seesContents(p)' = seesContents(p)
           /\ cur' = cur
  BY <1>1, <1>8 DEF heldNow, seenNow, Same
<1>9. CASE pc[p] # "hold" /\ (pc'[p] = "hold" => holdsBlock(p)' = NoBlock)
  <2>1. holdsBlock(p)' = NoBlock => seesContents(p)' = Unknown
    BY ConstAssumption DEF holdsBlock, seesContents
  <2>2. QED BY <1>3, <1>4, <1>8, <1>9, <2>1, StepShape
<1>10. CASE pc[p] = "hold" /\ holdsBlock(p) = NoBlock
  BY <1>4, <1>5, <1>8, <1>10, StepShape
<1>11. QED BY <1>6, <1>7, <1>9, <1>10, StepShape

LEMMA InterruptRefines ==
  ASSUME Ground, NEW b \in Buf, Interrupt(b)
  PROVE  UNCHANGED <<cur, heldNow, seenNow>>
<1>1. /\ flags \in [Buf -> SUBSET Flag] /\ data \in [Buf -> Value]
      /\ mine \in [Proc -> Buf \cup {NoBuf}]
  BY DEF Ground, Inv, TypeOK
<1>2. PICK err \in BOOLEAN : IodoneAsync(b, err) \/ IodoneSync(b, err)
  BY DEF Interrupt
<1>3. /\ b \in io /\ Transfer(b, err) /\ UNCHANGED <<ident, pc, mine, cur>>
      /\ \E g : flags' = [flags EXCEPT ![b] = g]
  BY <1>2 DEF IodoneAsync, IodoneSync
<1>4. "BUSY" \in flags[b] /\ "STALE" \notin flags[b] /\ ident[b] \in Block
  BY <1>3 DEF Ground, Inv, Kept, StoreInv, Fit, Assigned
<1>5. ASSUME NEW q \in Proc
      PROVE  Same(q)
  <2>1. CASE pc[q] = "hold"
    <3>1. PICK c \in Buf : /\ c = mine[q] /\ c \notin io /\ "BUSY" \in flags[c]
                           /\ "STALE" \notin flags[c]
      BY <1>1, <2>1 DEF Ground, Inv, Frames, Kept, StoreInv, Fit
    <3>2. c # b
      BY <1>3, <3>1
    <3>3. flags'[c] = flags[c] /\ data'[c] = data[c]
      BY <1>1, <1>3, <3>2 DEF Transfer
    <3>4. ident[c] # ident[b]
      BY <1>4, <3>1, <3>2, ConstAssumption DEF Ground, OneBufferPerBlock
    <3>5. ident[c] \in failed' <=> ident[c] \in failed
      BY <1>3, <3>4 DEF Transfer
    <3>6. QED BY <1>3, <3>1, <3>3, <3>5, SameView
  <2>2. CASE pc[q] # "hold"
    BY <1>3, <2>2, SameView
  <2>3. QED BY <2>1, <2>2
<1>6. QED BY <1>3, <1>5 DEF heldNow, seenNow, Same

(* The buffer cache implements the block store while s5closei is not       *)
(* called: between getblk and brelse a block has one holder, which sees    *)
(* the contents stored last, through delayed and asynchronous writes,      *)
(* read-ahead, reuse of buffers and requests served in any order.          *)
THEOREM CacheImplementsBlockStore ==
  ASSUME "close" \notin Ops
  PROVE  Spec => ImplementsBlockStore
<1>1. Init => Abstract!AbsInit
  BY DEF Init, Abstract!AbsInit, holdsBlock, seesContents
<1>2. Ground /\ HoldsWell' /\ [Next]_vars
        => Abstract!AbsNext \/ UNCHANGED <<cur, heldNow, seenNow>>
  <2> SUFFICES ASSUME Ground, HoldsWell', [Next]_vars
               PROVE  Abstract!AbsNext \/ UNCHANGED <<cur, heldNow, seenNow>>
    OBVIOUS
  <2>1. ASSUME NEW p \in Proc, Enter(p)
        PROVE  UNCHANGED <<cur, heldNow, seenNow>>
    <3>1. /\ pc[p] = "user" /\ UNCHANGED <<flags, ident, data, mine, cur, failed>>
          /\ \E l \in {"getblk", "reada", "bflush", "bdwait", "bdflush"} :
               pc' = [pc EXCEPT ![p] = l]
      BY <2>1 DEF Enter, StartBread, StartGetblk, StartGeteblk, StartBreada,
         StartBflush, StartBdwait, StartBdflush, StartClose, Start, At, Go,
         bufVars, histVars
    <3>2. pc \in [Proc -> PC]
      BY DEF Ground, Inv, TypeOK
    <3>3. \A q \in Proc : pc'[q] = "hold" <=> pc[q] = "hold"
      BY <3>1, <3>2
    <3>4. QED BY <3>1, <3>3 DEF heldNow, seenNow, holdsBlock, seesContents
  <2>2. ASSUME NEW p \in Proc, Step(p)
        PROVE  Abstract!AbsNext \/ UNCHANGED <<cur, heldNow, seenNow>>
    BY <2>2, StepRefines
  <2>3. ASSUME NEW b \in Buf, Interrupt(b)
        PROVE  UNCHANGED <<cur, heldNow, seenNow>>
    BY <2>3, InterruptRefines
  <2>4. CASE UNCHANGED vars
    BY <2>4 DEF vars, bufVars, procVars, histVars, heldNow, seenNow, holdsBlock,
       seesContents
  <2>5. QED BY <2>1, <2>2, <2>3, <2>4 DEF Next
<1>3. UNCHANGED <<cur, heldNow, seenNow>> => UNCHANGED Abstract!absVars
  BY DEF heldNow, seenNow, Abstract!absVars
<1>4. Ground /\ HoldsWell' /\ [Next]_vars => [Abstract!AbsNext]_(Abstract!absVars)
  BY <1>2, <1>3
<1>5. QED
  BY <1>1, <1>4, StoreInvHolds, HoldsRight, PTL DEF Spec, ImplementsBlockStore, Abstract!AbsSpec
=============================================================================
