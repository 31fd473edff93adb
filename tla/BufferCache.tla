---------------------------- MODULE BufferCache ----------------------------
(***************************************************************************)
(* The block buffer cache of the 3B2 kernel (uts/3b2/os/bio.c, sys/buf.h)  *)
(* and what it relies on of the integral disk driver (io/id.c).            *)
(*                                                                         *)
(* The kernel runs on one processor and is not preemptive: a process in    *)
(* the kernel keeps the processor (cpu) until it sleeps, page-faults on    *)
(* user memory while it holds a buffer, or returns to user mode.  Disk     *)
(* interrupts are taken between any two steps.  An action is the code      *)
(* between two points where an interrupt or another process can observe    *)
(* the state.                                                              *)
(*                                                                         *)
(* Abstracted: b_dev and b_blkno are one identity (DevOf gives the         *)
(* device), a hash chain is the set of buffers with that identity, block   *)
(* contents are values, the age test of bdflush is a choice.  The RFS      *)
(* free list (chk_rlist) and the 2K cache (s52kbio.c) are left out.        *)
(***************************************************************************)
EXTENDS Integers, Sequences, FiniteSets

CONSTANTS
  Proc,       \* processes
  Buf,        \* buffer headers, buf[0 .. v.v_buf - 1]
  Block,      \* disk blocks
  Dev,        \* block devices
  DevOf,      \* the device of each block
  Value,      \* block contents
  Zero,       \* the initial contents of every block
  BawFree,    \* bawrite goes asynchronous above this many free buffers (4)
  Ops,        \* the operations processes start, a subset of AllOps
  NoProc, NoBuf, NoBlock, AllDev, Unknown

AllOps == {"bread", "breada", "getblk", "geteblk", "bflush", "bdwait",
           "bdflush", "close"}

ASSUME ConstAssumption ==
  /\ IsFiniteSet(Proc)
  /\ IsFiniteSet(Buf)
  /\ DevOf \in [Block -> Dev]
  /\ Zero \in Value
  /\ BawFree \in Nat
  /\ Ops \subseteq AllOps
  /\ NoProc \notin Proc
  /\ NoBuf \notin Buf
  /\ NoBlock \notin Block
  /\ AllDev \notin Dev
  /\ {"none", "bfreelist", "basyncnt"} \cap Buf = {}

VARIABLES
  flags,      \* b_flags of each buffer: the set of its B_ bits
  ident,      \* b_dev and b_blkno: the block a buffer is assigned to
  data,       \* the contents of each buffer
  freelist,   \* bfreelist.av_forw ...: oldest buffer first
  flwanted,   \* bfreelist.b_flags & B_WANTED
  basyncnt,   \* count of outstanding asynchronous writes
  basynwait,  \* bdwait waits for basyncnt to reach zero
  disk,       \* the contents of each block on its device
  io,         \* buffers given to d_strategy whose iodone is still to come
  cpu,        \* the process running in the kernel, or NoProc
  wchan,      \* p_wchan: the channel each process sleeps on
  pc,         \* where each process is in the code
  mine,       \* the busy buffer a process holds (bp)
  arg,        \* arguments and return points of the calls in progress
  cur,        \* history: the last contents stored into each block
  failed      \* history: blocks whose last store an I/O error lost

bufVars  == <<flags, ident, data, freelist, flwanted>>
asyVars  == <<basyncnt, basynwait>>
procVars == <<cpu, wchan, pc, mine, arg>>
histVars == <<cur, failed>>
vars == <<bufVars, asyVars, disk, io, procVars, histVars>>

Flag == {"READ", "DONE", "ERROR", "BUSY", "WANTED", "AGE", "ASYNC",
         "DELWRI", "STALE"}
NoChan == "none"
Chan == Buf \cup {"bfreelist", "basyncnt", NoChan}
PC == {"user", "getblk", "reada", "iowait", "hold", "bwtail", "bflush",
       "bdflush", "bdwait"}

(* blk: the block asked for (NoBlock in geteblk).  k: the caller, "own"    *)
(* for getblk itself, "read" bread, "main" and "ra" the two getblk calls   *)
(* of breada, "write" bwrite, "user" and "close" the callers of bflush.    *)
(* ret: where the asynchronous branch of bwrite returns.  ra: read-ahead   *)
(* block.  dev: the argument of bflush.                                    *)
Frame == [blk : Block \cup {NoBlock},
          k   : {"own", "read", "main", "ra", "write", "user", "close"},
          ret : {"user", "getblk", "bflush", "bdflush"},
          ra  : Block \cup {NoBlock},
          dev : Dev \cup {AllDev}]
NoFrame == [blk |-> NoBlock, k |-> "own", ret |-> "user", ra |-> NoBlock,
            dev |-> AllDev]

(* binit: every buffer unassigned and on the free list. *)
Init ==
  /\ flags = [b \in Buf |-> {}]
  /\ ident = [b \in Buf |-> NoBlock]
  /\ data = [b \in Buf |-> Zero]
  /\ freelist \in [1 .. Cardinality(Buf) -> Buf]
  /\ \A b \in Buf : \E i \in DOMAIN freelist : freelist[i] = b
  /\ \A i, j \in DOMAIN freelist : freelist[i] = freelist[j] => i = j
  /\ flwanted = FALSE
  /\ basyncnt = 0
  /\ basynwait = FALSE
  /\ disk = [k \in Block |-> Zero]
  /\ io = {}
  /\ cpu = NoProc
  /\ wchan = [p \in Proc |-> NoChan]
  /\ pc = [p \in Proc |-> "user"]
  /\ mine = [p \in Proc |-> NoBuf]
  /\ arg = [p \in Proc |-> NoFrame]
  /\ cur = [k \in Block |-> Zero]
  /\ failed = {}

-----------------------------------------------------------------------------
(* Scheduling: sleep, wakeup and the processor. *)

Runs(p) == wchan[p] = NoChan /\ cpu \in {NoProc, p}

At(p, l) == pc[p] = l /\ Runs(p)

Go(p, l) == pc' = [pc EXCEPT ![p] = l] /\ cpu' = p

(* The cache returns to its caller.  The processor is given up in user     *)
(* mode and while a process that holds a buffer moves data to or from user *)
(* memory.                                                                 *)
Return(p, l) ==
  /\ pc' = [pc EXCEPT ![p] = l]
  /\ arg' = [arg EXCEPT ![p] = NoFrame]
  /\ cpu' = NoProc

Sleep(p, chan) ==
  /\ wchan' = [wchan EXCEPT ![p] = chan]
  /\ cpu' = NoProc

Awaken(chans) ==
  wchan' = [p \in Proc |-> IF wchan[p] \in chans THEN NoChan ELSE wchan[p]]

-----------------------------------------------------------------------------
(* The free list. *)

OnList(b) == \E i \in DOMAIN freelist : freelist[i] = b

(* Faulty: b is cleared but its neighbours are not linked together. *)
notavailUnlinked(list, b) ==
  [i \in DOMAIN list |-> IF list[i] = b THEN NoBuf ELSE list[i]]

(* notavail: unlink b from the available list. *)
notavail(list, b) ==
  LET at == CHOOSE i \in DOMAIN list : list[i] = b
  IN  [j \in 1 .. Len(list) - 1 |-> IF j < at THEN list[j] ELSE list[j + 1]]

(* brelse, on the flags f of the buffer b being released. *)
brelseFlags(f) ==
  IF "ERROR" \in f
  THEN (f \ {"ERROR", "DELWRI", "WANTED", "BUSY", "ASYNC", "AGE"})
         \cup {"STALE"}
  ELSE f \ {"WANTED", "BUSY", "ASYNC", "AGE"}

brelseList(list, b, f) ==
  IF f \cap {"AGE", "ERROR"} # {} THEN <<b>> \o list ELSE Append(list, b)

(* Faulty: nobody waiting for any free buffer is woken. *)
brelseWakeOne(b, f) == IF "WANTED" \in f THEN {b} ELSE {}

(* The channels brelse wakes. *)
brelseWake(b, f) ==
  (IF "WANTED" \in f THEN {b} ELSE {})
    \cup (IF flwanted THEN {"bfreelist"} ELSE {})

(* The buffers getblk finds for a block on its hash chain. *)
Match(k) ==
  {b \in Buf : k # NoBlock /\ ident[b] = k /\ "STALE" \notin flags[b]}

incore(k) == Match(k) # {}

-----------------------------------------------------------------------------
(* System calls and daemons enter the cache. *)

Start(p, frame, l) ==
  /\ At(p, "user")
  /\ arg' = [arg EXCEPT ![p] = frame]
  /\ Go(p, l)
  /\ UNCHANGED <<bufVars, asyVars, disk, io, wchan, mine, histVars>>

StartBread(p) ==
  /\ "bread" \in Ops
  /\ \E k \in Block :
       Start(p, [NoFrame EXCEPT !.blk = k, !.k = "read"], "getblk")

StartGetblk(p) ==
  /\ "getblk" \in Ops
  /\ \E k \in Block : Start(p, [NoFrame EXCEPT !.blk = k], "getblk")

StartGeteblk(p) ==
  /\ "geteblk" \in Ops
  /\ Start(p, NoFrame, "getblk")

(* breada: if the block is in core it is left to the bread at the end. *)
StartBreada(p) ==
  /\ "breada" \in Ops
  /\ \E k, r \in Block :
       /\ k # r
       /\ Start(p, [NoFrame EXCEPT !.blk = k, !.k = "main", !.ra = r],
                IF incore(k) THEN "reada" ELSE "getblk")

StartBflush(p) ==
  /\ "bflush" \in Ops
  /\ \E d \in Dev \cup {AllDev} :
       Start(p, [NoFrame EXCEPT !.k = "user", !.dev = d], "bflush")

StartBdwait(p) == "bdwait" \in Ops /\ Start(p, NoFrame, "bdwait")

StartBdflush(p) == "bdflush" \in Ops /\ Start(p, NoFrame, "bdflush")

OfDev(b, d) == ident[b] # NoBlock /\ DevOf[ident[b]] = d

(* s5closei: the last close of a block device that is not mounted, so no   *)
(* process is inside an operation on one of its blocks.                    *)
StartClose(p) ==
  /\ "close" \in Ops
  /\ \E d \in Dev :
       /\ \A q \in Proc : /\ mine[q] # NoBuf => ~OfDev(mine[q], d)
                          /\ arg[q].blk # NoBlock => DevOf[arg[q].blk] # d
       /\ Start(p, [NoFrame EXCEPT !.k = "close", !.dev = d], "bflush")

-----------------------------------------------------------------------------
(* getblk and geteblk. *)

Wanted(p) == IF arg[p].k = "ra" THEN arg[p].ra ELSE arg[p].blk

(* Faulty: the buffer slept on is not marked wanted. *)
GetblkBusyUnmarked(p) ==
  /\ At(p, "getblk")
  /\ \E b \in Match(Wanted(p)) : "BUSY" \in flags[b] /\ Sleep(p, b)
  /\ UNCHANGED <<bufVars, asyVars, disk, io, pc, mine, arg, histVars>>

(* The block is in a busy buffer: mark it wanted, sleep, look again. *)
GetblkBusy(p) ==
  /\ At(p, "getblk")
  /\ \E b \in Match(Wanted(p)) :
       /\ "BUSY" \in flags[b]
       /\ flags' = [flags EXCEPT ![b] = @ \cup {"WANTED"}]
       /\ Sleep(p, b)
  /\ UNCHANGED <<ident, data, freelist, flwanted, asyVars, disk, io, pc, mine,
                 arg, histVars>>

GetblkEmpty(p) ==
  /\ At(p, "getblk")
  /\ ~incore(Wanted(p))
  /\ freelist = <<>>
  /\ flwanted' = TRUE
  /\ Sleep(p, "bfreelist")
  /\ UNCHANGED <<flags, ident, data, freelist, asyVars, disk, io, pc, mine, arg,
                 histVars>>

(* Faulty: B_ASYNC is not set before the write. *)
AsyncWriteUnmarked(p, b, r) ==
  /\ flags' = [flags EXCEPT ![b] =
                 (@ \ {"READ", "DONE", "ERROR", "DELWRI"}) \cup {"BUSY"}]
  /\ freelist' = notavail(freelist, b)
  /\ io' = io \cup {b}
  /\ arg' = [arg EXCEPT ![p].ret = r]
  /\ Go(p, "bwtail")
  /\ UNCHANGED <<ident, data, flwanted, asyVars, disk, wchan, mine, histVars>>

(* notavail and the asynchronous branch of bwrite up to the return of      *)
(* d_strategy; the request may complete before basyncnt is incremented.    *)
AsyncWrite(p, b, r) ==
  /\ flags' = [flags EXCEPT ![b] =
                 (@ \ {"READ", "DONE", "ERROR", "DELWRI"})
                    \cup {"BUSY", "ASYNC"}]
  /\ freelist' = notavail(freelist, b)
  /\ io' = io \cup {b}
  /\ arg' = [arg EXCEPT ![p].ret = r]
  /\ Go(p, "bwtail")
  /\ UNCHANGED <<ident, data, flwanted, asyVars, disk, wchan, mine, histVars>>

(* The oldest free buffer is a delayed write: push it out, start over. *)
GetblkDelwri(p) ==
  /\ At(p, "getblk")
  /\ ~incore(Wanted(p))
  /\ freelist # <<>>
  /\ "DELWRI" \in flags[Head(freelist)]
  /\ AsyncWrite(p, Head(freelist), "getblk")

(* The end of breada: wait for the block, or bread it if it was in core. *)
BreadaEnd(p) ==
  /\ arg' = [arg EXCEPT ![p].k = "read", ![p].ra = NoBlock]
  /\ Go(p, IF mine[p] = NoBuf THEN "getblk" ELSE "iowait")

(* getblk returns b with flags f and free list list to its caller. *)
Got(p, b, f, list) ==
  \/ /\ \/ arg[p].k = "own"
        \/ arg[p].k = "read" /\ "DONE" \in f
     /\ flags' = [flags EXCEPT ![b] = f]
     /\ freelist' = list
     /\ mine' = [mine EXCEPT ![p] = b]
     /\ Return(p, "hold")
     /\ UNCHANGED <<flwanted, io, wchan>>
  \/ /\ arg[p].k = "read" /\ "DONE" \notin f
     /\ flags' = [flags EXCEPT ![b] = f \cup {"READ"}]
     /\ freelist' = list
     /\ mine' = [mine EXCEPT ![p] = b]
     /\ io' = io \cup {b}
     /\ Go(p, "iowait")
     /\ UNCHANGED <<flwanted, wchan, arg>>
  \/ /\ arg[p].k = "main"
     /\ flags' = [flags EXCEPT ![b] =
                    IF "DONE" \in f THEN f ELSE f \cup {"READ"}]
     /\ io' = IF "DONE" \in f THEN io ELSE io \cup {b}
     /\ freelist' = list
     /\ mine' = [mine EXCEPT ![p] = b]
     /\ Go(p, "reada")
     /\ UNCHANGED <<flwanted, wchan, arg>>
  \/ /\ arg[p].k = "ra" /\ "DONE" \in f
     /\ flags' = [flags EXCEPT ![b] = brelseFlags(f)]
     /\ freelist' = brelseList(list, b, f)
     /\ flwanted' = FALSE
     /\ Awaken(brelseWake(b, f))
     /\ BreadaEnd(p)
     /\ UNCHANGED <<io, mine>>
  \/ /\ arg[p].k = "ra" /\ "DONE" \notin f
     /\ flags' = [flags EXCEPT ![b] = f \cup {"READ", "ASYNC"}]
     /\ freelist' = list
     /\ io' = io \cup {b}
     /\ BreadaEnd(p)
     /\ UNCHANGED <<flwanted, wchan, mine>>

(* Faulty: the buffer stays on the available list. *)
GetblkHitAvailable(p) ==
  /\ At(p, "getblk")
  /\ \E b \in Match(Wanted(p)) :
       /\ "BUSY" \notin flags[b]
       /\ Got(p, b, flags[b] \cup {"BUSY"}, freelist)
  /\ UNCHANGED <<ident, data, asyVars, disk, histVars>>

(* The block is in a buffer that is not busy. *)
GetblkHit(p) ==
  /\ At(p, "getblk")
  /\ \E b \in Match(Wanted(p)) :
       /\ "BUSY" \notin flags[b]
       /\ Got(p, b, flags[b] \cup {"BUSY"}, notavail(freelist, b))
  /\ UNCHANGED <<ident, data, asyVars, disk, histVars>>

(* Take the buffer at the head of the free list with flags f. *)
TakeHead(p, f) ==
  /\ ident' = [ident EXCEPT ![Head(freelist)] = Wanted(p)]
  /\ Got(p, Head(freelist), f, Tail(freelist))
  /\ UNCHANGED <<data, asyVars, disk, histVars>>

(* Faulty: the hash chain is not searched again after a sleep. *)
GetblkTakeBlindly(p) ==
  /\ At(p, "getblk")
  /\ freelist # <<>>
  /\ "DELWRI" \notin flags[Head(freelist)]
  /\ TakeHead(p, {"BUSY"})

(* Faulty: a delayed write is reassigned without being written. *)
GetblkTakeDirty(p) ==
  /\ At(p, "getblk")
  /\ ~incore(Wanted(p))
  /\ freelist # <<>>
  /\ TakeHead(p, {"BUSY"})

(* Faulty: the flags of the old block are kept. *)
GetblkTakeFlags(p) ==
  /\ At(p, "getblk")
  /\ ~incore(Wanted(p))
  /\ freelist # <<>>
  /\ "DELWRI" \notin flags[Head(freelist)]
  /\ TakeHead(p, (flags[Head(freelist)] \ {"STALE"}) \cup {"BUSY"})

(* The oldest free buffer is reassigned; geteblk also sets B_AGE. *)
GetblkTake(p) ==
  /\ At(p, "getblk")
  /\ ~incore(Wanted(p))
  /\ freelist # <<>>
  /\ "DELWRI" \notin flags[Head(freelist)]
  /\ TakeHead(p, IF Wanted(p) = NoBlock THEN {"BUSY", "AGE"} ELSE {"BUSY"})

-----------------------------------------------------------------------------
(* The rest of breada, iowait and the release of a buffer. *)

(* Read ahead only when it should not have to wait for a buffer. *)
Reada(p) ==
  /\ At(p, "reada")
  /\ IF Len(freelist) > 1 /\ ~incore(arg[p].ra)
     THEN /\ arg' = [arg EXCEPT ![p].k = "ra"]
          /\ Go(p, "getblk")
     ELSE BreadaEnd(p)
  /\ UNCHANGED <<bufVars, asyVars, disk, io, wchan, mine, histVars>>

IowaitSleep(p) ==
  /\ At(p, "iowait")
  /\ "DONE" \notin flags[mine[p]]
  /\ Sleep(p, mine[p])
  /\ UNCHANGED <<bufVars, asyVars, disk, io, pc, mine, arg, histVars>>

(* brelse by the process that holds the buffer, with flags f. *)
Brelse(p, f) ==
  /\ flags' = [flags EXCEPT ![mine[p]] = brelseFlags(f)]
  /\ freelist' = brelseList(freelist, mine[p], f)
  /\ flwanted' = FALSE
  /\ Awaken(brelseWake(mine[p], f))
  /\ mine' = [mine EXCEPT ![p] = NoBuf]
  /\ Return(p, "user")

(* bread and breada return the buffer, bwrite releases it. *)
IowaitDone(p) ==
  /\ At(p, "iowait")
  /\ "DONE" \in flags[mine[p]]
  /\ IF arg[p].k = "write"
     THEN Brelse(p, flags[mine[p]])
     ELSE /\ Return(p, "hold")
          /\ UNCHANGED <<flags, freelist, flwanted, wchan, mine>>
  /\ UNCHANGED <<ident, data, asyVars, disk, io, histVars>>

(* The holder is done with the buffer and did not change it. *)
Release(p) ==
  /\ At(p, "hold")
  /\ Brelse(p, flags[mine[p]])
  /\ UNCHANGED <<ident, data, asyVars, disk, io, histVars>>

(* The holder stores new contents; it does so only for an assigned block   *)
(* that was read without error or is overwritten as a whole.               *)
Store(p) ==
  LET b == mine[p]
  IN  /\ At(p, "hold")
      /\ ident[b] # NoBlock
      /\ "ERROR" \notin flags[b]
      /\ \E v \in Value :
           /\ data' = [data EXCEPT ![b] = v]
           /\ cur' = [cur EXCEPT ![ident[b]] = v]
      /\ failed' = failed \ {ident[b]}
      /\ UNCHANGED <<ident, disk>>

bdwrite(p) ==
  /\ Store(p)
  /\ Brelse(p, flags[mine[p]] \cup {"DELWRI", "DONE"})
  /\ UNCHANGED <<asyVars, io>>

(* The synchronous branch of bwrite, up to iowait, with flags f. *)
SyncWrite(p, f) ==
  /\ flags' = [flags EXCEPT ![mine[p]] =
                 f \ {"READ", "DONE", "ERROR", "DELWRI"}]
  /\ io' = io \cup {mine[p]}
  /\ arg' = [arg EXCEPT ![p].k = "write"]
  /\ Go(p, "iowait")
  /\ UNCHANGED <<freelist, flwanted, asyVars, wchan, mine>>

bwrite(p) == Store(p) /\ SyncWrite(p, flags[mine[p]])

(* bawrite, called for block devices only (s5writei), which set B_AGE:     *)
(* asynchronous when enough buffers are free.                              *)
bawrite(p) ==
  /\ Store(p)
  /\ IF Len(freelist) > BawFree
     THEN /\ flags' = [flags EXCEPT ![mine[p]] =
                         (@ \ {"READ", "DONE", "ERROR", "DELWRI"})
                            \cup {"AGE", "ASYNC"}]
          /\ io' = io \cup {mine[p]}
          /\ arg' = [arg EXCEPT ![p].ret = "user"]
          /\ mine' = [mine EXCEPT ![p] = NoBuf]
          /\ Go(p, "bwtail")
          /\ UNCHANGED <<freelist, flwanted, asyVars, wchan>>
     ELSE SyncWrite(p, flags[mine[p]] \cup {"AGE"})

(* The asynchronous branch of bwrite after d_strategy returns. *)
Bwtail(p) ==
  /\ At(p, "bwtail")
  /\ basyncnt' = basyncnt + 1
  /\ IF arg[p].ret = "user"
     THEN Return(p, "user")
     ELSE /\ Go(p, arg[p].ret)
          /\ arg' = [arg EXCEPT ![p].ret = "user"]
  /\ UNCHANGED <<bufVars, basynwait, disk, io, wchan, mine, histVars>>

-----------------------------------------------------------------------------
(* bflush, bdflush, bdwait, binval. *)

(* The delayed writes on the free list that bflush(d) looks for. *)
Delayed(d) ==
  {i \in DOMAIN freelist : /\ "DELWRI" \in flags[freelist[i]]
                           /\ d = AllDev \/ OfDev(freelist[i], d)}

(* bflush starts the first delayed write it meets and scans again. *)
BflushWrite(p) ==
  /\ At(p, "bflush")
  /\ \E i \in Delayed(arg[p].dev) :
       /\ \A j \in Delayed(arg[p].dev) : i <= j
       /\ AsyncWrite(p, freelist[i], "bflush")

BflushDone(p) ==
  /\ At(p, "bflush")
  /\ Delayed(arg[p].dev) = {}
  /\ arg[p].k = "user"
  /\ Return(p, "user")
  /\ UNCHANGED <<bufVars, asyVars, disk, io, wchan, mine, histVars>>

(* After bflush the last close of a device invalidates its buffers. *)
binval(p) ==
  /\ At(p, "bflush")
  /\ Delayed(arg[p].dev) = {}
  /\ arg[p].k = "close"
  /\ flags' = [b \in Buf |-> IF OfDev(b, arg[p].dev)
                             THEN flags[b] \cup {"STALE", "AGE"}
                             ELSE flags[b]]
  /\ Return(p, "user")
  /\ UNCHANGED <<ident, data, freelist, flwanted, asyVars, disk, io, wchan, mine,
                 histVars>>

(* bdflush writes delayed writes that have become old. *)
BdflushWrite(p) ==
  /\ At(p, "bdflush")
  /\ \E i \in Delayed(AllDev) : AsyncWrite(p, freelist[i], "bdflush")

BdflushDone(p) ==
  /\ At(p, "bdflush")
  /\ Return(p, "user")
  /\ UNCHANGED <<bufVars, asyVars, disk, io, wchan, mine, histVars>>

BdwaitSleep(p) ==
  /\ At(p, "bdwait")
  /\ basyncnt # 0
  /\ basynwait' = TRUE
  /\ Sleep(p, "basyncnt")
  /\ UNCHANGED <<bufVars, basyncnt, disk, io, pc, mine, arg, histVars>>

BdwaitDone(p) ==
  /\ At(p, "bdwait")
  /\ basyncnt = 0
  /\ Return(p, "user")
  /\ UNCHANGED <<bufVars, asyVars, disk, io, wchan, mine, histVars>>

-----------------------------------------------------------------------------
(* The device.  idstrategy sorts its queue by seek distance, so pending    *)
(* requests complete in any order, and a request in error completes inside *)
(* d_strategy.                                                             *)

(* The transfer itself: b is the buffer, err says that it failed. *)
Transfer(b, err) ==
  LET k == ident[b]
  IN  IF "READ" \in flags[b]
      THEN /\ data' = IF err THEN data ELSE [data EXCEPT ![b] = disk[k]]
           /\ UNCHANGED <<disk, failed>>
      ELSE /\ disk' = IF err THEN disk ELSE [disk EXCEPT ![k] = data[b]]
           /\ failed' = IF err THEN failed \cup {k} ELSE failed
           /\ UNCHANGED data

doneFlags(b, err) ==
  flags[b] \cup {"DONE"} \cup (IF err THEN {"ERROR"} ELSE {})

(* Faulty: a read-ahead that completes is counted as a write. *)
asyncDoneAny(f) == basyncnt - 1

(* basyncnt after the asynchronous request of a buffer with flags f. *)
asyncDone(f) == IF "READ" \in f THEN basyncnt ELSE basyncnt - 1

(* iodone of an asynchronous request releases the buffer. *)
IodoneAsync(b, err) ==
  LET f == doneFlags(b, err)
      cnt == asyncDone(f)
      waked == cnt = 0 /\ basynwait
  IN  /\ b \in io
      /\ "ASYNC" \in flags[b]
      /\ Transfer(b, err)
      /\ io' = io \ {b}
      /\ basyncnt' = cnt
      /\ basynwait' = (basynwait /\ ~waked)
      /\ flags' = [flags EXCEPT ![b] = brelseFlags(f)]
      /\ freelist' = brelseList(freelist, b, f)
      /\ flwanted' = FALSE
      /\ Awaken(brelseWake(b, f) \cup (IF waked THEN {"basyncnt"} ELSE {}))
      /\ UNCHANGED <<ident, cpu, pc, mine, arg, cur>>

(* iodone of a synchronous request wakes the process in iowait. *)
IodoneSync(b, err) ==
  /\ b \in io
  /\ "ASYNC" \notin flags[b]
  /\ Transfer(b, err)
  /\ io' = io \ {b}
  /\ flags' = [flags EXCEPT ![b] = doneFlags(b, err) \ {"WANTED"}]
  /\ Awaken({b})
  /\ UNCHANGED <<ident, freelist, flwanted, asyVars, cpu, pc, mine, arg, cur>>

-----------------------------------------------------------------------------
Enter(p) ==
  \/ StartBread(p) \/ StartGetblk(p) \/ StartGeteblk(p) \/ StartBreada(p)
  \/ StartBflush(p) \/ StartBdwait(p) \/ StartBdflush(p) \/ StartClose(p)

Step(p) ==
  \/ GetblkBusy(p) \/ GetblkEmpty(p) \/ GetblkDelwri(p) \/ GetblkHit(p)
  \/ GetblkTake(p) \/ Reada(p) \/ IowaitSleep(p) \/ IowaitDone(p)
  \/ Release(p) \/ bdwrite(p) \/ bwrite(p) \/ bawrite(p) \/ Bwtail(p)
  \/ BflushWrite(p) \/ BflushDone(p) \/ binval(p)
  \/ BdflushWrite(p) \/ BdflushDone(p) \/ BdwaitSleep(p) \/ BdwaitDone(p)

Interrupt(b) ==
  \E err \in BOOLEAN : IodoneAsync(b, err) \/ IodoneSync(b, err)

Next ==
  \/ \E p \in Proc : Enter(p) \/ Step(p)
  \/ \E b \in Buf : Interrupt(b)

Spec == Init /\ [][Next]_vars

(* The dispatcher picks the runnable process of highest priority and a     *)
(* priority improves with the time waited, so a process that is runnable   *)
(* again and again runs (strong fairness); the disk completes every        *)
(* request.  Nothing obliges a process to enter the cache.                 *)
FairSpec ==
  /\ Spec
  /\ \A p \in Proc : SF_vars(Step(p))
  /\ \A b \in Buf : WF_vars(Interrupt(b))

-----------------------------------------------------------------------------
(* Every variable keeps its type. *)
TypeOK ==
  /\ flags \in [Buf -> SUBSET Flag]
  /\ ident \in [Buf -> Block \cup {NoBlock}]
  /\ data \in [Buf -> Value]
  /\ freelist \in Seq(Buf)
  /\ flwanted \in BOOLEAN
  /\ basyncnt \in Int
  /\ basynwait \in BOOLEAN
  /\ disk \in [Block -> Value]
  /\ io \in SUBSET Buf
  /\ cpu \in Proc \cup {NoProc}
  /\ wchan \in [Proc -> Chan]
  /\ pc \in [Proc -> PC]
  /\ mine \in [Proc -> Buf \cup {NoBuf}]
  /\ arg \in [Proc -> Frame]
  /\ cur \in [Block -> Value]
  /\ failed \in SUBSET Block

(* getblk: a block is never cached twice.  The lookup is repeated after    *)
(* every sleep and every asynchronous write, so two processes that missed  *)
(* on the same block cannot both assign a buffer to it.                    *)
OneBufferPerBlock ==
  \A b, c \in Buf :
    (/\ b # c
     /\ ident[b] # NoBlock
     /\ {"STALE"} \cap (flags[b] \cup flags[c]) = {}) => ident[b] # ident[c]

(* buf.h: a buffer is on the available list if and only if it is not       *)
(* marked BUSY, and it is there once.                                      *)
AvailableIffNotBusy ==
  /\ \A b \in Buf : OnList(b) <=> "BUSY" \notin flags[b]
  /\ \A i, j \in DOMAIN freelist : freelist[i] = freelist[j] => i = j

(* A busy buffer has one keeper: the process that got it, or the device    *)
(* for an asynchronous request; a synchronous request has both.            *)
OneKeeper ==
  \A b \in Buf :
    LET holders == {p \in Proc : mine[p] = b}
    IN  /\ \A p, q \in holders : p = q
        /\ "BUSY" \in flags[b] <=> holders # {} \/ b \in io
        /\ b \in io => ("ASYNC" \in flags[b] <=> holders = {})

(* No lost wakeup: a process asleep on a channel is there while the code   *)
(* that makes its condition true is bound to call wakeup on that channel.  *)
SleepersAreWanted ==
  \A p \in Proc :
    /\ wchan[p] \in Buf /\ pc[p] = "getblk" =>
         {"BUSY", "WANTED"} \subseteq flags[wchan[p]]
    /\ pc[p] = "iowait" /\ wchan[p] # NoChan =>
         wchan[p] = mine[p] /\ mine[p] \in io
    /\ wchan[p] = "bfreelist" => flwanted
    /\ wchan[p] = "basyncnt" => basynwait

(* basyncnt counts the asynchronous writes in progress, except between     *)
(* d_strategy and the increment in bwrite; bdwait may rely on zero.        *)
AsyncWritesCounted ==
  LET writes == {b \in io : "ASYNC" \in flags[b] /\ "READ" \notin flags[b]}
      tail   == {p \in Proc : pc[p] = "bwtail"}
  IN  basyncnt + Cardinality(tail) = Cardinality(writes)

(* A clean free buffer may be dropped at any time, so what was stored last *)
(* is on the disk or in a buffer that is still to be written.              *)
NoStoreIsDropped ==
  \A k \in Block \ failed :
    \/ disk[k] = cur[k]
    \/ \E b \in Buf : /\ ident[b] = k
                      /\ data[b] = cur[k]
                      /\ "DELWRI" \in flags[b] \/ b \in io

(* The cache implements the block store: a block is held by one process at *)
(* a time, which sees the contents stored last unless an error lost them.  *)
holdsBlock(p) == IF pc[p] = "hold" THEN ident[mine[p]] ELSE NoBlock

seesContents(p) ==
  LET b == mine[p]
  IN  IF /\ pc[p] = "hold"
         /\ ident[b] \in Block \ failed
         /\ "DONE" \in flags[b]
         /\ "ERROR" \notin flags[b]
      THEN data[b] ELSE Unknown

Abstract == INSTANCE BlockStore WITH
              store <- cur,
              held  <- [p \in Proc |-> holdsBlock(p)],
              seen  <- [p \in Proc |-> seesContents(p)]

ImplementsBlockStore == Abstract!AbsSpec

(* A process that sleeps in the cache is woken: read-ahead holds one       *)
(* buffer while it waits for another and yet no circular wait arises.      *)
(* bdwait may wait for ever while asynchronous writes keep being started,  *)
(* but only then.                                                          *)
SleepersWake ==
  \A p \in Proc :
    wchan[p] # NoChan
      ~> \/ wchan[p] = NoChan
         \/ wchan[p] = "basyncnt" /\ \E q \in Proc : pc[q] = "bwtail"

(* bflush: when it returns no block of the device is a delayed write. *)
FlushLeavesNoDelayedWrite ==
  [][\A p \in Proc :
       (pc[p] = "bflush" /\ pc'[p] = "user") =>
          \A b \in Buf : /\ "DELWRI" \in flags[b]
                         /\ ident[b] # NoBlock
                         => arg[p].dev \notin {AllDev, DevOf[ident[b]]}]_vars
=============================================================================
