--------------------------- MODULE MsgQueueProofs ---------------------------
(***************************************************************************)
(* Proofs about MsgQueue: the lock of a queue, the marks of the sleepers,  *)
(* what a locked queue keeps, where the texts of the messages lie, which   *)
(* message is received and why processes sleep, for any number of          *)
(* processes, queues, headers and segments.                                *)
(***************************************************************************)
EXTENDS MsgQueue, Sums, FiniteSetTheorems, WellFoundedInduction, TLAPS

Busy == {"type", "text", "out", "set", "stat"}

(* Whoever sleeps is at one of the sleeps of msgconv, msgsnd or msgrcv.    *)
OnlyWaitersSleep ==
  \A p \in Proc : wchan[p] # NoChan => pc[p] \in {"enter", "wait", "again"}

(* The text of every message lies in the pool, and so does what a sender   *)
(* has taken.                                                              *)
MsgsPlaced ==
  \A h \in Hdr : \A i \in DOMAIN msgs[h] :
    Segs(msgs[h][i].spot, btoq(msgs[h][i].ts)) \subseteq Seg

SendersPlaced ==
  \A p \in Proc : pc[p] = "text" => Taken(p) \subseteq Seg

(* The inductive invariant. *)
Inv == /\ TypeOK /\ LockHasOneHolder /\ LockedQueueExists
       /\ OnlyWaitersSleep /\ SleepersFlagged
       /\ MsgsPlaced /\ SendersPlaced

(* The type invariant in two parts: the queues and the shared resources,   *)
(* and the processes.                                                      *)
DataOK ==
  /\ que \in [Hdr -> [alloc : BOOLEAN, seq : Nat, cbytes : Int, qbytes : Nat,
                      rwait : BOOLEAN, wwait : BOOLEAN]]
  /\ msgs \in [Hdr -> Seq(Message)]
  /\ nfree \in Nat
  /\ msgmap \in SUBSET Seg
  /\ mapwant \in BOOLEAN
  /\ pool \in [Seg -> Text \cup {NoText}]

ControlOK ==
  /\ lock \in [Hdr -> BOOLEAN]
  /\ pc \in [Proc -> {"user", "enter", "wait", "again", "type", "text", "out",
                      "set", "stat"}]
  /\ call \in [Proc -> Local]
  /\ wchan \in [Proc -> Chan]
  /\ sig \in [Proc -> BOOLEAN]

LEMMA TypeParts == TypeOK <=> DataOK /\ ControlOK
BY DEF TypeOK, DataOK, ControlOK

(* The remainder names a queue. *)
LEMMA HdrOfType ==
  ASSUME NEW id \in Nat
  PROVE  HdrOf(id) \in Hdr
BY ConstAssumption DEF HdrOf, Hdr

(* A size has a number of segments, and a smaller size has no more. *)
LEMMA BtoqType ==
  ASSUME NEW n \in Nat
  PROVE  btoq(n) \in Nat
BY ConstAssumption DEF btoq

LEMMA BtoqMonotone ==
  ASSUME NEW m \in Nat, NEW n \in Nat, m <= n
  PROVE  btoq(m) <= btoq(n)
BY ConstAssumption DEF btoq

-----------------------------------------------------------------------------
(* p works on the queue h: it has it locked, or finds it free. *)
Works(p, h) ==
  /\ p \in Proc /\ h \in Hdr /\ wchan[p] = NoChan
  /\ Holds(p, h) \/ (~lock[h] /\ pc[p] \notin Busy)

(* Nothing but queue h and its messages changes. *)
OnlyAt(h) ==
  \A g \in Hdr \ {h} : que'[g] = que[g] /\ msgs'[g] = msgs[g]

(* Unlocking, whether the call ends or sleeps, leaves every other holder   *)
(* alone with its queue.                                                   *)
LEMMA UnlockFrame ==
  ASSUME Inv, NEW p, NEW h, Works(p, h), OnlyAt(h),
         NEW where \in {"user", "wait"},
         lock' = [lock EXCEPT ![h] = FALSE],
         pc' = [pc EXCEPT ![p] = where],
         \A q \in Proc \ {p} : call'[q] = call[q]
  PROVE  LockHasOneHolder' /\ LockedQueueExists'
<1> USE DEF Inv
<1>0. p \in Proc /\ h \in Hdr
  BY DEF Works
<1>1. \A q \in Proc, g \in Hdr : Holds(q, g)' <=> q # p /\ Holds(q, g)
  BY <1>0 DEF TypeOK, Holds, Busy
<1>2. \A q \in Proc : Holds(q, h) => q = p
  BY DEF LockHasOneHolder, Works
<1>3. \A g \in Hdr : lock'[g] <=> g # h /\ lock[g]
  BY <1>0 DEF TypeOK
<1>4. \A g \in Hdr \ {h} : ~Holds(p, g)
  BY DEF Works, Holds, Busy
<1>5. ASSUME NEW g \in Hdr
      PROVE  /\ lock'[g] <=> \E q \in Proc : Holds(q, g)'
             /\ \A q, r \in Proc : Holds(q, g)' /\ Holds(r, g)' => q = r
  <2>1. CASE g = h
    BY <2>1, <1>1, <1>2, <1>3
  <2>2. CASE g # h
    BY <2>2, <1>1, <1>3, <1>4 DEF LockHasOneHolder
  <2> QED
    BY <2>1, <2>2
<1>6. ASSUME NEW q \in Proc, NEW g \in Hdr, Holds(q, g)'
      PROVE  Exists(call[q].id)' /\ (pc[q] = "out" => call[q].pos \in DOMAIN msgs[g])'
  <2>1. q # p /\ Holds(q, g) /\ g # h /\ HdrOf(call[q].id) = g
    BY <1>1, <1>2, <1>6 DEF Holds
  <2>2. que'[g] = que[g] /\ msgs'[g] = msgs[g] /\ call'[q] = call[q] /\ pc'[q] = pc[q]
    BY <2>1, <1>0 DEF OnlyAt, TypeOK
  <2> QED
    BY <2>1, <2>2 DEF LockedQueueExists, Exists
<1> QED
  BY <1>5, <1>6 DEF LockHasOneHolder, LockedQueueExists

(* Locking, or keeping the lock, leaves every other holder alone. *)
LEMMA LockFrame ==
  ASSUME Inv, NEW p, NEW h, Works(p, h), UNCHANGED <<que, msgs>>,
         NEW where \in Busy, NEW c, HdrOf(c.id) = h, Exists(c.id),
         where = "out" => c.pos \in DOMAIN msgs[h],
         Go(p, h, where, c)
  PROVE  LockHasOneHolder' /\ LockedQueueExists'
<1> USE DEF Inv
<1>0. p \in Proc /\ h \in Hdr
  BY DEF Works
<1>1. \A q \in Proc \ {p}, g \in Hdr : Holds(q, g)' <=> Holds(q, g)
  BY <1>0 DEF TypeOK, Holds, Go
<1>2. \A g \in Hdr : Holds(p, g)' <=> g = h
  BY <1>0 DEF TypeOK, Holds, Busy, Go
<1>3. \A q \in Proc : Holds(q, h) => q = p
  BY DEF LockHasOneHolder, Works
<1>4. \A g \in Hdr : lock'[g] <=> g = h \/ lock[g]
  BY <1>0 DEF TypeOK, Go
<1>5. \A g \in Hdr \ {h} : ~Holds(p, g)
  BY DEF Works, Holds, Busy
<1>6. ASSUME NEW g \in Hdr
      PROVE  /\ lock'[g] <=> \E q \in Proc : Holds(q, g)'
             /\ \A q, r \in Proc : Holds(q, g)' /\ Holds(r, g)' => q = r
  <2>1. CASE g = h
    BY <2>1, <1>0, <1>1, <1>2, <1>3, <1>4
  <2>2. CASE g # h
    BY <2>2, <1>0, <1>1, <1>2, <1>4, <1>5 DEF LockHasOneHolder
  <2> QED
    BY <2>1, <2>2
<1>7. ASSUME NEW q \in Proc, NEW g \in Hdr, Holds(q, g)'
      PROVE  Exists(call[q].id)' /\ (pc[q] = "out" => call[q].pos \in DOMAIN msgs[g])'
  <2>1. CASE q = p
    BY <2>1, <1>0, <1>2, <1>7 DEF TypeOK, Go, Exists
  <2>2. CASE q # p
    BY <2>2, <1>0, <1>1, <1>7 DEF TypeOK, Go, LockedQueueExists, Exists
  <2> QED
    BY <2>1, <2>2
<1> QED
  BY <1>6, <1>7 DEF LockHasOneHolder, LockedQueueExists

(* The channel ch is marked where the code that wakes it looks. *)
Marked(ch) ==
  \A h \in Hdr :
    /\ ch = <<"lock", h>> => lock[h]
    /\ ch = <<"rcv", h>> => que[h].rwait
    /\ ch = <<"snd", h>> => que[h].wwait
    /\ ch = <<"hdr", 0>> => nfree = 0
    /\ ch = <<"map", 0>> => mapwant

(* Marks may be taken away from sleepers only together with a wakeup; the  *)
(* acting process may go to sleep on a marked channel.                     *)
LEMMA WakeFrame ==
  ASSUME Inv, NEW p \in Proc, NEW chan, NEW chans,
         wchan'[p] = chan, Marked(chan)',
         \A q \in Proc \ {p} : /\ wchan'[q] \in {wchan[q], NoChan}
                               /\ wchan[q] \in chans => wchan'[q] = NoChan,
         \A g \in Hdr : lock[g] => lock'[g] \/ <<"lock", g>> \in chans,
         \A g \in Hdr : que[g].rwait => que'[g].rwait \/ <<"rcv", g>> \in chans,
         \A g \in Hdr : que[g].wwait => que'[g].wwait \/ <<"snd", g>> \in chans,
         nfree = 0 => nfree' = 0 \/ <<"hdr", 0>> \in chans,
         mapwant => mapwant' \/ <<"map", 0>> \in chans
  PROVE  SleepersFlagged'
<1>1. SUFFICES ASSUME NEW q \in Proc
               PROVE  Marked(wchan[q])'
  BY DEF SleepersFlagged, Marked
<1>2. CASE q = p
  BY <1>2
<1>3. CASE q # p /\ wchan'[q] = NoChan
  BY <1>3 DEF NoChan, Marked
<1>4. CASE q # p /\ wchan'[q] = wchan[q] /\ wchan[q] # NoChan
  <2>1. wchan[q] \notin chans
    BY <1>4
  <2>2. Marked(wchan[q])
    BY DEF Inv, SleepersFlagged, Marked
  <2> QED
    BY <1>4, <2>1, <2>2 DEF Marked
<1> QED
  BY <1>2, <1>3, <1>4

(* A process that is not busy or that holds a lock does not sleep. *)
LEMMA BusyWorks ==
  ASSUME Inv, NEW p \in Proc, pc[p] \in Busy
  PROVE  Works(p, HdrOf(call[p].id)) /\ call[p] \in Local
<1>1. call[p] \in Local /\ call[p].id \in Nat
  BY DEF Inv, TypeOK, Local
<1>2. HdrOf(call[p].id) \in Hdr
  BY <1>1, HdrOfType
<1> QED
  BY <1>1, <1>2 DEF Inv, OnlyWaitersSleep, Works, Holds, Busy

LEMMA NoCallType == NoCall \in Local
BY DEF NoCall, Fresh, Local, Chan, NoChan

(* What the end of a call does to the processes. *)
LEMMA LeaveFrame ==
  ASSUME Inv, NEW p, NEW h, NEW chans, Works(p, h), OnlyAt(h),
         Leave(p, h, chans)
  PROVE  /\ ControlOK' /\ OnlyWaitersSleep' /\ SendersPlaced'
         /\ LockHasOneHolder' /\ LockedQueueExists'
<1> USE DEF Inv
<1>0. p \in Proc /\ h \in Hdr /\ wchan[p] = NoChan
  BY DEF Works
<1>1. LockHasOneHolder' /\ LockedQueueExists'
  BY <1>0, UnlockFrame DEF Leave, TypeOK
<1>2. ControlOK'
  BY <1>0, NoCallType DEF TypeOK, ControlOK, Leave, Woken, Chan
<1>3. OnlyWaitersSleep'
  BY <1>0 DEF TypeOK, OnlyWaitersSleep, Leave, Woken
<1>4. SendersPlaced'
  BY <1>0 DEF TypeOK, SendersPlaced, Leave, Taken
<1> QED
  BY <1>1, <1>2, <1>3, <1>4

(* What going to sleep does to the processes. *)
LEMMA SleepFrame ==
  ASSUME Inv, NEW p, NEW h, NEW chan \in Chan, NEW c \in Local, NEW chans,
         Works(p, h), OnlyAt(h), SleepOn(p, h, chan, c, chans)
  PROVE  /\ ControlOK' /\ OnlyWaitersSleep' /\ SendersPlaced'
         /\ LockHasOneHolder' /\ LockedQueueExists'
<1> USE DEF Inv
<1>0. p \in Proc /\ h \in Hdr /\ wchan[p] = NoChan
  BY DEF Works
<1>1. LockHasOneHolder' /\ LockedQueueExists'
  BY <1>0, UnlockFrame DEF SleepOn, TypeOK
<1>2. [c EXCEPT !.on = chan] \in Local
  BY DEF Local
<1>3. ControlOK'
  BY <1>0, <1>2 DEF TypeOK, ControlOK, SleepOn, Woken, Chan
<1>4. OnlyWaitersSleep'
  BY <1>0 DEF TypeOK, OnlyWaitersSleep, SleepOn, Woken
<1>5. SendersPlaced'
  BY <1>0 DEF TypeOK, SendersPlaced, SleepOn, Taken
<1> QED
  BY <1>1, <1>3, <1>4, <1>5

(* What going on with the queue locked does to the processes. *)
LEMMA GoFrame ==
  ASSUME Inv, NEW p, NEW h, NEW where \in Busy, NEW c \in Local,
         Works(p, h), UNCHANGED <<que, msgs>>, HdrOf(c.id) = h, Exists(c.id),
         where = "out" => c.pos \in DOMAIN msgs[h],
         where = "text" => Segs(c.spot, btoq(c.size)) \subseteq Seg,
         Go(p, h, where, c)
  PROVE  /\ ControlOK' /\ OnlyWaitersSleep' /\ SendersPlaced'
         /\ LockHasOneHolder' /\ LockedQueueExists'
<1> USE DEF Inv
<1>0. p \in Proc /\ h \in Hdr /\ wchan[p] = NoChan
  BY DEF Works
<1>1. LockHasOneHolder' /\ LockedQueueExists'
  BY LockFrame
<1>2. ControlOK'
  BY <1>0 DEF TypeOK, ControlOK, Go, Woken, Busy, Chan
<1>3. OnlyWaitersSleep'
  BY <1>0 DEF TypeOK, OnlyWaitersSleep, Go, Woken
<1>4. SendersPlaced'
  BY <1>0 DEF TypeOK, SendersPlaced, Go, Taken
<1> QED
  BY <1>1, <1>2, <1>3, <1>4

-----------------------------------------------------------------------------
(* One lemma for each way through the calls. *)

(* The call ends, and whoever loses a mark is woken. *)
LEMMA LeaveInv ==
  ASSUME Inv, NEW p, NEW h, NEW chans, Works(p, h), OnlyAt(h),
         DataOK', MsgsPlaced',
         que[h].rwait => que'[h].rwait \/ <<"rcv", h>> \in chans,
         que[h].wwait => que'[h].wwait \/ <<"snd", h>> \in chans,
         nfree = 0 => nfree' = 0 \/ <<"hdr", 0>> \in chans,
         mapwant => mapwant' \/ <<"map", 0>> \in chans,
         Leave(p, h, chans)
  PROVE  Inv'
<1>0. p \in Proc /\ h \in Hdr /\ wchan[p] = NoChan
  BY DEF Works
<1>1. /\ ControlOK' /\ OnlyWaitersSleep' /\ SendersPlaced'
      /\ LockHasOneHolder' /\ LockedQueueExists'
  BY LeaveFrame
<1>2. SleepersFlagged'
  <2> DEFINE all == chans \cup {<<"lock", h>>}
  <2>1. wchan'[p] = NoChan /\ Marked(NoChan)'
    BY <1>0 DEF Inv, TypeOK, Leave, Woken, Marked, NoChan
  <2>2. \A q \in Proc : /\ wchan'[q] \in {wchan[q], NoChan}
                        /\ wchan[q] \in all => wchan'[q] = NoChan
    BY DEF Inv, TypeOK, Leave, Woken
  <2>3. \A g \in Hdr : lock[g] => lock'[g] \/ <<"lock", g>> \in all
    BY DEF Inv, TypeOK, Leave
  <2>4. \A g \in Hdr : que[g].rwait => que'[g].rwait \/ <<"rcv", g>> \in all
    BY DEF OnlyAt
  <2>5. \A g \in Hdr : que[g].wwait => que'[g].wwait \/ <<"snd", g>> \in all
    BY DEF OnlyAt
  <2>6. /\ nfree = 0 => nfree' = 0 \/ <<"hdr", 0>> \in all
        /\ mapwant => mapwant' \/ <<"map", 0>> \in all
    OBVIOUS
  <2> HIDE DEF all
  <2> QED
    BY <1>0, <2>1, <2>2, <2>3, <2>4, <2>5, <2>6, WakeFrame
<1> QED
  BY <1>1, <1>2, TypeParts DEF Inv, TypeOK, DataOK, ControlOK

LEMMA StillLeave ==
  ASSUME Inv, NEW p, NEW h, NEW chans, Works(p, h),
         UNCHANGED <<que, msgs, resVars>>, Leave(p, h, chans)
  PROVE  Inv'
<1>1. OnlyAt(h) /\ DataOK' /\ MsgsPlaced'
  BY DEF OnlyAt, Inv, TypeOK, DataOK, MsgsPlaced, resVars
<1>2. UNCHANGED <<que, nfree, mapwant>>
  BY DEF resVars
<1> QED
  BY <1>1, <1>2, LeaveInv

(* The call goes on with its queue locked. *)
LEMMA QuietGo ==
  ASSUME Inv, NEW p, NEW h, NEW where \in Busy, NEW c \in Local,
         Works(p, h), HdrOf(c.id) = h, Exists(c.id),
         where = "out" => c.pos \in DOMAIN msgs[h],
         where = "text" => Segs(c.spot, btoq(c.size)) \subseteq Seg,
         Go(p, h, where, c), DataOK',
         UNCHANGED <<que, msgs, mapwant>>, nfree = 0 => nfree' = 0
  PROVE  Inv'
<1>0. p \in Proc /\ h \in Hdr /\ wchan[p] = NoChan
  BY DEF Works
<1>1. /\ ControlOK' /\ OnlyWaitersSleep' /\ SendersPlaced'
      /\ LockHasOneHolder' /\ LockedQueueExists'
  BY GoFrame
<1>2. SleepersFlagged'
  <2>1. wchan'[p] = NoChan /\ Marked(NoChan)'
    BY <1>0 DEF Inv, TypeOK, Go, Woken, Marked, NoChan
  <2>2. \A q \in Proc : /\ wchan'[q] \in {wchan[q], NoChan}
                        /\ wchan[q] \in {<<"lock", h>>} => wchan'[q] = NoChan
    BY DEF Inv, TypeOK, Go, Woken
  <2>3. \A g \in Hdr : lock[g] => lock'[g]
    BY DEF Inv, TypeOK, Go
  <2> QED
    BY <1>0, <2>1, <2>2, <2>3, WakeFrame
<1>3. MsgsPlaced'
  BY DEF Inv, MsgsPlaced
<1> QED
  BY <1>1, <1>2, <1>3, TypeParts DEF Inv, TypeOK, DataOK, ControlOK

(* The call sleeps on a channel that it marked. *)
LEMMA QuietSleep ==
  ASSUME Inv, NEW p, NEW h, NEW chan \in Chan, NEW c \in Local, NEW chans,
         Works(p, h), OnlyAt(h), DataOK', SleepOn(p, h, chan, c, chans),
         UNCHANGED <<msgs, nfree>>, mapwant => mapwant',
         \A g \in Hdr : /\ que[g].rwait => que'[g].rwait
                        /\ que[g].wwait => que'[g].wwait,
         \A g \in Hdr : chan # <<"lock", g>>,
         \A g \in Hdr : chan = <<"rcv", g>> => que'[g].rwait,
         \A g \in Hdr : chan = <<"snd", g>> => que'[g].wwait,
         chan = <<"hdr", 0>> => nfree' = 0,
         chan = <<"map", 0>> => mapwant'
  PROVE  Inv'
<1>0. p \in Proc /\ h \in Hdr /\ wchan[p] = NoChan
  BY DEF Works
<1>1. /\ ControlOK' /\ OnlyWaitersSleep' /\ SendersPlaced'
      /\ LockHasOneHolder' /\ LockedQueueExists'
  BY SleepFrame
<1>2. SleepersFlagged'
  <2>1. wchan'[p] = chan /\ Marked(chan)'
    BY <1>0 DEF Inv, TypeOK, SleepOn, Woken, Marked
  <2>2. \A q \in Proc \ {p} :
          /\ wchan'[q] \in {wchan[q], NoChan}
          /\ wchan[q] \in chans \cup {<<"lock", h>>} => wchan'[q] = NoChan
    BY DEF Inv, TypeOK, SleepOn, Woken
  <2>3. \A g \in Hdr : lock[g] => lock'[g] \/ <<"lock", g>> \in chans \cup {<<"lock", h>>}
    BY DEF Inv, TypeOK, SleepOn
  <2> QED
    BY <1>0, <2>1, <2>2, <2>3, WakeFrame
<1>3. MsgsPlaced'
  BY DEF Inv, MsgsPlaced
<1> QED
  BY <1>1, <1>2, <1>3, TypeParts DEF Inv, TypeOK, DataOK, ControlOK

(* msgrcv *)
LEMMA FindmsgInv ==
  ASSUME Inv, NEW p, NEW c \in Local, Works(p, HdrOf(c.id)), Exists(c.id),
         Findmsg(p, c)
  PROVE  Inv'
<1> DEFINE h == HdrOf(c.id)
<1>0. h \in Hdr
  BY DEF Works
<1>1. CASE /\ que' = [que EXCEPT ![h].rwait = TRUE]
           /\ SleepOn(p, h, <<"rcv", h>>, c, {})
           /\ UNCHANGED <<msgs, resVars>>
  <2>1. <<"rcv", h>> \in Chan
    BY <1>0 DEF Chan
  <2>2. /\ OnlyAt(h) /\ DataOK'
        /\ \A g \in Hdr : /\ que[g].rwait => que'[g].rwait
                          /\ que[g].wwait => que'[g].wwait
        /\ que'[h].rwait
    BY <1>0, <1>1 DEF OnlyAt, Inv, TypeOK, DataOK, resVars
  <2>3. UNCHANGED <<msgs, nfree, mapwant>>
    BY <1>1 DEF resVars
  <2>4. /\ \A g \in Hdr : <<"rcv", h>> # <<"lock", g>>
        /\ \A g \in Hdr : <<"rcv", h>> # <<"snd", g>>
        /\ \A g \in Hdr : <<"rcv", h>> = <<"rcv", g>> => que'[g].rwait
        /\ <<"rcv", h>> # <<"hdr", 0>> /\ <<"rcv", h>> # <<"map", 0>>
    BY <2>2
  <2> HIDE DEF h
  <2> QED
    BY <1>1, <2>1, <2>2, <2>3, <2>4, QuietSleep DEF h
<1>2. CASE Leave(p, h, {}) /\ UNCHANGED <<que, msgs, resVars>>
  BY <1>2, StillLeave
<1>3. ASSUME NEW i \in Matches(msgs[h], c.type),
             Go(p, h, "out", [c EXCEPT !.pos = i]),
             UNCHANGED <<que, msgs, resVars>>
      PROVE  Inv'
  <2>1. i \in DOMAIN msgs[h]
    BY <1>3 DEF Matches
  <2>2. i \in Nat
    BY <2>1, <1>0 DEF Inv, TypeOK
  <2> DEFINE d == [c EXCEPT !.pos = i]
  <2>3. d \in Local /\ d.id = c.id /\ d.pos = i
    BY <2>2 DEF Local
  <2>4. DataOK' /\ nfree' = nfree /\ UNCHANGED <<que, msgs, mapwant>>
    BY <1>3 DEF Inv, TypeOK, DataOK, resVars
  <2> HIDE DEF d
  <2>5. Go(p, h, "out", d)
    BY <1>3 DEF d
  <2> QED
    BY <2>1, <2>3, <2>4, <2>5, QuietGo DEF Busy
<1> QED
  BY <1>1, <1>2, <1>3 DEF Findmsg

(* Only the request of a busy process changes, but not the queue it names. *)
LEMMA CopyFrame ==
  ASSUME Inv, NEW p \in Proc, pc[p] \in Busy, NEW c \in Local,
         c.id = call[p].id, c.pos = call[p].pos, c.spot = call[p].spot,
         c.size = call[p].size, DataOK',
         call' = [call EXCEPT ![p] = c],
         UNCHANGED <<que, msgs, lock, nfree, mapwant, pc, wchan, sig>>
  PROVE  Inv'
<1> USE DEF Inv
<1>1. \A q \in Proc : /\ call'[q].id = call[q].id /\ call'[q].pos = call[q].pos
                      /\ call'[q].spot = call[q].spot
                      /\ call'[q].size = call[q].size
  BY DEF TypeOK
<1>2. ControlOK'
  BY DEF TypeOK, ControlOK
<1>3. \A q \in Proc, g \in Hdr : Holds(q, g)' <=> Holds(q, g)
  BY <1>1 DEF Holds
<1>4. LockHasOneHolder'
  BY <1>3 DEF LockHasOneHolder
<1>5. LockedQueueExists'
  BY <1>1, <1>3 DEF LockedQueueExists, Exists
<1>6. OnlyWaitersSleep' /\ SleepersFlagged' /\ MsgsPlaced'
  BY DEF OnlyWaitersSleep, SleepersFlagged, MsgsPlaced
<1>7. SendersPlaced'
  BY <1>1 DEF SendersPlaced, Taken
<1> QED
  BY <1>2, <1>4, <1>5, <1>6, <1>7, TypeParts
    DEF TypeOK, DataOK, ControlOK

(* The parts of a message on a queue, and changes of a request. *)
LEMMA MsgParts ==
  ASSUME NEW q \in Seq(Message), NEW i \in DOMAIN q
  PROVE  /\ q[i] \in Message
         /\ q[i].spot \in Nat /\ q[i].ts \in Nat /\ q[i].type \in Int
<1>1. q[i] \in Message
  OBVIOUS
<1> QED
  BY <1>1 DEF Message

LEMMA GotMore ==
  ASSUME NEW c \in Local, NEW v \in Text \cup {NoText}
  PROVE  LET d == [c EXCEPT !.got = Append(c.got, v)]
         IN  /\ d \in Local /\ d.id = c.id /\ d.pos = c.pos
             /\ d.spot = c.spot /\ d.size = c.size
<1>1. Append(c.got, v) \in Seq(Text \cup {NoText})
  BY DEF Local
<1> DEFINE g == Append(c.got, v)
<1> HIDE DEF g
<1>2. g \in Seq(Text \cup {NoText})
  BY <1>1 DEF g
<1>3. LET d == [c EXCEPT !.got = g]
      IN  /\ d \in Local /\ d.id = c.id /\ d.pos = c.pos
          /\ d.spot = c.spot /\ d.size = c.size
  BY <1>2 DEF Local
<1> QED
  BY <1>3 DEF g

LEMMA AtMore ==
  ASSUME NEW c \in Local
  PROVE  LET d == [c EXCEPT !.at = c.at + 1]
         IN  /\ d \in Local /\ d.id = c.id /\ d.pos = c.pos
             /\ d.spot = c.spot /\ d.size = c.size
<1>1. c.at + 1 \in Nat
  BY DEF Local
<1> DEFINE g == c.at + 1
<1> HIDE DEF g
<1>2. g \in Nat
  BY <1>1 DEF g
<1>3. LET d == [c EXCEPT !.at = g]
      IN  /\ d \in Local /\ d.id = c.id /\ d.pos = c.pos
          /\ d.spot = c.spot /\ d.size = c.size
  BY <1>2 DEF Local
<1> QED
  BY <1>3 DEF g

(* The number of segments copied out is at most that of the message, so    *)
(* the next one is a segment of it.                                        *)
LEMMA NextSegment ==
  ASSUME NEW spot \in Nat, NEW ts \in Nat, NEW size \in Nat, NEW k \in Nat,
         k < btoq(Shorter(size, ts))
  PROVE  spot + k \in Segs(spot, btoq(ts))
<1>1. Shorter(size, ts) \in Nat /\ Shorter(size, ts) <= ts
  BY DEF Shorter
<1>2. btoq(Shorter(size, ts)) \in Nat /\ btoq(ts) \in Nat
        /\ btoq(Shorter(size, ts)) <= btoq(ts)
  BY <1>1, BtoqType, BtoqMonotone
<1> QED
  BY <1>2 DEF Segs

(* A receiver reads inside the pool. *)
LEMMA CopyOutInv ==
  ASSUME Inv, NEW p \in Proc, CopyOut(p)
  PROVE  Inv'
<1> DEFINE c == call[p]
           h == HdrOf(c.id)
           m == msgs[h][c.pos]
           v == pool[m.spot + Len(c.got)]
           d == [c EXCEPT !.got = Append(c.got, v)]
<1>1. pc[p] \in Busy /\ c \in Local /\ h \in Hdr
  BY BusyWorks DEF CopyOut, Busy, Works
<1>2. c.pos \in DOMAIN msgs[h]
  BY <1>1 DEF Inv, LockedQueueExists, Holds, CopyOut
<1>3. m \in Message /\ m.spot \in Nat /\ m.ts \in Nat
  BY <1>1, <1>2, MsgParts DEF Inv, TypeOK
<1>4. Len(c.got) \in Nat /\ c.size \in Nat
  BY <1>1 DEF Local
<1>5. Len(c.got) < btoq(Shorter(c.size, m.ts))
  BY DEF CopyOut, OutSegs
<1>6. m.spot + Len(c.got) \in Seg
  <2>1. Segs(m.spot, btoq(m.ts)) \subseteq Seg
    BY <1>1, <1>2 DEF Inv, MsgsPlaced
  <2>2. m.spot + Len(c.got) \in Segs(m.spot, btoq(m.ts))
    BY <1>3, <1>4, <1>5, NextSegment
  <2> QED
    BY <2>1, <2>2
<1>7. v \in Text \cup {NoText}
  BY <1>6 DEF Inv, TypeOK
<1>8. d \in Local /\ d.id = c.id /\ d.pos = c.pos /\ d.spot = c.spot /\ d.size = c.size
  BY <1>1, <1>7, GotMore
<1>9. call' = [call EXCEPT ![p] = d]
  BY <1>1 DEF CopyOut, Inv, TypeOK, Local
<1>10. DataOK' /\ UNCHANGED <<que, msgs, lock, nfree, mapwant, pc, wchan, sig>>
  BY DEF CopyOut, Inv, TypeOK, DataOK, resVars
<1> HIDE DEF d
<1> QED
  BY <1>1, <1>8, <1>9, <1>10, CopyFrame

LEMMA CopyInInv ==
  ASSUME Inv, NEW p \in Proc, CopyIn(p)
  PROVE  Inv'
<1> DEFINE c == call[p]
           d == [c EXCEPT !.at = c.at + 1]
<1>1. pc[p] \in Busy /\ c \in Local
  BY BusyWorks DEF CopyIn, Busy
<1>2. d \in Local /\ d.id = c.id /\ d.pos = c.pos /\ d.spot = c.spot /\ d.size = c.size
  BY <1>1, AtMore
<1>3. call' = [call EXCEPT ![p] = d]
  BY <1>1 DEF CopyIn, Inv, TypeOK, Local
<1>4. c.text \in Text \cup {NoText}
  BY <1>1 DEF Local
<1>5. DataOK' /\ UNCHANGED <<que, msgs, lock, nfree, mapwant, pc, wchan, sig>>
  BY <1>4 DEF CopyIn, Inv, TypeOK, DataOK
<1> HIDE DEF d
<1> QED
  BY <1>1, <1>2, <1>3, <1>5, CopyFrame

(* Without keeps the other elements in their order. *)
LEMMA WithoutLemma ==
  ASSUME NEW S, NEW q \in Seq(S), NEW i \in DOMAIN q
  PROVE  /\ Without(q, i) \in Seq(S)
         /\ Len(Without(q, i)) = Len(q) - 1
         /\ \A j \in 1 .. Len(q) - 1 :
              Without(q, i)[j] = q[IF j < i THEN j ELSE j + 1]
<1>1. i \in 1 .. Len(q) /\ Len(q) \in Nat
  OBVIOUS
<1> DEFINE a == SubSeq(q, 1, i - 1)
           b == SubSeq(q, i + 1, Len(q))
<1>2. a \in Seq(S) /\ Len(a) = i - 1 /\ \A j \in 1 .. i - 1 : a[j] = q[j]
  BY <1>1
<1>3. b \in Seq(S) /\ Len(b) = Len(q) - i
        /\ \A j \in 1 .. Len(q) - i : b[j] = q[i + j]
  BY <1>1
<1> HIDE DEF a, b
<1>4. a \o b \in Seq(S) /\ Len(a \o b) = Len(q) - 1
  BY <1>1, <1>2, <1>3
<1>5. ASSUME NEW j \in 1 .. Len(q) - 1
      PROVE  (a \o b)[j] = q[IF j < i THEN j ELSE j + 1]
  <2>1. CASE j < i
    BY <2>1, <1>1, <1>2, <1>3
  <2>2. CASE j >= i
    <3>1. (a \o b)[j] = b[j - (i - 1)]
      BY <2>2, <1>1, <1>2, <1>3
    <3>2. j - (i - 1) \in 1 .. Len(q) - i
      BY <2>2, <1>1
    <3> QED
      BY <3>1, <3>2, <2>2, <1>1, <1>3
  <2>3. j < i \/ j >= i
    BY <1>1
  <2> QED
    BY <2>1, <2>2, <2>3
<1> QED
  BY <1>4, <1>5 DEF Without, a, b

(* Changes of the bytes of a queue together with one of its marks. *)
QueRecord == [alloc : BOOLEAN, seq : Nat, cbytes : Int, qbytes : Nat,
              rwait : BOOLEAN, wwait : BOOLEAN]

LEMMA QueChange ==
  ASSUME NEW f \in [Hdr -> QueRecord], NEW h \in Hdr, NEW n \in Nat
  PROVE  /\ [f EXCEPT ![h].cbytes = @ - n, ![h].wwait = FALSE] \in [Hdr -> QueRecord]
         /\ [f EXCEPT ![h].cbytes = @ + n, ![h].rwait = FALSE] \in [Hdr -> QueRecord]
<1>1. f[h] \in QueRecord /\ f[h].cbytes - n \in Int /\ f[h].cbytes + n \in Int
  BY DEF QueRecord
<1> DEFINE a == f[h].cbytes - n
           b == f[h].cbytes + n
           ra == [[f[h] EXCEPT !.cbytes = a] EXCEPT !.wwait = FALSE]
           rb == [[f[h] EXCEPT !.cbytes = b] EXCEPT !.rwait = FALSE]
<1>2. ra \in QueRecord /\ rb \in QueRecord
  <2> HIDE DEF a, b
  <2>1. a \in Int /\ b \in Int
    BY <1>1 DEF a, b
  <2> QED
    BY <1>1, <2>1 DEF QueRecord
<1>3. /\ [f EXCEPT ![h].cbytes = @ - n, ![h].wwait = FALSE] = [f EXCEPT ![h] = ra]
      /\ [f EXCEPT ![h].cbytes = @ + n, ![h].rwait = FALSE] = [f EXCEPT ![h] = rb]
  OBVIOUS
<1> HIDE DEF ra, rb
<1> QED
  BY <1>2, <1>3

LEMMA OutDoneInv ==
  ASSUME Inv, NEW p \in Proc, OutDone(p)
  PROVE  Inv'
<1> DEFINE c == call[p]
           h == HdrOf(c.id)
           m == msgs[h][c.pos]
           segs == Segs(m.spot, btoq(m.ts))
           chans == HeaderWakes \cup (IF segs = {} THEN {} ELSE MapWakes)
                      \cup (IF que[h].wwait THEN {<<"snd", h>>} ELSE {})
<1>1. pc[p] = "out" /\ pc[p] \in Busy
  BY DEF OutDone, Busy
<1>2. Works(p, h) /\ h \in Hdr
  BY <1>1, BusyWorks DEF Works
<1>3. c.pos \in DOMAIN msgs[h]
  BY <1>1, <1>2 DEF Inv, LockedQueueExists, Holds
<1>4. m.ts \in Nat /\ msgs[h] \in Seq(Message)
  BY <1>2, <1>3, MsgParts DEF Inv, TypeOK
<1>5. segs \subseteq Seg
  BY <1>2, <1>3 DEF Inv, MsgsPlaced
<1>6. /\ que' = [que EXCEPT ![h].cbytes = @ - m.ts, ![h].wwait = FALSE]
      /\ msgs' = [msgs EXCEPT ![h] = Without(msgs[h], c.pos)]
      /\ msgmap' = msgmap \cup segs
      /\ mapwant' = IF segs = {} THEN mapwant ELSE FALSE
      /\ nfree' = nfree + 1 /\ pool' = pool
      /\ Leave(p, h, chans)
  BY DEF OutDone, mfree
<1> HIDE DEF m, segs, chans, h, c
<1>7. Without(msgs[h], c.pos) \in Seq(Message)
  BY <1>3, <1>4, WithoutLemma
<1>8. OnlyAt(h) /\ que'[h].rwait = que[h].rwait
  BY <1>2, <1>6 DEF OnlyAt, Inv, TypeOK
<1>9. DataOK'
  <2>1. que' \in [Hdr -> [alloc : BOOLEAN, seq : Nat, cbytes : Int, qbytes : Nat,
                          rwait : BOOLEAN, wwait : BOOLEAN]]
    BY <1>2, <1>4, <1>6, QueChange DEF Inv, TypeOK, QueRecord
  <2>2. msgs' \in [Hdr -> Seq(Message)]
    BY <1>2, <1>6, <1>7 DEF Inv, TypeOK
  <2>3. nfree' \in Nat /\ msgmap' \in SUBSET Seg /\ pool' \in [Seg -> Text \cup {NoText}]
    BY <1>5, <1>6 DEF Inv, TypeOK
  <2>4. mapwant' \in BOOLEAN
    BY <1>6 DEF Inv, TypeOK
  <2> QED
    BY <2>1, <2>2, <2>3, <2>4 DEF DataOK
<1>10. MsgsPlaced'
  <2> SUFFICES ASSUME NEW g \in Hdr, NEW i \in DOMAIN msgs'[g]
               PROVE  Segs(msgs'[g][i].spot, btoq(msgs'[g][i].ts)) \subseteq Seg
    BY DEF MsgsPlaced
  <2>1. CASE g # h
    BY <2>1, <1>2, <1>6 DEF Inv, TypeOK, MsgsPlaced
  <2>2. CASE g = h
    <3> DEFINE j == IF i < c.pos THEN i ELSE i + 1
    <3>1. msgs'[g] = Without(msgs[h], c.pos)
      BY <2>2, <1>2, <1>6 DEF Inv, TypeOK
    <3>2. i \in 1 .. Len(msgs[h]) - 1
      BY <3>1, <1>3, <1>4, <1>7, WithoutLemma
    <3>3. msgs'[g][i] = msgs[h][j]
      BY <3>1, <3>2, <1>3, <1>4, WithoutLemma
    <3>4. j \in DOMAIN msgs[h]
      BY <3>2, <1>3, <1>4
    <3> HIDE DEF j
    <3> QED
      BY <3>3, <3>4, <1>2 DEF Inv, MsgsPlaced
  <2> QED
    BY <2>1, <2>2
<1>11. /\ que[h].wwait => <<"snd", h>> \in chans
       /\ nfree = 0 => <<"hdr", 0>> \in chans
       /\ mapwant => mapwant' \/ <<"map", 0>> \in chans
  BY <1>6 DEF chans, HeaderWakes, MapWakes
<1> QED
  BY <1>2, <1>6, <1>8, <1>9, <1>10, <1>11, LeaveInv

(* msgsnd: the message goes to the end of its queue. *)
LEMMA PutInv ==
  ASSUME Inv, NEW p, NEW h, NEW c \in Local, Works(p, h), Put(p, h, c),
         c.size = 0 \/ Segs(c.spot, btoq(c.size)) \subseteq Seg,
         nfree' \in Nat, nfree = 0 => nfree' = 0,
         UNCHANGED <<msgmap, mapwant, pool>>
  PROVE  Inv'
<1> DEFINE m == [type |-> c.type, ts |-> c.size, text |-> c.text,
                 spot |-> IF c.size = 0 THEN 0 ELSE c.spot]
           chans == IF que[h].rwait THEN {<<"rcv", h>>} ELSE {}
<1>1. p \in Proc /\ h \in Hdr
  BY DEF Works
<1>2. m \in Message /\ m.ts = c.size /\ c.size \in Nat
        /\ m.spot = IF c.size = 0 THEN 0 ELSE c.spot
  BY DEF Local, Message
<1>3. Segs(m.spot, btoq(m.ts)) \subseteq Seg
  <2>1. CASE c.size = 0
    <3>1. btoq(0) = 0
      BY ConstAssumption DEF btoq
    <3> QED
      BY <2>1, <1>2, <3>1 DEF Segs
  <2>2. CASE c.size # 0
    BY <2>2, <1>2
  <2> QED
    BY <2>1, <2>2
<1>4. /\ que' = [que EXCEPT ![h].cbytes = @ + c.size, ![h].rwait = FALSE]
      /\ msgs' = [msgs EXCEPT ![h] = Append(msgs[h], m)]
      /\ Leave(p, h, chans)
  BY DEF Put
<1> HIDE DEF m, chans
<1>5. OnlyAt(h) /\ que'[h].wwait = que[h].wwait
  BY <1>1, <1>4 DEF OnlyAt, Inv, TypeOK
<1>6. msgs[h] \in Seq(Message) /\ Append(msgs[h], m) \in Seq(Message)
  BY <1>1, <1>2 DEF Inv, TypeOK
<1>7. DataOK'
  <2>1. que' \in [Hdr -> [alloc : BOOLEAN, seq : Nat, cbytes : Int, qbytes : Nat,
                          rwait : BOOLEAN, wwait : BOOLEAN]]
    BY <1>1, <1>2, <1>4, QueChange DEF Inv, TypeOK, QueRecord
  <2>2. msgs' \in [Hdr -> Seq(Message)]
    BY <1>1, <1>4, <1>6 DEF Inv, TypeOK
  <2> QED
    BY <2>1, <2>2 DEF DataOK, Inv, TypeOK
<1>8. MsgsPlaced'
  <2> SUFFICES ASSUME NEW g \in Hdr, NEW i \in DOMAIN msgs'[g]
               PROVE  Segs(msgs'[g][i].spot, btoq(msgs'[g][i].ts)) \subseteq Seg
    BY DEF MsgsPlaced
  <2>1. CASE g # h
    BY <2>1, <1>1, <1>4 DEF Inv, TypeOK, MsgsPlaced
  <2>2. CASE g = h
    <3>1. msgs'[g] = Append(msgs[h], m)
      BY <2>2, <1>1, <1>4 DEF Inv, TypeOK
    <3>2. \/ i \in DOMAIN msgs[h] /\ msgs'[g][i] = msgs[h][i]
          \/ msgs'[g][i] = m
      BY <3>1, <1>6
    <3> QED
      BY <3>2, <1>1, <1>3 DEF Inv, MsgsPlaced
  <2> QED
    BY <2>1, <2>2
<1>9. que[h].rwait => <<"rcv", h>> \in chans
  BY DEF chans
<1> QED
  BY <1>4, <1>5, <1>7, <1>8, <1>9, LeaveInv

LEMMA QueMark ==
  ASSUME NEW f \in [Hdr -> QueRecord], NEW h \in Hdr
  PROVE  LET e == [f EXCEPT ![h].wwait = TRUE]
         IN  /\ e \in [Hdr -> QueRecord]
             /\ \A g \in Hdr : /\ g # h => e[g] = f[g]
                               /\ e[g].rwait = f[g].rwait
                               /\ f[g].wwait => e[g].wwait
BY DEF QueRecord

(* msgsnd gives up or sleeps. *)
LEMMA WaitInv ==
  ASSUME Inv, NEW p, NEW c \in Local, NEW chan \in Chan, NEW chans,
         Works(p, HdrOf(c.id)), Wait(p, HdrOf(c.id), c, chan, chans),
         UNCHANGED <<msgs, nfree, msgmap, pool>>, mapwant' \in BOOLEAN,
         mapwant => mapwant',
         que' = que \/ que' = [que EXCEPT ![HdrOf(c.id)].wwait = TRUE],
         ~c.nowait =>
           \/ chan = <<"snd", HdrOf(c.id)>> /\ que'[HdrOf(c.id)].wwait
           \/ chan = <<"hdr", 0>> /\ nfree = 0
           \/ chan = <<"map", 0>> /\ mapwant'
  PROVE  Inv'
<1> DEFINE h == HdrOf(c.id)
<1>1. h \in Hdr
  BY DEF Works
<1>a. que' = que \/ que' = [que EXCEPT ![h].wwait = TRUE]
  OBVIOUS
<1> HIDE DEF h
<1>b. /\ \A g \in Hdr : /\ g # h => que'[g] = que[g]
                        /\ que'[g].rwait = que[g].rwait
                        /\ que[g].wwait => que'[g].wwait
      /\ que' \in [Hdr -> [alloc : BOOLEAN, seq : Nat, cbytes : Int, qbytes : Nat,
                          rwait : BOOLEAN, wwait : BOOLEAN]]
  <2>0. que \in [Hdr -> QueRecord]
    BY DEF Inv, TypeOK, QueRecord
  <2>1. CASE que' = que
    BY <2>0, <2>1 DEF QueRecord
  <2>2. CASE que' = [que EXCEPT ![h].wwait = TRUE]
    BY <2>0, <2>2, <1>1, QueMark DEF QueRecord
  <2> QED
    BY <1>a, <2>1, <2>2
<1>2. OnlyAt(h) /\ DataOK'
  BY <1>b DEF OnlyAt, Inv, TypeOK, DataOK
<1>3. MsgsPlaced'
  BY DEF Inv, MsgsPlaced
<1>4. CASE c.nowait
  <2>1. Leave(p, h, chans)
    BY <1>4 DEF Wait, h
  <2> QED
    BY <1>1, <1>b, <1>2, <1>3, <2>1, LeaveInv DEF h
<1>5. CASE ~c.nowait
  <2>1. SleepOn(p, h, chan, c, chans)
    BY <1>5 DEF Wait, h
  <2>2. /\ \A g \in Hdr : chan # <<"lock", g>>
        /\ \A g \in Hdr : chan = <<"rcv", g>> => que'[g].rwait
        /\ \A g \in Hdr : chan = <<"snd", g>> => que'[g].wwait
        /\ chan = <<"hdr", 0>> => nfree' = 0
        /\ chan = <<"map", 0>> => mapwant'
    BY <1>5 DEF h
  <2> QED
    BY <1>1, <1>b, <1>2, <2>1, <2>2, QuietSleep DEF h
<1> QED
  BY <1>4, <1>5

LEMMA GetresInv ==
  ASSUME Inv, NEW p, NEW c \in Local, Works(p, HdrOf(c.id)), Exists(c.id),
         Getres(p, c)
  PROVE  Inv'
<1> DEFINE h == HdrOf(c.id)
<1>0. h \in Hdr /\ c.size \in Nat /\ c.nowait \in BOOLEAN
  BY DEF Works, Local
<1>1. /\ <<"snd", h>> \in Chan /\ <<"hdr", 0>> \in Chan /\ <<"map", 0>> \in Chan
  BY <1>0 DEF Chan
<1>2. CASE QueueFull(p, c)
  <2>1. que' = IF c.nowait THEN que ELSE [que EXCEPT ![h].wwait = TRUE]
    BY <1>2 DEF QueueFull
  <2>2. ~c.nowait => que'[h].wwait
    BY <1>0, <2>1 DEF Inv, TypeOK
  <2>3. /\ Wait(p, h, c, <<"snd", h>>, {})
        /\ UNCHANGED <<msgs, nfree, msgmap, mapwant, pool>>
        /\ mapwant' \in BOOLEAN
    BY <1>2 DEF QueueFull, resVars, Inv, TypeOK
  <2> QED
    BY <1>1, <2>1, <2>2, <2>3, WaitInv
<1>3. CASE NoHeader(p, c)
  <2>1. /\ Wait(p, h, c, <<"hdr", 0>>, {}) /\ nfree = 0
        /\ UNCHANGED <<que, msgs, nfree, msgmap, mapwant, pool>>
        /\ mapwant' \in BOOLEAN
    BY <1>3 DEF NoHeader, resVars, Inv, TypeOK
  <2> QED
    BY <1>1, <2>1, WaitInv
<1>4. CASE NoSpace(p, c)
  <2> DEFINE chans == IF nfree = 1 THEN {<<"hdr", 0>>} ELSE {}
  <2>1. /\ Wait(p, h, c, <<"map", 0>>, chans)
        /\ UNCHANGED <<que, msgs, nfree, msgmap, pool>>
    BY <1>4 DEF NoSpace
  <2>2. mapwant' = (mapwant \/ ~c.nowait)
    BY <1>4 DEF NoSpace
  <2>3. mapwant' \in BOOLEAN /\ (mapwant => mapwant') /\ (~c.nowait => mapwant')
    BY <2>2, <1>0 DEF Inv, TypeOK
  <2> HIDE DEF chans
  <2> QED
    BY <1>1, <2>1, <2>3, WaitInv
<1>5. CASE PutEmpty(p, c)
  <2>1. /\ Put(p, h, c) /\ c.size = 0 /\ nfree > 0 /\ nfree' = nfree - 1
        /\ UNCHANGED <<msgmap, mapwant, pool>>
    BY <1>5 DEF PutEmpty
  <2>2. nfree' \in Nat /\ (nfree = 0 => nfree' = 0)
    BY <2>1 DEF Inv, TypeOK
  <2> QED
    BY <2>1, <2>2, PutInv
<1>6. CASE Allocate(p, c)
  <2>1. PICK spot \in FirstFit(btoq(c.size)) :
          /\ msgmap' = msgmap \ Segs(spot, btoq(c.size))
          /\ Go(p, h, "text", [c EXCEPT !.spot = spot, !.at = 0])
    BY <1>6 DEF Allocate
  <2>2. /\ nfree > 0 /\ nfree' = nfree - 1
        /\ UNCHANGED <<que, msgs, mapwant, pool>>
    BY <1>6 DEF Allocate
  <2>3. spot \in Nat /\ Segs(spot, btoq(c.size)) \subseteq Seg
    <3>1. spot \in Seg /\ Segs(spot, btoq(c.size)) \subseteq msgmap
      BY <2>1 DEF FirstFit
    <3>2. msgmap \subseteq Seg
      BY DEF Inv, TypeOK
    <3>3. spot \in Nat
      BY <3>1, ConstAssumption DEF Seg
    <3> QED
      BY <3>1, <3>2, <3>3
  <2> DEFINE d == [c EXCEPT !.spot = spot, !.at = 0]
  <2>4. d \in Local /\ d.id = c.id /\ d.spot = spot /\ d.size = c.size
    BY <2>3 DEF Local
  <2>5. Go(p, h, "text", d)
    BY <2>1
  <2> HIDE DEF d
  <2>6. DataOK' /\ (nfree = 0 => nfree' = 0)
    BY <2>1, <2>2 DEF Inv, TypeOK, DataOK
  <2>7. Exists(d.id) /\ HdrOf(d.id) = h /\ Segs(d.spot, btoq(d.size)) \subseteq Seg
    BY <2>3, <2>4
  <2> QED
    BY <2>2, <2>4, <2>5, <2>6, <2>7, QuietGo DEF Busy
<1> QED
  BY <1>2, <1>3, <1>4, <1>5, <1>6 DEF Getres

LEMMA TypeCopiedInv ==
  ASSUME Inv, NEW p \in Proc, TypeCopied(p)
  PROVE  Inv'
<1>1. pc[p] \in Busy
  BY DEF TypeCopied, Busy
<1>2. Works(p, HdrOf(call[p].id)) /\ call[p] \in Local /\ Exists(call[p].id)
  <2>1. Works(p, HdrOf(call[p].id)) /\ call[p] \in Local
    BY <1>1, BusyWorks
  <2> QED
    BY <1>1, <2>1 DEF Inv, LockedQueueExists, Works, Holds, Busy
<1>3. CASE Getres(p, call[p])
  BY <1>2, <1>3, GetresInv
<1>4. CASE Leave(p, HdrOf(call[p].id), {}) /\ UNCHANGED <<que, msgs, resVars>>
  BY <1>2, <1>4, StillLeave
<1> QED
  BY <1>3, <1>4 DEF TypeCopied

LEMMA InFailsInv ==
  ASSUME Inv, NEW p \in Proc, InFails(p)
  PROVE  Inv'
<1> DEFINE h == HdrOf(call[p].id)
           chans == HeaderWakes \cup MapWakes
<1>1. pc[p] = "text" /\ pc[p] \in Busy
  BY DEF InFails, Busy
<1>2. Works(p, h) /\ h \in Hdr
  BY <1>1, BusyWorks DEF Works
<1>3. Taken(p) \subseteq Seg
  BY <1>1 DEF Inv, SendersPlaced
<1>4. /\ msgmap' = msgmap \cup Taken(p)
      /\ mapwant' = IF Taken(p) = {} THEN mapwant ELSE FALSE
      /\ nfree' = nfree + 1
      /\ Leave(p, h, chans)
      /\ UNCHANGED <<que, msgs, pool>>
  BY DEF InFails, mfree, Taken
<1>5. DataOK'
  <2>1. mapwant' \in BOOLEAN
    BY <1>4 DEF Inv, TypeOK
  <2>2. nfree' \in Nat
    BY <1>4 DEF Inv, TypeOK
  <2>3. msgmap' \in SUBSET Seg
    BY <1>3, <1>4 DEF Inv, TypeOK
  <2> QED
    BY <1>4, <2>1, <2>2, <2>3 DEF Inv, TypeOK, DataOK
<1>6. OnlyAt(h) /\ MsgsPlaced'
  BY <1>4 DEF OnlyAt, Inv, MsgsPlaced
<1>7. /\ nfree = 0 => <<"hdr", 0>> \in chans
      /\ mapwant => <<"map", 0>> \in chans
  BY DEF HeaderWakes, MapWakes
<1> HIDE DEF chans, h
<1> QED
  BY <1>2, <1>4, <1>5, <1>6, <1>7, LeaveInv

LEMMA InDoneInv ==
  ASSUME Inv, NEW p \in Proc, InDone(p)
  PROVE  Inv'
<1>1. pc[p] = "text" /\ pc[p] \in Busy
  BY DEF InDone, Busy
<1>2. Works(p, HdrOf(call[p].id)) /\ call[p] \in Local
  BY <1>1, BusyWorks
<1>3. Segs(call[p].spot, btoq(call[p].size)) \subseteq Seg
  BY <1>1 DEF Inv, SendersPlaced, Taken
<1>4. nfree' \in Nat /\ nfree' = nfree /\ UNCHANGED <<msgmap, mapwant, pool>>
  BY DEF InDone, resVars, Inv, TypeOK
<1> QED
  BY <1>2, <1>3, <1>4, PutInv DEF InDone

(* msgctl and msgget *)
LEMMA RmidInv ==
  ASSUME Inv, NEW p, NEW c \in Local, Works(p, HdrOf(c.id)), Rmid(p, c)
  PROVE  Inv'
<1> DEFINE h == HdrOf(c.id)
           q == msgs[h]
           segs == UNION {Segs(q[i].spot, btoq(q[i].ts)) : i \in DOMAIN q}
           r == [alloc |-> FALSE, seq |-> que[h].seq + 1, cbytes |-> 0,
                 qbytes |-> que[h].qbytes, rwait |-> FALSE, wwait |-> FALSE]
           chans == (IF q = <<>> THEN {} ELSE HeaderWakes)
                      \cup (IF segs = {} THEN {} ELSE MapWakes)
                      \cup (IF que[h].rwait THEN {<<"rcv", h>>} ELSE {})
                      \cup (IF que[h].wwait THEN {<<"snd", h>>} ELSE {})
<1>1. h \in Hdr /\ q \in Seq(Message)
  BY DEF Works, Inv, TypeOK
<1>2. segs \subseteq Seg
  BY <1>1 DEF Inv, MsgsPlaced
<1>3. /\ que' = [que EXCEPT ![h] = r]
      /\ msgs' = [msgs EXCEPT ![h] = <<>>]
      /\ msgmap' = msgmap \cup segs
      /\ mapwant' = IF segs = {} THEN mapwant ELSE FALSE
      /\ nfree' = nfree + Len(q) /\ pool' = pool
      /\ Leave(p, h, chans)
  BY <1>1 DEF Rmid, mfree, Inv, TypeOK
<1>4. r \in QueRecord
  <2>1. que[h] \in QueRecord
    BY <1>1 DEF Inv, TypeOK, QueRecord
  <2> QED
    BY <2>1 DEF QueRecord
<1>5. que \in [Hdr -> QueRecord]
  BY DEF Inv, TypeOK, QueRecord
<1> HIDE DEF h, q, segs, r, chans
<1>6. OnlyAt(h)
  BY <1>1, <1>3 DEF OnlyAt, Inv, TypeOK
<1>7. DataOK'
  <2>1. que' \in [Hdr -> QueRecord]
    BY <1>1, <1>3, <1>4, <1>5
  <2>2. msgs' \in [Hdr -> Seq(Message)]
    BY <1>1, <1>3 DEF Inv, TypeOK
  <2>3. nfree' \in Nat
    BY <1>1, <1>3 DEF Inv, TypeOK
  <2>4. msgmap' \in SUBSET Seg /\ pool' \in [Seg -> Text \cup {NoText}]
    BY <1>2, <1>3 DEF Inv, TypeOK
  <2>5. mapwant' \in BOOLEAN
    BY <1>3 DEF Inv, TypeOK
  <2> QED
    BY <2>1, <2>2, <2>3, <2>4, <2>5 DEF DataOK, QueRecord
<1>8. MsgsPlaced'
  <2>1. \A g \in Hdr : msgs'[g] = <<>> \/ msgs'[g] = msgs[g]
    BY <1>1, <1>3 DEF Inv, TypeOK
  <2> QED
    BY <2>1 DEF Inv, MsgsPlaced
<1>9. /\ que[h].rwait => <<"rcv", h>> \in chans
      /\ que[h].wwait => <<"snd", h>> \in chans
      /\ mapwant => mapwant' \/ <<"map", 0>> \in chans
  BY <1>3 DEF chans, MapWakes
<1>10. nfree = 0 => nfree' = 0 \/ <<"hdr", 0>> \in chans
  <2>1. CASE q = <<>>
    BY <2>1, <1>3
  <2>2. CASE q # <<>>
    BY <2>2 DEF chans, HeaderWakes
  <2> QED
    BY <2>1, <2>2
<1> QED
  BY <1>3, <1>6, <1>7, <1>8, <1>9, <1>10, LeaveInv DEF h

LEMMA SetDoneInv ==
  ASSUME Inv, NEW p \in Proc, SetDone(p)
  PROVE  Inv'
<1> DEFINE h == HdrOf(call[p].id)
<1>1. pc[p] \in Busy
  BY DEF SetDone, Busy
<1>2. Works(p, h) /\ h \in Hdr /\ call[p].size \in Nat
  BY <1>1, BusyWorks DEF Works, Local
<1>3. que' = que \/ que' = [que EXCEPT ![h].qbytes = call[p].size]
  BY DEF SetDone
<1>4. Leave(p, h, {}) /\ UNCHANGED <<msgs, nfree, msgmap, mapwant, pool>>
  BY DEF SetDone, resVars
<1> HIDE DEF h
<1>5. que \in [Hdr -> QueRecord]
  BY DEF Inv, TypeOK, QueRecord
<1>6. /\ que' \in [Hdr -> QueRecord]
      /\ \A g \in Hdr : g # h => que'[g] = que[g]
      /\ que'[h].rwait = que[h].rwait /\ que'[h].wwait = que[h].wwait
  <2>1. CASE que' = que
    BY <2>1, <1>5
  <2>2. CASE que' = [que EXCEPT ![h].qbytes = call[p].size]
    BY <2>2, <1>2, <1>5 DEF QueRecord
  <2> QED
    BY <1>3, <2>1, <2>2
<1>7. OnlyAt(h) /\ DataOK' /\ MsgsPlaced'
  BY <1>4, <1>6 DEF OnlyAt, DataOK, QueRecord, MsgsPlaced, Inv, TypeOK
<1> QED
  BY <1>2, <1>4, <1>6, <1>7, LeaveInv

LEMMA StillLeaveInv ==
  ASSUME Inv, NEW p \in Proc, OutFails(p) \/ StatDone(p)
  PROVE  Inv'
<1>1. pc[p] \in Busy
  BY DEF OutFails, StatDone, Busy
<1>2. Works(p, HdrOf(call[p].id))
  BY <1>1, BusyWorks
<1> QED
  BY <1>2, StillLeave DEF OutFails, StatDone

LEMMA MsggetInv ==
  ASSUME Inv, NEW p \in Proc, msgget(p)
  PROVE  Inv'
<1> USE DEF Inv
<1>1. PICK h \in Hdr :
        /\ ~que[h].alloc
        /\ que' = [que EXCEPT ![h].alloc = TRUE, ![h].qbytes = msgmnb]
        /\ msgs' = [msgs EXCEPT ![h] = <<>>]
  BY DEF msgget
<1>2. UNCHANGED <<lock, nfree, msgmap, mapwant, pool, pc, call, wchan, sig>>
  BY DEF msgget, resVars
<1>3. /\ que \in [Hdr -> QueRecord] /\ msgmnb \in Nat
      /\ msgs \in [Hdr -> Seq(Message)]
  BY ConstAssumption DEF TypeOK, QueRecord
<1>4. /\ que' \in [Hdr -> QueRecord]
      /\ \A g \in Hdr : /\ g # h => que'[g] = que[g]
                        /\ que'[g].rwait = que[g].rwait
                        /\ que'[g].wwait = que[g].wwait
  BY <1>1, <1>3 DEF QueRecord
<1>5. /\ msgs' \in [Hdr -> Seq(Message)]
      /\ \A g \in Hdr : /\ g # h => msgs'[g] = msgs[g]
                        /\ msgs'[g] = <<>> \/ msgs'[g] = msgs[g]
  BY <1>1, <1>3
<1>6. TypeOK'
  BY <1>2, <1>4, <1>5 DEF TypeOK, QueRecord
<1>7. LockHasOneHolder' /\ OnlyWaitersSleep' /\ SendersPlaced'
  BY <1>2 DEF LockHasOneHolder, Holds, OnlyWaitersSleep, SendersPlaced, Taken
<1>8. SleepersFlagged'
  BY <1>2, <1>4 DEF SleepersFlagged
<1>9. MsgsPlaced'
  BY <1>5 DEF MsgsPlaced
<1>10. LockedQueueExists'
  <2> SUFFICES ASSUME NEW q \in Proc, NEW g \in Hdr, Holds(q, g)
               PROVE  Exists(call[q].id)' /\ (pc[q] = "out" => call[q].pos \in DOMAIN msgs[g])'
    BY <1>2 DEF LockedQueueExists, Holds
  <2>1. Exists(call[q].id) /\ HdrOf(call[q].id) = g
    BY DEF LockedQueueExists, Holds
  <2>2. g # h
    BY <2>1, <1>1 DEF Exists
  <2> QED
    BY <2>1, <2>2, <1>2, <1>4, <1>5 DEF Exists, LockedQueueExists
<1> QED
  BY <1>6, <1>7, <1>8, <1>9, <1>10

(* msgconv and signals: steps of a process that holds no lock. *)
LEMMA IdleFrame ==
  ASSUME Inv, NEW p \in Proc, pc[p] \notin Busy,
         NEW where \in {"user", "enter", "again", "wait"}, NEW c \in Local,
         pc' = [pc EXCEPT ![p] = where], call' = [call EXCEPT ![p] = c],
         UNCHANGED <<msgs, lock>>,
         \A g \in Hdr : lock[g] => que'[g] = que[g]
  PROVE  /\ LockHasOneHolder' /\ LockedQueueExists' /\ SendersPlaced'
         /\ MsgsPlaced'
<1> USE DEF Inv
<1>1. \A q \in Proc, g \in Hdr : Holds(q, g)' <=> Holds(q, g)
  BY DEF TypeOK, Holds, Busy
<1>2. LockHasOneHolder'
  BY <1>1 DEF LockHasOneHolder
<1>3. ASSUME NEW q \in Proc, NEW g \in Hdr, Holds(q, g)
      PROVE  Exists(call[q].id)' /\ (pc[q] = "out" => call[q].pos \in DOMAIN msgs[g])'
  <2>1. q # p /\ HdrOf(call[q].id) = g /\ lock[g]
    BY <1>3 DEF Holds, Busy, LockHasOneHolder
  <2>2. call'[q] = call[q] /\ pc'[q] = pc[q] /\ que'[g] = que[g]
    BY <2>1 DEF TypeOK
  <2> QED
    BY <1>3, <2>1, <2>2 DEF LockedQueueExists, Exists
<1>4. LockedQueueExists'
  BY <1>1, <1>3 DEF LockedQueueExists
<1>5. SendersPlaced' /\ MsgsPlaced'
  BY DEF TypeOK, SendersPlaced, Taken, MsgsPlaced
<1> QED
  BY <1>2, <1>4, <1>5

LEMMA LockBusyInv ==
  ASSUME Inv, NEW p \in Proc, pc[p] \notin Busy, NEW c \in Local,
         NEW where \in {"enter", "again"}, LockBusy(p, c, where)
  PROVE  Inv'
<1> DEFINE h == HdrOf(c.id)
<1>1. h \in Hdr
  BY HdrOfType DEF Local
<1>2. /\ lock[h]
      /\ wchan' = [wchan EXCEPT ![p] = <<"lock", h>>]
      /\ pc' = [pc EXCEPT ![p] = where]
      /\ call' = [call EXCEPT ![p] = c]
      /\ UNCHANGED <<que, msgs, lock, nfree, msgmap, mapwant, pool, sig>>
  BY DEF LockBusy, resVars
<1> HIDE DEF h
<1>3. <<"lock", h>> \in Chan
  BY <1>1 DEF Chan
<1>4. TypeOK'
  BY <1>2, <1>3 DEF Inv, TypeOK
<1>5. OnlyWaitersSleep'
  BY <1>2 DEF Inv, TypeOK, OnlyWaitersSleep
<1>6. SleepersFlagged'
  <2>1. wchan'[p] = <<"lock", h>> /\ Marked(<<"lock", h>>)'
    BY <1>2 DEF Inv, TypeOK, Marked
  <2>2. \A q \in Proc \ {p} : wchan'[q] = wchan[q]
    BY <1>2 DEF Inv, TypeOK
  <2>3. \A q \in Proc \ {p} : Marked(wchan[q])'
    BY <1>2, <2>2 DEF Inv, SleepersFlagged, Marked
  <2>4. \A q \in Proc : Marked(wchan[q])'
    BY <2>1, <2>3
  <2> QED
    BY <2>4 DEF SleepersFlagged, Marked
<1>7. LockHasOneHolder' /\ LockedQueueExists' /\ SendersPlaced' /\ MsgsPlaced'
  BY <1>2, IdleFrame
<1> QED
  BY <1>4, <1>5, <1>6, <1>7 DEF Inv

LEMMA EnterInv ==
  ASSUME Inv, NEW p \in Proc, pc[p] \notin Busy, wchan[p] = NoChan,
         NEW c \in Local, Enter(p, c)
  PROVE  Inv'
<1>1. ~lock[HdrOf(c.id)] /\ Exists(c.id)
  BY DEF Enter
<1>2. Works(p, HdrOf(c.id))
  BY <1>1, HdrOfType DEF Works, Local
<1>3. ASSUME NEW where \in Busy \ {"out", "text"}, Go(p, HdrOf(c.id), where, c),
             UNCHANGED <<que, msgs, resVars>>
      PROVE  Inv'
  <2>1. DataOK' /\ UNCHANGED <<que, msgs, mapwant, nfree>>
    BY <1>3 DEF Inv, TypeOK, DataOK, resVars
  <2> QED
    BY <1>1, <1>2, <1>3, <2>1, QuietGo
<1>4. CASE c.op = "rcv" /\ Findmsg(p, c)
  BY <1>1, <1>2, <1>4, FindmsgInv
<1>5. CASE c.op = "rmid" /\ Rmid(p, c)
  BY <1>2, <1>5, RmidInv
<1>6. CASE Go(p, HdrOf(c.id), "type", c) /\ UNCHANGED <<que, msgs, resVars>>
  BY <1>3, <1>6 DEF Busy
<1>7. CASE /\ c.op \in {"set", "stat"} /\ Go(p, HdrOf(c.id), c.op, c)
           /\ UNCHANGED <<que, msgs, resVars>>
  BY <1>3, <1>7 DEF Busy
<1> QED
  BY <1>4, <1>5, <1>6, <1>7 DEF Enter

LEMMA GoneInv ==
  ASSUME Inv, NEW p \in Proc, pc[p] \notin Busy, wchan[p] = NoChan,
         NEW c \in Local, Gone(p, c)
  PROVE  Inv'
<1>1. Works(p, HdrOf(c.id))
  BY HdrOfType DEF Works, Local, Gone
<1> QED
  BY <1>1, StillLeave DEF Gone

LEMMA BeginInv ==
  ASSUME Inv, NEW p \in Proc, Begin(p)
  PROVE  Inv'
<1>1. PICK c \in Calls : LockBusy(p, Fresh(c), "enter") \/ Enter(p, Fresh(c))
  BY DEF Begin
<1>2. Fresh(c) \in Local
  <2>1. c \in Request
    BY <1>1, ConstAssumption
  <2> QED
    BY <2>1 DEF Fresh, Request, Local, Chan, NoChan
<1>3. pc[p] \notin Busy /\ wchan[p] = NoChan
  BY DEF Begin, Busy, Inv, OnlyWaitersSleep
<1> QED
  BY <1>1, <1>2, <1>3, LockBusyInv, EnterInv

LEMMA ReenterInv ==
  ASSUME Inv, NEW p \in Proc, Reenter(p)
  PROVE  Inv'
<1>1. pc[p] \notin Busy /\ wchan[p] = NoChan /\ call[p] \in Local
  BY DEF Reenter, Awake, Busy, Inv, TypeOK
<1> QED
  BY <1>1, LockBusyInv, GoneInv, EnterInv DEF Reenter

LEMMA RetryInv ==
  ASSUME Inv, NEW p \in Proc, Retry(p)
  PROVE  Inv'
<1>1. pc[p] \notin Busy /\ wchan[p] = NoChan /\ call[p] \in Local
  BY DEF Retry, Awake, Busy, Inv, TypeOK
<1>2. CASE LockBusy(p, call[p], "again")
  BY <1>1, <1>2, LockBusyInv
<1>3. CASE Gone(p, call[p])
  BY <1>1, <1>3, GoneInv
<1>4. CASE /\ ~lock[HdrOf(call[p].id)] /\ Exists(call[p].id)
           /\ Findmsg(p, call[p]) \/ Getres(p, call[p])
  <2>1. Works(p, HdrOf(call[p].id))
    BY <1>1, <1>4, HdrOfType DEF Works, Local
  <2> QED
    BY <1>1, <1>4, <2>1, FindmsgInv, GetresInv
<1> QED
  BY <1>2, <1>3, <1>4 DEF Retry

LEMMA InterruptedInv ==
  ASSUME Inv, NEW p \in Proc, Interrupted(p)
  PROVE  Inv'
<1> DEFINE h == HdrOf(call[p].id)
           locks == call[p].op = "snd" /\ ~lock[h]
           clears == locks /\ Exists(call[p].id) /\ call[p].on = <<"snd", h>>
           chans == (IF locks THEN {<<"lock", h>>} ELSE {})
                      \cup (IF clears THEN {<<"snd", h>>} ELSE {})
<1>1. h \in Hdr
  BY HdrOfType DEF Inv, TypeOK, Local
<1>2. /\ pc[p] \notin Busy /\ wchan[p] = NoChan
      /\ que' = IF clears THEN [que EXCEPT ![h].wwait = FALSE] ELSE que
      /\ wchan' = Woken(chans)
      /\ pc' = [pc EXCEPT ![p] = "user"]
      /\ call' = [call EXCEPT ![p] = NoCall]
      /\ sig' = [sig EXCEPT ![p] = FALSE]
      /\ UNCHANGED <<msgs, lock, nfree, msgmap, mapwant, pool>>
  BY DEF Interrupted, resVars, Busy
<1>3. clears => ~lock[h]
  OBVIOUS
<1>4. clears => <<"snd", h>> \in chans
  OBVIOUS
<1> HIDE DEF h, locks, clears, chans
<1>5. que \in [Hdr -> QueRecord]
  BY DEF Inv, TypeOK, QueRecord
<1>6. /\ que' \in [Hdr -> QueRecord]
      /\ \A g \in Hdr : lock[g] => que'[g] = que[g]
      /\ \A g \in Hdr : que'[g].rwait = que[g].rwait
      /\ \A g \in Hdr : que[g].wwait => que'[g].wwait \/ <<"snd", g>> \in chans
  <2>1. CASE clears
    BY <2>1, <1>1, <1>2, <1>3, <1>4, <1>5 DEF QueRecord
  <2>2. CASE ~clears
    BY <2>2, <1>2, <1>5
  <2> QED
    BY <2>1, <2>2
<1>7. \A q \in Proc : /\ wchan'[q] \in {wchan[q], NoChan}
                      /\ wchan[q] \in chans => wchan'[q] = NoChan
  BY <1>2 DEF Woken, Inv, TypeOK
<1>8. TypeOK'
  <2>1. wchan' \in [Proc -> Chan]
    BY <1>2 DEF Woken, Inv, TypeOK, Chan
  <2> QED
    BY <1>2, <1>6, <2>1, NoCallType DEF Inv, TypeOK, QueRecord
<1>9. OnlyWaitersSleep'
  BY <1>2, <1>7 DEF Inv, TypeOK, OnlyWaitersSleep
<1>10. SleepersFlagged'
  <2>1. wchan'[p] = NoChan /\ Marked(NoChan)'
    BY <1>2, <1>7 DEF Marked, NoChan
  <2>2. /\ \A g \in Hdr : lock[g] => lock'[g] \/ <<"lock", g>> \in chans
        /\ \A g \in Hdr : que[g].rwait => que'[g].rwait \/ <<"rcv", g>> \in chans
        /\ nfree = 0 => nfree' = 0 \/ <<"hdr", 0>> \in chans
        /\ mapwant => mapwant' \/ <<"map", 0>> \in chans
    BY <1>2, <1>6
  <2> QED
    BY <1>6, <1>7, <2>1, <2>2, WakeFrame
<1>11. LockHasOneHolder' /\ LockedQueueExists' /\ SendersPlaced' /\ MsgsPlaced'
  BY <1>2, <1>6, NoCallType, IdleFrame
<1> QED
  BY <1>8, <1>9, <1>10, <1>11 DEF Inv

LEMMA LockInterruptedInv ==
  ASSUME Inv, NEW p \in Proc, LockInterrupted(p)
  PROVE  Inv'
<1>1. /\ pc[p] \notin Busy /\ wchan[p] = NoChan
      /\ pc' = [pc EXCEPT ![p] = "user"]
      /\ call' = [call EXCEPT ![p] = NoCall]
      /\ sig' = [sig EXCEPT ![p] = FALSE]
      /\ UNCHANGED <<que, msgs, lock, nfree, msgmap, mapwant, pool, wchan>>
  BY DEF LockInterrupted, resVars, Busy
<1>2. TypeOK'
  BY <1>1, NoCallType DEF Inv, TypeOK
<1>3. OnlyWaitersSleep' /\ SleepersFlagged'
  BY <1>1 DEF Inv, TypeOK, OnlyWaitersSleep, SleepersFlagged
<1>4. LockHasOneHolder' /\ LockedQueueExists' /\ SendersPlaced' /\ MsgsPlaced'
  BY <1>1, NoCallType, IdleFrame
<1> QED
  BY <1>2, <1>3, <1>4 DEF Inv

LEMMA SignalInv ==
  ASSUME Inv, NEW p \in Proc, Signal(p)
  PROVE  Inv'
<1> USE DEF Inv
<1>1. /\ wchan' = [wchan EXCEPT ![p] = NoChan]
      /\ sig' = [sig EXCEPT ![p] = TRUE] \/ sig' = sig
      /\ UNCHANGED <<que, msgs, lock, nfree, msgmap, mapwant, pool, pc, call>>
  BY DEF Signal, resVars
<1>2. TypeOK'
  <2>1. sig' \in [Proc -> BOOLEAN]
    BY <1>1 DEF TypeOK
  <2>2. wchan' \in [Proc -> Chan]
    BY <1>1 DEF TypeOK, Chan
  <2> QED
    BY <1>1, <2>1, <2>2 DEF TypeOK
<1>3. \A q \in Proc : wchan'[q] = NoChan \/ wchan'[q] = wchan[q]
  BY <1>1 DEF TypeOK
<1>4. OnlyWaitersSleep'
  BY <1>1, <1>3 DEF OnlyWaitersSleep
<1>5. SleepersFlagged'
  BY <1>1, <1>3 DEF SleepersFlagged, NoChan
<1>6. LockHasOneHolder' /\ LockedQueueExists' /\ SendersPlaced' /\ MsgsPlaced'
  BY <1>1 DEF LockHasOneHolder, LockedQueueExists, Holds, Exists, SendersPlaced,
              Taken, MsgsPlaced
<1> QED
  BY <1>2, <1>4, <1>5, <1>6

-----------------------------------------------------------------------------
LEMMA InitInv ==
  ASSUME Init
  PROVE  Inv
<1>1. TypeOK
  <2>1. /\ que \in [Hdr -> [alloc : BOOLEAN, seq : Nat, cbytes : Int, qbytes : Nat,
                            rwait : BOOLEAN, wwait : BOOLEAN]]
        /\ msgs \in [Hdr -> Seq(Message)]
        /\ lock \in [Hdr -> BOOLEAN]
    BY DEF Init
  <2>2. nfree \in Nat /\ msgmap \in SUBSET Seg /\ pool \in [Seg -> Text \cup {NoText}]
    BY ConstAssumption DEF Init
  <2>3. mapwant \in BOOLEAN /\ sig \in [Proc -> BOOLEAN]
    BY DEF Init
  <2>4. call \in [Proc -> Local] /\ wchan \in [Proc -> Chan]
    BY NoCallType DEF Init, Chan
  <2>5. pc \in [Proc -> {"user", "enter", "wait", "again", "type", "text", "out",
                         "set", "stat"}]
    BY DEF Init
  <2> QED
    BY <2>1, <2>2, <2>3, <2>4, <2>5 DEF TypeOK
<1>2. \A p \in Proc : pc[p] = "user" /\ wchan[p] = NoChan
  BY DEF Init
<1>3. LockHasOneHolder /\ LockedQueueExists
  BY <1>2 DEF Init, LockHasOneHolder, LockedQueueExists, Holds
<1>4. OnlyWaitersSleep /\ SleepersFlagged
  BY <1>2 DEF OnlyWaitersSleep, SleepersFlagged, NoChan
<1>5. MsgsPlaced /\ SendersPlaced
  BY <1>2 DEF Init, MsgsPlaced, SendersPlaced
<1> QED
  BY <1>1, <1>3, <1>4, <1>5 DEF Inv

LEMMA NextInv ==
  ASSUME Inv, [Next]_vars
  PROVE  Inv'
<1>1. CASE UNCHANGED vars
  BY <1>1 DEF vars, resVars, Inv, TypeOK, LockHasOneHolder, LockedQueueExists,
              OnlyWaitersSleep, SleepersFlagged, MsgsPlaced, SendersPlaced,
              Holds, Exists, Taken
<1>2. CASE Next
  <2>1. PICK p \in Proc :
          \/ msgget(p) \/ Begin(p) \/ Reenter(p) \/ Retry(p)
          \/ CopyOut(p) \/ OutFails(p) \/ OutDone(p)
          \/ TypeCopied(p) \/ CopyIn(p) \/ InFails(p) \/ InDone(p)
          \/ SetDone(p) \/ StatDone(p)
          \/ Interrupted(p) \/ LockInterrupted(p) \/ Signal(p)
    BY <1>2 DEF Next
  <2> QED
    BY <2>1, MsggetInv, BeginInv, ReenterInv, RetryInv, CopyOutInv,
       StillLeaveInv, OutDoneInv, TypeCopiedInv, CopyInInv, InFailsInv,
       InDoneInv, SetDoneInv, InterruptedInv, LockInterruptedInv, SignalInv
<1> QED
  BY <1>1, <1>2

LEMMA Invariance == Spec => []Inv
<1>1. Init => Inv
  BY InitInv
<1>2. Inv /\ [Next]_vars => Inv'
  BY NextInv
<1> QED
  BY <1>1, <1>2, PTL DEF Spec

(* Every variable of the message queues keeps its type; in particular the  *)
(* copies of msgsnd and msgrcv stay inside the pool.                       *)
THEOREM MsgTypeCorrect == Spec => []TypeOK
<1>1. Inv => TypeOK
  BY DEF Inv
<1> QED
  BY <1>1, Invariance, PTL

(* A queue is locked exactly while one process is in the middle of a call  *)
(* on it.                                                                  *)
THEOREM LockCorrect == Spec => []LockHasOneHolder
<1>1. Inv => LockHasOneHolder
  BY DEF Inv
<1> QED
  BY <1>1, Invariance, PTL

(* No call copies to or from a user on behalf of a queue that is gone. *)
THEOREM QueueStays == Spec => []LockedQueueExists
<1>1. Inv => LockedQueueExists
  BY DEF Inv
<1> QED
  BY <1>1, Invariance, PTL

(* Whoever sleeps in the message calls is marked where the code that wakes *)
(* it looks.                                                               *)
THEOREM MsgNoLostWakeup == Spec => []SleepersFlagged
<1>1. Inv => SleepersFlagged
  BY DEF Inv
<1> QED
  BY <1>1, Invariance, PTL

-----------------------------------------------------------------------------
(* What a step does to a queue that someone keeps locked over it. *)
Untouched ==
  \A q \in Proc, g \in Hdr :
    Holds(q, g) /\ Holds(q, g)' => que'[g] = que[g] /\ msgs'[g] = msgs[g]

LEMMA UntouchedFrame ==
  ASSUME Inv, NEW p, NEW h, Works(p, h), OnlyAt(h), pc'[p] \notin Busy
  PROVE  Untouched
<1> SUFFICES ASSUME NEW q \in Proc, NEW g \in Hdr, Holds(q, g), Holds(q, g)'
             PROVE  que'[g] = que[g] /\ msgs'[g] = msgs[g]
  BY DEF Untouched
<1>1. CASE g = h
  <2>1. q = p
    BY <1>1 DEF Works, Inv, LockHasOneHolder
  <2> QED
    BY <2>1 DEF Holds, Busy
<1>2. CASE g # h
  BY <1>2 DEF OnlyAt
<1> QED
  BY <1>1, <1>2

(* The end of a call and going to sleep. *)
LEMMA UnlockUntouched ==
  ASSUME Inv, NEW p, NEW h, NEW chan, NEW c, NEW chans, Works(p, h), OnlyAt(h),
         Leave(p, h, chans) \/ SleepOn(p, h, chan, c, chans)
  PROVE  Untouched
<1>1. pc'[p] \notin Busy
  BY DEF Leave, SleepOn, Works, Inv, TypeOK, Busy
<1> QED
  BY <1>1, UntouchedFrame

LEMMA SameUntouched ==
  ASSUME UNCHANGED <<que, msgs>>
  PROVE  Untouched
BY DEF Untouched

LEMMA FindmsgUntouched ==
  ASSUME Inv, NEW p, NEW c, Works(p, HdrOf(c.id)), Findmsg(p, c)
  PROVE  Untouched
<1> DEFINE h == HdrOf(c.id)
<1>1. CASE /\ que' = [que EXCEPT ![h].rwait = TRUE]
           /\ SleepOn(p, h, <<"rcv", h>>, c, {})
           /\ UNCHANGED <<msgs, resVars>>
  <2>1. OnlyAt(h)
    BY <1>1 DEF OnlyAt, Inv, TypeOK
  <2> QED
    BY <1>1, <2>1, UnlockUntouched
<1>2. CASE UNCHANGED <<que, msgs>>
  BY <1>2, SameUntouched
<1> QED
  BY <1>1, <1>2 DEF Findmsg

LEMMA GetresUntouched ==
  ASSUME Inv, NEW p, NEW c, Works(p, HdrOf(c.id)), Getres(p, c)
  PROVE  Untouched
<1> DEFINE h == HdrOf(c.id)
<1>1. CASE QueueFull(p, c)
  <2>1. OnlyAt(h)
    BY <1>1 DEF QueueFull, OnlyAt, Inv, TypeOK
  <2>2. Wait(p, h, c, <<"snd", h>>, {})
    BY <1>1 DEF QueueFull
  <2> QED
    BY <2>1, <2>2, UnlockUntouched DEF Wait
<1>2. CASE PutEmpty(p, c)
  <2>1. OnlyAt(h)
    BY <1>2 DEF PutEmpty, Put, OnlyAt, Inv, TypeOK
  <2>2. Leave(p, h, IF que[h].rwait THEN {<<"rcv", h>>} ELSE {})
    BY <1>2 DEF PutEmpty, Put
  <2> QED
    BY <2>1, <2>2, UnlockUntouched
<1>3. CASE NoHeader(p, c) \/ NoSpace(p, c) \/ Allocate(p, c)
  BY <1>3, SameUntouched DEF NoHeader, NoSpace, Allocate
<1> QED
  BY <1>1, <1>2, <1>3 DEF Getres

LEMMA RmidUntouched ==
  ASSUME Inv, NEW p, NEW c, Works(p, HdrOf(c.id)), Rmid(p, c)
  PROVE  Untouched
<1> DEFINE h == HdrOf(c.id)
<1>1. OnlyAt(h)
  BY DEF Rmid, OnlyAt, Inv, TypeOK
<1>2. \E chans : Leave(p, h, chans)
  BY DEF Rmid
<1> QED
  BY <1>1, <1>2, UnlockUntouched

LEMMA EnterUntouched ==
  ASSUME Inv, NEW p \in Proc, pc[p] \notin Busy, wchan[p] = NoChan,
         NEW c \in Local, Enter(p, c)
  PROVE  Untouched
<1>1. Works(p, HdrOf(c.id))
  BY HdrOfType DEF Enter, Works, Local
<1> QED
  BY <1>1, FindmsgUntouched, RmidUntouched, SameUntouched DEF Enter

LEMMA BusyUntouched ==
  ASSUME Inv, NEW p \in Proc,
         OutDone(p) \/ TypeCopied(p) \/ InDone(p) \/ SetDone(p)
  PROVE  Untouched
<1> DEFINE h == HdrOf(call[p].id)
<1>1. Works(p, h)
  BY BusyWorks DEF OutDone, TypeCopied, InDone, SetDone, Busy
<1>2. CASE TypeCopied(p)
  BY <1>1, <1>2, GetresUntouched, SameUntouched DEF TypeCopied
<1>3. CASE OutDone(p)
  <2>1. OnlyAt(h)
    BY <1>3 DEF OutDone, OnlyAt, Inv, TypeOK
  <2>2. \E chans : Leave(p, h, chans)
    BY <1>3 DEF OutDone
  <2> QED
    BY <1>1, <2>1, <2>2, UnlockUntouched
<1>4. CASE InDone(p)
  <2>1. OnlyAt(h)
    BY <1>4 DEF InDone, Put, OnlyAt, Inv, TypeOK
  <2>2. \E chans : Leave(p, h, chans)
    BY <1>4 DEF InDone, Put
  <2> QED
    BY <1>1, <2>1, <2>2, UnlockUntouched
<1>5. CASE SetDone(p)
  <2>1. OnlyAt(h)
    BY <1>5 DEF SetDone, OnlyAt, Inv, TypeOK
  <2>2. Leave(p, h, {})
    BY <1>5 DEF SetDone
  <2> QED
    BY <1>1, <2>1, <2>2, UnlockUntouched
<1> QED
  BY <1>2, <1>3, <1>4, <1>5

(* A queue that is made or whose mark an interrupted sender clears is not  *)
(* locked.                                                                 *)
LEMMA FreeUntouched ==
  ASSUME Inv, NEW p \in Proc, msgget(p) \/ Interrupted(p)
  PROVE  Untouched
<1>1. CASE msgget(p)
  <2>1. PICK h \in Hdr : ~que[h].alloc /\ OnlyAt(h)
    BY <1>1 DEF msgget, OnlyAt, Inv, TypeOK
  <2>2. \A q \in Proc : ~Holds(q, h)
    BY <2>1 DEF Inv, LockedQueueExists, Exists, Holds
  <2> QED
    BY <2>1, <2>2 DEF Untouched, OnlyAt
<1>2. CASE Interrupted(p)
  <2> DEFINE h == HdrOf(call[p].id)
  <2>1. h \in Hdr
    BY HdrOfType DEF Inv, TypeOK, Local
  <2>2. UNCHANGED <<que, msgs>> \/ (~lock[h] /\ OnlyAt(h))
    BY <1>2, <2>1 DEF Interrupted, OnlyAt, Inv, TypeOK
  <2>3. CASE ~lock[h] /\ OnlyAt(h)
    <3>1. \A q \in Proc : ~Holds(q, h)
      BY <2>1, <2>3 DEF Inv, LockHasOneHolder
    <3> QED
      BY <2>3, <3>1 DEF Untouched, OnlyAt
  <2> QED
    BY <2>2, <2>3, SameUntouched
<1> QED
  BY <1>1, <1>2

LEMMA NextUntouched ==
  ASSUME Inv, Next
  PROVE  Untouched
<1>1. PICK p \in Proc :
        \/ msgget(p) \/ Begin(p) \/ Reenter(p) \/ Retry(p)
        \/ CopyOut(p) \/ OutFails(p) \/ OutDone(p)
        \/ TypeCopied(p) \/ CopyIn(p) \/ InFails(p) \/ InDone(p)
        \/ SetDone(p) \/ StatDone(p)
        \/ Interrupted(p) \/ LockInterrupted(p) \/ Signal(p)
  BY DEF Next
<1>2. CASE Begin(p)
  <2>1. PICK c \in Calls : LockBusy(p, Fresh(c), "enter") \/ Enter(p, Fresh(c))
    BY <1>2 DEF Begin
  <2>2. Fresh(c) \in Local
    BY <2>1, ConstAssumption DEF Fresh, Request, Local, Chan, NoChan
  <2>3. pc[p] \notin Busy /\ wchan[p] = NoChan
    BY <1>2 DEF Begin, Busy, Inv, OnlyWaitersSleep
  <2> QED
    BY <2>1, <2>2, <2>3, EnterUntouched, SameUntouched DEF LockBusy
<1>3. CASE Reenter(p) \/ Retry(p)
  <2>1. pc[p] \notin Busy /\ wchan[p] = NoChan /\ call[p] \in Local
    BY <1>3 DEF Reenter, Retry, Awake, Busy, Inv, TypeOK
  <2>2. ~lock[HdrOf(call[p].id)] => Works(p, HdrOf(call[p].id))
    BY <2>1, HdrOfType DEF Works, Local
  <2>3. CASE LockBusy(p, call[p], "enter") \/ LockBusy(p, call[p], "again") \/ Gone(p, call[p])
    BY <2>3, SameUntouched DEF LockBusy, Gone
  <2>4. CASE Enter(p, call[p])
    BY <2>1, <2>4, EnterUntouched
  <2>5. CASE ~lock[HdrOf(call[p].id)] /\ (Findmsg(p, call[p]) \/ Getres(p, call[p]))
    BY <2>2, <2>5, FindmsgUntouched, GetresUntouched
  <2> QED
    BY <1>3, <2>3, <2>4, <2>5 DEF Reenter, Retry
<1>4. CASE \/ CopyOut(p) \/ OutFails(p) \/ CopyIn(p) \/ InFails(p)
           \/ StatDone(p) \/ LockInterrupted(p) \/ Signal(p)
  BY <1>4, SameUntouched
    DEF CopyOut, OutFails, CopyIn, InFails, StatDone, LockInterrupted, Signal
<1> QED
  BY <1>1, <1>2, <1>3, <1>4, BusyUntouched, FreeUntouched

(* No step changes a queue that a process keeps locked over the step. *)
THEOREM LockProtects == Spec => LockedQueueUntouched
<1>1. Inv /\ [Next]_vars =>
        [\A p \in Proc, h \in Hdr :
           (Holds(p, h) /\ Holds(p, h)') =>
             que'[h] = que[h] /\ msgs'[h] = msgs[h]]_vars
  BY NextUntouched DEF Untouched
<1> QED
  BY <1>1, Invariance, PTL DEF Spec, LockedQueueUntouched

-----------------------------------------------------------------------------
(* Where the text of every message lies, and what is in it: the invariant  *)
(* behind the space that is accounted for, the texts that stay intact, the *)
(* order of receiving and the causes of the sleeps.                        *)

(* The text of the i-th message of queue h. *)
TextAt(h, i) == Segs(msgs[h][i].spot, btoq(msgs[h][i].ts))

(* A queue that is not in use has no messages. *)
FreeIsEmpty ==
  \A h \in Hdr : ~que[h].alloc => msgs[h] = <<>>

(* The texts of messages and of senders lie apart from each other and from *)
(* the free segments.                                                      *)
Apart ==
  /\ \A h, g \in Hdr : \A i \in DOMAIN msgs[h], j \in DOMAIN msgs[g] :
       (h # g \/ i # j) => TextAt(h, i) \cap TextAt(g, j) = {}
  /\ \A h \in Hdr : \A i \in DOMAIN msgs[h] : TextAt(h, i) \cap msgmap = {}
  /\ \A h \in Hdr : \A i \in DOMAIN msgs[h] : \A p \in Sending :
       TextAt(h, i) \cap Taken(p) = {}
  /\ \A p \in Sending : Taken(p) \cap msgmap = {}
  /\ \A p, q \in Sending : p # q => Taken(p) \cap Taken(q) = {}

(* Every segment is free or belongs to a message or to a sender. *)
Covered ==
  \A s \in Seg :
    \/ s \in msgmap
    \/ \E h \in Hdr : \E i \in DOMAIN msgs[h] : s \in TextAt(h, i)
    \/ \E p \in Sending : s \in Taken(p)

(* What a sender has copied in so far is its text. *)
CopiedIn ==
  \A p \in Sending :
    /\ call[p].at <= btoq(call[p].size)
    /\ \A k \in 0 .. call[p].at - 1 : pool[call[p].spot + k] = call[p].text

Intact ==
  \A h \in Hdr : \A i \in DOMAIN msgs[h] : \A s \in TextAt(h, i) :
    pool[s] = msgs[h][i].text

TextInv == FreeIsEmpty /\ Apart /\ Covered /\ CopiedIn /\ Intact

(* Each message was the f[h][i]-th of its queue before, and what becomes    *)
(* free is the text of none that stays.                                    *)
Stays(f) ==
  /\ \A g \in Hdr : \A i \in DOMAIN msgs'[g] :
       /\ f[g][i] \in DOMAIN msgs[g]
       /\ msgs'[g][i] = msgs[g][f[g][i]]
       /\ TextAt(g, f[g][i]) \cap (msgmap' \ msgmap) = {}
  /\ \A g \in Hdr : \A i, j \in DOMAIN msgs'[g] : f[g][i] = f[g][j] => i = j
  /\ \A g \in Hdr : \A i \in DOMAIN msgs[g] :
       (\E j \in DOMAIN msgs'[g] : f[g][j] = i) \/ TextAt(g, i) \subseteq msgmap'

(* The same of the senders. *)
SendersStay ==
  \A q \in Proc :
    /\ pc'[q] = "text" => /\ pc[q] = "text" /\ call'[q] = call[q]
                          /\ Taken(q) \cap (msgmap' \ msgmap) = {}
    /\ pc[q] = "text" => pc'[q] = "text" \/ Taken(q) \subseteq msgmap'

(* Messages may leave their queues and senders may give up, if only their  *)
(* texts become free.                                                      *)
LEMMA TextFrame ==
  ASSUME Apart, Covered, CopiedIn, Intact, NEW f, Stays(f), SendersStay,
         pool' = pool, msgmap \subseteq msgmap'
  PROVE  Apart' /\ Covered' /\ CopiedIn' /\ Intact'
<1> USE DEF Stays, SendersStay
<1>1. \A g \in Hdr : \A i \in DOMAIN msgs'[g] : TextAt(g, i)' = TextAt(g, f[g][i])
  BY DEF TextAt
<1>2. \A q \in Sending' : q \in Sending /\ q \in Proc /\ pc'[q] = "text"
                            /\ call'[q] = call[q] /\ Taken(q)' = Taken(q)
  BY DEF Sending, Taken
<1>3. Apart'
  <2>1. \A h, g \in Hdr : \A i \in DOMAIN msgs'[h], j \in DOMAIN msgs'[g] :
          (h # g \/ i # j) => TextAt(h, i)' \cap TextAt(g, j)' = {}
    BY <1>1 DEF Apart
  <2>2. \A h \in Hdr : \A i \in DOMAIN msgs'[h] : TextAt(h, i)' \cap msgmap' = {}
    <3>1. \A h \in Hdr : \A i \in DOMAIN msgs'[h] : TextAt(h, f[h][i]) \cap msgmap = {}
      BY DEF Apart
    <3> QED
      BY <1>1, <3>1
  <2>3. \A h \in Hdr : \A i \in DOMAIN msgs'[h] : \A p \in Sending' :
          TextAt(h, i)' \cap Taken(p)' = {}
    BY <1>1, <1>2 DEF Apart
  <2>4. \A p \in Sending' : Taken(p)' \cap msgmap' = {}
    BY <1>2 DEF Apart
  <2>5. \A p, q \in Sending' : p # q => Taken(p)' \cap Taken(q)' = {}
    BY <1>2 DEF Apart
  <2> QED
    BY <2>1, <2>2, <2>3, <2>4, <2>5 DEF Apart
<1>4. Covered'
  <2> SUFFICES ASSUME NEW s \in Seg, s \notin msgmap'
               PROVE  \/ \E h \in Hdr : \E i \in DOMAIN msgs'[h] : s \in TextAt(h, i)'
                      \/ \E p \in Sending' : s \in Taken(p)'
    BY DEF Covered, Seg
  <2>1. CASE \E h \in Hdr : \E i \in DOMAIN msgs[h] : s \in TextAt(h, i)
    <3>0. PICK h \in Hdr : \E i \in DOMAIN msgs[h] : s \in TextAt(h, i)
      BY <2>1
    <3>1. PICK i \in DOMAIN msgs[h] : s \in TextAt(h, i)
      BY <3>0
    <3>2. PICK j \in DOMAIN msgs'[h] : f[h][j] = i
      BY <3>1
    <3> QED
      BY <3>1, <3>2, <1>1
  <2>2. CASE \E p \in Sending : s \in Taken(p)
    BY <2>2, <1>2 DEF Sending
  <2> QED
    BY <2>1, <2>2 DEF Covered
<1>5. CopiedIn'
  BY <1>2 DEF CopiedIn
<1>6. Intact'
  BY <1>1 DEF Intact
<1> QED
  BY <1>3, <1>4, <1>5, <1>6

-----------------------------------------------------------------------------
(* The others stay where they are, but that they may be woken. *)
Others(p) ==
  \A q \in Proc \ {p} :
    pc'[q] = pc[q] /\ call'[q] = call[q] /\ wchan'[q] \in {wchan[q], NoChan}

LEMMA EndsAlone ==
  ASSUME Inv, NEW p \in Proc, NEW h, NEW chan, NEW chans, NEW c, NEW where,
         \/ Leave(p, h, chans)
         \/ SleepOn(p, h, chan, c, chans)
         \/ Go(p, h, where, c)
  PROVE  /\ Others(p)
         /\ Leave(p, h, chans) =>
              pc'[p] = "user" /\ call'[p] = NoCall /\ wchan'[p] \in {wchan[p], NoChan}
         /\ SleepOn(p, h, chan, c, chans) =>
              pc'[p] = "wait" /\ call'[p] = [c EXCEPT !.on = chan] /\ wchan'[p] = chan
         /\ Go(p, h, where, c) =>
              pc'[p] = where /\ call'[p] = c /\ wchan'[p] \in {wchan[p], NoChan}
BY DEF Inv, TypeOK, Others, Leave, SleepOn, Go, Woken

(* A step that leaves headers, segments and messages alone. *)
Same(p) ==
  /\ UNCHANGED <<msgs, nfree, msgmap, pool>>
  /\ pc[p] # "text" /\ pc'[p] # "text"
  /\ \A g \in Hdr : que[g].alloc => que'[g].alloc

(* A sender takes a header and segments. *)
Takes(p) ==
  /\ pc[p] # "text" /\ pc'[p] = "text"
  /\ call'[p].at = 0
  /\ Taken(p)' \subseteq msgmap /\ msgmap' = msgmap \ Taken(p)'
  /\ nfree > 0 /\ nfree' = nfree - 1
  /\ UNCHANGED <<que, msgs, pool>>

(* The message m goes to the end of queue h. *)
Puts(p, h, m) ==
  /\ h \in Hdr /\ m \in Message /\ que[h].alloc
  /\ msgs' = [msgs EXCEPT ![h] = Append(msgs[h], m)]
  /\ UNCHANGED <<msgmap, pool>>
  /\ pc'[p] # "text"
  /\ \A g \in Hdr : que[g].alloc => que'[g].alloc
  /\ \/ /\ pc[p] = "text" /\ nfree' = nfree
        /\ Segs(m.spot, btoq(m.ts)) = Taken(p)
        /\ m.text = call[p].text
        /\ call[p].at = btoq(call[p].size)
     \/ /\ pc[p] # "text" /\ nfree > 0 /\ nfree' = nfree - 1
        /\ Segs(m.spot, btoq(m.ts)) = {}

(* The i-th message of queue h is freed. *)
Removes(p, h, i) ==
  /\ h \in Hdr /\ i \in DOMAIN msgs[h]
  /\ msgs' = [msgs EXCEPT ![h] = Without(msgs[h], i)]
  /\ msgmap' = msgmap \cup TextAt(h, i)
  /\ nfree' = nfree + 1 /\ pool' = pool
  /\ pc[p] # "text" /\ pc'[p] # "text"
  /\ \A g \in Hdr : que[g].alloc => que'[g].alloc

(* All messages of queue h are freed. *)
Clears(p, h) ==
  /\ h \in Hdr
  /\ msgs' = [msgs EXCEPT ![h] = <<>>]
  /\ msgmap' = msgmap \cup UNION {TextAt(h, i) : i \in DOMAIN msgs[h]}
  /\ nfree' = nfree + Len(msgs[h]) /\ pool' = pool
  /\ pc[p] # "text" /\ pc'[p] # "text"
  /\ \A g \in Hdr \ {h} : que[g].alloc => que'[g].alloc

(* A sender gives its header and segments back. *)
GivesBack(p) ==
  /\ pc[p] = "text" /\ pc'[p] # "text"
  /\ msgmap' = msgmap \cup Taken(p) /\ nfree' = nfree + 1
  /\ UNCHANGED <<que, msgs, pool>>

(* A segment is copied in. *)
Copies(p) ==
  LET c == call[p]
  IN  /\ pc[p] = "text" /\ pc'[p] = "text"
      /\ c.at < btoq(c.size)
      /\ pool' = [pool EXCEPT ![c.spot + c.at] = c.text]
      /\ call'[p] = [c EXCEPT !.at = c.at + 1]
      /\ UNCHANGED <<que, msgs, nfree, msgmap>>

(* What a step of p may do to headers, segments and messages. *)
Shape(p) ==
  \/ Same(p) \/ Takes(p) \/ Copies(p) \/ GivesBack(p)
  \/ \E h \in Hdr, m \in Message : Puts(p, h, m)
  \/ \E h \in Hdr : \E i \in DOMAIN msgs[h] : Removes(p, h, i)
  \/ \E h \in Hdr : Clears(p, h)

-----------------------------------------------------------------------------
(* What each of them does to the texts. *)
LEMMA SendersOf ==
  ASSUME NEW p \in Proc, Others(p)
  PROVE  /\ \A q \in Proc \ {p} : q \in Sending' <=> q \in Sending
         /\ p \in Sending' <=> pc'[p] = "text"
         /\ p \in Sending <=> pc[p] = "text"
         /\ \A q \in Proc \ {p} : Taken(q)' = Taken(q)
         /\ Sending \subseteq Proc /\ Sending' \subseteq Proc
BY DEF Others, Sending, Taken

LEMMA SameText ==
  ASSUME Inv, TextInv, NEW p \in Proc, Others(p), Same(p)
  PROVE  TextInv'
<1>1. Sending' = Sending /\ \A q \in Sending : Taken(q)' = Taken(q) /\ call'[q] = call[q]
  BY SendersOf DEF Same, Others, Sending
<1>2. \A g \in Hdr : \A i : TextAt(g, i)' = TextAt(g, i)
  BY DEF Same, TextAt
<1>3. UNCHANGED <<msgs, msgmap, pool>>
  BY DEF Same
<1>4. FreeIsEmpty'
  BY DEF Same, TextInv, FreeIsEmpty, Inv, TypeOK
<1>5. Apart' /\ Intact'
  BY <1>1, <1>2, <1>3 DEF TextInv, Apart, Intact
<1>6. Covered'
  BY <1>1, <1>2, <1>3 DEF TextInv, Covered
<1>7. CopiedIn'
  BY <1>1, <1>3 DEF TextInv, CopiedIn
<1> QED
  BY <1>4, <1>5, <1>6, <1>7 DEF TextInv

LEMMA TakesText ==
  ASSUME Inv, Inv', TextInv, NEW p \in Proc, Others(p), Takes(p)
  PROVE  TextInv'
<1>0. UNCHANGED <<que, msgs, pool>>
  BY DEF Takes
<1>1. p \notin Sending /\ p \in Sending' /\ Sending' = Sending \cup {p}
  BY SendersOf DEF Takes
<1>2. \A q \in Sending : q # p /\ Taken(q)' = Taken(q) /\ call'[q] = call[q]
  BY <1>1, SendersOf DEF Others
<1>3. \A g \in Hdr : \A i : TextAt(g, i)' = TextAt(g, i)
  BY <1>0 DEF TextAt
<1> DEFINE T == Taken(p)'
<1>4. T \subseteq msgmap /\ msgmap' = msgmap \ T
  BY DEF Takes
<1> HIDE DEF T
<1>5. \A q \in Sending' : (q \in Sending /\ q # p /\ Taken(q)' = Taken(q)) \/ (q = p /\ Taken(q)' = T)
  BY <1>1, <1>2 DEF T
<1>6. FreeIsEmpty' /\ Intact'
  BY <1>0, <1>3 DEF TextInv, FreeIsEmpty, Intact
<1>7. Apart'
  <2>1. \A h, g \in Hdr : \A i \in DOMAIN msgs'[h], j \in DOMAIN msgs'[g] :
          (h # g \/ i # j) => TextAt(h, i)' \cap TextAt(g, j)' = {}
    BY <1>0, <1>3 DEF TextInv, Apart
  <2>2. \A h \in Hdr : \A i \in DOMAIN msgs'[h] : TextAt(h, i)' \cap msgmap' = {}
    BY <1>0, <1>3, <1>4 DEF TextInv, Apart
  <2>3. \A h \in Hdr : \A i \in DOMAIN msgs'[h] : \A q \in Sending' :
          TextAt(h, i)' \cap Taken(q)' = {}
    BY <1>0, <1>3, <1>4, <1>5 DEF TextInv, Apart
  <2>4. \A q \in Sending' : Taken(q)' \cap msgmap' = {}
    BY <1>4, <1>5 DEF TextInv, Apart
  <2>5. \A q, r \in Sending' : q # r => Taken(q)' \cap Taken(r)' = {}
    BY <1>4, <1>5 DEF TextInv, Apart
  <2> QED
    BY <2>1, <2>2, <2>3, <2>4, <2>5 DEF Apart
<1>8. Covered'
  <2> SUFFICES ASSUME NEW s \in Seg
               PROVE  \/ s \in msgmap'
                      \/ \E h \in Hdr : \E i \in DOMAIN msgs'[h] : s \in TextAt(h, i)'
                      \/ \E q \in Sending' : s \in Taken(q)'
    BY DEF Covered, Seg
  <2>1. CASE s \in msgmap
    BY <2>1, <1>1, <1>4 DEF T
  <2>2. CASE s \notin msgmap
    BY <2>2, <1>0, <1>1, <1>2, <1>3 DEF TextInv, Covered
  <2> QED
    BY <2>1, <2>2
<1>9. CopiedIn'
  <2>1. call'[p].size \in Nat /\ call'[p].at = 0
    BY DEF Takes, Inv, TypeOK, Local
  <2>2. btoq(call'[p].size) \in Nat
    BY <2>1, BtoqType
  <2>3. \A k : k \notin 0 .. 0 - 1
    OBVIOUS
  <2>4. 0 <= btoq(call'[p].size)
    BY <2>2
  <2>5. \A q \in Sending :
          /\ call'[q].at <= btoq(call'[q].size)
          /\ \A k \in 0 .. call'[q].at - 1 : pool'[call'[q].spot + k] = call'[q].text
    BY <1>0, <1>2 DEF TextInv, CopiedIn
  <2>6. /\ call'[p].at <= btoq(call'[p].size)
        /\ \A k \in 0 .. call'[p].at - 1 : pool'[call'[p].spot + k] = call'[p].text
    BY <2>1, <2>3, <2>4
  <2> QED
    BY <1>1, <2>5, <2>6 DEF CopiedIn, btoq
<1> QED
  BY <1>6, <1>7, <1>8, <1>9 DEF TextInv

LEMMA CopiesText ==
  ASSUME Inv, TextInv, NEW p \in Proc, Others(p), Copies(p)
  PROVE  TextInv'
<1> DEFINE c == call[p]
           s0 == c.spot + c.at
<1>1. c \in Local /\ p \in Sending /\ p \in Sending'
  BY SendersOf DEF Copies, Inv, TypeOK
<1>2. c.at \in Nat /\ c.spot \in Nat /\ c.size \in Nat /\ btoq(c.size) \in Nat
  BY <1>1, BtoqType DEF Local
<1>3. /\ c.at < btoq(c.size)
      /\ pool' = [pool EXCEPT ![s0] = c.text]
      /\ call'[p] = [c EXCEPT !.at = c.at + 1]
      /\ UNCHANGED <<que, msgs, nfree, msgmap>>
  BY DEF Copies
<1>4. /\ call'[p].spot = c.spot /\ call'[p].size = c.size
      /\ call'[p].text = c.text /\ call'[p].at = c.at + 1
  BY <1>1, <1>3 DEF Local
<1>5. Sending' = Sending /\ \A q \in Sending : Taken(q)' = Taken(q)
  <2>1. Taken(p)' = Taken(p)
    BY <1>4 DEF Taken, btoq
  <2>2. Sending' = Sending
    BY <1>1, SendersOf
  <2> QED
    BY <2>1, <2>2, SendersOf
<1>6. s0 \in Taken(p) /\ s0 \in Seg
  <2>1. s0 \in Taken(p)
    <3> DEFINE n == btoq(c.size)
    <3>1. n \in Nat /\ c.at < n /\ Taken(p) = Segs(c.spot, n)
      BY <1>2, <1>3 DEF Taken
    <3> HIDE DEF n
    <3> QED
      BY <1>2, <3>1 DEF Segs
  <2> QED
    BY <2>1, <1>1 DEF Inv, SendersPlaced, Sending
<1>7. \A g \in Hdr : \A i : TextAt(g, i)' = TextAt(g, i)
  BY <1>3 DEF TextAt
<1>8. \A s \in Seg : s # s0 => pool'[s] = pool[s]
  BY <1>3 DEF Inv, TypeOK
<1>9. pool'[s0] = c.text
  BY <1>3, <1>6 DEF Inv, TypeOK
<1>10. FreeIsEmpty' /\ Apart' /\ Covered'
  BY <1>3, <1>5, <1>7 DEF TextInv, FreeIsEmpty, Apart, Covered
<1>11. Intact'
  <2> SUFFICES ASSUME NEW h \in Hdr, NEW i \in DOMAIN msgs[h], NEW s \in TextAt(h, i)
               PROVE  pool'[s] = msgs[h][i].text
    BY <1>3, <1>7 DEF Intact
  <2>1. s # s0
    BY <1>1, <1>6 DEF TextInv, Apart
  <2>2. s \in Seg
    BY DEF Inv, MsgsPlaced, TextAt
  <2> QED
    BY <2>1, <2>2, <1>8 DEF TextInv, Intact
<1>12. CopiedIn'
  <2> SUFFICES ASSUME NEW q \in Sending
               PROVE  /\ call'[q].at <= btoq(call'[q].size)
                      /\ \A k \in 0 .. call'[q].at - 1 :
                           pool'[call'[q].spot + k] = call'[q].text
    BY <1>5 DEF CopiedIn, btoq
  <2>1. CASE q = p
    <3>1. \A k \in 0 .. c.at - 1 : c.spot + k # s0 /\ pool[c.spot + k] = c.text
      BY <1>1, <1>2 DEF TextInv, CopiedIn
    <3>2. \A k \in 0 .. c.at - 1 : c.spot + k \in Taken(p)
      <4> DEFINE n == btoq(c.size)
      <4>1. n \in Nat /\ c.at < n /\ Taken(p) = Segs(c.spot, n)
        BY <1>2, <1>3 DEF Taken
      <4> HIDE DEF n
      <4> QED
        BY <1>2, <4>1 DEF Segs
    <3>3. \A k \in 0 .. c.at - 1 : pool'[c.spot + k] = c.text
      BY <3>1, <3>2, <1>1, <1>8 DEF Inv, SendersPlaced, Sending
    <3>4. \A k \in 0 .. c.at + 1 - 1 : k \in 0 .. c.at - 1 \/ k = c.at
      BY <1>2
    <3>5. \A k \in 0 .. call'[p].at - 1 : pool'[call'[p].spot + k] = call'[p].text
      <4>1. \A k \in 0 .. c.at + 1 - 1 : pool'[c.spot + k] = c.text
        BY <1>9, <3>3, <3>4
      <4>2. \A a, b, t : a = c.at + 1 /\ b = c.spot /\ t = c.text =>
              \A k \in 0 .. a - 1 : pool'[b + k] = t
        BY <4>1, <1>2
      <4> QED
        BY <1>4, <4>2, Zenon
    <3>6. c.at + 1 <= btoq(c.size)
      <4> DEFINE n == btoq(c.size)
      <4>1. n \in Nat /\ c.at < n
        BY <1>2, <1>3
      <4>2. n \in Nat /\ c.at \in Nat
        BY <1>2
      <4> HIDE DEF n
      <4>3. c.at + 1 <= n
        BY <4>1, <4>2
      <4> QED
        BY <4>3 DEF n
    <3>7. btoq(call'[p].size) = btoq(c.size)
      BY <1>4
    <3> QED
      BY <2>1, <1>4, <3>5, <3>6, <3>7
  <2>2. CASE q # p
    <3>1. call'[q] = call[q] /\ q \in Proc /\ call[q] \in Local /\ pc[q] = "text"
      BY <2>2 DEF Others, Sending, Inv, TypeOK
    <3>2. call[q].at <= btoq(call[q].size)
            /\ \A k \in 0 .. call[q].at - 1 : pool[call[q].spot + k] = call[q].text
      BY DEF TextInv, CopiedIn
    <3>3. \A k \in 0 .. call[q].at - 1 : call[q].spot + k \in Taken(q)
      <4>1. call[q].at \in Nat /\ call[q].spot \in Nat /\ btoq(call[q].size) \in Nat
        BY <3>1, BtoqType DEF Local
      <4> DEFINE n == btoq(call[q].size)
      <4>2. n \in Nat /\ call[q].at <= n /\ Taken(q) = Segs(call[q].spot, n)
        BY <3>2, <4>1 DEF Taken
      <4> HIDE DEF n
      <4> QED
        BY <4>1, <4>2 DEF Segs
    <3>4. \A s \in Taken(q) : s # s0 /\ s \in Seg
      BY <1>1, <1>6, <2>2, <3>1 DEF TextInv, Apart, Inv, SendersPlaced
    <3> QED
      BY <3>1, <3>2, <3>3, <3>4, <1>8
  <2> QED
    BY <2>1, <2>2
<1> QED
  BY <1>10, <1>11, <1>12 DEF TextInv

LEMMA GivesBackText ==
  ASSUME Inv, TextInv, NEW p \in Proc, Others(p), GivesBack(p)
  PROVE  TextInv'
<1>1. UNCHANGED <<que, msgs, pool>> /\ msgmap' = msgmap \cup Taken(p)
  BY DEF GivesBack
<1>2. p \in Sending /\ \A q \in Proc : pc'[q] = "text" =>
        q # p /\ q \in Sending /\ pc[q] = "text" /\ call'[q] = call[q]
  BY DEF GivesBack, Others, Sending
<1>3. \A q \in Proc : pc[q] = "text" => pc'[q] = "text" \/ q = p
  BY DEF Others
<1>4. PICK f : \A g \in Hdr : \A i \in DOMAIN msgs[g] : f[g][i] = i
  <2>1. LET f == [g \in Hdr |-> [i \in DOMAIN msgs[g] |-> i]]
        IN  \A g \in Hdr : \A i \in DOMAIN msgs[g] : f[g][i] = i
    OBVIOUS
  <2> QED
    BY <2>1
<1>5. \A g \in Hdr : \A i \in DOMAIN msgs[g] :
        TextAt(g, i) \cap (msgmap' \ msgmap) = {}
  BY <1>1, <1>2 DEF TextInv, Apart
<1>6. \A q \in Proc : pc'[q] = "text" => Taken(q) \cap (msgmap' \ msgmap) = {}
  BY <1>1, <1>2 DEF TextInv, Apart
<1>7. Apart' /\ Covered' /\ CopiedIn' /\ Intact'
  <2>1. Stays(f)
    BY <1>1, <1>4, <1>5 DEF Stays
  <2>2. SendersStay
    BY <1>1, <1>2, <1>3, <1>6 DEF SendersStay
  <2> QED
    BY <1>1, <2>1, <2>2, TextFrame DEF TextInv
<1>8. FreeIsEmpty'
  BY <1>1 DEF TextInv, FreeIsEmpty
<1> QED
  BY <1>7, <1>8 DEF TextInv

LEMMA SendersQuiet ==
  ASSUME NEW p \in Proc, Others(p), pc[p] # "text", pc'[p] # "text", TextInv,
         \A q \in Sending : Taken(q) \cap (msgmap' \ msgmap) = {}
  PROVE  SendersStay
BY DEF SendersStay, Others, Sending

LEMMA RemovesText ==
  ASSUME Inv, TextInv, NEW p \in Proc, Others(p),
         NEW h, NEW k, Removes(p, h, k)
  PROVE  TextInv'
<1>1. /\ h \in Hdr /\ k \in DOMAIN msgs[h]
      /\ msgs' = [msgs EXCEPT ![h] = Without(msgs[h], k)]
      /\ msgmap' = msgmap \cup TextAt(h, k) /\ pool' = pool
  BY DEF Removes
<1>2. msgs \in [Hdr -> Seq(Message)]
  BY DEF Inv, TypeOK
<1>3. PICK n \in Nat : n = Len(msgs[h]) /\ DOMAIN msgs[h] = 1 .. n
  BY <1>1, <1>2
<1>4. /\ msgs'[h] = Without(msgs[h], k)
      /\ \A g \in Hdr \ {h} : msgs'[g] = msgs[g]
  BY <1>1, <1>2
<1>5. /\ DOMAIN msgs'[h] = 1 .. n - 1
      /\ \A i \in 1 .. n - 1 : msgs'[h][i] = msgs[h][IF i < k THEN i ELSE i + 1]
  <2>1. Without(msgs[h], k) \in Seq(Message) /\ Len(Without(msgs[h], k)) = n - 1
    BY <1>1, <1>2, <1>3, WithoutLemma
  <2>2. DOMAIN Without(msgs[h], k) = 1 .. n - 1
    BY <2>1
  <2>3. \A i \in 1 .. n - 1 :
          Without(msgs[h], k)[i] = msgs[h][IF i < k THEN i ELSE i + 1]
    BY <1>1, <1>2, <1>3, WithoutLemma
  <2> QED
    BY <1>4, <2>2, <2>3
<1>6. PICK f : /\ \A i \in Nat : f[h][i] = IF i < k THEN i ELSE i + 1
               /\ \A g \in Hdr \ {h} : \A i \in DOMAIN msgs[g] : f[g][i] = i
  <2>1. LET f == [g \in Hdr |-> IF g = h
                     THEN [i \in Nat |-> IF i < k THEN i ELSE i + 1]
                     ELSE [i \in DOMAIN msgs[g] |-> i]]
        IN  /\ \A i \in Nat : f[h][i] = IF i < k THEN i ELSE i + 1
            /\ \A g \in Hdr \ {h} : \A i \in DOMAIN msgs[g] : f[g][i] = i
    BY <1>1
  <2> QED
    BY <2>1
<1>7. k \in 1 .. n
  BY <1>1, <1>3
<1>8. \A i \in 1 .. n - 1 : f[h][i] \in 1 .. n /\ f[h][i] # k
  BY <1>6, <1>7
<1>9. \A i, j \in 1 .. n - 1 : f[h][i] = f[h][j] => i = j
  BY <1>6, <1>7
<1>10. \A i \in 1 .. n : i # k => \E j \in 1 .. n - 1 : f[h][j] = i
  <2> SUFFICES ASSUME NEW i \in 1 .. n, i # k
               PROVE  \E j \in 1 .. n - 1 : f[h][j] = i
    OBVIOUS
  <2>1. CASE i < k
    <3>1. i \in 1 .. n - 1 /\ f[h][i] = i
      BY <2>1, <1>6, <1>7
    <3> QED
      BY <3>1
  <2>2. CASE i > k
    <3>1. i - 1 \in 1 .. n - 1 /\ f[h][i - 1] = i
      BY <2>2, <1>6, <1>7
    <3> QED
      BY <3>1
  <2> QED
    BY <2>1, <2>2, <1>7
<1>11. \A g \in Hdr : \A i \in DOMAIN msgs'[g] :
         /\ f[g][i] \in DOMAIN msgs[g]
         /\ msgs'[g][i] = msgs[g][f[g][i]]
         /\ g # h \/ f[g][i] # k
  <2> SUFFICES ASSUME NEW g \in Hdr, NEW i \in DOMAIN msgs'[g]
               PROVE  /\ f[g][i] \in DOMAIN msgs[g]
                      /\ msgs'[g][i] = msgs[g][f[g][i]]
                      /\ g # h \/ f[g][i] # k
    OBVIOUS
  <2>1. CASE g = h
    BY <2>1, <1>3, <1>5, <1>6, <1>8
  <2>2. CASE g # h
    BY <2>2, <1>4, <1>6
  <2> QED
    BY <2>1, <2>2
<1>12. Stays(f)
  <2>1. \A g \in Hdr : \A i \in DOMAIN msgs'[g] :
          TextAt(g, f[g][i]) \cap (msgmap' \ msgmap) = {}
    <3> SUFFICES ASSUME NEW g \in Hdr, NEW i \in DOMAIN msgs'[g]
                 PROVE  TextAt(g, f[g][i]) \cap (msgmap' \ msgmap) = {}
      OBVIOUS
    <3>1. PICK j \in DOMAIN msgs[g] : j = f[g][i] /\ (g # h \/ j # k)
      BY <1>11
    <3>2. TextAt(g, j) \cap TextAt(h, k) = {}
      BY <1>1, <3>1 DEF TextInv, Apart
    <3> QED
      BY <1>1, <3>1, <3>2
  <2>2. \A g \in Hdr : \A i, j \in DOMAIN msgs'[g] : f[g][i] = f[g][j] => i = j
    BY <1>4, <1>5, <1>6, <1>9
  <2>3. \A g \in Hdr : \A i \in DOMAIN msgs[g] :
          (\E j \in DOMAIN msgs'[g] : f[g][j] = i) \/ TextAt(g, i) \subseteq msgmap'
    <3> SUFFICES ASSUME NEW g \in Hdr, NEW i \in DOMAIN msgs[g]
                 PROVE  (\E j \in DOMAIN msgs'[g] : f[g][j] = i)
                          \/ TextAt(g, i) \subseteq msgmap'
      OBVIOUS
    <3>1. CASE g # h
      BY <3>1, <1>4, <1>6
    <3>2. CASE g = h /\ i # k
      BY <3>2, <1>3, <1>5, <1>10
    <3>3. CASE g = h /\ i = k
      BY <3>3, <1>1
    <3> QED
      BY <3>1, <3>2, <3>3
  <2> QED
    BY <1>11, <2>1, <2>2, <2>3 DEF Stays
<1>13. SendersStay
  <2>1. \A q \in Sending : Taken(q) \cap (msgmap' \ msgmap) = {}
    BY <1>1 DEF TextInv, Apart
  <2> QED
    BY <2>1, SendersQuiet DEF Removes
<1>14. FreeIsEmpty'
  <2>1. msgs[h] # <<>>
    BY <1>1
  <2>2. que[h].alloc
    BY <1>1, <2>1 DEF TextInv, FreeIsEmpty
  <2> QED
    BY <1>4, <2>2 DEF Removes, TextInv, FreeIsEmpty
<1> QED
  BY <1>1, <1>12, <1>13, <1>14, TextFrame DEF TextInv

LEMMA ClearsText ==
  ASSUME Inv, TextInv, NEW p \in Proc, Others(p), NEW h, Clears(p, h)
  PROVE  TextInv'
<1>1. /\ h \in Hdr
      /\ msgs' = [msgs EXCEPT ![h] = <<>>]
      /\ msgmap' = msgmap \cup UNION {TextAt(h, i) : i \in DOMAIN msgs[h]}
      /\ pool' = pool
  BY DEF Clears
<1>2. /\ msgs'[h] = <<>> /\ DOMAIN msgs'[h] = {}
      /\ \A g \in Hdr \ {h} : msgs'[g] = msgs[g]
  BY <1>1 DEF Inv, TypeOK
<1>3. PICK f : \A g \in Hdr : \A i \in DOMAIN msgs[g] : f[g][i] = i
  <2>1. LET f == [g \in Hdr |-> [i \in DOMAIN msgs[g] |-> i]]
        IN  \A g \in Hdr : \A i \in DOMAIN msgs[g] : f[g][i] = i
    OBVIOUS
  <2> QED
    BY <2>1
<1>4. \A g \in Hdr : \A i \in DOMAIN msgs'[g] :
        g # h /\ msgs'[g] = msgs[g] /\ i \in DOMAIN msgs[g] /\ f[g][i] = i
  BY <1>2, <1>3
<1>5. \A s \in msgmap' \ msgmap : \E i \in DOMAIN msgs[h] : s \in TextAt(h, i)
  BY <1>1
<1>6. Stays(f)
  <2>1. \A g \in Hdr : \A i \in DOMAIN msgs'[g] :
          TextAt(g, i) \cap (msgmap' \ msgmap) = {}
    <3>1. \A g \in Hdr : \A i \in DOMAIN msgs'[g] : \A j \in DOMAIN msgs[h] :
            TextAt(g, i) \cap TextAt(h, j) = {}
      BY <1>1, <1>4 DEF TextInv, Apart
    <3> QED
      BY <3>1, <1>5
  <2>2. \A g \in Hdr : \A i \in DOMAIN msgs[g] :
          (\E j \in DOMAIN msgs'[g] : f[g][j] = i) \/ TextAt(g, i) \subseteq msgmap'
    BY <1>1, <1>2, <1>3
  <2> QED
    BY <1>4, <2>1, <2>2 DEF Stays
<1>7. SendersStay
  <2>1. \A q \in Sending : Taken(q) \cap (msgmap' \ msgmap) = {}
    <3>1. \A q \in Sending : \A j \in DOMAIN msgs[h] : TextAt(h, j) \cap Taken(q) = {}
      BY <1>1 DEF TextInv, Apart
    <3> QED
      BY <3>1, <1>5
  <2> QED
    BY <2>1, SendersQuiet DEF Clears
<1>8. FreeIsEmpty'
  BY <1>2 DEF Clears, TextInv, FreeIsEmpty
<1> QED
  BY <1>1, <1>6, <1>7, <1>8, TextFrame DEF TextInv

LEMMA PutsText ==
  ASSUME Inv, TextInv, NEW p \in Proc, Others(p), NEW h, NEW m, Puts(p, h, m)
  PROVE  TextInv'
<1> DEFINE T == Segs(m.spot, btoq(m.ts))
<1>1. /\ h \in Hdr /\ m \in Message /\ que[h].alloc
      /\ msgs' = [msgs EXCEPT ![h] = Append(msgs[h], m)]
      /\ msgmap' = msgmap /\ pool' = pool /\ pc'[p] # "text"
  BY DEF Puts
<1>2. msgs \in [Hdr -> Seq(Message)]
  BY DEF Inv, TypeOK
<1>3. PICK n \in Nat : n = Len(msgs[h]) /\ DOMAIN msgs[h] = 1 .. n
  BY <1>1, <1>2
<1>4. /\ msgs'[h] = Append(msgs[h], m)
      /\ \A g \in Hdr \ {h} : msgs'[g] = msgs[g]
  BY <1>1, <1>2
<1>5. /\ DOMAIN msgs'[h] = 1 .. n + 1
      /\ msgs'[h][n + 1] = m
      /\ \A i \in 1 .. n : msgs'[h][i] = msgs[h][i]
  <2>1. msgs[h] \in Seq(Message)
    BY <1>1, <1>2
  <2> QED
    BY <1>1, <1>3, <1>4, <2>1
<1>6. \A q \in Sending' : q \in Sending /\ q # p /\ Taken(q)' = Taken(q) /\ call'[q] = call[q]
  BY <1>1, SendersOf DEF Others, Sending
<1>7. \A q \in Sending : q # p => q \in Sending' /\ Taken(q)' = Taken(q)
  BY SendersOf
<1> DEFINE New(g, i) == g = h /\ i = n + 1
           Old(g, i) == g \in Hdr /\ i \in DOMAIN msgs[g]
<1>8. \A g \in Hdr : \A i \in DOMAIN msgs'[g] :
        \/ New(g, i) /\ TextAt(g, i)' = T /\ msgs'[g][i] = m
        \/ Old(g, i) /\ TextAt(g, i)' = TextAt(g, i) /\ msgs'[g][i] = msgs[g][i]
  <2> SUFFICES ASSUME NEW g \in Hdr, NEW i \in DOMAIN msgs'[g]
               PROVE  \/ New(g, i) /\ msgs'[g][i] = m
                      \/ Old(g, i) /\ msgs'[g][i] = msgs[g][i]
    BY DEF TextAt, Segs, btoq
  <2>1. CASE g # h
    BY <2>1, <1>4
  <2>2. CASE g = h
    <3>1. i \in 1 .. n \/ i = n + 1
      BY <2>2, <1>3, <1>5
    <3> QED
      BY <3>1, <2>2, <1>3, <1>5
  <2> QED
    BY <2>1, <2>2
<1>9. \A g, i : Old(g, i) => i \in DOMAIN msgs'[g] /\ msgs'[g][i] = msgs[g][i]
                               /\ TextAt(g, i)' = TextAt(g, i)
  <2> SUFFICES ASSUME NEW g \in Hdr, NEW i \in DOMAIN msgs[g]
               PROVE  i \in DOMAIN msgs'[g] /\ msgs'[g][i] = msgs[g][i]
    BY DEF TextAt, Segs, btoq
  <2>1. CASE g # h
    BY <2>1, <1>4
  <2>2. CASE g = h
    <3>1. i \in 1 .. n /\ i \in 1 .. n + 1
      BY <2>2, <1>3
    <3> QED
      BY <3>1, <2>2, <1>3, <1>5
  <2> QED
    BY <2>1, <2>2
<1>10. n + 1 \in DOMAIN msgs'[h] /\ TextAt(h, n + 1)' = T
  BY <1>5 DEF TextAt, Segs, btoq
<1>11. \/ T = {} /\ p \notin Sending
       \/ T = Taken(p) /\ p \in Sending /\ \A s \in T : pool[s] = m.text
  <2>1. CASE pc[p] # "text"
    BY <2>1 DEF Puts, Sending
  <2>2. CASE pc[p] = "text"
    <3>1. p \in Sending /\ T = Taken(p) /\ m.text = call[p].text
            /\ call[p].at = btoq(call[p].size)
      BY <2>2 DEF Puts, Sending
    <3>2. call[p].size \in Nat /\ call[p].spot \in Nat
      BY DEF Inv, TypeOK, Local
    <3>3. PICK z \in Nat : z = btoq(call[p].size)
      BY <3>2, BtoqType
    <3>4. \A k \in 0 .. z - 1 : pool[call[p].spot + k] = m.text
      BY <3>1, <3>3 DEF TextInv, CopiedIn
    <3>5. T = Segs(call[p].spot, z)
      BY <3>1, <3>3 DEF Taken
    <3>6. \A s \in Segs(call[p].spot, z) :
            s - call[p].spot \in 0 .. z - 1 /\ s = call[p].spot + (s - call[p].spot)
      BY <3>2 DEF Segs
    <3>7. \A s \in T : pool[s] = m.text
      BY <3>4, <3>5, <3>6
    <3> HIDE DEF T
    <3> QED
      BY <3>1, <3>7
  <2> QED
    BY <2>1, <2>2
<1> HIDE DEF T
<1>12. /\ T \cap msgmap = {}
       /\ \A g, i : Old(g, i) => T \cap TextAt(g, i) = {}
       /\ \A q \in Sending : q # p => T \cap Taken(q) = {}
  BY <1>11 DEF TextInv, Apart
<1>13. Apart'
  <2>1. \A g1, g2 \in Hdr : \A i \in DOMAIN msgs'[g1], j \in DOMAIN msgs'[g2] :
          (g1 # g2 \/ i # j) => TextAt(g1, i)' \cap TextAt(g2, j)' = {}
    <3> SUFFICES ASSUME NEW g1 \in Hdr, NEW g2 \in Hdr,
                        NEW i \in DOMAIN msgs'[g1], NEW j \in DOMAIN msgs'[g2],
                        g1 # g2 \/ i # j
                 PROVE  TextAt(g1, i)' \cap TextAt(g2, j)' = {}
      OBVIOUS
    <3>1. ~(New(g1, i) /\ New(g2, j))
      OBVIOUS
    <3>2. CASE New(g1, i) /\ Old(g2, j)
      BY <3>1, <3>2, <1>8, <1>12, <1>9, <1>10
    <3>3. CASE Old(g1, i) /\ New(g2, j)
      BY <3>1, <3>3, <1>8, <1>12, <1>9, <1>10
    <3>4. CASE Old(g1, i) /\ Old(g2, j)
      BY <3>4, <1>9 DEF TextInv, Apart
    <3> HIDE DEF New, Old
    <3> QED
      BY <3>1, <3>2, <3>3, <3>4, <1>8
  <2>2. \A g \in Hdr : \A i \in DOMAIN msgs'[g] : TextAt(g, i)' \cap msgmap' = {}
    BY <1>1, <1>8, <1>12 DEF TextInv, Apart
  <2>3. \A g \in Hdr : \A i \in DOMAIN msgs'[g] : \A q \in Sending' :
          TextAt(g, i)' \cap Taken(q)' = {}
    BY <1>6, <1>8, <1>12 DEF TextInv, Apart
  <2>4. \A q \in Sending' : Taken(q)' \cap msgmap' = {}
    BY <1>1, <1>6 DEF TextInv, Apart
  <2>5. \A q, r \in Sending' : q # r => Taken(q)' \cap Taken(r)' = {}
    BY <1>6 DEF TextInv, Apart
  <2> QED
    BY <2>1, <2>2, <2>3, <2>4, <2>5 DEF Apart
<1>14. Covered'
  <2> SUFFICES ASSUME NEW s \in Seg
               PROVE  \/ s \in msgmap'
                      \/ \E g \in Hdr : \E i \in DOMAIN msgs'[g] : s \in TextAt(g, i)'
                      \/ \E q \in Sending' : s \in Taken(q)'
    BY DEF Covered, Seg
  <2>1. CASE \E q \in Sending : s \in Taken(q)
    <3>1. PICK q \in Sending : s \in Taken(q)
      BY <2>1
    <3>2. CASE q = p
      BY <3>1, <3>2, <1>1, <1>10, <1>11
    <3>3. CASE q # p
      BY <3>1, <3>3, <1>7
    <3> QED
      BY <3>2, <3>3
  <2>2. CASE \E g \in Hdr : \E i \in DOMAIN msgs[g] : s \in TextAt(g, i)
    BY <2>2, <1>9
  <2>3. CASE s \in msgmap
    BY <2>3, <1>1
  <2> QED
    BY <2>1, <2>2, <2>3 DEF TextInv, Covered
<1>15. CopiedIn'
  BY <1>1, <1>6 DEF TextInv, CopiedIn
<1>16. Intact'
  BY <1>1, <1>8, <1>11 DEF TextInv, Intact
<1>17. FreeIsEmpty'
  BY <1>1, <1>4 DEF Puts, TextInv, FreeIsEmpty
<1> QED
  BY <1>13, <1>14, <1>15, <1>16, <1>17 DEF TextInv

LEMMA ShapeText ==
  ASSUME Inv, Inv', TextInv, NEW p \in Proc, Others(p), Shape(p)
  PROVE  TextInv'
BY SameText, TakesText, CopiesText, GivesBackText, PutsText, RemovesText,
   ClearsText DEF Shape

-----------------------------------------------------------------------------
(* Which of them each action is. *)
LEMMA KeepsAlloc ==
  ASSUME Inv, NEW h \in Hdr
  PROVE  LET f == [que EXCEPT ![h].rwait = TRUE]
             g == [que EXCEPT ![h].wwait = TRUE]
             u == [que EXCEPT ![h].wwait = FALSE]
         IN  \A k \in Hdr : /\ f[k].alloc = que[k].alloc
                            /\ g[k].alloc = que[k].alloc
                            /\ u[k].alloc = que[k].alloc
BY DEF Inv, TypeOK

LEMMA FindmsgShape ==
  ASSUME Inv, NEW p, NEW c, Works(p, HdrOf(c.id)), pc[p] # "text", Findmsg(p, c)
  PROVE  Others(p) /\ Same(p)
<1> DEFINE h == HdrOf(c.id)
<1>1. p \in Proc /\ h \in Hdr
  BY DEF Works
<1>2. UNCHANGED <<msgs, nfree, msgmap, pool>>
  BY DEF Findmsg, resVars
<1>3. CASE /\ que' = [que EXCEPT ![h].rwait = TRUE]
           /\ SleepOn(p, h, <<"rcv", h>>, c, {})
  BY <1>1, <1>2, <1>3, EndsAlone, KeepsAlloc DEF Same
<1>4. CASE que' = que /\ Leave(p, h, {})
  BY <1>1, <1>2, <1>4, EndsAlone DEF Same
<1>5. CASE que' = que /\ \E d : Go(p, h, "out", d)
  <2>1. PICK d : Go(p, h, "out", d)
    BY <1>5
  <2>2. Others(p) /\ pc'[p] = "out"
    BY <1>1, <2>1, EndsAlone
  <2> QED
    BY <1>2, <1>5, <2>2 DEF Same
<1> QED
  BY <1>3, <1>4, <1>5 DEF Findmsg

LEMMA WaitShape ==
  ASSUME Inv, NEW p \in Proc, NEW h \in Hdr, NEW c, NEW chan, NEW chans,
         pc[p] # "text", Wait(p, h, c, chan, chans),
         UNCHANGED <<msgs, nfree, msgmap, pool>>,
         \A g \in Hdr : que[g].alloc => que'[g].alloc
  PROVE  Others(p) /\ Same(p)
BY EndsAlone DEF Wait, Same

LEMMA PutShape ==
  ASSUME Inv, NEW p \in Proc, NEW h \in Hdr, NEW c \in Local, Put(p, h, c),
         que[h].alloc, UNCHANGED <<msgmap, pool>>,
         \/ /\ pc[p] = "text" /\ nfree' = nfree
            /\ c = call[p] /\ c.at = btoq(c.size)
         \/ pc[p] # "text" /\ nfree > 0 /\ nfree' = nfree - 1 /\ c.size = 0
  PROVE  Others(p) /\ \E g \in Hdr, m \in Message : Puts(p, g, m)
<1> DEFINE m == [type |-> c.type, ts |-> c.size, text |-> c.text,
                 spot |-> IF c.size = 0 THEN 0 ELSE c.spot]
           chans == IF que[h].rwait THEN {<<"rcv", h>>} ELSE {}
<1>1. m \in Message /\ m.ts = c.size /\ m.text = c.text
        /\ m.spot = (IF c.size = 0 THEN 0 ELSE c.spot)
  BY DEF Local, Message
<1>2. /\ que' = [que EXCEPT ![h].cbytes = @ + c.size, ![h].rwait = FALSE]
      /\ msgs' = [msgs EXCEPT ![h] = Append(msgs[h], m)]
      /\ Leave(p, h, chans)
  BY DEF Put
<1> HIDE DEF m, chans
<1>3. Others(p) /\ pc'[p] # "text"
  BY <1>2, EndsAlone
<1>4. \A g \in Hdr : que[g].alloc => que'[g].alloc
  BY <1>2 DEF Inv, TypeOK
<1>5. \A s \in Nat : Segs(s, btoq(0)) = {}
  <2>1. btoq(0) = 0
    BY ConstAssumption DEF btoq
  <2> QED
    BY <2>1 DEF Segs
<1>6. c.spot \in Nat /\ 0 \in Nat
  BY DEF Local
<1>7. c.size = 0 => Segs(c.spot, btoq(c.size)) = {} /\ Segs(m.spot, btoq(m.ts)) = {}
  BY <1>1, <1>5, <1>6
<1>8. c.size # 0 => Segs(m.spot, btoq(m.ts)) = Segs(c.spot, btoq(c.size))
  BY <1>1
<1>9. Puts(p, h, m)
  BY <1>1, <1>2, <1>3, <1>4, <1>7, <1>8 DEF Puts, Taken
<1> QED
  BY <1>1, <1>3, <1>9

LEMMA GetresShape ==
  ASSUME Inv, NEW p, NEW c \in Local, Works(p, HdrOf(c.id)), pc[p] # "text",
         Exists(c.id), Getres(p, c)
  PROVE  Others(p) /\ Shape(p)
<1> DEFINE h == HdrOf(c.id)
<1>1. p \in Proc /\ h \in Hdr /\ que[h].alloc
  BY DEF Works, Exists
<1>2. CASE QueueFull(p, c)
  <2>1. \A g \in Hdr : que[g].alloc => que'[g].alloc
    BY <1>1, <1>2, KeepsAlloc DEF QueueFull
  <2>2. UNCHANGED <<msgs, nfree, msgmap, pool>> /\ Wait(p, h, c, <<"snd", h>>, {})
    BY <1>2 DEF QueueFull, resVars
  <2> QED
    BY <1>1, <2>1, <2>2, WaitShape DEF Shape
<1>3. CASE NoHeader(p, c)
  <2>1. UNCHANGED <<que, msgs, nfree, msgmap, pool>> /\ Wait(p, h, c, <<"hdr", 0>>, {})
    BY <1>3 DEF NoHeader, resVars
  <2> QED
    BY <1>1, <2>1, WaitShape DEF Shape
<1>4. CASE NoSpace(p, c)
  <2>1. /\ UNCHANGED <<que, msgs, nfree, msgmap, pool>>
        /\ Wait(p, h, c, <<"map", 0>>, IF nfree = 1 THEN {<<"hdr", 0>>} ELSE {})
    BY <1>4 DEF NoSpace
  <2> QED
    BY <1>1, <2>1, WaitShape DEF Shape
<1>5. CASE PutEmpty(p, c)
  <2>1. /\ Put(p, h, c) /\ UNCHANGED <<msgmap, pool>>
        /\ nfree > 0 /\ nfree' = nfree - 1 /\ c.size = 0
    BY <1>5 DEF PutEmpty
  <2>2. Others(p) /\ \E g \in Hdr, m \in Message : Puts(p, g, m)
    BY <1>1, <2>1, PutShape
  <2> QED
    BY <2>2 DEF Shape
<1>6. CASE Allocate(p, c)
  <2>1. PICK spot \in FirstFit(btoq(c.size)) :
          /\ msgmap' = msgmap \ Segs(spot, btoq(c.size))
          /\ Go(p, h, "text", [c EXCEPT !.spot = spot, !.at = 0])
    BY <1>6 DEF Allocate
  <2> DEFINE d == [c EXCEPT !.spot = spot, !.at = 0]
  <2>2. d.spot = spot /\ d.at = 0 /\ d.size = c.size
    BY DEF Local
  <2>7. Go(p, h, "text", d)
    BY <2>1
  <2> HIDE DEF d
  <2>3. Others(p) /\ pc'[p] = "text" /\ call'[p] = d
    BY <1>1, <2>7, EndsAlone
  <2>4. Taken(p)' = Segs(spot, btoq(c.size))
    BY <2>2, <2>3 DEF Taken, btoq
  <2>5. Segs(spot, btoq(c.size)) \subseteq msgmap
    BY DEF FirstFit
  <2>6. Takes(p)
    BY <1>6, <2>1, <2>2, <2>3, <2>4, <2>5 DEF Takes, Allocate
  <2> QED
    BY <2>3, <2>6 DEF Shape
<1> QED
  BY <1>2, <1>3, <1>4, <1>5, <1>6 DEF Getres

LEMMA RmidShape ==
  ASSUME Inv, NEW p, NEW c, Works(p, HdrOf(c.id)), pc[p] # "text", Rmid(p, c)
  PROVE  Others(p) /\ Shape(p)
<1> DEFINE h == HdrOf(c.id)
<1>1. p \in Proc /\ h \in Hdr
  BY DEF Works
<1>2. \E chans : Leave(p, h, chans)
  BY DEF Rmid
<1>3. Others(p) /\ pc'[p] # "text"
  BY <1>1, <1>2, EndsAlone
<1>4. msgmap' = msgmap \cup UNION {TextAt(h, i) : i \in DOMAIN msgs[h]}
  BY DEF Rmid, mfree, TextAt
<1>5. \A g \in Hdr \ {h} : que'[g] = que[g]
  BY <1>1 DEF Rmid, Inv, TypeOK
<1>6. /\ msgs' = [msgs EXCEPT ![h] = <<>>]
      /\ nfree' = nfree + Len(msgs[h]) /\ pool' = pool
  BY DEF Rmid
<1>7. Clears(p, h)
  BY <1>1, <1>3, <1>4, <1>5, <1>6 DEF Clears
<1> QED
  BY <1>1, <1>3, <1>7 DEF Shape

LEMMA EnterShape ==
  ASSUME Inv, NEW p \in Proc, pc[p] \notin Busy, wchan[p] = NoChan,
         NEW c \in Local, Enter(p, c)
  PROVE  Others(p) /\ Shape(p)
<1> DEFINE h == HdrOf(c.id)
<1>1. h \in Hdr /\ Works(p, h) /\ pc[p] # "text"
  BY HdrOfType DEF Enter, Works, Local, Busy
<1>2. CASE Findmsg(p, c)
  BY <1>1, <1>2, FindmsgShape DEF Shape
<1>3. CASE Rmid(p, c)
  BY <1>1, <1>3, RmidShape
<1>4. CASE \E where \in {"type", "set", "stat"} :
             Go(p, h, where, c) /\ UNCHANGED <<que, msgs, resVars>>
  <2>1. PICK where \in {"type", "set", "stat"} :
          Go(p, h, where, c) /\ UNCHANGED <<que, msgs, resVars>>
    BY <1>4
  <2>2. Others(p) /\ pc'[p] = where /\ where # "text"
    BY <2>1, EndsAlone
  <2> QED
    BY <1>1, <2>1, <2>2 DEF Shape, Same, resVars
<1> QED
  BY <1>2, <1>3, <1>4 DEF Enter

(* A step that only moves p, among places where it sends nothing. *)
LEMMA IdleShape ==
  ASSUME Inv, NEW p \in Proc, pc[p] \notin {"text"}, pc'[p] \notin {"text"},
         UNCHANGED <<msgs, resVars>>, Others(p),
         \A g \in Hdr : que[g].alloc => que'[g].alloc
  PROVE  Others(p) /\ Shape(p)
BY DEF Shape, Same, resVars

LEMMA LockBusyShape ==
  ASSUME Inv, NEW p \in Proc, pc[p] \notin Busy, NEW c,
         NEW where \in {"enter", "again"}, LockBusy(p, c, where)
  PROVE  Others(p) /\ Shape(p)
<1>1. Others(p) /\ pc'[p] = where
  BY DEF LockBusy, Others, Inv, TypeOK
<1> QED
  BY <1>1, IdleShape DEF LockBusy, Busy

LEMMA LeaveShape ==
  ASSUME Inv, NEW p \in Proc, pc[p] # "text", NEW h, NEW chans,
         Leave(p, h, chans), UNCHANGED <<msgs, resVars>>,
         \A g \in Hdr : que[g].alloc => que'[g].alloc
  PROVE  Others(p) /\ Shape(p)
BY EndsAlone, IdleShape

LEMMA StartShape ==
  ASSUME Inv, NEW p \in Proc, Begin(p) \/ Reenter(p) \/ Retry(p)
  PROVE  Others(p) /\ Shape(p)
<1>1. CASE Begin(p)
  <2>1. PICK c \in Calls : LockBusy(p, Fresh(c), "enter") \/ Enter(p, Fresh(c))
    BY <1>1 DEF Begin
  <2>2. Fresh(c) \in Local
    BY <2>1, ConstAssumption DEF Fresh, Request, Local, Chan, NoChan
  <2>3. pc[p] \notin Busy /\ wchan[p] = NoChan
    BY <1>1 DEF Begin, Busy, Inv, OnlyWaitersSleep
  <2> QED
    BY <2>1, <2>2, <2>3, EnterShape, LockBusyShape
<1>2. CASE Reenter(p) \/ Retry(p)
  <2>1. pc[p] \notin Busy /\ pc[p] # "text" /\ wchan[p] = NoChan /\ call[p] \in Local
    BY <1>2 DEF Reenter, Retry, Awake, Busy, Inv, TypeOK
  <2>2. ~lock[HdrOf(call[p].id)] => Works(p, HdrOf(call[p].id))
    BY <2>1, HdrOfType DEF Works, Local
  <2>3. CASE LockBusy(p, call[p], "enter") \/ LockBusy(p, call[p], "again")
    BY <2>1, <2>3, LockBusyShape
  <2>4. CASE Gone(p, call[p])
    BY <2>1, <2>4, LeaveShape DEF Gone
  <2>5. CASE Enter(p, call[p])
    BY <2>1, <2>5, EnterShape
  <2>6. CASE ~lock[HdrOf(call[p].id)] /\ Findmsg(p, call[p])
    BY <2>1, <2>2, <2>6, FindmsgShape DEF Shape
  <2>7. CASE ~lock[HdrOf(call[p].id)] /\ Exists(call[p].id) /\ Getres(p, call[p])
    BY <2>1, <2>2, <2>7, GetresShape
  <2> QED
    BY <1>2, <2>3, <2>4, <2>5, <2>6, <2>7 DEF Reenter, Retry
<1> QED
  BY <1>1, <1>2

LEMMA OutDoneShape ==
  ASSUME Inv, NEW p \in Proc, OutDone(p)
  PROVE  /\ Others(p) /\ Shape(p)
         /\ Removes(p, HdrOf(call[p].id), call[p].pos)
<1> DEFINE c == call[p]
           h == HdrOf(c.id)
<1>1. pc[p] = "out" /\ Works(p, h) /\ h \in Hdr
  BY BusyWorks DEF OutDone, Busy, Works
<1>2. c.pos \in DOMAIN msgs[h]
  BY <1>1 DEF Inv, LockedQueueExists, Holds
<1>3. \E chans : Leave(p, h, chans)
  BY DEF OutDone
<1>4. Others(p) /\ pc'[p] # "text"
  BY <1>3, EndsAlone
<1>5. \A g \in Hdr : que[g].alloc => que'[g].alloc
  BY <1>1 DEF OutDone, Inv, TypeOK
<1>6. /\ msgs' = [msgs EXCEPT ![h] = Without(msgs[h], c.pos)]
      /\ msgmap' = msgmap \cup TextAt(h, c.pos)
      /\ nfree' = nfree + 1 /\ pool' = pool
  BY DEF OutDone, mfree, TextAt
<1>7. Removes(p, h, c.pos)
  BY <1>1, <1>2, <1>4, <1>5, <1>6 DEF Removes
<1> QED
  BY <1>1, <1>2, <1>4, <1>7 DEF Shape

LEMMA SendShape ==
  ASSUME Inv, NEW p \in Proc, TypeCopied(p) \/ CopyIn(p) \/ InFails(p) \/ InDone(p)
  PROVE  Others(p) /\ Shape(p)
<1> DEFINE c == call[p]
           h == HdrOf(c.id)
<1>1. Works(p, h) /\ h \in Hdr /\ c \in Local
  BY BusyWorks DEF TypeCopied, CopyIn, InFails, InDone, Busy, Works
<1>2. pc[p] \in Busy => Exists(c.id) /\ que[h].alloc
  BY <1>1 DEF Inv, LockedQueueExists, Holds, Busy, Exists
<1>3. CASE TypeCopied(p)
  BY <1>1, <1>2, <1>3, GetresShape, LeaveShape DEF TypeCopied, Busy
<1>4. CASE CopyIn(p)
  <2>1. Others(p) /\ call'[p] = [c EXCEPT !.at = c.at + 1] /\ pc'[p] = "text"
    BY <1>4 DEF CopyIn, Others, Inv, TypeOK, Local
  <2>2. Copies(p)
    BY <1>4, <2>1 DEF CopyIn, Copies
  <2> QED
    BY <2>1, <2>2 DEF Shape
<1>5. CASE InFails(p)
  <2>1. Leave(p, h, HeaderWakes \cup MapWakes)
    BY <1>5 DEF InFails
  <2>2. Others(p) /\ pc'[p] # "text"
    BY <2>1, EndsAlone
  <2>3. GivesBack(p)
    BY <1>5, <2>2 DEF InFails, GivesBack, mfree, Taken
  <2> QED
    BY <2>2, <2>3 DEF Shape
<1>6. CASE InDone(p)
  <2>1. /\ Put(p, h, c) /\ que[h].alloc /\ UNCHANGED <<nfree, msgmap, pool>>
        /\ pc[p] = "text" /\ c.at = btoq(c.size)
    BY <1>2, <1>6 DEF InDone, Busy, resVars
  <2>2. Others(p) /\ \E g \in Hdr, m \in Message : Puts(p, g, m)
    BY <1>1, <2>1, PutShape
  <2> QED
    BY <2>2 DEF Shape
<1> QED
  BY <1>3, <1>4, <1>5, <1>6

LEMMA OtherShape ==
  ASSUME Inv, FreeIsEmpty, NEW p \in Proc,
         \/ msgget(p) \/ CopyOut(p) \/ OutFails(p) \/ SetDone(p) \/ StatDone(p)
         \/ Interrupted(p) \/ LockInterrupted(p) \/ Signal(p)
  PROVE  Others(p) /\ Shape(p)
<1> DEFINE h == HdrOf(call[p].id)
<1>0. h \in Hdr
  BY HdrOfType DEF Inv, TypeOK, Local
<1>1. CASE msgget(p)
  <2>1. PICK g \in Hdr :
          /\ ~que[g].alloc
          /\ que' = [que EXCEPT ![g].alloc = TRUE, ![g].qbytes = msgmnb]
          /\ msgs' = [msgs EXCEPT ![g] = <<>>]
    BY <1>1 DEF msgget
  <2>2. msgs' = msgs
    BY <2>1 DEF FreeIsEmpty, Inv, TypeOK
  <2>3. \A k \in Hdr : que[k].alloc => que'[k].alloc
    BY <2>1 DEF Inv, TypeOK
  <2>4. Others(p) /\ pc[p] = "user" /\ pc'[p] = "user" /\ UNCHANGED resVars
    BY <1>1 DEF msgget, Others
  <2> QED
    BY <2>2, <2>3, <2>4, IdleShape
<1>2. CASE CopyOut(p)
  <2>1. Others(p) /\ pc[p] = "out" /\ pc'[p] = "out" /\ UNCHANGED <<que, msgs, resVars>>
    BY <1>2 DEF CopyOut, Others, Inv, TypeOK
  <2> QED
    BY <2>1, IdleShape
<1>3. CASE OutFails(p) \/ StatDone(p)
  BY <1>3, LeaveShape DEF OutFails, StatDone
<1>4. CASE SetDone(p)
  <2>1. \A g \in Hdr : que[g].alloc => que'[g].alloc
    BY <1>0, <1>4 DEF SetDone, Inv, TypeOK
  <2> QED
    BY <1>4, <2>1, LeaveShape DEF SetDone
<1>5. CASE Interrupted(p)
  <2>1. \A g \in Hdr : que[g].alloc => que'[g].alloc
    BY <1>0, <1>5, KeepsAlloc DEF Interrupted
  <2>2. Others(p) /\ pc[p] = "wait" /\ pc'[p] = "user" /\ UNCHANGED <<msgs, resVars>>
    BY <1>5 DEF Interrupted, Others, Woken, Inv, TypeOK
  <2> QED
    BY <2>1, <2>2, IdleShape
<1>6. CASE LockInterrupted(p)
  <2>1. Others(p) /\ pc[p] # "text" /\ pc'[p] = "user" /\ UNCHANGED <<que, msgs, resVars>>
    BY <1>6 DEF LockInterrupted, Others, Inv, TypeOK
  <2> QED
    BY <2>1, IdleShape
<1>7. CASE Signal(p)
  <2>1. /\ Others(p) /\ pc[p] # "text" /\ pc'[p] = pc[p]
        /\ UNCHANGED <<que, msgs, resVars>>
    BY <1>7 DEF Signal, Others, Inv, TypeOK
  <2> QED
    BY <2>1, IdleShape
<1> QED
  BY <1>1, <1>2, <1>3, <1>4, <1>5, <1>6, <1>7

(* The action of process p. *)
Act(p) ==
  \/ msgget(p) \/ Begin(p) \/ Reenter(p) \/ Retry(p)
  \/ CopyOut(p) \/ OutFails(p) \/ OutDone(p)
  \/ TypeCopied(p) \/ CopyIn(p) \/ InFails(p) \/ InDone(p)
  \/ SetDone(p) \/ StatDone(p)
  \/ Interrupted(p) \/ LockInterrupted(p) \/ Signal(p)

LEMMA ActShape ==
  ASSUME Inv, FreeIsEmpty, NEW p \in Proc, Act(p)
  PROVE  Others(p) /\ Shape(p)
BY StartShape, OutDoneShape, SendShape, OtherShape DEF Act

LEMMA NextText ==
  ASSUME Inv, Inv', TextInv, [Next]_vars
  PROVE  TextInv'
<1>1. CASE UNCHANGED vars
  <2>1. UNCHANGED <<que, msgs, msgmap, pool, pc, call>>
    BY <1>1 DEF vars, resVars
  <2>2. \A h \in Hdr : \A i : TextAt(h, i)' = TextAt(h, i)
    BY <2>1 DEF TextAt
  <2>3. Sending' = Sending /\ \A p \in Sending : Taken(p)' = Taken(p)
    BY <2>1 DEF Sending, Taken
  <2>4. FreeIsEmpty' /\ Covered' /\ CopiedIn' /\ Intact'
    BY <2>1, <2>2, <2>3 DEF TextInv, FreeIsEmpty, Covered, CopiedIn, Intact
  <2>5. Apart'
    BY <2>1, <2>2, <2>3 DEF TextInv, Apart
  <2> QED
    BY <2>4, <2>5 DEF TextInv
<1>2. CASE Next
  <2>1. PICK p \in Proc : Act(p)
    BY <1>2 DEF Next, Act
  <2> QED
    BY <2>1, ActShape, ShapeText DEF TextInv
<1> QED
  BY <1>1, <1>2

LEMMA InitText ==
  ASSUME Init
  PROVE  TextInv
<1>1. \A h \in Hdr : msgs[h] = <<>> /\ DOMAIN msgs[h] = {}
  BY DEF Init
<1>2. Sending = {}
  BY DEF Init, Sending
<1>3. msgmap = Seg
  BY DEF Init
<1>4. FreeIsEmpty /\ Covered /\ CopiedIn /\ Intact
  BY <1>1, <1>2, <1>3 DEF FreeIsEmpty, Covered, CopiedIn, Intact
<1>5. Apart
  BY <1>1, <1>2 DEF Apart
<1> QED
  BY <1>4, <1>5 DEF TextInv

LEMMA TextInvariance == Spec => [](Inv /\ TextInv)
<1>1. Init => Inv /\ TextInv
  BY InitInv, InitText
<1>2. Inv /\ TextInv /\ [Next]_vars => (Inv /\ TextInv)'
  BY NextInv, NextText
<1> QED
  BY <1>1, <1>2, PTL DEF Spec

LEMMA QueuedIs ==
  /\ \A x \in Queued : /\ x = <<x[1], x[2]>>
                       /\ x[1] \in Hdr /\ x[2] \in DOMAIN msgs[x[1]]
                       /\ TextOf(x) = TextAt(x[1], x[2])
  /\ \A h \in Hdr : \A i \in DOMAIN msgs[h] : <<h, i>> \in Queued
BY DEF Queued, TextOf, TextAt

(* The text of every message on a queue is what its sender handed over:    *)
(* the first fit of msgsnd and the freeing in msgfree and in the failed    *)
(* copy keep texts apart, so that no copy in goes over another message.    *)
THEOREM TextsStayIntact == Spec => []TextIntact
<1>1. TextInv => TextIntact
  BY QueuedIs DEF TextInv, Intact, TextIntact
<1> QED
  BY <1>1, TextInvariance, PTL

-----------------------------------------------------------------------------
(* Every segment is free, or in the text of one message or of one sender:  *)
(* no way out of msgsnd, msgrcv and msgctl gives a segment back twice or   *)
(* forgets one.                                                            *)
THEOREM SegmentsNeverLost == Spec => []SegmentsAccounted
<1>1. Inv /\ TextInv => SegmentsAccounted
  <2> DEFINE A == UNION {TextOf(x) : x \in Queued}
             B == UNION {Taken(p) : p \in Sending}
  <2> SUFFICES ASSUME Inv, TextInv
               PROVE  SegmentsAccounted
    OBVIOUS
  <2>1. Seg = msgmap \cup A \cup B
    <3>1. \A s \in Seg : \/ s \in msgmap
                         \/ \E x \in Queued : s \in TextOf(x)
                         \/ \E p \in Sending : s \in Taken(p)
      <4> SUFFICES ASSUME NEW s \in Seg,
                          \E h \in Hdr : \E i \in DOMAIN msgs[h] : s \in TextAt(h, i)
                   PROVE  \E x \in Queued : s \in TextOf(x)
        BY DEF TextInv, Covered
      <4>1. PICK h \in Hdr : \E i \in DOMAIN msgs[h] : s \in TextAt(h, i)
        OBVIOUS
      <4>2. PICK i \in DOMAIN msgs[h] : s \in TextAt(h, i)
        BY <4>1
      <4>3. <<h, i>> \in Queued /\ TextOf(<<h, i>>) = TextAt(h, i)
        BY QueuedIs DEF TextOf, TextAt
      <4> QED
        BY <4>2, <4>3
    <3>2. msgmap \subseteq Seg
      BY DEF Inv, TypeOK
    <3>3. \A x \in Queued : TextOf(x) \subseteq Seg
      BY QueuedIs DEF Inv, MsgsPlaced, TextAt
    <3>4. \A p \in Sending : Taken(p) \subseteq Seg
      BY DEF Inv, SendersPlaced, Sending
    <3>5. \A s : s \in A <=> \E x \in Queued : s \in TextOf(x)
      OBVIOUS
    <3>6. \A s : s \in B <=> \E p \in Sending : s \in Taken(p)
      OBVIOUS
    <3> HIDE DEF A, B
    <3>7. Seg = msgmap \cup A \cup B
      <4>1. \A s \in Seg : s \in msgmap \/ s \in A \/ s \in B
        BY <3>1, <3>5, <3>6
      <4>2. (\A s \in A : s \in Seg) /\ (\A s \in B : s \in Seg)
        BY <3>3, <3>4, <3>5, <3>6
      <4>3. \A s : s \in Seg <=> s \in msgmap \cup A \cup B
        BY <3>2, <4>1, <4>2
      <4> QED
        BY <4>3
    <3> QED
      BY <3>7
  <2>2. \A x \in Queued :
          /\ TextOf(x) \cap msgmap = {}
          /\ \A p \in Sending : TextOf(x) \cap Taken(p) = {}
    BY QueuedIs DEF TextInv, Apart
  <2>3. \A x, y \in Queued : x # y => TextOf(x) \cap TextOf(y) = {}
    <3> SUFFICES ASSUME NEW x \in Queued, NEW y \in Queued, x # y
                 PROVE  TextOf(x) \cap TextOf(y) = {}
      OBVIOUS
    <3>1. x[1] # y[1] \/ x[2] # y[2]
      BY QueuedIs
    <3> QED
      BY <3>1, QueuedIs DEF TextInv, Apart
  <2>4. \A p \in Sending :
          /\ Taken(p) \cap msgmap = {}
          /\ \A q \in Sending \ {p} : Taken(p) \cap Taken(q) = {}
    BY DEF TextInv, Apart
  <2>5. \A x \in Queued :
          /\ TextOf(x) \cap msgmap = {}
          /\ \A y \in Queued \ {x} : TextOf(x) \cap TextOf(y) = {}
          /\ \A p \in Sending : TextOf(x) \cap Taken(p) = {}
    BY <2>2, <2>3
  <2> QED
    BY <2>1, <2>4, <2>5 DEF SegmentsAccounted
<1> QED
  BY <1>1, TextInvariance, PTL

(* The messages and the senders are finitely many, and each has a header. *)
HeaderInv ==
  IsFiniteSet(Queued) /\ IsFiniteSet(Sending) /\ HeadersAccounted

LEMMA SendersChange ==
  ASSUME NEW p \in Proc, Others(p)
  PROVE  /\ pc[p] # "text" /\ pc'[p] # "text" => Sending' = Sending
         /\ pc[p] = "text" /\ pc'[p] = "text" => Sending' = Sending
         /\ pc[p] # "text" /\ pc'[p] = "text" =>
              p \notin Sending /\ Sending' = Sending \cup {p}
         /\ pc[p] = "text" /\ pc'[p] # "text" =>
              p \in Sending /\ Sending' = Sending \ {p}
BY SendersOf

(* A set loses or gains one element. *)
LEMMA OneMore ==
  ASSUME NEW S, IsFiniteSet(S), NEW x, x \notin S
  PROVE  /\ IsFiniteSet(S \cup {x}) /\ Cardinality(S) \in Nat
         /\ Cardinality(S \cup {x}) = Cardinality(S) + 1
BY FS_AddElement, FS_CardinalityType

LEMMA OneLess ==
  ASSUME NEW S, IsFiniteSet(S), NEW x \in S
  PROVE  /\ IsFiniteSet(S \ {x}) /\ Cardinality(S) \in Nat
         /\ Cardinality(S \ {x}) = Cardinality(S) - 1
BY FS_RemoveElement, FS_CardinalityType

(* a more messages and b more senders have a header. *)
Moves(a, b) ==
  /\ IsFiniteSet(Queued') /\ Cardinality(Queued') = Cardinality(Queued) + a
  /\ IsFiniteSet(Sending') /\ Cardinality(Sending') = Cardinality(Sending) + b
  /\ nfree' = nfree - a - b

LEMMA HeaderCount ==
  ASSUME HeaderInv, nfree \in Nat, NEW a \in Int, NEW b \in Int, Moves(a, b)
  PROVE  HeaderInv'
<1> USE DEF Moves
<1>1. PICK x \in Nat, y \in Nat : x = Cardinality(Queued) /\ y = Cardinality(Sending)
  BY FS_CardinalityType DEF HeaderInv
<1>2. nfree + x + y = msgtql
  BY <1>1 DEF HeaderInv, HeadersAccounted
<1>3. Cardinality(Queued') = x + a /\ Cardinality(Sending') = y + b
  BY <1>1
<1>4. (nfree - a - b) + (x + a) + (y + b) = nfree + x + y
  BY <1>1
<1>5. nfree' + Cardinality(Queued') + Cardinality(Sending') = msgtql
  BY <1>2, <1>3, <1>4
<1> QED
  BY <1>5 DEF HeaderInv, HeadersAccounted

LEMMA QueuedSame ==
  ASSUME msgs' = msgs
  PROVE  Queued' = Queued
BY DEF Queued

LEMMA ShapeHeaders ==
  ASSUME Inv, HeaderInv, NEW p \in Proc, Others(p), Shape(p)
  PROVE  HeaderInv'
<1>1. nfree \in Nat /\ msgs \in [Hdr -> Seq(Message)]
  BY DEF Inv, TypeOK
<1>2. /\ IsFiniteSet(Queued) /\ Cardinality(Queued) \in Nat
      /\ IsFiniteSet(Sending) /\ Cardinality(Sending) \in Nat
  BY FS_CardinalityType DEF HeaderInv
<1>3. \A x \in Nat : x = x + 0
  OBVIOUS
<1>4. \A a, b \in Int : a = 0 => nfree - a - b = nfree - b
  BY <1>1
<1>5. \A a, b \in Int : b = 0 => nfree - a - b = nfree - a
  BY <1>1
<1>6. CASE Same(p) \/ Copies(p)
  <2>1. Queued' = Queued /\ Sending' = Sending /\ nfree' = nfree
    BY <1>6, QueuedSame, SendersChange DEF Same, Copies
  <2>2. nfree' = nfree - 0 - 0
    BY <1>1, <2>1
  <2>3. Moves(0, 0)
    BY <1>2, <1>3, <2>1, <2>2 DEF Moves
  <2> QED
    BY <1>1, <2>3, HeaderCount
<1>7. CASE Takes(p)
  <2>1. Queued' = Queued /\ p \notin Sending /\ Sending' = Sending \cup {p}
    BY <1>7, QueuedSame, SendersChange DEF Takes
  <2>2. nfree' = nfree - 0 - 1
    BY <1>1, <1>7 DEF Takes
  <2>3. IsFiniteSet(Sending') /\ Cardinality(Sending') = Cardinality(Sending) + 1
    BY <1>2, <2>1, OneMore
  <2>4. Moves(0, 1)
    BY <1>2, <1>3, <2>1, <2>2, <2>3 DEF Moves
  <2> QED
    BY <1>1, <2>4, HeaderCount
<1>8. CASE GivesBack(p)
  <2>1. Queued' = Queued /\ p \in Sending /\ Sending' = Sending \ {p}
    BY <1>8, QueuedSame, SendersChange DEF GivesBack
  <2>2. nfree' = nfree - 0 - (-1)
    BY <1>1, <1>8 DEF GivesBack
  <2>3. IsFiniteSet(Sending') /\ Cardinality(Sending') = Cardinality(Sending) + (-1)
    BY <1>2, <2>1, OneLess
  <2>4. Moves(0, -1)
    BY <1>2, <1>3, <2>1, <2>2, <2>3 DEF Moves
  <2> QED
    BY <1>1, <2>4, HeaderCount
<1>9. ASSUME NEW h \in Hdr, NEW m \in Message, Puts(p, h, m)
      PROVE  HeaderInv'
  <2>1. PICK n \in Nat : n = Len(msgs[h]) /\ DOMAIN msgs[h] = 1 .. n
    BY <1>1
  <2>2. msgs[h] \in Seq(Message) /\ DOMAIN Append(msgs[h], m) = 1 .. n + 1
    BY <1>1, <2>1
  <2>3. /\ DOMAIN msgs'[h] = (1 .. n) \cup {n + 1}
        /\ \A g \in Hdr \ {h} : msgs'[g] = msgs[g]
    BY <1>1, <1>9, <2>2 DEF Puts
  <2>4. <<h, n + 1>> \notin Queued /\ Queued' = Queued \cup {<<h, n + 1>>}
    <3>1. \A g, i : <<g, i>> \in Queued <=> g \in Hdr /\ i \in DOMAIN msgs[g]
      BY DEF Queued
    <3>2. \A g, i : <<g, i>> \in Queued' <=> g \in Hdr /\ i \in DOMAIN msgs'[g]
      BY DEF Queued
    <3>3. \A x \in Queued : x = <<x[1], x[2]>>
      BY DEF Queued
    <3>4. \A x \in Queued' : x = <<x[1], x[2]>>
      BY DEF Queued
    <3>5. n + 1 \notin DOMAIN msgs[h]
      BY <2>1
    <3>6. \A g, i : <<g, i>> \in Queued' <=> <<g, i>> \in Queued \/ <<g, i>> = <<h, n + 1>>
      <4> SUFFICES ASSUME NEW g, NEW i
                   PROVE  (g \in Hdr /\ i \in DOMAIN msgs'[g]) <=>
                            (g \in Hdr /\ i \in DOMAIN msgs[g]) \/ (g = h /\ i = n + 1)
        BY <3>1, <3>2
      <4>1. CASE g = h
        BY <4>1, <2>1, <2>3
      <4>2. CASE g # h
        BY <4>2, <2>3
      <4> QED
        BY <4>1, <4>2
    <3>7. Queued' \subseteq Queued \cup {<<h, n + 1>>}
      BY <3>4, <3>6
    <3>8. Queued \cup {<<h, n + 1>>} \subseteq Queued'
      BY <3>3, <3>6
    <3> QED
      BY <3>1, <3>5, <3>7, <3>8
  <2>5. IsFiniteSet(Queued') /\ Cardinality(Queued') = Cardinality(Queued) + 1
    BY <1>2, <2>4, OneMore
  <2>6. CASE pc[p] = "text"
    <3>1. p \in Sending /\ Sending' = Sending \ {p} /\ nfree' = nfree
      BY <1>9, <2>6, SendersChange DEF Puts
    <3>2. IsFiniteSet(Sending') /\ Cardinality(Sending') = Cardinality(Sending) + (-1)
      BY <1>2, <3>1, OneLess
    <3>3. nfree' = nfree - 1 - (-1)
      BY <1>1, <3>1
    <3>4. Moves(1, -1)
      BY <2>5, <3>2, <3>3 DEF Moves
    <3> QED
      BY <1>1, <3>4, HeaderCount
  <2>7. CASE pc[p] # "text"
    <3>1. Sending' = Sending /\ nfree' = nfree - 1
      BY <1>9, <2>7, SendersChange DEF Puts
    <3>2. nfree' = nfree - 1 - 0
      BY <1>1, <3>1
    <3>3. Moves(1, 0)
      BY <1>2, <1>3, <2>5, <3>1, <3>2 DEF Moves
    <3> QED
      BY <1>1, <3>3, HeaderCount
  <2> QED
    BY <2>6, <2>7
<1>10. ASSUME NEW h \in Hdr, NEW i \in DOMAIN msgs[h], Removes(p, h, i)
       PROVE  HeaderInv'
  <2>1. PICK n \in Nat : n = Len(msgs[h]) /\ DOMAIN msgs[h] = 1 .. n
    BY <1>1
  <2>2. /\ DOMAIN msgs'[h] = 1 .. n - 1 /\ i \in 1 .. n
        /\ \A g \in Hdr \ {h} : msgs'[g] = msgs[g]
    <3>1. Without(msgs[h], i) \in Seq(Message) /\ Len(Without(msgs[h], i)) = n - 1
      BY <1>1, <2>1, WithoutLemma
    <3>2. DOMAIN Without(msgs[h], i) = 1 .. n - 1
      BY <3>1
    <3> QED
      BY <1>1, <1>10, <2>1, <3>2 DEF Removes
  <2>3. n \in 1 .. n /\ 1 .. n - 1 = (1 .. n) \ {n}
    BY <2>2
  <2>4. <<h, n>> \in Queued /\ Queued' = Queued \ {<<h, n>>}
    <3>1. \A g, j : <<g, j>> \in Queued <=> g \in Hdr /\ j \in DOMAIN msgs[g]
      BY DEF Queued
    <3>2. \A g, j : <<g, j>> \in Queued' <=> g \in Hdr /\ j \in DOMAIN msgs'[g]
      BY DEF Queued
    <3>3. \A x \in Queued : x = <<x[1], x[2]>>
      BY DEF Queued
    <3>4. \A x \in Queued' : x = <<x[1], x[2]>>
      BY DEF Queued
    <3>5. \A g, j : <<g, j>> \in Queued' <=> <<g, j>> \in Queued /\ <<g, j>> # <<h, n>>
      BY <2>1, <2>2, <2>3, <3>1, <3>2
    <3>6. Queued' \subseteq Queued \ {<<h, n>>}
      BY <3>4, <3>5
    <3>7. Queued \ {<<h, n>>} \subseteq Queued'
      BY <3>3, <3>5
    <3> QED
      BY <2>1, <2>3, <3>1, <3>6, <3>7
  <2>5. IsFiniteSet(Queued') /\ Cardinality(Queued') = Cardinality(Queued) + (-1)
    BY <1>2, <2>4, OneLess
  <2>6. Sending' = Sending /\ nfree' = nfree - (-1) - 0
    BY <1>1, <1>10, SendersChange DEF Removes
  <2>7. Moves(-1, 0)
    BY <1>2, <1>3, <2>5, <2>6 DEF Moves
  <2> QED
    BY <1>1, <2>7, HeaderCount
<1>11. ASSUME NEW h \in Hdr, Clears(p, h)
       PROVE  HeaderInv'
  <2>1. PICK n \in Nat : n = Len(msgs[h]) /\ DOMAIN msgs[h] = 1 .. n
    BY <1>1
  <2> DEFINE gone == {h} \X (1 .. n)
  <2>2. /\ DOMAIN msgs'[h] = {}
        /\ \A g \in Hdr \ {h} : msgs'[g] = msgs[g]
    BY <1>1, <1>11 DEF Clears
  <2>3. gone \subseteq Queued /\ Queued' = Queued \ gone
    <3>1. \A g, j : <<g, j>> \in Queued <=> g \in Hdr /\ j \in DOMAIN msgs[g]
      BY DEF Queued
    <3>2. \A g, j : <<g, j>> \in Queued' <=> g \in Hdr /\ j \in DOMAIN msgs'[g]
      BY DEF Queued
    <3>3. \A x \in Queued : x = <<x[1], x[2]>>
      BY DEF Queued
    <3>4. \A x \in Queued' : x = <<x[1], x[2]>>
      BY DEF Queued
    <3>5. \A g, j : <<g, j>> \in gone <=> g = h /\ j \in 1 .. n
      OBVIOUS
    <3>6. \A x \in gone : x = <<x[1], x[2]>>
      OBVIOUS
    <3> HIDE DEF gone
    <3>7. \A g, j : <<g, j>> \in Queued' <=> <<g, j>> \in Queued /\ <<g, j>> \notin gone
      BY <2>1, <2>2, <3>1, <3>2, <3>5
    <3>8. Queued' \subseteq Queued \ gone
      BY <3>4, <3>7
    <3>9. Queued \ gone \subseteq Queued'
      BY <3>3, <3>7
    <3>10. gone \subseteq Queued
      BY <2>1, <3>1, <3>5, <3>6
    <3> QED
      BY <3>8, <3>9, <3>10
  <2>4. IsFiniteSet(gone) /\ Cardinality(gone) = n
    <3>1. IsFiniteSet({h}) /\ Cardinality({h}) = 1
      BY FS_Singleton
    <3>2. 1 \in Int /\ n \in Int
      OBVIOUS
    <3>3. IsFiniteSet(1 .. n) /\ Cardinality(1 .. n) = n
      BY <3>2, FS_Interval
    <3>4. IsFiniteSet(gone) /\ Cardinality(gone) = Cardinality({h}) * Cardinality(1 .. n)
      BY <3>1, <3>3, FS_Product
    <3>5. Cardinality({h}) * Cardinality(1 .. n) = n
      BY <3>1, <3>3
    <3> QED
      BY <3>4, <3>5
  <2>5. /\ IsFiniteSet(Queued')
        /\ Cardinality(Queued') = Cardinality(Queued) + (-n)
    <3>1. IsFiniteSet(Queued \ gone)
      BY <1>2, FS_Difference
    <3>2. Cardinality(Queued \ gone) = Cardinality(Queued) - Cardinality(Queued \cap gone)
      BY <1>2, FS_Difference
    <3>3. Queued \cap gone = gone
      BY <2>3
    <3> HIDE DEF gone
    <3>4. Cardinality(Queued') = Cardinality(Queued) - n
      BY <2>3, <2>4, <3>2, <3>3
    <3> QED
      BY <1>2, <2>3, <3>1, <3>4
  <2>6. Sending' = Sending /\ nfree' = nfree - (-n) - 0
    BY <1>1, <1>11, <2>1, SendersChange DEF Clears
  <2>7. Moves(-n, 0)
    BY <1>2, <1>3, <2>5, <2>6 DEF Moves
  <2> QED
    BY <1>1, <2>7, HeaderCount
<1> QED
  BY <1>6, <1>7, <1>8, <1>9, <1>10, <1>11 DEF Shape

(* Every message header is on the list of free headers or belongs to one   *)
(* message or one sender, whatever way msgsnd, msgrcv and msgctl take.     *)
THEOREM HeadersNeverLost == Spec => []HeadersAccounted
<1>1. Init => HeaderInv
  <2> SUFFICES ASSUME Init
               PROVE  HeaderInv
    OBVIOUS
  <2>1. Queued = {} /\ Sending = {}
    BY DEF Init, Queued, Sending
  <2>2. nfree = msgtql /\ msgtql \in Nat
    BY ConstAssumption DEF Init
  <2> QED
    BY <2>1, <2>2, FS_EmptySet DEF HeaderInv, HeadersAccounted
<1>2. Inv /\ TextInv /\ HeaderInv /\ [Next]_vars => HeaderInv'
  <2> SUFFICES ASSUME Inv, TextInv, HeaderInv, [Next]_vars
               PROVE  HeaderInv'
    OBVIOUS
  <2>1. CASE UNCHANGED vars
    BY <2>1 DEF vars, resVars, HeaderInv, HeadersAccounted, Queued, Sending
  <2>2. CASE Next
    <3>1. PICK p \in Proc : Act(p)
      BY <2>2 DEF Next, Act
    <3> QED
      BY <3>1, ActShape, ShapeHeaders DEF TextInv
  <2> QED
    BY <2>1, <2>2
<1>3. HeaderInv => HeadersAccounted
  BY DEF HeaderInv
<1> QED
  BY <1>1, <1>2, <1>3, TextInvariance, PTL DEF Spec

-----------------------------------------------------------------------------
(* A message that is being copied out is the one msgrcv must take, and     *)
(* what has been copied out is its text; nothing is copied out before.     *)
PickInv ==
  \A p \in Proc :
    LET c == call[p]
        q == msgs[HdrOf(c.id)]
    IN  /\ pc[p] # "out" => c.got = <<>>
        /\ pc[p] = "out" =>
             /\ IsPick(q, c.type, c.pos)
             /\ \A k \in 1 .. Len(c.got) : c.got[k] = q[c.pos].text

(* msgrcv chooses a message. *)
Chooses(p) ==
  /\ pc'[p] = "out" /\ msgs' = msgs
  /\ call'[p].got = <<>>
  /\ IsPick(msgs[HdrOf(call'[p].id)], call'[p].type, call'[p].pos)

(* What a step does to the message that p receives. *)
Got(p) ==
  \/ pc'[p] # "out" /\ call'[p].got = <<>>
  \/ CopyOut(p)
  \/ Chooses(p)

LEMMA SleepGot ==
  ASSUME Inv, NEW p \in Proc, NEW h, NEW chan, NEW chans, NEW c \in Local,
         c.got = <<>>, SleepOn(p, h, chan, c, chans)
  PROVE  Got(p)
<1> DEFINE d == [c EXCEPT !.on = chan]
<1>1. d.got = <<>>
  BY DEF Local
<1>2. pc'[p] = "wait" /\ call'[p] = d
  BY DEF SleepOn, Inv, TypeOK
<1> HIDE DEF d
<1> QED
  BY <1>1, <1>2 DEF Got

LEMMA GoGot ==
  ASSUME Inv, NEW p \in Proc, NEW h, NEW where, NEW c,
         c.got = <<>>, where # "out", Go(p, h, where, c)
  PROVE  Got(p)
BY DEF Go, Inv, TypeOK, Got

LEMMA EndGot ==
  ASSUME Inv, NEW p \in Proc, NEW h, NEW chans, Leave(p, h, chans)
  PROVE  Got(p)
<1>1. NoCall.got = <<>>
  BY DEF NoCall, Fresh
<1> QED
  BY <1>1, EndsAlone DEF Got

LEMMA FindmsgGot ==
  ASSUME Inv, NEW p \in Proc, NEW c \in Local, c.got = <<>>, Findmsg(p, c)
  PROVE  Got(p)
<1> DEFINE h == HdrOf(c.id)
<1>1. CASE SleepOn(p, h, <<"rcv", h>>, c, {}) \/ Leave(p, h, {})
  BY <1>1, SleepGot, EndGot
<1>2. ASSUME NEW i \in Matches(msgs[h], c.type), IsPick(msgs[h], c.type, i),
             Go(p, h, "out", [c EXCEPT !.pos = i]), msgs' = msgs
      PROVE  Got(p)
  <2> DEFINE d == [c EXCEPT !.pos = i]
  <2>1. d.got = <<>> /\ d.id = c.id /\ d.type = c.type /\ d.pos = i
    BY DEF Local
  <2>2. Go(p, h, "out", d)
    BY <1>2
  <2> HIDE DEF d
  <2>3. pc'[p] = "out" /\ call'[p] = d
    BY <2>2, EndsAlone
  <2> QED
    BY <1>2, <2>1, <2>3 DEF Got, Chooses
<1> QED
  BY <1>1, <1>2 DEF Findmsg

LEMMA GetresGot ==
  ASSUME Inv, NEW p \in Proc, NEW c \in Local, c.got = <<>>, Getres(p, c)
  PROVE  Got(p)
<1> DEFINE h == HdrOf(c.id)
<1>1. CASE \E chan, chans : Wait(p, h, c, chan, chans)
  <2>1. PICK chan, chans : Leave(p, h, chans) \/ SleepOn(p, h, chan, c, chans)
    BY <1>1 DEF Wait
  <2> QED
    BY <2>1, SleepGot, EndGot
<1>2. CASE Put(p, h, c)
  BY <1>2, EndGot DEF Put
<1>3. CASE Allocate(p, c)
  <2>1. PICK spot : Go(p, h, "text", [c EXCEPT !.spot = spot, !.at = 0])
    BY <1>3 DEF Allocate
  <2> DEFINE d == [c EXCEPT !.spot = spot, !.at = 0]
  <2>2. d.got = <<>>
    BY DEF Local
  <2>3. Go(p, h, "text", d)
    BY <2>1
  <2> HIDE DEF d
  <2> QED
    BY <2>2, <2>3, GoGot
<1> QED
  BY <1>1, <1>2, <1>3 DEF Getres, QueueFull, NoHeader, NoSpace, PutEmpty

LEMMA EnterGot ==
  ASSUME Inv, NEW p \in Proc, NEW c \in Local, c.got = <<>>, Enter(p, c)
  PROVE  Got(p)
<1>1. CASE \E chans : Leave(p, HdrOf(c.id), chans)
  BY <1>1, EndGot
<1>2. CASE \E where \in {"type", "set", "stat"} : Go(p, HdrOf(c.id), where, c)
  BY <1>2, GoGot
<1> QED
  BY <1>1, <1>2, FindmsgGot DEF Enter, Rmid

LEMMA ActGot ==
  ASSUME Inv, NEW p \in Proc, pc[p] # "out" => call[p].got = <<>>, Act(p)
  PROVE  Got(p)
<1> DEFINE c == call[p]
           h == HdrOf(c.id)
<1>0. c \in Local
  BY DEF Inv, TypeOK
<1>1. ASSUME NEW d \in Local, d.got = <<>>, NEW where \in {"enter", "again"},
             LockBusy(p, d, where)
      PROVE  Got(p)
  BY <1>1 DEF LockBusy, Got, Inv, TypeOK
<1>2. CASE Begin(p)
  <2>1. PICK r \in Calls : LockBusy(p, Fresh(r), "enter") \/ Enter(p, Fresh(r))
    BY <1>2 DEF Begin
  <2>2. Fresh(r) \in Local /\ Fresh(r).got = <<>>
    BY <2>1, ConstAssumption DEF Fresh, Request, Local, Chan, NoChan
  <2> QED
    BY <2>1, <2>2, <1>1, EnterGot
<1>3. CASE Reenter(p) \/ Retry(p)
  <2>1. c.got = <<>>
    BY <1>3 DEF Reenter, Retry
  <2> QED
    BY <1>0, <1>1, <1>3, <2>1, EnterGot, FindmsgGot, GetresGot, EndGot
      DEF Reenter, Retry, Gone
<1>4. CASE TypeCopied(p)
  BY <1>0, <1>4, GetresGot, EndGot DEF TypeCopied
<1>5. CASE \/ OutFails(p) \/ OutDone(p) \/ InFails(p) \/ InDone(p)
           \/ SetDone(p) \/ StatDone(p)
  <2>1. \E g, chans : Leave(p, g, chans)
    BY <1>5 DEF OutFails, OutDone, InFails, InDone, Put, SetDone, StatDone
  <2> QED
    BY <2>1, EndGot
<1>6. CASE CopyOut(p)
  BY <1>6 DEF Got
<1>7. CASE CopyIn(p)
  BY <1>0, <1>7 DEF CopyIn, Got, Local, Inv, TypeOK
<1>8. CASE msgget(p) \/ Signal(p)
  BY <1>8 DEF msgget, Signal, Got
<1>9. CASE Interrupted(p) \/ LockInterrupted(p)
  BY <1>9 DEF Interrupted, LockInterrupted, Got, NoCall, Fresh, Inv, TypeOK
<1> QED
  BY <1>2, <1>3, <1>4, <1>5, <1>6, <1>7, <1>8, <1>9 DEF Act

(* One more segment is copied out, from the text of the message. *)
LEMMA CopyOutPick ==
  ASSUME Inv, TextInv, NEW p \in Proc, CopyOut(p), pc[p] = "out",
         \A k \in 1 .. Len(call[p].got) :
           call[p].got[k] = msgs[HdrOf(call[p].id)][call[p].pos].text
  PROVE  /\ call'[p].id = call[p].id /\ call'[p].type = call[p].type
         /\ call'[p].pos = call[p].pos
         /\ \A k \in 1 .. Len(call'[p].got) :
              call'[p].got[k] = msgs[HdrOf(call[p].id)][call[p].pos].text
<1> DEFINE c == call[p]
           h == HdrOf(c.id)
           m == msgs[h][c.pos]
<1>1. h \in Hdr /\ c \in Local /\ c.pos \in DOMAIN msgs[h]
  <2>1. c \in Local /\ h \in Hdr
    BY HdrOfType DEF Inv, TypeOK, Local
  <2> QED
    BY <2>1 DEF Inv, LockedQueueExists, Holds
<1>2. m \in Message /\ m.ts \in Nat /\ m.spot \in Nat
  BY <1>1, MsgParts DEF Inv, TypeOK
<1>3. c.size \in Nat /\ c.got \in Seq(Text \cup {NoText})
  BY <1>1 DEF Local
<1>4. PICK n \in Nat : n = Len(c.got)
  BY <1>3
<1>5. PICK z \in Nat : z = btoq(m.ts)
  BY <1>2, BtoqType
<1>6. n < z
  <2>1. Shorter(c.size, m.ts) \in Nat /\ Shorter(c.size, m.ts) <= m.ts
    BY <1>2, <1>3 DEF Shorter
  <2>2. PICK y \in Nat : y = btoq(Shorter(c.size, m.ts))
    BY <2>1, BtoqType
  <2>3. y <= z
    BY <1>2, <1>5, <2>1, <2>2, BtoqMonotone
  <2>4. n < y
    BY <1>4, <2>2 DEF CopyOut, OutSegs
  <2> QED
    BY <2>3, <2>4
<1>7. m.spot + n \in TextAt(h, c.pos)
  BY <1>2, <1>5, <1>6 DEF TextAt, Segs
<1>8. pool[m.spot + n] = m.text
  BY <1>1, <1>7 DEF TextInv, Intact
<1>9. call'[p] = [c EXCEPT !.got = Append(c.got, pool[m.spot + n])]
  BY <1>4 DEF CopyOut, Inv, TypeOK, Local
<1> HIDE DEF m
<1>10. /\ call'[p].id = c.id /\ call'[p].type = c.type /\ call'[p].pos = c.pos
       /\ call'[p].got = Append(c.got, m.text)
  BY <1>1, <1>8, <1>9 DEF Local
<1>11. \A k \in 1 .. n + 1 : Append(c.got, m.text)[k] = m.text
  <2>1. \A k \in 1 .. n : Append(c.got, m.text)[k] = m.text
    BY <1>3, <1>4 DEF m
  <2>3. \A S : \A r \in Seq(S) : \A e \in S : Append(r, e)[Len(r) + 1] = e
    OBVIOUS
  <2>4. m.text \in Text \cup {NoText}
    BY <1>2 DEF Message
  <2>2. Append(c.got, m.text)[n + 1] = m.text
    <3>1. Append(c.got, m.text)[Len(c.got) + 1] = m.text
      BY <1>3, <2>3, <2>4
    <3>2. \A a, b : a = b => Append(c.got, m.text)[a] = Append(c.got, m.text)[b]
      OBVIOUS
    <3>3. n + 1 = Len(c.got) + 1
      BY <1>4
    <3> QED
      BY <3>1, <3>2, <3>3
  <2>5. \A k \in 1 .. n + 1 : k \in 1 .. n \/ k = n + 1
    OBVIOUS
  <2> QED
    BY <2>1, <2>2, <2>5
<1>12. Len(Append(c.got, m.text)) = n + 1
  BY <1>3, <1>4
<1> QED
  BY <1>10, <1>11, <1>12 DEF m

LEMMA NextPick ==
  ASSUME Inv, TextInv, PickInv, Next
  PROVE  PickInv'
<1>1. PICK p \in Proc : Act(p)
  BY DEF Next, Act
<1>2. Others(p)
  BY <1>1, ActShape DEF TextInv
<1>3. Got(p)
  BY <1>1, ActGot DEF PickInv
<1>4. Untouched
  BY NextUntouched
<1> DEFINE Good(r) ==
             /\ pc[r] # "out" => call[r].got = <<>>
             /\ pc[r] = "out" =>
                  /\ IsPick(msgs[HdrOf(call[r].id)], call[r].type, call[r].pos)
                  /\ \A k \in 1 .. Len(call[r].got) :
                       call[r].got[k] = msgs[HdrOf(call[r].id)][call[r].pos].text
<1>5. \A r \in Proc : Good(r)
  BY DEF PickInv
<1>6. \A r \in Proc : HdrOf(call[r].id) \in Hdr
  BY HdrOfType DEF Inv, TypeOK, Local
<1>7. ASSUME NEW r \in Proc, r # p
      PROVE  Good(r)'
  <2>1. pc'[r] = pc[r] /\ call'[r] = call[r] /\ HdrOf(call'[r].id) = HdrOf(call[r].id)
    BY <1>2, <1>7 DEF Others
  <2>2. pc[r] = "out" => msgs'[HdrOf(call[r].id)] = msgs[HdrOf(call[r].id)]
    BY <1>4, <1>6, <2>1 DEF Untouched, Holds
  <2>3. Good(r)
    BY <1>5
  <2> QED
    BY <2>1, <2>2, <2>3
<1>8. Good(p)'
  <2>1. CASE pc'[p] # "out" /\ call'[p].got = <<>>
    BY <2>1
  <2>2. CASE CopyOut(p)
    <3>1. pc[p] = "out" /\ pc'[p] = "out" /\ msgs' = msgs
      BY <2>2 DEF CopyOut
    <3>2. Good(p)
      BY <1>5
    <3>3. /\ call'[p].id = call[p].id /\ call'[p].type = call[p].type
          /\ call'[p].pos = call[p].pos
          /\ \A k \in 1 .. Len(call'[p].got) :
               call'[p].got[k] = msgs[HdrOf(call[p].id)][call[p].pos].text
      BY <2>2, <3>1, <3>2, CopyOutPick
    <3> QED
      BY <3>1, <3>2, <3>3
  <2>3. CASE Chooses(p)
    <3>1. \A k : k \notin 1 .. Len(<<>>)
      OBVIOUS
    <3> QED
      BY <2>3, <3>1 DEF Chooses
  <2> QED
    BY <1>3, <2>1, <2>2, <2>3 DEF Got
<1>9. \A r \in Proc : Good(r)'
  BY <1>7, <1>8
<1> QED
  BY <1>9 DEF PickInv

LEMMA PickInvariance == Spec => [](Inv /\ TextInv /\ PickInv)
<1>1. Init => PickInv
  BY DEF Init, PickInv, NoCall, Fresh
<1>2. Inv /\ TextInv /\ PickInv /\ [Next]_vars => PickInv'
  <2>1. PickInv /\ UNCHANGED vars => PickInv'
    BY DEF vars, resVars, PickInv, IsPick, Matches
  <2> QED
    BY <2>1, NextPick
<1> QED
  BY <1>1, <1>2, TextInvariance, PTL DEF Spec

(* msgrcv takes the message that should go first among those on the queue  *)
(* when it is taken off, however long the copy out took, and hands over    *)
(* its text.                                                               *)
THEOREM ReceivedInOrder == Spec => ReceivesInOrder
<1> DEFINE Ordered(p) ==
       LET c == call[p]
           q == msgs[HdrOf(c.id)]
           m == q[c.pos]
           suits(x) == IF c.type < 0 THEN x.type <= -c.type
                                     ELSE c.type \in {0, x.type}
           before(j) == IF c.type < 0
                        THEN q[j].type < m.type \/ (q[j].type = m.type /\ j < c.pos)
                        ELSE j < c.pos
       IN  (pc[p] = "out" /\ pc'[p] = "user" /\ msgs' # msgs) =>
             /\ suits(m)
             /\ ~\E j \in DOMAIN q : suits(q[j]) /\ before(j)
             /\ c.got = [k \in 1 .. btoq(Shorter(c.size, m.ts)) |-> m.text]
<1>1. ASSUME Inv, TextInv, PickInv, Next, NEW p \in Proc
      PROVE  Ordered(p)
  <2> DEFINE c == call[p]
             h == HdrOf(c.id)
             q == msgs[h]
             m == q[c.pos]
  <2> SUFFICES ASSUME pc[p] = "out", pc'[p] = "user", msgs' # msgs
               PROVE  /\ IF c.type < 0 THEN m.type <= -c.type ELSE c.type \in {0, m.type}
                      /\ ~\E j \in DOMAIN q :
                            /\ IF c.type < 0 THEN q[j].type <= -c.type
                                             ELSE c.type \in {0, q[j].type}
                            /\ IF c.type < 0
                               THEN q[j].type < m.type \/ (q[j].type = m.type /\ j < c.pos)
                               ELSE j < c.pos
                      /\ c.got = [k \in 1 .. btoq(Shorter(c.size, m.ts)) |-> m.text]
    OBVIOUS
  <2>1. OutDone(p)
    <3>1. PICK r \in Proc : Act(r)
      BY <1>1 DEF Next, Act
    <3>2. r = p
      BY <1>1, <3>1, ActShape DEF TextInv, Others
    <3> QED
      BY <3>1, <3>2 DEF Act, msgget, Begin, Reenter, Retry, CopyOut, OutFails,
         TypeCopied, CopyIn, InFails, InDone, SetDone, StatDone, Interrupted,
         LockInterrupted, Signal
  <2>2. IsPick(q, c.type, c.pos) /\ \A k \in 1 .. Len(c.got) : c.got[k] = m.text
    BY <1>1 DEF PickInv
  <2>3. c \in Local /\ h \in Hdr /\ q \in Seq(Message)
    BY <1>1, HdrOfType DEF Inv, TypeOK, Local
  <2>4. c.type \in Int /\ c.pos \in DOMAIN q /\ c.got \in Seq(Text \cup {NoText})
          /\ \A j \in DOMAIN q : q[j].type \in Int
    <3>1. c.type \in Int /\ c.got \in Seq(Text \cup {NoText})
      BY <2>3 DEF Local
    <3>2. c.pos \in DOMAIN q
      BY <2>2 DEF IsPick, Matches
    <3>3. \A j \in DOMAIN q : q[j] \in Message
      BY <2>3
    <3>4. \A x \in Message : x.type \in Int
      BY DEF Message
    <3> QED
      BY <3>1, <3>2, <3>3, <3>4
  <2>5. PICK n \in Nat : n = Len(c.got)
    BY <2>4
  <2>6. n = btoq(Shorter(c.size, m.ts))
    BY <2>1, <2>5 DEF OutDone, OutSegs
  <2>7. c.got = [k \in 1 .. n |-> m.text]
    BY <2>2, <2>4, <2>5
  <2> HIDE DEF q, c
  <2>8. IF c.type < 0 THEN m.type <= -c.type ELSE c.type \in {0, m.type}
    BY <2>2, <2>4 DEF IsPick, Matches
  <2>9. ASSUME NEW j \in DOMAIN q,
               IF c.type < 0 THEN q[j].type <= -c.type ELSE c.type \in {0, q[j].type},
               IF c.type < 0 THEN q[j].type < m.type \/ (q[j].type = m.type /\ j < c.pos)
                             ELSE j < c.pos
        PROVE  FALSE
    <3>1. j \in Matches(q, c.type) /\ j \in Int /\ c.pos \in Int
      BY <2>3, <2>4, <2>9 DEF Matches
    <3>2. IF c.type < 0
          THEN m.type < q[j].type \/ (m.type = q[j].type /\ c.pos <= j)
          ELSE c.pos <= j
      BY <2>2, <3>1 DEF IsPick
    <3> QED
      BY <2>4, <2>9, <3>1, <3>2
  <2> QED
    BY <2>6, <2>7, <2>8, <2>9
<1>2. Inv /\ TextInv /\ PickInv /\ [Next]_vars => [\A p \in Proc : Ordered(p)]_vars
  BY <1>1
<1> QED
  BY <1>2, PickInvariance, PTL DEF Spec, ReceivesInOrder

-----------------------------------------------------------------------------
(* Why a process sleeps on the channel w in the call c. *)
Cause(w, c) ==
  LET h == HdrOf(c.id)
  IN  /\ w = <<"rcv", h>> => Exists(c.id) /\ Matches(msgs[h], c.type) = {}
      /\ w = <<"snd", h>> => Exists(c.id) /\ ~Room(h, c.size)
      /\ w = <<"map", 0>> => FirstFit(btoq(c.size)) = {}

(* A step takes no cause away from q while it leaves q asleep. *)
SameUse(h) == que'[h].alloc = que[h].alloc /\ que'[h].seq = que[h].seq

NoMore(h) ==
  \A i \in DOMAIN msgs'[h] : \E j \in DOMAIN msgs[h] : msgs'[h][i] = msgs[h][j]

NoRoomier(h) == que'[h].cbytes >= que[h].cbytes /\ que'[h].qbytes <= que[h].qbytes

Mild(q) ==
  LET h == HdrOf(call[q].id)
  IN  /\ wchan'[q] = <<"rcv", h>> => SameUse(h) /\ NoMore(h)
      /\ wchan'[q] = <<"snd", h>> => SameUse(h) /\ NoRoomier(h)
      /\ wchan'[q] = <<"map", 0>> => msgmap' \subseteq msgmap

(* If no first range fits then no range does: there is a least one. *)
LEMMA NoneFits ==
  ASSUME NEW n, FirstFit(n) = {}
  PROVE  \A i \in Seg : ~(Segs(i, n) \subseteq msgmap)
<1> DEFINE T == {i \in Seg : Segs(i, n) \subseteq msgmap}
           R == OpToRel(<, Nat)
<1>1. SUFFICES T = {}
  OBVIOUS
<1>2. SUFFICES ASSUME T # {}
               PROVE  FALSE
  OBVIOUS
<1>3. T \subseteq Nat
  BY DEF Seg
<1>4. IsWellFoundedOn(R, Nat)
  BY NatLessThanWellFounded
<1> HIDE DEF T
<1>5. PICK x \in T : \A y \in T : ~(<<y, x>> \in R)
  <2> HIDE DEF R
  <2> QED
    BY <1>2, <1>3, <1>4, WFMin
<1>6. \A y \in T : ~(y < x)
  BY <1>3, <1>5 DEF OpToRel
<1>7. x \in FirstFit(n)
  <2>1. x \in Seg /\ Segs(x, n) \subseteq msgmap
    BY DEF T
  <2>2. \A j \in 0 .. x - 1 : j \in Seg /\ j < x
    BY <2>1, ConstAssumption DEF Seg
  <2> QED
    BY <2>1, <2>2, <1>6 DEF FirstFit, T
<1> QED
  BY <1>7

LEMMA MildKeeps ==
  ASSUME Inv, Inv', NEW q \in Proc, Cause(wchan[q], call[q]), Mild(q),
         call'[q] = call[q], wchan'[q] \in {wchan[q], NoChan}
  PROVE  Cause(wchan[q], call[q])'
<1> DEFINE c == call[q]
           h == HdrOf(c.id)
<1>1. h \in Hdr /\ c \in Local
  BY HdrOfType DEF Inv, TypeOK, Local
<1>2. wchan'[q] = <<"rcv", h>> => Exists(c.id)' /\ Matches(msgs'[h], c.type) = {}
  <2> SUFFICES ASSUME wchan'[q] = <<"rcv", h>>
               PROVE  Exists(c.id)' /\ Matches(msgs'[h], c.type) = {}
    OBVIOUS
  <2>1. Exists(c.id) /\ Matches(msgs[h], c.type) = {}
    BY DEF Cause, NoChan
  <2>2. SameUse(h) /\ NoMore(h)
    BY DEF Mild
  <2>3. Exists(c.id)'
    BY <2>1, <2>2 DEF SameUse, Exists
  <2>4. Matches(msgs'[h], c.type) = {}
    BY <2>1, <2>2 DEF NoMore, Matches
  <2> QED
    BY <2>3, <2>4
<1>3. wchan'[q] = <<"snd", h>> => Exists(c.id)' /\ ~Room(h, c.size)'
  <2> SUFFICES ASSUME wchan'[q] = <<"snd", h>>
               PROVE  Exists(c.id)' /\ ~Room(h, c.size)'
    OBVIOUS
  <2>1. Exists(c.id) /\ ~Room(h, c.size)
    BY DEF Cause, NoChan
  <2>2. SameUse(h) /\ NoRoomier(h)
    BY DEF Mild
  <2>3. Exists(c.id)'
    BY <2>1, <2>2 DEF SameUse, Exists
  <2>4. /\ c.size \in Nat
        /\ que[h].cbytes \in Int /\ que'[h].cbytes \in Int
        /\ que[h].qbytes \in Nat /\ que'[h].qbytes \in Nat
    BY <1>1 DEF Inv, TypeOK, Local
  <2>5. ~(c.size + que'[h].cbytes <= que'[h].qbytes)
    BY <2>1, <2>2, <2>4 DEF NoRoomier, Room
  <2>6. call'[q].size = c.size
    OBVIOUS
  <2> QED
    BY <2>3, <2>5, <2>6 DEF Room
<1>4. wchan'[q] = <<"map", 0>> => FirstFit(btoq(c.size))' = {}
  <2>1. wchan'[q] = <<"map", 0>> => FirstFit(btoq(c.size)) = {} /\ msgmap' \subseteq msgmap
    BY DEF Cause, NoChan, Mild
  <2> DEFINE n == btoq(c.size)
             n1 == btoq(call'[q].size)
  <2>2. n1 = n
    OBVIOUS
  <2>3. wchan'[q] = <<"map", 0>> =>
          \A i \in Seg : ~(Segs(i, n) \subseteq msgmap')
    BY <2>1, NoneFits
  <2> HIDE DEF n, n1
  <2>4. wchan'[q] = <<"map", 0>> =>
          \A i \in Seg : ~(Segs(i, n1) \subseteq msgmap')
    BY <2>2, <2>3
  <2> QED
    BY <2>4 DEF n1, FirstFit, Seg, Segs, btoq
<1>5. Exists(call[q].id)' <=> Exists(c.id)'
  BY DEF Exists
<1>6. HdrOf(call'[q].id) = h /\ call'[q].type = c.type
  BY DEF HdrOf
<1> QED
  BY <1>2, <1>3, <1>4, <1>5, <1>6 DEF Cause, HdrOf, Room, FirstFit, btoq, Seg, Segs

(* A step that keeps uses, messages and bytes, and frees no segments.      *)
LEMMA QuietMild ==
  ASSUME Inv, NEW q \in Proc, UNCHANGED msgs, msgmap' \subseteq msgmap,
         \A g \in Hdr : SameUse(g) /\ NoRoomier(g)
  PROVE  Mild(q)
<1>1. HdrOf(call[q].id) \in Hdr
  BY HdrOfType DEF Inv, TypeOK, Local
<1>2. \A g \in Hdr : NoMore(g)
  BY DEF NoMore
<1> QED
  BY <1>1, <1>2 DEF Mild

LEMMA StillMild ==
  ASSUME Inv, NEW q \in Proc, UNCHANGED <<que, msgs>>, msgmap' \subseteq msgmap
  PROVE  Mild(q)
<1>1. \A g \in Hdr : SameUse(g) /\ NoRoomier(g)
  BY DEF SameUse, NoRoomier, Inv, TypeOK
<1> QED
  BY <1>1, QuietMild

LEMMA MarkUse ==
  ASSUME Inv, NEW h \in Hdr,
         \/ que' = [que EXCEPT ![h].rwait = TRUE]
         \/ que' = [que EXCEPT ![h].wwait = TRUE]
         \/ que' = [que EXCEPT ![h].wwait = FALSE]
  PROVE  \A g \in Hdr : SameUse(g) /\ NoRoomier(g)
<1>1. \A g \in Hdr : /\ que'[g].alloc = que[g].alloc /\ que'[g].seq = que[g].seq
                     /\ que'[g].cbytes = que[g].cbytes
                     /\ que'[g].qbytes = que[g].qbytes
  <2>1. CASE que' = [que EXCEPT ![h].rwait = TRUE]
    BY <2>1 DEF Inv, TypeOK
  <2>2. CASE que' = [que EXCEPT ![h].wwait = TRUE]
    BY <2>2 DEF Inv, TypeOK
  <2>3. CASE que' = [que EXCEPT ![h].wwait = FALSE]
    BY <2>3 DEF Inv, TypeOK
  <2> QED
    BY <2>1, <2>2, <2>3
<1>2. \A g \in Hdr : que[g].cbytes \in Int /\ que[g].qbytes \in Nat
  BY DEF Inv, TypeOK
<1> QED
  BY <1>1, <1>2 DEF SameUse, NoRoomier

(* Whom the end of a call wakes. *)
LEMMA LeaveWakes ==
  ASSUME Inv, NEW p \in Proc, NEW h, NEW chans, Leave(p, h, chans)
  PROVE  /\ \A q \in Proc : wchan'[q] \in {wchan[q], NoChan}
         /\ \A q \in Proc : wchan[q] \in chans => wchan'[q] = NoChan
         /\ \A q \in Proc, ch \in chans : ch # NoChan => wchan'[q] # ch
BY DEF Inv, TypeOK, Leave, Woken

(* msgrcv gives the space of a message back and wakes who waits for it.    *)
LEMMA OutDoneMild ==
  ASSUME Inv, NEW p \in Proc, NEW q \in Proc, OutDone(p)
  PROVE  Mild(q)
<1> DEFINE c == call[p]
           h == HdrOf(c.id)
           m == msgs[h][c.pos]
           segs == Segs(m.spot, btoq(m.ts))
           k == HdrOf(call[q].id)
           chans == HeaderWakes \cup (IF segs = {} THEN {} ELSE MapWakes)
                       \cup (IF que[h].wwait THEN {<<"snd", h>>} ELSE {})
<1>1. h \in Hdr /\ k \in Hdr
  BY HdrOfType DEF Inv, TypeOK, Local
<1>2. /\ que' = [que EXCEPT ![h].cbytes = @ - m.ts, ![h].wwait = FALSE]
      /\ msgs' = [msgs EXCEPT ![h] = Without(msgs[h], c.pos)]
      /\ msgmap' = msgmap \cup segs
      /\ Leave(p, h, chans)
  BY DEF OutDone, mfree
<1>3. c.pos \in DOMAIN msgs[h]
  BY <1>1 DEF OutDone, Inv, LockedQueueExists, Holds
<1> HIDE DEF segs, chans
<1>4. SameUse(k)
  BY <1>1, <1>2 DEF SameUse, Inv, TypeOK
<1>5. NoMore(k)
  <2>1. CASE k # h
    BY <2>1, <1>1, <1>2 DEF NoMore, Inv, TypeOK
  <2>2. CASE k = h
    <3> DEFINE s == msgs[h]
               w == Without(msgs[h], c.pos)
    <3>1. s \in Seq(Message) /\ msgs'[h] = w
      BY <1>1, <1>2 DEF Inv, TypeOK
    <3>2. /\ w \in Seq(Message) /\ Len(w) = Len(s) - 1
          /\ \A j \in 1 .. Len(s) - 1 : w[j] = s[IF j < c.pos THEN j ELSE j + 1]
      BY <3>1, <1>3, WithoutLemma
    <3>3. c.pos \in 1 .. Len(s) /\ Len(s) \in Nat
      BY <3>1, <1>3
    <3> HIDE DEF s, w
    <3>4. \A j \in DOMAIN w : \E i \in DOMAIN s : w[j] = s[i]
      <4> SUFFICES ASSUME NEW j \in DOMAIN w
                   PROVE  \E i \in DOMAIN s : w[j] = s[i]
        OBVIOUS
      <4>1. j \in 1 .. Len(s) - 1 /\ DOMAIN s = 1 .. Len(s)
        BY <3>1, <3>2
      <4>2. (IF j < c.pos THEN j ELSE j + 1) \in DOMAIN s
        BY <4>1, <3>3
      <4> QED
        BY <4>1, <4>2, <3>2
    <3> QED
      BY <2>2, <3>1, <3>4 DEF NoMore, s
  <2> QED
    BY <2>1, <2>2
<1>6. wchan'[q] = <<"snd", k>> => NoRoomier(k)
  <2>1. CASE k # h
    BY <2>1, <1>1, <1>2 DEF NoRoomier, Inv, TypeOK
  <2>2. CASE k = h
    <3>1. wchan'[q] = <<"snd", h>> => wchan[q] = <<"snd", h>>
      BY <1>2, LeaveWakes DEF NoChan
    <3>2. wchan[q] = <<"snd", h>> => <<"snd", h>> \in chans
      BY <1>1 DEF chans, Inv, SleepersFlagged
    <3>3. wchan'[q] # <<"snd", h>>
      BY <3>1, <3>2, <1>2, LeaveWakes DEF NoChan
    <3> QED
      BY <2>2, <3>3
  <2> QED
    BY <2>1, <2>2
<1>7. wchan'[q] = <<"map", 0>> => msgmap' \subseteq msgmap
  <2>1. CASE segs = {}
    BY <2>1, <1>2
  <2>2. CASE segs # {}
    <3>1. wchan'[q] = <<"map", 0>> => wchan[q] = <<"map", 0>>
      BY <1>2, LeaveWakes DEF NoChan
    <3>2. wchan[q] = <<"map", 0>> => <<"map", 0>> \in chans
      BY <1>1, <2>2 DEF chans, MapWakes, Inv, SleepersFlagged
    <3> QED
      BY <3>1, <3>2, <1>2, LeaveWakes DEF NoChan
  <2> QED
    BY <2>1, <2>2
<1> QED
  BY <1>4, <1>5, <1>6, <1>7 DEF Mild

(* IPC_RMID wakes everybody that waits on the queue or for space.          *)
LEMMA RmidMild ==
  ASSUME Inv, NEW p \in Proc, NEW q \in Proc, NEW c, HdrOf(c.id) \in Hdr, Rmid(p, c)
  PROVE  Mild(q)
<1> DEFINE h == HdrOf(c.id)
           s == msgs[h]
           segs == UNION {Segs(s[i].spot, btoq(s[i].ts)) : i \in DOMAIN s}
           k == HdrOf(call[q].id)
           chans == (IF s = <<>> THEN {} ELSE HeaderWakes)
                       \cup (IF segs = {} THEN {} ELSE MapWakes)
                       \cup (IF que[h].rwait THEN {<<"rcv", h>>} ELSE {})
                       \cup (IF que[h].wwait THEN {<<"snd", h>>} ELSE {})
<1>1. h \in Hdr /\ k \in Hdr
  BY HdrOfType DEF Inv, TypeOK, Local
<1>2. /\ \A g \in Hdr \ {h} : que'[g] = que[g] /\ msgs'[g] = msgs[g]
      /\ msgmap' = msgmap \cup segs
      /\ Leave(p, h, chans)
  BY DEF Rmid, mfree, Inv, TypeOK
<1> HIDE DEF segs, chans
<1>3. wchan'[q] = <<"rcv", h>> => FALSE
  <2>1. wchan'[q] = <<"rcv", h>> => wchan[q] = <<"rcv", h>>
    BY <1>2, LeaveWakes DEF NoChan
  <2>2. wchan[q] = <<"rcv", h>> => <<"rcv", h>> \in chans
    BY <1>1 DEF chans, Inv, SleepersFlagged
  <2> QED
    BY <2>1, <2>2, <1>2, LeaveWakes DEF NoChan
<1>4. wchan'[q] = <<"snd", h>> => FALSE
  <2>1. wchan'[q] = <<"snd", h>> => wchan[q] = <<"snd", h>>
    BY <1>2, LeaveWakes DEF NoChan
  <2>2. wchan[q] = <<"snd", h>> => <<"snd", h>> \in chans
    BY <1>1 DEF chans, Inv, SleepersFlagged
  <2> QED
    BY <2>1, <2>2, <1>2, LeaveWakes DEF NoChan
<1>5. k # h => SameUse(k) /\ NoMore(k) /\ NoRoomier(k)
  BY <1>1, <1>2 DEF SameUse, NoMore, NoRoomier, Inv, TypeOK
<1>6. wchan'[q] = <<"map", 0>> => msgmap' \subseteq msgmap
  <2>1. CASE segs = {}
    BY <2>1, <1>2
  <2>2. CASE segs # {}
    <3>1. wchan'[q] = <<"map", 0>> => wchan[q] = <<"map", 0>>
      BY <1>2, LeaveWakes DEF NoChan
    <3>2. wchan[q] = <<"map", 0>> => <<"map", 0>> \in chans
      BY <1>1, <2>2 DEF chans, MapWakes, Inv, SleepersFlagged
    <3> QED
      BY <3>1, <3>2, <1>2, LeaveWakes DEF NoChan
  <2> QED
    BY <2>1, <2>2
<1> QED
  BY <1>3, <1>4, <1>5, <1>6 DEF Mild

(* A sender that gives its segments back wakes those who wait for some.    *)
LEMMA InFailsMild ==
  ASSUME Inv, NEW p \in Proc, NEW q \in Proc, InFails(p)
  PROVE  Mild(q)
<1> DEFINE chans == HeaderWakes \cup MapWakes
<1>1. HdrOf(call[q].id) \in Hdr /\ Leave(p, HdrOf(call[p].id), chans)
  BY HdrOfType DEF InFails, Inv, TypeOK, Local
<1>2. \A g \in Hdr : SameUse(g) /\ NoRoomier(g) /\ NoMore(g)
  BY DEF InFails, SameUse, NoRoomier, NoMore, Inv, TypeOK
<1> HIDE DEF chans
<1>3. wchan'[q] # <<"map", 0>>
  <2>1. wchan'[q] = <<"map", 0>> => wchan[q] = <<"map", 0>>
    BY <1>1, LeaveWakes DEF NoChan
  <2>2. wchan[q] = <<"map", 0>> => <<"map", 0>> \in chans
    BY <1>1 DEF chans, MapWakes, Inv, SleepersFlagged
  <2> QED
    BY <2>1, <2>2, <1>1, LeaveWakes DEF NoChan
<1> QED
  BY <1>1, <1>2, <1>3 DEF Mild

(* A message on a queue wakes those who wait for one, and leaves no more   *)
(* room.                                                                   *)
LEMMA PutMild ==
  ASSUME Inv, NEW p \in Proc, NEW q \in Proc, NEW c \in Local,
         Put(p, HdrOf(c.id), c), UNCHANGED msgmap
  PROVE  Mild(q)
<1> DEFINE h == HdrOf(c.id)
           k == HdrOf(call[q].id)
           chans == IF que[h].rwait THEN {<<"rcv", h>>} ELSE {}
<1>1. h \in Hdr /\ k \in Hdr /\ c.size \in Nat
  BY HdrOfType DEF Inv, TypeOK, Local
<1>2. /\ que' = [que EXCEPT ![h].cbytes = que[h].cbytes + c.size, ![h].rwait = FALSE]
      /\ \A g \in Hdr \ {h} : msgs'[g] = msgs[g]
      /\ Leave(p, h, chans)
  BY DEF Put, Inv, TypeOK
<1> HIDE DEF chans
<1>3. SameUse(k) /\ NoRoomier(k)
  BY <1>1, <1>2 DEF SameUse, NoRoomier, Inv, TypeOK
<1>4. wchan'[q] = <<"rcv", k>> => NoMore(k)
  <2>1. CASE k # h
    BY <2>1, <1>1, <1>2 DEF NoMore
  <2>2. CASE k = h
    <3>1. wchan'[q] = <<"rcv", h>> => wchan[q] = <<"rcv", h>>
      BY <1>2, LeaveWakes DEF NoChan
    <3>2. wchan[q] = <<"rcv", h>> => <<"rcv", h>> \in chans
      BY <1>1 DEF chans, Inv, SleepersFlagged
    <3> QED
      BY <2>2, <3>1, <3>2, <1>2, LeaveWakes DEF NoChan
  <2> QED
    BY <2>1, <2>2
<1> QED
  BY <1>3, <1>4 DEF Mild

(* A process that goes to sleep has cause to. *)
LEMMA SleepCause ==
  ASSUME Inv, NEW p \in Proc, NEW c \in Local, NEW chan, NEW chans,
         Cause(chan, c), SleepOn(p, HdrOf(c.id), chan, c, chans),
         UNCHANGED <<msgs, msgmap>>,
         LET h == HdrOf(c.id)
         IN  /\ SameUse(h) /\ que'[h].cbytes = que[h].cbytes
             /\ que'[h].qbytes = que[h].qbytes
  PROVE  Cause(wchan[p], call[p])'
<1> DEFINE d == [c EXCEPT !.on = chan]
           h == HdrOf(c.id)
<1>1. d.id = c.id /\ d.type = c.type /\ d.size = c.size
  BY DEF Local
<1>2. wchan'[p] = chan /\ call'[p] = d
  BY EndsAlone
<1> HIDE DEF d
<1>3. Exists(call[p].id)' <=> Exists(c.id)
  BY <1>1, <1>2 DEF Exists, SameUse, HdrOf
<1>4. Room(h, call[p].size)' <=> Room(h, c.size)
  BY <1>1, <1>2 DEF Room
<1>5. FirstFit(btoq(call[p].size))' = FirstFit(btoq(c.size))
  BY <1>1, <1>2 DEF FirstFit, btoq, Seg, Segs
<1>6. HdrOf(call[p].id)' = h /\ call'[p].type = c.type
  BY <1>1, <1>2 DEF HdrOf
<1>7. /\ chan = <<"rcv", h>> => Exists(c.id) /\ Matches(msgs[h], c.type) = {}
      /\ chan = <<"snd", h>> => Exists(c.id) /\ ~Room(h, c.size)
      /\ chan = <<"map", 0>> => FirstFit(btoq(c.size)) = {}
  BY DEF Cause
<1>8. Cause(chan, call[p])'
  BY <1>3, <1>4, <1>5, <1>6, <1>7 DEF Cause, Room, Matches, HdrOf
<1> QED
  BY <1>2, <1>8

LEMMA NoCause ==
  ASSUME NEW p \in Proc,
         \/ wchan'[p] = NoChan
         \/ \E h : wchan'[p] = <<"lock", h>>
  PROVE  Cause(wchan[p], call[p])'
BY DEF Cause, NoChan

LEMMA EndCause ==
  ASSUME Inv, NEW p \in Proc, wchan[p] = NoChan, NEW h, NEW chans, NEW where, NEW c,
         Leave(p, h, chans) \/ Go(p, h, where, c)
  PROVE  Cause(wchan[p], call[p])'
BY EndsAlone, NoCause

(* What each step does to those who sleep. *)
Eases(p) == (\A q \in Proc : Mild(q)) /\ Cause(wchan[p], call[p])'

LEMMA FindmsgEases ==
  ASSUME Inv, NEW p \in Proc, wchan[p] = NoChan, NEW c \in Local, Exists(c.id),
         Findmsg(p, c)
  PROVE  Eases(p)
<1> DEFINE h == HdrOf(c.id)
<1>1. h \in Hdr
  BY HdrOfType DEF Local
<1>2. UNCHANGED <<msgs, msgmap>>
  BY DEF Findmsg, resVars
<1>3. CASE /\ Matches(msgs[h], c.type) = {}
           /\ que' = [que EXCEPT ![h].rwait = TRUE]
           /\ SleepOn(p, h, <<"rcv", h>>, c, {})
  <2>1. \A g \in Hdr : SameUse(g) /\ NoRoomier(g)
    BY <1>1, <1>3, MarkUse
  <2>2. que'[h].cbytes = que[h].cbytes /\ que'[h].qbytes = que[h].qbytes
    BY <1>1, <1>3 DEF Inv, TypeOK
  <2>3. Cause(<<"rcv", h>>, c)
    BY <1>3 DEF Cause
  <2>4. Cause(wchan[p], call[p])'
    BY <1>1, <1>2, <1>3, <2>1, <2>2, <2>3, SleepCause
  <2>5. \A q \in Proc : Mild(q)
    BY <1>2, <2>1, QuietMild
  <2> QED
    BY <2>4, <2>5 DEF Eases
<1>4. CASE que' = que /\ ((\E chans : Leave(p, h, chans)) \/ \E d : Go(p, h, "out", d))
  BY <1>2, <1>4, EndCause, StillMild DEF Eases
<1> QED
  BY <1>3, <1>4 DEF Findmsg

LEMMA WaitEases ==
  ASSUME Inv, NEW p \in Proc, wchan[p] = NoChan, NEW c \in Local, NEW chan, NEW chans,
         Wait(p, HdrOf(c.id), c, chan, chans), Cause(chan, c),
         UNCHANGED <<msgs, msgmap>>,
         \/ que' = que
         \/ que' = [que EXCEPT ![HdrOf(c.id)].wwait = TRUE]
  PROVE  Eases(p)
<1> DEFINE h == HdrOf(c.id)
<1>1. h \in Hdr
  BY HdrOfType DEF Local
<1>2. \A g \in Hdr : SameUse(g) /\ NoRoomier(g)
  BY <1>1, MarkUse DEF SameUse, NoRoomier, Inv, TypeOK
<1>3. que'[h].cbytes = que[h].cbytes /\ que'[h].qbytes = que[h].qbytes
  BY <1>1 DEF Inv, TypeOK
<1>4. \A q \in Proc : Mild(q)
  BY <1>2, QuietMild
<1>5. CASE Leave(p, h, chans)
  BY <1>4, <1>5, EndCause DEF Eases
<1>6. CASE SleepOn(p, h, chan, c, chans)
  BY <1>1, <1>2, <1>3, <1>4, <1>6, SleepCause DEF Eases
<1> QED
  BY <1>5, <1>6 DEF Wait

LEMMA GetresEases ==
  ASSUME Inv, NEW p \in Proc, wchan[p] = NoChan, NEW c \in Local, Exists(c.id),
         Getres(p, c)
  PROVE  Eases(p)
<1> DEFINE h == HdrOf(c.id)
<1>1. CASE QueueFull(p, c)
  <2>1. Cause(<<"snd", h>>, c)
    BY <1>1 DEF QueueFull, Cause
  <2>2. /\ Wait(p, h, c, <<"snd", h>>, {}) /\ UNCHANGED <<msgs, msgmap>>
        /\ que' = que \/ que' = [que EXCEPT ![h].wwait = TRUE]
    BY <1>1 DEF QueueFull, resVars
  <2> QED
    BY <2>1, <2>2, WaitEases
<1>2. CASE NoHeader(p, c)
  <2>1. Cause(<<"hdr", 0>>, c)
    BY DEF Cause
  <2>2. Wait(p, h, c, <<"hdr", 0>>, {}) /\ UNCHANGED <<que, msgs, msgmap>>
    BY <1>2 DEF NoHeader, resVars
  <2> QED
    BY <2>1, <2>2, WaitEases
<1>3. CASE NoSpace(p, c)
  <2>1. Cause(<<"map", 0>>, c)
    BY <1>3 DEF NoSpace, Cause
  <2>2. /\ Wait(p, h, c, <<"map", 0>>, IF nfree = 1 THEN {<<"hdr", 0>>} ELSE {})
        /\ UNCHANGED <<que, msgs, msgmap>>
    BY <1>3 DEF NoSpace
  <2> QED
    BY <2>1, <2>2, WaitEases
<1>4. CASE PutEmpty(p, c)
  <2>1. Put(p, h, c) /\ UNCHANGED msgmap /\ \E chans : Leave(p, h, chans)
    BY <1>4 DEF PutEmpty, Put
  <2> QED
    BY <2>1, PutMild, EndCause DEF Eases
<1>5. CASE Allocate(p, c)
  <2>1. UNCHANGED <<que, msgs>> /\ msgmap' \subseteq msgmap /\ \E d : Go(p, h, "text", d)
    BY <1>5 DEF Allocate
  <2> QED
    BY <2>1, StillMild, EndCause DEF Eases
<1> QED
  BY <1>1, <1>2, <1>3, <1>4, <1>5 DEF Getres

LEMMA EnterEases ==
  ASSUME Inv, NEW p \in Proc, wchan[p] = NoChan, NEW c \in Local, Enter(p, c)
  PROVE  Eases(p)
<1> DEFINE h == HdrOf(c.id)
<1>1. h \in Hdr /\ Exists(c.id)
  BY HdrOfType DEF Enter, Local
<1>2. CASE Findmsg(p, c)
  BY <1>1, <1>2, FindmsgEases
<1>3. CASE Rmid(p, c)
  <2>1. \E chans : Leave(p, h, chans)
    BY <1>3 DEF Rmid
  <2> QED
    BY <1>1, <1>3, <2>1, RmidMild, EndCause DEF Eases
<1>4. CASE (\E where : Go(p, h, where, c)) /\ UNCHANGED <<que, msgs, resVars>>
  BY <1>4, StillMild, EndCause DEF Eases, resVars
<1> QED
  BY <1>2, <1>3, <1>4 DEF Enter

LEMMA LockBusyEases ==
  ASSUME Inv, NEW p \in Proc, NEW c, NEW where, LockBusy(p, c, where)
  PROVE  Eases(p)
<1>1. wchan'[p] = <<"lock", HdrOf(c.id)>> /\ UNCHANGED <<que, msgs, msgmap>>
  BY DEF LockBusy, resVars, Inv, TypeOK
<1> QED
  BY <1>1, StillMild, NoCause DEF Eases

LEMMA StartEases ==
  ASSUME Inv, NEW p \in Proc, Begin(p) \/ Reenter(p) \/ Retry(p)
  PROVE  Eases(p)
<1>1. CASE Begin(p)
  <2>1. PICK c \in Calls : LockBusy(p, Fresh(c), "enter") \/ Enter(p, Fresh(c))
    BY <1>1 DEF Begin
  <2>2. Fresh(c) \in Local
    BY <2>1, ConstAssumption DEF Fresh, Request, Local, Chan, NoChan
  <2>3. wchan[p] = NoChan
    BY <1>1 DEF Begin, Inv, OnlyWaitersSleep
  <2> QED
    BY <2>1, <2>2, <2>3, EnterEases, LockBusyEases
<1>2. CASE Reenter(p) \/ Retry(p)
  <2>1. wchan[p] = NoChan /\ call[p] \in Local
    BY <1>2 DEF Reenter, Retry, Awake, Inv, TypeOK
  <2>2. CASE Gone(p, call[p])
    <3>1. UNCHANGED <<que, msgs, msgmap>> /\ Leave(p, HdrOf(call[p].id), {})
      BY <2>2 DEF Gone, resVars
    <3> QED
      BY <2>1, <3>1, StillMild, EndCause DEF Eases
  <2>3. CASE \E where : LockBusy(p, call[p], where)
    BY <2>3, LockBusyEases
  <2> QED
    BY <1>2, <2>1, <2>2, <2>3, EnterEases, FindmsgEases, GetresEases DEF Reenter, Retry
<1> QED
  BY <1>1, <1>2

LEMMA SendEases ==
  ASSUME Inv, NEW p \in Proc, TypeCopied(p) \/ CopyIn(p) \/ InFails(p) \/ InDone(p)
  PROVE  Eases(p)
<1> DEFINE c == call[p]
           h == HdrOf(c.id)
<1>1. Works(p, h) /\ c \in Local /\ wchan[p] = NoChan /\ pc[p] \in Busy
  BY BusyWorks DEF TypeCopied, CopyIn, InFails, InDone, Busy, Works
<1>2. Exists(c.id)
  BY <1>1 DEF Works, Inv, LockedQueueExists, Holds, Busy
<1>3. CASE TypeCopied(p)
  <2>1. CASE Leave(p, h, {}) /\ UNCHANGED <<que, msgs, resVars>>
    BY <1>1, <2>1, StillMild, EndCause DEF Eases, resVars
  <2> QED
    BY <1>1, <1>2, <1>3, <2>1, GetresEases DEF TypeCopied
<1>4. CASE CopyIn(p)
  BY <1>1, <1>4, StillMild, NoCause DEF CopyIn, Eases
<1>5. CASE InFails(p)
  <2>1. \E chans : Leave(p, h, chans)
    BY <1>5 DEF InFails
  <2> QED
    BY <1>1, <1>5, <2>1, InFailsMild, EndCause DEF Eases
<1>6. CASE InDone(p)
  <2>1. Put(p, h, c) /\ UNCHANGED msgmap /\ \E chans : Leave(p, h, chans)
    BY <1>6 DEF InDone, Put, resVars
  <2> QED
    BY <1>1, <2>1, PutMild, EndCause DEF Eases
<1> QED
  BY <1>3, <1>4, <1>5, <1>6

LEMMA ReceiveEases ==
  ASSUME Inv, NEW p \in Proc,
         CopyOut(p) \/ OutFails(p) \/ OutDone(p) \/ StatDone(p)
  PROVE  Eases(p)
<1> DEFINE h == HdrOf(call[p].id)
<1>1. wchan[p] = NoChan
  BY BusyWorks DEF CopyOut, OutFails, OutDone, StatDone, Busy, Works
<1>2. CASE CopyOut(p)
  BY <1>1, <1>2, StillMild, NoCause DEF CopyOut, Eases, resVars
<1>3. CASE OutFails(p) \/ StatDone(p)
  <2>1. UNCHANGED <<que, msgs, msgmap>> /\ Leave(p, h, {})
    BY <1>3 DEF OutFails, StatDone, resVars
  <2> QED
    BY <1>1, <2>1, StillMild, EndCause DEF Eases
<1>4. CASE OutDone(p)
  <2>1. \E chans : Leave(p, h, chans)
    BY <1>4 DEF OutDone
  <2> QED
    BY <1>1, <1>4, <2>1, OutDoneMild, EndCause DEF Eases
<1> QED
  BY <1>2, <1>3, <1>4

(* Nobody but the super-user raises a limit. *)
LEMMA SetDoneEases ==
  ASSUME Inv, Super = {}, NEW p \in Proc, SetDone(p)
  PROVE  Eases(p)
<1> DEFINE c == call[p]
           h == HdrOf(c.id)
<1>1. wchan[p] = NoChan /\ c \in Local /\ h \in Hdr
  BY BusyWorks DEF SetDone, Busy, Works
<1>2. UNCHANGED <<msgs, msgmap>> /\ Leave(p, h, {})
  BY DEF SetDone, resVars
<1>3. \A g \in Hdr : SameUse(g) /\ NoRoomier(g)
  <2>1. CASE que' = que
    BY <2>1 DEF SameUse, NoRoomier, Inv, TypeOK
  <2>2. CASE c.size <= que[h].qbytes /\ que' = [que EXCEPT ![h].qbytes = c.size]
    BY <1>1, <2>2 DEF SameUse, NoRoomier, Inv, TypeOK, Local
  <2> QED
    BY <2>1, <2>2 DEF SetDone
<1> QED
  BY <1>1, <1>2, <1>3, QuietMild, EndCause DEF Eases

(* A new queue has no sleepers yet, since each sleeps on a queue that      *)
(* exists.                                                                 *)
LEMMA MsggetEases ==
  ASSUME Inv, Inv', FreeIsEmpty, BlockedForCause, NEW p \in Proc, msgget(p),
         NEW q \in Proc
  PROVE  Cause(wchan[q], call[q])'
<1>1. PICK g \in Hdr :
        /\ ~que[g].alloc
        /\ que' = [que EXCEPT ![g].alloc = TRUE, ![g].qbytes = msgmnb]
        /\ msgs' = [msgs EXCEPT ![g] = <<>>]
  BY DEF msgget
<1>2. UNCHANGED <<call, wchan, msgmap>> /\ msgs' = msgs
  BY <1>1 DEF msgget, resVars, FreeIsEmpty, Inv, TypeOK
<1> DEFINE h == HdrOf(call[q].id)
<1>3. h \in Hdr
  BY HdrOfType DEF Inv, TypeOK, Local
<1>4. Cause(wchan[q], call[q])
  BY DEF BlockedForCause, Cause
<1>5. CASE h = g
  <2>1. ~Exists(call[q].id)
    BY <1>1, <1>5 DEF Exists
  <2>2. wchan[q] # <<"rcv", h>> /\ wchan[q] # <<"snd", h>>
    BY <2>1, <1>4 DEF Cause
  <2>3. Mild(q)
    BY <2>2, <1>2 DEF Mild
  <2> QED
    BY <2>3, <1>2, <1>4, MildKeeps
<1>6. CASE h # g
  <2>1. que'[h] = que[h] /\ SameUse(h) /\ NoRoomier(h) /\ NoMore(h)
    BY <1>1, <1>2, <1>3, <1>6 DEF SameUse, NoRoomier, NoMore, Inv, TypeOK
  <2>2. Mild(q)
    BY <2>1, <1>2 DEF Mild
  <2> QED
    BY <2>2, <1>2, <1>4, MildKeeps
<1> QED
  BY <1>5, <1>6

LEMMA SignalEases ==
  ASSUME Inv, NEW p \in Proc, Interrupted(p) \/ LockInterrupted(p) \/ Signal(p)
  PROVE  Eases(p)
<1> DEFINE h == HdrOf(call[p].id)
<1>1. h \in Hdr
  BY HdrOfType DEF Inv, TypeOK, Local
<1>2. CASE Interrupted(p)
  <2>1. \A g \in Hdr : SameUse(g) /\ NoRoomier(g)
    <3>1. CASE que' = que
      BY <3>1 DEF SameUse, NoRoomier, Inv, TypeOK
    <3> QED
      BY <1>1, <1>2, <3>1, MarkUse DEF Interrupted
  <2>2. UNCHANGED <<msgs, msgmap>> /\ wchan'[p] = NoChan
    BY <1>2 DEF Interrupted, resVars, Woken, Inv, TypeOK
  <2> QED
    BY <2>1, <2>2, QuietMild, NoCause DEF Eases
<1>3. CASE LockInterrupted(p)
  <2>1. UNCHANGED <<que, msgs, msgmap>> /\ wchan'[p] = NoChan
    BY <1>3 DEF LockInterrupted, resVars
  <2> QED
    BY <2>1, StillMild, NoCause DEF Eases
<1>4. CASE Signal(p)
  <2>1. UNCHANGED <<que, msgs, msgmap>> /\ wchan'[p] = NoChan
    BY <1>4 DEF Signal, resVars, Inv, TypeOK
  <2> QED
    BY <2>1, StillMild, NoCause DEF Eases
<1> QED
  BY <1>2, <1>3, <1>4

LEMMA NextBlocked ==
  ASSUME Super = {}, Inv, Inv', FreeIsEmpty, BlockedForCause, [Next]_vars
  PROVE  BlockedForCause'
<1>1. SUFFICES ASSUME NEW q \in Proc
               PROVE  Cause(wchan[q], call[q])'
  BY DEF BlockedForCause, Cause
<1>2. Cause(wchan[q], call[q])
  BY DEF BlockedForCause, Cause
<1>3. CASE UNCHANGED vars
  <2>1. UNCHANGED <<que, msgs, msgmap, call, wchan>>
    BY <1>3 DEF vars, resVars
  <2>2. Mild(q)
    BY <2>1, StillMild
  <2> QED
    BY <2>1, <2>2, <1>2, MildKeeps
<1>4. CASE Next
  <2>1. PICK p \in Proc : Act(p)
    BY <1>4 DEF Next, Act
  <2>2. Others(p)
    BY <2>1, ActShape
  <2>3. CASE msgget(p)
    BY <2>3, MsggetEases
  <2>4. CASE Eases(p)
    <3>1. CASE q = p
      BY <3>1, <2>4 DEF Eases
    <3>2. CASE q # p
      BY <3>2, <2>2, <2>4, <1>2, MildKeeps DEF Eases, Others
    <3> QED
      BY <3>1, <3>2
  <2> QED
    BY <2>1, <2>3, <2>4, StartEases, SendEases, ReceiveEases, SetDoneEases,
       SignalEases DEF Act
<1> QED
  BY <1>3, <1>4

(* Nobody sleeps for what is there, if no process is the super-user's: one *)
(* that is may raise msg_qbytes with IPC_SET, and msgctl then wakes no     *)
(* sender that has room now.  The wakeups of msgsnd, msgfree and msgctl    *)
(* come as soon as anything else takes the cause of a sleep away.          *)
THEOREM NobodySleepsInVain ==
  ASSUME Super = {}
  PROVE  Spec => []BlockedForCause
<1>1. Init => BlockedForCause
  BY DEF Init, BlockedForCause, NoChan
<1>2. Inv /\ Inv' /\ TextInv /\ BlockedForCause /\ [Next]_vars => BlockedForCause'
  BY NextBlocked DEF TextInv
<1> QED
  BY <1>1, <1>2, TextInvariance, PTL DEF Spec

-----------------------------------------------------------------------------
(* The bytes of the messages q. *)
Bytes(q) == SumFunction([i \in DOMAIN q |-> q[i].ts])

LEMMA BytesIs ==
  ASSUME NEW q \in Seq(Message)
  PROVE  LET f == [i \in DOMAIN q |-> q[i].ts]
         IN  /\ Bytes(q) = SumFunctionOnSet(f, 1 .. Len(q))
             /\ IsFiniteSet(1 .. Len(q)) /\ Len(q) \in Nat
             /\ \A i \in 1 .. Len(q) : f[i] = q[i].ts /\ f[i] \in Int
<1>1. DOMAIN q = 1 .. Len(q) /\ Len(q) \in Nat
  OBVIOUS
<1>2. IsFiniteSet(1 .. Len(q))
  BY <1>1, FS_Interval
<1>3. \A i \in 1 .. Len(q) : q[i] \in Message
  BY <1>1
<1>4. \A i \in 1 .. Len(q) : q[i].ts \in Int
  BY <1>3 DEF Message
<1> QED
  BY <1>1, <1>2, <1>4 DEF Bytes, SumFunction

LEMMA BytesEmpty == Bytes(<<>>) = 0
<1> DEFINE f == [i \in DOMAIN <<>> |-> <<>>[i].ts]
<1>1. DOMAIN f = {}
  OBVIOUS
<1> HIDE DEF f
<1>2. SumFunctionOnSet(f, DOMAIN f) = 0
  BY <1>1, SumEmpty
<1> QED
  BY <1>2 DEF Bytes, SumFunction, f

LEMMA BytesType ==
  ASSUME NEW q \in Seq(Message)
  PROVE  Bytes(q) \in Int
<1> DEFINE f == [i \in DOMAIN q |-> q[i].ts]
<1>1. /\ Bytes(q) = SumFunctionOnSet(f, 1 .. Len(q))
      /\ IsFiniteSet(1 .. Len(q)) /\ \A i \in 1 .. Len(q) : f[i] \in Int
  BY BytesIs
<1> HIDE DEF f
<1> QED
  BY <1>1, SumType

LEMMA BytesAppend ==
  ASSUME NEW q \in Seq(Message), NEW m \in Message
  PROVE  Bytes(Append(q, m)) = Bytes(q) + m.ts
<1> DEFINE r == Append(q, m)
           f == [i \in DOMAIN q |-> q[i].ts]
           e == [i \in DOMAIN r |-> r[i].ts]
<1>1. r \in Seq(Message) /\ Len(r) = Len(q) + 1 /\ Len(q) \in Nat
        /\ r[Len(q) + 1] = m /\ \A i \in 1 .. Len(q) : r[i] = q[i]
  OBVIOUS
<1>2. /\ Bytes(q) = SumFunctionOnSet(f, 1 .. Len(q))
      /\ IsFiniteSet(1 .. Len(q))
      /\ \A i \in 1 .. Len(q) : f[i] = q[i].ts /\ f[i] \in Int
  BY BytesIs
<1> HIDE DEF r
<1>3. /\ Bytes(r) = SumFunctionOnSet(e, 1 .. Len(r))
      /\ IsFiniteSet(1 .. Len(r))
      /\ \A i \in 1 .. Len(r) : e[i] = r[i].ts /\ e[i] \in Int
  BY <1>1, BytesIs
<1> HIDE DEF e, f
<1>4. PICK n \in Nat : n = Len(q)
  BY <1>1
<1> DEFINE S == 1 .. Len(r)
           A == 1 .. Len(q)
           x == Len(r)
<1>5. x \in S /\ S \ {x} = A /\ \A i \in A : i \in S
  BY <1>1, <1>4
<1>6. e[x] = m.ts /\ \A i \in A : f[i] = e[i]
  BY <1>1, <1>2, <1>3, <1>5
<1> HIDE DEF S, A, x
<1>7. SumFunctionOnSet(e, S) = e[x] + SumFunctionOnSet(e, S \ {x})
  BY <1>3, <1>5, SumAdd DEF S
<1>8. SumFunctionOnSet(f, A) = SumFunctionOnSet(e, A)
  BY <1>2, <1>6, SumSame DEF A
<1>9. Bytes(r) = m.ts + Bytes(q)
  BY <1>2, <1>3, <1>5, <1>6, <1>7, <1>8 DEF S, A
<1>10. m.ts \in Int
  BY DEF Message
<1>11. Bytes(q) \in Int
  BY BytesType
<1> QED
  BY <1>9, <1>10, <1>11 DEF r

LEMMA BytesWithout ==
  ASSUME NEW q \in Seq(Message), NEW k \in DOMAIN q
  PROVE  Bytes(Without(q, k)) = Bytes(q) - q[k].ts
<1> DEFINE r == Without(q, k)
           f == [i \in DOMAIN q |-> q[i].ts]
           e == [i \in DOMAIN r |-> r[i].ts]
           g == [i \in 1 .. Len(q) - 1 |-> IF i < k THEN i ELSE i + 1]
<1>1. /\ r \in Seq(Message) /\ Len(r) = Len(q) - 1
      /\ \A i \in 1 .. Len(q) - 1 : r[i] = q[IF i < k THEN i ELSE i + 1]
  BY WithoutLemma
<1>2. /\ Bytes(q) = SumFunctionOnSet(f, 1 .. Len(q))
      /\ IsFiniteSet(1 .. Len(q))
      /\ \A i \in 1 .. Len(q) : f[i] = q[i].ts /\ f[i] \in Int
  BY BytesIs
<1> HIDE DEF r
<1>3. /\ Bytes(r) = SumFunctionOnSet(e, 1 .. Len(r))
      /\ IsFiniteSet(1 .. Len(r))
      /\ \A i \in 1 .. Len(r) : e[i] = r[i].ts /\ e[i] \in Int
  BY <1>1, BytesIs
<1> HIDE DEF e, f
<1>4. PICK n \in Nat : n = Len(q)
  OBVIOUS
<1>5. k \in 1 .. n
  BY <1>4
<1> DEFINE S == 1 .. Len(q)
           A == 1 .. Len(r)
           B == S \ {k}
<1>6. A = 1 .. n - 1 /\ S = 1 .. n
  BY <1>1, <1>4
<1>7. /\ \A i \in A : g[i] = (IF i < k THEN i ELSE i + 1)
      /\ \A i \in A : g[i] \in B
  BY <1>4, <1>5, <1>6
<1> HIDE DEF g
<1>8. \A i, j \in A : g[i] = g[j] => i = j
  BY <1>5, <1>6, <1>7
<1>9. \A j \in B : \E i \in A : g[i] = j
  <2> SUFFICES ASSUME NEW j \in B
               PROVE  \E i \in A : g[i] = j
    OBVIOUS
  <2>1. CASE j < k
    <3>1. j \in A
      BY <2>1, <1>5, <1>6
    <3> QED
      BY <3>1, <2>1, <1>7
  <2>2. CASE j > k
    <3>1. j - 1 \in A /\ ~(j - 1 < k) /\ (j - 1) + 1 = j
      BY <2>2, <1>5, <1>6
    <3> QED
      BY <3>1, <1>7
  <2>3. j \in 1 .. n /\ j # k
    BY <1>6
  <2>4. j < k \/ j > k
    BY <2>3, <1>5
  <2> QED
    BY <2>1, <2>2, <2>4
<1>10. \A i \in A : e[i] = f[g[i]] /\ e[i] \in Int
  <2>1. \A i \in A : e[i] = r[i].ts /\ r[i] = q[g[i]] /\ g[i] \in S
    BY <1>1, <1>3, <1>4, <1>6, <1>7
  <2>2. \A i \in A : f[g[i]] = q[g[i]].ts
    BY <2>1, <1>2
  <2>3. \A i \in A : e[i] \in Int
    BY <1>3
  <2> QED
    BY <2>1, <2>2, <2>3
<1>11. Pairs(g, A, B)
  BY <1>7, <1>8, <1>9 DEF Pairs
<1>12. IsFiniteSet(A) /\ IsFiniteSet(S) /\ k \in S /\ \A i \in S : f[i] \in Int
  BY <1>2, <1>3, <1>5, <1>6
<1> DEFINE a == SumFunctionOnSet(e, A)
           b == SumFunctionOnSet(f, B)
<1> HIDE DEF A, B, S
<1>13. b = a
  BY <1>10, <1>11, <1>12, SumMoved
<1>14. SumFunctionOnSet(f, S) = f[k] + SumFunctionOnSet(f, S \ {k})
  BY <1>12, SumAdd
<1>15. Bytes(q) = f[k] + b /\ Bytes(r) = a /\ f[k] = q[k].ts
  BY <1>2, <1>3, <1>14, <1>12 DEF A, S, B
<1>16. Bytes(r) \in Int /\ f[k] \in Int
  BY <1>1, <1>12, BytesType
<1> HIDE DEF a, b
<1>17. Bytes(q) = q[k].ts + Bytes(r) /\ q[k].ts \in Int
  BY <1>13, <1>15, <1>16
<1> QED
  BY <1>16, <1>17 DEF r

(* What a step does to the bytes of queue h: msg_cbytes goes with the      *)
(* messages.                                                               *)
Weighs(h) ==
  \/ msgs'[h] = msgs[h] /\ que'[h].cbytes = que[h].cbytes
  \/ \E m \in Message : /\ msgs'[h] = Append(msgs[h], m)
                        /\ que'[h].cbytes = que[h].cbytes + m.ts
  \/ \E i \in DOMAIN msgs[h] : /\ msgs'[h] = Without(msgs[h], i)
                               /\ que'[h].cbytes = que[h].cbytes - msgs[h][i].ts
  \/ msgs'[h] = <<>> /\ que'[h].cbytes = 0

LEMMA WeighsBytes ==
  ASSUME Inv, BytesAccounted, \A h \in Hdr : Weighs(h)
  PROVE  BytesAccounted'
<1> SUFFICES ASSUME NEW h \in Hdr
             PROVE  que'[h].cbytes = Bytes(msgs'[h])
  BY DEF BytesAccounted, Bytes, Hdr
<1> DEFINE q == msgs[h]
           b == que[h].cbytes
<1>1. q \in Seq(Message) /\ b = Bytes(q)
  BY DEF Inv, TypeOK, BytesAccounted, Bytes
<1>2. CASE msgs'[h] = q /\ que'[h].cbytes = b
  BY <1>1, <1>2
<1>3. ASSUME NEW m \in Message, msgs'[h] = Append(q, m), que'[h].cbytes = b + m.ts
      PROVE  que'[h].cbytes = Bytes(msgs'[h])
  BY <1>1, <1>3, BytesAppend
<1>4. ASSUME NEW i \in DOMAIN q, msgs'[h] = Without(q, i),
             que'[h].cbytes = b - q[i].ts
      PROVE  que'[h].cbytes = Bytes(msgs'[h])
  BY <1>1, <1>4, BytesWithout
<1>5. CASE msgs'[h] = <<>> /\ que'[h].cbytes = 0
  BY <1>5, BytesEmpty
<1> QED
  BY <1>2, <1>3, <1>4, <1>5 DEF Weighs

LEMMA SameWeight ==
  ASSUME Inv, NEW h \in Hdr, UNCHANGED msgs,
         \/ que' = que
         \/ \E g \in Hdr : \/ que' = [que EXCEPT ![g].rwait = TRUE]
                           \/ que' = [que EXCEPT ![g].wwait = TRUE]
                           \/ que' = [que EXCEPT ![g].wwait = FALSE]
                           \/ \E n : que' = [que EXCEPT ![g].qbytes = n]
                           \/ \E n : que' = [que EXCEPT ![g].alloc = TRUE,
                                                        ![g].qbytes = n]
  PROVE  Weighs(h)
<1>1. ASSUME NEW g \in Hdr, NEW n,
             \/ que' = [que EXCEPT ![g].rwait = TRUE]
             \/ que' = [que EXCEPT ![g].wwait = TRUE]
             \/ que' = [que EXCEPT ![g].wwait = FALSE]
             \/ que' = [que EXCEPT ![g].qbytes = n]
             \/ que' = [que EXCEPT ![g].alloc = TRUE, ![g].qbytes = n]
      PROVE  que'[h].cbytes = que[h].cbytes
  <2>0. que \in [Hdr -> QueRecord]
    BY DEF Inv, TypeOK, QueRecord
  <2>1. CASE que' = [que EXCEPT ![g].rwait = TRUE]
    BY <2>0, <2>1 DEF QueRecord
  <2>2. CASE que' = [que EXCEPT ![g].wwait = TRUE]
    BY <2>0, <2>2 DEF QueRecord
  <2>3. CASE que' = [que EXCEPT ![g].wwait = FALSE]
    BY <2>0, <2>3 DEF QueRecord
  <2>4. CASE que' = [que EXCEPT ![g].qbytes = n]
    BY <2>0, <2>4 DEF QueRecord
  <2>5. CASE que' = [que EXCEPT ![g].alloc = TRUE, ![g].qbytes = n]
    BY <2>0, <2>5 DEF QueRecord
  <2> QED
    BY <1>1, <2>1, <2>2, <2>3, <2>4, <2>5
<1> QED
  BY <1>1 DEF Weighs

LEMMA PutWeighs ==
  ASSUME Inv, NEW p, NEW c \in Local, HdrOf(c.id) \in Hdr, Put(p, HdrOf(c.id), c),
         NEW h \in Hdr
  PROVE  Weighs(h)
<1> DEFINE g == HdrOf(c.id)
           m == [type |-> c.type, ts |-> c.size, text |-> c.text,
                 spot |-> IF c.size = 0 THEN 0 ELSE c.spot]
<1>1. m \in Message /\ m.ts = c.size
  BY DEF Local, Message
<1>2. /\ que' = [que EXCEPT ![g].cbytes = que[g].cbytes + c.size, ![g].rwait = FALSE]
      /\ msgs' = [msgs EXCEPT ![g] = Append(msgs[g], m)]
  BY DEF Put
<1> HIDE DEF m
<1>3. que \in [Hdr -> QueRecord] /\ msgs \in [Hdr -> Seq(Message)]
  BY DEF Inv, TypeOK, QueRecord
<1>4. que'[g].cbytes = que[g].cbytes + c.size /\ msgs'[g] = Append(msgs[g], m)
  BY <1>2, <1>3 DEF QueRecord
<1>5. h # g => que'[h] = que[h] /\ msgs'[h] = msgs[h]
  BY <1>2, <1>3
<1> QED
  BY <1>1, <1>4, <1>5 DEF Weighs

LEMMA OutDoneWeighs ==
  ASSUME Inv, NEW p \in Proc, OutDone(p), NEW h \in Hdr
  PROVE  Weighs(h)
<1> DEFINE c == call[p]
           g == HdrOf(c.id)
           n == msgs[g][c.pos].ts
<1>1. g \in Hdr
  BY HdrOfType DEF Inv, TypeOK, Local
<1>2. c.pos \in DOMAIN msgs[g]
  BY <1>1 DEF OutDone, Inv, LockedQueueExists, Holds
<1>3. /\ que' = [que EXCEPT ![g].cbytes = que[g].cbytes - n, ![g].wwait = FALSE]
      /\ msgs' = [msgs EXCEPT ![g] = Without(msgs[g], c.pos)]
  BY DEF OutDone
<1>4. que \in [Hdr -> QueRecord] /\ msgs \in [Hdr -> Seq(Message)]
  BY DEF Inv, TypeOK, QueRecord
<1>5. que'[g].cbytes = que[g].cbytes - n /\ msgs'[g] = Without(msgs[g], c.pos)
  BY <1>1, <1>3, <1>4 DEF QueRecord
<1>6. h # g => que'[h] = que[h] /\ msgs'[h] = msgs[h]
  BY <1>3, <1>4
<1> QED
  BY <1>2, <1>5, <1>6 DEF Weighs

LEMMA RmidWeighs ==
  ASSUME Inv, NEW p, NEW c, HdrOf(c.id) \in Hdr, Rmid(p, c), NEW h \in Hdr
  PROVE  Weighs(h)
<1> DEFINE g == HdrOf(c.id)
<1>1. /\ que'[g].cbytes = 0 /\ msgs'[g] = <<>>
      /\ h # g => que'[h] = que[h] /\ msgs'[h] = msgs[h]
  BY DEF Rmid, Inv, TypeOK
<1> QED
  BY <1>1 DEF Weighs

LEMMA FindmsgWeighs ==
  ASSUME Inv, NEW p, NEW c, HdrOf(c.id) \in Hdr, Findmsg(p, c), NEW h \in Hdr
  PROVE  Weighs(h)
<1>1. /\ msgs' = msgs
      /\ que' = que \/ que' = [que EXCEPT ![HdrOf(c.id)].rwait = TRUE]
  BY DEF Findmsg
<1> QED
  BY <1>1, SameWeight

LEMMA GetresWeighs ==
  ASSUME Inv, NEW p, NEW c \in Local, HdrOf(c.id) \in Hdr, Getres(p, c), NEW h \in Hdr
  PROVE  Weighs(h)
<1>1. CASE Put(p, HdrOf(c.id), c)
  BY <1>1, PutWeighs
<1>2. CASE /\ msgs' = msgs
           /\ que' = que \/ que' = [que EXCEPT ![HdrOf(c.id)].wwait = TRUE]
  BY <1>2, SameWeight
<1> QED
  BY <1>1, <1>2 DEF Getres, QueueFull, NoHeader, NoSpace, PutEmpty, Allocate

LEMMA EnterWeighs ==
  ASSUME Inv, NEW p, NEW c \in Local, Enter(p, c), NEW h \in Hdr
  PROVE  Weighs(h)
<1>1. HdrOf(c.id) \in Hdr
  BY HdrOfType DEF Local
<1>2. CASE UNCHANGED <<que, msgs>>
  BY <1>2, SameWeight
<1> QED
  BY <1>1, <1>2, FindmsgWeighs, RmidWeighs DEF Enter

LEMMA ActWeighs ==
  ASSUME Inv, FreeIsEmpty, NEW p \in Proc, Act(p), NEW h \in Hdr
  PROVE  Weighs(h)
<1>1. call[p] \in Local /\ HdrOf(call[p].id) \in Hdr
  BY HdrOfType DEF Inv, TypeOK, Local
<1>2. CASE UNCHANGED <<que, msgs>>
  BY <1>2, SameWeight
<1>3. CASE Begin(p)
  <2>1. PICK c \in Calls : LockBusy(p, Fresh(c), "enter") \/ Enter(p, Fresh(c))
    BY <1>3 DEF Begin
  <2>2. Fresh(c) \in Local
    BY <2>1, ConstAssumption DEF Fresh, Request, Local, Chan, NoChan
  <2> QED
    BY <2>1, <2>2, <1>2, EnterWeighs DEF LockBusy
<1>4. CASE Reenter(p) \/ Retry(p)
  BY <1>1, <1>2, <1>4, EnterWeighs, FindmsgWeighs, GetresWeighs
    DEF Reenter, Retry, LockBusy, Gone
<1>5. CASE TypeCopied(p)
  BY <1>1, <1>2, <1>5, GetresWeighs DEF TypeCopied
<1>6. CASE InDone(p)
  BY <1>1, <1>6, PutWeighs DEF InDone
<1>7. CASE msgget(p)
  <2>1. PICK g \in Hdr :
          /\ ~que[g].alloc
          /\ que' = [que EXCEPT ![g].alloc = TRUE, ![g].qbytes = msgmnb]
          /\ msgs' = [msgs EXCEPT ![g] = <<>>]
    BY <1>7 DEF msgget
  <2>2. msgs' = msgs
    BY <2>1 DEF FreeIsEmpty, Inv, TypeOK
  <2> QED
    BY <2>1, <2>2, SameWeight
<1>8. CASE SetDone(p) \/ Interrupted(p)
  <2>1. msgs' = msgs
    BY <1>8 DEF SetDone, Interrupted
  <2>2. \/ que' = que
        \/ que' = [que EXCEPT ![HdrOf(call[p].id)].wwait = FALSE]
        \/ \E n : que' = [que EXCEPT ![HdrOf(call[p].id)].qbytes = n]
    BY <1>8 DEF SetDone, Interrupted
  <2> QED
    BY <1>1, <2>1, <2>2, SameWeight
<1>9. CASE \/ CopyOut(p) \/ OutFails(p) \/ CopyIn(p) \/ InFails(p) \/ StatDone(p)
           \/ LockInterrupted(p) \/ Signal(p)
  BY <1>2, <1>9 DEF CopyOut, OutFails, CopyIn, InFails, StatDone, LockInterrupted, Signal
<1> QED
  BY <1>3, <1>4, <1>5, <1>6, <1>7, <1>8, <1>9, OutDoneWeighs DEF Act

LEMMA BytesInvariance == Spec => []BytesAccounted
<1>1. Init => BytesAccounted
  <2> SUFFICES ASSUME Init, NEW h \in Hdr
               PROVE  que[h].cbytes = Bytes(msgs[h])
    BY DEF BytesAccounted, Bytes
  <2>1. que[h].cbytes = 0 /\ msgs[h] = <<>>
    BY DEF Init
  <2> QED
    BY <2>1, BytesEmpty
<1>2. Inv /\ TextInv /\ BytesAccounted /\ [Next]_vars => BytesAccounted'
  <2> SUFFICES ASSUME Inv, TextInv, BytesAccounted, [Next]_vars
               PROVE  BytesAccounted'
    OBVIOUS
  <2>1. CASE UNCHANGED vars
    BY <2>1, SameWeight, WeighsBytes DEF vars
  <2>2. CASE Next
    <3>1. PICK p \in Proc : Act(p)
      BY <2>2 DEF Next, Act
    <3> QED
      BY <3>1, ActWeighs, WeighsBytes DEF TextInv
  <2> QED
    BY <2>1, <2>2
<1> QED
  BY <1>1, <1>2, TextInvariance, PTL DEF Spec

(* Over all the ways out of msgsnd, msgrcv and msgctl every header and     *)
(* every segment is free or belongs to one message or one sender, and      *)
(* msg_cbytes is the sum of the sizes of the messages on the queue.        *)
THEOREM SpaceIsAccounted ==
  Spec => []SpaceAccounted
BY HeadersNeverLost, SegmentsNeverLost, BytesInvariance, PTL DEF SpaceAccounted
=============================================================================
