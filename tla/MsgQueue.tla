------------------------------ MODULE MsgQueue ------------------------------
(***************************************************************************)
(* System V messages (uts/3b2/io/msg.c, sys/msg.h).                        *)
(*                                                                         *)
(* A call gives up the processor where it sleeps and where it copies from  *)
(* or to user memory, which may page-fault.  A queue is locked over such a *)
(* copy; a process that finds it locked sleeps for the lock, and a signal  *)
(* then ends the call at once (no PCATCH).  Message headers and the text   *)
(* pool are shared by all queues and have no lock.                         *)
(*                                                                         *)
(* Abstracted: keys and permissions, which only let a call through; a call *)
(* that is refused changes nothing and is no step.  msgfp is the number of *)
(* free headers, msgmap the set of free segments.  Contents are given by   *)
(* segment: the text of a message is one value, in all its segments.       *)
(***************************************************************************)
EXTENDS Integers, Sequences, FiniteSets, Functions

CONSTANTS
  Proc,       \* process slots
  msgmni,     \* number of queues
  msgtql,     \* number of message headers
  msgseg,     \* number of segments in the pool
  msgssz,     \* bytes per segment
  msgmax,     \* largest message
  msgmnb,     \* bytes allowed on a new queue
  MaxSeq,     \* bound: how often a queue is removed
  Super,      \* processes of the super-user
  Text,       \* contents of messages
  NoText,     \* contents of a segment never written
  Calls       \* the calls processes make

(* size is msgsz, or the new msg_qbytes of IPC_SET; type is mtype or       *)
(* msgtyp.  spot, at: text of the message being sent and the segments      *)
(* copied in.  pos, got: the message being received and the contents       *)
(* copied out.  on: what a sender sleeps for.                              *)
Request == [op : {"snd", "rcv", "set", "stat", "rmid"}, id : Nat, type : Int,
            size : Nat, nowait : BOOLEAN, noerror : BOOLEAN,
            text : Text \cup {NoText}]

ASSUME ConstAssumption ==
  /\ {msgmni, msgssz} \subseteq Nat \ {0}
  /\ {msgtql, msgseg, msgmax, msgmnb, MaxSeq} \subseteq Nat
  /\ NoText \notin Text
  /\ Calls \subseteq Request
  /\ \A c \in Calls : c.op = "snd" => c.type > 0 /\ c.size <= msgmax

VARIABLES
  que,        \* alloc, seq, cbytes, qbytes, MSG_RWAIT, MSG_WWAIT of each queue
  msgs,       \* the messages of each queue, from msg_first to msg_last
  lock,       \* msglock
  nfree,      \* length of the list of free headers, msgfp
  msgmap,     \* the free segments
  mapwant,    \* mapwant(msgmap) is not zero
  pool,       \* contents of the segments
  pc,         \* where each process is
  call,       \* its request, and its local variables
  wchan,      \* the channel each process sleeps on
  sig         \* a signal that is caught or fatal is pending

resVars == <<nfree, msgmap, mapwant, pool>>
vars == <<que, msgs, lock, resVars, pc, call, wchan, sig>>

Hdr == 0 .. msgmni - 1
Seg == 0 .. msgseg - 1
NoChan == <<"none", 0>>
Chan == ({"lock", "rcv", "snd"} \X Hdr) \cup {<<"hdr", 0>>, <<"map", 0>>, NoChan}

HdrOf(id) == id % msgmni
btoq(n) == (n + msgssz - 1) \div msgssz
Segs(spot, n) == spot .. spot + n - 1

Fresh(c) == [op |-> c.op, id |-> c.id, type |-> c.type, size |-> c.size,
             nowait |-> c.nowait, noerror |-> c.noerror, text |-> c.text,
             spot |-> 0, at |-> 0, pos |-> 0, got |-> <<>>, on |-> NoChan]

NoCall == Fresh([op |-> "stat", id |-> 0, type |-> 0, size |-> 0,
                 nowait |-> FALSE, noerror |-> FALSE, text |-> NoText])

(* msginit *)
Init ==
  /\ que = [h \in Hdr |-> [alloc |-> FALSE, seq |-> 0, cbytes |-> 0,
                           qbytes |-> 0, rwait |-> FALSE, wwait |-> FALSE]]
  /\ msgs = [h \in Hdr |-> <<>>]
  /\ lock = [h \in Hdr |-> FALSE]
  /\ nfree = msgtql
  /\ msgmap = Seg
  /\ mapwant = FALSE
  /\ pool = [s \in Seg |-> NoText]
  /\ pc = [p \in Proc |-> "user"]
  /\ call = [p \in Proc |-> NoCall]
  /\ wchan = [p \in Proc |-> NoChan]
  /\ sig = [p \in Proc |-> FALSE]

-----------------------------------------------------------------------------
(* Locks, sleeping and leaving. *)

(* The test of msgconv, once the queue is locked. *)
Exists(id) == que[HdrOf(id)].alloc /\ id \div msgmni = que[HdrOf(id)].seq

(* wakeup of every process on one of the channels. *)
Woken(chans) == [q \in Proc |-> IF wchan[q] \in chans THEN NoChan ELSE wchan[q]]

(* Faulty: those who wait for the lock are not woken. *)
LeaveSilent(p, h, chans) ==
  /\ lock' = [lock EXCEPT ![h] = FALSE]
  /\ wchan' = Woken(chans)
  /\ pc' = [pc EXCEPT ![p] = "user"]
  /\ call' = [call EXCEPT ![p] = NoCall]
  /\ UNCHANGED sig

(* The call ends, the queue is unlocked and the channels are woken too. *)
Leave(p, h, chans) ==
  /\ lock' = [lock EXCEPT ![h] = FALSE]
  /\ wchan' = Woken(chans \cup {<<"lock", h>>})
  /\ pc' = [pc EXCEPT ![p] = "user"]
  /\ call' = [call EXCEPT ![p] = NoCall]
  /\ UNCHANGED sig

(* Faulty: the queue is not locked again. *)
GoUnlocked(p, h, where, c) ==
  /\ lock' = [lock EXCEPT ![h] = FALSE]
  /\ wchan' = Woken({<<"lock", h>>})
  /\ pc' = [pc EXCEPT ![p] = where]
  /\ call' = [call EXCEPT ![p] = c]
  /\ UNCHANGED sig

(* The queue stays locked, or is locked again at once; those who wait for  *)
(* the lock are woken by the unlocking in between.                         *)
Go(p, h, where, c) ==
  /\ lock' = [lock EXCEPT ![h] = TRUE]
  /\ wchan' = Woken({<<"lock", h>>})
  /\ pc' = [pc EXCEPT ![p] = where]
  /\ call' = [call EXCEPT ![p] = c]
  /\ UNCHANGED sig

(* The queue is unlocked and the process sleeps. *)
SleepOn(p, h, chan, c, chans) ==
  /\ lock' = [lock EXCEPT ![h] = FALSE]
  /\ wchan' = [Woken(chans \cup {<<"lock", h>>}) EXCEPT ![p] = chan]
  /\ pc' = [pc EXCEPT ![p] = "wait"]
  /\ call' = [call EXCEPT ![p] = [c EXCEPT !.on = chan]]
  /\ UNCHANGED sig

(* What freeing headers and segments wakes. *)
HeaderWakes == IF nfree = 0 THEN {<<"hdr", 0>>} ELSE {}
MapWakes == IF mapwant THEN {<<"map", 0>>} ELSE {}

(* mfree of the segments segs, none if there was no text. *)
mfree(segs) ==
  /\ msgmap' = msgmap \cup segs
  /\ mapwant' = IF segs = {} THEN mapwant ELSE FALSE

-----------------------------------------------------------------------------
(* msgrcv *)

Matches(q, want) ==
  {i \in DOMAIN q : \/ want = 0
                    \/ q[i].type = want
                    \/ want < 0 /\ q[i].type <= -want}

(* Faulty: the last of the lowest type. *)
IsPickLast(q, want, i) ==
  /\ i \in Matches(q, want)
  /\ \A j \in Matches(q, want) :
       IF want < 0 THEN q[i].type < q[j].type \/ (q[i].type = q[j].type /\ i >= j)
                   ELSE i <= j

(* The message msgrcv takes: the first that matches, and for a negative    *)
(* msgtyp the first of the lowest type.                                    *)
IsPick(q, want, i) ==
  /\ i \in Matches(q, want)
  /\ \A j \in Matches(q, want) :
       IF want < 0 THEN q[i].type < q[j].type \/ (q[i].type = q[j].type /\ i <= j)
                   ELSE i <= j

Shorter(m, n) == IF m < n THEN m ELSE n

(* msgrcv from findmsg on, with the queue locked. *)
Findmsg(p, c) ==
  LET h == HdrOf(c.id)
      found == Matches(msgs[h], c.type)
  IN  \/ /\ found = {} /\ ~c.nowait
         /\ que' = [que EXCEPT ![h].rwait = TRUE]
         /\ SleepOn(p, h, <<"rcv", h>>, c, {})
         /\ UNCHANGED <<msgs, resVars>>
      \/ /\ found = {} /\ c.nowait
         /\ Leave(p, h, {})
         /\ UNCHANGED <<que, msgs, resVars>>
      \/ \E i \in found :
           /\ IsPick(msgs[h], c.type, i)
           /\ IF c.size >= msgs[h][i].ts \/ c.noerror
              THEN Go(p, h, "out", [c EXCEPT !.pos = i])
              ELSE Leave(p, h, {})
           /\ UNCHANGED <<que, msgs, resVars>>

(* The segments of the message that are copied out. *)
OutSegs(c) ==
  btoq(Shorter(c.size, msgs[HdrOf(c.id)][c.pos].ts))

(* The copy out goes on to the next segment; it may have faulted. *)
CopyOut(p) ==
  LET c == call[p]
      m == msgs[HdrOf(c.id)][c.pos]
  IN  /\ pc[p] = "out"
      /\ Len(c.got) < OutSegs(c)
      /\ call' = [call EXCEPT ![p].got = Append(@, pool[m.spot + Len(@)])]
      /\ UNCHANGED <<que, msgs, lock, resVars, pc, wchan, sig>>

(* The copy fails (EFAULT): the message stays on the queue. *)
OutFails(p) ==
  /\ pc[p] = "out"
  /\ Leave(p, HdrOf(call[p].id), {})
  /\ UNCHANGED <<que, msgs, resVars>>

Without(q, i) == SubSeq(q, 1, i - 1) \o SubSeq(q, i + 1, Len(q))

(* Faulty: writers are not woken when space on the queue is given back. *)
OutDoneSilent(p) ==
  LET c == call[p]
      h == HdrOf(c.id)
      m == msgs[h][c.pos]
      segs == Segs(m.spot, btoq(m.ts))
  IN  /\ pc[p] = "out"
      /\ Len(c.got) = OutSegs(c)
      /\ que' = [que EXCEPT ![h].cbytes = @ - m.ts, ![h].wwait = FALSE]
      /\ msgs' = [msgs EXCEPT ![h] = Without(@, c.pos)]
      /\ mfree(segs)
      /\ nfree' = nfree + 1
      /\ Leave(p, h, HeaderWakes \cup (IF segs = {} THEN {} ELSE MapWakes))
      /\ UNCHANGED pool

(* The copy is complete: msgfree takes the message off the queue. *)
OutDone(p) ==
  LET c == call[p]
      h == HdrOf(c.id)
      m == msgs[h][c.pos]
      segs == Segs(m.spot, btoq(m.ts))
  IN  /\ pc[p] = "out"
      /\ Len(c.got) = OutSegs(c)
      /\ que' = [que EXCEPT ![h].cbytes = @ - m.ts, ![h].wwait = FALSE]
      /\ msgs' = [msgs EXCEPT ![h] = Without(@, c.pos)]
      /\ mfree(segs)
      /\ nfree' = nfree + 1
      /\ Leave(p, h, HeaderWakes \cup (IF segs = {} THEN {} ELSE MapWakes)
                       \cup (IF que[h].wwait THEN {<<"snd", h>>} ELSE {}))
      /\ UNCHANGED pool

-----------------------------------------------------------------------------
(* msgsnd *)

(* malloc(msgmap, n): first fit. *)
FirstFit(n) ==
  {i \in Seg : /\ Segs(i, n) \subseteq msgmap
               /\ \A j \in 0 .. i - 1 : ~(Segs(j, n) \subseteq msgmap)}

Room(h, size) == size + que[h].cbytes <= que[h].qbytes

(* The message goes to the end of the queue, which wakes the readers. *)
Put(p, h, c) ==
  /\ que' = [que EXCEPT ![h].cbytes = @ + c.size, ![h].rwait = FALSE]
  /\ msgs' = [msgs EXCEPT ![h] =
                Append(@, [type |-> c.type, ts |-> c.size, text |-> c.text,
                           spot |-> IF c.size = 0 THEN 0 ELSE c.spot])]
  /\ Leave(p, h, IF que[h].rwait THEN {<<"rcv", h>>} ELSE {})

(* msgsnd cannot go on: it gives up at once, or sleeps. *)
Wait(p, h, c, chan, chans) ==
  IF c.nowait THEN Leave(p, h, chans) ELSE SleepOn(p, h, chan, c, chans)

(* msgsnd from getres on, with the queue locked. *)
QueueFull(p, c) ==
  LET h == HdrOf(c.id)
  IN  /\ ~Room(h, c.size)
      /\ que' = IF c.nowait THEN que ELSE [que EXCEPT ![h].wwait = TRUE]
      /\ Wait(p, h, c, <<"snd", h>>, {})
      /\ UNCHANGED <<msgs, resVars>>

NoHeader(p, c) ==
  LET h == HdrOf(c.id)
  IN  /\ Room(h, c.size) /\ nfree = 0
      /\ Wait(p, h, c, <<"hdr", 0>>, {})
      /\ UNCHANGED <<que, msgs, resVars>>

(* The header is taken and put back. *)
NoSpace(p, c) ==
  LET h == HdrOf(c.id)
  IN  /\ Room(h, c.size) /\ nfree > 0
      /\ c.size > 0 /\ FirstFit(btoq(c.size)) = {}
      /\ mapwant' = (mapwant \/ ~c.nowait)
      /\ Wait(p, h, c, <<"map", 0>>, IF nfree = 1 THEN {<<"hdr", 0>>} ELSE {})
      /\ UNCHANGED <<que, msgs, nfree, msgmap, pool>>

(* Faulty: the list of free headers is not looked at. *)
PutEmptyUnchecked(p, c) ==
  LET h == HdrOf(c.id)
  IN  /\ Room(h, c.size)
      /\ c.size = 0
      /\ Put(p, h, c)
      /\ nfree' = nfree - 1
      /\ UNCHANGED <<msgmap, mapwant, pool>>

PutEmpty(p, c) ==
  LET h == HdrOf(c.id)
  IN  /\ Room(h, c.size) /\ nfree > 0
      /\ c.size = 0
      /\ Put(p, h, c)
      /\ nfree' = nfree - 1
      /\ UNCHANGED <<msgmap, mapwant, pool>>

(* Faulty: the size is rounded down. *)
AllocateShort(p, c) ==
  LET h == HdrOf(c.id)
  IN  /\ Room(h, c.size) /\ nfree > 0
      /\ c.size > 0
      /\ \E spot \in FirstFit(btoq(c.size)) :
           /\ msgmap' = msgmap \ Segs(spot, c.size \div msgssz)
           /\ Go(p, h, "text", [c EXCEPT !.spot = spot, !.at = 0])
      /\ nfree' = nfree - 1
      /\ UNCHANGED <<que, msgs, mapwant, pool>>

Allocate(p, c) ==
  LET h == HdrOf(c.id)
  IN  /\ Room(h, c.size) /\ nfree > 0
      /\ c.size > 0
      /\ \E spot \in FirstFit(btoq(c.size)) :
           /\ msgmap' = msgmap \ Segs(spot, btoq(c.size))
           /\ Go(p, h, "text", [c EXCEPT !.spot = spot, !.at = 0])
      /\ nfree' = nfree - 1
      /\ UNCHANGED <<que, msgs, mapwant, pool>>

Getres(p, c) ==
  \/ QueueFull(p, c) \/ NoHeader(p, c) \/ NoSpace(p, c)
  \/ PutEmpty(p, c) \/ Allocate(p, c)

(* The type is copied in and found good, or not. *)
TypeCopied(p) ==
  /\ pc[p] = "type"
  /\ \/ Getres(p, call[p])
     \/ /\ Leave(p, HdrOf(call[p].id), {})
        /\ UNCHANGED <<que, msgs, resVars>>

(* The copy of the text goes on to the next segment; it may have faulted. *)
CopyIn(p) ==
  LET c == call[p]
  IN  /\ pc[p] = "text"
      /\ c.at < btoq(c.size)
      /\ pool' = [pool EXCEPT ![c.spot + c.at] = c.text]
      /\ call' = [call EXCEPT ![p].at = @ + 1]
      /\ UNCHANGED <<que, msgs, lock, nfree, msgmap, mapwant, pc, wchan, sig>>

(* Faulty: the segments are given back and the header is not. *)
InFailsLeaks(p) ==
  LET c == call[p]
  IN  /\ pc[p] = "text"
      /\ c.at < btoq(c.size)
      /\ mfree(Segs(c.spot, btoq(c.size)))
      /\ Leave(p, HdrOf(c.id), MapWakes)
      /\ UNCHANGED <<que, msgs, nfree, pool>>

(* The copy fails: segments and header are given back. *)
InFails(p) ==
  LET c == call[p]
  IN  /\ pc[p] = "text"
      /\ c.at < btoq(c.size)
      /\ mfree(Segs(c.spot, btoq(c.size)))
      /\ nfree' = nfree + 1
      /\ Leave(p, HdrOf(c.id), HeaderWakes \cup MapWakes)
      /\ UNCHANGED <<que, msgs, pool>>

(* The text is in. *)
InDone(p) ==
  /\ pc[p] = "text"
  /\ call[p].at = btoq(call[p].size)
  /\ Put(p, HdrOf(call[p].id), call[p])
  /\ UNCHANGED resVars

-----------------------------------------------------------------------------
(* msgget and msgctl *)

(* msgget that makes a new queue in the first header that is not in use. *)
msgget(p) ==
  /\ pc[p] = "user"
  /\ \E h \in Hdr :
       /\ ~que[h].alloc
       /\ \A g \in 0 .. h - 1 : que[g].alloc
       /\ que' = [que EXCEPT ![h].alloc = TRUE, ![h].qbytes = msgmnb]
       /\ msgs' = [msgs EXCEPT ![h] = <<>>]
  /\ UNCHANGED <<lock, resVars, pc, call, wchan, sig>>

(* IPC_RMID with the queue locked: every message is freed. *)
Rmid(p, c) ==
  LET h == HdrOf(c.id)
      q == msgs[h]
      segs == UNION {Segs(q[i].spot, btoq(q[i].ts)) : i \in DOMAIN q}
  IN  /\ que[h].seq < MaxSeq
      /\ que' = [que EXCEPT ![h] = [alloc |-> FALSE, seq |-> @.seq + 1,
                                    cbytes |-> 0, qbytes |-> @.qbytes,
                                    rwait |-> FALSE, wwait |-> FALSE]]
      /\ msgs' = [msgs EXCEPT ![h] = <<>>]
      /\ mfree(segs)
      /\ nfree' = nfree + Len(q)
      /\ Leave(p, h, (IF q = <<>> THEN {} ELSE HeaderWakes)
                       \cup (IF segs = {} THEN {} ELSE MapWakes)
                       \cup (IF que[h].rwait THEN {<<"rcv", h>>} ELSE {})
                       \cup (IF que[h].wwait THEN {<<"snd", h>>} ELSE {}))
      /\ UNCHANGED pool

(* IPC_SET once the new values are copied in, or the copy failed; only the *)
(* super-user may raise the limit.                                         *)
SetDone(p) ==
  LET c == call[p]
      h == HdrOf(c.id)
  IN  /\ pc[p] = "set"
      /\ \/ UNCHANGED que
         \/ /\ c.size <= que[h].qbytes \/ p \in Super
            /\ que' = [que EXCEPT ![h].qbytes = c.size]
      /\ Leave(p, h, {})
      /\ UNCHANGED <<msgs, resVars>>

(* IPC_STAT once the queue is copied out. *)
StatDone(p) ==
  /\ pc[p] = "stat"
  /\ Leave(p, HdrOf(call[p].id), {})
  /\ UNCHANGED <<que, msgs, resVars>>

-----------------------------------------------------------------------------
(* Entry to a call, and its continuation after a sleep: msgconv. *)

(* msgconv finds the queue locked and sleeps. *)
LockBusy(p, c, where) ==
  /\ lock[HdrOf(c.id)]
  /\ wchan' = [wchan EXCEPT ![p] = <<"lock", HdrOf(c.id)>>]
  /\ pc' = [pc EXCEPT ![p] = where]
  /\ call' = [call EXCEPT ![p] = c]
  /\ UNCHANGED <<que, msgs, lock, resVars, sig>>

(* msgconv locks the queue, finds that it does not exist and unlocks it. *)
Gone(p, c) ==
  /\ ~lock[HdrOf(c.id)]
  /\ ~Exists(c.id)
  /\ Leave(p, HdrOf(c.id), {})
  /\ UNCHANGED <<que, msgs, resVars>>

(* msgconv locks the queue and the call goes on to its first copy. *)
Enter(p, c) ==
  LET h == HdrOf(c.id)
  IN  /\ ~lock[h] /\ Exists(c.id)
      /\ \/ c.op = "rcv" /\ Findmsg(p, c)
         \/ c.op = "rmid" /\ Rmid(p, c)
         \/ /\ c.op = "snd" /\ Go(p, h, "type", c)
            /\ UNCHANGED <<que, msgs, resVars>>
         \/ /\ c.op \in {"set", "stat"} /\ Go(p, h, c.op, c)
            /\ UNCHANGED <<que, msgs, resVars>>

(* A system call. *)
Begin(p) ==
  /\ pc[p] = "user"
  /\ \E c \in Calls : LockBusy(p, Fresh(c), "enter") \/ Enter(p, Fresh(c))

(* sleep has returned and no signal is pending. *)
Awake(p) == wchan[p] = NoChan /\ ~sig[p]

(* The first msgconv tries the lock again. *)
Reenter(p) ==
  /\ pc[p] = "enter" /\ Awake(p)
  /\ \/ LockBusy(p, call[p], "enter")
     \/ Gone(p, call[p])
     \/ Enter(p, call[p])

(* Faulty: the queue is not looked for after the sleep. *)
RetryUnverified(p) ==
  LET c == call[p]
  IN  /\ pc[p] \in {"wait", "again"} /\ Awake(p)
      /\ \/ LockBusy(p, c, "again")
         \/ /\ ~lock[HdrOf(c.id)]
            /\ \/ c.op = "rcv" /\ Findmsg(p, c)
               \/ c.op = "snd" /\ Getres(p, c)

(* msgrcv and msgsnd start over after a sleep, if the queue still exists. *)
Retry(p) ==
  LET c == call[p]
  IN  /\ pc[p] \in {"wait", "again"} /\ Awake(p)
      /\ \/ LockBusy(p, c, "again")
         \/ Gone(p, c)
         \/ /\ ~lock[HdrOf(c.id)] /\ Exists(c.id)
            /\ \/ c.op = "rcv" /\ Findmsg(p, c)
               \/ c.op = "snd" /\ Getres(p, c)

(* Faulty: an interrupted sender does not lock the queue. *)
InterruptedUnlocked(p) ==
  LET h == HdrOf(call[p].id)
      clears == Exists(call[p].id) /\ call[p].on = <<"snd", h>>
  IN  /\ pc[p] = "wait" /\ wchan[p] = NoChan /\ sig[p]
      /\ que' = IF clears THEN [que EXCEPT ![h].wwait = FALSE] ELSE que
      /\ wchan' = Woken(IF clears THEN {<<"snd", h>>} ELSE {})
      /\ pc' = [pc EXCEPT ![p] = "user"]
      /\ call' = [call EXCEPT ![p] = NoCall]
      /\ sig' = [sig EXCEPT ![p] = FALSE]
      /\ UNCHANGED <<msgs, lock, resVars>>

(* sleep returns 1 to msgrcv or msgsnd (EINTR).  A sender locks the queue  *)
(* and clears MSG_WWAIT if that is what it slept for; if the queue is      *)
(* locked the pending signal ends the call in msgconv.                     *)
Interrupted(p) ==
  LET h == HdrOf(call[p].id)
      locks == call[p].op = "snd" /\ ~lock[h]
      clears == locks /\ Exists(call[p].id) /\ call[p].on = <<"snd", h>>
  IN  /\ pc[p] = "wait" /\ wchan[p] = NoChan /\ sig[p]
      /\ que' = IF clears THEN [que EXCEPT ![h].wwait = FALSE] ELSE que
      /\ wchan' = Woken((IF locks THEN {<<"lock", h>>} ELSE {})
                          \cup (IF clears THEN {<<"snd", h>>} ELSE {}))
      /\ pc' = [pc EXCEPT ![p] = "user"]
      /\ call' = [call EXCEPT ![p] = NoCall]
      /\ sig' = [sig EXCEPT ![p] = FALSE]
      /\ UNCHANGED <<msgs, lock, resVars>>

(* A signal ends the sleep for a lock, and the call. *)
LockInterrupted(p) ==
  /\ pc[p] \in {"enter", "again"} /\ wchan[p] = NoChan /\ sig[p]
  /\ pc' = [pc EXCEPT ![p] = "user"]
  /\ call' = [call EXCEPT ![p] = NoCall]
  /\ sig' = [sig EXCEPT ![p] = FALSE]
  /\ UNCHANGED <<que, msgs, lock, resVars, wchan>>

(* psignal takes a process off its sleep queue; a signal that is ignored   *)
(* is not pending when sleep looks.                                        *)
Signal(p) ==
  /\ pc[p] \in {"enter", "wait", "again"}
  /\ \/ ~sig[p] /\ sig' = [sig EXCEPT ![p] = TRUE]
     \/ wchan[p] # NoChan /\ UNCHANGED sig
  /\ wchan' = [wchan EXCEPT ![p] = NoChan]
  /\ UNCHANGED <<que, msgs, lock, resVars, pc, call>>

Next ==
  \E p \in Proc :
    \/ msgget(p) \/ Begin(p) \/ Reenter(p) \/ Retry(p)
    \/ CopyOut(p) \/ OutFails(p) \/ OutDone(p)
    \/ TypeCopied(p) \/ CopyIn(p) \/ InFails(p) \/ InDone(p)
    \/ SetDone(p) \/ StatDone(p)
    \/ Interrupted(p) \/ LockInterrupted(p) \/ Signal(p)

Spec == Init /\ [][Next]_vars

(* The scheduler runs processes in the kernel and page faults end. *)
Step(p) ==
  \/ CopyOut(p) \/ OutFails(p) \/ OutDone(p)
  \/ TypeCopied(p) \/ CopyIn(p) \/ InFails(p) \/ InDone(p)
  \/ SetDone(p) \/ StatDone(p)

FairSpec == Spec /\ \A p \in Proc : WF_vars(Step(p))

-----------------------------------------------------------------------------
Message == [type : Int, ts : Nat, text : Text \cup {NoText}, spot : Nat]
Local == [op : {"snd", "rcv", "set", "stat", "rmid"}, id : Nat, type : Int,
          size : Nat, nowait : BOOLEAN, noerror : BOOLEAN,
          text : Text \cup {NoText}, spot : Nat, at : Nat, pos : Nat,
          got : Seq(Text \cup {NoText}), on : Chan]

(* Every variable keeps its type. *)
TypeOK ==
  /\ que \in [Hdr -> [alloc : BOOLEAN, seq : Nat, cbytes : Int, qbytes : Nat,
                      rwait : BOOLEAN, wwait : BOOLEAN]]
  /\ msgs \in [Hdr -> Seq(Message)]
  /\ lock \in [Hdr -> BOOLEAN]
  /\ nfree \in Nat
  /\ msgmap \in SUBSET Seg
  /\ mapwant \in BOOLEAN
  /\ pool \in [Seg -> Text \cup {NoText}]
  /\ pc \in [Proc -> {"user", "enter", "wait", "again", "type", "text", "out",
                      "set", "stat"}]
  /\ call \in [Proc -> Local]
  /\ wchan \in [Proc -> Chan]
  /\ sig \in [Proc -> BOOLEAN]

(* p is between msgconv and the unlocking of queue h. *)
Holds(p, h) ==
  pc[p] \in {"type", "text", "out", "set", "stat"} /\ HdrOf(call[p].id) = h

(* msglock: a queue is locked exactly while one process is in the middle   *)
(* of a call on it; every way out of msgsnd, msgrcv and msgctl unlocks.    *)
LockHasOneHolder ==
  \A h \in Hdr :
    /\ lock[h] <=> \E p \in Proc : Holds(p, h)
    /\ \A p, q \in Proc : Holds(p, h) /\ Holds(q, h) => p = q

(* A call that copies to or from a user never works on a removed queue or  *)
(* on its successor, and the message that msgrcv copies out is still there.*)
LockedQueueExists ==
  \A p \in Proc, h \in Hdr :
    Holds(p, h) =>
      Exists(call[p].id) /\ (pc[p] = "out" => call[p].pos \in DOMAIN msgs[h])

(* A process asleep is marked where the code that wakes it looks: the lock *)
(* is held, MSG_RWAIT, MSG_WWAIT or mapwant is set, msgfp is empty.        *)
SleepersFlagged ==
  \A p \in Proc, h \in Hdr :
    /\ wchan[p] = <<"lock", h>> => lock[h]
    /\ wchan[p] = <<"rcv", h>> => que[h].rwait
    /\ wchan[p] = <<"snd", h>> => que[h].wwait
    /\ wchan[p] = <<"hdr", 0>> => nfree = 0
    /\ wchan[p] = <<"map", 0>> => mapwant

(* Nobody sleeps for what is there: a receiver while its queue exists and  *)
(* holds no message for it, a sender while its message does not fit on the *)
(* queue, no header is free or no free range is long enough.               *)
BlockedForCause ==
  \A p \in Proc :
    LET c == call[p]
        h == HdrOf(c.id)
    IN  /\ wchan[p] = <<"rcv", h>> =>
             Exists(c.id) /\ Matches(msgs[h], c.type) = {}
        /\ wchan[p] = <<"snd", h>> => Exists(c.id) /\ ~Room(h, c.size)
        /\ wchan[p] = <<"map", 0>> => FirstFit(btoq(c.size)) = {}

(* The messages of all queues, and the text of each and of each sender. *)
Queued == UNION {{h} \X DOMAIN msgs[h] : h \in Hdr}
Sending == {p \in Proc : pc[p] = "text"}
TextOf(x) == LET m == msgs[x[1]][x[2]] IN Segs(m.spot, btoq(m.ts))
Taken(p) == Segs(call[p].spot, btoq(call[p].size))

HeadersAccounted ==
  nfree + Cardinality(Queued) + Cardinality(Sending) = msgtql

SegmentsAccounted ==
  /\ Seg = msgmap \cup (UNION {TextOf(x) : x \in Queued})
                  \cup (UNION {Taken(p) : p \in Sending})
  /\ \A x \in Queued :
       /\ TextOf(x) \cap msgmap = {}
       /\ \A y \in Queued \ {x} : TextOf(x) \cap TextOf(y) = {}
       /\ \A p \in Sending : TextOf(x) \cap Taken(p) = {}
  /\ \A p \in Sending :
       /\ Taken(p) \cap msgmap = {}
       /\ \A q \in Sending \ {p} : Taken(p) \cap Taken(q) = {}

BytesAccounted ==
  \A h \in Hdr :
    que[h].cbytes = SumFunction([i \in DOMAIN msgs[h] |-> msgs[h][i].ts])

(* Headers and segments are accounted for over all the ways out of the     *)
(* calls: each is free or belongs to one message or one sender, and        *)
(* msg_cbytes is the sum of the sizes.                                     *)
SpaceAccounted == HeadersAccounted /\ SegmentsAccounted /\ BytesAccounted

(* The text of a message on a queue is what its sender handed over, though *)
(* other messages are copied in and out and freed meanwhile.               *)
TextIntact ==
  \A x \in Queued : \A s \in TextOf(x) : pool[s] = msgs[x[1]][x[2]].text

(* msgrcv hands over the whole text of one message, as much of it as there *)
(* is room for, and when it takes the message off the queue, which may be  *)
(* many steps after it chose it, no message that should go first is there. *)
ReceivesInOrder ==
  [][\A p \in Proc :
       LET c == call[p]
           q == msgs[HdrOf(c.id)]
           m == q[c.pos]
           suits(x) == IF c.type < 0 THEN x.type <= -c.type
                                     ELSE c.type \in {0, x.type}
           before(j) == IF c.type < 0
                        THEN q[j].type < m.type \/ (q[j].type = m.type /\ j < c.pos)
                        ELSE j < c.pos
       IN  (pc[p] = "out" /\ pc'[p] = "user" /\ msgs' # msgs) =>
             /\ suits(m)
             /\ ~\E j \in DOMAIN q : suits(q[j]) /\ before(j)
             /\ c.got = [k \in 1 .. btoq(Shorter(c.size, m.ts)) |-> m.text]]_vars

(* msg.h: a queue is locked because a page fault lets others run in the    *)
(* middle of a call; no step of theirs changes the queue.                  *)
LockedQueueUntouched ==
  [][\A p \in Proc, h \in Hdr :
       (Holds(p, h) /\ Holds(p, h)') =>
         que'[h] = que[h] /\ msgs'[h] = msgs[h]]_vars

(* Whoever sleeps for a lock is woken: a holder always comes to unlock.    *)
LockSleepersWake ==
  \A p \in Proc, h \in Hdr :
    wchan[p] = <<"lock", h>> ~> wchan[p] # <<"lock", h>>
=============================================================================
