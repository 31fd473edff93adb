----------------------------- MODULE StreamPipe -----------------------------
(***************************************************************************)
(* A stream pipe: two stream heads (uts/3b2/os/streamio.c) joined by the   *)
(* loop-around driver (io/sp.c), with the queue flow control, the block    *)
(* pool and the queue scheduler of io/stream.c.                            *)
(*                                                                         *)
(* What is written at one end goes straight to the read queue of the other *)
(* head; the driver's queues never hold a message.  The kernel is not      *)
(* preemptive: an action is what a process does from one point where it    *)
(* may sleep to the next, the queue scheduler it runs on the way included. *)
(*                                                                         *)
(* Abstracted: a message is one block and a block is of weight one; one    *)
(* class of blocks, all asked for at BPRI_LO; the bytes of a message are   *)
(* the numbers of the bytes in the order of their writing, modulo M.  Not  *)
(* modelled: FNDELAY, the message modes of I_SRDOPT, poll and SIGPOLL, and *)
(* a block for the hang-up that spclose cannot get.                        *)
(***************************************************************************)
EXTENDS Integers, Sequences, SequencesExt, FiniteSets

CONSTANTS
  Proc,       \* processes
  End,        \* the two ends
  Home(_),    \* the end a process has open
  NBLK,       \* blocks (dba_lo of the class)
  NSE,        \* stream events, of which a bufcall takes one
  hiwat, lowat,
  MaxLen,     \* bytes in a message, at most
  Calls       \* <<process, "read" or "write", number of bytes>>

M == NBLK * MaxLen + 1
Other(e) == CHOOSE d \in End : d # e
At(e) == {p \in Proc : Home(p) = e}

ASSUME ConstAssumption ==
  /\ IsFiniteSet(Proc)
  /\ \E a, b \in End : a # b /\ End = {a, b}
  /\ \A p \in Proc : Home(p) \in End
  /\ {NBLK, NSE, hiwat, lowat, MaxLen} \subseteq Nat
  /\ lowat < hiwat
  /\ Calls \subseteq Proc \X {"read", "write"} \X (0 .. MaxLen)
  /\ \A c \in Calls : c[2] = "read" => c[3] > 0

VARIABLES
  rdq,        \* the messages on the read queue of each stream head
  qfull,      \* the ends whose read queue has QFULL
  qwantw,     \* the ends whose read queue has QWANTW
  rsleep,     \* the stream heads with RSLEEP
  wsleep,     \* the stream heads with WSLEEP
  state,      \* per end: "ok", "STRHUP" or "STRERR" (which keeps STRHUP)
  fds,        \* per end: the processes that have it open
  strbcflag,  \* queuerun is to look at the bufcall list
  bufcalls,   \* the processes on the bufcall list, in order
  nfree,      \* blocks that may be allocated
  pc,         \* where each process is
  count,      \* u_count
  mp,         \* the message a reader has taken off the queue
  sent        \* number of the next byte to be put at each end (history)

queues == <<rdq, qfull, qwantw>>
heads == <<rsleep, wsleep, state, fds>>
pool == <<strbcflag, bufcalls, nfree>>
procVars == <<pc, count, mp>>
vars == <<queues, heads, pool, procVars, sent>>

Message == [at : 0 .. M - 1, len : 0 .. MaxLen]
NoMsg == [at |-> 0, len |-> 0]

Init ==
  /\ rdq = [e \in End |-> <<>>]
  /\ qfull = {} /\ qwantw = {} /\ rsleep = {} /\ wsleep = {}
  /\ state = [e \in End |-> "ok"]
  /\ fds = [e \in End |-> At(e)]
  /\ strbcflag = FALSE /\ bufcalls = <<>> /\ nfree = NBLK
  /\ pc = [p \in Proc |-> "user"]
  /\ count = [p \in Proc |-> 0]
  /\ mp = [p \in Proc |-> NoMsg]
  /\ sent = [e \in End |-> 0]

-----------------------------------------------------------------------------
(* Processes that move: wakeup, setrun, and the queue scheduler. *)

Readers(e) == {p \in At(e) : pc[p] = "rsleep"}
Writers(e) == {p \in At(e) : pc[p] = "wsleep"}

(* wakeup on the read and the write queue of a stream head. *)
Woken(pcs, S) ==
  [p \in Proc |->
     IF p \notin S THEN pcs[p]
     ELSE CASE pcs[p] = "rsleep" -> "rwoken"
            [] pcs[p] = "wsleep" -> "wwoken"
            [] pcs[p] = "bsleep" -> "bwoken"
            [] OTHER -> pcs[p]]

Moved(p, to) == [pc EXCEPT ![p] = to]

(* u_count of a process that has n bytes to go, unless its call returns. *)
Counts(p, n) == [count EXCEPT ![p] = IF pc'[p] = "user" THEN 0 ELSE n]
Keeps(p) == count' = Counts(p, count[p])

(* The callers that the pass of queuerun over the list calls: as many as   *)
(* there are blocks.                                                       *)
Called(n) == SubSeq(bufcalls, 1, IF n < Len(bufcalls) THEN n ELSE Len(bufcalls))

(* queuerun, once the processes are as in pcs, n blocks are free and       *)
(* strbcflag is bcflag; the service procedures (strwsrv) are part of the   *)
(* action that enables them.                                               *)
queuerun(pcs, n, bcflag) ==
  IF bcflag
  THEN /\ pc' = Woken(pcs, {Called(n)[i] : i \in DOMAIN Called(n)})
       /\ bufcalls' = SubSeq(bufcalls, Len(Called(n)) + 1, Len(bufcalls))
  ELSE pc' = pcs /\ UNCHANGED bufcalls

(* Faulty: compares with the limit before the block is counted as free. *)
freebEarly(n, list) == n > 0 /\ list # <<>> /\ nfree + n > 1

(* freeb of n blocks sets strbcflag when somebody is on the list. *)
freeb(n, list) == n > 0 /\ list # <<>>

(* allocb at BPRI_LO, and bufcall when it fails; without a stream event    *)
(* the write gives up with ENOSR.                                          *)
allocb(pcs, p, list) ==
  IF nfree > 0
  THEN /\ nfree' = nfree - 1 /\ bufcalls' = list
       /\ pc' = [pcs EXCEPT ![p] = "copyin"]
  ELSE /\ IF Len(list) < NSE
          THEN /\ bufcalls' = Append(list, p)
               /\ pc' = [pcs EXCEPT ![p] = "bsleep"]
          ELSE bufcalls' = list /\ pc' = [pcs EXCEPT ![p] = "user"]
       /\ UNCHANGED nfree

-----------------------------------------------------------------------------
(* The read queue of a stream head. *)

(* Faulty: the queue may hold one more. *)
putqFull(q) == Len(q) > hiwat

(* QFULL after putq or putbq has left the messages q. *)
putqFills(q) == Len(q) >= hiwat

(* getq has come to the low water mark when it leaves q. *)
getqDrains(q) == Len(q) <= lowat

(* strwsrv of the other head runs when getq at e leaves q. *)
strwsrv(e, q) ==
  IF e \in qwantw /\ getqDrains(q) /\ Other(e) \in wsleep
  THEN Writers(Other(e)) ELSE {}

(* The flags when getq has taken the first message: at the low water mark  *)
(* the writers at the other head are called (strwsrv).                     *)
getqFlags(e, q) ==
  LET called == e \in qwantw /\ getqDrains(q)
  IN  /\ qwantw' = IF called THEN qwantw \ {e} ELSE qwantw
      /\ wsleep' = IF called THEN wsleep \ {Other(e)} ELSE wsleep

(* Faulty: what is left of a message goes behind the others. *)
putbqTail(m, q) == Append(q, m)

(* putbq: in front of the others. *)
putbq(m, q) == <<m>> \o q

-----------------------------------------------------------------------------
(* strwrite. *)

(* canput, and the wait for room. *)
canput(p, pcs, list) ==
  LET e == Home(p) IN
  IF Other(e) \in qfull
  THEN /\ qwantw' = qwantw \cup {Other(e)}
       /\ wsleep' = wsleep \cup {e}
       /\ pc' = [pcs EXCEPT ![p] = "wsleep"]
       /\ UNCHANGED <<bufcalls, nfree>>
  ELSE allocb(pcs, p, list) /\ UNCHANGED <<qwantw, wsleep>>

strwrite(p, n) ==
  /\ pc[p] = "user" /\ p \in fds[Home(p)]
  /\ state[Home(p)] = "ok"
  /\ canput(p, pc, bufcalls)
  /\ count' = Counts(p, n)
  /\ UNCHANGED <<rdq, qfull, rsleep, state, fds, strbcflag, mp, sent>>

(* strwaitq returns to strwrite. *)
WriterRuns(p) ==
  /\ pc[p] = "wwoken"
  /\ IF state[Home(p)] = "ok"
     THEN canput(p, pc, bufcalls)
     ELSE pc' = Moved(p, "user") /\ UNCHANGED <<qwantw, wsleep, bufcalls, nfree>>
  /\ Keeps(p)
  /\ UNCHANGED <<rdq, qfull, rsleep, state, fds, strbcflag, mp, sent>>

(* The first call of p on the list is taken off it. *)
strunbcall(list, p) == RemoveFirst(list, p)

(* strwaitbuf returns to strmakemsg. *)
BufferWaiterRuns(p) ==
  /\ pc[p] = "bwoken"
  /\ allocb(pc, p, strunbcall(bufcalls, p))
  /\ Keeps(p)
  /\ UNCHANGED <<queues, heads, strbcflag, mp, sent>>

(* Faulty: the block is forgotten when copyin fails. *)
CopyInFailsLeak(p) ==
  /\ pc[p] = "copyin"
  /\ pc' = Moved(p, "user")
  /\ Keeps(p)
  /\ UNCHANGED <<queues, heads, pool, mp, sent>>

(* copyin fails: the block is given back. *)
CopyInFails(p) ==
  /\ pc[p] = "copyin"
  /\ pc' = Moved(p, "user")
  /\ nfree' = nfree + 1
  /\ strbcflag' = (strbcflag \/ freeb(1, bufcalls))
  /\ Keeps(p)
  /\ UNCHANGED <<queues, heads, bufcalls, mp, sent>>

(* strrput of a data message at d; the readers wake and the queue grows. *)
strrput(d, m) ==
  /\ rdq' = [rdq EXCEPT ![d] = Append(@, m)]
  /\ qfull' = IF putqFills(rdq'[d]) THEN qfull \cup {d} ELSE qfull
  /\ rsleep' = rsleep \ {d}

(* The message goes down the stream to the other head. *)
Put(p) ==
  LET d == Other(Home(p))
      m == [at |-> sent[d], len |-> count[p]]
  IN  /\ pc[p] = "copyin" /\ fds[d] # {}
      /\ strrput(d, m)
      /\ sent' = [sent EXCEPT ![d] = (@ + count[p]) % M]
      /\ queuerun(Woken(Moved(p, "user"), IF d \in rsleep THEN Readers(d) ELSE {}),
                  nfree, strbcflag)
      /\ strbcflag' = FALSE
      /\ Keeps(p)
      /\ UNCHANGED <<qwantw, wsleep, state, fds, nfree, mp>>

(* The other end has been closed since the write began: spput answers with *)
(* M_ERROR, which breaks this head and empties its read queue.             *)
PutRefused(p) ==
  LET e == Home(p)
      n == Len(rdq[e]) + 1
  IN  /\ pc[p] = "copyin" /\ fds[Other(e)] = {}
      /\ state' = [state EXCEPT ![e] = "STRERR"]
      /\ rdq' = [rdq EXCEPT ![e] = <<>>]
      /\ qfull' = qfull \ {e} /\ qwantw' = qwantw \ {e}
      /\ nfree' = nfree + n
      /\ queuerun(Woken(Moved(p, "user"), Readers(e) \cup Writers(e)),
                  nfree + n, strbcflag \/ freeb(n, bufcalls))
      /\ strbcflag' = FALSE
      /\ Keeps(p)
      /\ UNCHANGED <<rsleep, wsleep, fds, mp, sent>>

-----------------------------------------------------------------------------
(* strread.  rflg is set in every turn of the loop but the first.          *)

(* Nothing to take: an answer, or the wait for data. *)
ReadEmpty(p) ==
  LET e == Home(p) IN
  /\ rdq[e] = <<>>
  /\ IF state[e] # "ok"
     THEN pc' = Moved(p, "user") /\ UNCHANGED rsleep
     ELSE pc' = Moved(p, "rsleep") /\ rsleep' = rsleep \cup {e}
  /\ UNCHANGED <<queues, wsleep>>

(* getq gives a message of data; n blocks are free. *)
ReadTake(p, n, bcflag) ==
  LET e == Home(p)
      q == Tail(rdq[e])
  IN  /\ rdq[e] # <<>> /\ Head(rdq[e]).len > 0
      /\ mp' = [mp EXCEPT ![p] = Head(rdq[e])]
      /\ rdq' = [rdq EXCEPT ![e] = q]
      /\ qfull' = IF Len(q) < hiwat THEN qfull \ {e} ELSE qfull
      /\ getqFlags(e, q)
      /\ queuerun(Woken(Moved(p, "copyout"), strwsrv(e, q)), n, bcflag)
      /\ nfree' = n /\ strbcflag' = FALSE
      /\ UNCHANGED rsleep

(* getq gives a message of no data, which ends the read: it is put back    *)
(* when the read has data and taken as the end of file when not.           *)
ReadEnd(p, rflg, n, bcflag) ==
  LET e == Home(p)
      q == Tail(rdq[e])
      left == IF rflg THEN putbq(Head(rdq[e]), q) ELSE q
  IN  /\ rdq[e] # <<>> /\ Head(rdq[e]).len = 0
      /\ rdq' = [rdq EXCEPT ![e] = left]
      /\ qfull' = IF putqFills(left) THEN qfull \cup {e} ELSE qfull \ {e}
      /\ getqFlags(e, q)
      /\ queuerun(Woken(Moved(p, "user"), strwsrv(e, q)), n, bcflag)
      /\ nfree' = IF rflg THEN n ELSE n + 1
      /\ strbcflag' = (~rflg /\ freeb(1, bufcalls'))
      /\ mp' = [mp EXCEPT ![p] = NoMsg]
      /\ UNCHANGED rsleep

(* The first turn of the loop. *)
ReadFirst(p) ==
  \/ ReadEmpty(p) /\ UNCHANGED <<pool, mp>>
  \/ ReadTake(p, nfree, strbcflag)
  \/ ReadEnd(p, FALSE, nfree, strbcflag)

strread(p, n) ==
  /\ pc[p] = "user" /\ p \in fds[Home(p)]
  /\ state[Home(p)] # "STRERR"
  /\ ReadFirst(p)
  /\ count' = Counts(p, n)
  /\ UNCHANGED <<state, fds, sent>>

(* strwaitq returns to strread. *)
ReaderRuns(p) ==
  /\ pc[p] = "rwoken"
  /\ IF state[Home(p)] = "STRERR"
     THEN pc' = Moved(p, "user") /\ UNCHANGED <<queues, rsleep, wsleep, pool, mp>>
     ELSE ReadFirst(p)
  /\ Keeps(p)
  /\ UNCHANGED <<state, fds, sent>>

(* iomove fails: the message is lost. *)
CopyOutFails(p) ==
  /\ pc[p] = "copyout"
  /\ pc' = Moved(p, "user")
  /\ nfree' = nfree + 1
  /\ strbcflag' = (strbcflag \/ freeb(1, bufcalls))
  /\ mp' = [mp EXCEPT ![p] = NoMsg]
  /\ Keeps(p)
  /\ UNCHANGED <<queues, heads, bufcalls, sent>>

(* iomove of the message; what the caller has no room for goes back. *)
CopyOut(p) ==
  LET e == Home(p)
      m == mp[p]
      n == count[p]
      bcflag == strbcflag \/ freeb(1, bufcalls)
  IN  /\ pc[p] = "copyout"
      /\ IF n < m.len
         THEN /\ rdq' = [rdq EXCEPT ![e] =
                           putbq([at |-> (m.at + n) % M, len |-> m.len - n], @)]
              /\ qfull' = IF putqFills(rdq'[e]) THEN qfull \cup {e} ELSE qfull
              /\ pc' = Moved(p, "user")
              /\ mp' = [mp EXCEPT ![p] = NoMsg]
              /\ UNCHANGED <<qwantw, rsleep, wsleep, pool>>
         ELSE \/ /\ n = m.len \/ rdq[e] = <<>>
                 /\ pc' = Moved(p, "user")
                 /\ nfree' = nfree + 1 /\ strbcflag' = bcflag
                 /\ mp' = [mp EXCEPT ![p] = NoMsg]
                 /\ UNCHANGED <<queues, rsleep, wsleep, bufcalls>>
              \/ n > m.len /\ ReadTake(p, nfree + 1, bcflag)
              \/ n > m.len /\ ReadEnd(p, TRUE, nfree + 1, bcflag)
      /\ count' = Counts(p, n - m.len)
      /\ UNCHANGED <<state, fds, sent>>

-----------------------------------------------------------------------------
(* Signals that end a sleep, the last close, the scheduler. *)

(* Faulty: the others go on sleeping. *)
InterruptedQuiet(p, from) == {}

(* strwaitq after a signal: the flag is cleared, so all that sleep for it  *)
(* are called to set it again.                                             *)
InterruptedCalls(p, from) == {q \in At(Home(p)) : pc[q] = from} \ {p}

Interrupted(p) ==
  LET e == Home(p) IN
  /\ \/ /\ pc[p] \in {"wsleep", "wwoken"}
        /\ wsleep' = wsleep \ {e}
        /\ pc' = Woken(Moved(p, "user"), InterruptedCalls(p, "wsleep"))
        /\ UNCHANGED rsleep
     \/ /\ pc[p] \in {"rsleep", "rwoken"}
        /\ rsleep' = rsleep \ {e}
        /\ pc' = Woken(Moved(p, "user"), InterruptedCalls(p, "rsleep"))
        /\ UNCHANGED wsleep
  /\ Keeps(p)
  /\ UNCHANGED <<queues, state, fds, pool, mp, sent>>

(* strwaitbuf after a signal. *)
BufferWaitInterrupted(p) ==
  /\ pc[p] \in {"bsleep", "bwoken"}
  /\ pc' = Moved(p, "user")
  /\ bufcalls' = strunbcall(bufcalls, p)
  /\ Keeps(p)
  /\ UNCHANGED <<queues, heads, strbcflag, nfree, mp, sent>>

(* Faulty: the readers are left for the next message to call. *)
M_HANGUPWriters(d) == Writers(d)

(* strrput of M_HANGUP calls the readers and the writers. *)
M_HANGUP(d) == Readers(d) \cup Writers(d)

(* close; the last one is strclose with spclose. *)
close(p) ==
  LET e == Home(p)
      d == Other(e)
      last == fds[e] = {p}
      n == Len(rdq[e])
      flag == strbcflag \/ freeb(n, bufcalls)
  IN  /\ pc[p] = "user" /\ p \in fds[e]
      /\ fds' = [fds EXCEPT ![e] = @ \ {p}]
      /\ IF last
         THEN /\ rdq' = [rdq EXCEPT ![e] = <<>>]
              /\ qfull' = qfull \ {e} /\ qwantw' = qwantw \ {e}
              /\ rsleep' = rsleep \ {e} /\ wsleep' = wsleep \ {e}
              /\ state' = IF fds[d] # {} /\ state[d] = "ok"
                          THEN [state EXCEPT ![d] = "STRHUP"] ELSE state
              /\ pc' = IF fds[d] # {} THEN Woken(pc, M_HANGUP(d)) ELSE pc
              /\ nfree' = nfree + n
              /\ strbcflag' = flag
         ELSE UNCHANGED <<queues, rsleep, wsleep, state, strbcflag, nfree, pc>>
      /\ UNCHANGED <<bufcalls, count, mp, sent>>

(* A new stream pipe, when the old one is closed at both ends (strclose    *)
(* left the queues empty and the flags clear).                             *)
spopen ==
  /\ \A e \in End : fds[e] = {}
  /\ state' = [e \in End |-> "ok"]
  /\ fds' = [e \in End |-> At(e)]
  /\ UNCHANGED <<queues, rsleep, wsleep, pool, procVars, sent>>

(* Faulty: only the idle loop runs the queues. *)
runqueuesIdle ==
  /\ strbcflag /\ \A p \in Proc : pc[p] \in {"wsleep", "rsleep", "bsleep"}
  /\ queuerun(pc, nfree, TRUE)
  /\ strbcflag' = FALSE
  /\ UNCHANGED <<queues, heads, nfree, count, mp, sent>>

(* queuerun on the way back to user mode, and from the idle loop. *)
runqueues ==
  /\ strbcflag
  /\ queuerun(pc, nfree, TRUE)
  /\ strbcflag' = FALSE
  /\ UNCHANGED <<queues, heads, nfree, count, mp, sent>>

(* I_FLUSH of FLUSHR by p: the driver sends it to the other head, which    *)
(* returns it; FLUSHW flushes the read queue of the other head.            *)
I_FLUSH(p, e) ==
  /\ pc[p] = "user" /\ p \in fds[Home(p)]
  /\ state[Home(p)] = "ok"
  /\ rdq' = [rdq EXCEPT ![e] = <<>>]
  /\ qfull' = qfull \ {e} /\ qwantw' = qwantw \ {e}
  /\ nfree' = nfree + Len(rdq[e])
  /\ queuerun(pc, nfree + Len(rdq[e]),
              strbcflag \/ freeb(Len(rdq[e]), bufcalls))
  /\ strbcflag' = FALSE
  /\ UNCHANGED <<heads, count, mp, sent>>

-----------------------------------------------------------------------------
Runs(p) ==
  \/ WriterRuns(p) \/ ReaderRuns(p) \/ BufferWaiterRuns(p)
  \/ Put(p) \/ PutRefused(p) \/ CopyInFails(p)
  \/ CopyOut(p) \/ CopyOutFails(p)

Next ==
  \/ \E c \in Calls : \/ (c[2] = "write" /\ strwrite(c[1], c[3]))
                       \/ (c[2] = "read" /\ strread(c[1], c[3]))
  \/ \E p \in Proc : Runs(p) \/ Interrupted(p) \/ close(p)
  \/ spopen
  \/ runqueues

(* Next without the two cases in which the stream head forgets a sleeper:  *)
(* see WritersAreCalled and BufferWaitersAreCalled.                        *)
AllNext ==
  \/ Next
  \/ \E p \in Proc : BufferWaitInterrupted(p) \/ \E e \in End : I_FLUSH(p, e)

Spec == Init /\ [][Next]_vars
AllSpec == Init /\ [][AllNext]_vars

(* The queue scheduler runs before the return to user mode and when the    *)
(* processor is idle; a process that can run gets to run.                  *)
FairSpec == Spec /\ WF_vars(runqueues) /\ \A p \in Proc : WF_vars(Runs(p))

-----------------------------------------------------------------------------
(* Properties. *)

States == {"user", "wsleep", "wwoken", "bsleep", "bwoken", "copyin",
           "rsleep", "rwoken", "copyout"}

(* Every variable has its type; the flags of a queue say what is on it. *)
TypeOK ==
  /\ rdq \in [End -> Seq(Message)]
  /\ {qfull, qwantw, rsleep, wsleep} \subseteq SUBSET End
  /\ qfull = {e \in End : Len(rdq[e]) >= hiwat}
  /\ state \in [End -> {"ok", "STRHUP", "STRERR"}]
  /\ fds \in [End -> SUBSET Proc]
  /\ strbcflag \in BOOLEAN
  /\ bufcalls \in Seq(Proc)
  /\ nfree \in 0 .. NBLK
  /\ pc \in [Proc -> States]
  /\ count \in [Proc -> 0 .. MaxLen]
  /\ mp \in [Proc -> Message]
  /\ sent \in [End -> 0 .. M - 1]

(* A writer that sleeps for room will be called when there is room: its    *)
(* stream head has WSLEEP and the queue it waits for has QWANTW and is     *)
(* above its low water mark, so that a getq of that queue comes to it      *)
(* (canput, strwaitq, getq, strwsrv; M_HANGUP and M_ERROR).                *)
WritersAreCalled ==
  \A p \in Proc : pc[p] = "wsleep" =>
    LET d == Other(Home(p))
    IN  /\ Home(p) \in wsleep
        /\ state[Home(p)] = "ok"
        /\ d \in qwantw
        /\ Len(rdq[d]) > lowat

IsReader(p) == \E c \in Calls : c[1] = p /\ c[2] = "read"

(* No two processes read the same end: of two, one may find the queue      *)
(* empty while the other holds what it will put back (strread, putbq).     *)
OneReader ==
  \A p, q \in Proc : IsReader(p) /\ IsReader(q) /\ Home(p) = Home(q) => p = q

(* A reader that sleeps has nothing to read, no end of file to see, and    *)
(* RSLEEP to be called by (strread, strwaitq, strrput); where OneReader    *)
(* holds.                                                                  *)
ReadersAreCalled ==
  \A p \in Proc : pc[p] = "rsleep" =>
    /\ Home(p) \in rsleep
    /\ rdq[Home(p)] = <<>>
    /\ state[Home(p)] = "ok"

(* A writer that waits for a block is on the list of bufcall, and blocks   *)
(* that are free are on their way to a caller: the list will be looked at, *)
(* or those already called may take them all (bufcall, freeb, queuerun).   *)
BufferWaitersAreCalled ==
  \A p \in Proc : pc[p] = "bsleep" =>
    /\ Contains(bufcalls, p)
    /\ strbcflag \/ nfree <= Cardinality({q \in Proc : pc[q] = "bwoken"})

(* Every block is free, on a queue, or with a process: no error, signal,   *)
(* end of file, flush or close loses one or frees one twice.               *)
BlocksAreConserved ==
  LET a == CHOOSE e \in End : TRUE
  IN  NBLK = nfree + Len(rdq[a]) + Len(rdq[Other(a)])
               + Cardinality({p \in Proc : pc[p] \in {"copyin", "copyout"}})

(* A queue passes its high water mark by no more than what the writers had *)
(* been let through with and a reader has put back (canput is not asked    *)
(* again after the sleeps in strmakemsg).                                  *)
OverrunIsBounded ==
  \A e \in End :
    Len(rdq[e]) + Cardinality({p \in At(e) : pc[p] = "copyout"})
      <= hiwat + Cardinality(At(Other(e)))

(* The bytes that are still to be delivered at an end, those in the hands  *)
(* of its reader first, are the last ones put there, each once and in      *)
(* order, however messages are split and put back (putbq, putq).  A write   *)
(* that meets a closed end breaks its own head (STRERR), whose queue is    *)
(* then emptied under the reader.                                          *)
BytesInOrder ==
  \A e \in {d \in End : state[d] # "STRERR"} :
    LET held == {p \in At(e) : pc[p] = "copyout"}
        all == IF held = {} THEN rdq[e]
               ELSE <<mp[CHOOSE p \in held : TRUE]>> \o rdq[e]
    IN  \A i \in DOMAIN all :
          (all[i].at + all[i].len) % M
            = IF i = Len(all) THEN sent[e] ELSE all[i + 1].at

(* Blocks that are free go to the writers that wait for one, until either  *)
(* runs out: the pass of queuerun that freeb asks for does come, and those *)
(* it calls do run (freeb, queuerun, setrun).                              *)
FreeBlocksAreOffered ==
  (bufcalls # <<>> /\ nfree > 0) ~> (bufcalls = <<>> \/ nfree = 0)
=============================================================================
