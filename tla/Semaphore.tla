----------------------------- MODULE Semaphore -----------------------------
(***************************************************************************)
(* System V semaphores (uts/3b2/io/sem.c, sys/sem.h).                      *)
(*                                                                         *)
(* The kernel is not preemptive, so a call runs from its entry to the      *)
(* point where it sleeps, page-faults on user memory or returns; that is   *)
(* one action.  PageFault says whether the copy of the operation list from *)
(* user memory may fault, which lets other processes run in the middle of  *)
(* it.                                                                     *)
(*                                                                         *)
(* Abstracted: keys and permissions (ipc.c), which only decide whether a   *)
(* call is let through; a call that is refused changes nothing here and is *)
(* no step.  The undo structure of a process is a function from semid and  *)
(* semaphore number to the adjustment, zero where the sorted array has no  *)
(* entry.  semmap is the set of the semaphores no set owns.  sempid and    *)
(* the times are left out.                                                 *)
(***************************************************************************)
EXTENDS Integers, Sequences, FiniteSets, Functions

CONSTANTS
  Proc,       \* process slots: an exited process is replaced by a new one
  semmni,     \* number of semaphore headers
  semmns,     \* number of semaphores in the system
  semmsl,     \* largest set
  semvmx,     \* largest semaphore value
  semaem,     \* largest adjustment on exit
  semume,     \* undo entries per process
  semmnu,     \* undo structures in the system
  CountMod,   \* counters are unsigned shorts: 2^16
  MaxSeq,     \* bound: how many sets of a header are removed
  MaxCount,   \* bound: counters for which ignored signals arrive
  Lists,      \* operation lists that processes hand to semop
  PageFault   \* the copy of the list may page-fault

Op == [num : Nat, op : Int, undo : BOOLEAN, nowait : BOOLEAN]

ASSUME ConstAssumption ==
  /\ semmni \in Nat \ {0}
  /\ {semmns, semmsl, semvmx, semaem, semume, semmnu, MaxSeq, MaxCount}
       \subseteq Nat
  /\ CountMod \in Nat \ {0}
  /\ Lists \subseteq Seq(Op)
  /\ PageFault \in BOOLEAN

VARIABLES
  sema,       \* the headers
  semval,     \* value of each semaphore
  semncnt,    \* count of processes awaiting a greater value
  semzcnt,    \* count of processes awaiting zero
  undo,       \* the processes with an undo structure (sem_undo[] # NULL)
  aoe,        \* the adjust-on-exit value of each process, semid and number
  semtmp,     \* the operation holding area
  pc,         \* where each process is
  call,       \* arguments and local state of semop
  wchan,      \* the channel each process sleeps on
  sig,        \* a signal that is caught or fatal is pending
  settled     \* history: value of each semaphore were every adjustment made

semVars  == <<sema, semval, semncnt, semzcnt>>
undoVars == <<undo, aoe>>
procVars == <<pc, call, wchan, sig>>
vars == <<semVars, undoVars, semtmp, procVars, settled>>

Hdr  == 0 .. semmni - 1
Slot == 0 .. semmns - 1
Num  == 0 .. semmsl - 1
Id   == 0 .. semmni * (MaxSeq + 1) - 1
NoChan == <<"none", 0>>
Chan == ({"n", "z"} \X Slot) \cup {NoChan}

(* copied: operations copied before a fault.  again: not the first pass.   *)
(* semp: the counter slept on, which the interrupted call gives back.      *)
NoCall == [id |-> 0, ops |-> <<>>, copied |-> 0, again |-> FALSE,
           semp |-> NoChan]

(* seminit *)
Init ==
  /\ sema = [h \in Hdr |-> [alloc |-> FALSE, seq |-> 0, base |-> 0,
                            nsems |-> 0]]
  /\ semval = [s \in Slot |-> 0]
  /\ semncnt = [s \in Slot |-> 0]
  /\ semzcnt = [s \in Slot |-> 0]
  /\ undo = {}
  /\ aoe = [p \in Proc |-> [e \in Id \X Num |-> 0]]
  /\ semtmp = <<>>
  /\ pc = [p \in Proc |-> "user"]
  /\ call = [p \in Proc |-> NoCall]
  /\ wchan = [p \in Proc |-> NoChan]
  /\ sig = [p \in Proc |-> FALSE]
  /\ settled = [s \in Slot |-> 0]

-----------------------------------------------------------------------------
(* Identifiers, sets and slots. *)

HdrOf(id) == id % semmni

(* semconv: the semid names an allocated header and its current use. *)
semconv(id) ==
  /\ sema[HdrOf(id)].alloc
  /\ id \div semmni = sema[HdrOf(id)].seq

SlotsOf(h) ==
  IF sema[h].alloc THEN sema[h].base .. sema[h].base + sema[h].nsems - 1
                   ELSE {}

FreeSlots == Slot \ UNION {SlotsOf(h) : h \in Hdr}

SlotOf(id, num) == sema[HdrOf(id)].base + num

(* wakeup of every process on one of the channels. *)
Woken(w, chans) == [q \in Proc |-> IF w[q] \in chans THEN NoChan ELSE w[q]]

ZeroAt(cnt, slots) == [s \in Slot |-> IF s \in slots THEN 0 ELSE cnt[s]]

(* The counters are reset and their channels woken, where not zero. *)
Wake(ns, zs) ==
  /\ semncnt' = ZeroAt(semncnt, ns)
  /\ semzcnt' = ZeroAt(semzcnt, zs)
  /\ wchan' = Woken(wchan,
                ({"n"} \X {s \in ns : semncnt[s] > 0})
                  \cup ({"z"} \X {s \in zs : semzcnt[s] > 0}))

(* Faulty: only the first of the semaphores is looked for. *)
semunrmFirst(id, low, high) ==
  aoe' = [q \in Proc |-> [e \in Id \X Num |->
            IF e[1] = id /\ e[2] = low THEN 0 ELSE aoe[q][e]]]

(* semunrm: the entries of the semaphores low .. high of a set go. *)
semunrm(id, low, high) ==
  aoe' = [q \in Proc |-> [e \in Id \X Num |->
            IF e[1] = id /\ e[2] \in low .. high THEN 0 ELSE aoe[q][e]]]

-----------------------------------------------------------------------------
(* semget and semctl. *)

(* malloc(semmap, n): first fit. *)
FirstFit(n) ==
  {i \in Slot : /\ i .. i + n - 1 \subseteq FreeSlots
                /\ \A j \in 0 .. i - 1 : ~(j .. j + n - 1 \subseteq FreeSlots)}

(* semget that makes a new set in the first header that is not in use. *)
semget(p) ==
  /\ pc[p] = "user"
  /\ \E h \in Hdr, n \in 1 .. semmsl :
       /\ ~sema[h].alloc
       /\ \A g \in 0 .. h - 1 : sema[g].alloc
       /\ \E i \in FirstFit(n) :
            sema' = [sema EXCEPT ![h].alloc = TRUE, ![h].base = i,
                                 ![h].nsems = n]
  /\ UNCHANGED <<semval, semncnt, semzcnt, undoVars, semtmp, procVars, settled>>

(* semctl IPC_RMID *)
RemoveSet(p) ==
  /\ pc[p] = "user"
  /\ \E id \in Id :
       LET h == HdrOf(id)
       IN  /\ semconv(id)
           /\ sema[h].seq < MaxSeq
           /\ semunrm(id, 0, sema[h].nsems)
           /\ semval' = ZeroAt(semval, SlotsOf(h))
           /\ settled' = ZeroAt(settled, SlotsOf(h))
           /\ Wake(SlotsOf(h), SlotsOf(h))
           /\ sema' = [sema EXCEPT ![h].alloc = FALSE, ![h].seq = @ + 1]
  /\ UNCHANGED <<undo, semtmp, pc, call, sig>>

(* semctl SETVAL *)
SetVal(p) ==
  /\ pc[p] = "user"
  /\ \E id \in Id, num \in Num, v \in 0 .. semvmx :
       LET s == SlotOf(id, num)
       IN  /\ semconv(id)
           /\ num < sema[HdrOf(id)].nsems
           /\ semval' = [semval EXCEPT ![s] = v]
           /\ settled' = [settled EXCEPT ![s] = v]
           /\ Wake(IF v # 0 THEN {s} ELSE {}, IF v = 0 THEN {s} ELSE {})
           /\ semunrm(id, num, num)
  /\ UNCHANGED <<sema, undo, semtmp, pc, call, sig>>

(* semctl SETALL *)
SetAll(p) ==
  /\ pc[p] = "user"
  /\ \E id \in Id :
       LET own == SlotsOf(HdrOf(id))
       IN  /\ semconv(id)
           /\ semunrm(id, 0, sema[HdrOf(id)].nsems)
           /\ \E new \in [own -> 0 .. semvmx] :
                /\ semval' = [s \in Slot |-> IF s \in own THEN new[s]
                                             ELSE semval[s]]
                /\ settled' = [s \in Slot |-> IF s \in own THEN new[s]
                                              ELSE settled[s]]
                /\ Wake({s \in own : new[s] # 0}, {s \in own : new[s] = 0})
  /\ UNCHANGED <<sema, undo, semtmp, pc, call, sig>>

-----------------------------------------------------------------------------
(* semop: what a list of operations does, operation by operation. *)

(* The sum of the operations at the positions idx of the list. *)
Net(list, idx) == SumFunctionOnSet([i \in DOMAIN list |-> list[i].op], idx)

(* The value of semaphore s after the first j operations. *)
ValueAfter(id, list, j, s) ==
  semval[s] + Net(list, {i \in 1 .. j : SlotOf(id, list[i].num) = s})

(* The adjustment of p for e after the first j operations. *)
AoeAfter(p, id, list, j, e) ==
  aoe[p][e] - Net(list, {i \in 1 .. j : list[i].undo /\ <<id, list[i].num>> = e})

(* The value lets operation j be done. *)
Fits(id, list, j) ==
  LET o == list[j]
      v == ValueAfter(id, list, j - 1, SlotOf(id, o.num))
  IN  /\ o.op > 0 => v + o.op <= semvmx
      /\ o.op < 0 => v >= -o.op
      /\ o.op = 0 => v = 0

(* Faulty: one entry more than there is room for. *)
semaoeFull(p, id, list, j) ==
  LET old(e) == AoeAfter(p, id, list, j - 1, e)
      mine   == <<id, list[j].num>>
  IN  /\ list[j].op \in -semaem .. semaem
      /\ p \in undo \/ Cardinality(undo) < semmnu
      /\ \/ old(mine) # 0
         \/ Cardinality({e \in Id \X Num : old(e) # 0}) <= semume
      /\ old(mine) - list[j].op \in -semaem .. semaem

(* semaoe accepts the adjustment of operation j. *)
semaoe(p, id, list, j) ==
  LET old(e) == AoeAfter(p, id, list, j - 1, e)
      mine   == <<id, list[j].num>>
  IN  /\ list[j].op \in -semaem .. semaem
      /\ p \in undo \/ Cardinality(undo) < semmnu
      /\ \/ old(mine) # 0
         \/ Cardinality({e \in Id \X Num : old(e) # 0}) < semume
      /\ old(mine) - list[j].op \in -semaem .. semaem

Adjusts(list, j) == list[j].undo /\ list[j].op # 0

Done(p, id, list, j) ==
  Fits(id, list, j) /\ (Adjusts(list, j) => semaoe(p, id, list, j))

(* The first operation that cannot be done, or one past the last. *)
Stop(p, id, list) ==
  CHOOSE j \in 1 .. Len(list) + 1 :
    /\ \A i \in 1 .. j - 1 : Done(p, id, list, i)
    /\ j \in DOMAIN list => ~Done(p, id, list, j)

(* The counters that the operations before the stop reset: those awaiting  *)
(* more where a value is raised, those awaiting zero where it gets there.  *)
Raised(id, list, k) ==
  {SlotOf(id, list[j].num) : j \in {i \in 1 .. k - 1 : list[i].op > 0}}

(* Faulty: a value that an operation takes to zero is not noticed. *)
EmptiedNever(id, list, k) == {}

Emptied(id, list, k) ==
  {SlotOf(id, list[j].num) :
     j \in {i \in 1 .. k - 1 :
              /\ list[i].op # 0
              /\ ValueAfter(id, list, i, SlotOf(id, list[i].num)) = 0}}

(* semaoe gives the process an undo structure, and it keeps it even when   *)
(* the adjustment is then refused or undone.                               *)
GetsUndo(p, id, list, k) ==
  /\ p \notin undo /\ Cardinality(undo) < semmnu
  /\ \E j \in DOMAIN list : /\ j <= k
                            /\ Adjusts(list, j)
                            /\ Fits(id, list, j)
                            /\ list[j].op \in -semaem .. semaem

Finish(p) ==
  /\ pc' = [pc EXCEPT ![p] = "user"]
  /\ call' = [call EXCEPT ![p] = NoCall]

(* Every operation is done. *)
Succeed(p, id, list) ==
  LET n == Len(list)
      plain == {i \in 1 .. n : ~list[i].undo}
      at(s) == {i \in plain : SlotOf(id, list[i].num) = s}
  IN  /\ Stop(p, id, list) = n + 1
      /\ semval' = [s \in Slot |-> ValueAfter(id, list, n, s)]
      /\ aoe' = [aoe EXCEPT ![p] =
                   [e \in Id \X Num |-> AoeAfter(p, id, list, n, e)]]
      /\ settled' = [s \in Slot |-> settled[s] + Net(list, at(s))]
      /\ Wake(Raised(id, list, n + 1), Emptied(id, list, n + 1))
      /\ Finish(p)

Waits(id, list, k) == list[k].op <= 0 /\ ~Fits(id, list, k)

(* Faulty: semundo takes back the values but not the adjustments. *)
FailAdjusts(p, id, list) ==
  LET k == Stop(p, id, list)
  IN  /\ k \in DOMAIN list
      /\ Waits(id, list, k) => list[k].nowait
      /\ Wake(Raised(id, list, k), Emptied(id, list, k))
      /\ aoe' = [aoe EXCEPT ![p] =
                   [e \in Id \X Num |-> AoeAfter(p, id, list, k - 1, e)]]
      /\ UNCHANGED <<semval, settled>>
      /\ Finish(p)

(* An operation is refused (ERANGE, ENOSPC, EINVAL, EAGAIN) and semundo    *)
(* takes back the ones before it.                                          *)
Fail(p, id, list) ==
  LET k == Stop(p, id, list)
  IN  /\ k \in DOMAIN list
      /\ Waits(id, list, k) => list[k].nowait
      /\ Wake(Raised(id, list, k), Emptied(id, list, k))
      /\ UNCHANGED <<semval, aoe, settled>>
      /\ Finish(p)

(* An operation has to wait: semundo takes back the ones before it, the    *)
(* process is counted and sleeps.                                          *)
Block(p, id, ops, list) ==
  LET k == Stop(p, id, list)
      ns == Raised(id, list, k)
      zs == Emptied(id, list, k)
      s == SlotOf(id, list[k].num)
      chan == <<IF list[k].op < 0 THEN "n" ELSE "z", s>>
      add(cnt, kind) ==
        [cnt EXCEPT ![s] = IF chan[1] = kind THEN (@ + 1) % CountMod ELSE @]
      wakes == ({"n"} \X {t \in ns : semncnt[t] > 0})
                 \cup ({"z"} \X {t \in zs : semzcnt[t] > 0})
  IN  /\ k \in DOMAIN list
      /\ Waits(id, list, k)
      /\ ~list[k].nowait
      /\ semncnt' = add(ZeroAt(semncnt, ns), "n")
      /\ semzcnt' = add(ZeroAt(semzcnt, zs), "z")
      /\ wchan' = [Woken(wchan, wakes) EXCEPT ![p] = chan]
      /\ pc' = [pc EXCEPT ![p] = "slept"]
      /\ call' = [call EXCEPT ![p] = [id |-> id, ops |-> ops, copied |-> 0,
                                      again |-> TRUE, semp |-> chan]]
      /\ UNCHANGED <<semval, aoe, settled>>

(* The loop of semop over the list in the holding area; ops is the list in *)
(* user memory, copied in again after a sleep.                             *)
Operate(p, id, ops, list) ==
  /\ \/ Succeed(p, id, list)
     \/ Fail(p, id, list)
     \/ Block(p, id, ops, list)
  /\ undo' = IF GetsUndo(p, id, list, Stop(p, id, list))
             THEN undo \cup {p} ELSE undo
  /\ UNCHANGED <<sema, sig>>

-----------------------------------------------------------------------------
(* semop: entry, copy of the list, sleep, signals. *)

InRange(id, list) ==
  \A i \in DOMAIN list : list[i].num < sema[HdrOf(id)].nsems

(* The holding area once operations from .. to of ops are copied into it;  *)
(* what it holds matters later only if a fault let others in.              *)
Copy(ops, from, to) ==
  [i \in 1 .. (IF to > Len(semtmp) THEN to ELSE Len(semtmp)) |->
     IF i \in from .. to THEN ops[i] ELSE semtmp[i]]

Hold(area) == semtmp' = IF PageFault THEN area ELSE semtmp

(* The copy of the list faults after k operations are in. *)
Fault(p, id, ops, again) ==
  /\ PageFault
  /\ \E k \in 0 .. Len(ops) - 1 :
       /\ Hold(Copy(ops, 1, k))
       /\ call' = [call EXCEPT ![p] = [id |-> id, ops |-> ops, copied |-> k,
                                       again |-> again, semp |-> NoChan]]
  /\ pc' = [pc EXCEPT ![p] = "fault"]
  /\ UNCHANGED <<semVars, undoVars, wchan, sig, settled>>

(* semop is called. *)
Semop(p) ==
  /\ pc[p] = "user"
  /\ \E id \in Id, ops \in Lists :
       /\ semconv(id)
       /\ \/ /\ Hold(Copy(ops, 1, Len(ops)))
             /\ IF InRange(id, ops)
                THEN Operate(p, id, ops, ops)
                ELSE UNCHANGED <<semVars, undoVars, procVars, settled>>
          \/ Fault(p, id, ops, FALSE)

(* Faulty: the set is not looked for after the sleep. *)
AgainUnverified(p) ==
  LET c == call[p]
  IN  /\ pc[p] = "slept" /\ wchan[p] = NoChan /\ ~sig[p]
      /\ Hold(Copy(c.ops, 1, Len(c.ops)))
      /\ Operate(p, c.id, c.ops, c.ops)

(* semop runs again after its sleep, if the set still exists. *)
Again(p) ==
  LET c == call[p]
  IN  /\ pc[p] = "slept" /\ wchan[p] = NoChan /\ ~sig[p]
      /\ semconv(c.id)
      /\ \/ /\ Hold(Copy(c.ops, 1, Len(c.ops)))
            /\ Operate(p, c.id, c.ops, c.ops)
         \/ Fault(p, c.id, c.ops, TRUE)

(* The set was removed during the sleep: EIDRM. *)
Removed(p) ==
  /\ pc[p] = "slept" /\ wchan[p] = NoChan /\ ~sig[p]
  /\ ~semconv(call[p].id)
  /\ Finish(p)
  /\ UNCHANGED <<semVars, undoVars, semtmp, wchan, sig, settled>>

(* The fault is resolved: the rest of the list is copied.  The set is not  *)
(* looked at again, and the numbers are verified on the first pass only.   *)
FaultOver(p) ==
  LET c == call[p]
      n == Len(c.ops)
      area == Copy(c.ops, c.copied + 1, n)
      list == SubSeq(area, 1, n)
  IN  /\ pc[p] = "fault"
      /\ Hold(area)
      /\ IF c.again \/ InRange(c.id, list)
         THEN Operate(p, c.id, c.ops, list)
         ELSE /\ Finish(p)
              /\ UNCHANGED <<semVars, undoVars, wchan, sig, settled>>

CountAt(chan) == IF chan[1] = "n" THEN semncnt[chan[2]] ELSE semzcnt[chan[2]]

(* Faulty: the count is taken below zero. *)
InterruptedBelow(p) ==
  LET kind == call[p].semp[1]
      s    == call[p].semp[2]
      dec(cnt) == [cnt EXCEPT ![s] = @ - 1]
  IN  /\ pc[p] = "slept" /\ wchan[p] = NoChan /\ sig[p]
      /\ semncnt' = IF kind = "n" THEN dec(semncnt) ELSE semncnt
      /\ semzcnt' = IF kind = "z" THEN dec(semzcnt) ELSE semzcnt
      /\ sig' = [sig EXCEPT ![p] = FALSE]
      /\ Finish(p)
      /\ UNCHANGED <<sema, semval, wchan, undoVars, semtmp, settled>>

(* Faulty: the count reaches zero and nobody is woken. *)
InterruptedSilent(p) ==
  LET kind == call[p].semp[1]
      s    == call[p].semp[2]
      cnt  == CountAt(call[p].semp)
      new  == IF cnt <= 1 THEN 0 ELSE cnt - 1
  IN  /\ pc[p] = "slept" /\ wchan[p] = NoChan /\ sig[p]
      /\ semncnt' = IF kind = "n" THEN [semncnt EXCEPT ![s] = new] ELSE semncnt
      /\ semzcnt' = IF kind = "z" THEN [semzcnt EXCEPT ![s] = new] ELSE semzcnt
      /\ sig' = [sig EXCEPT ![p] = FALSE]
      /\ Finish(p)
      /\ UNCHANGED <<sema, semval, wchan, undoVars, semtmp, settled>>

(* sleep returns 1: the count is given back (EINTR). *)
Interrupted(p) ==
  LET kind == call[p].semp[1]
      s    == call[p].semp[2]
      cnt  == CountAt(call[p].semp)
      new  == IF cnt <= 1 THEN 0 ELSE cnt - 1
  IN  /\ pc[p] = "slept" /\ wchan[p] = NoChan /\ sig[p]
      /\ semncnt' = IF kind = "n" THEN [semncnt EXCEPT ![s] = new] ELSE semncnt
      /\ semzcnt' = IF kind = "z" THEN [semzcnt EXCEPT ![s] = new] ELSE semzcnt
      /\ wchan' = IF cnt <= 1 THEN Woken(wchan, {call[p].semp}) ELSE wchan
      /\ sig' = [sig EXCEPT ![p] = FALSE]
      /\ Finish(p)
      /\ UNCHANGED <<sema, semval, undoVars, semtmp, settled>>

(* psignal takes a process in semop off its sleep queue.  A signal that is *)
(* ignored is not pending when sleep looks, so sleep returns 0 and the     *)
(* process, which stays counted, may count itself again.                   *)
Signal(p) ==
  /\ pc[p] = "slept"
  /\ \/ ~sig[p] /\ sig' = [sig EXCEPT ![p] = TRUE]
     \/ /\ wchan[p] # NoChan
        /\ CountAt(wchan[p]) < MaxCount
        /\ UNCHANGED sig
  /\ wchan' = [wchan EXCEPT ![p] = NoChan]
  /\ UNCHANGED <<semVars, undoVars, semtmp, pc, call, settled>>

-----------------------------------------------------------------------------
(* semexit: each adjustment that leaves the value in range is made. *)
semexit(p) ==
  LET old(e)  == semval[SlotOf(e[1], e[2])]
      new(e)  == old(e) + aoe[p][e]
      live    == {e \in Id \X Num : aoe[p][e] # 0 /\ semconv(e[1])}
      made    == {e \in live : new(e) \in 0 .. semvmx}
      slots(es) == {SlotOf(e[1], e[2]) : e \in es}
      the(es, s) == CHOOSE e \in es : SlotOf(e[1], e[2]) = s
  IN  /\ pc[p] = "user"
      /\ p \in undo
      /\ semval' = [s \in Slot |-> IF s \in slots(made) THEN new(the(made, s))
                                   ELSE semval[s]]
      /\ settled' = [s \in Slot |->
                       IF s \in slots(live \ made)
                       THEN settled[s] - aoe[p][the(live \ made, s)]
                       ELSE settled[s]]
      /\ Wake(slots({e \in made : aoe[p][e] > 0}),
              slots({e \in made : new(e) = 0}))
      /\ aoe' = [aoe EXCEPT ![p] = [e \in Id \X Num |-> 0]]
      /\ undo' = undo \ {p}
      /\ UNCHANGED <<sema, semtmp, pc, call, sig>>

Next ==
  \E p \in Proc :
    \/ semget(p) \/ RemoveSet(p) \/ SetVal(p) \/ SetAll(p)
    \/ Semop(p) \/ Again(p) \/ Removed(p) \/ FaultOver(p)
    \/ Interrupted(p) \/ Signal(p) \/ semexit(p)

Spec == Init /\ [][Next]_vars

-----------------------------------------------------------------------------
(* Every variable keeps its type. *)
TypeOK ==
  /\ sema \in [Hdr -> [alloc : BOOLEAN, seq : Nat, base : Int, nsems : Nat]]
  /\ semval \in [Slot -> Int]
  /\ semncnt \in [Slot -> Nat]
  /\ semzcnt \in [Slot -> Nat]
  /\ undo \in SUBSET Proc
  /\ aoe \in [Proc -> [Id \X Num -> Int]]
  /\ pc \in [Proc -> {"user", "slept", "fault"}]
  /\ wchan \in [Proc -> Chan]
  /\ sig \in [Proc -> BOOLEAN]
  /\ \A p \in Proc : call[p].semp \in Chan

(* The counters have room for every process, and for the ignored signals   *)
(* that the model lets arrive.                                             *)
CountsFit ==
  IsFiniteSet(Proc) /\ MaxCount + Cardinality(Proc) < CountMod

(* A process asleep in semop is counted, so that whoever changes the value *)
(* and finds the count zero misses nobody: counts are reset together with  *)
(* the wakeup, and an interrupted process that takes the count to zero     *)
(* wakes those it may have counted out.                                    *)
SleepersCounted ==
  \A p \in Proc, s \in Slot :
    /\ wchan[p] = <<"n", s>> => semncnt[s] > 0
    /\ wchan[p] = <<"z", s>> => semzcnt[s] > 0

(* The list has one operation for each semaphore that it names. *)
NamesOnce(list) ==
  \A i, j \in DOMAIN list : list[i].num = list[j].num => i = j

(* semop: no process sleeps while its whole list could be done. *)
NoSleeperCouldRun ==
  \A p \in Proc :
    wchan[p] # NoChan =>
      \E j \in DOMAIN call[p].ops : ~Fits(call[p].id, call[p].ops, j)

(* A process sleeps on a semaphore of the set that it named, which still   *)
(* exists: removal wakes everybody and later passes look for the set.      *)
SleepersSetExists ==
  \A p \in Proc :
    wchan[p] # NoChan =>
      semconv(call[p].id) /\ wchan[p][2] \in SlotsOf(HdrOf(call[p].id))

(* What processes did with SEM_UNDO is exactly what their exit will take   *)
(* back: lists that fail or wait leave no trace in the adjustments, and    *)
(* setting or removing a semaphore forgets them.  (An adjustment that      *)
(* would leave the range of the value is dropped by semexit.)              *)
UndoBalances ==
  \A h \in Hdr, num \in Num :
    (sema[h].alloc /\ num < sema[h].nsems) =>
      LET id == sema[h].seq * semmni + h
      IN  semval[sema[h].base + num]
            + SumFunction([p \in Proc |-> aoe[p][<<id, num>>]])
          = settled[sema[h].base + num]

(* No adjustment outlives its set, and semaphores nobody owns are zero and *)
(* have no waiters, so a new set starts from zero.                         *)
NothingOutlivesASet ==
  /\ \A p \in Proc, e \in Id \X Num :
       aoe[p][e] # 0 => semconv(e[1]) /\ e[2] < sema[HdrOf(e[1])].nsems
  /\ \A s \in FreeSlots : semval[s] = 0 /\ semncnt[s] = 0 /\ semzcnt[s] = 0

(* The limits of the undo structures and of the values are kept. *)
WithinLimits ==
  /\ \A s \in Slot : semval[s] \in 0 .. semvmx
  /\ Cardinality(undo) <= semmnu
  /\ \A p \in Proc :
       LET ents == {e \in Id \X Num : aoe[p][e] # 0}
       IN  /\ Cardinality(ents) <= semume
           /\ ents # {} => p \in undo
           /\ \A e \in ents : aoe[p][e] \in -semaem .. semaem

(* semop performs the operations that its caller asked for. *)
OwnListIsDone ==
  [][\A p \in Proc :
       (pc[p] = "fault" /\ pc'[p] # "fault") =>
          SubSeq(semtmp', 1, Len(call[p].ops)) = call[p].ops]_vars
=============================================================================
