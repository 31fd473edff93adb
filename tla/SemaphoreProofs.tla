-------------------------- MODULE SemaphoreProofs --------------------------
(***************************************************************************)
(* Proofs about Semaphore, for any number of processes, headers, values    *)
(* and operation lists.  The invariants, each resting on those before it:  *)
(*   CountInv    who sleeps is counted, and the counters do not wrap;      *)
(*   SetInv      the headers are apart, and a sleeper's set is there or    *)
(*               its identifier has passed;                                *)
(*   DataInv     types, what removal leaves, and the calls;                *)
(*   LimitInv    values, adjustments and undo structures in their limits;  *)
(*   BalanceInv  values and adjustments add up to what was settled;        *)
(*   HeldInv     a sleeper waits for an operation that cannot be done.     *)
(* All but CountInv are about semop without page faults: a fault lets      *)
(* others overwrite the list of operations (semtmp).                       *)
(***************************************************************************)
EXTENDS Semaphore, Sums

(* The sleep channels of the two counters of each semaphore. *)
Counter == {"n", "z"} \X Slot

(* Those the counter at ch was raised for, and not lowered since: asleep   *)
(* on it, or taken off it by a signal and not running yet.                 *)
Waiting(ch) ==
  {q \in Proc : wchan[q] = ch \/ (sig[q] /\ call[q].semp = ch)}

CountTypes == semncnt \in [Slot -> Nat] /\ semzcnt \in [Slot -> Nat]

(* Each process has its place, its call, its channel and its signal. *)
ProcTypes ==
  /\ DOMAIN pc = Proc /\ DOMAIN call = Proc
  /\ DOMAIN wchan = Proc /\ DOMAIN sig = Proc

(* Where the sleepers are, and what they remember. *)
Asleep ==
  \A q \in Proc :
    /\ wchan[q] # NoChan => pc[q] = "slept" /\ call[q].semp = wchan[q] /\ ~sig[q]
    /\ sig[q] => pc[q] = "slept"
    /\ pc[q] = "slept" =>
         \E k \in {"n", "z"} : \E s : call[q].semp = <<k, s>>

(* Whoever sleeps on a counter finds it raised. *)
Counted == \A ch \in Counter : \A q \in Proc : wchan[q] = ch => CountAt(ch) > 0

(* A counter holds those waiting, and ignored signals. *)
CountBounded ==
  \A ch \in Counter : CountAt(ch) <= MaxCount + Cardinality(Waiting(ch))

CountInv == CountTypes /\ ProcTypes /\ Asleep /\ Counted /\ CountBounded

(* p runs: it neither sleeps nor has a signal to see. *)
Runs(p) == wchan[p] = NoChan /\ ~sig[p]

(* Each counter is left alone with its sleepers, or reset with nobody left *)
(* on its channel.                                                         *)
Untouched(ch) ==
  /\ CountAt(ch)' = CountAt(ch)
  /\ \A q \in Proc : wchan'[q] = ch <=> wchan[q] = ch

Cleared(ch) == CountAt(ch)' = 0 /\ \A q \in Proc : wchan'[q] # ch

Wakes ==
  /\ CountTypes' /\ DOMAIN wchan' = Proc
  /\ \A ch \in Counter : Untouched(ch) \/ Cleared(ch)
  /\ \A q \in Proc : wchan'[q] \in {wchan[q], NoChan}

(* A step of p that puts nobody to sleep and takes no signal. *)
Calm(p) ==
  /\ Wakes
  /\ sig' = sig
  /\ DOMAIN pc' = Proc /\ DOMAIN call' = Proc
  /\ \A q \in Proc :
       \/ pc'[q] = pc[q] /\ call'[q] = call[q]
       \/ q = p /\ Runs(p) /\ pc'[q] # "slept"

-----------------------------------------------------------------------------
LEMMA SlotIsInt == Slot \subseteq Int /\ \A s \in Slot : <<"n", s>> # NoChan /\ <<"z", s>> # NoChan
BY ConstAssumption DEF Slot, NoChan

(* wakeup takes processes off the channels it names. *)
LEMMA WokenIs ==
  ASSUME NEW w, NEW chans
  PROVE  /\ DOMAIN Woken(w, chans) = Proc
         /\ \A q \in Proc :
              Woken(w, chans)[q] = IF w[q] \in chans THEN NoChan ELSE w[q]
BY DEF Woken

(* The counter at ch, were the counters cn and cz. *)
At(cn, cz, ch) == IF ch[1] = "n" THEN cn[ch[2]] ELSE cz[ch[2]]

(* The channels that are woken when the counters ns and zs are reset. *)
Reset(ns, zs) == ({"n"} \X {s \in ns : semncnt[s] > 0})
                   \cup ({"z"} \X {s \in zs : semzcnt[s] > 0})

(* The resets of counters in sem.c come with the wakeup of their channels. *)
LEMMA ResetIs ==
  ASSUME NEW ns, NEW zs, CountTypes, NEW cn, NEW cz, NEW w,
         cn = ZeroAt(semncnt, ns), cz = ZeroAt(semzcnt, zs),
         w = Woken(wchan, Reset(ns, zs))
  PROVE  /\ cn \in [Slot -> Nat] /\ cz \in [Slot -> Nat] /\ DOMAIN w = Proc
         /\ \A q \in Proc : w[q] \in {wchan[q], NoChan}
         /\ \A ch \in Counter :
              \/ /\ At(cn, cz, ch) = CountAt(ch)
                 /\ \A q \in Proc : w[q] = ch <=> wchan[q] = ch
              \/ At(cn, cz, ch) = 0 /\ \A q \in Proc : w[q] # ch
<1> DEFINE chans == Reset(ns, zs)
<1>1. /\ cn \in [Slot -> Nat] /\ cz \in [Slot -> Nat]
      /\ \A s \in Slot : /\ cn[s] = IF s \in ns THEN 0 ELSE semncnt[s]
                         /\ cz[s] = IF s \in zs THEN 0 ELSE semzcnt[s]
  BY DEF CountTypes, ZeroAt
<1>2. \A s \in Slot :
        /\ <<"n", s>> \in chans <=> s \in ns /\ semncnt[s] > 0
        /\ <<"z", s>> \in chans <=> s \in zs /\ semzcnt[s] > 0
  BY DEF Reset
<1> HIDE DEF chans
<1>3. DOMAIN w = Proc /\ \A q \in Proc :
        w[q] = IF wchan[q] \in chans THEN NoChan ELSE wchan[q]
  BY WokenIs DEF chans
<1>4. ASSUME NEW ch \in Counter
      PROVE  \/ /\ At(cn, cz, ch) = CountAt(ch)
                /\ \A q \in Proc : w[q] = ch <=> wchan[q] = ch
             \/ At(cn, cz, ch) = 0 /\ \A q \in Proc : w[q] # ch
  <2>1. PICK k \in {"n", "z"} : \E s \in Slot : ch = <<k, s>>
    BY DEF Counter
  <2>2. PICK s \in Slot : ch = <<k, s>>
    BY <2>1
  <2>3. ch # NoChan
    BY <2>2, SlotIsInt
  <2>4. CASE ch \in chans
    <3>1. At(cn, cz, ch) = 0
      BY <2>2, <2>4, <1>1, <1>2 DEF At
    <3>2. \A q \in Proc : w[q] # ch
      BY <2>3, <2>4, <1>3
    <3> QED
      BY <3>1, <3>2
  <2>5. CASE ch \notin chans
    <3>1. At(cn, cz, ch) = CountAt(ch)
      <4>0. semncnt[s] \in Nat /\ semzcnt[s] \in Nat
        BY DEF CountTypes
      <4>1. CASE k = "n"
        <5>0. ~(s \in ns /\ semncnt[s] > 0)
          BY <2>2, <2>5, <4>1, <1>2
        <5>1. cn[s] = semncnt[s]
          BY <4>0, <5>0, <1>1
        <5> QED
          BY <2>2, <4>1, <5>1 DEF At, CountAt
      <4>2. CASE k = "z"
        <5>0. ~(s \in zs /\ semzcnt[s] > 0)
          BY <2>2, <2>5, <4>2, <1>2
        <5>1. cz[s] = semzcnt[s]
          BY <4>0, <5>0, <1>1
        <5> QED
          BY <2>2, <4>2, <5>1 DEF At, CountAt
      <4> QED
        BY <4>1, <4>2
    <3>2. \A q \in Proc : w[q] = ch <=> wchan[q] = ch
      BY <2>3, <2>5, <1>3
    <3> QED
      BY <3>1, <3>2
  <2> QED
    BY <2>4, <2>5
<1> QED
  BY <1>1, <1>3, <1>4

LEMMA WakeWakes ==
  ASSUME NEW ns, NEW zs, CountTypes, Wake(ns, zs)
  PROVE  Wakes
<1>1. /\ semncnt' = ZeroAt(semncnt, ns)
      /\ semzcnt' = ZeroAt(semzcnt, zs)
      /\ wchan' = Woken(wchan, Reset(ns, zs))
  BY DEF Wake, Reset
<1>2. \A ch : CountAt(ch)' = At(semncnt', semzcnt', ch)
  BY DEF CountAt, At
<1>3. /\ semncnt' \in [Slot -> Nat] /\ semzcnt' \in [Slot -> Nat] /\ DOMAIN wchan' = Proc
      /\ \A q \in Proc : wchan'[q] \in {wchan[q], NoChan}
      /\ \A ch \in Counter :
           \/ /\ At(semncnt', semzcnt', ch) = CountAt(ch)
              /\ \A q \in Proc : wchan'[q] = ch <=> wchan[q] = ch
           \/ At(semncnt', semzcnt', ch) = 0 /\ \A q \in Proc : wchan'[q] # ch
  BY <1>1, ResetIs
<1> QED
  BY <1>2, <1>3 DEF Wakes, CountTypes, Untouched, Cleared

LEMMA NoWakeWakes ==
  ASSUME CountTypes, ProcTypes, UNCHANGED <<semncnt, semzcnt, wchan>>
  PROVE  Wakes
BY DEF CountTypes, ProcTypes, Wakes, Untouched, CountAt, Counter

LEMMA FinishIs ==
  ASSUME NEW p \in Proc, ProcTypes, Finish(p)
  PROVE  /\ DOMAIN pc' = Proc /\ DOMAIN call' = Proc
         /\ pc'[p] = "user" /\ call'[p] = NoCall
         /\ \A q \in Proc \ {p} : pc'[q] = pc[q] /\ call'[q] = call[q]
BY DEF ProcTypes, Finish

(* A process that enters semop, semctl or exit runs. *)
LEMMA UserRuns ==
  ASSUME NEW p \in Proc, Asleep, pc[p] # "slept"
  PROVE  Runs(p)
BY DEF Asleep, Runs

-----------------------------------------------------------------------------
(* Steps that neither count a process nor take it from the count. *)
LEMMA CalmKeeps ==
  ASSUME NEW p \in Proc, IsFiniteSet(Proc), CountInv, Calm(p)
  PROVE  CountInv'
<1>1. CountTypes' /\ ProcTypes'
  BY DEF Calm, Wakes, CountInv, ProcTypes
<1>2. Asleep'
  <2> SUFFICES ASSUME NEW q \in Proc
               PROVE  /\ wchan'[q] # NoChan => /\ pc'[q] = "slept"
                                               /\ call'[q].semp = wchan'[q]
                                               /\ ~sig'[q]
                      /\ sig'[q] => pc'[q] = "slept"
                      /\ pc'[q] = "slept" => \E k \in {"n", "z"} : \E s :
                                               call'[q].semp = <<k, s>>
    BY DEF Asleep
  <2>1. wchan'[q] \in {wchan[q], NoChan} /\ sig'[q] = sig[q]
    BY DEF Calm, Wakes
  <2>2. /\ wchan[q] # NoChan => pc[q] = "slept" /\ call[q].semp = wchan[q] /\ ~sig[q]
        /\ sig[q] => pc[q] = "slept"
        /\ pc[q] = "slept" => \E k \in {"n", "z"} : \E s :
                                call[q].semp = <<k, s>>
    BY DEF CountInv, Asleep
  <2>3. CASE pc'[q] = pc[q] /\ call'[q] = call[q]
    BY <2>1, <2>2, <2>3
  <2>4. CASE Runs(q) /\ pc'[q] # "slept"
    BY <2>1, <2>4 DEF Runs
  <2> QED
    BY <2>3, <2>4 DEF Calm
<1>3. Counted'
  <2> SUFFICES ASSUME NEW ch \in Counter, NEW q \in Proc, wchan'[q] = ch
               PROVE  CountAt(ch)' > 0
    BY DEF Counted
  <2>1. Untouched(ch)
    BY DEF Calm, Wakes, Cleared
  <2> QED
    BY <2>1 DEF Untouched, CountInv, Counted
<1>4. CountBounded'
  <2> SUFFICES ASSUME NEW ch \in Counter
               PROVE  CountAt(ch)' <= MaxCount + Cardinality(Waiting(ch)')
    BY DEF CountBounded
  <2>1. IsFiniteSet(Waiting(ch)') /\ Cardinality(Waiting(ch)') \in Nat
    <3>1. Waiting(ch)' \subseteq Proc
      BY DEF Waiting
    <3> QED
      BY <3>1, FS_Subset, FS_CardinalityType
  <2>2. CASE Cleared(ch)
    BY <2>1, <2>2, ConstAssumption DEF Cleared
  <2>3. CASE Untouched(ch)
    <3>1. Waiting(ch)' = Waiting(ch)
      <4>1. ASSUME NEW q \in Proc
            PROVE  (sig'[q] /\ call'[q].semp = ch) <=> (sig[q] /\ call[q].semp = ch)
        BY DEF Calm, Runs
      <4>2. \A q \in Proc : wchan'[q] = ch <=> wchan[q] = ch
        BY <2>3 DEF Untouched
      <4> QED
        BY <4>1, <4>2 DEF Waiting
    <3> QED
      BY <2>3, <3>1 DEF Untouched, CountInv, CountBounded
  <2> QED
    BY <2>2, <2>3 DEF Calm, Wakes
<1> QED
  BY <1>1, <1>2, <1>3, <1>4 DEF CountInv

(* Nothing is kept of a number below the modulus. *)
LEMMA SmallMod ==
  ASSUME NEW n \in Nat, NEW m \in Nat \ {0}, n < m
  PROVE  n % m = n
OBVIOUS

(* The counter at ch is raised by a process that was not waiting for it. *)
LEMMA RoomForOneMore ==
  ASSUME CountsFit, CountInv, NEW p \in Proc, Runs(p), NEW ch \in Counter
  PROVE  /\ CountAt(ch) \in Nat
         /\ CountAt(ch) + 1 < CountMod
         /\ (CountAt(ch) + 1) % CountMod = CountAt(ch) + 1
<1>1. CountAt(ch) \in Nat
  BY DEF CountInv, CountTypes, CountAt, Counter
<1>2. ch # NoChan
  BY SlotIsInt DEF Counter, NoChan
<1>3. p \notin Waiting(ch)
  BY <1>2 DEF Waiting, Runs
<1>4. Waiting(ch) \subseteq Proc \ {p}
  BY <1>3 DEF Waiting
<1>5. /\ IsFiniteSet(Proc) /\ Cardinality(Proc) \in Nat
      /\ IsFiniteSet(Proc \ {p}) /\ Cardinality(Proc \ {p}) = Cardinality(Proc) - 1
  BY FS_RemoveElement, FS_CardinalityType DEF CountsFit
<1>6. /\ Cardinality(Waiting(ch)) \in Nat
      /\ Cardinality(Waiting(ch)) <= Cardinality(Proc \ {p})
  BY <1>4, <1>5, FS_Subset, FS_CardinalityType
<1>7. CountAt(ch) <= MaxCount + Cardinality(Waiting(ch))
  BY DEF CountInv, CountBounded
<1>8. CountAt(ch) + 1 < CountMod
  BY <1>1, <1>5, <1>6, <1>7, ConstAssumption DEF CountsFit
<1>9. CountMod \in Nat \ {0} /\ CountAt(ch) + 1 \in Nat
  BY <1>1, ConstAssumption
<1>10. (CountAt(ch) + 1) % CountMod = CountAt(ch) + 1
  BY <1>8, <1>9, SmallMod
<1> QED
  BY <1>1, <1>8, <1>10

-----------------------------------------------------------------------------
(* The actions that are calm. *)
LEMMA OthersCalm ==
  ASSUME NEW p \in Proc, CountInv,
         semget(p) \/ RemoveSet(p) \/ SetVal(p) \/ SetAll(p) \/ semexit(p)
  PROVE  Calm(p)
<1>1. CountTypes /\ ProcTypes
  BY DEF CountInv
<1>2. CASE semget(p)
  <2>1. UNCHANGED <<semncnt, semzcnt, wchan, sig, pc, call>>
    BY <1>2 DEF semget, procVars
  <2> QED
    BY <1>1, <2>1, NoWakeWakes DEF Calm, ProcTypes
<1>3. CASE RemoveSet(p)
  <2>1. PICK ns, zs : Wake(ns, zs)
    BY <1>3 DEF RemoveSet
  <2>2. UNCHANGED <<pc, call, sig>>
    BY <1>3 DEF RemoveSet
  <2> QED
    BY <1>1, <2>1, <2>2, WakeWakes DEF Calm, ProcTypes
<1>4. CASE SetVal(p)
  <2>1. PICK ns, zs : Wake(ns, zs)
    BY <1>4 DEF SetVal
  <2>2. UNCHANGED <<pc, call, sig>>
    BY <1>4 DEF SetVal
  <2> QED
    BY <1>1, <2>1, <2>2, WakeWakes DEF Calm, ProcTypes
<1>5. CASE SetAll(p)
  <2>1. PICK ns, zs : Wake(ns, zs)
    BY <1>5 DEF SetAll
  <2>2. UNCHANGED <<pc, call, sig>>
    BY <1>5 DEF SetAll
  <2> QED
    BY <1>1, <2>1, <2>2, WakeWakes DEF Calm, ProcTypes
<1>6. CASE semexit(p)
  <2>1. PICK ns, zs : Wake(ns, zs)
    BY <1>6 DEF semexit
  <2>2. UNCHANGED <<pc, call, sig>>
    BY <1>6 DEF semexit
  <2> QED
    BY <1>1, <2>1, <2>2, WakeWakes DEF Calm, ProcTypes
<1> QED
  BY <1>2, <1>3, <1>4, <1>5, <1>6

LEMMA EndsCalm ==
  ASSUME NEW p \in Proc, CountInv, Runs(p), Finish(p), UNCHANGED sig,
         \/ \E ns, zs : Wake(ns, zs)
         \/ UNCHANGED <<semncnt, semzcnt, wchan>>
  PROVE  Calm(p)
<1>1. CountTypes /\ ProcTypes
  BY DEF CountInv
<1>2. Wakes
  BY <1>1, WakeWakes, NoWakeWakes
<1> QED
  BY <1>1, <1>2, FinishIs DEF Calm

LEMMA StaysCalm ==
  ASSUME NEW p, CountInv, UNCHANGED <<semncnt, semzcnt, wchan, sig, pc, call>>
  PROVE  Calm(p)
BY NoWakeWakes DEF Calm, CountInv, ProcTypes

LEMMA FaultCalm ==
  ASSUME NEW p \in Proc, NEW id, NEW ops, NEW again, CountInv, Runs(p),
         Fault(p, id, ops, again)
  PROVE  Calm(p)
<1>1. PICK c : call' = [call EXCEPT ![p] = c]
  BY DEF Fault
<1>2. /\ pc' = [pc EXCEPT ![p] = "fault"]
      /\ UNCHANGED <<semncnt, semzcnt, wchan, sig>>
  BY DEF Fault, semVars
<1>3. CountTypes /\ ProcTypes
  BY DEF CountInv
<1>4. Wakes
  BY <1>2, <1>3, NoWakeWakes
<1> QED
  BY <1>1, <1>2, <1>3, <1>4 DEF Calm, ProcTypes

(* semop has done its list, or gives it up. *)
LEMMA SucceedCalm ==
  ASSUME NEW p \in Proc, NEW id, NEW list, CountInv, Runs(p), UNCHANGED sig,
         Succeed(p, id, list) \/ Fail(p, id, list)
  PROVE  Calm(p)
<1>1. Finish(p)
  BY DEF Succeed, Fail
<1>2. \E ns, zs : Wake(ns, zs)
  BY DEF Succeed, Fail
<1> QED
  BY <1>1, <1>2, EndsCalm

-----------------------------------------------------------------------------
(* The counter of chan is raised, after other counters were reset. *)
Raises(chan, cn, cz) ==
  LET add(cnt, kind) == [cnt EXCEPT ![chan[2]] =
                           IF chan[1] = kind THEN (@ + 1) % CountMod ELSE @]
  IN  semncnt' = add(cn, "n") /\ semzcnt' = add(cz, "z")

(* What Block does to the counters and the processes: the counters ns and  *)
(* zs are reset, k of semaphore s is raised and p sleeps there.            *)
Blocks(p, id, ops, ns, zs, k, s, c) ==
  /\ k \in {"n", "z"}
  /\ c.semp = <<k, s>> /\ c.id = id /\ c.ops = ops
  /\ Raises(<<k, s>>, ZeroAt(semncnt, ns), ZeroAt(semzcnt, zs))
  /\ wchan' = [Woken(wchan, Reset(ns, zs)) EXCEPT ![p] = <<k, s>>]
  /\ pc' = [pc EXCEPT ![p] = "slept"]
  /\ call' = [call EXCEPT ![p] = c]

LEMMA BlockIs ==
  ASSUME NEW p, NEW id, NEW ops, NEW list, Block(p, id, ops, list)
  PROVE  LET n == Stop(p, id, list)
         IN  \E c : Blocks(p, id, ops, Raised(id, list, n), Emptied(id, list, n),
                          IF list[n].op < 0 THEN "n" ELSE "z",
                          SlotOf(id, list[n].num), c)
<1> DEFINE n == Stop(p, id, list)
           ns == Raised(id, list, n)
           zs == Emptied(id, list, n)
           k == IF list[n].op < 0 THEN "n" ELSE "z"
           s == SlotOf(id, list[n].num)
           c == [id |-> id, ops |-> ops, copied |-> 0, again |-> TRUE,
                 semp |-> <<k, s>>]
<1>1. Raises(<<k, s>>, ZeroAt(semncnt, ns), ZeroAt(semzcnt, zs))
  BY DEF Block, Raises
<1>2. /\ wchan' = [Woken(wchan, Reset(ns, zs)) EXCEPT ![p] = <<k, s>>]
      /\ pc' = [pc EXCEPT ![p] = "slept"]
      /\ call' = [call EXCEPT ![p] = c]
  BY DEF Block, Reset
<1>3. c.semp = <<k, s>> /\ c.id = id /\ c.ops = ops
  OBVIOUS
<1>4. k \in {"n", "z"}
  OBVIOUS
<1> HIDE DEF ns, zs, k, s, c
<1>5. Blocks(p, id, ops, ns, zs, k, s, c)
  BY <1>1, <1>2, <1>3, <1>4 DEF Blocks
<1> HIDE DEF n
<1> QED
  BY <1>5 DEF n, ns, zs, k, s

LEMMA RaisesIs ==
  ASSUME NEW cn, NEW cz, cn \in [Slot -> Nat], cz \in [Slot -> Nat],
         NEW k \in {"n", "z"}, NEW s, Raises(<<k, s>>, cn, cz)
  PROVE  /\ CountTypes'
         /\ \A ch \in Counter :
              CountAt(ch)' = IF ch = <<k, s>> THEN (At(cn, cz, ch) + 1) % CountMod
                             ELSE At(cn, cz, ch)
<1>1. CountMod \in Nat \ {0} /\ \A n \in Nat : (n + 1) % CountMod \in Nat
  BY ConstAssumption
<1>2. /\ semncnt' = [cn EXCEPT ![s] = IF k = "n" THEN (@ + 1) % CountMod ELSE @]
      /\ semzcnt' = [cz EXCEPT ![s] = IF k = "z" THEN (@ + 1) % CountMod ELSE @]
  BY DEF Raises
<1>3. \A t \in Slot :
        /\ semncnt'[t] = IF t = s /\ k = "n" THEN (cn[t] + 1) % CountMod ELSE cn[t]
        /\ semzcnt'[t] = IF t = s /\ k = "z" THEN (cz[t] + 1) % CountMod ELSE cz[t]
  BY <1>2
<1>4. CountTypes'
  <2>1. \A t \in Slot : semncnt'[t] \in Nat /\ semzcnt'[t] \in Nat
    BY <1>1, <1>3
  <2>2. semncnt' = [t \in Slot |-> semncnt'[t]] /\ semzcnt' = [t \in Slot |-> semzcnt'[t]]
    BY <1>2
  <2> QED
    BY <2>1, <2>2 DEF CountTypes
<1>5. ASSUME NEW ch \in Counter
      PROVE  CountAt(ch)' = IF ch = <<k, s>> THEN (At(cn, cz, ch) + 1) % CountMod
                            ELSE At(cn, cz, ch)
  <2>1. PICK j \in {"n", "z"} : \E t \in Slot : ch = <<j, t>>
    BY DEF Counter
  <2>2. PICK t \in Slot : ch = <<j, t>>
    BY <2>1
  <2>3. ch = <<k, s>> <=> j = k /\ t = s
    BY <2>2
  <2>4. CASE j = "n"
    BY <2>2, <2>3, <2>4, <1>3 DEF CountAt, At
  <2>5. CASE j = "z"
    BY <2>2, <2>3, <2>5, <1>3 DEF CountAt, At
  <2> QED
    BY <2>4, <2>5
<1> QED
  BY <1>4, <1>5

(* A list that has to wait: the process is counted and goes to sleep. *)
LEMMA BlockKeeps ==
  ASSUME CountsFit, CountInv, NEW p \in Proc, Runs(p), UNCHANGED sig,
         NEW id, NEW ops, NEW list, Block(p, id, ops, list)
  PROVE  CountInv'
<1>0. CountTypes /\ ProcTypes /\ Asleep /\ Counted /\ CountBounded /\ IsFiniteSet(Proc)
  BY DEF CountInv, CountsFit
<1>a. PICK ns, zs, k, s, c : Blocks(p, id, ops, ns, zs, k, s, c)
  BY BlockIs
<1>1. /\ k \in {"n", "z"} /\ c.semp = <<k, s>>
      /\ Raises(<<k, s>>, ZeroAt(semncnt, ns), ZeroAt(semzcnt, zs))
      /\ wchan' = [Woken(wchan, Reset(ns, zs)) EXCEPT ![p] = <<k, s>>]
      /\ pc' = [pc EXCEPT ![p] = "slept"]
      /\ call' = [call EXCEPT ![p] = c]
  BY <1>a DEF Blocks
<1> DEFINE cn == ZeroAt(semncnt, ns)
           cz == ZeroAt(semzcnt, zs)
           w == Woken(wchan, Reset(ns, zs))
<1>b. /\ cn = ZeroAt(semncnt, ns) /\ cz = ZeroAt(semzcnt, zs)
      /\ w = Woken(wchan, Reset(ns, zs))
  OBVIOUS
<1> HIDE DEF cn, cz, w
<1>2. /\ cn \in [Slot -> Nat] /\ cz \in [Slot -> Nat] /\ DOMAIN w = Proc
      /\ \A q \in Proc : w[q] \in {wchan[q], NoChan}
      /\ \A ch \in Counter :
           \/ /\ At(cn, cz, ch) = CountAt(ch)
              /\ \A q \in Proc : w[q] = ch <=> wchan[q] = ch
           \/ At(cn, cz, ch) = 0 /\ \A q \in Proc : w[q] # ch
  BY <1>0, <1>b, ResetIs
<1>3. /\ Raises(<<k, s>>, cn, cz)
      /\ wchan' = [w EXCEPT ![p] = <<k, s>>]
  BY <1>1, <1>b
<1>4. /\ CountTypes'
      /\ \A ch \in Counter :
           CountAt(ch)' = IF ch = <<k, s>> THEN (At(cn, cz, ch) + 1) % CountMod
                          ELSE At(cn, cz, ch)
  BY <1>1, <1>2, <1>3, RaisesIs
<1>5. /\ ProcTypes'
      /\ pc'[p] = "slept" /\ call'[p].semp = <<k, s>> /\ wchan'[p] = <<k, s>>
      /\ \A q \in Proc \ {p} : pc'[q] = pc[q] /\ call'[q] = call[q] /\ wchan'[q] = w[q]
  BY <1>0, <1>1, <1>2, <1>3 DEF ProcTypes
<1>6. /\ wchan[p] = NoChan /\ ~sig[p] /\ sig' = sig
      /\ \A q \in Proc \ {p} : wchan'[q] \in {wchan[q], NoChan}
  BY <1>2, <1>5 DEF Runs
<1>7. Asleep'
  <2> SUFFICES ASSUME NEW q \in Proc
               PROVE  /\ wchan'[q] # NoChan => /\ pc'[q] = "slept"
                                               /\ call'[q].semp = wchan'[q]
                                               /\ ~sig'[q]
                      /\ sig'[q] => pc'[q] = "slept"
                      /\ pc'[q] = "slept" => \E j \in {"n", "z"} : \E t :
                                               call'[q].semp = <<j, t>>
    BY DEF Asleep
  <2>1. CASE q = p
    BY <2>1, <1>1, <1>5, <1>6
  <2>2. CASE q # p
    <3>1. /\ wchan[q] # NoChan => pc[q] = "slept" /\ call[q].semp = wchan[q] /\ ~sig[q]
          /\ sig[q] => pc[q] = "slept"
          /\ pc[q] = "slept" => \E j \in {"n", "z"} : \E t : call[q].semp = <<j, t>>
      BY <1>0 DEF Asleep
    <3>2. pc'[q] = pc[q] /\ call'[q] = call[q] /\ wchan'[q] \in {wchan[q], NoChan}
      BY <2>2, <1>5, <1>6
    <3> QED
      BY <3>1, <3>2, <1>6
  <2> QED
    BY <2>1, <2>2
<1>8. \A ch \in Counter : /\ CountAt(ch) \in Nat /\ CountAt(ch) + 1 < CountMod
                          /\ (CountAt(ch) + 1) % CountMod = CountAt(ch) + 1
  BY RoomForOneMore
<1>9. CountMod > 1 /\ (0 + 1) % CountMod = 1
  <2>1. Cardinality(Proc) \in Nat /\ Proc # {}
    BY <1>0, FS_CardinalityType
  <2>2. Cardinality(Proc) # 0
    BY <1>0, <2>1, FS_EmptySet
  <2>3. CountMod > 1 /\ CountMod \in Nat \ {0}
    BY <2>1, <2>2, ConstAssumption DEF CountsFit
  <2> QED
    BY <2>3, SmallMod
<1>10. Counted'
  <2> SUFFICES ASSUME NEW ch \in Counter, NEW q \in Proc, wchan'[q] = ch
               PROVE  CountAt(ch)' > 0
    BY DEF Counted
  <2>1. CASE ch = <<k, s>>
    <3>1. At(cn, cz, ch) \in {0, CountAt(ch)}
      BY <1>2
    <3>2. CountAt(ch) + 1 > 0
      BY <1>8
    <3> QED
      BY <2>1, <3>1, <3>2, <1>4, <1>8, <1>9
  <2>2. CASE ch # <<k, s>>
    <3>1. w[q] = ch
      BY <2>2, <1>5
    <3>2. At(cn, cz, ch) = CountAt(ch) /\ wchan[q] = ch
      BY <3>1, <1>2
    <3> QED
      BY <2>2, <3>2, <1>0, <1>4 DEF Counted
  <2> QED
    BY <2>1, <2>2
<1>11. CountBounded'
  <2> SUFFICES ASSUME NEW ch \in Counter
               PROVE  CountAt(ch)' <= MaxCount + Cardinality(Waiting(ch)')
    BY DEF CountBounded
  <2>1. /\ IsFiniteSet(Waiting(ch)') /\ Cardinality(Waiting(ch)') \in Nat
        /\ IsFiniteSet(Waiting(ch)) /\ Cardinality(Waiting(ch)) \in Nat
    <3>1. Waiting(ch)' \subseteq Proc /\ Waiting(ch) \subseteq Proc
      BY DEF Waiting
    <3> QED
      BY <3>1, <1>0, FS_Subset, FS_CardinalityType
  <2>2. CountAt(ch) <= MaxCount + Cardinality(Waiting(ch)) /\ MaxCount \in Nat
    BY <1>0, ConstAssumption DEF CountBounded
  <2>3. ch # NoChan
    BY SlotIsInt DEF Counter, NoChan
  <2>4. p \notin Waiting(ch)
    BY <2>3, <1>6 DEF Waiting
  <2>5. CASE ch = <<k, s>>
    <3>1. p \in Waiting(ch)'
      BY <2>5, <1>5 DEF Waiting
    <3>2. CASE At(cn, cz, ch) = 0
      <4>1. Cardinality(Waiting(ch)') # 0
        BY <2>1, <3>1, FS_EmptySet
      <4>2. CountAt(ch)' = 1
        BY <2>5, <3>2, <1>4, <1>9
      <4> QED
        BY <4>1, <4>2, <2>1, <2>2
    <3>3. CASE At(cn, cz, ch) = CountAt(ch) /\ \A q \in Proc : w[q] = ch <=> wchan[q] = ch
      <4>1. Waiting(ch)' = Waiting(ch) \cup {p}
        <5>1. \A q \in Proc \ {p} : (wchan'[q] = ch \/ (sig'[q] /\ call'[q].semp = ch))
                                      <=> (wchan[q] = ch \/ (sig[q] /\ call[q].semp = ch))
          BY <3>3, <1>5, <1>6
        <5> QED
          BY <3>1, <5>1 DEF Waiting
      <4>2. Cardinality(Waiting(ch)') = Cardinality(Waiting(ch)) + 1
        BY <4>1, <2>1, <2>4, FS_AddElement
      <4>3. CountAt(ch)' = CountAt(ch) + 1 /\ CountAt(ch) \in Nat
        BY <2>5, <3>3, <1>4, <1>8
      <4> QED
        BY <4>2, <4>3, <2>1, <2>2
    <3> QED
      BY <3>2, <3>3, <1>2
  <2>6. CASE ch # <<k, s>>
    <3>0. CountAt(ch)' = At(cn, cz, ch)
      BY <2>6, <1>4
    <3>1. CASE At(cn, cz, ch) = 0
      BY <3>0, <3>1, <2>1, <2>2
    <3>2. CASE At(cn, cz, ch) = CountAt(ch) /\ \A q \in Proc : w[q] = ch <=> wchan[q] = ch
      <4>1. Waiting(ch)' = Waiting(ch)
        <5>1. \A q \in Proc \ {p} : (wchan'[q] = ch \/ (sig'[q] /\ call'[q].semp = ch))
                                      <=> (wchan[q] = ch \/ (sig[q] /\ call[q].semp = ch))
          BY <3>2, <1>5, <1>6
        <5>2. wchan'[p] # ch /\ ~sig'[p]
          BY <2>6, <1>5, <1>6
        <5> QED
          BY <2>4, <5>1, <5>2 DEF Waiting
      <4> QED
        BY <3>0, <3>2, <4>1, <2>2
    <3> QED
      BY <3>1, <3>2, <1>2
  <2> QED
    BY <2>5, <2>6
<1> QED
  BY <1>4, <1>5, <1>7, <1>10, <1>11 DEF CountInv

-----------------------------------------------------------------------------
(* A process off its sleep queue that sees a signal gives its count back.  *)
LEMMA InterruptedIs ==
  ASSUME CountInv, NEW p \in Proc, Interrupted(p)
  PROVE  LET own == call[p].semp
             new == IF CountAt(own) <= 1 THEN 0 ELSE CountAt(own) - 1
         IN  /\ CountTypes' /\ own # NoChan
             /\ \A ch \in Counter :
                  CountAt(ch)' = IF ch = own THEN new ELSE CountAt(ch)
<1>0. CountTypes /\ Asleep
  BY DEF CountInv
<1>1. PICK k \in {"n", "z"} : \E s : call[p].semp = <<k, s>>
  BY <1>0 DEF Interrupted, Asleep
<1>2. PICK s : call[p].semp = <<k, s>>
  BY <1>1
<1> DEFINE own == call[p].semp
           new == IF CountAt(own) <= 1 THEN 0 ELSE CountAt(own) - 1
<1>3. own = <<k, s>> /\ own[1] = k /\ own[2] = s
  BY <1>2
<1>4. /\ semncnt' = IF k = "n" THEN [semncnt EXCEPT ![s] = new] ELSE semncnt
      /\ semzcnt' = IF k = "z" THEN [semzcnt EXCEPT ![s] = new] ELSE semzcnt
  BY <1>3 DEF Interrupted
<1>5. s \in Slot => new \in Nat
  <2> SUFFICES ASSUME s \in Slot
               PROVE  new \in Nat
    OBVIOUS
  <2>1. CountAt(own) \in Nat
    BY <1>0, <1>3 DEF CountTypes, CountAt
  <2> QED
    BY <2>1
<1> HIDE DEF own, new
<1>6. \A t \in Slot :
        /\ semncnt'[t] = IF t = s /\ k = "n" THEN new ELSE semncnt[t]
        /\ semzcnt'[t] = IF t = s /\ k = "z" THEN new ELSE semzcnt[t]
  BY <1>0, <1>4 DEF CountTypes
<1>7. CountTypes'
  <2>1. \A t \in Slot : semncnt'[t] \in Nat /\ semzcnt'[t] \in Nat
    BY <1>0, <1>5, <1>6 DEF CountTypes
  <2>2. /\ semncnt' = [t \in Slot |-> semncnt'[t]]
        /\ semzcnt' = [t \in Slot |-> semzcnt'[t]]
    BY <1>0, <1>4 DEF CountTypes
  <2> QED
    BY <2>1, <2>2 DEF CountTypes
<1>8. ASSUME NEW ch \in Counter
      PROVE  CountAt(ch)' = IF ch = own THEN new ELSE CountAt(ch)
  <2>1. PICK j \in {"n", "z"} : \E t \in Slot : ch = <<j, t>>
    BY DEF Counter
  <2>2. PICK t \in Slot : ch = <<j, t>>
    BY <2>1
  <2>3. ch = own <=> j = k /\ t = s
    BY <2>2, <1>3
  <2>4. CASE j = "n"
    BY <2>2, <2>3, <2>4, <1>6 DEF CountAt
  <2>5. CASE j = "z"
    BY <2>2, <2>3, <2>5, <1>6 DEF CountAt
  <2> QED
    BY <2>4, <2>5
<1>9. own # NoChan
  BY <1>3 DEF NoChan
<1> QED
  BY <1>7, <1>8, <1>9 DEF own, new

LEMMA InterruptedKeeps ==
  ASSUME IsFiniteSet(Proc), CountInv, NEW p \in Proc, Interrupted(p)
  PROVE  CountInv'
<1>0. CountTypes /\ ProcTypes /\ Asleep /\ Counted /\ CountBounded
  BY DEF CountInv
<1> DEFINE own == call[p].semp
           new == IF CountAt(own) <= 1 THEN 0 ELSE CountAt(own) - 1
<1>1. /\ CountTypes' /\ own # NoChan
      /\ \A ch \in Counter : CountAt(ch)' = IF ch = own THEN new ELSE CountAt(ch)
  BY InterruptedIs
<1>2. /\ pc[p] = "slept" /\ wchan[p] = NoChan /\ sig[p] /\ Finish(p)
      /\ wchan' = IF CountAt(own) <= 1 THEN Woken(wchan, {own}) ELSE wchan
      /\ sig' = [sig EXCEPT ![p] = FALSE]
  BY DEF Interrupted
<1> HIDE DEF own
<1>3. /\ DOMAIN pc' = Proc /\ DOMAIN call' = Proc
      /\ pc'[p] = "user" /\ \A q \in Proc \ {p} : pc'[q] = pc[q] /\ call'[q] = call[q]
  BY <1>0, <1>2, FinishIs
<1>4. /\ DOMAIN wchan' = Proc
      /\ \A q \in Proc : wchan'[q] = IF CountAt(own) <= 1 /\ wchan[q] = own
                                     THEN NoChan ELSE wchan[q]
  BY <1>0, <1>2, WokenIs DEF ProcTypes
<1>5. /\ DOMAIN sig' = Proc /\ ~sig'[p] /\ \A q \in Proc \ {p} : sig'[q] = sig[q]
  BY <1>0, <1>2 DEF ProcTypes
<1>6. ProcTypes'
  BY <1>3, <1>4, <1>5 DEF ProcTypes
<1>7. Asleep'
  <2> SUFFICES ASSUME NEW q \in Proc
               PROVE  /\ wchan'[q] # NoChan => /\ pc'[q] = "slept"
                                               /\ call'[q].semp = wchan'[q]
                                               /\ ~sig'[q]
                      /\ sig'[q] => pc'[q] = "slept"
                      /\ pc'[q] = "slept" => \E j \in {"n", "z"} : \E t :
                                               call'[q].semp = <<j, t>>
    BY DEF Asleep
  <2>1. CASE q = p
    BY <2>1, <1>2, <1>3, <1>4, <1>5
  <2>2. CASE q # p
    <3>1. /\ wchan[q] # NoChan => pc[q] = "slept" /\ call[q].semp = wchan[q] /\ ~sig[q]
          /\ sig[q] => pc[q] = "slept"
          /\ pc[q] = "slept" => \E j \in {"n", "z"} : \E t : call[q].semp = <<j, t>>
      BY <1>0 DEF Asleep
    <3>2. /\ pc'[q] = pc[q] /\ call'[q] = call[q] /\ sig'[q] = sig[q]
          /\ wchan'[q] \in {wchan[q], NoChan}
      BY <2>2, <1>3, <1>4, <1>5
    <3> QED
      BY <3>1, <3>2
  <2> QED
    BY <2>1, <2>2
<1>8. \A ch \in Counter : CountAt(ch) \in Nat
  BY <1>0 DEF CountTypes, CountAt, Counter
<1>9. Counted'
  <2> SUFFICES ASSUME NEW ch \in Counter, NEW q \in Proc, wchan'[q] = ch
               PROVE  CountAt(ch)' > 0
    BY DEF Counted
  <2>1. wchan[q] = ch /\ ~(CountAt(own) <= 1 /\ ch = own)
    <3>1. ch # NoChan
      BY SlotIsInt DEF Counter, NoChan
    <3> QED
      BY <3>1, <1>4
  <2>2. CountAt(ch) > 0
    BY <2>1, <1>0 DEF Counted
  <2> QED
    BY <2>1, <2>2, <1>1, <1>8
<1>10. CountBounded'
  <2> SUFFICES ASSUME NEW ch \in Counter
               PROVE  CountAt(ch)' <= MaxCount + Cardinality(Waiting(ch)')
    BY DEF CountBounded
  <2>1. /\ IsFiniteSet(Waiting(ch)') /\ Cardinality(Waiting(ch)') \in Nat
        /\ IsFiniteSet(Waiting(ch)) /\ Cardinality(Waiting(ch)) \in Nat
    <3>1. Waiting(ch)' \subseteq Proc /\ Waiting(ch) \subseteq Proc
      BY DEF Waiting
    <3> QED
      BY <3>1, FS_Subset, FS_CardinalityType
  <2>2. CountAt(ch) <= MaxCount + Cardinality(Waiting(ch)) /\ MaxCount \in Nat
    BY <1>0, ConstAssumption DEF CountBounded
  <2>3. CASE ch = own /\ CountAt(own) <= 1
    BY <2>1, <2>2, <2>3, <1>1
  <2>4. CASE ~(ch = own /\ CountAt(own) <= 1)
    <3>1. \A q \in Proc : wchan'[q] = ch <=> wchan[q] = ch
      <4>1. ch # NoChan
        BY SlotIsInt DEF Counter, NoChan
      <4> QED
        BY <4>1, <2>4, <1>4
    <3>2. Waiting(ch)' = IF ch = own THEN Waiting(ch) \ {p} ELSE Waiting(ch)
      <4>1. \A q \in Proc \ {p} : q \in Waiting(ch)' <=> q \in Waiting(ch)
        BY <3>1, <1>3, <1>5 DEF Waiting
      <4>2. p \notin Waiting(ch)'
        BY <3>1, <1>2, <1>4, <1>5, SlotIsInt DEF Waiting, Counter, NoChan
      <4>3. p \in Waiting(ch) <=> ch = own
        BY <1>2, SlotIsInt DEF Waiting, Counter, NoChan, own
      <4> QED
        BY <4>1, <4>2, <4>3 DEF Waiting
    <3>3. CASE ch = own
      <4>1. p \in Waiting(ch)
        BY <3>3, <1>2 DEF Waiting, own
      <4>2. Cardinality(Waiting(ch)') = Cardinality(Waiting(ch)) - 1
        BY <3>2, <3>3, <4>1, <2>1, FS_RemoveElement
      <4> QED
        BY <2>1, <2>2, <2>4, <3>3, <4>2, <1>1, <1>8
    <3>4. CASE ch # own
      BY <2>2, <3>2, <3>4, <1>1
    <3> QED
      BY <3>3, <3>4
  <2> QED
    BY <2>3, <2>4
<1> QED
  BY <1>1, <1>6, <1>7, <1>9, <1>10 DEF CountInv

(* psignal: a process leaves its channel but stays counted. *)
LEMMA SignalKeeps ==
  ASSUME IsFiniteSet(Proc), CountInv, NEW p \in Proc, Signal(p)
  PROVE  CountInv'
<1>0. CountTypes /\ ProcTypes /\ Asleep /\ Counted /\ CountBounded
  BY DEF CountInv
<1>1. /\ pc[p] = "slept" /\ wchan' = [wchan EXCEPT ![p] = NoChan]
      /\ UNCHANGED <<semncnt, semzcnt, pc, call>>
  BY DEF Signal, semVars
<1>2. \/ ~sig[p] /\ sig' = [sig EXCEPT ![p] = TRUE]
      \/ wchan[p] # NoChan /\ CountAt(wchan[p]) < MaxCount /\ sig' = sig
  BY DEF Signal
<1>3. CountTypes' /\ ProcTypes' /\ \A ch : CountAt(ch)' = CountAt(ch)
  BY <1>0, <1>1, <1>2 DEF CountTypes, ProcTypes, CountAt
<1>4. /\ wchan'[p] = NoChan
      /\ \A q \in Proc \ {p} : wchan'[q] = wchan[q] /\ sig'[q] = sig[q]
      /\ sig'[p] = sig[p] \/ sig'[p]
  BY <1>0, <1>1, <1>2 DEF ProcTypes
<1>5. Asleep'
  BY <1>0, <1>1, <1>4 DEF Asleep
<1>6. Counted'
  <2> SUFFICES ASSUME NEW ch \in Counter, NEW q \in Proc, wchan'[q] = ch
               PROVE  CountAt(ch)' > 0
    BY DEF Counted
  <2>1. ch # NoChan
    BY SlotIsInt DEF Counter, NoChan
  <2>2. wchan[q] = ch
    BY <2>1, <1>4
  <2> QED
    BY <2>2, <1>0, <1>3 DEF Counted
<1>7. CountBounded'
  <2> SUFFICES ASSUME NEW ch \in Counter
               PROVE  CountAt(ch)' <= MaxCount + Cardinality(Waiting(ch)')
    BY DEF CountBounded
  <2>1. /\ IsFiniteSet(Waiting(ch)') /\ Cardinality(Waiting(ch)') \in Nat
        /\ IsFiniteSet(Waiting(ch)) /\ Cardinality(Waiting(ch)) \in Nat
    <3>1. Waiting(ch)' \subseteq Proc /\ Waiting(ch) \subseteq Proc
      BY DEF Waiting
    <3> QED
      BY <3>1, FS_Subset, FS_CardinalityType
  <2>2. /\ CountAt(ch) <= MaxCount + Cardinality(Waiting(ch)) /\ MaxCount \in Nat
        /\ CountAt(ch) \in Nat
    BY <1>0, ConstAssumption DEF CountBounded, CountTypes, CountAt, Counter
  <2>3. ch # NoChan
    BY SlotIsInt DEF Counter, NoChan
  <2>4. \A q \in Proc \ {p} : q \in Waiting(ch)' <=> q \in Waiting(ch)
    BY <1>1, <1>4 DEF Waiting
  <2>5. CASE p \in Waiting(ch)' \/ p \notin Waiting(ch)
    <3>1. Waiting(ch) \subseteq Waiting(ch)'
      BY <2>4, <2>5 DEF Waiting
    <3>2. Cardinality(Waiting(ch)) <= Cardinality(Waiting(ch)')
      BY <3>1, <2>1, FS_Subset
    <3> QED
      BY <3>2, <2>1, <2>2, <1>3
  <2>6. CASE p \notin Waiting(ch)' /\ p \in Waiting(ch)
    <3>1. wchan[p] = ch
      BY <2>6, <1>1, <1>4 DEF Waiting
    <3>2. call[p].semp = ch
      BY <3>1, <2>3, <1>0 DEF Asleep
    <3>3. CountAt(ch) < MaxCount
      <4>1. ~sig'[p]
        BY <2>6, <3>2, <1>1 DEF Waiting
      <4>2. CASE ~sig[p] /\ sig' = [sig EXCEPT ![p] = TRUE]
        BY <4>1, <4>2, <1>0 DEF ProcTypes
      <4> QED
        BY <4>2, <3>1, <1>2
    <3> QED
      BY <3>3, <2>1, <2>2, <1>3
  <2> QED
    BY <2>5, <2>6
<1> QED
  BY <1>3, <1>5, <1>6, <1>7 DEF CountInv

(* What semop does once the list is in the holding area. *)
LEMMA OperateKeeps ==
  ASSUME CountsFit, CountInv, NEW p \in Proc, Runs(p), NEW id, NEW ops, NEW list,
         Operate(p, id, ops, list)
  PROVE  CountInv'
<1>1. UNCHANGED sig
  BY DEF Operate
<1>2. CASE Succeed(p, id, list) \/ Fail(p, id, list)
  BY <1>1, <1>2, SucceedCalm, CalmKeeps DEF CountsFit
<1>3. CASE Block(p, id, ops, list)
  BY <1>1, <1>3, BlockKeeps
<1> QED
  BY <1>2, <1>3 DEF Operate

LEMMA SemopKeeps ==
  ASSUME CountsFit, CountInv, NEW p \in Proc,
         Semop(p) \/ Again(p) \/ Removed(p) \/ FaultOver(p)
  PROVE  CountInv'
<1>0. Asleep /\ IsFiniteSet(Proc)
  BY DEF CountInv, CountsFit
<1>1. Runs(p)
  <2>1. CASE pc[p] # "slept"
    BY <2>1, <1>0, UserRuns
  <2>2. CASE pc[p] = "slept"
    BY <2>2 DEF Semop, Again, Removed, FaultOver, Runs
  <2> QED
    BY <2>1, <2>2
<1>2. CASE Semop(p)
  <2>1. PICK id \in Id, ops \in Lists :
          \/ Operate(p, id, ops, ops)
          \/ UNCHANGED <<semVars, undoVars, procVars, settled>>
          \/ Fault(p, id, ops, FALSE)
    BY <1>2 DEF Semop
  <2>2. CASE Operate(p, id, ops, ops)
    BY <2>2, <1>1, OperateKeeps
  <2>3. CASE UNCHANGED <<semVars, undoVars, procVars, settled>>
    <3>1. UNCHANGED <<semncnt, semzcnt, wchan, sig, pc, call>>
      BY <2>3 DEF semVars, procVars
    <3> QED
      BY <3>1, <1>0, StaysCalm, CalmKeeps
  <2>4. CASE Fault(p, id, ops, FALSE)
    BY <2>4, <1>0, <1>1, FaultCalm, CalmKeeps
  <2> QED
    BY <2>1, <2>2, <2>3, <2>4
<1>3. CASE Again(p)
  <2>1. \/ Operate(p, call[p].id, call[p].ops, call[p].ops)
        \/ Fault(p, call[p].id, call[p].ops, TRUE)
    BY <1>3 DEF Again
  <2>2. CASE Operate(p, call[p].id, call[p].ops, call[p].ops)
    BY <2>2, <1>1, OperateKeeps
  <2>3. CASE Fault(p, call[p].id, call[p].ops, TRUE)
    BY <2>3, <1>0, <1>1, FaultCalm, CalmKeeps
  <2> QED
    BY <2>1, <2>2, <2>3
<1>4. CASE Removed(p)
  <2>1. Finish(p) /\ UNCHANGED <<semncnt, semzcnt, wchan, sig>>
    BY <1>4 DEF Removed, semVars
  <2> QED
    BY <2>1, <1>0, <1>1, EndsCalm, CalmKeeps
<1>5. CASE FaultOver(p)
  <2>1. \/ \E list : Operate(p, call[p].id, call[p].ops, list)
        \/ Finish(p) /\ UNCHANGED <<semVars, undoVars, wchan, sig, settled>>
    BY <1>5 DEF FaultOver
  <2>2. CASE \E list : Operate(p, call[p].id, call[p].ops, list)
    BY <2>2, <1>1, OperateKeeps
  <2>3. CASE Finish(p) /\ UNCHANGED <<semVars, undoVars, wchan, sig, settled>>
    <3>1. Finish(p) /\ UNCHANGED <<semncnt, semzcnt, wchan, sig>>
      BY <2>3 DEF semVars
    <3> QED
      BY <3>1, <1>0, <1>1, EndsCalm, CalmKeeps
  <2> QED
    BY <2>1, <2>2, <2>3
<1> QED
  BY <1>2, <1>3, <1>4, <1>5

LEMMA CountInvariance ==
  ASSUME CountsFit
  PROVE  Spec => []CountInv
<1>0. IsFiniteSet(Proc)
  BY DEF CountsFit
<1>1. Init => CountInv
  <2> SUFFICES ASSUME Init
               PROVE  CountInv
    OBVIOUS
  <2>1. CountTypes /\ ProcTypes
    BY DEF Init, CountTypes, ProcTypes
  <2>2. \A q \in Proc : wchan[q] = NoChan /\ ~sig[q] /\ pc[q] = "user"
    BY DEF Init
  <2>3. Asleep
    BY <2>2 DEF Asleep
  <2>4. \A ch \in Counter : ch # NoChan /\ CountAt(ch) = 0
    BY SlotIsInt DEF Init, Counter, CountAt, NoChan
  <2>5. Counted
    BY <2>2, <2>4 DEF Counted
  <2>6. ASSUME NEW ch \in Counter
        PROVE  CountAt(ch) <= MaxCount + Cardinality(Waiting(ch))
    <3>1. Waiting(ch) \subseteq Proc
      BY DEF Waiting
    <3>2. Cardinality(Waiting(ch)) \in Nat
      BY <3>1, <1>0, FS_Subset, FS_CardinalityType
    <3> QED
      BY <3>2, <2>4, ConstAssumption
  <2> QED
    BY <2>1, <2>3, <2>5, <2>6 DEF CountInv, CountBounded
<1>2. CountInv /\ [Next]_vars => CountInv'
  <2> SUFFICES ASSUME CountInv, [Next]_vars
               PROVE  CountInv'
    OBVIOUS
  <2>1. CASE UNCHANGED vars
    <3>1. UNCHANGED <<semncnt, semzcnt, wchan, sig, pc, call>>
      BY <2>1 DEF vars, semVars, procVars
    <3> QED
      BY <3>1 DEF CountInv, CountTypes, ProcTypes, Asleep, Counted, CountBounded,
                  Waiting, CountAt
  <2>2. CASE Next
    <3>1. PICK p \in Proc :
            \/ semget(p) \/ RemoveSet(p) \/ SetVal(p) \/ SetAll(p)
            \/ Semop(p) \/ Again(p) \/ Removed(p) \/ FaultOver(p)
            \/ Interrupted(p) \/ Signal(p) \/ semexit(p)
      BY <2>2 DEF Next
    <3>2. CASE semget(p) \/ RemoveSet(p) \/ SetVal(p) \/ SetAll(p) \/ semexit(p)
      BY <3>2, <1>0, OthersCalm, CalmKeeps
    <3>3. CASE Semop(p) \/ Again(p) \/ Removed(p) \/ FaultOver(p)
      BY <3>3, SemopKeeps
    <3>4. CASE Interrupted(p)
      BY <3>4, <1>0, InterruptedKeeps
    <3>5. CASE Signal(p)
      BY <3>5, <1>0, SignalKeeps
    <3> QED
      BY <3>1, <3>2, <3>3, <3>4, <3>5
  <2> QED
    BY <2>1, <2>2
<1> QED
  BY <1>1, <1>2, PTL DEF Spec

(* A process asleep in semop is counted, also while page faults let others *)
(* into the middle of a call: semncnt and semzcnt are raised with every    *)
(* sleep, given back once by a signal, and reset only with a wakeup, and   *)
(* they do not wrap.                                                       *)
THEOREM CountedSleepers ==
  ASSUME CountsFit
  PROVE  Spec => []SleepersCounted
<1>1. CountInv => SleepersCounted
  <2> SUFFICES ASSUME CountInv, NEW p \in Proc, NEW s \in Slot
               PROVE  /\ wchan[p] = <<"n", s>> => semncnt[s] > 0
                      /\ wchan[p] = <<"z", s>> => semzcnt[s] > 0
    BY DEF SleepersCounted
  <2>1. <<"n", s>> \in Counter /\ <<"z", s>> \in Counter
    BY DEF Counter
  <2>2. CountAt(<<"n", s>>) = semncnt[s] /\ CountAt(<<"z", s>>) = semzcnt[s]
    BY DEF CountAt
  <2> QED
    BY <2>1, <2>2 DEF CountInv, Counted
<1> QED
  BY <1>1, CountInvariance, PTL

-----------------------------------------------------------------------------
(* The rest is about lists that are copied without a page fault, so that a *)
(* call is not interrupted: the lists that are done are those of callers,  *)
(* and their sets are there.                                               *)
SetTypes ==
  /\ sema \in [Hdr -> [alloc : BOOLEAN, seq : 0 .. MaxSeq, base : Int, nsems : Nat]]
  /\ \A q \in Proc : pc[q] \in {"user", "slept"}

(* The sets have the semaphores of the system among them. *)
Apart ==
  /\ \A h \in Hdr : SlotsOf(h) \subseteq Slot
  /\ \A g, h \in Hdr : g # h => SlotsOf(g) \cap SlotsOf(h) = {}

(* The set id is there, with all the semaphores that list names. *)
Holds(id, list) == semconv(id) /\ InRange(id, list)

(* The set that a sleeper named is there, or was removed for good. *)
Grounded(q) ==
  /\ call[q].id \in Id /\ call[q].ops \in Lists
  /\ \/ /\ Holds(call[q].id, call[q].ops)
        /\ call[q].semp[2] \in SlotsOf(HdrOf(call[q].id))
     \/ call[q].id \div semmni < sema[HdrOf(call[q].id)].seq

Grounds == \A q \in Proc : pc[q] = "slept" => Grounded(q)

(* Nobody is still asleep on a set that is gone. *)
Belongs == \A q \in Proc : wchan[q] # NoChan => semconv(call[q].id)

SetInv == SetTypes /\ Apart /\ Grounds /\ Belongs

LEMMA IdParts ==
  ASSUME NEW id \in Id
  PROVE  HdrOf(id) \in Hdr /\ id \in Int /\ id \div semmni \in Int
<1>1. semmni \in Nat \ {0} /\ id \in Nat
  BY ConstAssumption DEF Id
<1>2. id % semmni \in 0 .. semmni - 1 /\ id \div semmni \in Int
  BY <1>1
<1> QED
  BY <1>1, <1>2 DEF HdrOf, Hdr

LEMMA ListIs ==
  ASSUME NEW list \in Lists
  PROVE  /\ Len(list) \in Nat /\ DOMAIN list = 1 .. Len(list)
         /\ \A i \in DOMAIN list :
              /\ list[i].num \in Nat /\ list[i].op \in Int
              /\ list[i].undo \in BOOLEAN /\ list[i].nowait \in BOOLEAN
<1>1. list \in Seq(Op)
  BY ConstAssumption
<1>2. \A i \in DOMAIN list : list[i] \in Op
  BY <1>1
<1> QED
  BY <1>1, <1>2 DEF Op

(* The semaphores that a list names are the set's. *)
LEMMA NamedSlot ==
  ASSUME SetTypes, NEW id \in Id, NEW list \in Lists, Holds(id, list),
         NEW i \in DOMAIN list
  PROVE  SlotOf(id, list[i].num) \in SlotsOf(HdrOf(id))
<1> DEFINE h == HdrOf(id)
           n == list[i].num
<1>1. h \in Hdr /\ n \in Nat
  BY IdParts, ListIs
<1>2. sema[h].alloc /\ n < sema[h].nsems
  BY DEF Holds, semconv, InRange
<1>3. sema[h].base \in Int /\ sema[h].nsems \in Nat
  BY <1>1 DEF SetTypes
<1>4. SlotsOf(h) = sema[h].base .. sema[h].base + sema[h].nsems - 1
  BY <1>2 DEF SlotsOf
<1>5. SlotOf(id, n) = sema[h].base + n
  BY DEF SlotOf
<1> HIDE DEF n, h
<1>6. SlotOf(id, n) \in SlotsOf(h)
  BY <1>1, <1>2, <1>3, <1>4, <1>5
<1> QED
  BY <1>6 DEF n, h

(* Where a call does its list, without a fault. *)
Calls(p, id, list) ==
  /\ id \in Id /\ list \in Lists /\ Holds(id, list)
  /\ Runs(p)
  /\ Operate(p, id, list, list)

(* A process in semop does the list of its call, or nothing. *)
LEMMA SemopIs ==
  ASSUME PageFault = FALSE, CountInv, SetInv, NEW p \in Proc,
         Semop(p) \/ Again(p) \/ FaultOver(p)
  PROVE  \/ \E id, list : Calls(p, id, list)
         \/ UNCHANGED <<semVars, undoVars, procVars, settled>>
<1>0. Asleep /\ SetTypes /\ Grounds
  BY DEF CountInv, SetInv
<1>1. CASE Semop(p)
  <2>0. Runs(p)
    BY <1>0, <1>1, UserRuns DEF Semop
  <2>1. PICK id \in Id, ops \in Lists :
          /\ semconv(id)
          /\ \/ /\ InRange(id, ops) /\ Operate(p, id, ops, ops)
             \/ UNCHANGED <<semVars, undoVars, procVars, settled>>
    BY <1>1 DEF Semop, Fault
  <2>2. CASE InRange(id, ops) /\ Operate(p, id, ops, ops)
    BY <2>0, <2>1, <2>2 DEF Calls, Holds
  <2> QED
    BY <2>1, <2>2
<1>2. CASE Again(p)
  <2>1. /\ pc[p] = "slept" /\ Runs(p) /\ semconv(call[p].id)
        /\ Operate(p, call[p].id, call[p].ops, call[p].ops)
    BY <1>2 DEF Again, Fault, Runs
  <2>2. Grounded(p)
    BY <1>0, <2>1 DEF Grounds
  <2> DEFINE id == call[p].id
             list == call[p].ops
  <2>3. id \in Id /\ list \in Lists
    BY <2>2 DEF Grounded
  <2>4. Holds(id, list)
    <3>1. id \div semmni = sema[HdrOf(id)].seq /\ id \div semmni \in Int
      BY <2>1, <2>3, IdParts DEF semconv
    <3>2. ~(id \div semmni < sema[HdrOf(id)].seq)
      BY <3>1
    <3> QED
      BY <2>2, <3>2 DEF Grounded
  <2>5. Calls(p, id, list)
    BY <2>1, <2>3, <2>4 DEF Calls
  <2> HIDE DEF id, list
  <2> QED
    BY <2>5
<1>3. CASE FaultOver(p)
  BY <1>0, <1>3 DEF FaultOver, SetTypes
<1> QED
  BY <1>1, <1>2, <1>3

-----------------------------------------------------------------------------
(* A step that makes no set, removes none and puts nobody to sleep. *)
Settled(p) ==
  /\ UNCHANGED sema
  /\ \A q \in Proc : wchan'[q] \in {wchan[q], NoChan}
  /\ \A q \in Proc : (pc'[q] = pc[q] /\ call'[q] = call[q]) \/ pc'[q] = "user"

LEMMA SettledKeeps ==
  ASSUME SetInv, Asleep', NEW p, Settled(p)
  PROVE  SetInv'
<1>1. SetTypes' /\ Apart'
  BY DEF SetInv, SetTypes, Apart, Settled, SlotsOf
<1>2. \A id, list : Holds(id, list)' <=> Holds(id, list)
  BY DEF Settled, Holds, semconv, InRange
<1>3. ASSUME NEW q \in Proc, pc'[q] = "slept"
      PROVE  Grounded(q)'
  <2>1. pc[q] = "slept" /\ call'[q] = call[q] /\ sema' = sema
    BY <1>3 DEF Settled
  <2>2. Grounded(q)
    BY <2>1 DEF SetInv, Grounds
  <2> QED
    BY <2>1, <2>2, <1>2 DEF Grounded, SlotsOf
<1>4. ASSUME NEW q \in Proc, wchan'[q] # NoChan
      PROVE  semconv(call[q].id)'
  <2>1. pc'[q] = "slept"
    BY <1>4 DEF Asleep
  <2>2. call'[q] = call[q] /\ wchan[q] # NoChan /\ sema' = sema
    BY <1>4, <2>1 DEF Settled
  <2>3. semconv(call[q].id)
    BY <2>2 DEF SetInv, Belongs
  <2> QED
    BY <2>2, <2>3 DEF semconv
<1> QED
  BY <1>1, <1>3, <1>4 DEF SetInv, Grounds, Belongs

LEMMA OthersSettled ==
  ASSUME CountInv, SetInv, NEW p \in Proc,
         \/ SetVal(p) \/ SetAll(p) \/ semexit(p)
         \/ Removed(p) \/ Interrupted(p) \/ Signal(p)
  PROVE  Settled(p)
<1>0. CountTypes /\ ProcTypes
  BY DEF CountInv
<1>1. CASE SetVal(p) \/ SetAll(p) \/ semexit(p)
  <2>1. UNCHANGED <<sema, pc, call>>
    BY <1>1 DEF SetVal, SetAll, semexit
  <2>2. PICK ns, zs : Wake(ns, zs)
    BY <1>1 DEF SetVal, SetAll, semexit
  <2>3. Wakes
    BY <1>0, <2>2, WakeWakes
  <2> QED
    BY <2>1, <2>3 DEF Settled, Wakes
<1>2. CASE Removed(p)
  <2>1. Finish(p) /\ UNCHANGED <<sema, wchan>>
    BY <1>2 DEF Removed, semVars
  <2> QED
    BY <1>0, <2>1, FinishIs DEF Settled
<1>3. CASE Interrupted(p)
  <2>1. Finish(p) /\ UNCHANGED sema
    BY <1>3 DEF Interrupted
  <2>2. \A q \in Proc : wchan'[q] \in {wchan[q], NoChan}
    BY <1>3, WokenIs DEF Interrupted
  <2> QED
    BY <1>0, <2>1, <2>2, FinishIs DEF Settled
<1>4. CASE Signal(p)
  BY <1>0, <1>4 DEF Signal, semVars, ProcTypes, Settled
<1> QED
  BY <1>1, <1>2, <1>3, <1>4

LEMMA SucceedSettled ==
  ASSUME CountInv, NEW p \in Proc, NEW id, NEW list, UNCHANGED sema,
         Succeed(p, id, list) \/ Fail(p, id, list)
  PROVE  Settled(p)
<1>0. CountTypes /\ ProcTypes
  BY DEF CountInv
<1>1. Finish(p)
  BY DEF Succeed, Fail
<1>2. PICK ns, zs : Wake(ns, zs)
  BY DEF Succeed, Fail
<1>3. Wakes
  BY <1>0, <1>2, WakeWakes
<1> QED
  BY <1>0, <1>1, <1>3, FinishIs DEF Settled, Wakes

(* The process sleeps on a semaphore of a set that is there. *)
LEMMA BlockGrounded ==
  ASSUME CountInv, SetInv, NEW p \in Proc, NEW id \in Id, NEW list \in Lists,
         Holds(id, list), UNCHANGED sema, Block(p, id, list, list)
  PROVE  SetInv'
<1> DEFINE n == Stop(p, id, list)
           ns == Raised(id, list, n)
           zs == Emptied(id, list, n)
           k == IF list[n].op < 0 THEN "n" ELSE "z"
           s == SlotOf(id, list[n].num)
<1>1. PICK c : Blocks(p, id, list, ns, zs, k, s, c)
  BY BlockIs
<1>2. s \in SlotsOf(HdrOf(id))
  <2>1. n \in DOMAIN list
    BY DEF Block
  <2> QED
    BY <2>1, NamedSlot DEF SetInv
<1> HIDE DEF n, ns, zs, k, s
<1>3. ProcTypes
  BY DEF CountInv
<1>4. /\ call'[p].id = id /\ call'[p].ops = list /\ call'[p].semp = <<k, s>>
      /\ pc'[p] = "slept"
      /\ \A q \in Proc \ {p} : pc'[q] = pc[q] /\ call'[q] = call[q]
  BY <1>1, <1>3 DEF Blocks, ProcTypes
<1>5. \A q \in Proc \ {p} : wchan'[q] \in {wchan[q], NoChan}
  BY <1>1, WokenIs DEF Blocks
<1>6. SetTypes' /\ Apart'
  BY <1>4 DEF SetInv, SetTypes, Apart, SlotsOf
<1>7. \A i, l : /\ Holds(i, l)' <=> Holds(i, l)
                /\ semconv(i)' <=> semconv(i)
  BY DEF Holds, semconv, InRange
<1>8. ASSUME NEW q \in Proc, pc'[q] = "slept"
      PROVE  Grounded(q)'
  <2>1. CASE q = p
    <3>1. call'[q].semp[2] = s
      BY <2>1, <1>4
    <3> QED
      BY <2>1, <3>1, <1>2, <1>4, <1>7 DEF Grounded, SlotsOf
  <2>2. CASE q # p
    <3>1. call'[q] = call[q] /\ Grounded(q) /\ sema' = sema
      BY <1>4, <1>8, <2>2 DEF SetInv, Grounds
    <3> QED
      BY <3>1, <1>7 DEF Grounded, SlotsOf
  <2> QED
    BY <2>1, <2>2
<1>9. ASSUME NEW q \in Proc, wchan'[q] # NoChan
      PROVE  semconv(call[q].id)'
  <2>1. CASE q = p
    BY <2>1, <1>4, <1>7 DEF Holds
  <2>2. CASE q # p
    BY <2>2, <1>4, <1>5, <1>7, <1>9 DEF SetInv, Belongs
  <2> QED
    BY <2>1, <2>2
<1> QED
  BY <1>6, <1>8, <1>9 DEF SetInv, Grounds, Belongs

-----------------------------------------------------------------------------
(* semget: a header not in use gets semaphores that no set has. *)
Makes(h, n, i) ==
  /\ h \in Hdr /\ n \in 1 .. semmsl /\ i \in Slot
  /\ ~sema[h].alloc /\ i .. i + n - 1 \subseteq FreeSlots
  /\ sema' = [sema EXCEPT ![h].alloc = TRUE, ![h].base = i, ![h].nsems = n]

LEMMA SemgetIs ==
  ASSUME NEW p, semget(p)
  PROVE  /\ \E h, n, i : Makes(h, n, i)
         /\ UNCHANGED <<semval, semncnt, semzcnt, undo, aoe, settled>>
         /\ UNCHANGED <<pc, call, wchan, sig>>
BY DEF semget, FirstFit, Makes, undoVars, procVars

LEMMA MakesIs ==
  ASSUME SetTypes, NEW h, NEW n, NEW i, Makes(h, n, i)
  PROVE  /\ sema' \in [Hdr -> [alloc : BOOLEAN, seq : 0 .. MaxSeq, base : Int, nsems : Nat]]
         /\ sema'[h].alloc /\ sema'[h].seq = sema[h].seq
         /\ SlotsOf(h)' = i .. i + n - 1
         /\ \A g \in Hdr \ {h} : sema'[g] = sema[g] /\ SlotsOf(g)' = SlotsOf(g)
<1> DEFINE r == sema[h]
           d == [r EXCEPT !.alloc = TRUE, !.base = i, !.nsems = n]
<1>1. r \in [alloc : BOOLEAN, seq : 0 .. MaxSeq, base : Int, nsems : Nat] /\ h \in Hdr
  BY DEF SetTypes, Makes
<1>2. i \in Int /\ n \in Nat
  BY ConstAssumption DEF Makes, Slot
<1>3. /\ d \in [alloc : BOOLEAN, seq : 0 .. MaxSeq, base : Int, nsems : Nat]
      /\ d.alloc = TRUE /\ d.base = i /\ d.nsems = n /\ d.seq = r.seq
  <2> HIDE DEF r
  <2> QED
    BY <1>1, <1>2
<1>4. sema' = [sema EXCEPT ![h] = d]
  BY DEF Makes
<1> HIDE DEF d, r
<1>5. /\ sema' \in [Hdr -> [alloc : BOOLEAN, seq : 0 .. MaxSeq, base : Int, nsems : Nat]]
      /\ sema'[h] = d /\ \A g \in Hdr \ {h} : sema'[g] = sema[g]
  BY <1>1, <1>3, <1>4 DEF SetTypes
<1> QED
  BY <1>3, <1>5 DEF SlotsOf, r

(* The free semaphores are in no set. *)
LEMMA FreeIs ==
  ASSUME NEW h \in Hdr
  PROVE  FreeSlots \cap SlotsOf(h) = {} /\ FreeSlots \subseteq Slot
BY DEF FreeSlots

LEMMA SemgetKeeps ==
  ASSUME SetInv, Asleep, NEW p, semget(p)
  PROVE  SetInv'
<1>1. PICK h, n, i : Makes(h, n, i)
  BY SemgetIs
<1>2. UNCHANGED <<pc, call, wchan>>
  BY SemgetIs
<1>3. /\ SetTypes' /\ h \in Hdr /\ ~sema[h].alloc
      /\ sema'[h].alloc /\ sema'[h].seq = sema[h].seq
      /\ SlotsOf(h)' = i .. i + n - 1
      /\ i .. i + n - 1 \subseteq FreeSlots
      /\ \A g \in Hdr \ {h} : sema'[g] = sema[g] /\ SlotsOf(g)' = SlotsOf(g)
  BY <1>1, <1>2, MakesIs DEF SetInv, SetTypes, Makes
<1>4. Apart'
  <2>1. ASSUME NEW g \in Hdr
        PROVE  SlotsOf(g)' \subseteq Slot
    <3>1. CASE g = h
      BY <3>1, <1>3, FreeIs
    <3>2. CASE g # h
      BY <3>2, <1>3 DEF SetInv, Apart
    <3> QED
      BY <3>1, <3>2
  <2>2. ASSUME NEW f \in Hdr, NEW g \in Hdr, f # g
        PROVE  SlotsOf(f)' \cap SlotsOf(g)' = {}
    <3>1. CASE f = h
      BY <2>2, <3>1, <1>3, FreeIs
    <3>2. CASE g = h
      BY <2>2, <3>2, <1>3, FreeIs
    <3>3. CASE f # h /\ g # h
      BY <2>2, <3>3, <1>3 DEF SetInv, Apart
    <3> QED
      BY <3>1, <3>2, <3>3
  <2> QED
    BY <2>1, <2>2 DEF Apart
<1>5. \A id \in Id : semconv(id) => HdrOf(id) # h /\ HdrOf(id) \in Hdr
  BY <1>3, IdParts DEF semconv
<1>6. ASSUME NEW q \in Proc, pc'[q] = "slept"
      PROVE  Grounded(q)'
  <2>1. Grounded(q) /\ call' = call
    BY <1>2, <1>6 DEF SetInv, Grounds
  <2>2. PICK g \in Hdr : g = HdrOf(call[q].id)
    BY <2>1, IdParts DEF Grounded
  <2>3. CASE /\ Holds(call[q].id, call[q].ops)
             /\ call[q].semp[2] \in SlotsOf(g)
    <3>1. g # h
      BY <2>1, <2>2, <2>3, <1>5 DEF Holds, Grounded
    <3>2. sema'[g] = sema[g] /\ SlotsOf(g)' = SlotsOf(g)
      BY <2>2, <3>1, <1>3
    <3>3. Holds(call[q].id, call[q].ops)'
      BY <2>1, <2>2, <2>3, <3>2 DEF Holds, semconv, InRange
    <3>4. call'[q] = call[q]
      BY <2>1
    <3>5. (call[q].semp[2] \in SlotsOf(HdrOf(call[q].id)))'
      BY <2>2, <2>3, <3>2, <3>4
    <3> QED
      BY <2>1, <3>3, <3>4, <3>5 DEF Grounded
  <2>4. CASE call[q].id \div semmni < sema[g].seq
    <3>1. sema'[g].seq = sema[g].seq
      BY <2>2, <1>3
    <3> QED
      BY <2>1, <2>2, <2>4, <3>1 DEF Grounded
  <2> QED
    BY <2>1, <2>2, <2>3, <2>4 DEF Grounded
<1>7. ASSUME NEW q \in Proc, wchan'[q] # NoChan
      PROVE  semconv(call[q].id)'
  <2>0. pc[q] = "slept"
    BY <1>2, <1>7 DEF Asleep
  <2>1. semconv(call[q].id) /\ call' = call /\ call[q].id \in Id
    BY <1>2, <1>7, <2>0 DEF SetInv, Belongs, Grounds, Grounded
  <2>2. sema'[HdrOf(call[q].id)] = sema[HdrOf(call[q].id)]
    BY <2>1, <1>3, <1>5
  <2> QED
    BY <2>1, <2>2 DEF semconv
<1> QED
  BY <1>3, <1>4, <1>6, <1>7 DEF SetInv, Grounds, Belongs

(* semctl IPC_RMID *)
Removes(id) ==
  LET h == HdrOf(id)
  IN  /\ id \in Id /\ semconv(id) /\ sema[h].seq < MaxSeq
      /\ semunrm(id, 0, sema[h].nsems)
      /\ semval' = ZeroAt(semval, SlotsOf(h))
      /\ settled' = ZeroAt(settled, SlotsOf(h))
      /\ Wake(SlotsOf(h), SlotsOf(h))
      /\ sema' = [sema EXCEPT ![h].alloc = FALSE, ![h].seq = @ + 1]
      /\ UNCHANGED <<undo, pc, call, sig>>

LEMMA RemoveSetIs ==
  ASSUME NEW p, RemoveSet(p)
  PROVE  \E id : Removes(id)
BY DEF RemoveSet, Removes

LEMMA RemovesIs ==
  ASSUME SetTypes, NEW id, Removes(id), NEW h, h = HdrOf(id)
  PROVE  /\ sema' \in [Hdr -> [alloc : BOOLEAN, seq : 0 .. MaxSeq, base : Int, nsems : Nat]]
         /\ h \in Hdr /\ sema[h].alloc /\ id \div semmni = sema[h].seq
         /\ ~sema'[h].alloc /\ sema'[h].seq = sema[h].seq + 1
         /\ SlotsOf(h)' = {}
         /\ \A g \in Hdr \ {h} : sema'[g] = sema[g] /\ SlotsOf(g)' = SlotsOf(g)
<1> DEFINE r == sema[h]
           d == [r EXCEPT !.alloc = FALSE, !.seq = @ + 1]
<1>1. /\ r \in [alloc : BOOLEAN, seq : 0 .. MaxSeq, base : Int, nsems : Nat]
      /\ h \in Hdr /\ sema[h].alloc /\ id \div semmni = sema[h].seq
  BY IdParts DEF SetTypes, Removes, semconv
<1>2. r.seq < MaxSeq /\ MaxSeq \in Nat
  BY ConstAssumption DEF Removes
<1>3. /\ d \in [alloc : BOOLEAN, seq : 0 .. MaxSeq, base : Int, nsems : Nat]
      /\ d.alloc = FALSE /\ d.seq = r.seq + 1
  <2> HIDE DEF r
  <2>1. r.seq + 1 \in 0 .. MaxSeq
    BY <1>1, <1>2
  <2> DEFINE n == r.seq + 1
  <2>2. d = [r EXCEPT !.alloc = FALSE, !.seq = n] /\ n \in 0 .. MaxSeq
    BY <2>1
  <2> HIDE DEF n, d
  <2>3. /\ d \in [alloc : BOOLEAN, seq : 0 .. MaxSeq, base : Int, nsems : Nat]
        /\ d.alloc = FALSE /\ d.seq = n
    BY <1>1, <2>2
  <2> QED
    BY <2>3 DEF n
<1>4. sema' = [sema EXCEPT ![h] = d]
  BY DEF Removes
<1> HIDE DEF d, r
<1>5. /\ sema' \in [Hdr -> [alloc : BOOLEAN, seq : 0 .. MaxSeq, base : Int, nsems : Nat]]
      /\ sema'[h] = d /\ \A g \in Hdr \ {h} : sema'[g] = sema[g]
  BY <1>1, <1>3, <1>4 DEF SetTypes
<1> QED
  BY <1>1, <1>3, <1>5 DEF SlotsOf, r

LEMMA RemoveSetKeeps ==
  ASSUME CountInv, SetInv, NEW id, Removes(id)
  PROVE  SetInv'
<1>0. CountTypes /\ ProcTypes /\ Asleep /\ Counted
  BY DEF CountInv
<1>1. PICK h : h = HdrOf(id)
  OBVIOUS
<1>2. /\ h \in Hdr /\ sema[h].alloc /\ id \div semmni = sema[h].seq
      /\ ~sema'[h].alloc /\ sema'[h].seq = sema[h].seq + 1 /\ SlotsOf(h)' = {}
      /\ \A g \in Hdr \ {h} : sema'[g] = sema[g] /\ SlotsOf(g)' = SlotsOf(g)
      /\ UNCHANGED <<pc, call>>
  BY <1>1, RemovesIs DEF SetInv, Removes
<1>3. SetTypes'
  BY <1>1, <1>2, RemovesIs DEF SetInv, SetTypes
<1>4. Apart'
  BY <1>2 DEF SetInv, Apart
<1>5. sema[h].seq \in Int
  BY <1>2 DEF SetInv, SetTypes
<1>6. ASSUME NEW q \in Proc, pc'[q] = "slept"
      PROVE  Grounded(q)'
  <2>1. Grounded(q) /\ call'[q] = call[q]
    BY <1>2, <1>6 DEF SetInv, Grounds
  <2>2. PICK g \in Hdr : g = HdrOf(call[q].id)
    BY <2>1, IdParts DEF Grounded
  <2>3. CASE g # h
    <3>1. sema'[g] = sema[g] /\ SlotsOf(g)' = SlotsOf(g)
      BY <2>2, <2>3, <1>2
    <3>2. Holds(call[q].id, call[q].ops)' <=> Holds(call[q].id, call[q].ops)
      BY <2>1, <2>2, <3>1 DEF Holds, semconv, InRange
    <3>3. (call[q].semp[2] \in SlotsOf(HdrOf(call[q].id)))'
            <=> call[q].semp[2] \in SlotsOf(HdrOf(call[q].id))
      BY <2>1, <2>2, <3>1
    <3>4. sema'[HdrOf(call'[q].id)].seq = sema[HdrOf(call[q].id)].seq
      BY <2>1, <2>2, <3>1
    <3> QED
      BY <2>1, <3>2, <3>3, <3>4 DEF Grounded
  <2>4. CASE g = h
    <3>1. call[q].id \div semmni <= sema[h].seq /\ call[q].id \div semmni \in Int
      BY <2>1, <2>2, <2>4, <1>5, IdParts DEF Grounded, Holds, semconv
    <3>2. call[q].id \div semmni < sema'[h].seq
      BY <3>1, <1>2, <1>5
    <3> QED
      BY <2>1, <2>2, <2>4, <3>2 DEF Grounded
  <2> QED
    BY <2>3, <2>4
<1>7. Wake(SlotsOf(h), SlotsOf(h))
  BY <1>1 DEF Removes
<1>8. ASSUME NEW q \in Proc, wchan'[q] # NoChan
      PROVE  semconv(call[q].id)'
  <2>1. /\ wchan[q] = wchan'[q] /\ wchan[q] # NoChan
        /\ wchan[q] \notin Reset(SlotsOf(h), SlotsOf(h))
    BY <1>7, <1>8, WokenIs DEF Wake, Reset
  <2>2. pc[q] = "slept" /\ call[q].semp = wchan[q] /\ call'[q] = call[q]
    BY <2>1, <1>0, <1>2 DEF Asleep
  <2>3. semconv(call[q].id) /\ Grounded(q)
    BY <2>1, <2>2 DEF SetInv, Belongs, Grounds
  <2>4. PICK g \in Hdr : g = HdrOf(call[q].id)
    BY <2>3, IdParts DEF Grounded
  <2>5. CASE g # h
    BY <2>2, <2>3, <2>4, <2>5, <1>2 DEF semconv
  <2>6. CASE g = h
    <3>1. ~(call[q].id \div semmni < sema[g].seq)
      BY <2>3, <2>4, <2>6, <1>5 DEF semconv
    <3>2. call[q].semp[2] \in SlotsOf(h)
      BY <2>3, <2>4, <2>6, <3>1 DEF Grounded
    <3>3. PICK k \in {"n", "z"} : \E s : call[q].semp = <<k, s>>
      BY <2>2, <1>0 DEF Asleep
    <3>4. PICK s : call[q].semp = <<k, s>>
      BY <3>3
    <3>5. s \in SlotsOf(h) /\ s \in Slot
      BY <3>2, <3>4, <1>2 DEF SetInv, Apart
    <3>6. <<k, s>> \in Counter /\ wchan[q] = <<k, s>>
      BY <2>2, <3>4, <3>5 DEF Counter
    <3>7. CountAt(<<k, s>>) > 0
      BY <3>6, <1>0 DEF Counted
    <3>8. IF k = "n" THEN semncnt[s] > 0 ELSE semzcnt[s] > 0
      BY <3>7 DEF CountAt
    <3>9. <<k, s>> \in Reset(SlotsOf(h), SlotsOf(h))
      BY <3>5, <3>8 DEF Reset
    <3> QED
      BY <2>1, <3>6, <3>9
  <2> QED
    BY <2>5, <2>6
<1> QED
  BY <1>3, <1>4, <1>6, <1>8 DEF SetInv, Grounds, Belongs

LEMMA SetInvariance ==
  ASSUME CountsFit, PageFault = FALSE
  PROVE  Spec => [](CountInv /\ SetInv)
<1>1. Init => SetInv
  <2> SUFFICES ASSUME Init
               PROVE  SetInv
    OBVIOUS
  <2>1. SetTypes
    BY ConstAssumption DEF Init, SetTypes
  <2>2. Apart
    BY DEF Init, Apart, SlotsOf
  <2>3. Grounds /\ Belongs
    BY DEF Init, Grounds, Belongs
  <2> QED
    BY <2>1, <2>2, <2>3 DEF SetInv
<1>2. CountInv /\ CountInv' /\ SetInv /\ [Next]_vars => SetInv'
  <2> SUFFICES ASSUME CountInv, CountInv', SetInv, [Next]_vars
               PROVE  SetInv'
    OBVIOUS
  <2>0. Asleep /\ Asleep'
    BY DEF CountInv
  <2>1. CASE UNCHANGED vars
    <3>1. UNCHANGED <<sema, pc, call, wchan>>
      BY <2>1 DEF vars, semVars, procVars
    <3>2. \A q : Settled(q)
      BY <3>1 DEF Settled
    <3> QED
      BY <2>0, <3>2, SettledKeeps
  <2>2. CASE Next
    <3>1. PICK p \in Proc :
            \/ semget(p) \/ RemoveSet(p) \/ SetVal(p) \/ SetAll(p)
            \/ Semop(p) \/ Again(p) \/ Removed(p) \/ FaultOver(p)
            \/ Interrupted(p) \/ Signal(p) \/ semexit(p)
      BY <2>2 DEF Next
    <3>2. CASE semget(p)
      BY <2>0, <3>2, SemgetKeeps
    <3>3. CASE RemoveSet(p)
      BY <3>3, RemoveSetIs, RemoveSetKeeps
    <3>4. CASE \/ SetVal(p) \/ SetAll(p) \/ semexit(p)
               \/ Removed(p) \/ Interrupted(p) \/ Signal(p)
      BY <2>0, <3>4, OthersSettled, SettledKeeps
    <3>5. CASE Semop(p) \/ Again(p) \/ FaultOver(p)
      <4>1. CASE UNCHANGED <<semVars, undoVars, procVars, settled>>
        <5>1. Settled(p)
          BY <4>1 DEF Settled, semVars, procVars
        <5> QED
          BY <2>0, <5>1, SettledKeeps
      <4>2. CASE \E id, list : Calls(p, id, list)
        <5>1. PICK id, list : Calls(p, id, list)
          BY <4>2
        <5>2. /\ id \in Id /\ list \in Lists /\ Holds(id, list) /\ UNCHANGED sema
              /\ \/ Succeed(p, id, list) \/ Fail(p, id, list)
                 \/ Block(p, id, list, list)
          BY <5>1 DEF Calls, Operate
        <5>3. CASE Succeed(p, id, list) \/ Fail(p, id, list)
          BY <2>0, <5>2, <5>3, SucceedSettled, SettledKeeps
        <5>4. CASE Block(p, id, list, list)
          BY <5>2, <5>4, BlockGrounded
        <5> QED
          BY <5>2, <5>3, <5>4
      <4> QED
        BY <3>5, <4>1, <4>2, SemopIs
    <3> QED
      BY <3>1, <3>2, <3>3, <3>4, <3>5
  <2> QED
    BY <2>1, <2>2
<1> QED
  BY <1>1, <1>2, CountInvariance, PTL DEF Spec

(* Nobody sleeps on a semaphore whose set is gone: IPC_RMID wakes whom it  *)
(* finds counted, which is everybody, and a process that comes back from   *)
(* its sleep looks for the set again before it waits once more.            *)
THEOREM SleepersHaveTheirSet ==
  ASSUME CountsFit, PageFault = FALSE
  PROVE  Spec => []SleepersSetExists
<1>1. CountInv /\ SetInv => SleepersSetExists
  <2> SUFFICES ASSUME CountInv, SetInv, NEW p \in Proc, wchan[p] # NoChan
               PROVE  /\ semconv(call[p].id)
                      /\ wchan[p][2] \in SlotsOf(HdrOf(call[p].id))
    BY DEF SleepersSetExists
  <2>1. pc[p] = "slept" /\ call[p].semp = wchan[p]
    BY DEF CountInv, Asleep
  <2>2. semconv(call[p].id) /\ Grounded(p)
    BY <2>1 DEF SetInv, Belongs, Grounds
  <2>3. sema[HdrOf(call[p].id)].seq \in Int
    BY <2>2, IdParts DEF Grounded, SetInv, SetTypes
  <2>4. ~(call[p].id \div semmni < sema[HdrOf(call[p].id)].seq)
    BY <2>2, <2>3 DEF semconv
  <2> QED
    BY <2>1, <2>2, <2>4 DEF Grounded
<1> QED
  BY <1>1, SetInvariance, PTL

-----------------------------------------------------------------------------
(* The sums of the operations of a list. *)
LEMMA NetEmpty ==
  ASSUME NEW list
  PROVE  Net(list, {}) = 0
BY SumEmpty DEF Net

(* What the operations of list among those in Q have come to after j. *)
Part(list, Q, j) == Net(list, {i \in 1 .. j : i \in Q})

LEMMA NetIs ==
  ASSUME NEW list \in Lists, NEW A \in SUBSET DOMAIN list
  PROVE  /\ IsFiniteSet(A) /\ Net(list, A) \in Int
         /\ \A i \in A : Net(list, A) = list[i].op + Net(list, A \ {i})
<1> DEFINE f == [i \in DOMAIN list |-> list[i].op]
<1>1. IsFiniteSet(A)
  <2>1. IsFiniteSet(DOMAIN list)
    BY ListIs, FS_Interval
  <2> QED
    BY <2>1, FS_Subset
<1>2. \A i \in A : f[i] = list[i].op /\ f[i] \in Int
  BY ListIs
<1>3. \A X : Net(list, X) = SumFunctionOnSet(f, X)
  BY DEF Net
<1> HIDE DEF f
<1> QED
  BY <1>1, <1>2, <1>3, SumType, SumAdd

LEMMA NetSplit ==
  ASSUME NEW list \in Lists, NEW A \in SUBSET DOMAIN list,
         NEW B \in SUBSET DOMAIN list, A \cap B = {}
  PROVE  Net(list, A \cup B) = Net(list, A) + Net(list, B)
<1> DEFINE f == [i \in DOMAIN list |-> list[i].op]
<1>1. IsFiniteSet(A) /\ IsFiniteSet(B)
  BY NetIs
<1>2. \A i \in A \cup B : f[i] \in Int
  BY ListIs
<1>3. \A X : Net(list, X) = SumFunctionOnSet(f, X)
  BY DEF Net
<1> HIDE DEF f
<1> QED
  BY <1>1, <1>2, <1>3, SumSplit

(* One operation more. *)
LEMMA PartStep ==
  ASSUME NEW list \in Lists, NEW Q, NEW j \in 1 .. Len(list), NEW k, k = j - 1
  PROVE  /\ Part(list, Q, k) \in Int /\ Part(list, Q, j) \in Int
         /\ Part(list, Q, j) = Part(list, Q, k)
                                 + (IF j \in Q THEN list[j].op ELSE 0)
<1> DEFINE A == {i \in 1 .. j : i \in Q}
           B == {i \in 1 .. k : i \in Q}
<1>1. Len(list) \in Nat /\ DOMAIN list = 1 .. Len(list) /\ j \in Nat /\ list[j].op \in Int
  BY ListIs
<1>2. A \in SUBSET DOMAIN list /\ B \in SUBSET DOMAIN list
  BY <1>1
<1>3. IF j \in Q THEN j \in A /\ A \ {j} = B ELSE A = B
  BY <1>1
<1>4. Part(list, Q, j) = Net(list, A) /\ Part(list, Q, k) = Net(list, B)
  BY DEF Part
<1> HIDE DEF A, B
<1>5. /\ Net(list, A) \in Int /\ Net(list, B) \in Int
      /\ \A i \in A : Net(list, A) = list[i].op + Net(list, A \ {i})
  BY <1>2, NetIs
<1> QED
  BY <1>1, <1>3, <1>4, <1>5

LEMMA PartNone ==
  ASSUME NEW list, NEW Q
  PROVE  Part(list, Q, 0) = 0
<1>1. {i \in 1 .. 0 : i \in Q} = {}
  OBVIOUS
<1> QED
  BY <1>1, NetEmpty DEF Part

LEMMA PartType ==
  ASSUME NEW list \in Lists, NEW Q, NEW j \in 0 .. Len(list)
  PROVE  Part(list, Q, j) \in Int
<1>1. CASE j = 0
  BY <1>1, PartNone
<1>2. CASE j # 0
  <2> DEFINE k == j - 1
  <2>1. j \in 1 .. Len(list) /\ k = j - 1
    BY <1>2, ListIs
  <2> HIDE DEF k
  <2> QED
    BY <2>1, PartStep
<1> QED
  BY <1>1, <1>2

(* Where the operations of list find the semaphore s, and the adjustment e. *)
On(id, list, s) == {i \in DOMAIN list : SlotOf(id, list[i].num) = s}
For(id, list, e) == {i \in DOMAIN list : list[i].undo /\ <<id, list[i].num>> = e}

LEMMA ValueIs ==
  ASSUME NEW id, NEW list \in Lists, NEW j \in 0 .. Len(list), NEW s
  PROVE  ValueAfter(id, list, j, s) = semval[s] + Part(list, On(id, list, s), j)
<1>1. 1 .. j \subseteq DOMAIN list
  BY ListIs
<1>2. {i \in 1 .. j : SlotOf(id, list[i].num) = s} = {i \in 1 .. j : i \in On(id, list, s)}
  BY <1>1 DEF On
<1> QED
  BY <1>2 DEF ValueAfter, Part

LEMMA AoeIs ==
  ASSUME NEW p, NEW id, NEW list \in Lists, NEW j \in 0 .. Len(list), NEW e
  PROVE  AoeAfter(p, id, list, j, e) = aoe[p][e] - Part(list, For(id, list, e), j)
<1>1. 1 .. j \subseteq DOMAIN list
  BY ListIs
<1>2. {i \in 1 .. j : list[i].undo /\ <<id, list[i].num>> = e}
        = {i \in 1 .. j : i \in For(id, list, e)}
  BY <1>1 DEF For
<1> QED
  BY <1>2 DEF AoeAfter, Part

(* Either every operation can be done or one of them is the first that     *)
(* cannot.                                                                 *)
LEMMA StopIs ==
  ASSUME NEW p, NEW id, NEW list \in Lists
  PROVE  /\ Stop(p, id, list) \in 1 .. Len(list) + 1
         /\ \A i \in 1 .. Stop(p, id, list) - 1 : Done(p, id, list, i)
         /\ Stop(p, id, list) \in DOMAIN list =>
              ~Done(p, id, list, Stop(p, id, list))
<1> DEFINE n == Len(list)
           D == {i \in 1 .. n : Done(p, id, list, i)}
           T == {m \in Nat : m <= n =>
                   \/ 1 .. m \subseteq D
                   \/ \E j \in 1 .. n : j \notin D /\ 1 .. j - 1 \subseteq D}
<1>1. n \in Nat /\ DOMAIN list = 1 .. n
  BY ListIs
<1>2. D \subseteq 1 .. n /\ \A i \in 1 .. n : i \in D <=> Done(p, id, list, i)
  OBVIOUS
<1> HIDE DEF n, D
<1>3. 0 \in T
  OBVIOUS
<1>4. ASSUME NEW m \in T
      PROVE  m + 1 \in T
  <2> SUFFICES ASSUME m + 1 <= n
               PROVE  \/ 1 .. m + 1 \subseteq D
                      \/ \E j \in 1 .. n : j \notin D /\ 1 .. j - 1 \subseteq D
    OBVIOUS
  <2>1. m \in Nat /\ m <= n
    BY <1>1
  <2>2. CASE 1 .. m \subseteq D
    <3>1. (m + 1) - 1 = m /\ m + 1 \in 1 .. n
      BY <2>1, <1>1
    <3>2. CASE m + 1 \in D
      BY <2>1, <2>2, <3>2
    <3>3. CASE m + 1 \notin D
      BY <2>2, <3>1, <3>3
    <3> QED
      BY <3>2, <3>3
  <2>3. CASE \E j \in 1 .. n : j \notin D /\ 1 .. j - 1 \subseteq D
    BY <2>3
  <2> QED
    BY <2>1, <2>2, <2>3
<1>5. T \in SUBSET Nat
  OBVIOUS
<1>6. n \in T
  <2> HIDE DEF T
  <2> QED
    BY <1>1, <1>3, <1>4, <1>5, NatSetInduction
<1>7. \E j \in 1 .. n + 1 : 1 .. j - 1 \subseteq D /\ (j \in 1 .. n => j \notin D)
  <2>1. CASE 1 .. n \subseteq D
    <3>1. n + 1 \in 1 .. n + 1 /\ (n + 1) - 1 = n /\ n + 1 \notin 1 .. n
      BY <1>1
    <3> QED
      BY <2>1, <3>1
  <2>2. CASE \E j \in 1 .. n : j \notin D /\ 1 .. j - 1 \subseteq D
    <3>1. 1 .. n \subseteq 1 .. n + 1
      BY <1>1
    <3> QED
      BY <2>2, <3>1
  <2> QED
    BY <1>1, <1>6, <2>1, <2>2
<1>8. \E j \in 1 .. n + 1 : /\ \A i \in 1 .. j - 1 : Done(p, id, list, i)
                            /\ j \in DOMAIN list => ~Done(p, id, list, j)
  BY <1>1, <1>2, <1>7
<1> QED
  BY <1>8 DEF Stop, n

-----------------------------------------------------------------------------
(* Identifiers of sets that are there. *)
LEMMA SameId ==
  ASSUME NEW i \in Id, NEW j \in Id, semconv(i), semconv(j), HdrOf(i) = HdrOf(j)
  PROVE  i = j
<1>1. i \in Nat /\ j \in Nat /\ semmni \in Nat \ {0}
  BY ConstAssumption DEF Id
<1>2. i % semmni = j % semmni /\ i \div semmni = j \div semmni
  BY DEF semconv, HdrOf
<1> QED
  BY <1>1, <1>2

LEMMA CurrentId ==
  ASSUME SetTypes, NEW h \in Hdr, sema[h].alloc, NEW id, id = sema[h].seq * semmni + h
  PROVE  id \in Id /\ semconv(id) /\ HdrOf(id) = h
<1>1. PICK q \in 0 .. MaxSeq : q = sema[h].seq
  BY DEF SetTypes
<1>2. PICK m \in Nat \ {0} : m = semmni
  BY ConstAssumption
<1>3. MaxSeq \in Nat /\ q \in Nat /\ h \in 0 .. m - 1 /\ q <= MaxSeq
  BY <1>1, <1>2, ConstAssumption DEF Hdr
<1>4. (q * m + h) % m = h /\ (q * m + h) \div m = q
  BY <1>3
<1>5. q * m <= MaxSeq * m /\ q * m \in Nat /\ MaxSeq * m \in Nat
  BY <1>3
<1>6. m * (MaxSeq + 1) = MaxSeq * m + m
  BY <1>3
<1>7. q * m + h \in 0 .. m * (MaxSeq + 1) - 1
  BY <1>3, <1>5, <1>6
<1> QED
  BY <1>1, <1>2, <1>4, <1>7 DEF Id, HdrOf, semconv

(* The number of a semaphore in a set, and its slot. *)
LEMMA OwnSlot ==
  ASSUME SetTypes, NEW h \in Hdr, sema[h].alloc, NEW n \in Nat, n < sema[h].nsems
  PROVE  sema[h].base + n \in SlotsOf(h)
<1>1. sema[h].base \in Int /\ sema[h].nsems \in Nat
  BY DEF SetTypes
<1> QED
  BY <1>1 DEF SlotsOf

(* A semaphore of a set: its identifier and number. *)
Live(e) == semconv(e[1]) /\ e[2] < sema[HdrOf(e[1])].nsems

LEMMA LiveSlot ==
  ASSUME SetTypes, Apart, NEW e \in Id \X Num, Live(e)
  PROVE  SlotOf(e[1], e[2]) \in SlotsOf(HdrOf(e[1])) /\ SlotOf(e[1], e[2]) \in Slot
<1>1. e[1] \in Id /\ e[2] \in Nat /\ HdrOf(e[1]) \in Hdr
  BY IdParts, ConstAssumption DEF Num
<1>2. SlotOf(e[1], e[2]) \in SlotsOf(HdrOf(e[1]))
  BY <1>1, OwnSlot DEF Live, semconv, SlotOf
<1> QED
  BY <1>1, <1>2 DEF Apart

(* Semaphores that share a slot are the same. *)
LEMMA LiveApart ==
  ASSUME SetTypes, Apart, NEW e \in Id \X Num, Live(e), NEW f \in Id \X Num, Live(f),
         SlotOf(e[1], e[2]) = SlotOf(f[1], f[2])
  PROVE  e = f
<1>1. /\ e[1] \in Id /\ e[2] \in Int /\ HdrOf(e[1]) \in Hdr
      /\ f[1] \in Id /\ f[2] \in Int /\ HdrOf(f[1]) \in Hdr
      /\ e = <<e[1], e[2]>> /\ f = <<f[1], f[2]>>
  BY IdParts, ConstAssumption DEF Num
<1>2. HdrOf(e[1]) = HdrOf(f[1])
  BY <1>1, LiveSlot DEF Apart
<1>3. e[1] = f[1]
  BY <1>1, <1>2, SameId DEF Live
<1>4. PICK b \in Int : b = sema[HdrOf(e[1])].base
  BY <1>1 DEF SetTypes
<1>5. SlotOf(e[1], e[2]) = b + e[2] /\ SlotOf(f[1], f[2]) = b + f[2]
  BY <1>3, <1>4 DEF SlotOf
<1>6. e[2] = f[2]
  <2>1. PICK m \in Int : m = e[2]
    BY <1>1
  <2>2. PICK n \in Int : n = f[2]
    BY <1>1
  <2>3. b + m = b + n
    BY <1>5, <2>1, <2>2
  <2>4. m = n
    BY <2>3
  <2> QED
    BY <2>1, <2>2, <2>4
<1> QED
  BY <1>1, <1>3, <1>6

-----------------------------------------------------------------------------
(* The data: values, adjustments and what they come to. *)
DataTypes ==
  /\ semval \in [Slot -> Int] /\ settled \in [Slot -> Int]
  /\ undo \in SUBSET Proc /\ aoe \in [Proc -> [Id \X Num -> Int]]

CallTypes ==
  /\ sig \in [Proc -> BOOLEAN]
  /\ \A q \in Proc : wchan[q] \in Chan /\ call[q].semp \in Chan

(* Adjustments are for semaphores that are there. *)
Kept == \A q \in Proc, e \in Id \X Num : aoe[q][e] # 0 => Live(e)

(* A semaphore of no set is as a new one. *)
FreeIsNew ==
  \A s \in FreeSlots :
    semval[s] = 0 /\ settled[s] = 0 /\ semncnt[s] = 0 /\ semzcnt[s] = 0

DataInv == DataTypes /\ CallTypes /\ Kept /\ FreeIsNew

(* semctl SETVAL *)
Sets(id, num, v) ==
  LET s == SlotOf(id, num)
  IN  /\ id \in Id /\ num \in Num /\ v \in 0 .. semvmx
      /\ semconv(id) /\ num < sema[HdrOf(id)].nsems
      /\ semval' = [semval EXCEPT ![s] = v]
      /\ settled' = [settled EXCEPT ![s] = v]
      /\ Wake(IF v # 0 THEN {s} ELSE {}, IF v = 0 THEN {s} ELSE {})
      /\ semunrm(id, num, num)
      /\ UNCHANGED <<sema, undo, pc, call, sig>>

LEMMA SetValIs ==
  ASSUME NEW p, SetVal(p)
  PROVE  \E id, num, v : Sets(id, num, v)
<1>1. PICK id \in Id, num \in Num, v \in 0 .. semvmx :
        LET s == SlotOf(id, num)
        IN  /\ semconv(id) /\ num < sema[HdrOf(id)].nsems
            /\ semval' = [semval EXCEPT ![s] = v]
            /\ settled' = [settled EXCEPT ![s] = v]
            /\ Wake(IF v # 0 THEN {s} ELSE {}, IF v = 0 THEN {s} ELSE {})
            /\ semunrm(id, num, num)
  BY DEF SetVal
<1>2. UNCHANGED <<sema, undo, pc, call, sig>>
  BY DEF SetVal
<1>3. Sets(id, num, v)
  BY <1>1, <1>2 DEF Sets
<1> QED
  BY <1>3

(* semctl SETALL *)
SetsAll(id, new) ==
  LET own == SlotsOf(HdrOf(id))
  IN  /\ id \in Id /\ semconv(id) /\ new \in [own -> 0 .. semvmx]
      /\ semval' = [s \in Slot |-> IF s \in own THEN new[s] ELSE semval[s]]
      /\ settled' = [s \in Slot |-> IF s \in own THEN new[s] ELSE settled[s]]
      /\ Wake({s \in own : new[s] # 0}, {s \in own : new[s] = 0})
      /\ semunrm(id, 0, sema[HdrOf(id)].nsems)
      /\ UNCHANGED <<sema, undo, pc, call, sig>>

LEMMA SetAllIs ==
  ASSUME NEW p, SetAll(p)
  PROVE  \E id, new : SetsAll(id, new)
<1>1. PICK id \in Id :
        LET own == SlotsOf(HdrOf(id))
        IN  /\ semconv(id)
            /\ semunrm(id, 0, sema[HdrOf(id)].nsems)
            /\ \E new \in [own -> 0 .. semvmx] :
                 /\ semval' = [s \in Slot |-> IF s \in own THEN new[s] ELSE semval[s]]
                 /\ settled' = [s \in Slot |-> IF s \in own THEN new[s] ELSE settled[s]]
                 /\ Wake({s \in own : new[s] # 0}, {s \in own : new[s] = 0})
  BY DEF SetAll
<1>2. UNCHANGED <<sema, undo, pc, call, sig>>
  BY DEF SetAll
<1>3. PICK new :
        LET own == SlotsOf(HdrOf(id))
        IN  /\ new \in [own -> 0 .. semvmx]
            /\ semval' = [s \in Slot |-> IF s \in own THEN new[s] ELSE semval[s]]
            /\ settled' = [s \in Slot |-> IF s \in own THEN new[s] ELSE settled[s]]
            /\ Wake({s \in own : new[s] # 0}, {s \in own : new[s] = 0})
  BY <1>1, Zenon
<1>4. SetsAll(id, new)
  BY <1>1, <1>2, <1>3 DEF SetsAll
<1> QED
  BY <1>4

-----------------------------------------------------------------------------
(* What the steps do to the data. *)
Names(e, id, low, high) == e[1] = id /\ e[2] \in low .. high

LEMMA UnrmIs ==
  ASSUME NEW id, NEW low, NEW high, semunrm(id, low, high)
  PROVE  \A q \in Proc : \A e \in Id \X Num :
           aoe'[q][e] = IF Names(e, id, low, high) THEN 0 ELSE aoe[q][e]
BY DEF semunrm, Names

LEMMA UnrmType ==
  ASSUME DataTypes, NEW id, NEW low, NEW high, semunrm(id, low, high)
  PROVE  aoe' \in [Proc -> [Id \X Num -> Int]]
<1> DEFINE new(q) == [e \in Id \X Num |->
                        IF e[1] = id /\ e[2] \in low .. high THEN 0 ELSE aoe[q][e]]
<1>1. \A q \in Proc : new(q) \in [Id \X Num -> Int]
  <2>1. \A q \in Proc : \A e \in Id \X Num :
          (IF e[1] = id /\ e[2] \in low .. high THEN 0 ELSE aoe[q][e]) \in Int
    BY DEF DataTypes
  <2> QED
    BY <2>1
<1>2. aoe' = [q \in Proc |-> new(q)]
  BY DEF semunrm
<1> HIDE DEF new
<1> QED
  BY <1>1, <1>2

(* Counters are reset, and processes leave their channels. *)
LEMMA WakesFree ==
  ASSUME Wakes, FreeIsNew
  PROVE  \A s \in FreeSlots : semncnt'[s] = 0 /\ semzcnt'[s] = 0
<1> SUFFICES ASSUME NEW s \in FreeSlots
             PROVE  semncnt'[s] = 0 /\ semzcnt'[s] = 0
  OBVIOUS
<1>1. s \in Slot
  BY DEF FreeSlots
<1>2. <<"n", s>> \in Counter /\ <<"z", s>> \in Counter
  BY <1>1 DEF Counter
<1>3. \A ch \in Counter : CountAt(ch)' \in {0, CountAt(ch)}
  BY DEF Wakes, Untouched, Cleared
<1>4. semncnt'[s] \in {0, semncnt[s]} /\ semzcnt'[s] \in {0, semzcnt[s]}
  BY <1>2, <1>3 DEF CountAt
<1> QED
  BY <1>4 DEF FreeIsNew

LEMMA WakesCalls ==
  ASSUME Wakes, CallTypes, UNCHANGED <<call, sig>>
  PROVE  CallTypes'
BY DEF Wakes, CallTypes, Chan

LEMMA FinishCalls ==
  ASSUME Wakes, CallTypes, ProcTypes, NEW p \in Proc, Finish(p), UNCHANGED sig
  PROVE  CallTypes'
<1>1. NoCall.semp \in Chan
  BY DEF NoCall, Chan
<1>2. \A q \in Proc : call'[q].semp \in Chan
  BY <1>1, FinishIs DEF CallTypes
<1> QED
  BY <1>2 DEF Wakes, CallTypes, Chan

(* A whole list is done. *)
Plain(id, list, s) == {i \in On(id, list, s) : ~list[i].undo}

LEMMA SucceedIs ==
  ASSUME DataTypes, NEW p \in Proc, NEW id, NEW list \in Lists, Succeed(p, id, list)
  PROVE  LET n == Len(list)
         IN  /\ \A j \in DOMAIN list : Done(p, id, list, j)
             /\ semval' \in [Slot -> Int] /\ settled' \in [Slot -> Int]
             /\ aoe' \in [Proc -> [Id \X Num -> Int]]
             /\ \A s \in Slot :
                  /\ semval'[s] = semval[s] + Part(list, On(id, list, s), n)
                  /\ settled'[s] = settled[s] + Part(list, Plain(id, list, s), n)
             /\ \A q \in Proc : \A e \in Id \X Num :
                  aoe'[q][e] = IF q = p THEN aoe[q][e] - Part(list, For(id, list, e), n)
                                        ELSE aoe[q][e]
<1> DEFINE n == Len(list)
<1>1. n \in Nat /\ DOMAIN list = 1 .. n /\ n \in 0 .. Len(list)
  BY ListIs
<1>2. \A j \in DOMAIN list : Done(p, id, list, j)
  <2>1. Stop(p, id, list) = n + 1
    BY DEF Succeed
  <2>2. \A j \in 1 .. Stop(p, id, list) - 1 : Done(p, id, list, j)
    BY StopIs
  <2>3. Stop(p, id, list) - 1 = n
    BY <1>1, <2>1
  <2> QED
    BY <1>1, <2>2, <2>3
<1>3. /\ semval' = [s \in Slot |-> ValueAfter(id, list, n, s)]
      /\ aoe' = [aoe EXCEPT ![p] = [e \in Id \X Num |-> AoeAfter(p, id, list, n, e)]]
  BY DEF Succeed
<1>4. settled' = [s \in Slot |-> settled[s]
                    + Net(list, {i \in {i \in 1 .. n : ~list[i].undo} :
                                    SlotOf(id, list[i].num) = s})]
  BY DEF Succeed
<1>5. \A s : {i \in {i \in 1 .. n : ~list[i].undo} : SlotOf(id, list[i].num) = s}
               = {i \in 1 .. n : i \in Plain(id, list, s)}
  BY <1>1 DEF Plain, On
<1> HIDE DEF n
<1>6. \A Q : Part(list, Q, n) \in Int
  BY <1>1, PartType
<1>7. \A s \in Slot : ValueAfter(id, list, n, s) = semval[s] + Part(list, On(id, list, s), n)
  BY <1>1, ValueIs
<1>8. \A e : AoeAfter(p, id, list, n, e) = aoe[p][e] - Part(list, For(id, list, e), n)
  BY <1>1, AoeIs
<1>9. \A s \in Slot :
        /\ semval[s] \in Int /\ settled[s] \in Int
        /\ semval'[s] = semval[s] + Part(list, On(id, list, s), n)
        /\ settled'[s] = settled[s] + Part(list, Plain(id, list, s), n)
  <2>1. \A s \in Slot : settled'[s] = settled[s] + Part(list, Plain(id, list, s), n)
    BY <1>4, <1>5 DEF Part
  <2> QED
    BY <1>3, <1>7, <2>1 DEF DataTypes
<1>10. semval' \in [Slot -> Int] /\ settled' \in [Slot -> Int]
  <2>1. \A s \in Slot : semval'[s] \in Int /\ settled'[s] \in Int
    BY <1>6, <1>9
  <2>2. semval' = [s \in Slot |-> semval'[s]]
    BY <1>3
  <2>3. settled' = [s \in Slot |-> settled'[s]]
    BY DEF Succeed
  <2> QED
    BY <2>1, <2>2, <2>3
<1>11. \A q \in Proc : \A e \in Id \X Num :
         aoe'[q][e] = IF q = p THEN aoe[q][e] - Part(list, For(id, list, e), n)
                               ELSE aoe[q][e]
  BY <1>3, <1>8 DEF DataTypes
<1>12. aoe' \in [Proc -> [Id \X Num -> Int]]
  <2>1. \A e \in Id \X Num : AoeAfter(p, id, list, n, e) \in Int
    BY <1>6, <1>8 DEF DataTypes
  <2> DEFINE new == [e \in Id \X Num |-> AoeAfter(p, id, list, n, e)]
  <2>2. new \in [Id \X Num -> Int]
    BY <2>1
  <2>3. aoe' = [aoe EXCEPT ![p] = new]
    BY <1>3
  <2> HIDE DEF new
  <2> QED
    BY <2>2, <2>3 DEF DataTypes
<1> QED
  BY <1>2, <1>9, <1>10, <1>11, <1>12 DEF n

-----------------------------------------------------------------------------
(* semexit: the adjustments of p, those that leave the value in range, and *)
(* the one of a slot.                                                      *)
SlotAt(e) == SlotOf(e[1], e[2])
Dues(p) == {e \in Id \X Num : aoe[p][e] # 0 /\ semconv(e[1])}
Made(p) == {e \in Dues(p) : semval[SlotAt(e)] + aoe[p][e] \in 0 .. semvmx}
The(es, s) == CHOOSE e \in es : SlotAt(e) = s
Paid(es) == {SlotAt(e) : e \in es}

LEMMA ExitDoes ==
  ASSUME NEW p, semexit(p)
  PROVE  /\ semval' = [s \in Slot |->
                         IF s \in Paid(Made(p))
                         THEN semval[SlotAt(The(Made(p), s))] + aoe[p][The(Made(p), s)]
                         ELSE semval[s]]
         /\ settled' = [s \in Slot |->
                          IF s \in Paid(Dues(p) \ Made(p))
                          THEN settled[s] - aoe[p][The(Dues(p) \ Made(p), s)]
                          ELSE settled[s]]
         /\ Wake(Paid({e \in Made(p) : aoe[p][e] > 0}),
                 Paid({e \in Made(p) : semval[SlotAt(e)] + aoe[p][e] = 0}))
         /\ aoe' = [aoe EXCEPT ![p] = [e \in Id \X Num |-> 0]]
         /\ undo' = undo \ {p} /\ p \in undo
         /\ UNCHANGED <<sema, pc, call, sig>>
BY DEF semexit, SlotAt, Dues, Made, The, Paid

(* The adjustments of p are of semaphores with a slot each. *)
LEMMA DuesAre ==
  ASSUME DataTypes, SetTypes, Apart, Kept, NEW p \in Proc
  PROVE  /\ Dues(p) = {e \in Id \X Num : aoe[p][e] # 0}
         /\ \A e \in Dues(p) : Live(e) /\ SlotAt(e) \in Slot /\ aoe[p][e] \in Int
         /\ \A e, f \in Dues(p) : SlotAt(e) = SlotAt(f) => e = f
         /\ \A es \in SUBSET Dues(p) : \A e \in es : The(es, SlotAt(e)) = e
<1>1. \A e \in Id \X Num : aoe[p][e] # 0 => Live(e)
  BY DEF Kept
<1>2. Dues(p) = {e \in Id \X Num : aoe[p][e] # 0}
  BY <1>1 DEF Dues, Live
<1>3. \A e \in Dues(p) : Live(e) /\ SlotAt(e) \in Slot /\ aoe[p][e] \in Int
  BY <1>1, LiveSlot DEF Dues, SlotAt, DataTypes
<1>4. \A e, f \in Dues(p) : SlotAt(e) = SlotAt(f) => e = f
  BY <1>3, LiveApart DEF Dues, SlotAt
<1>5. ASSUME NEW es \in SUBSET Dues(p), NEW e \in es
      PROVE  The(es, SlotAt(e)) = e
  <2>1. The(es, SlotAt(e)) \in es /\ SlotAt(The(es, SlotAt(e))) = SlotAt(e)
    BY DEF The
  <2> QED
    BY <2>1, <1>4
<1> QED
  BY <1>2, <1>3, <1>4, <1>5

LEMMA ExitIs ==
  ASSUME DataTypes, SetTypes, Apart, Kept, NEW p \in Proc, semexit(p)
  PROVE  /\ semval' \in [Slot -> Int] /\ settled' \in [Slot -> Int]
         /\ aoe' \in [Proc -> [Id \X Num -> Int]]
         /\ \A q \in Proc : \A e \in Id \X Num :
              aoe'[q][e] = IF q = p THEN 0 ELSE aoe[q][e]
         /\ \A e \in Made(p) : /\ semval'[SlotAt(e)] = semval[SlotAt(e)] + aoe[p][e]
                               /\ settled'[SlotAt(e)] = settled[SlotAt(e)]
         /\ \A e \in Dues(p) \ Made(p) :
              /\ semval'[SlotAt(e)] = semval[SlotAt(e)]
              /\ settled'[SlotAt(e)] = settled[SlotAt(e)] - aoe[p][e]
         /\ \A s \in Slot \ Paid(Dues(p)) :
              semval'[s] = semval[s] /\ settled'[s] = settled[s]
<1> DEFINE M == Made(p)
           L == Dues(p) \ Made(p)
<1>1. /\ semval' = [s \in Slot |-> IF s \in Paid(M)
                                   THEN semval[SlotAt(The(M, s))] + aoe[p][The(M, s)]
                                   ELSE semval[s]]
      /\ settled' = [s \in Slot |-> IF s \in Paid(L)
                                    THEN settled[s] - aoe[p][The(L, s)]
                                    ELSE settled[s]]
      /\ aoe' = [aoe EXCEPT ![p] = [e \in Id \X Num |-> 0]]
  BY ExitDoes
<1>2. M \subseteq Dues(p) /\ L \subseteq Dues(p) /\ M \cap L = {} /\ M \cup L = Dues(p)
  BY DEF Made
<1>3. /\ \A e \in Dues(p) : SlotAt(e) \in Slot /\ aoe[p][e] \in Int
      /\ \A e, f \in Dues(p) : SlotAt(e) = SlotAt(f) => e = f
  BY DuesAre
<1> HIDE DEF M, L
<1>4. (\A e \in M : The(M, SlotAt(e)) = e) /\ (\A e \in L : The(L, SlotAt(e)) = e)
  BY <1>2, DuesAre
<1>5. \A e \in Dues(p) : /\ SlotAt(e) \in Paid(M) <=> e \in M
                         /\ SlotAt(e) \in Paid(L) <=> e \in L
  BY <1>2, <1>3 DEF Paid
<1>6. \A e \in M : /\ semval'[SlotAt(e)] = semval[SlotAt(e)] + aoe[p][e]
                   /\ settled'[SlotAt(e)] = settled[SlotAt(e)]
  <2> SUFFICES ASSUME NEW e \in M
               PROVE  /\ semval'[SlotAt(e)] = semval[SlotAt(e)] + aoe[p][e]
                      /\ settled'[SlotAt(e)] = settled[SlotAt(e)]
    OBVIOUS
  <2>1. /\ SlotAt(e) \in Slot /\ SlotAt(e) \in Paid(M) /\ SlotAt(e) \notin Paid(L)
        /\ The(M, SlotAt(e)) = e
    BY <1>2, <1>3, <1>4, <1>5
  <2> QED
    BY <2>1, <1>1
<1>7. \A e \in L : /\ semval'[SlotAt(e)] = semval[SlotAt(e)]
                   /\ settled'[SlotAt(e)] = settled[SlotAt(e)] - aoe[p][e]
  <2> SUFFICES ASSUME NEW e \in L
               PROVE  /\ semval'[SlotAt(e)] = semval[SlotAt(e)]
                      /\ settled'[SlotAt(e)] = settled[SlotAt(e)] - aoe[p][e]
    OBVIOUS
  <2>1. /\ SlotAt(e) \in Slot /\ SlotAt(e) \notin Paid(M) /\ SlotAt(e) \in Paid(L)
        /\ The(L, SlotAt(e)) = e
    BY <1>2, <1>3, <1>4, <1>5
  <2> QED
    BY <2>1, <1>1
<1>8. \A s \in Slot \ Paid(Dues(p)) : semval'[s] = semval[s] /\ settled'[s] = settled[s]
  <2>1. Paid(M) \subseteq Paid(Dues(p)) /\ Paid(L) \subseteq Paid(Dues(p))
    BY <1>2 DEF Paid
  <2> QED
    BY <2>1, <1>1
<1>9. semval' \in [Slot -> Int] /\ settled' \in [Slot -> Int]
  <2>1. ASSUME NEW s \in Slot
        PROVE  semval'[s] \in Int /\ settled'[s] \in Int
    <3>0. semval[s] \in Int /\ settled[s] \in Int
      BY DEF DataTypes
    <3>1. CASE s \notin Paid(Dues(p))
      BY <3>0, <3>1, <1>8
    <3>2. CASE s \in Paid(Dues(p))
      <4>1. PICK e \in Dues(p) : s = SlotAt(e)
        BY <3>2 DEF Paid
      <4>2. e \in M \/ e \in L
        BY <1>2
      <4> QED
        BY <3>0, <4>1, <4>2, <1>3, <1>6, <1>7
    <3> QED
      BY <3>1, <3>2
  <2>2. semval' = [s \in Slot |-> semval'[s]] /\ settled' = [s \in Slot |-> settled'[s]]
    BY <1>1
  <2> QED
    BY <2>1, <2>2
<1>10. /\ aoe' \in [Proc -> [Id \X Num -> Int]]
       /\ \A q \in Proc : \A e \in Id \X Num :
            aoe'[q][e] = IF q = p THEN 0 ELSE aoe[q][e]
  <2> DEFINE zero == [e \in Id \X Num |-> 0]
  <2>1. aoe' = [aoe EXCEPT ![p] = zero] /\ zero \in [Id \X Num -> Int]
    BY <1>1
  <2>2. \A e \in Id \X Num : zero[e] = 0
    OBVIOUS
  <2> HIDE DEF zero
  <2> QED
    BY <2>1, <2>2 DEF DataTypes
<1> QED
  BY <1>6, <1>7, <1>8, <1>9, <1>10 DEF M, L

-----------------------------------------------------------------------------
(* DataInv over each step. *)
LEMMA SameSets ==
  ASSUME UNCHANGED sema
  PROVE  /\ FreeSlots' = FreeSlots
         /\ \A e : Live(e)' <=> Live(e)
         /\ \A h : SlotsOf(h)' = SlotsOf(h)
BY DEF FreeSlots, Live, semconv, SlotsOf

LEMMA SemgetData ==
  ASSUME SetInv, DataInv, NEW p, semget(p)
  PROVE  DataInv'
<1>0. SetTypes /\ DataTypes /\ CallTypes /\ Kept /\ FreeIsNew
  BY DEF SetInv, DataInv
<1>1. PICK h, n, i : Makes(h, n, i)
  BY SemgetIs
<1>2. /\ UNCHANGED <<semval, semncnt, semzcnt, undo, aoe, settled>>
      /\ UNCHANGED <<pc, call, wchan, sig>>
  BY SemgetIs
<1>3. /\ h \in Hdr /\ ~sema[h].alloc
      /\ \A g \in Hdr \ {h} : sema'[g] = sema[g] /\ SlotsOf(g)' = SlotsOf(g)
  BY <1>0, <1>1, MakesIs DEF Makes
<1>4. DataTypes' /\ CallTypes'
  BY <1>0, <1>2 DEF DataTypes, CallTypes
<1>5. Kept'
  <2> SUFFICES ASSUME NEW q \in Proc, NEW e \in Id \X Num, aoe'[q][e] # 0
               PROVE  Live(e)'
    BY DEF Kept
  <2>1. Live(e)
    BY <1>0, <1>2 DEF Kept
  <2>2. HdrOf(e[1]) \in Hdr \ {h}
    BY <2>1, <1>3, IdParts DEF Live, semconv
  <2> QED
    BY <2>1, <2>2, <1>3 DEF Live, semconv
<1>6. FreeSlots' \subseteq FreeSlots
  <2>1. \A g \in Hdr : SlotsOf(g) \subseteq SlotsOf(g)'
    BY <1>3 DEF SlotsOf
  <2> QED
    BY <2>1 DEF FreeSlots
<1>7. FreeIsNew'
  BY <1>0, <1>2, <1>6 DEF FreeIsNew
<1> QED
  BY <1>4, <1>5, <1>7 DEF DataInv

LEMMA RemoveSetData ==
  ASSUME CountInv, SetInv, DataInv, NEW id, Removes(id)
  PROVE  DataInv'
<1>0. /\ SetTypes /\ DataTypes /\ CallTypes /\ Kept /\ FreeIsNew
      /\ CountTypes /\ ProcTypes
  BY DEF SetInv, DataInv, CountInv
<1>1. PICK h : h = HdrOf(id)
  OBVIOUS
<1>2. /\ h \in Hdr /\ id \in Id /\ semconv(id)
      /\ \A g \in Hdr \ {h} : sema'[g] = sema[g] /\ SlotsOf(g)' = SlotsOf(g)
  BY <1>0, <1>1, RemovesIs DEF Removes
<1>3. /\ semunrm(id, 0, sema[h].nsems)
      /\ semval' = ZeroAt(semval, SlotsOf(h))
      /\ settled' = ZeroAt(settled, SlotsOf(h))
      /\ Wake(SlotsOf(h), SlotsOf(h))
      /\ UNCHANGED <<undo, pc, call, sig>>
  BY <1>1 DEF Removes
<1>4. Wakes
  BY <1>0, <1>3, WakeWakes
<1>5. CallTypes'
  BY <1>0, <1>3, <1>4, WakesCalls
<1>6. \A q \in Proc : \A e \in Id \X Num :
        aoe'[q][e] = IF Names(e, id, 0, sema[h].nsems) THEN 0 ELSE aoe[q][e]
  BY <1>3, UnrmIs
<1>7. aoe' \in [Proc -> [Id \X Num -> Int]]
  BY <1>0, <1>3, UnrmType
<1>8. DataTypes'
  <2>1. semval' \in [Slot -> Int] /\ settled' \in [Slot -> Int]
    BY <1>0, <1>3 DEF DataTypes, ZeroAt
  <2> QED
    BY <2>1, <1>0, <1>3, <1>7 DEF DataTypes
<1>9. Kept'
  <2> SUFFICES ASSUME NEW q \in Proc, NEW e \in Id \X Num, aoe'[q][e] # 0
               PROVE  Live(e)'
    BY DEF Kept
  <2>1. aoe[q][e] # 0 /\ ~(e[1] = id /\ e[2] \in 0 .. sema[h].nsems)
    BY <1>6 DEF Names
  <2>2. Live(e) /\ e[1] \in Id /\ e[2] \in Nat
    BY <2>1, <1>0, ConstAssumption DEF Kept, Num
  <2>3. e[1] # id
    <3>1. sema[h].nsems \in Nat
      BY <1>0, <1>2 DEF SetTypes
    <3> QED
      BY <2>1, <2>2, <3>1, <1>1 DEF Live
  <2>4. HdrOf(e[1]) \in Hdr \ {h}
    BY <2>2, <2>3, <1>1, <1>2, SameId, IdParts DEF Live
  <2> QED
    BY <2>2, <2>4, <1>2 DEF Live, semconv
<1>10. FreeIsNew'
  <2> SUFFICES ASSUME NEW s \in FreeSlots'
               PROVE  semval'[s] = 0 /\ settled'[s] = 0 /\ semncnt'[s] = 0 /\ semzcnt'[s] = 0
    BY DEF FreeIsNew
  <2>1. s \in Slot
    BY DEF FreeSlots
  <2>2. CASE s \in SlotsOf(h)
    BY <2>1, <2>2, <1>3 DEF ZeroAt, Wake
  <2>3. CASE s \notin SlotsOf(h)
    <3>1. \A g \in Hdr : s \notin SlotsOf(g)
      BY <2>3, <1>2 DEF FreeSlots
    <3>2. s \in FreeSlots
      BY <2>1, <3>1 DEF FreeSlots
    <3>3. semncnt'[s] = 0 /\ semzcnt'[s] = 0
      BY <1>0, <1>4, <3>2, WakesFree
    <3>4. semval'[s] = 0 /\ settled'[s] = 0
      BY <2>1, <2>3, <3>2, <1>0, <1>3 DEF ZeroAt, FreeIsNew
    <3> QED
      BY <3>3, <3>4
  <2> QED
    BY <2>2, <2>3
<1> QED
  BY <1>5, <1>8, <1>9, <1>10 DEF DataInv

(* Only adjustments of the set change, and only to zero. *)
LEMMA SetData ==
  ASSUME CountInv, SetInv, DataInv, NEW id, NEW low, NEW high,
         semunrm(id, low, high), \E ns, zs : Wake(ns, zs),
         UNCHANGED <<sema, undo, pc, call, sig>>,
         semval' \in [Slot -> Int], settled' \in [Slot -> Int],
         \A s \in FreeSlots : semval'[s] = semval[s] /\ settled'[s] = settled[s]
  PROVE  DataInv'
<1>0. /\ SetTypes /\ DataTypes /\ CallTypes /\ Kept /\ FreeIsNew
      /\ CountTypes /\ ProcTypes
  BY DEF SetInv, DataInv, CountInv
<1>1. Wakes
  BY <1>0, WakeWakes
<1>2. CallTypes'
  BY <1>0, <1>1, WakesCalls
<1>3. \A q \in Proc : \A e \in Id \X Num : aoe'[q][e] \in {0, aoe[q][e]}
  BY UnrmIs
<1>4. aoe' \in [Proc -> [Id \X Num -> Int]]
  BY <1>0, UnrmType
<1>5. DataTypes'
  BY <1>0, <1>4 DEF DataTypes
<1>6. Kept'
  BY <1>0, <1>3, SameSets DEF Kept
<1>7. FreeIsNew'
  BY <1>0, <1>1, WakesFree, SameSets DEF FreeIsNew
<1> QED
  BY <1>2, <1>5, <1>6, <1>7 DEF DataInv

LEMMA SetValData ==
  ASSUME CountInv, SetInv, DataInv, NEW id, NEW num, NEW v, Sets(id, num, v)
  PROVE  DataInv'
<1>0. SetTypes /\ DataTypes /\ Apart
  BY DEF SetInv, DataInv
<1>1. PICK s : s = SlotOf(id, num)
  OBVIOUS
<1>2. s \in SlotsOf(HdrOf(id)) /\ HdrOf(id) \in Hdr
  <2>1. HdrOf(id) \in Hdr /\ num \in Nat /\ sema[HdrOf(id)].alloc
          /\ num < sema[HdrOf(id)].nsems
    BY IdParts, ConstAssumption DEF Sets, Num, semconv
  <2> QED
    BY <2>1, <1>0, <1>1, OwnSlot DEF SlotOf
<1>3. s \in Slot /\ s \notin FreeSlots
  BY <1>0, <1>2, FreeIs DEF Apart
<1>4. v \in Int /\ semval' = [semval EXCEPT ![s] = v] /\ settled' = [settled EXCEPT ![s] = v]
  BY <1>1, ConstAssumption DEF Sets
<1>5. /\ semval' \in [Slot -> Int] /\ settled' \in [Slot -> Int]
      /\ \A t \in FreeSlots : semval'[t] = semval[t] /\ settled'[t] = settled[t]
  BY <1>0, <1>3, <1>4 DEF DataTypes, FreeSlots
<1>6. /\ semunrm(id, num, num) /\ UNCHANGED <<sema, undo, pc, call, sig>>
      /\ \E ns, zs : Wake(ns, zs)
  BY DEF Sets
<1> QED
  BY <1>5, <1>6, SetData

LEMMA SetAllData ==
  ASSUME CountInv, SetInv, DataInv, NEW id, NEW new, SetsAll(id, new)
  PROVE  DataInv'
<1>0. SetTypes /\ DataTypes /\ Apart
  BY DEF SetInv, DataInv
<1>1. PICK own : own = SlotsOf(HdrOf(id))
  OBVIOUS
<1>2. HdrOf(id) \in Hdr
  BY IdParts DEF SetsAll
<1>3. own \subseteq Slot /\ own \cap FreeSlots = {}
  BY <1>0, <1>1, <1>2, FreeIs DEF Apart
<1>4. /\ new \in [own -> 0 .. semvmx]
      /\ semval' = [s \in Slot |-> IF s \in own THEN new[s] ELSE semval[s]]
      /\ settled' = [s \in Slot |-> IF s \in own THEN new[s] ELSE settled[s]]
  BY <1>1 DEF SetsAll
<1>5. /\ semval' \in [Slot -> Int] /\ settled' \in [Slot -> Int]
      /\ \A t \in FreeSlots : semval'[t] = semval[t] /\ settled'[t] = settled[t]
  BY <1>0, <1>3, <1>4, ConstAssumption DEF DataTypes, FreeSlots
<1>6. /\ semunrm(id, 0, sema[HdrOf(id)].nsems)
      /\ UNCHANGED <<sema, undo, pc, call, sig>>
      /\ \E ns, zs : Wake(ns, zs)
  BY DEF SetsAll
<1> QED
  BY <1>5, <1>6, SetData

(* Adjustments and values only of semaphores that the list names. *)
LEMMA PartElsewhere ==
  ASSUME NEW list, NEW Q, Q = {}, NEW j
  PROVE  Part(list, Q, j) = 0
<1>1. {i \in 1 .. j : i \in Q} = {}
  OBVIOUS
<1> QED
  BY <1>1, NetEmpty DEF Part

LEMMA ElsewhereNone ==
  ASSUME SetTypes, Apart, NEW id \in Id, NEW list \in Lists, Holds(id, list)
  PROVE  /\ \A s \in FreeSlots : On(id, list, s) = {} /\ Plain(id, list, s) = {}
         /\ \A e \in Id \X Num : ~Live(e) => For(id, list, e) = {}
<1>1. HdrOf(id) \in Hdr
  BY IdParts
<1>2. ASSUME NEW s \in FreeSlots
      PROVE  On(id, list, s) = {} /\ Plain(id, list, s) = {}
  <2>1. \A i \in DOMAIN list : SlotOf(id, list[i].num) \in SlotsOf(HdrOf(id))
    BY NamedSlot
  <2>2. s \notin SlotsOf(HdrOf(id))
    BY <1>1, FreeIs
  <2> QED
    BY <2>1, <2>2 DEF On, Plain
<1>3. ASSUME NEW e \in Id \X Num, ~Live(e)
      PROVE  For(id, list, e) = {}
  <2> SUFFICES ASSUME NEW i \in DOMAIN list, <<id, list[i].num>> = e
               PROVE  FALSE
    BY DEF For
  <2>1. e[1] = id /\ e[2] = list[i].num
    OBVIOUS
  <2>2. semconv(id) /\ list[i].num < sema[HdrOf(id)].nsems
    BY DEF Holds, InRange
  <2> QED
    BY <1>3, <2>1, <2>2 DEF Live
<1> QED
  BY <1>2, <1>3

LEMMA SucceedData ==
  ASSUME CountInv, SetInv, DataInv, NEW p \in Proc, NEW id \in Id, NEW list \in Lists,
         Holds(id, list), Succeed(p, id, list), UNCHANGED <<sema, sig>>,
         undo' \in SUBSET Proc
  PROVE  DataInv'
<1>0. /\ SetTypes /\ Apart /\ DataTypes /\ CallTypes /\ Kept /\ FreeIsNew
      /\ CountTypes /\ ProcTypes
  BY DEF SetInv, DataInv, CountInv
<1>1. Finish(p) /\ \E ns, zs : Wake(ns, zs)
  BY DEF Succeed
<1>2. Wakes
  BY <1>0, <1>1, WakeWakes
<1>3. CallTypes'
  BY <1>0, <1>1, <1>2, FinishCalls
<1> DEFINE n == Len(list)
<1>4. /\ semval' \in [Slot -> Int] /\ settled' \in [Slot -> Int]
      /\ aoe' \in [Proc -> [Id \X Num -> Int]]
  BY <1>0, SucceedIs
<1>5. \A s \in Slot :
        /\ semval'[s] = semval[s] + Part(list, On(id, list, s), n)
        /\ settled'[s] = settled[s] + Part(list, Plain(id, list, s), n)
  BY <1>0, SucceedIs
<1>6. \A q \in Proc : \A e \in Id \X Num :
        aoe'[q][e] = IF q = p THEN aoe[q][e] - Part(list, For(id, list, e), n)
                              ELSE aoe[q][e]
  BY <1>0, SucceedIs
<1> HIDE DEF n
<1>7. /\ \A s \in FreeSlots : On(id, list, s) = {} /\ Plain(id, list, s) = {}
      /\ \A e \in Id \X Num : ~Live(e) => For(id, list, e) = {}
  BY <1>0, ElsewhereNone
<1>8. DataTypes'
  BY <1>4 DEF DataTypes
<1>9. Kept'
  <2> SUFFICES ASSUME NEW q \in Proc, NEW e \in Id \X Num, ~Live(e)
               PROVE  aoe'[q][e] = 0
    BY SameSets DEF Kept
  <2>1. aoe[q][e] = 0
    BY <1>0 DEF Kept
  <2>2. Part(list, For(id, list, e), n) = 0
    BY <1>7, PartElsewhere
  <2> QED
    BY <2>1, <2>2, <1>6
<1>10. FreeIsNew'
  <2> SUFFICES ASSUME NEW s \in FreeSlots
               PROVE  semval'[s] = 0 /\ settled'[s] = 0 /\ semncnt'[s] = 0 /\ semzcnt'[s] = 0
    BY SameSets DEF FreeIsNew
  <2>1. s \in Slot /\ semval[s] = 0 /\ settled[s] = 0
    BY <1>0 DEF FreeIsNew, FreeSlots
  <2>2. /\ Part(list, On(id, list, s), n) = 0
        /\ Part(list, Plain(id, list, s), n) = 0
    BY <1>7, PartElsewhere
  <2>3. semncnt'[s] = 0 /\ semzcnt'[s] = 0
    BY <1>0, <1>2, WakesFree
  <2> QED
    BY <2>1, <2>2, <2>3, <1>5
<1> QED
  BY <1>3, <1>8, <1>9, <1>10 DEF DataInv

(* Values and adjustments stay. *)
LEMMA SameData ==
  ASSUME DataTypes, Kept, UNCHANGED <<sema, semval, settled, aoe>>,
         undo' \in SUBSET Proc
  PROVE  DataTypes' /\ Kept'
BY SameSets DEF DataTypes, Kept

LEMMA FailData ==
  ASSUME CountInv, SetInv, DataInv, NEW p \in Proc, NEW id, NEW list,
         Fail(p, id, list), UNCHANGED <<sema, sig>>, undo' \in SUBSET Proc
  PROVE  DataInv'
<1>0. /\ DataTypes /\ CallTypes /\ Kept /\ FreeIsNew
      /\ CountTypes /\ ProcTypes
  BY DEF DataInv, CountInv
<1>1. /\ Finish(p) /\ \E ns, zs : Wake(ns, zs)
      /\ UNCHANGED <<semval, aoe, settled>>
  BY DEF Fail
<1>2. Wakes
  BY <1>0, <1>1, WakeWakes
<1>3. CallTypes'
  BY <1>0, <1>1, <1>2, FinishCalls
<1>4. DataTypes' /\ Kept'
  BY <1>0, <1>1, SameData
<1>5. FreeIsNew'
  BY <1>0, <1>1, <1>2, WakesFree, SameSets DEF FreeIsNew
<1> QED
  BY <1>3, <1>4, <1>5 DEF DataInv

LEMMA BlockData ==
  ASSUME CountInv, SetInv, DataInv, NEW p \in Proc, NEW id \in Id, NEW list \in Lists,
         Holds(id, list), Block(p, id, list, list), UNCHANGED <<sema, sig>>,
         undo' \in SUBSET Proc
  PROVE  DataInv'
<1>0. /\ SetTypes /\ Apart /\ DataTypes /\ CallTypes /\ Kept /\ FreeIsNew
      /\ CountTypes /\ ProcTypes
  BY DEF SetInv, DataInv, CountInv
<1> DEFINE n == Stop(p, id, list)
           ns == Raised(id, list, n)
           zs == Emptied(id, list, n)
           k == IF list[n].op < 0 THEN "n" ELSE "z"
           s == SlotOf(id, list[n].num)
           cn == ZeroAt(semncnt, ns)
           cz == ZeroAt(semzcnt, zs)
           w == Woken(wchan, Reset(ns, zs))
<1>1. PICK c : Blocks(p, id, list, ns, zs, k, s, c)
  BY BlockIs
<1>2. s \in SlotsOf(HdrOf(id)) /\ HdrOf(id) \in Hdr
  <2>1. n \in DOMAIN list
    BY DEF Block
  <2> QED
    BY <2>1, <1>0, NamedSlot, IdParts
<1> HIDE DEF n, ns, zs, k, s
<1>3. s \in Slot /\ s \notin FreeSlots
  BY <1>0, <1>2, FreeIs DEF Apart
<1>4. /\ cn = ZeroAt(semncnt, ns) /\ cz = ZeroAt(semzcnt, zs)
      /\ w = Woken(wchan, Reset(ns, zs))
  OBVIOUS
<1> HIDE DEF cn, cz, w
<1>5. /\ k \in {"n", "z"} /\ c.semp = <<k, s>>
      /\ Raises(<<k, s>>, cn, cz)
      /\ wchan' = [w EXCEPT ![p] = <<k, s>>]
      /\ call' = [call EXCEPT ![p] = c]
  BY <1>1, <1>4 DEF Blocks
<1>6. cn \in [Slot -> Nat] /\ cz \in [Slot -> Nat] /\ DOMAIN w = Proc
  BY <1>0, <1>4, ResetIs
<1>7. \A q \in Proc : w[q] \in {wchan[q], NoChan}
  BY <1>0, <1>4, ResetIs
<1>8. <<k, s>> \in Chan
  BY <1>3, <1>5 DEF Chan
<1>9. CallTypes'
  BY <1>0, <1>5, <1>6, <1>7, <1>8 DEF CallTypes, ProcTypes, Chan
<1>10. UNCHANGED <<semval, aoe, settled>>
  BY DEF Block
<1>11. DataTypes' /\ Kept'
  BY <1>0, <1>10, SameData
<1>12. ASSUME NEW t \in FreeSlots
       PROVE  semncnt'[t] = 0 /\ semzcnt'[t] = 0
  <2>1. t \in Slot /\ t # s /\ semncnt[t] = 0 /\ semzcnt[t] = 0
    BY <1>0, <1>3 DEF FreeIsNew, FreeSlots
  <2>2. cn[t] = 0 /\ cz[t] = 0
    BY <2>1, <1>4 DEF ZeroAt
  <2>3. semncnt'[t] = cn[t] /\ semzcnt'[t] = cz[t]
    BY <2>1, <1>5, <1>6 DEF Raises
  <2> QED
    BY <2>2, <2>3
<1>13. FreeIsNew'
  BY <1>0, <1>10, <1>12, SameSets DEF FreeIsNew
<1> QED
  BY <1>9, <1>11, <1>13 DEF DataInv

LEMMA ExitData ==
  ASSUME CountInv, SetInv, DataInv, NEW p \in Proc, semexit(p)
  PROVE  DataInv'
<1>0. /\ SetTypes /\ Apart /\ DataTypes /\ CallTypes /\ Kept /\ FreeIsNew
      /\ CountTypes /\ ProcTypes
  BY DEF SetInv, DataInv, CountInv
<1>1. /\ undo' = undo \ {p} /\ UNCHANGED <<sema, pc, call, sig>>
      /\ \E ns, zs : Wake(ns, zs)
  BY ExitDoes
<1>2. Wakes
  BY <1>0, <1>1, WakeWakes
<1>3. CallTypes'
  BY <1>0, <1>1, <1>2, WakesCalls
<1>4. /\ semval' \in [Slot -> Int] /\ settled' \in [Slot -> Int]
      /\ aoe' \in [Proc -> [Id \X Num -> Int]]
  BY <1>0, ExitIs
<1>5. \A q \in Proc : \A e \in Id \X Num : aoe'[q][e] = IF q = p THEN 0 ELSE aoe[q][e]
  BY <1>0, ExitIs
<1>6. \A s \in Slot \ Paid(Dues(p)) : semval'[s] = semval[s] /\ settled'[s] = settled[s]
  BY <1>0, ExitIs
<1>7. DataTypes'
  BY <1>0, <1>1, <1>4 DEF DataTypes
<1>8. Kept'
  BY <1>0, <1>1, <1>5, SameSets DEF Kept
<1>9. ASSUME NEW s \in FreeSlots
      PROVE  s \in Slot /\ s \notin Paid(Dues(p))
  <2>1. ASSUME NEW e \in Dues(p), s = SlotAt(e)
        PROVE  FALSE
    <3>1. e \in Id \X Num /\ Live(e)
      BY <1>0, DuesAre DEF Dues
    <3>2. s \in SlotsOf(HdrOf(e[1]))
      BY <2>1, <3>1, <1>0, LiveSlot DEF SlotAt
    <3>3. HdrOf(e[1]) \in Hdr
      BY <3>1, IdParts
    <3> QED
      BY <3>2, <3>3, FreeIs
  <2> QED
    BY <2>1 DEF Paid, FreeSlots
<1>10. FreeIsNew'
  BY <1>0, <1>1, <1>2, <1>6, <1>9, WakesFree, SameSets DEF FreeIsNew
<1> QED
  BY <1>3, <1>7, <1>8, <1>10 DEF DataInv

(* The counts of semaphores that nobody owns stay zero, and data stays. *)
LEMMA StillData ==
  ASSUME DataInv, CallTypes', UNCHANGED <<sema, semval, settled, undo, aoe>>,
         \A s \in FreeSlots : semncnt'[s] = 0 /\ semzcnt'[s] = 0
  PROVE  DataInv'
<1>1. DataTypes' /\ Kept'
  BY SameData DEF DataInv, DataTypes
<1>2. FreeIsNew'
  BY SameSets DEF DataInv, FreeIsNew
<1> QED
  BY <1>1, <1>2 DEF DataInv

LEMMA RemovedData ==
  ASSUME CountInv, DataInv, NEW p \in Proc, Removed(p)
  PROVE  DataInv'
<1>0. CountTypes /\ ProcTypes /\ CallTypes /\ FreeIsNew
  BY DEF CountInv, DataInv
<1>1. /\ Finish(p) /\ UNCHANGED <<sema, semval, semncnt, semzcnt, undo, aoe>>
      /\ UNCHANGED <<wchan, sig, settled>>
  BY DEF Removed, semVars, undoVars
<1>2. CallTypes'
  BY <1>0, <1>1, NoWakeWakes, FinishCalls
<1>3. \A s \in FreeSlots : semncnt'[s] = 0 /\ semzcnt'[s] = 0
  BY <1>0, <1>1 DEF FreeIsNew
<1> QED
  BY <1>1, <1>2, <1>3, StillData

LEMMA SignalData ==
  ASSUME CountInv, DataInv, NEW p \in Proc, Signal(p)
  PROVE  DataInv'
<1>0. CountTypes /\ ProcTypes /\ CallTypes /\ FreeIsNew
  BY DEF CountInv, DataInv
<1>1. /\ UNCHANGED <<sema, semval, semncnt, semzcnt, undo, aoe>>
      /\ UNCHANGED <<call, settled>> /\ wchan' = [wchan EXCEPT ![p] = NoChan]
      /\ sig' = sig \/ sig' = [sig EXCEPT ![p] = TRUE]
  BY DEF Signal, semVars, undoVars
<1>2. CallTypes'
  BY <1>0, <1>1 DEF ProcTypes, CallTypes, Chan
<1>3. \A s \in FreeSlots : semncnt'[s] = 0 /\ semzcnt'[s] = 0
  BY <1>0, <1>1 DEF FreeIsNew
<1> QED
  BY <1>1, <1>2, <1>3, StillData

LEMMA InterruptedData ==
  ASSUME CountInv, DataInv, NEW p \in Proc, Interrupted(p)
  PROVE  DataInv'
<1>0. CountTypes /\ ProcTypes /\ CallTypes /\ FreeIsNew
  BY DEF CountInv, DataInv
<1>1. /\ UNCHANGED <<sema, semval, undo, aoe, settled>>
      /\ Finish(p) /\ sig' = [sig EXCEPT ![p] = FALSE]
      /\ wchan' = wchan \/ wchan' = Woken(wchan, {call[p].semp})
  BY DEF Interrupted, undoVars
<1>2. CallTypes'
  <2>1. \A q \in Proc : wchan'[q] \in {wchan[q], NoChan}
    BY <1>1, WokenIs
  <2>2. NoCall.semp \in Chan
    BY DEF NoCall, Chan
  <2>3. \A q \in Proc : call'[q].semp \in Chan
    BY <1>0, <1>1, <2>2, FinishIs DEF CallTypes
  <2>4. sig' \in [Proc -> BOOLEAN]
    BY <1>0, <1>1 DEF CallTypes
  <2> QED
    BY <1>0, <2>1, <2>3, <2>4 DEF CallTypes, Chan
<1>3. ASSUME NEW s \in FreeSlots
      PROVE  semncnt'[s] = 0 /\ semzcnt'[s] = 0
  <2>1. s \in Slot /\ semncnt[s] = 0 /\ semzcnt[s] = 0
    BY <1>0 DEF FreeIsNew, FreeSlots
  <2>2. <<"n", s>> \in Counter /\ <<"z", s>> \in Counter
    BY <2>1 DEF Counter
  <2>3. CountAt(<<"n", s>>) = 0 /\ CountAt(<<"z", s>>) = 0
    BY <2>1 DEF CountAt
  <2> DEFINE own == call[p].semp
             new == IF CountAt(own) <= 1 THEN 0 ELSE CountAt(own) - 1
  <2>4. \A ch \in Counter : CountAt(ch)' = IF ch = own THEN new ELSE CountAt(ch)
    BY InterruptedIs
  <2>5. CountAt(own) = 0 => new = 0
    OBVIOUS
  <2> HIDE DEF own, new
  <2>6. CountAt(<<"n", s>>)' = 0 /\ CountAt(<<"z", s>>)' = 0
    BY <2>2, <2>3, <2>4, <2>5
  <2> QED
    BY <2>6 DEF CountAt
<1> QED
  BY <1>1, <1>2, <1>3, StillData

LEMMA DataInvariance ==
  ASSUME CountsFit, PageFault = FALSE
  PROVE  Spec => [](CountInv /\ SetInv /\ DataInv)
<1>1. Init => DataInv
  <2> SUFFICES ASSUME Init
               PROVE  DataInv
    OBVIOUS
  <2>1. DataTypes
    BY DEF Init, DataTypes
  <2>2. CallTypes
    BY DEF Init, CallTypes, Chan, NoCall
  <2>3. Kept
    BY DEF Init, Kept
  <2>4. FreeIsNew
    BY DEF Init, FreeIsNew, FreeSlots
  <2> QED
    BY <2>1, <2>2, <2>3, <2>4 DEF DataInv
<1>2. CountInv /\ SetInv /\ DataInv /\ [Next]_vars => DataInv'
  <2> SUFFICES ASSUME CountInv, SetInv, DataInv, [Next]_vars
               PROVE  DataInv'
    OBVIOUS
  <2>0. UNCHANGED <<semVars, undoVars, procVars, settled>> => DataInv'
    <3> SUFFICES ASSUME UNCHANGED <<semVars, undoVars, procVars, settled>>
                 PROVE  DataInv'
      OBVIOUS
    <3>1. /\ UNCHANGED <<sema, semval, settled, undo, aoe>>
          /\ UNCHANGED <<semncnt, semzcnt, call, wchan, sig>>
      BY DEF semVars, undoVars, procVars
    <3>2. CallTypes'
      BY <3>1 DEF DataInv, CallTypes
    <3> QED
      BY <3>1, <3>2, StillData DEF DataInv, FreeIsNew
  <2>1. CASE UNCHANGED vars
    BY <2>0, <2>1 DEF vars
  <2>2. CASE Next
    <3>1. PICK p \in Proc :
            \/ semget(p) \/ RemoveSet(p) \/ SetVal(p) \/ SetAll(p)
            \/ Semop(p) \/ Again(p) \/ Removed(p) \/ FaultOver(p)
            \/ Interrupted(p) \/ Signal(p) \/ semexit(p)
      BY <2>2 DEF Next
    <3>2. CASE semget(p)
      BY <3>2, SemgetData
    <3>3. CASE RemoveSet(p)
      BY <3>3, RemoveSetIs, RemoveSetData
    <3>4. CASE SetVal(p)
      BY <3>4, SetValIs, SetValData
    <3>5. CASE SetAll(p)
      BY <3>5, SetAllIs, SetAllData
    <3>6. CASE Removed(p) \/ Interrupted(p) \/ Signal(p) \/ semexit(p)
      BY <3>6, RemovedData, InterruptedData, SignalData, ExitData
    <3>7. CASE Semop(p) \/ Again(p) \/ FaultOver(p)
      <4>1. CASE UNCHANGED <<semVars, undoVars, procVars, settled>>
        BY <2>0, <4>1
      <4>2. CASE \E id, list : Calls(p, id, list)
        <5>1. PICK id, list : Calls(p, id, list)
          BY <4>2
        <5>2. /\ id \in Id /\ list \in Lists /\ Holds(id, list)
              /\ UNCHANGED <<sema, sig>>
              /\ \/ Succeed(p, id, list) \/ Fail(p, id, list)
                 \/ Block(p, id, list, list)
          BY <5>1 DEF Calls, Operate
        <5>3. undo' \in SUBSET Proc
          <6>1. undo' = undo \cup {p} \/ undo' = undo
            BY <5>1 DEF Calls, Operate
          <6> QED
            BY <6>1 DEF DataInv, DataTypes
        <5>4. CASE Succeed(p, id, list)
          BY <5>2, <5>3, <5>4, SucceedData
        <5>5. CASE Fail(p, id, list)
          BY <5>2, <5>3, <5>5, FailData
        <5>6. CASE Block(p, id, list, list)
          BY <5>2, <5>3, <5>6, BlockData
        <5> QED
          BY <5>2, <5>4, <5>5, <5>6
      <4> QED
        BY <3>7, <4>1, <4>2, SemopIs
    <3> QED
      BY <3>1, <3>2, <3>3, <3>4, <3>5, <3>6, <3>7
  <2> QED
    BY <2>1, <2>2
<1> QED
  BY <1>1, <1>2, SetInvariance, PTL DEF Spec

(* Every step writes places and channels process by process. *)
IsTable(f) == f = [q \in Proc |-> f[q]]
Tables == IsTable(pc) /\ IsTable(wchan)

LEMMA ExceptTable ==
  ASSUME NEW f, IsTable(f), NEW p, NEW v
  PROVE  IsTable([f EXCEPT ![p] = v])
BY DEF IsTable

LEMMA WokenTable ==
  ASSUME NEW w, NEW chans
  PROVE  IsTable(Woken(w, chans))
<1> DEFINE t == [q \in Proc |-> IF w[q] \in chans THEN NoChan ELSE w[q]]
<1>1. Woken(w, chans) = t
  BY DEF Woken
<1>2. \A q \in Proc : t[q] = IF w[q] \in chans THEN NoChan ELSE w[q]
  OBVIOUS
<1> QED
  BY <1>1, <1>2 DEF IsTable

LEMMA TableStep ==
  ASSUME Tables, NEW p, NEW a, NEW b, NEW c,
         pc' = pc \/ pc' = [pc EXCEPT ![p] = a],
         \/ wchan' = wchan \/ wchan' = [wchan EXCEPT ![p] = b]
         \/ \E w : \/ wchan' = Woken(wchan, w)
                   \/ wchan' = [Woken(wchan, w) EXCEPT ![p] = c]
  PROVE  Tables'
<1>1. IsTable(pc')
  BY ExceptTable DEF Tables
<1>2. IsTable(wchan')
  BY ExceptTable, WokenTable DEF Tables
<1> QED
  BY <1>1, <1>2 DEF Tables, IsTable

LEMMA TablesInvariance == Spec => []Tables
<1>1. Init => Tables
  BY DEF Init, Tables, IsTable
<1>2. Tables /\ [Next]_vars => Tables'
  <2> SUFFICES ASSUME Tables, [Next]_vars
               PROVE  Tables'
    OBVIOUS
  <2>0. ASSUME NEW p, pc' = pc \/ pc' = [pc EXCEPT ![p] = "user"], \E ns, zs : Wake(ns, zs)
        PROVE  Tables'
    BY <2>0, TableStep DEF Wake
  <2>1. ASSUME NEW p, pc' = pc \/ pc' = [pc EXCEPT ![p] = "user"], wchan' = wchan
        PROVE  Tables'
    BY <2>1, TableStep
  <2>2. ASSUME NEW p, NEW id, NEW ops, NEW list, Operate(p, id, ops, list)
        PROVE  Tables'
    <3>1. CASE Succeed(p, id, list) \/ Fail(p, id, list)
      BY <3>1, <2>0 DEF Succeed, Fail, Finish
    <3>2. CASE Block(p, id, ops, list)
      <4>1. PICK n, ns, zs, k, s, c : Blocks(p, id, ops, ns, zs, k, s, c)
        BY <3>2, BlockIs
      <4> QED
        BY <4>1, TableStep DEF Blocks
    <3> QED
      BY <2>2, <3>1, <3>2 DEF Operate
  <2>3. ASSUME NEW p, NEW id, NEW ops, NEW again, Fault(p, id, ops, again)
        PROVE  Tables'
    BY <2>3, TableStep DEF Fault
  <2>4. CASE UNCHANGED vars
    BY <2>1, <2>4 DEF vars, procVars
  <2>5. CASE Next
    <3>1. PICK p \in Proc :
            \/ semget(p) \/ RemoveSet(p) \/ SetVal(p) \/ SetAll(p)
            \/ Semop(p) \/ Again(p) \/ Removed(p) \/ FaultOver(p)
            \/ Interrupted(p) \/ Signal(p) \/ semexit(p)
      BY <2>5 DEF Next
    <3>2. CASE semget(p)
      BY <3>2, <2>1, SemgetIs
    <3>3. CASE RemoveSet(p)
      BY <3>3, <2>0 DEF RemoveSet
    <3>4. CASE SetVal(p)
      BY <3>4, <2>0 DEF SetVal
    <3>5. CASE SetAll(p)
      BY <3>5, <2>0 DEF SetAll
    <3>6. CASE Semop(p)
      BY <3>6, <2>1, <2>2, <2>3 DEF Semop, procVars
    <3>7. CASE Again(p)
      BY <3>7, <2>2, <2>3 DEF Again
    <3>8. CASE Removed(p)
      BY <3>8, <2>1 DEF Removed, Finish
    <3>9. CASE FaultOver(p)
      BY <3>9, <2>1, <2>2 DEF FaultOver, Finish
    <3>10. CASE Interrupted(p)
      BY <3>10, TableStep DEF Interrupted, Finish
    <3>11. CASE Signal(p)
      BY <3>11, TableStep DEF Signal
    <3>12. CASE semexit(p)
      BY <3>12, <2>0, ExitDoes
    <3> QED
      BY <3>1, <3>2, <3>3, <3>4, <3>5, <3>6, <3>7, <3>8, <3>9, <3>10, <3>11, <3>12
  <2> QED
    BY <2>4, <2>5
<1> QED
  BY <1>1, <1>2, PTL DEF Spec

(* The kernel's tables keep their types: counts never go below zero, and   *)
(* no pass through the wait loop of semop leaves a process nowhere.        *)
THEOREM SemaphoreTypes ==
  ASSUME CountsFit, PageFault = FALSE
  PROVE  Spec => []TypeOK
<1>1. CountInv /\ SetInv /\ DataInv /\ Tables => TypeOK
  <2> SUFFICES ASSUME CountInv, SetInv, DataInv, Tables
               PROVE  TypeOK
    OBVIOUS
  <2>1. CountTypes /\ ProcTypes /\ SetTypes /\ DataTypes /\ CallTypes
    BY DEF CountInv, SetInv, DataInv
  <2>2. sema \in [Hdr -> [alloc : BOOLEAN, seq : Nat, base : Int, nsems : Nat]]
    <3>1. 0 .. MaxSeq \subseteq Nat
      BY ConstAssumption
    <3>2. \A h \in Hdr : sema[h] \in [alloc : BOOLEAN, seq : Nat, base : Int, nsems : Nat]
      BY <2>1, <3>1 DEF SetTypes
    <3> QED
      BY <2>1, <3>2 DEF SetTypes
  <2>3. /\ pc \in [Proc -> {"user", "slept", "fault"}] /\ wchan \in [Proc -> Chan]
        /\ sig \in [Proc -> BOOLEAN] /\ \A p \in Proc : call[p].semp \in Chan
    <3>1. \A p \in Proc : pc[p] \in {"user", "slept", "fault"} /\ wchan[p] \in Chan
      BY <2>1 DEF SetTypes, CallTypes
    <3>2. pc = [p \in Proc |-> pc[p]] /\ wchan = [p \in Proc |-> wchan[p]]
      BY DEF Tables, IsTable
    <3>3. pc \in [Proc -> {"user", "slept", "fault"}]
      BY <3>1, <3>2
    <3>4. wchan \in [Proc -> Chan]
      BY <3>1, <3>2
    <3> QED
      BY <2>1, <3>3, <3>4 DEF CallTypes
  <2> QED
    BY <2>1, <2>2, <2>3 DEF TypeOK, CountTypes, DataTypes
<1> QED
  BY <1>1, DataInvariance, TablesInvariance, PTL

(* When a set is removed, what a new one could inherit goes with it: the   *)
(* adjustments of every process, the values and the counts.                *)
THEOREM NothingOutlivesItsSet ==
  ASSUME CountsFit, PageFault = FALSE
  PROVE  Spec => []NothingOutlivesASet
<1>1. DataInv => NothingOutlivesASet
  BY DEF DataInv, Kept, FreeIsNew, Live, NothingOutlivesASet
<1> QED
  BY <1>1, DataInvariance, PTL

-----------------------------------------------------------------------------
(* The limits: what one operation after another does to the values and to  *)
(* the undo structure.                                                     *)
LEMMA Positions ==
  ASSUME NEW n \in Nat, NEW T, 0 \in T, \A j \in 1 .. n : j - 1 \in T => j \in T
  PROVE  0 .. n \subseteq T
<1> DEFINE U == {m \in Nat : m <= n => m \in T}
<1>1. U \in SUBSET Nat /\ 0 \in U
  OBVIOUS
<1>2. ASSUME NEW m \in U
      PROVE  m + 1 \in U
  <2>1. CASE m + 1 <= n
    <3>1. m + 1 \in 1 .. n /\ (m + 1) - 1 = m /\ m \in T
      BY <2>1
    <3> QED
      BY <3>1
  <2>2. CASE ~(m + 1 <= n)
    BY <2>2
  <2> QED
    BY <2>1, <2>2
<1>3. U = Nat
  <2> HIDE DEF U
  <2> QED
    BY <1>1, <1>2, NatSetInduction
<1> QED
  BY <1>3

Within(x) == x \in 0 .. semvmx

LEMMA ValueStays ==
  ASSUME NEW id, NEW list \in Lists, NEW s, Within(semval[s]),
         NEW n \in 0 .. Len(list), \A j \in 1 .. n : Fits(id, list, j)
  PROVE  Within(ValueAfter(id, list, n, s))
<1> DEFINE T == {j \in 0 .. n : Within(ValueAfter(id, list, j, s))}
<1>0. Len(list) \in Nat /\ DOMAIN list = 1 .. Len(list) /\ semvmx \in Nat
  BY ListIs, ConstAssumption
<1>1. semval[s] \in Int
  BY <1>0 DEF Within
<1>2. 0 \in T
  <2>1. ValueAfter(id, list, 0, s) = semval[s]
    BY <1>0, <1>1, ValueIs, PartNone
  <2> QED
    BY <1>0, <2>1
<1>3. ASSUME NEW j \in 1 .. n, j - 1 \in T
      PROVE  j \in T
  <2>0. /\ j \in 1 .. Len(list) /\ j - 1 \in 0 .. Len(list) /\ j \in 0 .. Len(list)
        /\ j \in 0 .. n /\ Fits(id, list, j) /\ list[j].op \in Int
    BY <1>0, ListIs
  <2>a. j \in 1 .. Len(list)
    BY <2>0
  <2> DEFINE Q == On(id, list, s)
             v == ValueAfter(id, list, j - 1, s)
  <2>1. Within(v)
    BY <1>3
  <2>2. /\ v = semval[s] + Part(list, Q, j - 1)
        /\ ValueAfter(id, list, j, s) = semval[s] + Part(list, Q, j)
    BY <2>0, ValueIs
  <2>3. j \in Q <=> SlotOf(id, list[j].num) = s
    BY <1>0, <2>0 DEF On
  <2>4. j \in Q => /\ list[j].op > 0 => v + list[j].op <= semvmx
                   /\ list[j].op < 0 => v >= -list[j].op
    BY <2>0, <2>3 DEF Fits
  <2> DEFINE k == j - 1
  <2>b. k = j - 1
    OBVIOUS
  <2> HIDE DEF Q, v, k
  <2>5. /\ Part(list, Q, k) \in Int /\ Part(list, Q, j) \in Int
        /\ Part(list, Q, j) = Part(list, Q, k) + (IF j \in Q THEN list[j].op ELSE 0)
    BY <2>a, <2>b, PartStep
  <2>6. ValueAfter(id, list, j, s) = v + (IF j \in Q THEN list[j].op ELSE 0)
    BY <1>1, <2>0, <2>2, <2>5, <2>b
  <2>7. Within(ValueAfter(id, list, j, s))
    <3>1. v \in Int /\ 0 <= v /\ v <= semvmx
      BY <1>0, <2>1 DEF Within
    <3>2. CASE j \in Q
      BY <3>1, <3>2, <1>0, <2>0, <2>4, <2>6 DEF Within
    <3>3. CASE j \notin Q
      BY <3>1, <3>3, <1>0, <2>6 DEF Within
    <3> QED
      BY <3>2, <3>3
  <2> QED
    BY <2>0, <2>7
<1>4. n \in Nat
  BY <1>0
<1>5. n \in T
  <2> HIDE DEF T
  <2> QED
    BY <1>2, <1>3, <1>4, Positions
<1> QED
  BY <1>5

(* The entries of an undo structure, and its limits. *)
Ents(a) == {e \in Id \X Num : a[e] # 0}
Adj(p, id, list, j) == [e \in Id \X Num |-> AoeAfter(p, id, list, j, e)]
Small(a) ==
  /\ \A e \in Id \X Num : a[e] \in -semaem .. semaem
  /\ IsFiniteSet(Ents(a)) /\ Cardinality(Ents(a)) <= semume

LEMMA AdjIs ==
  ASSUME DataTypes, NEW p \in Proc, NEW id, NEW list \in Lists, NEW j \in 1 .. Len(list)
  PROVE  \A e \in Id \X Num :
           /\ Adj(p, id, list, j - 1)[e] \in Int
           /\ Adj(p, id, list, j)[e] = Adj(p, id, list, j - 1)[e]
                - (IF j \in For(id, list, e) THEN list[j].op ELSE 0)
<1> SUFFICES ASSUME NEW e \in Id \X Num
             PROVE  /\ Adj(p, id, list, j - 1)[e] \in Int
                    /\ Adj(p, id, list, j)[e] = Adj(p, id, list, j - 1)[e]
                         - (IF j \in For(id, list, e) THEN list[j].op ELSE 0)
  OBVIOUS
<1> DEFINE Q == For(id, list, e)
<1>0. Len(list) \in Nat /\ DOMAIN list = 1 .. Len(list) /\ list[j].op \in Int
  BY ListIs
<1>1. aoe[p][e] \in Int
  BY DEF DataTypes
<1>2. /\ Adj(p, id, list, j - 1)[e] = AoeAfter(p, id, list, j - 1, e)
      /\ Adj(p, id, list, j)[e] = AoeAfter(p, id, list, j, e)
  BY DEF Adj
<1>3. /\ AoeAfter(p, id, list, j - 1, e) = aoe[p][e] - Part(list, Q, j - 1)
      /\ AoeAfter(p, id, list, j, e) = aoe[p][e] - Part(list, Q, j)
  <2>1. j - 1 \in 0 .. Len(list) /\ j \in 0 .. Len(list)
    BY <1>0
  <2> QED
    BY <2>1, AoeIs
<1> DEFINE k == j - 1
<1>b. k = j - 1
  OBVIOUS
<1> HIDE DEF Q, k
<1>4. /\ Part(list, Q, k) \in Int /\ Part(list, Q, j) \in Int
      /\ Part(list, Q, j) = Part(list, Q, k) + (IF j \in Q THEN list[j].op ELSE 0)
  BY <1>b, PartStep
<1>5. /\ Adj(p, id, list, j - 1)[e] \in Int
      /\ Adj(p, id, list, j)[e] = Adj(p, id, list, j - 1)[e]
           - (IF j \in Q THEN list[j].op ELSE 0)
  BY <1>0, <1>1, <1>2, <1>3, <1>4, <1>b
<1> QED
  BY <1>5 DEF Q

(* semaoe lets in no entry too many and no adjustment too large. *)
LEMMA AdjStays ==
  ASSUME DataTypes, NEW p \in Proc, NEW id, NEW list \in Lists, NEW j \in 1 .. Len(list),
         Done(p, id, list, j), Small(Adj(p, id, list, j - 1))
  PROVE  Small(Adj(p, id, list, j))
<1> DEFINE a == Adj(p, id, list, j - 1)
           b == Adj(p, id, list, j)
           o == list[j].op
           mine == <<id, list[j].num>>
<1>0. o \in Int /\ DOMAIN list = 1 .. Len(list) /\ semume \in Nat /\ semaem \in Nat
  BY ListIs, ConstAssumption
<1>1. \A e \in Id \X Num : /\ a[e] \in Int
                           /\ b[e] = a[e] - (IF j \in For(id, list, e) THEN o ELSE 0)
  BY AdjIs
<1>2. \A e : j \in For(id, list, e) <=> list[j].undo /\ mine = e
  BY <1>0 DEF For
<1>3. Adjusts(list, j) => semaoe(p, id, list, j)
  BY DEF Done
<1>4. Adjusts(list, j) /\ mine \in Id \X Num =>
        /\ a[mine] # 0 \/ Cardinality(Ents(a)) < semume
        /\ a[mine] - o \in -semaem .. semaem
  <2> SUFFICES ASSUME Adjusts(list, j), mine \in Id \X Num
               PROVE  /\ a[mine] # 0 \/ Cardinality(Ents(a)) < semume
                      /\ a[mine] - o \in -semaem .. semaem
    OBVIOUS
  <2>1. a[mine] = AoeAfter(p, id, list, j - 1, mine)
    BY DEF Adj
  <2>2. Ents(a) = {e \in Id \X Num : AoeAfter(p, id, list, j - 1, e) # 0}
    BY DEF Ents, Adj
  <2> QED
    BY <2>1, <2>2, <1>3 DEF semaoe
<1>5. Small(a)
  OBVIOUS
<1> SUFFICES Small(b)
  OBVIOUS
<1> HIDE DEF a, b, mine
<1>6. CASE Adjusts(list, j) /\ mine \in Id \X Num
  <2>1. \A e \in Id \X Num : e # mine => b[e] = a[e]
    BY <1>0, <1>1, <1>2
  <2>2. b[mine] = a[mine] - o
    BY <1>1, <1>2, <1>6 DEF Adjusts
  <2>3. \A e \in Id \X Num : b[e] \in -semaem .. semaem
    BY <2>1, <2>2, <1>4, <1>5, <1>6 DEF Small
  <2>4. Ents(b) \subseteq Ents(a) \cup {mine}
    BY <2>1 DEF Ents
  <2>5. IsFiniteSet(Ents(a)) /\ Cardinality(Ents(a)) \in Nat /\ Cardinality(Ents(a)) <= semume
    BY <1>5, FS_CardinalityType DEF Small
  <2>6. CASE a[mine] # 0
    <3>1. Ents(b) \subseteq Ents(a)
      BY <2>4, <2>6, <1>6 DEF Ents
    <3>2. IsFiniteSet(Ents(b)) /\ Cardinality(Ents(b)) <= Cardinality(Ents(a))
      BY <2>5, <3>1, FS_Subset
    <3>3. Cardinality(Ents(b)) \in Nat
      BY <3>2, FS_CardinalityType
    <3> QED
      BY <1>0, <2>3, <2>5, <3>2, <3>3 DEF Small
  <2>7. CASE Cardinality(Ents(a)) < semume
    <3> DEFINE S == Ents(a)
    <3>0. IsFiniteSet(S) /\ Cardinality(S) \in Nat
      BY <2>5
    <3> HIDE DEF S
    <3>5. /\ IsFiniteSet(S \cup {mine})
          /\ Cardinality(S \cup {mine}) = IF mine \in S THEN Cardinality(S)
                                          ELSE Cardinality(S) + 1
      BY <3>0, FS_AddElement
    <3>1. /\ IsFiniteSet(Ents(a) \cup {mine})
          /\ Cardinality(Ents(a) \cup {mine}) <= Cardinality(Ents(a)) + 1
      BY <3>0, <3>5 DEF S
    <3>2. /\ IsFiniteSet(Ents(b))
          /\ Cardinality(Ents(b)) <= Cardinality(Ents(a) \cup {mine})
      BY <2>4, <3>1, FS_Subset
    <3>3. Cardinality(Ents(b)) \in Nat /\ Cardinality(Ents(a) \cup {mine}) \in Nat
      BY <3>1, <3>2, FS_CardinalityType
    <3>4. Cardinality(Ents(b)) <= semume
      BY <1>0, <2>5, <2>7, <3>1, <3>2, <3>3
    <3> QED
      BY <2>3, <3>2, <3>4 DEF Small
  <2> QED
    BY <1>4, <1>6, <2>6, <2>7
<1>7. CASE ~(Adjusts(list, j) /\ mine \in Id \X Num)
  <2>1. \A e \in Id \X Num : b[e] = a[e]
    BY <1>0, <1>1, <1>2, <1>7 DEF Adjusts
  <2>2. Ents(b) = Ents(a)
    BY <2>1 DEF Ents
  <2> QED
    BY <1>5, <2>1, <2>2 DEF Small
<1> QED
  BY <1>6, <1>7

LEMMA AdjStart ==
  ASSUME DataTypes, NEW p \in Proc, NEW id, NEW list \in Lists
  PROVE  Adj(p, id, list, 0) = aoe[p]
<1>1. 0 \in 0 .. Len(list)
  BY ListIs
<1>2. \A e \in Id \X Num : AoeAfter(p, id, list, 0, e) = aoe[p][e]
  BY <1>1, AoeIs, PartNone DEF DataTypes
<1>3. aoe[p] = [e \in Id \X Num |-> aoe[p][e]]
  BY DEF DataTypes
<1> QED
  BY <1>2, <1>3 DEF Adj

LEMMA AdjEnds ==
  ASSUME DataTypes, NEW p \in Proc, NEW id, NEW list \in Lists, Small(aoe[p]),
         \A j \in DOMAIN list : Done(p, id, list, j)
  PROVE  Small(Adj(p, id, list, Len(list)))
<1> DEFINE n == Len(list)
           T == {j \in 0 .. n : Small(Adj(p, id, list, j))}
<1>1. n \in Nat /\ DOMAIN list = 1 .. n
  BY ListIs
<1>2. 0 \in T
  BY <1>1, AdjStart
<1>3. ASSUME NEW j \in 1 .. n, j - 1 \in T
      PROVE  j \in T
  <2>1. Small(Adj(p, id, list, j))
    BY <1>1, <1>3, AdjStays
  <2> QED
    BY <1>1, <2>1
<1>4. n \in T
  <2> HIDE DEF T, n
  <2> QED
    BY <1>1, <1>2, <1>3, Positions
<1> QED
  BY <1>4

(* A list without adjustments leaves those of the process alone. *)
LEMMA AdjIdle ==
  ASSUME DataTypes, NEW p \in Proc, NEW id, NEW list \in Lists,
         \A j \in DOMAIN list : ~Adjusts(list, j), NEW e \in Id \X Num
  PROVE  Adj(p, id, list, Len(list))[e] = aoe[p][e]
<1> DEFINE n == Len(list)
           T == {j \in 0 .. n : Adj(p, id, list, j)[e] = aoe[p][e]}
<1>1. n \in Nat /\ DOMAIN list = 1 .. n
  BY ListIs
<1>2. 0 \in T
  BY <1>1, AdjStart
<1>3. ASSUME NEW j \in 1 .. n, j - 1 \in T
      PROVE  j \in T
  <2> DEFINE d == IF j \in For(id, list, e) THEN list[j].op ELSE 0
  <2>1. d = 0
    BY <1>1 DEF For, Adjusts
  <2>2. /\ Adj(p, id, list, j - 1)[e] \in Int
        /\ Adj(p, id, list, j)[e] = Adj(p, id, list, j - 1)[e] - d
    BY AdjIs
  <2>3. Adj(p, id, list, j)[e] = aoe[p][e]
    BY <1>3, <2>1, <2>2
  <2> QED
    BY <1>1, <2>3
<1>4. n \in T
  <2> HIDE DEF T, n
  <2>1. 0 .. n \subseteq T
    BY <1>1, <1>2, <1>3, Positions
  <2> QED
    BY <1>1, <2>1
<1> QED
  BY <1>4

(* An undo structure has few entries, none of them large, and a process    *)
(* with entries has one.                                                   *)
UndoKept(q) == Small(aoe[q]) /\ (Ents(aoe[q]) # {} => q \in undo)

LimitInv ==
  /\ \A s \in Slot : Within(semval[s])
  /\ IsFiniteSet(undo) /\ Cardinality(undo) <= semmnu
  /\ \A q \in Proc : UndoKept(q)

LEMMA SmallShrinks ==
  ASSUME NEW a, NEW b, Small(a), \A e \in Id \X Num : b[e] \in {0, a[e]}
  PROVE  Small(b) /\ Ents(b) \subseteq Ents(a)
<1>1. Ents(b) \subseteq Ents(a)
  BY DEF Ents
<1>2. IsFiniteSet(Ents(a)) /\ Cardinality(Ents(a)) <= semume
  BY DEF Small
<1>3. IsFiniteSet(Ents(b)) /\ Cardinality(Ents(b)) <= Cardinality(Ents(a))
  BY <1>1, <1>2, FS_Subset
<1>4. Cardinality(Ents(a)) \in Nat /\ Cardinality(Ents(b)) \in Nat
  BY <1>2, <1>3, FS_CardinalityType
<1>5. Cardinality(Ents(b)) <= semume
  BY <1>2, <1>3, <1>4, ConstAssumption
<1>6. \A e \in Id \X Num : b[e] \in -semaem .. semaem
  <2>1. semaem \in Nat /\ 0 \in -semaem .. semaem
    BY ConstAssumption
  <2> QED
    BY <2>1 DEF Small
<1> QED
  BY <1>1, <1>3, <1>5, <1>6 DEF Small

(* The undo structures when adjustments only go. *)
LEMMA UndoShrinks ==
  ASSUME NEW q, UndoKept(q), \A e \in Id \X Num : aoe'[q][e] \in {0, aoe[q][e]},
         undo' = undo
  PROVE  UndoKept(q)'
<1>1. Small(aoe'[q]) /\ Ents(aoe'[q]) \subseteq Ents(aoe[q])
  BY SmallShrinks DEF UndoKept
<1> QED
  BY <1>1 DEF UndoKept, Small, Ents

LEMMA SameLimits ==
  ASSUME LimitInv, UNCHANGED <<semval, undo, aoe>>
  PROVE  LimitInv'
BY DEF LimitInv, UndoKept, Small, Ents, Within

LEMMA UnrmLimits ==
  ASSUME LimitInv, NEW id, NEW low, NEW high, semunrm(id, low, high), undo' = undo,
         \A s \in Slot : Within(semval'[s])
  PROVE  LimitInv'
<1>1. \A q \in Proc : \A e \in Id \X Num : aoe'[q][e] \in {0, aoe[q][e]}
  BY UnrmIs
<1>2. \A q \in Proc : UndoKept(q)'
  BY <1>1, UndoShrinks DEF LimitInv
<1> QED
  BY <1>2 DEF LimitInv, Within

LEMMA CtlLimits ==
  ASSUME DataTypes, LimitInv, NEW p, RemoveSet(p) \/ SetVal(p) \/ SetAll(p)
  PROVE  LimitInv'
<1>0. Within(0) /\ \A s \in Slot : Within(semval[s])
  BY ConstAssumption DEF LimitInv, Within
<1>1. CASE RemoveSet(p)
  <2>1. PICK id : Removes(id)
    BY <1>1, RemoveSetIs
  <2>2. PICK own : semval' = ZeroAt(semval, own)
    BY <2>1 DEF Removes
  <2>3. \A s \in Slot : Within(semval'[s])
    BY <1>0, <2>2 DEF ZeroAt
  <2>4. undo' = undo /\ \E low, high : semunrm(id, low, high)
    BY <2>1 DEF Removes
  <2> QED
    BY <2>3, <2>4, UnrmLimits
<1>2. CASE SetVal(p)
  <2>1. PICK id, num, v : Sets(id, num, v)
    BY <1>2, SetValIs
  <2>2. PICK s : semval' = [semval EXCEPT ![s] = v]
    BY <2>1 DEF Sets
  <2>3. Within(v)
    BY <2>1 DEF Sets, Within
  <2>4. \A t \in Slot : Within(semval'[t])
    BY <1>0, <2>2, <2>3 DEF DataTypes
  <2>5. undo' = undo /\ semunrm(id, num, num)
    BY <2>1 DEF Sets
  <2> QED
    BY <2>4, <2>5, UnrmLimits
<1>3. CASE SetAll(p)
  <2>1. PICK id, new : SetsAll(id, new)
    BY <1>3, SetAllIs
  <2>2. PICK own : /\ new \in [own -> 0 .. semvmx]
                   /\ semval' = [s \in Slot |-> IF s \in own THEN new[s] ELSE semval[s]]
    BY <2>1 DEF SetsAll
  <2>3. \A s \in own : Within(new[s])
    BY <2>2 DEF Within
  <2>4. \A s \in Slot : Within(semval'[s])
    BY <1>0, <2>2, <2>3
  <2>5. undo' = undo /\ \E low, high : semunrm(id, low, high)
    BY <2>1 DEF SetsAll
  <2> QED
    BY <2>4, <2>5, UnrmLimits
<1> QED
  BY <1>1, <1>2, <1>3

LEMMA ExitLimits ==
  ASSUME SetInv, DataInv, LimitInv, NEW p \in Proc, semexit(p)
  PROVE  LimitInv'
<1>0. SetTypes /\ Apart /\ DataTypes /\ Kept
  BY DEF SetInv, DataInv
<1>1. undo' = undo \ {p}
  BY ExitDoes
<1>2. \A q \in Proc : \A e \in Id \X Num : aoe'[q][e] = IF q = p THEN 0 ELSE aoe[q][e]
  BY <1>0, ExitIs
<1>3. \A q \in Proc : UndoKept(q)'
  <2> SUFFICES ASSUME NEW q \in Proc
               PROVE  UndoKept(q)'
    OBVIOUS
  <2>1. UndoKept(q)
    BY DEF LimitInv
  <2>2. Small(aoe'[q]) /\ Ents(aoe'[q]) \subseteq Ents(aoe[q])
    BY <1>2, <2>1, SmallShrinks DEF UndoKept
  <2>3. q = p => Ents(aoe'[q]) = {}
    BY <1>2 DEF Ents
  <2>4. Small(aoe'[q]) /\ (Ents(aoe'[q]) # {} => q \in undo')
    BY <1>1, <2>1, <2>2, <2>3 DEF UndoKept
  <2> QED
    BY <2>4 DEF UndoKept, Small, Ents
<1>4. IsFiniteSet(undo') /\ Cardinality(undo') <= semmnu
  <2>1. IsFiniteSet(undo) /\ Cardinality(undo) <= semmnu
    BY DEF LimitInv
  <2>2. IsFiniteSet(undo') /\ Cardinality(undo') <= Cardinality(undo)
    <3>1. undo' \in SUBSET undo
      BY <1>1
    <3> QED
      BY <2>1, <3>1, FS_Subset
  <2>3. Cardinality(undo) \in Nat /\ Cardinality(undo') \in Nat /\ semmnu \in Nat
    BY <2>1, <2>2, FS_CardinalityType, ConstAssumption
  <2> QED
    BY <2>1, <2>2, <2>3
<1>5. \A s \in Slot : Within(semval'[s])
  <2> SUFFICES ASSUME NEW s \in Slot
               PROVE  Within(semval'[s])
    OBVIOUS
  <2>1. Within(semval[s])
    BY DEF LimitInv
  <2>2. \A e \in Made(p) : semval'[SlotAt(e)] = semval[SlotAt(e)] + aoe[p][e]
    BY <1>0, ExitIs
  <2>3. /\ \A e \in Dues(p) \ Made(p) : semval'[SlotAt(e)] = semval[SlotAt(e)]
        /\ \A t \in Slot \ Paid(Dues(p)) : semval'[t] = semval[t]
    BY <1>0, ExitIs
  <2>4. CASE s \notin Paid(Dues(p))
    BY <2>1, <2>3, <2>4
  <2>5. CASE s \in Paid(Dues(p))
    <3>1. PICK e \in Dues(p) : s = SlotAt(e)
      BY <2>5 DEF Paid
    <3>2. CASE e \in Made(p)
      BY <3>1, <3>2, <2>2 DEF Made, Within
    <3>3. CASE e \notin Made(p)
      BY <3>1, <3>3, <2>1, <2>3
    <3> QED
      BY <3>2, <3>3
  <2> QED
    BY <2>4, <2>5
<1> QED
  BY <1>3, <1>4, <1>5 DEF LimitInv, Within

(* semop: whoever gets an undo structure finds one free. *)
LEMMA UndoRoom ==
  ASSUME LimitInv, NEW p, NEW id, NEW list, NEW k,
         undo' = IF GetsUndo(p, id, list, k) THEN undo \cup {p} ELSE undo
  PROVE  IsFiniteSet(undo') /\ Cardinality(undo') <= semmnu /\ undo \subseteq undo'
<1> DEFINE S == undo
<1>0. IsFiniteSet(S) /\ Cardinality(S) <= semmnu
  BY DEF LimitInv
<1>1. Cardinality(S) \in Nat /\ semmnu \in Nat
  BY <1>0, FS_CardinalityType, ConstAssumption
<1>2. CASE GetsUndo(p, id, list, k)
  <2>1. undo' = S \cup {p} /\ Cardinality(S) < semmnu
    BY <1>2 DEF GetsUndo
  <2> HIDE DEF S
  <2>2. /\ IsFiniteSet(S \cup {p})
        /\ Cardinality(S \cup {p}) = IF p \in S THEN Cardinality(S) ELSE Cardinality(S) + 1
    BY <1>0, FS_AddElement
  <2> DEFINE n == Cardinality(S \cup {p})
  <2>3. n <= semmnu
    BY <1>1, <2>1, <2>2
  <2> QED
    BY <2>1, <2>2, <2>3 DEF S
<1>3. CASE ~GetsUndo(p, id, list, k)
  BY <1>0, <1>3
<1> QED
  BY <1>2, <1>3

LEMMA OperateLimits ==
  ASSUME DataTypes, LimitInv, NEW p \in Proc, NEW id, NEW list \in Lists,
         Operate(p, id, list, list)
  PROVE  LimitInv'
<1> DEFINE k == Stop(p, id, list)
<1>1. undo' = IF GetsUndo(p, id, list, k) THEN undo \cup {p} ELSE undo
  BY DEF Operate
<1>2. IsFiniteSet(undo') /\ Cardinality(undo') <= semmnu /\ undo \subseteq undo'
  <2> HIDE DEF k
  <2> QED
    BY <1>1, UndoRoom
<1>3. CASE UNCHANGED <<semval, aoe>>
  <2>1. \A q \in Proc : UndoKept(q)'
    BY <1>2, <1>3 DEF LimitInv, UndoKept, Small, Ents
  <2> QED
    BY <1>2, <1>3, <2>1 DEF LimitInv, Within
<1>4. CASE Succeed(p, id, list)
  <2> DEFINE n == Len(list)
             b == Adj(p, id, list, n)
  <2>0. n \in Nat /\ DOMAIN list = 1 .. n /\ n \in 0 .. Len(list)
    BY ListIs
  <2>1. \A j \in DOMAIN list : Done(p, id, list, j)
    BY <1>4, SucceedIs
  <2>2. \A j \in 1 .. n : Fits(id, list, j)
    BY <2>0, <2>1 DEF Done
  <2>3. /\ semval' = [s \in Slot |-> ValueAfter(id, list, n, s)]
        /\ aoe' = [aoe EXCEPT ![p] = b]
        /\ k = n + 1
    BY <1>4 DEF Succeed, Adj
  <2>4. Small(b)
    BY <2>1, AdjEnds DEF LimitInv, UndoKept
  <2>5. (\A j \in DOMAIN list : ~Adjusts(list, j)) => \A e \in Id \X Num : b[e] = aoe[p][e]
    BY AdjIdle
  <2> HIDE DEF n, b
  <2>6. ASSUME NEW s \in Slot
        PROVE  Within(semval'[s])
    <3>1. Within(semval[s])
      BY DEF LimitInv
    <3>2. Within(ValueAfter(id, list, n, s))
      BY <2>0, <2>2, <3>1, ValueStays
    <3> QED
      BY <2>3, <3>2
  <2>7. Ents(b) # {} => p \in undo'
    <3>1. CASE \E j \in DOMAIN list : Adjusts(list, j)
      <4>1. PICK j \in DOMAIN list : Adjusts(list, j)
        BY <3>1
      <4>2. /\ p \in undo \/ Cardinality(undo) < semmnu
            /\ list[j].op \in -semaem .. semaem /\ Fits(id, list, j)
        BY <2>1, <4>1 DEF Done, semaoe
      <4>3. j <= k
        BY <2>0, <2>3
      <4>4. p \in undo \/ GetsUndo(p, id, list, k)
        BY <4>1, <4>2, <4>3 DEF GetsUndo
      <4> QED
        BY <1>1, <4>4
    <3>2. CASE \A j \in DOMAIN list : ~Adjusts(list, j)
      <4>1. Ents(b) = Ents(aoe[p])
        BY <2>5, <3>2 DEF Ents
      <4> QED
        BY <1>2, <4>1 DEF LimitInv, UndoKept
    <3> QED
      BY <3>1, <3>2
  <2>8. aoe'[p] = b /\ \A q \in Proc \ {p} : aoe'[q] = aoe[q]
    BY <2>3 DEF DataTypes
  <2>9. ASSUME NEW q \in Proc
        PROVE  UndoKept(q)'
    <3>1. Small(aoe'[q]) /\ (Ents(aoe'[q]) # {} => q \in undo')
      BY <1>2, <2>4, <2>7, <2>8 DEF LimitInv, UndoKept
    <3> QED
      BY <3>1 DEF UndoKept, Small, Ents
  <2> QED
    BY <1>2, <2>6, <2>9 DEF LimitInv, Within
<1> QED
  BY <1>3, <1>4 DEF Operate, Fail, Block

LEMMA LimitInvariance ==
  ASSUME CountsFit, PageFault = FALSE
  PROVE  Spec => [](CountInv /\ SetInv /\ DataInv /\ LimitInv)
<1>1. Init => LimitInv
  <2> SUFFICES ASSUME Init
               PROVE  LimitInv
    OBVIOUS
  <2>1. \A s \in Slot : Within(semval[s])
    BY ConstAssumption DEF Init, Within
  <2>2. IsFiniteSet(undo) /\ Cardinality(undo) <= semmnu
    BY FS_EmptySet, ConstAssumption DEF Init
  <2>3. ASSUME NEW q \in Proc
        PROVE  UndoKept(q)
    <3>1. Ents(aoe[q]) = {}
      BY DEF Init, Ents
    <3>2. \A e \in Id \X Num : aoe[q][e] \in -semaem .. semaem
      BY ConstAssumption DEF Init
    <3> QED
      BY <3>1, <3>2, FS_EmptySet, ConstAssumption DEF UndoKept, Small
  <2> QED
    BY <2>1, <2>2, <2>3 DEF LimitInv
<1>2. CountInv /\ SetInv /\ DataInv /\ LimitInv /\ [Next]_vars => LimitInv'
  <2> SUFFICES ASSUME CountInv, SetInv, DataInv, LimitInv, [Next]_vars
               PROVE  LimitInv'
    OBVIOUS
  <2>0. DataTypes
    BY DEF DataInv
  <2>1. CASE UNCHANGED vars
    BY <2>1, SameLimits DEF vars, semVars, undoVars
  <2>2. CASE Next
    <3>1. PICK p \in Proc :
            \/ semget(p) \/ RemoveSet(p) \/ SetVal(p) \/ SetAll(p)
            \/ Semop(p) \/ Again(p) \/ Removed(p) \/ FaultOver(p)
            \/ Interrupted(p) \/ Signal(p) \/ semexit(p)
      BY <2>2 DEF Next
    <3>2. CASE semget(p)
      BY <3>2, SemgetIs, SameLimits
    <3>3. CASE RemoveSet(p) \/ SetVal(p) \/ SetAll(p)
      BY <2>0, <3>3, CtlLimits
    <3>4. CASE Removed(p) \/ Interrupted(p) \/ Signal(p)
      <4>1. UNCHANGED <<semval, undo, aoe>>
        BY <3>4 DEF Removed, Interrupted, Signal, semVars, undoVars
      <4> QED
        BY <4>1, SameLimits
    <3>5. CASE semexit(p)
      BY <3>5, ExitLimits
    <3>6. CASE Semop(p) \/ Again(p) \/ FaultOver(p)
      <4>1. CASE UNCHANGED <<semVars, undoVars, procVars, settled>>
        BY <4>1, SameLimits DEF semVars, undoVars
      <4>2. CASE \E id, list : Calls(p, id, list)
        BY <2>0, <4>2, OperateLimits DEF Calls
      <4> QED
        BY <3>6, <4>1, <4>2, SemopIs
    <3> QED
      BY <3>1, <3>2, <3>3, <3>4, <3>5, <3>6
  <2> QED
    BY <2>1, <2>2
<1> QED
  BY <1>1, <1>2, DataInvariance, PTL DEF Spec

(* The tunables hold: semop tests each operation against the values and    *)
(* adjustments that the ones before it would leave, whatever list it is    *)
(* handed, and semaoe and semexit never overfill the undo structures.      *)
THEOREM LimitsHold ==
  ASSUME CountsFit, PageFault = FALSE
  PROVE  Spec => []WithinLimits
<1>1. LimitInv => WithinLimits
  <2> SUFFICES ASSUME LimitInv
               PROVE  WithinLimits
    OBVIOUS
  <2>1. \A s \in Slot : semval[s] \in 0 .. semvmx
    BY DEF LimitInv, Within
  <2>2. ASSUME NEW p \in Proc
        PROVE  LET ents == {e \in Id \X Num : aoe[p][e] # 0}
               IN  /\ Cardinality(ents) <= semume
                   /\ ents # {} => p \in undo
                   /\ \A e \in ents : aoe[p][e] \in -semaem .. semaem
    BY DEF LimitInv, UndoKept, Small, Ents
  <2> QED
    BY <2>1, <2>2 DEF LimitInv, WithinLimits
<1> QED
  BY <1>1, LimitInvariance, PTL

-----------------------------------------------------------------------------
(* What the processes owe to a semaphore. *)
DueTo(e) == [q \in Proc |-> aoe[q][e]]
Owed(e) == SumFunctionOnSet(DueTo(e), Proc)

BalanceInv ==
  \A e \in Id \X Num : Live(e) => semval[SlotAt(e)] + Owed(e) = settled[SlotAt(e)]

LEMMA OwedIs ==
  ASSUME IsFiniteSet(Proc), DataTypes, NEW e \in Id \X Num
  PROVE  Owed(e) \in Int
<1>1. \A q \in Proc : DueTo(e)[q] \in Int
  BY DEF DueTo, DataTypes
<1> QED
  BY <1>1, SumType DEF Owed

LEMMA OwedSame ==
  ASSUME IsFiniteSet(Proc), DataTypes, NEW e \in Id \X Num,
         \A q \in Proc : aoe'[q][e] = aoe[q][e]
  PROVE  Owed(e)' = Owed(e)
<1> DEFINE f == DueTo(e)
           g == [q \in Proc |-> aoe'[q][e]]
<1>1. \A q \in Proc : f[q] = g[q] /\ f[q] \in Int
  BY DEF DueTo, DataTypes
<1>2. Owed(e)' = SumFunctionOnSet(g, Proc) /\ Owed(e) = SumFunctionOnSet(f, Proc)
  BY DEF Owed, DueTo
<1> HIDE DEF f, g
<1>3. SumFunctionOnSet(f, Proc) = SumFunctionOnSet(g, Proc)
  BY <1>1, SumSame
<1> QED
  BY <1>2, <1>3

LEMMA OwedNone ==
  ASSUME IsFiniteSet(Proc), NEW e \in Id \X Num, \A q \in Proc : aoe[q][e] = 0
  PROVE  Owed(e) = 0
<1> DEFINE f == DueTo(e)
<1>1. \A q \in Proc : f[q] = 0
  BY DEF DueTo
<1>2. Owed(e) = SumFunctionOnSet(f, Proc)
  BY DEF Owed
<1> HIDE DEF f
<1> QED
  BY <1>1, <1>2, SumZero

LEMMA OwedGone ==
  ASSUME IsFiniteSet(Proc), NEW e \in Id \X Num, \A q \in Proc : aoe'[q][e] = 0
  PROVE  Owed(e)' = 0
<1> DEFINE g == [q \in Proc |-> aoe'[q][e]]
<1>1. \A q \in Proc : g[q] = 0
  OBVIOUS
<1>2. Owed(e)' = SumFunctionOnSet(g, Proc)
  BY DEF Owed, DueTo
<1> HIDE DEF g
<1> QED
  BY <1>1, <1>2, SumZero

(* The adjustment of one process changes. *)
LEMMA OwedMoves ==
  ASSUME IsFiniteSet(Proc), DataTypes, DataTypes', NEW e \in Id \X Num, NEW p \in Proc,
         \A q \in Proc \ {p} : aoe'[q][e] = aoe[q][e]
  PROVE  Owed(e)' = Owed(e) + (aoe'[p][e] - aoe[p][e])
<1> DEFINE f == DueTo(e)
           g == [q \in Proc |-> aoe'[q][e]]
           S == Proc \ {p}
<1>1. (\A q \in Proc : f[q] \in Int /\ g[q] \in Int) /\ \A q \in S : f[q] = g[q]
  BY DEF DueTo, DataTypes
<1>2. Owed(e)' = SumFunctionOnSet(g, Proc) /\ Owed(e) = SumFunctionOnSet(f, Proc)
  BY DEF Owed, DueTo
<1>3. f[p] = aoe[p][e] /\ g[p] = aoe'[p][e]
  BY DEF DueTo
<1>4. IsFiniteSet(S) /\ S \subseteq Proc
  BY FS_Subset
<1> HIDE DEF f, g
<1>5. /\ SumFunctionOnSet(f, Proc) = f[p] + SumFunctionOnSet(f, S)
      /\ SumFunctionOnSet(g, Proc) = g[p] + SumFunctionOnSet(g, S)
  BY <1>1, SumAdd
<1> HIDE DEF S
<1>6. SumFunctionOnSet(f, S) = SumFunctionOnSet(g, S) /\ SumFunctionOnSet(f, S) \in Int
  BY <1>1, <1>4, SumSame, SumType
<1> QED
  BY <1>1, <1>2, <1>3, <1>5, <1>6

(* A slot that a list names is that of one semaphore. *)
LEMMA NamedApart ==
  ASSUME SetTypes, Apart, NEW e \in Id \X Num, Live(e), NEW id \in Id, semconv(id),
         NEW n \in Int, SlotOf(id, n) \in SlotsOf(HdrOf(id)), SlotOf(id, n) = SlotAt(e)
  PROVE  <<id, n>> = e
<1>1. /\ e[1] \in Id /\ e[2] \in Int /\ HdrOf(e[1]) \in Hdr /\ HdrOf(id) \in Hdr
      /\ e = <<e[1], e[2]>>
  BY IdParts, ConstAssumption DEF Num
<1>2. HdrOf(e[1]) = HdrOf(id)
  BY <1>1, LiveSlot DEF Apart, SlotAt
<1>3. e[1] = id
  BY <1>1, <1>2, SameId DEF Live
<1>4. PICK b \in Int : b = sema[HdrOf(id)].base
  BY <1>1 DEF SetTypes
<1>5. PICK m \in Int : m = e[2]
  BY <1>1
<1>6. b + n = b + m
  BY <1>3, <1>4, <1>5 DEF SlotOf, SlotAt
<1>7. n = m
  BY <1>6
<1> QED
  BY <1>1, <1>3, <1>5, <1>7

LEMMA SlotsSame ==
  ASSUME UNCHANGED sema
  PROVE  \A e : SlotAt(e)' = SlotAt(e) /\ (Live(e)' <=> Live(e))
BY SameSets DEF SlotAt, SlotOf

LEMMA SameBalance ==
  ASSUME IsFiniteSet(Proc), DataTypes, BalanceInv, UNCHANGED <<sema, semval, settled, aoe>>
  PROVE  BalanceInv'
<1>1. \A e \in Id \X Num : Owed(e)' = Owed(e)
  BY OwedSame
<1>2. \A e : SlotAt(e)' = SlotAt(e) /\ (Live(e)' <=> Live(e))
  BY SlotsSame
<1> QED
  BY <1>1, <1>2 DEF BalanceInv

LEMMA SemgetBalance ==
  ASSUME IsFiniteSet(Proc), SetInv, DataInv, BalanceInv, NEW p, semget(p)
  PROVE  BalanceInv'
<1>0. SetTypes /\ Apart /\ DataTypes /\ Kept /\ FreeIsNew
  BY DEF SetInv, DataInv
<1>1. PICK h, n, i : Makes(h, n, i)
  BY SemgetIs
<1>2. UNCHANGED <<semval, semncnt, semzcnt, undo, aoe, settled>>
  BY SemgetIs
<1>3. /\ h \in Hdr /\ ~sema[h].alloc /\ i .. i + n - 1 \subseteq FreeSlots
      /\ SlotsOf(h)' = i .. i + n - 1
      /\ \A g \in Hdr \ {h} : sema'[g] = sema[g] /\ SlotsOf(g)' = SlotsOf(g)
  BY <1>0, <1>1, MakesIs DEF Makes
<1>4. /\ sema' \in [Hdr -> [alloc : BOOLEAN, seq : 0 .. MaxSeq, base : Int, nsems : Nat]]
      /\ sema'[h].alloc
  BY <1>0, <1>1, MakesIs
<1> SUFFICES ASSUME NEW e \in Id \X Num, Live(e)'
             PROVE  semval'[SlotAt(e)'] + Owed(e)' = settled'[SlotAt(e)']
  BY DEF BalanceInv
<1>5. Owed(e)' = Owed(e)
  BY <1>0, <1>2, OwedSame
<1>6. PICK g \in Hdr : g = HdrOf(e[1])
  BY IdParts
<1>7. CASE g # h
  <2>1. SlotAt(e)' = SlotAt(e) /\ Live(e)
    BY <1>3, <1>6, <1>7 DEF SlotAt, SlotOf, Live, semconv
  <2> QED
    BY <2>1, <1>2, <1>5 DEF BalanceInv
<1>8. CASE g = h
  <2>1. ~Live(e)
    BY <1>3, <1>6, <1>8 DEF Live, semconv
  <2>2. Owed(e) = 0
    BY <2>1, <1>0, OwedNone DEF Kept
  <2>3. SlotAt(e)' \in FreeSlots
    <3>1. PICK m \in Nat : m = e[2]
      BY ConstAssumption DEF Num
    <3>2. PICK b \in Int, k \in Nat : b = sema'[h].base /\ k = sema'[h].nsems
      BY <1>3, <1>4
    <3>3. m < k
      BY <3>1, <3>2, <1>6, <1>8 DEF Live, HdrOf
    <3>4. SlotsOf(h)' = b .. b + k - 1
      BY <3>2, <1>4 DEF SlotsOf
    <3>5. SlotAt(e)' = b + m
      BY <3>1, <3>2, <1>6, <1>8 DEF SlotAt, SlotOf, HdrOf
    <3>6. b + m \in b .. b + k - 1
      BY <3>3
    <3> QED
      BY <3>4, <3>5, <3>6, <1>3
  <2>4. PICK s : s = SlotAt(e)'
    OBVIOUS
  <2>5. semval'[s] = 0 /\ settled'[s] = 0
    BY <2>3, <2>4, <1>0, <1>2 DEF FreeIsNew
  <2> QED
    BY <2>2, <2>4, <2>5, <1>5
<1> QED
  BY <1>7, <1>8

LEMMA RemoveSetBalance ==
  ASSUME IsFiniteSet(Proc), SetInv, DataInv, BalanceInv, NEW id, Removes(id)
  PROVE  BalanceInv'
<1>0. SetTypes /\ Apart /\ DataTypes
  BY DEF SetInv, DataInv
<1>1. PICK h : h = HdrOf(id)
  OBVIOUS
<1>2. /\ h \in Hdr /\ id \in Id /\ ~sema'[h].alloc
      /\ \A g \in Hdr \ {h} : sema'[g] = sema[g] /\ SlotsOf(g)' = SlotsOf(g)
  BY <1>0, <1>1, RemovesIs DEF Removes
<1>3. /\ semunrm(id, 0, sema[h].nsems)
      /\ semval' = ZeroAt(semval, SlotsOf(h))
      /\ settled' = ZeroAt(settled, SlotsOf(h))
  BY <1>1 DEF Removes
<1> SUFFICES ASSUME NEW e \in Id \X Num, Live(e)'
             PROVE  semval'[SlotAt(e)'] + Owed(e)' = settled'[SlotAt(e)']
  BY DEF BalanceInv
<1>4. PICK g \in Hdr : g = HdrOf(e[1])
  BY IdParts
<1>5. g # h
  BY <1>2, <1>4 DEF Live, semconv
<1>6. SlotAt(e)' = SlotAt(e) /\ Live(e)
  BY <1>2, <1>4, <1>5 DEF SlotAt, SlotOf, Live, semconv
<1>7. SlotAt(e) \in Slot /\ SlotAt(e) \notin SlotsOf(h)
  BY <1>0, <1>2, <1>4, <1>5, <1>6, LiveSlot DEF SlotAt, Apart
<1>8. semval'[SlotAt(e)] = semval[SlotAt(e)] /\ settled'[SlotAt(e)] = settled[SlotAt(e)]
  BY <1>3, <1>7 DEF ZeroAt
<1>9. \A q \in Proc : aoe'[q][e] = aoe[q][e]
  <2>1. e[1] # id
    BY <1>1, <1>4, <1>5
  <2> QED
    BY <2>1, <1>3, UnrmIs DEF Names
<1>10. Owed(e)' = Owed(e)
  BY <1>0, <1>9, OwedSame
<1> QED
  BY <1>6, <1>8, <1>10 DEF BalanceInv

LEMMA SetValBalance ==
  ASSUME IsFiniteSet(Proc), SetInv, DataInv, BalanceInv, NEW id, NEW num, NEW v,
         Sets(id, num, v)
  PROVE  BalanceInv'
<1>0. SetTypes /\ Apart /\ DataTypes
  BY DEF SetInv, DataInv
<1>1. PICK f \in Id \X Num : f = <<id, num>>
  BY DEF Sets
<1>2. /\ Live(f) /\ f[1] = id /\ f[2] = num
      /\ semval' = [semval EXCEPT ![SlotAt(f)] = v]
      /\ settled' = [settled EXCEPT ![SlotAt(f)] = v]
      /\ semunrm(id, num, num) /\ UNCHANGED sema /\ num \in Int /\ v \in Int
  BY <1>1, ConstAssumption DEF Sets, Live, SlotAt, Num
<1>3. \A e \in Id \X Num : \A q \in Proc :
        aoe'[q][e] = IF e = f THEN 0 ELSE aoe[q][e]
  <2>1. \A e \in Id \X Num : Names(e, id, num, num) <=> e = f
    <3> SUFFICES ASSUME NEW e \in Id \X Num
                 PROVE  Names(e, id, num, num) <=> e = f
      OBVIOUS
    <3>1. PICK m \in Int : m = e[2]
      BY ConstAssumption DEF Num
    <3>2. m \in num .. num <=> m = num
      BY <1>2
    <3> QED
      BY <3>1, <3>2, <1>1, <1>2 DEF Names
  <2> QED
    BY <2>1, <1>2, UnrmIs
<1> SUFFICES ASSUME NEW e \in Id \X Num, Live(e)
             PROVE  semval'[SlotAt(e)] + Owed(e)' = settled'[SlotAt(e)]
  BY <1>2, SlotsSame DEF BalanceInv
<1>4. PICK s \in Slot : s = SlotAt(e)
  BY <1>0, LiveSlot DEF SlotAt
<1>5. CASE e = f
  <2>1. Owed(e)' = 0
    BY <1>3, <1>5, OwedGone
  <2>2. semval'[s] = v /\ settled'[s] = v
    BY <1>0, <1>2, <1>4, <1>5 DEF DataTypes
  <2> QED
    BY <2>1, <2>2, <1>2, <1>4
<1>6. CASE e # f
  <2>1. Owed(e)' = Owed(e)
    BY <1>0, <1>3, <1>6, OwedSame
  <2>2. s # SlotAt(f)
    BY <1>0, <1>2, <1>4, <1>6, LiveApart DEF SlotAt
  <2>3. semval'[s] = semval[s] /\ settled'[s] = settled[s]
    BY <2>2, <1>0, <1>2, <1>4 DEF DataTypes
  <2> QED
    BY <2>1, <2>3, <1>4 DEF BalanceInv
<1> QED
  BY <1>5, <1>6

LEMMA SetAllBalance ==
  ASSUME IsFiniteSet(Proc), SetInv, DataInv, BalanceInv, NEW id, NEW new, SetsAll(id, new)
  PROVE  BalanceInv'
<1>0. SetTypes /\ Apart /\ DataTypes
  BY DEF SetInv, DataInv
<1>1. PICK h \in Hdr : h = HdrOf(id)
  BY IdParts DEF SetsAll
<1>2. PICK own : own = SlotsOf(h)
  OBVIOUS
<1>3. PICK n \in Nat : n = sema[h].nsems
  BY <1>0 DEF SetTypes
<1>4. /\ id \in Id /\ semconv(id) /\ new \in [own -> 0 .. semvmx]
      /\ semval' = [s \in Slot |-> IF s \in own THEN new[s] ELSE semval[s]]
      /\ settled' = [s \in Slot |-> IF s \in own THEN new[s] ELSE settled[s]]
      /\ semunrm(id, 0, n) /\ UNCHANGED sema
  BY <1>1, <1>2, <1>3 DEF SetsAll
<1> SUFFICES ASSUME NEW e \in Id \X Num, Live(e)
             PROVE  semval'[SlotAt(e)] + Owed(e)' = settled'[SlotAt(e)]
  BY <1>4, SlotsSame DEF BalanceInv
<1>5. PICK s \in Slot : s = SlotAt(e) /\ s \in SlotsOf(HdrOf(e[1]))
  BY <1>0, LiveSlot DEF SlotAt
<1>6. CASE e[1] = id
  <2>1. Names(e, id, 0, n)
    <3>1. PICK m \in Nat : m = e[2]
      BY ConstAssumption DEF Num
    <3>2. m < n
      BY <3>1, <1>1, <1>3, <1>6 DEF Live
    <3>3. m \in 0 .. n
      BY <3>2
    <3> QED
      BY <3>1, <3>3, <1>6 DEF Names
  <2>2. Owed(e)' = 0
    BY <2>1, <1>4, UnrmIs, OwedGone
  <2>3. s \in own
    BY <1>1, <1>2, <1>5, <1>6
  <2>4. new[s] \in Int
    BY <2>3, <1>4, ConstAssumption
  <2>5. semval'[s] = new[s] /\ settled'[s] = new[s]
    BY <2>3, <1>4
  <2> QED
    BY <2>2, <2>4, <2>5, <1>5
<1>7. CASE e[1] # id
  <2>1. \A q \in Proc : aoe'[q][e] = aoe[q][e]
    BY <1>4, <1>7, UnrmIs DEF Names
  <2>2. Owed(e)' = Owed(e)
    BY <2>1, <1>0, OwedSame
  <2>3. e[1] \in Id /\ HdrOf(e[1]) \in Hdr /\ HdrOf(e[1]) # h
    BY <1>1, <1>4, <1>7, SameId, IdParts DEF Live
  <2>4. s \notin own
    BY <2>3, <1>0, <1>2, <1>5 DEF Apart
  <2>5. semval'[s] = semval[s] /\ settled'[s] = settled[s]
    BY <2>4, <1>4
  <2> QED
    BY <2>2, <2>5, <1>5 DEF BalanceInv
<1> QED
  BY <1>6, <1>7

(* The operations on a semaphore are those with SEM_UNDO and the others. *)
LEMMA OnIs ==
  ASSUME SetTypes, Apart, NEW id \in Id, NEW list \in Lists, Holds(id, list),
         NEW e \in Id \X Num, Live(e)
  PROVE  LET n == Len(list)
             s == SlotAt(e)
         IN  /\ Part(list, On(id, list, s), n) \in Int
             /\ Part(list, Plain(id, list, s), n) \in Int
             /\ Part(list, For(id, list, e), n) \in Int
             /\ Part(list, On(id, list, s), n)
                  = Part(list, Plain(id, list, s), n) + Part(list, For(id, list, e), n)
<1> DEFINE n == Len(list)
           s == SlotAt(e)
           A == {i \in 1 .. n : i \in Plain(id, list, s)}
           B == {i \in 1 .. n : i \in For(id, list, e)}
           C == {i \in 1 .. n : i \in On(id, list, s)}
<1>0. /\ n \in Nat /\ DOMAIN list = 1 .. n /\ n \in 0 .. Len(list)
      /\ \A i \in DOMAIN list : list[i].num \in Int
  BY ListIs
<1>1. \A i \in DOMAIN list : SlotOf(id, list[i].num) \in SlotsOf(HdrOf(id))
  BY NamedSlot
<1>2. semconv(id)
  BY DEF Holds
<1>3. \A i \in DOMAIN list : SlotOf(id, list[i].num) = s <=> <<id, list[i].num>> = e
  <2> SUFFICES ASSUME NEW i \in DOMAIN list
               PROVE  SlotOf(id, list[i].num) = s <=> <<id, list[i].num>> = e
    OBVIOUS
  <2> DEFINE m == list[i].num
  <2>1. m \in Int /\ SlotOf(id, m) \in SlotsOf(HdrOf(id))
    BY <1>0, <1>1
  <2>2. <<id, m>> = e => SlotOf(id, m) = s
    BY DEF SlotAt
  <2> HIDE DEF m
  <2>3. SlotOf(id, m) = s => <<id, m>> = e
    BY <2>1, <1>2, NamedApart
  <2> QED
    BY <2>2, <2>3 DEF m
<1>4. A \cap B = {} /\ A \cup B = C
  BY <1>0, <1>3 DEF Plain, On, For
<1>5. A \in SUBSET DOMAIN list /\ B \in SUBSET DOMAIN list /\ C \in SUBSET DOMAIN list
  BY <1>0
<1>6. /\ Part(list, On(id, list, s), n) = Net(list, C)
      /\ Part(list, Plain(id, list, s), n) = Net(list, A)
      /\ Part(list, For(id, list, e), n) = Net(list, B)
  BY DEF Part
<1> HIDE DEF A, B, C
<1>7. Net(list, A \cup B) = Net(list, A) + Net(list, B)
  BY <1>4, <1>5, NetSplit
<1>8. Net(list, A) \in Int /\ Net(list, B) \in Int /\ Net(list, C) \in Int
  BY <1>5, NetIs
<1> QED
  BY <1>4, <1>6, <1>7, <1>8

LEMMA SucceedBalance ==
  ASSUME IsFiniteSet(Proc), SetInv, DataInv, DataInv', BalanceInv, NEW p \in Proc,
         NEW id \in Id, NEW list \in Lists, Holds(id, list), Succeed(p, id, list),
         UNCHANGED sema
  PROVE  BalanceInv'
<1>0. SetTypes /\ Apart /\ DataTypes /\ DataTypes'
  BY DEF SetInv, DataInv
<1> SUFFICES ASSUME NEW e \in Id \X Num, Live(e)
             PROVE  semval'[SlotAt(e)] + Owed(e)' = settled'[SlotAt(e)]
  BY SlotsSame DEF BalanceInv
<1> DEFINE n == Len(list)
<1>1. PICK s \in Slot : s = SlotAt(e)
  BY <1>0, LiveSlot DEF SlotAt
<1>2. PICK a \in Int, b \in Int, c \in Int :
        /\ a = Part(list, On(id, list, s), n)
        /\ b = Part(list, Plain(id, list, s), n)
        /\ c = Part(list, For(id, list, e), n)
        /\ a = b + c
  BY <1>0, <1>1, OnIs
<1>3. /\ semval'[s] = semval[s] + Part(list, On(id, list, s), n)
      /\ settled'[s] = settled[s] + Part(list, Plain(id, list, s), n)
  BY <1>0, SucceedIs
<1>4. \A q \in Proc :
        aoe'[q][e] = IF q = p THEN aoe[q][e] - Part(list, For(id, list, e), n)
                              ELSE aoe[q][e]
  BY <1>0, SucceedIs
<1>5. Owed(e)' = Owed(e) + (aoe'[p][e] - aoe[p][e])
  BY <1>0, <1>4, OwedMoves
<1>6. aoe'[p][e] = aoe[p][e] - c
  BY <1>2, <1>4
<1>7. aoe[p][e] \in Int /\ Owed(e) \in Int /\ semval[s] \in Int /\ settled[s] \in Int
  BY <1>0, OwedIs DEF DataTypes
<1>8. semval[s] + Owed(e) = settled[s]
  BY <1>1 DEF BalanceInv
<1>9. semval'[s] = semval[s] + a /\ settled'[s] = settled[s] + b
  BY <1>2, <1>3
<1> HIDE DEF n
<1>10. Owed(e)' = Owed(e) - c
  BY <1>2, <1>5, <1>6, <1>7
<1>11. semval'[s] + Owed(e)' = settled'[s]
  BY <1>2, <1>7, <1>8, <1>9, <1>10
<1> QED
  BY <1>1, <1>11

LEMMA ExitBalance ==
  ASSUME IsFiniteSet(Proc), SetInv, DataInv, DataInv', BalanceInv, NEW p \in Proc,
         semexit(p)
  PROVE  BalanceInv'
<1>0. SetTypes /\ Apart /\ Kept /\ DataTypes /\ DataTypes' /\ UNCHANGED sema
  BY ExitDoes DEF SetInv, DataInv
<1> SUFFICES ASSUME NEW e \in Id \X Num, Live(e)
             PROVE  semval'[SlotAt(e)] + Owed(e)' = settled'[SlotAt(e)]
  BY <1>0, SlotsSame DEF BalanceInv
<1>1. PICK s \in Slot : s = SlotAt(e)
  BY <1>0, LiveSlot DEF SlotAt
<1>2. PICK a \in Int : a = aoe[p][e]
  BY <1>0 DEF DataTypes
<1>3. \A q \in Proc : aoe'[q][e] = IF q = p THEN 0 ELSE aoe[q][e]
  BY <1>0, ExitIs
<1>4. Owed(e)' = Owed(e) + (aoe'[p][e] - aoe[p][e])
  BY <1>0, <1>3, OwedMoves
<1>5. Owed(e) \in Int /\ semval[s] \in Int /\ settled[s] \in Int
  BY <1>0, OwedIs DEF DataTypes
<1>6. Owed(e)' = Owed(e) - a
  BY <1>2, <1>3, <1>4, <1>5
<1>7. semval[s] + Owed(e) = settled[s]
  BY <1>1 DEF BalanceInv
<1>8. \/ a = 0 /\ semval'[s] = semval[s] /\ settled'[s] = settled[s]
      \/ semval'[s] = semval[s] + a /\ settled'[s] = settled[s]
      \/ semval'[s] = semval[s] /\ settled'[s] = settled[s] - a
  <2>1. CASE e \in Made(p)
    <3>1. \A f \in Made(p) : /\ semval'[SlotAt(f)] = semval[SlotAt(f)] + aoe[p][f]
                             /\ settled'[SlotAt(f)] = settled[SlotAt(f)]
      BY <1>0, ExitIs
    <3> QED
      BY <3>1, <2>1, <1>1, <1>2
  <2>2. CASE e \in Dues(p) \ Made(p)
    <3>1. \A f \in Dues(p) \ Made(p) :
            /\ semval'[SlotAt(f)] = semval[SlotAt(f)]
            /\ settled'[SlotAt(f)] = settled[SlotAt(f)] - aoe[p][f]
      BY <1>0, ExitIs
    <3> QED
      BY <3>1, <2>2, <1>1, <1>2
  <2>3. CASE e \notin Dues(p)
    <3>1. a = 0
      BY <2>3, <1>2 DEF Dues, Live
    <3>2. ASSUME NEW f \in Dues(p), s = SlotAt(f)
          PROVE  FALSE
      <4>1. f \in Id \X Num /\ Live(f)
        BY <1>0, DuesAre DEF Dues
      <4>2. e = f
        BY <4>1, <3>2, <1>0, <1>1, LiveApart DEF SlotAt
      <4> QED
        BY <4>2, <2>3
    <3>3. s \notin Paid(Dues(p))
      BY <3>2 DEF Paid
    <3>4. \A t \in Slot \ Paid(Dues(p)) : semval'[t] = semval[t] /\ settled'[t] = settled[t]
      BY <1>0, ExitIs
    <3> QED
      BY <3>1, <3>3, <3>4
  <2> QED
    BY <2>1, <2>2, <2>3
<1>9. semval'[s] + Owed(e)' = settled'[s]
  BY <1>2, <1>5, <1>6, <1>7, <1>8
<1> QED
  BY <1>1, <1>9

LEMMA BalanceInvariance ==
  ASSUME CountsFit, PageFault = FALSE
  PROVE  Spec => [](SetInv /\ BalanceInv)
<1>0. IsFiniteSet(Proc)
  BY DEF CountsFit
<1>1. Init => BalanceInv
  <2> SUFFICES ASSUME Init, NEW e \in Id \X Num
               PROVE  ~Live(e)
    BY DEF BalanceInv
  <2>1. HdrOf(e[1]) \in Hdr
    BY IdParts
  <2>2. \A h \in Hdr : ~sema[h].alloc
    BY DEF Init
  <2> QED
    BY <2>1, <2>2 DEF Live, semconv
<1>2. CountInv /\ SetInv /\ DataInv /\ DataInv' /\ BalanceInv /\ [Next]_vars => BalanceInv'
  <2> SUFFICES ASSUME CountInv, SetInv, DataInv, DataInv', BalanceInv, [Next]_vars
               PROVE  BalanceInv'
    OBVIOUS
  <2>0. UNCHANGED <<sema, semval, settled, aoe>> => BalanceInv'
    BY <1>0, SameBalance DEF DataInv
  <2>1. CASE UNCHANGED vars
    BY <2>0, <2>1 DEF vars, semVars, undoVars
  <2>2. CASE Next
    <3>1. PICK p \in Proc :
            \/ semget(p) \/ RemoveSet(p) \/ SetVal(p) \/ SetAll(p)
            \/ Semop(p) \/ Again(p) \/ Removed(p) \/ FaultOver(p)
            \/ Interrupted(p) \/ Signal(p) \/ semexit(p)
      BY <2>2 DEF Next
    <3>2. CASE semget(p)
      BY <1>0, <3>2, SemgetBalance
    <3>3. CASE RemoveSet(p)
      BY <1>0, <3>3, RemoveSetIs, RemoveSetBalance
    <3>4. CASE SetVal(p)
      BY <1>0, <3>4, SetValIs, SetValBalance
    <3>5. CASE SetAll(p)
      BY <1>0, <3>5, SetAllIs, SetAllBalance
    <3>6. CASE Removed(p) \/ Interrupted(p) \/ Signal(p)
      BY <2>0, <3>6 DEF Removed, Interrupted, Signal, semVars, undoVars
    <3>7. CASE semexit(p)
      BY <1>0, <3>7, ExitBalance
    <3>8. CASE Semop(p) \/ Again(p) \/ FaultOver(p)
      <4>1. CASE UNCHANGED <<semVars, undoVars, procVars, settled>>
        BY <2>0, <4>1 DEF semVars, undoVars
      <4>2. CASE \E id, list : Calls(p, id, list)
        <5>1. PICK id, list : Calls(p, id, list)
          BY <4>2
        <5>2. /\ id \in Id /\ list \in Lists /\ Holds(id, list)
              /\ UNCHANGED <<sema, sig>>
              /\ \/ Succeed(p, id, list) \/ Fail(p, id, list)
                 \/ Block(p, id, list, list)
          BY <5>1 DEF Calls, Operate
        <5>3. CASE Succeed(p, id, list)
          BY <1>0, <5>2, <5>3, SucceedBalance
        <5>4. CASE Fail(p, id, list) \/ Block(p, id, list, list)
          BY <2>0, <5>2, <5>4 DEF Fail, Block
        <5> QED
          BY <5>2, <5>3, <5>4
      <4> QED
        BY <3>8, <4>1, <4>2, SemopIs
    <3> QED
      BY <3>1, <3>2, <3>3, <3>4, <3>5, <3>6, <3>7, <3>8
  <2> QED
    BY <2>1, <2>2
<1> QED
  BY <1>1, <1>2, DataInvariance, PTL DEF Spec

(* SEM_UNDO loses and invents nothing: at any time, what the processes     *)
(* would give back at exit brings each semaphore to where the operations   *)
(* without SEM_UNDO and SETVAL, SETALL put it, whichever lists failed,     *)
(* waited or were interrupted on the way.                                  *)
THEOREM UndoIsExact ==
  ASSUME CountsFit, PageFault = FALSE
  PROVE  Spec => []UndoBalances
<1>1. SetInv /\ BalanceInv => UndoBalances
  <2> SUFFICES ASSUME SetInv, BalanceInv, NEW h \in Hdr, NEW num \in Num,
                      sema[h].alloc, num < sema[h].nsems,
                      NEW id, id = sema[h].seq * semmni + h
               PROVE  semval[sema[h].base + num]
                        + SumFunction([p \in Proc |-> aoe[p][<<id, num>>]])
                      = settled[sema[h].base + num]
    BY DEF UndoBalances
  <2>1. id \in Id /\ semconv(id) /\ HdrOf(id) = h
    BY CurrentId DEF SetInv
  <2>2. PICK e \in Id \X Num : e = <<id, num>>
    BY <2>1
  <2>3. Live(e) /\ SlotAt(e) = sema[h].base + num
    BY <2>1, <2>2 DEF Live, SlotAt, SlotOf
  <2>4. DueTo(e) = [p \in Proc |-> aoe[p][<<id, num>>]]
    BY <2>2 DEF DueTo
  <2>5. SumFunction(DueTo(e)) = Owed(e)
    <3>1. DOMAIN DueTo(e) = Proc
      BY DEF DueTo
    <3> QED
      BY <3>1 DEF SumFunction, Owed
  <2> QED
    BY <2>3, <2>4, <2>5 DEF BalanceInv
<1> QED
  BY <1>1, BalanceInvariance, PTL

-----------------------------------------------------------------------------
(* What holds a sleeper back: the operation at which it stopped. *)
Awaits(o, k, v) == IF k = "n" THEN o.op < 0 /\ v < -o.op ELSE o.op = 0 /\ v # 0

HeldBack(q) ==
  \E j \in DOMAIN call[q].ops :
    /\ SlotOf(call[q].id, call[q].ops[j].num) = wchan[q][2]
    /\ Awaits(call[q].ops[j], wchan[q][1], semval[wchan[q][2]])

HeldInv == \A q \in Proc : wchan[q] # NoChan => HeldBack(q)

(* Whoever raises a value resets and wakes those that await more, and      *)
(* whoever takes it to zero those that await zero.                         *)
Eases(ns, zs) ==
  \A s \in Slot :
    /\ semval'[s] > semval[s] => s \in ns
    /\ semval'[s] = 0 /\ semval[s] # 0 => s \in zs

(* A sleeper on its channel: which one it is, and its list. *)
LEMMA SleeperIs ==
  ASSUME CountInv, SetInv, NEW q \in Proc, wchan[q] # NoChan
  PROVE  /\ \E k \in {"n", "z"} : \E s \in Slot : wchan[q] = <<k, s>>
         /\ CountAt(wchan[q]) > 0
         /\ call[q].id \in Id /\ call[q].ops \in Lists /\ semconv(call[q].id)
         /\ Holds(call[q].id, call[q].ops)
<1>0. Asleep /\ Counted /\ Grounds /\ Belongs /\ Apart /\ SetTypes
  BY DEF CountInv, SetInv
<1>1. pc[q] = "slept" /\ call[q].semp = wchan[q] /\ semconv(call[q].id)
  BY <1>0 DEF Asleep, Belongs
<1>2. Grounded(q)
  BY <1>0, <1>1 DEF Grounds
<1>3. HdrOf(call[q].id) \in Hdr /\ call[q].id \in Id /\ call[q].ops \in Lists
  BY <1>2, IdParts DEF Grounded
<1>4. ~(call[q].id \div semmni < sema[HdrOf(call[q].id)].seq)
  <2>1. sema[HdrOf(call[q].id)].seq \in Int
    BY <1>0, <1>3 DEF SetTypes
  <2> QED
    BY <2>1, <1>1 DEF semconv
<1>5. /\ Holds(call[q].id, call[q].ops)
      /\ call[q].semp[2] \in SlotsOf(HdrOf(call[q].id))
  BY <1>2, <1>4 DEF Grounded
<1>6. PICK k \in {"n", "z"} : \E s : call[q].semp = <<k, s>>
  BY <1>0, <1>1 DEF Asleep
<1>7. PICK s : call[q].semp = <<k, s>>
  BY <1>6
<1>8. s \in Slot
  BY <1>0, <1>3, <1>5, <1>7 DEF Apart
<1>9. wchan[q] = <<k, s>> /\ wchan[q] \in Counter
  BY <1>1, <1>7, <1>8 DEF Counter
<1> QED
  BY <1>0, <1>1, <1>3, <1>5, <1>8, <1>9 DEF Counted

(* Who still sleeps after a reset slept on a counter that was not reset. *)
LEMMA StillAsleep ==
  ASSUME CountInv, SetInv, NEW ns, NEW zs, NEW w, w = Woken(wchan, Reset(ns, zs)),
         NEW q \in Proc, w[q] # NoChan
  PROVE  /\ w[q] = wchan[q] /\ wchan[q] # NoChan
         /\ \E k \in {"n", "z"} : \E s \in Slot :
              /\ wchan[q] = <<k, s>>
              /\ IF k = "n" THEN s \notin ns ELSE s \notin zs
<1>1. w[q] = wchan[q] /\ wchan[q] # NoChan /\ wchan[q] \notin Reset(ns, zs)
  BY WokenIs
<1>2. PICK k \in {"n", "z"} : \E s \in Slot : wchan[q] = <<k, s>>
  BY <1>1, SleeperIs
<1>3. PICK s \in Slot : wchan[q] = <<k, s>>
  BY <1>2
<1>4. IF k = "n" THEN semncnt[s] > 0 ELSE semzcnt[s] > 0
  BY <1>1, <1>3, SleeperIs DEF CountAt
<1>5. IF k = "n" THEN s \notin ns ELSE s \notin zs
  BY <1>1, <1>3, <1>4 DEF Reset
<1> QED
  BY <1>1, <1>3, <1>5

LEMMA EasesKeeps ==
  ASSUME CountInv, SetInv, DataTypes, semval' \in [Slot -> Int], HeldInv,
         NEW ns, NEW zs, Eases(ns, zs), NEW q \in Proc,
         NEW w, w = Woken(wchan, Reset(ns, zs)), w[q] # NoChan,
         wchan'[q] = w[q], call'[q] = call[q],
         sema'[HdrOf(call[q].id)].base = sema[HdrOf(call[q].id)].base
  PROVE  HeldBack(q)'
<1>1. /\ wchan'[q] = wchan[q] /\ wchan[q] # NoChan
      /\ \E k \in {"n", "z"} : \E s \in Slot :
           /\ wchan[q] = <<k, s>>
           /\ IF k = "n" THEN s \notin ns ELSE s \notin zs
  BY StillAsleep
<1>2. PICK k \in {"n", "z"} : \E s \in Slot :
        /\ wchan[q] = <<k, s>>
        /\ IF k = "n" THEN s \notin ns ELSE s \notin zs
  BY <1>1
<1>3. PICK s \in Slot : /\ wchan[q] = <<k, s>>
                        /\ IF k = "n" THEN s \notin ns ELSE s \notin zs
  BY <1>2
<1>4. HeldBack(q) /\ call[q].ops \in Lists
  BY <1>1, SleeperIs DEF HeldInv
<1>5. PICK j \in DOMAIN call[q].ops :
        /\ SlotOf(call[q].id, call[q].ops[j].num) = s
        /\ Awaits(call[q].ops[j], k, semval[s])
  BY <1>3, <1>4 DEF HeldBack
<1>6. PICK o \in Int : o = call[q].ops[j].op
  BY <1>4, ListIs
<1>7. PICK u \in Int, v \in Int : u = semval[s] /\ v = semval'[s]
  BY DEF DataTypes
<1>8. /\ v > u => s \in ns
      /\ v = 0 /\ u # 0 => s \in zs
  BY <1>7 DEF Eases
<1>9. Awaits(call[q].ops[j], k, v)
  BY <1>3, <1>5, <1>6, <1>7, <1>8 DEF Awaits
<1>10. sema'[HdrOf(call'[q].id)].base + call'[q].ops[j].num = s
  BY <1>5 DEF SlotOf
<1>11. /\ j \in DOMAIN call'[q].ops
       /\ sema'[HdrOf(call'[q].id)].base + call'[q].ops[j].num = wchan'[q][2]
       /\ Awaits(call'[q].ops[j], wchan'[q][1], semval'[wchan'[q][2]])
  BY <1>1, <1>3, <1>5, <1>7, <1>9, <1>10
<1> QED
  BY <1>11 DEF HeldBack, SlotOf, HdrOf, Awaits

(* The list of q and where its semaphores are stay. *)
Stays(q) ==
  /\ call'[q] = call[q]
  /\ sema'[HdrOf(call[q].id)].base = sema[HdrOf(call[q].id)].base

LEMMA SameHeld ==
  ASSUME HeldInv, NEW q \in Proc, wchan[q] # NoChan, wchan'[q] = wchan[q], Stays(q),
         semval' = semval
  PROVE  HeldBack(q)'
<1>1. PICK j \in DOMAIN call[q].ops :
        /\ SlotOf(call[q].id, call[q].ops[j].num) = wchan[q][2]
        /\ Awaits(call[q].ops[j], wchan[q][1], semval[wchan[q][2]])
  BY DEF HeldInv, HeldBack
<1>2. sema'[HdrOf(call'[q].id)].base + call'[q].ops[j].num = wchan'[q][2]
  BY <1>1 DEF SlotOf, Stays
<1>3. /\ j \in DOMAIN call'[q].ops
      /\ Awaits(call'[q].ops[j], wchan'[q][1], semval'[wchan'[q][2]])
  BY <1>1 DEF Stays
<1> QED
  BY <1>2, <1>3 DEF HeldBack, SlotOf, HdrOf, Awaits

LEMMA StillHeld ==
  ASSUME HeldInv, semval' = semval,
         \A q \in Proc : /\ wchan'[q] \in {wchan[q], NoChan}
                         /\ wchan[q] # NoChan => Stays(q)
  PROVE  HeldInv'
<1> SUFFICES ASSUME NEW q \in Proc, wchan'[q] # NoChan
             PROVE  HeldBack(q)'
  BY DEF HeldInv
<1>1. wchan[q] # NoChan /\ wchan'[q] = wchan[q] /\ Stays(q)
  OBVIOUS
<1> QED
  BY <1>1, SameHeld

LEMMA WakeHeld ==
  ASSUME CountInv, SetInv, DataTypes, semval' \in [Slot -> Int], HeldInv,
         NEW ns, NEW zs, Wake(ns, zs), Eases(ns, zs),
         \A q \in Proc : wchan[q] # NoChan => Stays(q)
  PROVE  HeldInv'
<1> SUFFICES ASSUME NEW q \in Proc, wchan'[q] # NoChan
             PROVE  HeldBack(q)'
  BY DEF HeldInv
<1>1. PICK w : w = Woken(wchan, Reset(ns, zs))
  OBVIOUS
<1>2. wchan' = w
  BY <1>1 DEF Wake, Reset
<1>3. wchan[q] # NoChan
  BY <1>1, <1>2, WokenIs
<1>4. Stays(q)
  BY <1>3
<1> QED
  BY <1>1, <1>2, <1>4, EasesKeeps DEF Stays

LEMMA OthersStay ==
  ASSUME CountInv, SetInv, NEW p \in Proc, sema' = sema,
         call' = call \/ (wchan[p] = NoChan /\ Finish(p))
  PROVE  \A q \in Proc : wchan[q] # NoChan => Stays(q)
<1>1. CASE call' = call
  BY <1>1 DEF Stays
<1>2. CASE wchan[p] = NoChan /\ Finish(p)
  <2>1. \A q \in Proc \ {p} : call'[q] = call[q]
    BY <1>2, FinishIs DEF CountInv
  <2> QED
    BY <1>2, <2>1 DEF Stays
<1> QED
  BY <1>1, <1>2

LEMMA SemgetHeld ==
  ASSUME CountInv, SetInv, HeldInv, NEW p, semget(p)
  PROVE  HeldInv'
<1>1. PICK h, n, i : Makes(h, n, i)
  BY SemgetIs
<1>2. semval' = semval /\ call' = call /\ wchan' = wchan
  BY SemgetIs
<1>3. ~sema[h].alloc /\ \A g \in Hdr \ {h} : sema'[g] = sema[g]
  BY <1>1, MakesIs DEF Makes, SetInv
<1>4. ASSUME NEW q \in Proc, wchan[q] # NoChan
      PROVE  Stays(q)
  <2>1. HdrOf(call[q].id) \in Hdr \ {h}
    BY <1>3, <1>4, SleeperIs, IdParts DEF semconv
  <2> QED
    BY <2>1, <1>2, <1>3 DEF Stays
<1> QED
  BY <1>2, <1>4, StillHeld

LEMMA RemoveSetHeld ==
  ASSUME CountInv, SetInv, DataTypes, LimitInv, HeldInv, NEW id, Removes(id)
  PROVE  HeldInv'
<1>1. PICK h, own : h = HdrOf(id) /\ own = SlotsOf(h)
  OBVIOUS
<1>2. /\ semval' = ZeroAt(semval, own) /\ Wake(own, own)
      /\ sema' = [sema EXCEPT ![h].alloc = FALSE, ![h].seq = @ + 1]
      /\ UNCHANGED <<pc, call, sig>>
  BY <1>1 DEF Removes
<1>3. semval' \in [Slot -> Int]
  BY <1>2 DEF ZeroAt, DataTypes
<1>4. Eases(own, own)
  <2>1. \A t \in Slot : semval[t] \in Nat
    BY ConstAssumption DEF LimitInv, Within
  <2>2. \A t \in Slot : semval'[t] = IF t \in own THEN 0 ELSE semval[t]
    BY <1>2 DEF ZeroAt
  <2> QED
    BY <2>1, <2>2 DEF Eases
<1>5. ASSUME NEW q \in Proc, wchan[q] # NoChan
      PROVE  Stays(q)
  <2>1. PICK g \in Hdr : g = HdrOf(call[q].id)
    BY <1>5, SleeperIs, IdParts
  <2>2. sema'[g].base = sema[g].base
    BY <2>1, <1>2 DEF SetInv, SetTypes
  <2> QED
    BY <2>1, <2>2, <1>2 DEF Stays
<1> QED
  BY <1>2, <1>3, <1>4, <1>5, WakeHeld

LEMMA SetValHeld ==
  ASSUME CountInv, SetInv, DataTypes, LimitInv, HeldInv, NEW id, NEW num, NEW v,
         Sets(id, num, v)
  PROVE  HeldInv'
<1>1. PICK s : s = SlotOf(id, num)
  OBVIOUS
<1>2. PICK ns, zs : /\ ns = (IF v # 0 THEN {s} ELSE {})
                    /\ zs = (IF v = 0 THEN {s} ELSE {})
  OBVIOUS
<1>3. /\ v \in Nat /\ semval' = [semval EXCEPT ![s] = v]
      /\ Wake(ns, zs) /\ sema' = sema /\ call' = call
  BY <1>1, <1>2, ConstAssumption DEF Sets
<1>4. \A t \in Slot : semval[t] \in Nat
  BY ConstAssumption DEF LimitInv, Within
<1>5. Eases(ns, zs)
  <2> SUFFICES ASSUME NEW t \in Slot
               PROVE  /\ semval'[t] > semval[t] => t \in ns
                      /\ semval'[t] = 0 /\ semval[t] # 0 => t \in zs
    BY DEF Eases
  <2>1. semval'[t] = IF t = s THEN v ELSE semval[t]
    BY <1>3 DEF DataTypes
  <2> QED
    BY <2>1, <1>2, <1>3, <1>4
<1>6. semval' \in [Slot -> Int]
  <2>1. v \in Int
    BY <1>3
  <2> QED
    BY <2>1, <1>3 DEF DataTypes
<1>7. \A q \in Proc : wchan[q] # NoChan => Stays(q)
  BY <1>3 DEF Stays
<1> QED
  BY <1>3, <1>5, <1>6, <1>7, WakeHeld

LEMMA SetAllHeld ==
  ASSUME CountInv, SetInv, DataTypes, LimitInv, HeldInv, NEW id, NEW new,
         SetsAll(id, new)
  PROVE  HeldInv'
<1>1. PICK own : own = SlotsOf(HdrOf(id))
  OBVIOUS
<1>2. PICK ns, zs : /\ ns = {s \in own : new[s] # 0}
                    /\ zs = {s \in own : new[s] = 0}
  OBVIOUS
<1>3. /\ new \in [own -> 0 .. semvmx]
      /\ semval' = [s \in Slot |-> IF s \in own THEN new[s] ELSE semval[s]]
      /\ Wake(ns, zs) /\ sema' = sema /\ call' = call
  BY <1>1, <1>2 DEF SetsAll
<1>4. /\ \A t \in Slot : semval[t] \in Nat
      /\ \A t \in own : new[t] \in Nat
  BY <1>3, ConstAssumption DEF LimitInv, Within
<1>5. Eases(ns, zs)
  <2> SUFFICES ASSUME NEW t \in Slot
               PROVE  /\ semval'[t] > semval[t] => t \in ns
                      /\ semval'[t] = 0 /\ semval[t] # 0 => t \in zs
    BY DEF Eases
  <2>1. semval'[t] = IF t \in own THEN new[t] ELSE semval[t]
    BY <1>3
  <2> QED
    BY <2>1, <1>2, <1>4
<1>6. semval' \in [Slot -> Int]
  BY <1>3, <1>4
<1>7. \A q \in Proc : wchan[q] # NoChan => Stays(q)
  BY <1>3 DEF Stays
<1> QED
  BY <1>3, <1>5, <1>6, <1>7, WakeHeld

LEMMA ExitHeld ==
  ASSUME CountInv, SetInv, DataInv, LimitInv, HeldInv, NEW p \in Proc, semexit(p)
  PROVE  HeldInv'
<1>0. SetTypes /\ Apart /\ Kept /\ DataTypes
  BY DEF SetInv, DataInv
<1>1. PICK ns, zs : /\ ns = Paid({e \in Made(p) : aoe[p][e] > 0})
                    /\ zs = Paid({e \in Made(p) : semval[SlotAt(e)] + aoe[p][e] = 0})
  OBVIOUS
<1>2. Wake(ns, zs) /\ sema' = sema /\ call' = call
  BY <1>1, ExitDoes
<1>3. semval' \in [Slot -> Int]
  BY <1>0, ExitIs
<1>4. \A e \in Made(p) : semval'[SlotAt(e)] = semval[SlotAt(e)] + aoe[p][e]
  BY <1>0, ExitIs
<1>5. /\ \A e \in Dues(p) \ Made(p) : semval'[SlotAt(e)] = semval[SlotAt(e)]
      /\ \A s \in Slot \ Paid(Dues(p)) : semval'[s] = semval[s]
  BY <1>0, ExitIs
<1>6. Eases(ns, zs)
  <2> SUFFICES ASSUME NEW t \in Slot
               PROVE  /\ semval'[t] > semval[t] => t \in ns
                      /\ semval'[t] = 0 /\ semval[t] # 0 => t \in zs
    BY DEF Eases
  <2>1. semval[t] \in Int
    BY <1>0 DEF DataTypes
  <2>2. CASE semval'[t] = semval[t]
    BY <2>1, <2>2
  <2>3. CASE semval'[t] # semval[t]
    <3>1. PICK e \in Dues(p) : t = SlotAt(e)
      BY <2>3, <1>5 DEF Paid
    <3>2. e \in Made(p)
      BY <2>3, <3>1, <1>5
    <3>3. PICK a \in Int : a = aoe[p][e]
      BY <3>1, <1>0, DuesAre
    <3>4. semval'[t] = semval[t] + a
      BY <3>1, <3>2, <3>3, <1>4
    <3>5. a > 0 => t \in ns
      BY <3>1, <3>2, <3>3, <1>1 DEF Paid
    <3>6. semval[t] + a = 0 => t \in zs
      BY <3>1, <3>2, <3>3, <1>1 DEF Paid
    <3> QED
      BY <2>1, <3>3, <3>4, <3>5, <3>6
  <2> QED
    BY <2>2, <2>3
<1>7. \A q \in Proc : wchan[q] # NoChan => Stays(q)
  BY <1>2 DEF Stays
<1> QED
  BY <1>0, <1>2, <1>3, <1>6, <1>7, WakeHeld

(* A list that names a semaphore once has one operation on its slot. *)
LEMMA OnceIs ==
  ASSUME SetTypes, NEW id \in Id, NEW list \in Lists, NamesOnce(list),
         NEW i \in DOMAIN list
  PROVE  On(id, list, SlotOf(id, list[i].num)) = {i}
<1>0. HdrOf(id) \in Hdr
  BY IdParts
<1>1. PICK b \in Int : b = sema[HdrOf(id)].base
  BY <1>0 DEF SetTypes
<1>2. ASSUME NEW j \in DOMAIN list, SlotOf(id, list[j].num) = SlotOf(id, list[i].num)
      PROVE  j = i
  <2>1. PICK m \in Int, n \in Int : m = list[i].num /\ n = list[j].num
    BY ListIs
  <2>2. b + n = b + m
    BY <1>1, <1>2, <2>1 DEF SlotOf
  <2>3. n = m
    BY <2>2
  <2> QED
    BY <2>1, <2>3 DEF NamesOnce
<1> QED
  BY <1>2 DEF On

LEMMA OncePart ==
  ASSUME NEW list \in Lists, NEW i \in DOMAIN list, NEW Q, Q = {i},
         NEW n \in 0 .. Len(list)
  PROVE  Part(list, Q, n) = IF i <= n THEN list[i].op ELSE 0
<1> DEFINE A == {j \in 1 .. n : j \in Q}
<1>0. Len(list) \in Nat /\ DOMAIN list = 1 .. Len(list) /\ list[i].op \in Int
  BY ListIs
<1>1. Part(list, Q, n) = Net(list, A)
  BY DEF Part
<1>2. CASE i <= n
  <2>1. A = {i} /\ A \ {i} = {} /\ A \in SUBSET DOMAIN list
    BY <1>0, <1>2
  <2> HIDE DEF A
  <2>2. Net(list, A) = list[i].op + Net(list, A \ {i})
    BY <2>1, NetIs
  <2>3. Net(list, A \ {i}) = 0
    BY <2>1, NetEmpty
  <2> QED
    BY <1>0, <1>1, <1>2, <2>2, <2>3
<1>3. CASE ~(i <= n)
  <2>1. A = {}
    BY <1>0, <1>3
  <2> QED
    BY <1>1, <1>3, <2>1, NetEmpty
<1> QED
  BY <1>2, <1>3

(* Before its one operation a list leaves a semaphore alone, and after it  *)
(* the value is changed by that operation.                                 *)
LEMMA OnceValue ==
  ASSUME SetTypes, DataTypes, NEW id \in Id, NEW list \in Lists, NamesOnce(list),
         NEW i \in DOMAIN list, NEW s \in Slot, s = SlotOf(id, list[i].num)
  PROVE  /\ ValueAfter(id, list, i - 1, s) = semval[s]
         /\ ValueAfter(id, list, i, s) = semval[s] + list[i].op
         /\ ValueAfter(id, list, Len(list), s) = semval[s] + list[i].op
<1>0. /\ Len(list) \in Nat /\ i \in 1 .. Len(list) /\ list[i].op \in Int
      /\ semval[s] \in Int
  BY ListIs DEF DataTypes
<1>1. On(id, list, s) = {i}
  BY OnceIs
<1>2. i - 1 \in 0 .. Len(list) /\ i \in 0 .. Len(list) /\ Len(list) \in 0 .. Len(list)
  BY <1>0
<1>3. ASSUME NEW n \in 0 .. Len(list)
      PROVE  ValueAfter(id, list, n, s) = semval[s] + (IF i <= n THEN list[i].op ELSE 0)
  <2>1. Part(list, On(id, list, s), n) = IF i <= n THEN list[i].op ELSE 0
    BY <1>1, OncePart
  <2> QED
    BY <2>1, ValueIs
<1>4. ~(i <= i - 1) /\ i <= i /\ i <= Len(list)
  BY <1>0
<1>5. ValueAfter(id, list, i - 1, s) = semval[s] + 0
  BY <1>2, <1>3, <1>4
<1> QED
  BY <1>0, <1>2, <1>3, <1>4, <1>5

LEMMA SucceedHeld ==
  ASSUME CountInv, SetInv, DataTypes, LimitInv, HeldInv, NEW p \in Proc, Runs(p),
         NEW id \in Id, NEW list \in Lists, NamesOnce(list), Holds(id, list),
         Succeed(p, id, list), sema' = sema
  PROVE  HeldInv'
<1>0. SetTypes
  BY DEF SetInv
<1> DEFINE n == Len(list)
<1>1. PICK ns, zs : ns = Raised(id, list, n + 1) /\ zs = Emptied(id, list, n + 1)
  OBVIOUS
<1>2. /\ Wake(ns, zs) /\ Finish(p)
      /\ \A s \in Slot : semval'[s] = ValueAfter(id, list, n, s)
  BY <1>1 DEF Succeed
<1>3. semval' \in [Slot -> Int]
  BY SucceedIs
<1>4. n \in Nat /\ DOMAIN list = 1 .. n /\ (n + 1) - 1 = n /\ n \in 0 .. Len(list)
  BY ListIs
<1>5. Eases(ns, zs)
  <2> SUFFICES ASSUME NEW t \in Slot
               PROVE  /\ semval'[t] > semval[t] => t \in ns
                      /\ semval'[t] = 0 /\ semval[t] # 0 => t \in zs
    BY DEF Eases
  <2>1. semval[t] \in Int
    BY DEF DataTypes
  <2>2. CASE \E i \in DOMAIN list : t = SlotOf(id, list[i].num)
    <3>1. PICK i \in DOMAIN list : t = SlotOf(id, list[i].num)
      BY <2>2
    <3>2. PICK o \in Int : o = list[i].op
      BY ListIs
    <3>3. /\ ValueAfter(id, list, i, t) = semval[t] + o
          /\ ValueAfter(id, list, n, t) = semval[t] + o
      BY <1>0, <3>1, <3>2, OnceValue
    <3>4. semval'[t] = semval[t] + o
      BY <1>2, <3>3
    <3>5. i \in 1 .. (n + 1) - 1
      BY <1>4
    <3> HIDE DEF n
    <3>6. o > 0 => t \in ns
      BY <1>1, <3>1, <3>2, <3>5 DEF Raised
    <3>7. o # 0 /\ semval[t] + o = 0 => t \in zs
      BY <1>1, <3>1, <3>2, <3>3, <3>5 DEF Emptied
    <3> QED
      BY <2>1, <3>2, <3>4, <3>6, <3>7
  <2>3. CASE \A i \in DOMAIN list : t # SlotOf(id, list[i].num)
    <3>1. On(id, list, t) = {}
      BY <2>3 DEF On
    <3>2. Part(list, On(id, list, t), n) = 0
      BY <3>1, PartElsewhere
    <3>3. semval'[t] = semval[t] + Part(list, On(id, list, t), n)
      BY SucceedIs
    <3>4. semval'[t] = semval[t]
      BY <2>1, <3>2, <3>3
    <3> QED
      BY <2>1, <3>4
  <2> QED
    BY <2>2, <2>3
<1>6. \A q \in Proc : wchan[q] # NoChan => Stays(q)
  BY <1>2, OthersStay DEF Runs
<1> QED
  BY <1>2, <1>3, <1>5, <1>6, WakeHeld

LEMMA BlockHeld ==
  ASSUME CountInv, SetInv, DataTypes, HeldInv, NEW p \in Proc,
         NEW id \in Id, NEW list \in Lists, NamesOnce(list), Holds(id, list),
         Block(p, id, list, list), sema' = sema
  PROVE  HeldInv'
<1>0. SetTypes /\ Apart /\ DOMAIN wchan = Proc /\ DOMAIN call = Proc
  BY DEF SetInv, CountInv, ProcTypes
<1>1. PICK n : n = Stop(p, id, list)
  OBVIOUS
<1>2. PICK ns, zs : ns = Raised(id, list, n) /\ zs = Emptied(id, list, n)
  OBVIOUS
<1>3. PICK k : k = IF list[n].op < 0 THEN "n" ELSE "z"
  OBVIOUS
<1>4. PICK s : s = SlotOf(id, list[n].num)
  OBVIOUS
<1>5. /\ n \in DOMAIN list /\ Waits(id, list, n)
      /\ semval' = semval
  BY <1>1 DEF Block
<1>6. PICK c : Blocks(p, id, list, ns, zs, k, s, c)
  BY <1>1, <1>2, <1>3, <1>4, BlockIs
<1>7. PICK w : w = Woken(wchan, Reset(ns, zs))
  OBVIOUS
<1>8. /\ c.id = id /\ c.ops = list
      /\ wchan' = [w EXCEPT ![p] = <<k, s>>] /\ call' = [call EXCEPT ![p] = c]
      /\ DOMAIN w = Proc /\ \A q \in Proc : w[q] \in {wchan[q], NoChan}
  BY <1>6, <1>7, WokenIs DEF Blocks
<1>9. s \in Slot
  <2>1. HdrOf(id) \in Hdr /\ s \in SlotsOf(HdrOf(id))
    BY <1>0, <1>4, <1>5, NamedSlot, IdParts
  <2> QED
    BY <2>1, <1>0 DEF Apart
<1>10. Awaits(list[n], k, semval[s])
  <2>1. ValueAfter(id, list, n - 1, s) = semval[s]
    BY <1>0, <1>4, <1>5, <1>9, OnceValue
  <2>2. PICK o \in Int : o = list[n].op
    BY <1>5, ListIs
  <2>3. PICK v \in Int : v = semval[s]
    BY <1>9 DEF DataTypes
  <2>4. /\ o <= 0
        /\ ~(/\ o > 0 => v + o <= semvmx
             /\ o < 0 => v >= -o
             /\ o = 0 => v = 0)
    BY <1>4, <1>5, <2>1, <2>2, <2>3 DEF Waits, Fits
  <2>5. CASE o < 0
    <3>1. k = "n" /\ v < -o
      BY <1>3, <2>2, <2>4, <2>5
    <3> QED
      BY <3>1, <2>2, <2>3, <2>5 DEF Awaits
  <2>6. CASE o = 0
    <3>1. k = "z" /\ v # 0
      BY <1>3, <2>2, <2>4, <2>6
    <3> QED
      BY <3>1, <2>2, <2>3, <2>6 DEF Awaits
  <2> QED
    BY <2>4, <2>5, <2>6
<1> SUFFICES ASSUME NEW q \in Proc, wchan'[q] # NoChan
             PROVE  HeldBack(q)'
  BY DEF HeldInv
<1>11. CASE q = p
  <2>1. wchan'[q] = <<k, s>> /\ call'[q] = c
    BY <1>0, <1>8, <1>11
  <2>2. sema'[HdrOf(call'[q].id)].base + call'[q].ops[n].num = wchan'[q][2]
    BY <2>1, <1>4, <1>8 DEF SlotOf
  <2>3. /\ n \in DOMAIN call'[q].ops
        /\ Awaits(call'[q].ops[n], wchan'[q][1], semval'[wchan'[q][2]])
    BY <2>1, <1>5, <1>8, <1>10
  <2> QED
    BY <2>2, <2>3 DEF HeldBack, SlotOf, HdrOf, Awaits
<1>12. CASE q # p
  <2>1. wchan'[q] = wchan[q] /\ wchan[q] # NoChan /\ call'[q] = call[q]
    BY <1>0, <1>8, <1>12
  <2> QED
    BY <2>1, <1>5, SameHeld DEF Stays
<1> QED
  BY <1>11, <1>12

LEMMA HeldInvariance ==
  ASSUME CountsFit, PageFault = FALSE, \A list \in Lists : NamesOnce(list)
  PROVE  Spec => [](CountInv /\ SetInv /\ DataInv /\ HeldInv)
<1>1. Init => HeldInv
  BY DEF Init, HeldInv
<1>2. CountInv /\ SetInv /\ DataInv /\ LimitInv /\ HeldInv /\ [Next]_vars => HeldInv'
  <2> SUFFICES ASSUME CountInv, SetInv, DataInv, LimitInv, HeldInv, [Next]_vars
               PROVE  HeldInv'
    OBVIOUS
  <2>a. DataTypes /\ Asleep /\ ProcTypes
    BY DEF DataInv, CountInv
  <2>0. UNCHANGED <<sema, semval, call, wchan>> => HeldInv'
    BY StillHeld DEF Stays
  <2>1. CASE UNCHANGED vars
    BY <2>0, <2>1 DEF vars, semVars, procVars
  <2>2. CASE Next
    <3>1. PICK p \in Proc :
            \/ semget(p) \/ RemoveSet(p) \/ SetVal(p) \/ SetAll(p)
            \/ Semop(p) \/ Again(p) \/ Removed(p) \/ FaultOver(p)
            \/ Interrupted(p) \/ Signal(p) \/ semexit(p)
      BY <2>2 DEF Next
    <3>2. CASE semget(p)
      BY <3>2, SemgetHeld
    <3>3. CASE RemoveSet(p)
      BY <2>a, <3>3, RemoveSetIs, RemoveSetHeld
    <3>4. CASE SetVal(p)
      BY <2>a, <3>4, SetValIs, SetValHeld
    <3>5. CASE SetAll(p)
      BY <2>a, <3>5, SetAllIs, SetAllHeld
    <3>6. CASE semexit(p)
      BY <3>6, ExitHeld
    <3>7. CASE Removed(p) \/ Interrupted(p) \/ Signal(p)
      <4>1. semval' = semval /\ sema' = sema
        BY <3>7 DEF Removed, Interrupted, Signal, semVars
      <4>2. call' = call \/ (wchan[p] = NoChan /\ Finish(p))
        <5>1. CASE Removed(p)
          BY <5>1 DEF Removed
        <5>2. CASE Interrupted(p)
          BY <5>2 DEF Interrupted
        <5>3. CASE Signal(p)
          BY <5>3 DEF Signal
        <5> QED
          BY <3>7, <5>1, <5>2, <5>3
      <4>3. \A q \in Proc : wchan'[q] \in {wchan[q], NoChan}
        BY <2>a, <3>7, WokenIs DEF Removed, Interrupted, Signal, ProcTypes
      <4>4. \A q \in Proc : wchan[q] # NoChan => Stays(q)
        BY <4>1, <4>2, OthersStay
      <4> QED
        BY <4>1, <4>3, <4>4, StillHeld
    <3>8. CASE Semop(p) \/ Again(p) \/ FaultOver(p)
      <4>1. CASE UNCHANGED <<semVars, undoVars, procVars, settled>>
        BY <2>0, <4>1 DEF semVars, procVars
      <4>2. CASE \E id, list : Calls(p, id, list)
        <5>1. PICK id, list : Calls(p, id, list)
          BY <4>2
        <5>2. /\ id \in Id /\ list \in Lists /\ Holds(id, list) /\ Runs(p)
              /\ sema' = sema /\ NamesOnce(list)
              /\ \/ Succeed(p, id, list) \/ Fail(p, id, list)
                 \/ Block(p, id, list, list)
          BY <5>1 DEF Calls, Operate
        <5>3. CASE Succeed(p, id, list)
          BY <2>a, <5>2, <5>3, SucceedHeld
        <5>4. CASE Fail(p, id, list)
          <6>1. semval' = semval /\ Finish(p) /\ \E ns, zs : Wake(ns, zs)
            BY <5>4 DEF Fail
          <6>2. \A q \in Proc : wchan'[q] \in {wchan[q], NoChan}
            BY <6>1, WokenIs DEF Wake
          <6>3. \A q \in Proc : wchan[q] # NoChan => Stays(q)
            BY <5>2, <6>1, OthersStay DEF Runs
          <6> QED
            BY <6>1, <6>2, <6>3, StillHeld
        <5>5. CASE Block(p, id, list, list)
          BY <2>a, <5>2, <5>5, BlockHeld
        <5> QED
          BY <5>2, <5>3, <5>4, <5>5
      <4> QED
        BY <3>8, <4>1, <4>2, SemopIs
    <3> QED
      BY <3>1, <3>2, <3>3, <3>4, <3>5, <3>6, <3>7, <3>8
  <2> QED
    BY <2>1, <2>2
<1> QED
  BY <1>1, <1>2, LimitInvariance, PTL DEF Spec

(* No wakeup is lost: a process is asleep in semop only while the value    *)
(* that stopped it still does, for lists that name a semaphore once.  One  *)
(* that takes a semaphore and then waits for it to be zero tells semop     *)
(* nothing of the value it would need at entry.                            *)
THEOREM SleepersMustWait ==
  ASSUME CountsFit, PageFault = FALSE, \A list \in Lists : NamesOnce(list)
  PROVE  Spec => []NoSleeperCouldRun
<1>1. CountInv /\ SetInv /\ DataInv /\ HeldInv => NoSleeperCouldRun
  <2> SUFFICES ASSUME CountInv, SetInv, DataInv, HeldInv, NEW p \in Proc,
                      wchan[p] # NoChan
               PROVE  \E j \in DOMAIN call[p].ops : ~Fits(call[p].id, call[p].ops, j)
    BY DEF NoSleeperCouldRun
  <2>0. SetTypes /\ DataTypes
    BY DEF SetInv, DataInv
  <2>1. PICK k \in {"n", "z"} : \E s \in Slot : wchan[p] = <<k, s>>
    BY SleeperIs
  <2>2. PICK s \in Slot : wchan[p] = <<k, s>>
    BY <2>1
  <2>3. PICK id \in Id, list \in Lists : id = call[p].id /\ list = call[p].ops
    BY SleeperIs
  <2>4. PICK j \in DOMAIN list : s = SlotOf(id, list[j].num) /\ Awaits(list[j], k, semval[s])
    <3>1. HeldBack(p)
      BY DEF HeldInv
    <3>2. wchan[p][1] = k /\ wchan[p][2] = s
      BY <2>2
    <3> QED
      BY <2>3, <3>1, <3>2 DEF HeldBack
  <2>5. ValueAfter(id, list, j - 1, s) = semval[s]
    BY <2>0, <2>4, OnceValue
  <2>6. PICK o \in Int : o = list[j].op
    BY ListIs
  <2>7. ~(/\ o < 0 => semval[s] >= -o
          /\ o = 0 => semval[s] = 0)
    <3>1. semval[s] \in Int
      BY <2>0 DEF DataTypes
    <3> QED
      BY <3>1, <2>4, <2>6 DEF Awaits
  <2>8. ~Fits(id, list, j)
    BY <2>4, <2>5, <2>6, <2>7 DEF Fits
  <2> QED
    BY <2>3, <2>8
<1> QED
  BY <1>1, HeldInvariance, PTL
=============================================================================
